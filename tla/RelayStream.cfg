SPECIFICATION MCSpec
CONSTANTS
    file = file  page = page
    Streams = {file, page}
    Window = 3
    Slack = 1
    LegacyMax = 1
    Grant = 2
    MaxChunk = 2
    HeadLen = 1
    Sizes = {0, 2, 8}
    None = None
INVARIANTS TypeOK WindowKept WholeBody CreditMoves
PROPERTIES  StreamsEnd HomeLetsGo
CHECK_DEADLOCK FALSE
