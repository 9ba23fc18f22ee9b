---------------------------- MODULE MCRelayStream ----------------------------
(* One tunnel for TLC.  On a windowed tunnel streams meet only their own    *)
(* counters, so one asks there, for a file over two windows.  On an         *)
(* unwindowed one a page, a head alone, is asked behind a file that does    *)
(* not fit in the relay's buffer, while some is queued and some under way.  *)
EXTENDS RelayStream

CONSTANTS file, page

MCInit ==
    /\ Init
    /\ home[page].size = 0
    /\ ~flow => keeps /\ home[file].size = 2
    /\ flow => home[file].size = 8

PageAsked == cloud[page].pc = "idle" /\ cloud'[page].pc # "idle"

MCNext == Next /\ (PageAsked => ~flow /\ cloud[file].q > 0 /\ wire[file].bytes > 0)

MCSpec == MCInit /\ [][MCNext]_vars /\ Fairness
==============================================================================
