------------------------------ MODULE RelayStream ------------------------------
(* One tunnel between a home and the cloud's relay, and the requests proxied   *)
(* over it (cloud/internal/relay/tunnel.go on the relay, cloudlink/            *)
(* multiplex.go and proxy.go in the home).  The relay asks, the home reads the *)
(* answer from its own API and sends it in chunks, the relay buffers them per  *)
(* stream until its client reads.  On a windowed tunnel a stream spends a      *)
(* credit that the relay gives back, in batches, as its client reads; on an    *)
(* older one the relay's single read loop waits for the client.                *)
(*                                                                             *)
(* Frames of one stream stay in order, so each direction is the counters of    *)
(* what is under way: a head, some bytes of body, an end.  The bytes of a      *)
(* frame may be split or joined on the way, which allows more, not less.       *)
EXTENDS Naturals

CONSTANTS
    Streams,    \* stream ids; an id is used once (atomic nextID)
    Window,     \* InitialWindow
    Slack,      \* flowBufferMax - InitialWindow
    LegacyMax,  \* legacyBufferMax
    Grant,      \* grantEvery
    MaxChunk,   \* the home's read buffer, 32 KiB
    HeadLen,    \* the longest RESPONSE_HEAD
    Sizes,      \* lengths of the answers' bodies
    None

ASSUME Lengths ==
    /\ Window \in Nat /\ Slack \in Nat /\ LegacyMax \in Nat
    /\ Grant \in Nat \ {0} /\ MaxChunk \in Nat \ {0} /\ HeadLen \in Nat
    /\ Sizes \subseteq Nat
    /\ None \notin Streams

\* Window - grantEvery leaves room for a chunk (1 MiB, 256 KiB, 32 KiB), and
\* a head fits in the slack (64 KiB).
ASSUME Fitting ==
    /\ Grant + MaxChunk =< Window + 1
    /\ HeadLen =< Slack

VARIABLES
    flow,       \* negotiated at AUTH: the tunnel is windowed
    keeps,      \* the home sends no more than its credit (a broken one may)
    relayOpen,  \* the relay has not closed the tunnel
    homeOpen,   \* the home has not closed it
    stuck,      \* the stream whose frame the relay's read loop waits to queue
    cloud,      \* the relay's streams and their clients
    wire,       \* under way from the home
    home,       \* the home's handlers
    back        \* under way to the home

vars == <<flow, keeps, relayOpen, homeOpen, stuck, cloud, wire, home, back>>

--------------------------------------------------------------------------------

Ends == {"none", "eof", "close"}

Live == {"called", "serving", "sending"}

Clouds == [pc : {"idle", "head", "body", "done", "failed"}, reg : BOOLEAN, paused : BOOLEAN,
           head : BOOLEAN, q : Nat, end : Ends,
           err : {"none", "overflow", "stalled", "closed"}, unacked : Nat, got : Nat]

Wires == [head : BOOLEAN, bytes : Nat, end : Ends]

Homes == [pc : {"none", "ended"} \cup Live, size : Sizes, left : Nat, chunk : Nat,
          avail : Nat, stop : BOOLEAN]

Backs == [req : BOOLEAN, win : Nat, close : BOOLEAN]

TypeOK ==
    /\ flow \in BOOLEAN /\ keeps \in BOOLEAN
    /\ relayOpen \in BOOLEAN /\ homeOpen \in BOOLEAN
    /\ stuck \in Streams \cup {None}
    /\ cloud \in [Streams -> Clouds] /\ wire \in [Streams -> Wires]
    /\ home \in [Streams -> Homes] /\ back \in [Streams -> Backs]

Init ==
    /\ flow \in BOOLEAN /\ keeps \in BOOLEAN
    /\ relayOpen = TRUE /\ homeOpen = TRUE /\ stuck = None
    /\ cloud = [s \in Streams |-> [pc |-> "idle", reg |-> FALSE, paused |-> FALSE,
                                   head |-> FALSE, q |-> 0, end |-> "none", err |-> "none",
                                   unacked |-> 0, got |-> 0]]
    /\ wire = [s \in Streams |-> [head |-> FALSE, bytes |-> 0, end |-> "none"]]
    /\ home \in {[s \in Streams |-> [pc |-> "none", size |-> size[s], left |-> size[s],
                                     chunk |-> 0, avail |-> 0, stop |-> FALSE]]
                 : size \in [Streams -> Sizes]}
    /\ back = [s \in Streams |-> [req |-> FALSE, win |-> 0, close |-> FALSE]]

--------------------------------------------------------------------------------
(* The relay: a request, and what its client does.                             *)

\* closeStream: best effort, nothing leaves a closed tunnel
TellHome(s) ==
    back' = [back EXCEPT ![s].close = relayOpen \/ @]

\* release and abandon: unregistered, nobody reads what is queued
Released(s, pc) ==
    cloud' = [cloud EXCEPT ![s].pc = pc, ![s].reg = FALSE, ![s].paused = FALSE,
                           ![s].head = FALSE, ![s].q = 0, ![s].end = "none"]

\* ProxyWithin: the stream is registered before its request leaves
Ask(s) ==
    /\ relayOpen /\ cloud[s].pc = "idle"
    /\ cloud' = [cloud EXCEPT ![s].pc = "head", ![s].reg = TRUE]
    /\ back' = [back EXCEPT ![s].req = TRUE]
    /\ UNCHANGED <<flow, keeps, relayOpen, homeOpen, stuck, wire, home>>

TakeHead(s) ==
    /\ cloud[s].pc = "head" /\ cloud[s].head
    /\ cloud' = [cloud EXCEPT ![s].pc = "body", ![s].head = FALSE]
    /\ UNCHANGED <<flow, keeps, relayOpen, homeOpen, stuck, wire, home, back>>

\* MUTANT of Granted: credit only once a whole window was read
GrantedLate(u) == u >= Window

\* streamBody.Read and grant: what the client read is credited in batches
Granted(u) == u >= Grant

\* MUTANT of Read: the batch is granted and not reset
ReadGrantsAgain(s) ==
    \E n \in 1..MaxChunk :
        LET u == IF flow THEN cloud[s].unacked + n ELSE 0
        IN  /\ cloud[s].pc = "body" /\ ~cloud[s].paused /\ n =< cloud[s].q
            /\ cloud' = [cloud EXCEPT ![s].q = @ - n, ![s].got = @ + n, ![s].unacked = u]
            /\ back' = [back EXCEPT ![s].win = IF Granted(u) /\ relayOpen THEN @ + u ELSE @]
            /\ UNCHANGED <<flow, keeps, relayOpen, homeOpen, stuck, wire, home>>

Read(s) ==
    \E n \in 1..MaxChunk :
        LET u == IF flow THEN cloud[s].unacked + n ELSE 0
        IN  /\ cloud[s].pc = "body" /\ ~cloud[s].paused /\ n =< cloud[s].q
            /\ cloud' = [cloud EXCEPT ![s].q = @ - n, ![s].got = @ + n,
                                      ![s].unacked = IF Granted(u) THEN 0 ELSE u]
            /\ back' = [back EXCEPT ![s].win = IF Granted(u) /\ relayOpen THEN @ + u ELSE @]
            /\ UNCHANGED <<flow, keeps, relayOpen, homeOpen, stuck, wire, home>>

\* the home's last frame: its EOF, or its word that the answer broke off
ReadEnd(s) ==
    /\ cloud[s].pc = "body" /\ ~cloud[s].paused
    /\ cloud[s].q = 0 /\ cloud[s].end # "none"
    /\ Released(s, IF cloud[s].end = "eof" THEN "done" ELSE "failed")
    /\ UNCHANGED <<flow, keeps, relayOpen, homeOpen, stuck, wire, home, back>>

\* pop: once the queue is empty the stream's error ends it
Broken(s) ==
    /\ cloud[s].pc \in {"head", "body"} /\ ~cloud[s].paused
    /\ cloud[s].err # "none" /\ ~cloud[s].head /\ cloud[s].q = 0 /\ cloud[s].end = "none"
    /\ Released(s, "failed")
    /\ TellHome(s)
    /\ UNCHANGED <<flow, keeps, relayOpen, homeOpen, stuck, wire, home>>

\* the client leaves, its write times out, or no head came in time
Leave(s) ==
    /\ cloud[s].pc \in {"head", "body"}
    /\ Released(s, "failed")
    /\ TellHome(s)
    /\ UNCHANGED <<flow, keeps, relayOpen, homeOpen, stuck, wire, home>>

\* the client stops taking what is written to it, and goes on
Pause(s) ==
    /\ cloud[s].pc = "body"
    /\ cloud' = [cloud EXCEPT ![s].paused = ~@]
    /\ UNCHANGED <<flow, keeps, relayOpen, homeOpen, stuck, wire, home, back>>

--------------------------------------------------------------------------------
(* The relay's read loop: readLoop, dispatch, stream.push.                     *)

\* nothing else is read while a frame waits for its queue
Reading(s) == relayOpen /\ stuck \in {None, s}

Takes(s) == cloud[s].reg /\ cloud[s].err = "none"

QBytes(s) == cloud[s].q + (IF cloud[s].head THEN HeadLen ELSE 0)

Overflows(s, n) == flow /\ QBytes(s) + n > Window + Slack

Waits(s, n) == ~flow /\ QBytes(s) > 0 /\ QBytes(s) + n > LegacyMax

Frame(s, n) ==
    /\ Reading(s) /\ ~wire[s].head /\ n \in 1..MaxChunk /\ n =< wire[s].bytes

PushHead(s) ==
    /\ Reading(s) /\ wire[s].head
    /\ wire' = [wire EXCEPT ![s].head = FALSE]
    /\ cloud' = [cloud EXCEPT ![s].head = Takes(s)]
    /\ UNCHANGED <<flow, keeps, relayOpen, homeOpen, stuck, home, back>>

\* a frame of a stream nobody reads is dropped
PushBody(s) ==
    \E n \in 1..MaxChunk :
        /\ Frame(s, n)
        /\ Takes(s) => ~Overflows(s, n) /\ ~Waits(s, n)
        /\ wire' = [wire EXCEPT ![s].bytes = @ - n]
        /\ cloud' = [cloud EXCEPT ![s].q = IF Takes(s) THEN @ + n ELSE @]
        /\ stuck' = None
        /\ UNCHANGED <<flow, keeps, relayOpen, homeOpen, home, back>>

\* MUTANT of Failed: the frame that does not fit is dropped, the stream goes on
FailedDrops(s, n, err) ==
    /\ wire' = [wire EXCEPT ![s].bytes = @ - n]
    /\ stuck' = None
    /\ UNCHANGED <<flow, keeps, relayOpen, homeOpen, cloud, home, back>>

Failed(s, n, err) ==
    /\ wire' = [wire EXCEPT ![s].bytes = @ - n]
    /\ cloud' = [cloud EXCEPT ![s].reg = FALSE, ![s].err = err]
    /\ TellHome(s)
    /\ stuck' = None
    /\ UNCHANGED <<flow, keeps, relayOpen, homeOpen, home>>

\* a home over its window has its stream failed, never a frame dropped
Overflow(s) ==
    \E n \in 1..MaxChunk :
        /\ Frame(s, n) /\ Takes(s) /\ Overflows(s, n)
        /\ Failed(s, n, "overflow")

Wait(s) ==
    /\ stuck = None
    /\ \E n \in 1..MaxChunk : Frame(s, n) /\ Takes(s) /\ Waits(s, n)
    /\ stuck' = s
    /\ UNCHANGED <<flow, keeps, relayOpen, homeOpen, cloud, wire, home, back>>

\* legacyPushWait passed before the client made room
Stall(s) ==
    /\ stuck = s
    /\ \E n \in 1..MaxChunk :
        /\ Frame(s, n) /\ Takes(s) /\ Waits(s, n)
        /\ Failed(s, n, "stalled")

PushEnd(s) ==
    /\ Reading(s) /\ ~wire[s].head /\ wire[s].bytes = 0 /\ wire[s].end # "none"
    /\ wire' = [wire EXCEPT ![s].end = "none"]
    /\ cloud' = [cloud EXCEPT ![s].end = IF Takes(s) THEN wire[s].end ELSE @]
    /\ stuck' = None
    /\ UNCHANGED <<flow, keeps, relayOpen, homeOpen, home, back>>

\* MUTANT of CloudCloses: the streams are left waiting
CloudClosesSilently ==
    /\ relayOpen
    /\ relayOpen' = FALSE /\ stuck' = None
    /\ UNCHANGED <<flow, keeps, homeOpen, cloud, wire, home, back>>

\* Tunnel.Close: a newer tunnel, a drain's deadline, a dead connection
CloudCloses ==
    /\ relayOpen
    /\ relayOpen' = FALSE /\ stuck' = None
    /\ cloud' = [s \in Streams |-> [cloud[s] EXCEPT
                     !.err = IF cloud[s].reg /\ @ = "none" THEN "closed" ELSE @]]
    /\ UNCHANGED <<flow, keeps, homeOpen, wire, home, back>>

--------------------------------------------------------------------------------
(* The home: its read loop (Multiplexer.dispatch) and its handlers.            *)

\* the request is complete: a handler is started, its credit is there at once
Called(s) ==
    /\ homeOpen /\ back[s].req
    /\ back' = [back EXCEPT ![s].req = FALSE]
    /\ home' = [home EXCEPT ![s].pc = "called", ![s].avail = IF flow THEN Window ELSE 0]
    /\ UNCHANGED <<flow, keeps, relayOpen, homeOpen, stuck, cloud, wire>>

Credited(s) ==
    /\ homeOpen /\ ~back[s].req /\ back[s].win > 0
    /\ back' = [back EXCEPT ![s].win = 0]
    /\ home' = [home EXCEPT ![s].avail = IF home[s].pc \in Live THEN @ + back[s].win ELSE @]
    /\ UNCHANGED <<flow, keeps, relayOpen, homeOpen, stuck, cloud, wire>>

\* CLOSE_STREAM cancels the handler it finds: one that is started but has not
\* registered yet goes on
ToldToStop(s) ==
    /\ homeOpen /\ ~back[s].req /\ back[s].close
    /\ back' = [back EXCEPT ![s].close = FALSE]
    /\ home' = [home EXCEPT ![s].stop = home[s].pc \in {"serving", "sending"} \/ @]
    /\ UNCHANGED <<flow, keeps, relayOpen, homeOpen, stuck, cloud, wire>>

\* handle: the cancel is registered, unless the tunnel is gone by now
Serve(s) ==
    /\ home[s].pc = "called"
    /\ home' = [home EXCEPT ![s].pc = IF homeOpen THEN "serving" ELSE "ended"]
    /\ UNCHANGED <<flow, keeps, relayOpen, homeOpen, stuck, cloud, wire, back>>

Answer(s) ==
    /\ home[s].pc = "serving" /\ homeOpen
    /\ home' = [home EXCEPT ![s].pc = "sending"]
    /\ wire' = [wire EXCEPT ![s].head = TRUE]
    /\ UNCHANGED <<flow, keeps, relayOpen, homeOpen, stuck, cloud, back>>

\* LocalProxy.fail: the home's API did not answer, or the call was cancelled
AnswerFails(s) ==
    /\ home[s].pc = "serving" /\ homeOpen
    /\ home' = [home EXCEPT ![s].pc = "ended"]
    /\ wire' = [wire EXCEPT ![s].head = TRUE, ![s].end = "close"]
    /\ UNCHANGED <<flow, keeps, relayOpen, homeOpen, stuck, cloud, back>>

ReadFile(s) ==
    \E n \in 1..MaxChunk :
        /\ home[s].pc = "sending" /\ home[s].chunk = 0 /\ n =< home[s].left /\ ~home[s].stop
        /\ home' = [home EXCEPT ![s].chunk = n, ![s].left = @ - n]
        /\ UNCHANGED <<flow, keeps, relayOpen, homeOpen, stuck, cloud, wire, back>>

\* credit.take: a chunk is sent whole, once there is credit for all of it
Metered == flow /\ keeps

\* MUTANT of Afford: any credit will do
AffordSome(s) == Metered => home[s].avail > 0

Afford(s) == Metered => home[s].chunk =< home[s].avail

Send(s) ==
    /\ homeOpen /\ home[s].pc = "sending" /\ home[s].chunk > 0 /\ Afford(s)
    /\ wire' = [wire EXCEPT ![s].bytes = @ + home[s].chunk]
    /\ home' = [home EXCEPT ![s].chunk = 0,
                            ![s].avail = IF Metered THEN @ - home[s].chunk ELSE @]
    /\ UNCHANGED <<flow, keeps, relayOpen, homeOpen, stuck, cloud, back>>

Ended(s, end) ==
    /\ home' = [home EXCEPT ![s].pc = "ended"]
    /\ wire' = [wire EXCEPT ![s].end = end]
    /\ UNCHANGED <<flow, keeps, relayOpen, homeOpen, stuck, cloud, back>>

SendEnd(s) ==
    /\ homeOpen /\ home[s].pc = "sending" /\ home[s].chunk = 0 /\ home[s].left = 0
    /\ Ended(s, "eof")

\* the body broke off: the API failed, or the call was cancelled
FileFails(s) ==
    /\ homeOpen /\ home[s].pc = "sending" /\ home[s].chunk = 0
    /\ Ended(s, "close")

\* MUTANT of GivesUp: a wait for credit ends only when the call is cancelled
GivesUpIfTold(s) ==
    /\ home[s].pc = "sending" /\ home[s].chunk > 0 /\ ~Afford(s)
    /\ home[s].stop /\ Ended(s, wire[s].end)

\* nobody is left to grant: cancelled, or creditTimeout (which is longer than
\* any client is waited for, so only a stream the relay gave up meets it)
GivesUp(s) ==
    /\ home[s].pc = "sending" /\ home[s].chunk > 0 /\ ~Afford(s)
    /\ \/ home[s].stop /\ Ended(s, wire[s].end)
       \/ homeOpen /\ ~home[s].stop /\ ~cloud[s].reg /\ Ended(s, "close")

\* serveTimeout bounds the call on an unwindowed tunnel
TimesOut(s) ==
    /\ ~flow /\ home[s].pc \in {"serving", "sending"} /\ ~home[s].stop
    /\ home' = [home EXCEPT ![s].stop = TRUE]
    /\ UNCHANGED <<flow, keeps, relayOpen, homeOpen, stuck, cloud, wire, back>>

\* a write to a closed tunnel, or its cancelled call, ends the handler
Abandons(s) ==
    /\ ~homeOpen /\ home[s].pc \in {"serving", "sending"}
    /\ Ended(s, wire[s].end)

HomeCloses ==
    /\ homeOpen
    /\ homeOpen' = FALSE
    /\ home' = [s \in Streams |-> [home[s] EXCEPT
                    !.stop = home[s].pc \in {"serving", "sending"} \/ @]]
    /\ UNCHANGED <<flow, keeps, relayOpen, stuck, cloud, wire, back>>

--------------------------------------------------------------------------------

Client(s) == TakeHead(s) \/ Read(s) \/ ReadEnd(s) \/ Broken(s)

Loop(s) == PushHead(s) \/ PushBody(s) \/ Overflow(s) \/ Wait(s) \/ PushEnd(s)

Dispatch(s) == Called(s) \/ Credited(s) \/ ToldToStop(s)

Handler(s) ==
    \/ Serve(s) \/ Answer(s) \/ ReadFile(s) \/ Send(s) \/ SendEnd(s)
    \/ GivesUp(s) \/ Abandons(s)

Next ==
    \/ \E s \in Streams :
        \/ Ask(s) \/ Client(s) \/ Loop(s) \/ Dispatch(s) \/ Handler(s)
        \/ Leave(s) \/ Pause(s) \/ Stall(s)
        \/ AnswerFails(s) \/ FileFails(s) \/ TimesOut(s)
    \/ CloudCloses \/ HomeCloses

Spec == Init /\ [][Next]_vars

\* The goroutines of both sides go on; a client that stands still is left
\* (clientWriteIdle), one that takes bytes now and again gets all it is
\* written; a read of a cancelled call fails; each side learns that the other
\* closed (a read error, or no PONG).  Nothing is asked of what fails, of who
\* leaves, or of an open connection.
Fairness ==
    /\ \A s \in Streams :
        /\ SF_vars(Client(s)) /\ WF_vars(Loop(s)) /\ WF_vars(Dispatch(s))
        /\ WF_vars(Handler(s)) /\ WF_vars(home[s].stop /\ FileFails(s))
        /\ WF_vars(cloud[s].paused /\ Leave(s))
    /\ WF_vars(~homeOpen /\ CloudCloses)
    /\ WF_vars(~relayOpen /\ HomeCloses)

FairSpec == Spec /\ Fairness

--------------------------------------------------------------------------------
(* Properties.                                                                 *)

\* A home that spends only its credit never meets errStreamOverflow: what the
\* relay granted back was read, so what is under way and queued fits in the
\* window, and the head in the slack (tunnel.go grant and push, multiplex.go
\* credit.take).
WindowKept ==
    keeps => \A s \in Streams : cloud[s].err # "overflow"

\* An answer that the relay read to its EOF is the whole file: no frame of it
\* was dropped on the way, neither for a home over its window nor for a client
\* that stopped reading ("never drop a frame and carry on with a corrupt body").
WholeBody ==
    \A s \in Streams : cloud[s].pc = "done" => cloud[s].got = home[s].size

\* A home that waits for credit on a stream somebody reads will get it: what
\* it waits for is under way, or queued for the client.  Batching the grants
\* never leaves both sides waiting for each other (grantEvery and the chunk).
CreditMoves ==
    \A s \in Streams :
        /\ Metered /\ relayOpen /\ homeOpen /\ cloud[s].reg
        /\ home[s].pc = "sending" /\ ~Afford(s)
        => wire[s].bytes + cloud[s].q + back[s].win > 0

\* To its client a stream is a bounded transfer: it gets what was read for it, its EOF
\* comes after the whole answer, and a home that spends only its credit reads at most
\* a window and a chunk ahead of what the client took (credit.take, grant).
Phase(s) ==
    CASE cloud[s].pc = "idle" -> "idle"
      [] cloud[s].pc \in {"head", "body"} -> "open"
      [] cloud[s].pc = "done" -> "whole"
      [] cloud[s].pc = "failed" -> "broken"

Transfer == INSTANCE BoundedTransfer WITH
    Ahead <- Window + MaxChunk,
    capped <- Metered,
    length <- [s \in Streams |-> home[s].size],
    read <- [s \in Streams |-> home[s].size - home[s].left],
    got <- [s \in Streams |-> cloud[s].got],
    state <- [s \in Streams |-> Phase(s)]

Transfers == Transfer!Spec

\* A client that asked gets an end, an answer or an error, whatever closes,
\* stalls or fails; another stream's slow client does not keep it waiting for
\* ever, even on a tunnel whose one read loop waits for that client.
StreamsEnd ==
    \A s \in Streams : cloud[s].pc \in {"head", "body"} ~> cloud[s].pc \in {"done", "failed"}

\* A handler in the home whose client is served or gone ends: it is told, runs
\* out of file or of credit, or its tunnel closes; none reads on for nobody.
HomeLetsGo ==
    \A s \in Streams :
        home[s].pc \in Live /\ cloud[s].pc \in {"done", "failed"} ~> home[s].pc = "ended"

================================================================================
