-------------------------- MODULE RelayStream_proofs --------------------------
(*****************************************************************************)
(* Proofs about RelayStream, for any streams, window, batch, chunk and       *)
(* answers that fit each other.  The argument: what the home may still send, *)
(* what is under way, queued, read but not granted, and granted but not yet  *)
(* heard of adds up to the window, so the queue holds what comes; and what   *)
(* the client got, what is on its way and what is left in the file adds up   *)
(* to the file as long as the stream is registered.                          *)
(*****************************************************************************)
EXTENDS RelayStream, TLAPS

\* Who can have acted on a stream: nothing before it is asked, nothing from
\* the home before it is called, no body before a head.
Life(s) ==
    /\ cloud[s].pc = "idle" => ~back[s].req /\ home[s].pc = "none" /\ ~cloud[s].reg
    /\ back[s].req => home[s].pc = "none"
    /\ home[s].pc \in {"none", "called", "serving"} =>
           /\ wire[s] = [head |-> FALSE, bytes |-> 0, end |-> "none"]
           /\ home[s].chunk = 0 /\ home[s].left = home[s].size
           /\ cloud[s].q = 0 /\ cloud[s].got = 0 /\ cloud[s].unacked = 0
           /\ back[s].win = 0
    /\ home[s].pc = "none" => home[s].avail = 0
    /\ home[s].chunk =< MaxChunk

\* A registered stream has a reader and no error but the tunnel's closing.
Registered(s) ==
    /\ cloud[s].reg => cloud[s].pc \in {"head", "body"} /\ cloud[s].err \in {"none", "closed"}
    /\ cloud[s].err = "closed" => ~relayOpen

\* The end is the last frame, sent by a handler that ended, and the EOF is sent
\* after the whole file; a queued end is that of a stream that dropped nothing.
Ending(s) ==
    /\ wire[s].end # "none" \/ cloud[s].end # "none" => home[s].pc = "ended"
    /\ wire[s].end = "eof" \/ cloud[s].end = "eof" => home[s].chunk = 0 /\ home[s].left = 0
    /\ cloud[s].end # "none" => cloud[s].reg /\ wire[s].bytes = 0

\* The file is the sum of what was read, of what is on its way and of the rest.
Sum(s) ==
    /\ cloud[s].reg =>
          cloud[s].got + cloud[s].q + wire[s].bytes + home[s].chunk + home[s].left = home[s].size
    /\ cloud[s].pc = "done" => cloud[s].got = home[s].size

\* The window is the sum of the credit, of what was sent on it and of what the
\* client read of that.
Credit(s) ==
    /\ flow => cloud[s].unacked < Grant
    /\ Metered =>
        LET sum == home[s].avail + wire[s].bytes + cloud[s].q + cloud[s].unacked + back[s].win
        IN  /\ sum =< Window
            /\ cloud[s].reg /\ relayOpen /\ home[s].pc \in Live => sum = Window
    /\ keeps => cloud[s].err # "overflow"

Good(s) == Life(s) /\ Registered(s) /\ Ending(s) /\ Sum(s) /\ Credit(s)

StreamInv == TypeOK /\ \A s \in Streams : Good(s)


--------------------------------------------------------------------------------
(* A step of one stream leaves the others as they are.                         *)

LEMMA Untouched ==
    ASSUME NEW t, Good(t),
           cloud'[t] = cloud[t], wire'[t] = wire[t], home'[t] = home[t], back'[t] = back[t],
           flow' = flow, keeps' = keeps, relayOpen' => relayOpen
    PROVE  Good(t)'
BY DEF Good, Life, Registered, Ending, Sum, Credit, Metered


LEMMA AskKeeps ==
    ASSUME StreamInv, NEW s \in Streams, Ask(s)
    PROVE  StreamInv'
<1>. USE Lengths, Fitting
<1>1. TypeOK'
  <2>1. cloud' \in [Streams -> Clouds]
    <3>1. cloud[s] \in Clouds
        BY DEF StreamInv, TypeOK
    <3>2. [cloud[s] EXCEPT !.pc = "head", !.reg = TRUE] \in Clouds
        BY <3>1 DEF Clouds, Ends
    <3>. QED
        BY <3>2 DEF StreamInv, TypeOK, Ask
  <2>2. back' \in [Streams -> Backs]
    BY DEF StreamInv, TypeOK, Backs, Ask
  <2>. QED
    BY <2>1, <2>2 DEF StreamInv, TypeOK, Ask
<1>2. ASSUME NEW t \in Streams, t # s PROVE Good(t)'
    BY <1>2, Untouched DEF StreamInv, TypeOK, Ask
<1>3. Good(s)
    BY DEF StreamInv
<1>4. Good(s)'
  <2>. USE DEF StreamInv, TypeOK, Clouds, Wires, Homes, Backs, Ends, Live, Good, Ask
  <2>a. home'[s] = home[s] /\ wire'[s] = wire[s] /\ home[s].pc = "none" /\ cloud'[s].q = cloud[s].q /\ cloud'[s].unacked = cloud[s].unacked /\ back'[s].win = back[s].win /\ cloud'[s].err = cloud[s].err
      BY <1>3 DEF Life
  <2>1. Life(s)'
      BY <1>3, <2>a DEF Life, Ending
  <2>2. Registered(s)'
      BY <1>3 DEF Registered
  <2>3. Ending(s)'
      BY <1>3 DEF Life, Registered, Ending
  <2>4. Sum(s)'
      BY <1>3, <2>a DEF Life, Registered, Ending, Sum
  <2>5. Credit(s)'
      BY <1>3, <2>a DEF Life, Registered, Credit, Metered
  <2>. HIDE DEF StreamInv, TypeOK, Clouds, Wires, Homes, Backs, Ends, Live, Good, Ask
  <2>. QED
    BY <2>1, <2>2, <2>3, <2>4, <2>5 DEF Good
<1>. QED
    BY <1>1, <1>2, <1>4 DEF StreamInv

LEMMA TakeHeadKeeps ==
    ASSUME StreamInv, NEW s \in Streams, TakeHead(s)
    PROVE  StreamInv'
<1>. USE Lengths, Fitting
<1>1. TypeOK'
  <2>1. cloud' \in [Streams -> Clouds]
    <3>1. cloud[s] \in Clouds
        BY DEF StreamInv, TypeOK
    <3>2. [cloud[s] EXCEPT !.pc = "body", !.head = FALSE] \in Clouds
        BY <3>1 DEF Clouds, Ends
    <3>. QED
        BY <3>2 DEF StreamInv, TypeOK, TakeHead
  <2>. QED
    BY <2>1 DEF StreamInv, TypeOK, TakeHead
<1>2. ASSUME NEW t \in Streams, t # s PROVE Good(t)'
    BY <1>2, Untouched DEF StreamInv, TypeOK, TakeHead
<1>3. Good(s)
    BY DEF StreamInv
<1>4. Good(s)'
  <2>. USE DEF StreamInv, TypeOK, Clouds, Wires, Homes, Backs, Ends, Live, Good, TakeHead
  <2>1. Life(s)'
      BY <1>3 DEF Life, Ending
  <2>2. Registered(s)'
      BY <1>3 DEF Registered
  <2>3. Ending(s)'
      BY <1>3 DEF Life, Registered, Ending
  <2>4. Sum(s)'
      BY <1>3 DEF Life, Registered, Ending, Sum
  <2>5. Credit(s)'
      BY <1>3 DEF Life, Registered, Credit, Metered
  <2>. HIDE DEF StreamInv, TypeOK, Clouds, Wires, Homes, Backs, Ends, Live, Good, TakeHead
  <2>. QED
    BY <2>1, <2>2, <2>3, <2>4, <2>5 DEF Good
<1>. QED
    BY <1>1, <1>2, <1>4 DEF StreamInv

LEMMA ReadKeeps ==
    ASSUME StreamInv, NEW s \in Streams, Read(s)
    PROVE  StreamInv'
<1>. USE Lengths, Fitting
<1>1. TypeOK'
  <2>1. cloud' \in [Streams -> Clouds]
    BY DEF StreamInv, TypeOK, Clouds, Ends, Read, Granted
  <2>2. back' \in [Streams -> Backs]
    <3>1. PICK n \in 1..MaxChunk :
            back' = [back EXCEPT ![s].win = IF Granted((IF flow THEN cloud[s].unacked + n ELSE 0)) /\ relayOpen
                                            THEN @ + (IF flow THEN cloud[s].unacked + n ELSE 0) ELSE @]
        BY DEF Read
    <3>2. (IF flow THEN cloud[s].unacked + n ELSE 0) \in Nat
        BY DEF StreamInv, TypeOK, Clouds
    <3>3. ASSUME NEW u \in Nat
          PROVE  [back EXCEPT ![s].win = IF Granted(u) /\ relayOpen THEN @ + u ELSE @]
                     \in [Streams -> Backs]
        BY DEF StreamInv, TypeOK, Backs
    <3>. QED
        BY <3>1, <3>2, <3>3
  <2>. QED
    BY <2>1, <2>2 DEF StreamInv, TypeOK, Read, Granted
<1>2. ASSUME NEW t \in Streams, t # s PROVE Good(t)'
    BY <1>2, Untouched DEF StreamInv, TypeOK, Read, Granted
<1>3. Good(s)
    BY DEF StreamInv
<1>4. Good(s)'
  <2>. USE DEF StreamInv, TypeOK, Clouds, Wires, Homes, Backs, Ends, Live, Good, Read, Granted
  <2>1. Life(s)'
      BY <1>3 DEF Life, Ending
  <2>2. Registered(s)'
      BY <1>3 DEF Registered
  <2>3. Ending(s)'
      BY <1>3 DEF Life, Registered, Ending
  <2>4. Sum(s)'
      BY <1>3 DEF Life, Registered, Ending, Sum
  <2>5. Credit(s)'
      BY <1>3 DEF Life, Registered, Credit, Metered
  <2>. HIDE DEF StreamInv, TypeOK, Clouds, Wires, Homes, Backs, Ends, Live, Good, Read, Granted
  <2>. QED
    BY <2>1, <2>2, <2>3, <2>4, <2>5 DEF Good
<1>. QED
    BY <1>1, <1>2, <1>4 DEF StreamInv

LEMMA ReadEndKeeps ==
    ASSUME StreamInv, NEW s \in Streams, ReadEnd(s)
    PROVE  StreamInv'
<1>. USE Lengths, Fitting
<1>1. TypeOK'
  <2>1. cloud' \in [Streams -> Clouds]
    <3>1. cloud[s] \in Clouds
        BY DEF StreamInv, TypeOK
    <3>2. [cloud[s] EXCEPT !.pc = IF cloud[s].end = "eof" THEN "done" ELSE "failed", !.reg = FALSE, !.paused = FALSE, !.head = FALSE, !.q = 0, !.end = "none"] \in Clouds
        BY <3>1 DEF Clouds, Ends
    <3>. QED
        BY <3>2 DEF StreamInv, TypeOK, ReadEnd, Released
  <2>. QED
    BY <2>1 DEF StreamInv, TypeOK, ReadEnd, Released
<1>2. ASSUME NEW t \in Streams, t # s PROVE Good(t)'
    BY <1>2, Untouched DEF StreamInv, TypeOK, ReadEnd, Released
<1>3. Good(s)
    BY DEF StreamInv
<1>4. Good(s)'
  <2>. USE DEF StreamInv, TypeOK, Clouds, Wires, Homes, Backs, Ends, Live, Good, ReadEnd, Released
  <2>1. Life(s)'
      BY <1>3 DEF Life, Ending
  <2>2. Registered(s)'
      BY <1>3 DEF Registered
  <2>3. Ending(s)'
      BY <1>3 DEF Life, Registered, Ending
  <2>4. Sum(s)'
    <3>1. ~cloud'[s].reg /\ cloud'[s].got = cloud[s].got /\ home' = home
        OBVIOUS
    <3>2. cloud'[s].pc = "done" => cloud[s].end = "eof"
        OBVIOUS
    <3>3. cloud[s].end = "eof" => cloud[s].got = home[s].size
        BY <1>3 DEF Ending, Sum
    <3>. QED
        BY <3>1, <3>2, <3>3 DEF Sum
  <2>5. Credit(s)'
      BY <1>3 DEF Life, Registered, Credit, Metered
  <2>. HIDE DEF StreamInv, TypeOK, Clouds, Wires, Homes, Backs, Ends, Live, Good, ReadEnd, Released
  <2>. QED
    BY <2>1, <2>2, <2>3, <2>4, <2>5 DEF Good
<1>. QED
    BY <1>1, <1>2, <1>4 DEF StreamInv

LEMMA BrokenKeeps ==
    ASSUME StreamInv, NEW s \in Streams, Broken(s)
    PROVE  StreamInv'
<1>. USE Lengths, Fitting
<1>1. TypeOK'
  <2>1. cloud' \in [Streams -> Clouds]
    <3>1. cloud[s] \in Clouds
        BY DEF StreamInv, TypeOK
    <3>2. [cloud[s] EXCEPT !.pc = "failed", !.reg = FALSE, !.paused = FALSE, !.head = FALSE, !.q = 0, !.end = "none"] \in Clouds
        BY <3>1 DEF Clouds, Ends
    <3>. QED
        BY <3>2 DEF StreamInv, TypeOK, Broken, Released, TellHome
  <2>2. back' \in [Streams -> Backs]
    <3>1. back[s] \in Backs
        BY DEF StreamInv, TypeOK
    <3>2. [back[s] EXCEPT !.close = relayOpen \/ @] \in Backs
        BY <3>1 DEF Backs
    <3>. QED
        BY <3>2 DEF StreamInv, TypeOK, Broken, Released, TellHome
  <2>. QED
    BY <2>1, <2>2 DEF StreamInv, TypeOK, Broken, Released, TellHome
<1>2. ASSUME NEW t \in Streams, t # s PROVE Good(t)'
    BY <1>2, Untouched DEF StreamInv, TypeOK, Broken, Released, TellHome
<1>3. Good(s)
    BY DEF StreamInv
<1>4. Good(s)'
  <2>. USE DEF StreamInv, TypeOK, Clouds, Wires, Homes, Backs, Ends, Live, Good, Broken, Released, TellHome
  <2>1. Life(s)'
      BY <1>3 DEF Life, Ending
  <2>2. Registered(s)'
      BY <1>3 DEF Registered
  <2>3. Ending(s)'
      BY <1>3 DEF Life, Registered, Ending
  <2>4. Sum(s)'
      BY <1>3 DEF Life, Registered, Ending, Sum
  <2>5. Credit(s)'
      BY <1>3 DEF Life, Registered, Credit, Metered
  <2>. HIDE DEF StreamInv, TypeOK, Clouds, Wires, Homes, Backs, Ends, Live, Good, Broken, Released, TellHome
  <2>. QED
    BY <2>1, <2>2, <2>3, <2>4, <2>5 DEF Good
<1>. QED
    BY <1>1, <1>2, <1>4 DEF StreamInv

LEMMA LeaveKeeps ==
    ASSUME StreamInv, NEW s \in Streams, Leave(s)
    PROVE  StreamInv'
<1>. USE Lengths, Fitting
<1>1. TypeOK'
  <2>1. cloud' \in [Streams -> Clouds]
    <3>1. cloud[s] \in Clouds
        BY DEF StreamInv, TypeOK
    <3>2. [cloud[s] EXCEPT !.pc = "failed", !.reg = FALSE, !.paused = FALSE, !.head = FALSE, !.q = 0, !.end = "none"] \in Clouds
        BY <3>1 DEF Clouds, Ends
    <3>. QED
        BY <3>2 DEF StreamInv, TypeOK, Leave, Released, TellHome
  <2>2. back' \in [Streams -> Backs]
    <3>1. back[s] \in Backs
        BY DEF StreamInv, TypeOK
    <3>2. [back[s] EXCEPT !.close = relayOpen \/ @] \in Backs
        BY <3>1 DEF Backs
    <3>. QED
        BY <3>2 DEF StreamInv, TypeOK, Leave, Released, TellHome
  <2>. QED
    BY <2>1, <2>2 DEF StreamInv, TypeOK, Leave, Released, TellHome
<1>2. ASSUME NEW t \in Streams, t # s PROVE Good(t)'
    BY <1>2, Untouched DEF StreamInv, TypeOK, Leave, Released, TellHome
<1>3. Good(s)
    BY DEF StreamInv
<1>4. Good(s)'
  <2>. USE DEF StreamInv, TypeOK, Clouds, Wires, Homes, Backs, Ends, Live, Good, Leave, Released, TellHome
  <2>1. Life(s)'
      BY <1>3 DEF Life, Ending
  <2>2. Registered(s)'
      BY <1>3 DEF Registered
  <2>3. Ending(s)'
      BY <1>3 DEF Life, Registered, Ending
  <2>4. Sum(s)'
      BY <1>3 DEF Life, Registered, Ending, Sum
  <2>5. Credit(s)'
      BY <1>3 DEF Life, Registered, Credit, Metered
  <2>. HIDE DEF StreamInv, TypeOK, Clouds, Wires, Homes, Backs, Ends, Live, Good, Leave, Released, TellHome
  <2>. QED
    BY <2>1, <2>2, <2>3, <2>4, <2>5 DEF Good
<1>. QED
    BY <1>1, <1>2, <1>4 DEF StreamInv

LEMMA PauseKeeps ==
    ASSUME StreamInv, NEW s \in Streams, Pause(s)
    PROVE  StreamInv'
<1>. USE Lengths, Fitting
<1>1. TypeOK'
  <2>1. cloud' \in [Streams -> Clouds]
    <3>1. cloud[s] \in Clouds
        BY DEF StreamInv, TypeOK
    <3>2. [cloud[s] EXCEPT !.paused = ~@] \in Clouds
        BY <3>1 DEF Clouds, Ends
    <3>. QED
        BY <3>2 DEF StreamInv, TypeOK, Pause
  <2>. QED
    BY <2>1 DEF StreamInv, TypeOK, Pause
<1>2. ASSUME NEW t \in Streams, t # s PROVE Good(t)'
    BY <1>2, Untouched DEF StreamInv, TypeOK, Pause
<1>3. Good(s)
    BY DEF StreamInv
<1>4. Good(s)'
  <2>. USE DEF StreamInv, TypeOK, Clouds, Wires, Homes, Backs, Ends, Live, Good, Pause
  <2>1. Life(s)'
      BY <1>3 DEF Life, Ending
  <2>2. Registered(s)'
      BY <1>3 DEF Registered
  <2>3. Ending(s)'
      BY <1>3 DEF Life, Registered, Ending
  <2>4. Sum(s)'
      BY <1>3 DEF Life, Registered, Ending, Sum
  <2>5. Credit(s)'
      BY <1>3 DEF Life, Registered, Credit, Metered
  <2>. HIDE DEF StreamInv, TypeOK, Clouds, Wires, Homes, Backs, Ends, Live, Good, Pause
  <2>. QED
    BY <2>1, <2>2, <2>3, <2>4, <2>5 DEF Good
<1>. QED
    BY <1>1, <1>2, <1>4 DEF StreamInv

LEMMA PushHeadKeeps ==
    ASSUME StreamInv, NEW s \in Streams, PushHead(s)
    PROVE  StreamInv'
<1>. USE Lengths, Fitting
<1>1. TypeOK'
  <2>1. wire' \in [Streams -> Wires]
    BY DEF StreamInv, TypeOK, Wires, Ends, PushHead, Reading, Takes
  <2>2. cloud' \in [Streams -> Clouds]
    <3>1. cloud[s] \in Clouds
        BY DEF StreamInv, TypeOK
    <3>2. [cloud[s] EXCEPT !.head = Takes(s)] \in Clouds
        BY <3>1 DEF Clouds, Ends, Takes
    <3>. QED
        BY <3>2 DEF StreamInv, TypeOK, PushHead, Reading, Takes
  <2>. QED
    BY <2>1, <2>2 DEF StreamInv, TypeOK, PushHead, Reading, Takes
<1>2. ASSUME NEW t \in Streams, t # s PROVE Good(t)'
    BY <1>2, Untouched DEF StreamInv, TypeOK, PushHead, Reading, Takes
<1>3. Good(s)
    BY DEF StreamInv
<1>4. Good(s)'
  <2>. USE DEF StreamInv, TypeOK, Clouds, Wires, Homes, Backs, Ends, Live, Good, PushHead, Reading, Takes
  <2>1. Life(s)'
      BY <1>3 DEF Life, Ending
  <2>2. Registered(s)'
      BY <1>3 DEF Registered
  <2>3. Ending(s)'
      BY <1>3 DEF Life, Registered, Ending
  <2>4. Sum(s)'
      BY <1>3 DEF Life, Registered, Ending, Sum
  <2>5. Credit(s)'
      BY <1>3 DEF Life, Registered, Credit, Metered
  <2>. HIDE DEF StreamInv, TypeOK, Clouds, Wires, Homes, Backs, Ends, Live, Good, PushHead, Reading, Takes
  <2>. QED
    BY <2>1, <2>2, <2>3, <2>4, <2>5 DEF Good
<1>. QED
    BY <1>1, <1>2, <1>4 DEF StreamInv

LEMMA PushBodyKeeps ==
    ASSUME StreamInv, NEW s \in Streams, PushBody(s)
    PROVE  StreamInv'
<1>. USE Lengths, Fitting
<1>1. TypeOK'
  <2>. PICK n \in 1..MaxChunk :
            /\ Frame(s, n)
            /\ wire' = [wire EXCEPT ![s].bytes = @ - n]
            /\ cloud' = [cloud EXCEPT ![s].q = IF Takes(s) THEN @ + n ELSE @]
    BY DEF PushBody
  <2>1. wire' \in [Streams -> Wires]
    <3>1. wire[s] \in Wires /\ n =< wire[s].bytes
        BY DEF StreamInv, TypeOK, Frame
    <3>2. [wire[s] EXCEPT !.bytes = @ - n] \in Wires
        BY <3>1 DEF Wires
    <3>. QED
        BY <3>2 DEF StreamInv, TypeOK
  <2>2. cloud' \in [Streams -> Clouds]
    <3>1. cloud[s] \in Clouds
        BY DEF StreamInv, TypeOK
    <3>2. [cloud[s] EXCEPT !.q = IF Takes(s) THEN @ + n ELSE @] \in Clouds
        BY <3>1 DEF Clouds
    <3>. QED
        BY <3>2 DEF StreamInv, TypeOK
  <2>. QED
    BY <2>1, <2>2 DEF StreamInv, TypeOK, PushBody
<1>2. ASSUME NEW t \in Streams, t # s PROVE Good(t)'
    BY <1>2, Untouched DEF StreamInv, TypeOK, PushBody, Frame, Reading, Takes, Overflows, Waits, QBytes
<1>3. Good(s)
    BY DEF StreamInv
<1>4. Good(s)'
  <2>. USE DEF StreamInv, TypeOK, Clouds, Wires, Homes, Backs, Ends, Live, Good, PushBody, Frame, Reading, Takes, Overflows, Waits, QBytes
  <2>1. Life(s)'
      BY <1>3 DEF Life, Ending
  <2>2. Registered(s)'
      BY <1>3 DEF Registered
  <2>3. Ending(s)'
      BY <1>3 DEF Life, Registered, Ending
  <2>4. Sum(s)'
      BY <1>3 DEF Life, Registered, Ending, Sum
  <2>5. Credit(s)'
      BY <1>3 DEF Life, Registered, Credit, Metered
  <2>. HIDE DEF StreamInv, TypeOK, Clouds, Wires, Homes, Backs, Ends, Live, Good, PushBody, Frame, Reading, Takes, Overflows, Waits, QBytes
  <2>. QED
    BY <2>1, <2>2, <2>3, <2>4, <2>5 DEF Good
<1>. QED
    BY <1>1, <1>2, <1>4 DEF StreamInv

LEMMA OverflowKeeps ==
    ASSUME StreamInv, NEW s \in Streams, Overflow(s)
    PROVE  StreamInv'
<1>. USE Lengths, Fitting
<1>1. TypeOK'
  <2>1. wire' \in [Streams -> Wires]
    <3>1. PICK n \in 1..MaxChunk : Frame(s, n) /\ Failed(s, n, "overflow")
        BY DEF Overflow
    <3>2. wire[s] \in Wires /\ n =< wire[s].bytes
        BY <3>1 DEF StreamInv, TypeOK, Frame
    <3>3. [wire[s] EXCEPT !.bytes = @ - n] \in Wires
        BY <3>2 DEF Wires
    <3>. QED
        BY <3>1, <3>3 DEF StreamInv, TypeOK, Failed
  <2>2. cloud' \in [Streams -> Clouds]
    <3>1. cloud[s] \in Clouds
        BY DEF StreamInv, TypeOK
    <3>2. [cloud[s] EXCEPT !.reg = FALSE, !.err = "overflow"] \in Clouds
        BY <3>1 DEF Clouds
    <3>. QED
        BY <3>2 DEF StreamInv, TypeOK, Overflow, Failed
  <2>3. back' \in [Streams -> Backs]
    <3>1. back[s] \in Backs
        BY DEF StreamInv, TypeOK
    <3>2. [back[s] EXCEPT !.close = relayOpen \/ @] \in Backs
        BY <3>1 DEF Backs
    <3>. QED
        BY <3>2 DEF StreamInv, TypeOK, Overflow, Frame, Reading, Takes, Overflows, QBytes, Failed, TellHome
  <2>. QED
    BY <2>1, <2>2, <2>3 DEF StreamInv, TypeOK, Overflow, Frame, Reading, Takes, Overflows, QBytes, Failed, TellHome
<1>2. ASSUME NEW t \in Streams, t # s PROVE Good(t)'
    BY <1>2, Untouched DEF StreamInv, TypeOK, Overflow, Frame, Reading, Takes, Overflows, QBytes, Failed, TellHome
<1>3. Good(s)
    BY DEF StreamInv
<1>4. Good(s)'
  <2>. USE DEF StreamInv, TypeOK, Clouds, Wires, Homes, Backs, Ends, Live, Good, Overflow, Frame, Reading, Takes, Overflows, QBytes, Failed, TellHome
  <2>1. Life(s)'
      BY <1>3 DEF Life, Ending
  <2>2. Registered(s)'
      BY <1>3 DEF Registered
  <2>3. Ending(s)'
      BY <1>3 DEF Life, Registered, Ending
  <2>4. Sum(s)'
      BY <1>3 DEF Life, Registered, Ending, Sum
  <2>5. Credit(s)'
      BY <1>3 DEF Life, Registered, Credit, Metered
  <2>. HIDE DEF StreamInv, TypeOK, Clouds, Wires, Homes, Backs, Ends, Live, Good, Overflow, Frame, Reading, Takes, Overflows, QBytes, Failed, TellHome
  <2>. QED
    BY <2>1, <2>2, <2>3, <2>4, <2>5 DEF Good
<1>. QED
    BY <1>1, <1>2, <1>4 DEF StreamInv

LEMMA WaitKeeps ==
    ASSUME StreamInv, NEW s \in Streams, Wait(s)
    PROVE  StreamInv'
<1>. USE Lengths, Fitting
<1>1. TypeOK'
    BY DEF StreamInv, TypeOK, Wait, Frame
<1>2. ASSUME NEW t \in Streams, t # s PROVE Good(t)'
    BY <1>2, Untouched DEF StreamInv, TypeOK, Wait, Frame
<1>3. Good(s)
    BY DEF StreamInv
<1>4. Good(s)'
  <2>. USE DEF StreamInv, TypeOK, Clouds, Wires, Homes, Backs, Ends, Live, Good, Wait, Frame
  <2>1. Life(s)'
      BY <1>3 DEF Life, Ending
  <2>2. Registered(s)'
      BY <1>3 DEF Registered
  <2>3. Ending(s)'
      BY <1>3 DEF Life, Registered, Ending
  <2>4. Sum(s)'
      BY <1>3 DEF Life, Registered, Ending, Sum
  <2>5. Credit(s)'
      BY <1>3 DEF Life, Registered, Credit, Metered
  <2>. HIDE DEF StreamInv, TypeOK, Clouds, Wires, Homes, Backs, Ends, Live, Good, Wait, Frame
  <2>. QED
    BY <2>1, <2>2, <2>3, <2>4, <2>5 DEF Good
<1>. QED
    BY <1>1, <1>2, <1>4 DEF StreamInv

LEMMA StallKeeps ==
    ASSUME StreamInv, NEW s \in Streams, Stall(s)
    PROVE  StreamInv'
<1>. USE Lengths, Fitting
<1>1. TypeOK'
  <2>1. wire' \in [Streams -> Wires]
    <3>1. PICK n \in 1..MaxChunk : Frame(s, n) /\ Failed(s, n, "stalled")
        BY DEF Stall
    <3>2. wire[s] \in Wires /\ n =< wire[s].bytes
        BY <3>1 DEF StreamInv, TypeOK, Frame
    <3>3. [wire[s] EXCEPT !.bytes = @ - n] \in Wires
        BY <3>2 DEF Wires
    <3>. QED
        BY <3>1, <3>3 DEF StreamInv, TypeOK, Failed
  <2>2. cloud' \in [Streams -> Clouds]
    <3>1. cloud[s] \in Clouds
        BY DEF StreamInv, TypeOK
    <3>2. [cloud[s] EXCEPT !.reg = FALSE, !.err = "stalled"] \in Clouds
        BY <3>1 DEF Clouds
    <3>. QED
        BY <3>2 DEF StreamInv, TypeOK, Stall, Failed
  <2>3. back' \in [Streams -> Backs]
    <3>1. back[s] \in Backs
        BY DEF StreamInv, TypeOK
    <3>2. [back[s] EXCEPT !.close = relayOpen \/ @] \in Backs
        BY <3>1 DEF Backs
    <3>. QED
        BY <3>2 DEF StreamInv, TypeOK, Stall, Frame, Reading, Takes, Failed, TellHome
  <2>. QED
    BY <2>1, <2>2, <2>3 DEF StreamInv, TypeOK, Stall, Frame, Reading, Takes, Failed, TellHome
<1>2. ASSUME NEW t \in Streams, t # s PROVE Good(t)'
    BY <1>2, Untouched DEF StreamInv, TypeOK, Stall, Frame, Reading, Takes, Failed, TellHome
<1>3. Good(s)
    BY DEF StreamInv
<1>4. Good(s)'
  <2>. USE DEF StreamInv, TypeOK, Clouds, Wires, Homes, Backs, Ends, Live, Good, Stall, Frame, Reading, Takes, Failed, TellHome
  <2>1. Life(s)'
      BY <1>3 DEF Life, Ending
  <2>2. Registered(s)'
      BY <1>3 DEF Registered
  <2>3. Ending(s)'
      BY <1>3 DEF Life, Registered, Ending
  <2>4. Sum(s)'
      BY <1>3 DEF Life, Registered, Ending, Sum
  <2>5. Credit(s)'
      BY <1>3 DEF Life, Registered, Credit, Metered
  <2>. HIDE DEF StreamInv, TypeOK, Clouds, Wires, Homes, Backs, Ends, Live, Good, Stall, Frame, Reading, Takes, Failed, TellHome
  <2>. QED
    BY <2>1, <2>2, <2>3, <2>4, <2>5 DEF Good
<1>. QED
    BY <1>1, <1>2, <1>4 DEF StreamInv

LEMMA PushEndKeeps ==
    ASSUME StreamInv, NEW s \in Streams, PushEnd(s)
    PROVE  StreamInv'
<1>. USE Lengths, Fitting
<1>1. TypeOK'
  <2>1. wire' \in [Streams -> Wires]
    BY DEF StreamInv, TypeOK, Wires, Ends, PushEnd, Reading, Takes
  <2>2. cloud' \in [Streams -> Clouds]
    <3>0. wire[s].end \in Ends
        BY DEF StreamInv, TypeOK, Wires, Homes, Backs, Send, Afford
    <3>1. cloud[s] \in Clouds
        BY DEF StreamInv, TypeOK
    <3>2. [cloud[s] EXCEPT !.end = IF Takes(s) THEN wire[s].end ELSE @] \in Clouds
        BY <3>1, <3>0 DEF Clouds, Ends
    <3>. QED
        BY <3>2 DEF StreamInv, TypeOK, PushEnd, Reading, Takes
  <2>. QED
    BY <2>1, <2>2 DEF StreamInv, TypeOK, PushEnd, Reading, Takes
<1>2. ASSUME NEW t \in Streams, t # s PROVE Good(t)'
    BY <1>2, Untouched DEF StreamInv, TypeOK, PushEnd, Reading, Takes
<1>3. Good(s)
    BY DEF StreamInv
<1>4. Good(s)'
  <2>. USE DEF StreamInv, TypeOK, Clouds, Wires, Homes, Backs, Ends, Live, Good, PushEnd, Reading, Takes
  <2>1. Life(s)'
      BY <1>3 DEF Life, Ending
  <2>2. Registered(s)'
      BY <1>3 DEF Registered
  <2>3. Ending(s)'
      BY <1>3 DEF Life, Registered, Ending
  <2>4. Sum(s)'
      BY <1>3 DEF Life, Registered, Ending, Sum
  <2>5. Credit(s)'
      BY <1>3 DEF Life, Registered, Credit, Metered
  <2>. HIDE DEF StreamInv, TypeOK, Clouds, Wires, Homes, Backs, Ends, Live, Good, PushEnd, Reading, Takes
  <2>. QED
    BY <2>1, <2>2, <2>3, <2>4, <2>5 DEF Good
<1>. QED
    BY <1>1, <1>2, <1>4 DEF StreamInv

LEMMA CalledKeeps ==
    ASSUME StreamInv, NEW s \in Streams, Called(s)
    PROVE  StreamInv'
<1>. USE Lengths, Fitting
<1>1. TypeOK'
  <2>1. back' \in [Streams -> Backs]
    BY DEF StreamInv, TypeOK, Backs, Called
  <2>2. home' \in [Streams -> Homes]
    <3>1. home[s] \in Homes
        BY DEF StreamInv, TypeOK
    <3>2. [home[s] EXCEPT !.pc = "called", !.avail = IF flow THEN Window ELSE 0] \in Homes
        BY <3>1 DEF Homes, Live
    <3>. QED
        BY <3>2 DEF StreamInv, TypeOK, Called
  <2>. QED
    BY <2>1, <2>2 DEF StreamInv, TypeOK, Called
<1>2. ASSUME NEW t \in Streams, t # s PROVE Good(t)'
    BY <1>2, Untouched DEF StreamInv, TypeOK, Called
<1>3. Good(s)
    BY DEF StreamInv
<1>4. Good(s)'
  <2>. USE DEF StreamInv, TypeOK, Clouds, Wires, Homes, Backs, Ends, Live, Good, Called
  <2>a. home[s].pc = "none" /\ home'[s].avail = (IF flow THEN Window ELSE 0) /\ wire'[s].bytes = 0 /\ cloud'[s].q = 0 /\ cloud'[s].unacked = 0 /\ back'[s].win = 0 /\ cloud' = cloud
      BY <1>3 DEF Life
  <2>1. Life(s)'
      BY <1>3, <2>a DEF Life, Ending
  <2>2. Registered(s)'
      BY <1>3 DEF Registered
  <2>3. Ending(s)'
      BY <1>3 DEF Life, Registered, Ending
  <2>4. Sum(s)'
      BY <1>3, <2>a DEF Life, Registered, Ending, Sum
  <2>5. Credit(s)'
      BY <1>3, <2>a DEF Life, Registered, Credit, Metered
  <2>. HIDE DEF StreamInv, TypeOK, Clouds, Wires, Homes, Backs, Ends, Live, Good, Called
  <2>. QED
    BY <2>1, <2>2, <2>3, <2>4, <2>5 DEF Good
<1>. QED
    BY <1>1, <1>2, <1>4 DEF StreamInv

LEMMA CreditedKeeps ==
    ASSUME StreamInv, NEW s \in Streams, Credited(s)
    PROVE  StreamInv'
<1>. USE Lengths, Fitting
<1>1. TypeOK'
  <2>1. back' \in [Streams -> Backs]
    BY DEF StreamInv, TypeOK, Backs, Credited
  <2>2. home' \in [Streams -> Homes]
    <3>0. back[s].win \in Nat
        BY DEF StreamInv, TypeOK, Wires, Homes, Backs, Send, Afford
    <3>1. home[s] \in Homes
        BY DEF StreamInv, TypeOK
    <3>2. [home[s] EXCEPT !.avail = IF home[s].pc \in Live THEN @ + back[s].win ELSE @] \in Homes
        BY <3>1, <3>0 DEF Homes, Live
    <3>. QED
        BY <3>2 DEF StreamInv, TypeOK, Credited
  <2>. QED
    BY <2>1, <2>2 DEF StreamInv, TypeOK, Credited
<1>2. ASSUME NEW t \in Streams, t # s PROVE Good(t)'
    BY <1>2, Untouched DEF StreamInv, TypeOK, Credited
<1>3. Good(s)
    BY DEF StreamInv
<1>4. Good(s)'
  <2>. USE DEF StreamInv, TypeOK, Clouds, Wires, Homes, Backs, Ends, Live, Good, Credited
  <2>1. Life(s)'
      BY <1>3 DEF Life, Ending
  <2>2. Registered(s)'
      BY <1>3 DEF Registered
  <2>3. Ending(s)'
      BY <1>3 DEF Life, Registered, Ending
  <2>4. Sum(s)'
      BY <1>3 DEF Life, Registered, Ending, Sum
  <2>5. Credit(s)'
      BY <1>3 DEF Life, Registered, Credit, Metered
  <2>. HIDE DEF StreamInv, TypeOK, Clouds, Wires, Homes, Backs, Ends, Live, Good, Credited
  <2>. QED
    BY <2>1, <2>2, <2>3, <2>4, <2>5 DEF Good
<1>. QED
    BY <1>1, <1>2, <1>4 DEF StreamInv

LEMMA ToldToStopKeeps ==
    ASSUME StreamInv, NEW s \in Streams, ToldToStop(s)
    PROVE  StreamInv'
<1>. USE Lengths, Fitting
<1>1. TypeOK'
  <2>1. back' \in [Streams -> Backs]
    BY DEF StreamInv, TypeOK, Backs, ToldToStop
  <2>2. home' \in [Streams -> Homes]
    <3>1. home[s] \in Homes
        BY DEF StreamInv, TypeOK
    <3>2. [home[s] EXCEPT !.stop = home[s].pc \in {"serving", "sending"} \/ @] \in Homes
        BY <3>1 DEF Homes, Live
    <3>. QED
        BY <3>2 DEF StreamInv, TypeOK, ToldToStop
  <2>. QED
    BY <2>1, <2>2 DEF StreamInv, TypeOK, ToldToStop
<1>2. ASSUME NEW t \in Streams, t # s PROVE Good(t)'
    BY <1>2, Untouched DEF StreamInv, TypeOK, ToldToStop
<1>3. Good(s)
    BY DEF StreamInv
<1>4. Good(s)'
  <2>. USE DEF StreamInv, TypeOK, Clouds, Wires, Homes, Backs, Ends, Live, Good, ToldToStop
  <2>1. Life(s)'
      BY <1>3 DEF Life, Ending
  <2>2. Registered(s)'
      BY <1>3 DEF Registered
  <2>3. Ending(s)'
      BY <1>3 DEF Life, Registered, Ending
  <2>4. Sum(s)'
      BY <1>3 DEF Life, Registered, Ending, Sum
  <2>5. Credit(s)'
      BY <1>3 DEF Life, Registered, Credit, Metered
  <2>. HIDE DEF StreamInv, TypeOK, Clouds, Wires, Homes, Backs, Ends, Live, Good, ToldToStop
  <2>. QED
    BY <2>1, <2>2, <2>3, <2>4, <2>5 DEF Good
<1>. QED
    BY <1>1, <1>2, <1>4 DEF StreamInv

LEMMA ServeKeeps ==
    ASSUME StreamInv, NEW s \in Streams, Serve(s)
    PROVE  StreamInv'
<1>. USE Lengths, Fitting
<1>1. TypeOK'
  <2>1. home' \in [Streams -> Homes]
    BY DEF StreamInv, TypeOK, Homes, Live, Serve
  <2>. QED
    BY <2>1 DEF StreamInv, TypeOK, Serve
<1>2. ASSUME NEW t \in Streams, t # s PROVE Good(t)'
    BY <1>2, Untouched DEF StreamInv, TypeOK, Serve
<1>3. Good(s)
    BY DEF StreamInv
<1>4. Good(s)'
  <2>. USE DEF StreamInv, TypeOK, Clouds, Wires, Homes, Backs, Ends, Live, Good, Serve
  <2>1. Life(s)'
      BY <1>3 DEF Life, Ending
  <2>2. Registered(s)'
      BY <1>3 DEF Registered
  <2>3. Ending(s)'
      BY <1>3 DEF Life, Registered, Ending
  <2>4. Sum(s)'
      BY <1>3 DEF Life, Registered, Ending, Sum
  <2>5. Credit(s)'
      BY <1>3 DEF Life, Registered, Credit, Metered
  <2>. HIDE DEF StreamInv, TypeOK, Clouds, Wires, Homes, Backs, Ends, Live, Good, Serve
  <2>. QED
    BY <2>1, <2>2, <2>3, <2>4, <2>5 DEF Good
<1>. QED
    BY <1>1, <1>2, <1>4 DEF StreamInv

LEMMA AnswerKeeps ==
    ASSUME StreamInv, NEW s \in Streams, Answer(s)
    PROVE  StreamInv'
<1>. USE Lengths, Fitting
<1>1. TypeOK'
  <2>1. home' \in [Streams -> Homes]
    BY DEF StreamInv, TypeOK, Homes, Live, Answer
  <2>2. wire' \in [Streams -> Wires]
    BY DEF StreamInv, TypeOK, Wires, Ends, Answer
  <2>. QED
    BY <2>1, <2>2 DEF StreamInv, TypeOK, Answer
<1>2. ASSUME NEW t \in Streams, t # s PROVE Good(t)'
    BY <1>2, Untouched DEF StreamInv, TypeOK, Answer
<1>3. Good(s)
    BY DEF StreamInv
<1>4. Good(s)'
  <2>. USE DEF StreamInv, TypeOK, Clouds, Wires, Homes, Backs, Ends, Live, Good, Answer
  <2>1. Life(s)'
      BY <1>3 DEF Life, Ending
  <2>2. Registered(s)'
      BY <1>3 DEF Registered
  <2>3. Ending(s)'
      BY <1>3 DEF Life, Registered, Ending
  <2>4. Sum(s)'
      BY <1>3 DEF Life, Registered, Ending, Sum
  <2>5. Credit(s)'
      BY <1>3 DEF Life, Registered, Credit, Metered
  <2>. HIDE DEF StreamInv, TypeOK, Clouds, Wires, Homes, Backs, Ends, Live, Good, Answer
  <2>. QED
    BY <2>1, <2>2, <2>3, <2>4, <2>5 DEF Good
<1>. QED
    BY <1>1, <1>2, <1>4 DEF StreamInv

LEMMA AnswerFailsKeeps ==
    ASSUME StreamInv, NEW s \in Streams, AnswerFails(s)
    PROVE  StreamInv'
<1>. USE Lengths, Fitting
<1>1. TypeOK'
  <2>1. home' \in [Streams -> Homes]
    BY DEF StreamInv, TypeOK, Homes, Live, AnswerFails
  <2>2. wire' \in [Streams -> Wires]
    BY DEF StreamInv, TypeOK, Wires, Ends, AnswerFails
  <2>. QED
    BY <2>1, <2>2 DEF StreamInv, TypeOK, AnswerFails
<1>2. ASSUME NEW t \in Streams, t # s PROVE Good(t)'
    BY <1>2, Untouched DEF StreamInv, TypeOK, AnswerFails
<1>3. Good(s)
    BY DEF StreamInv
<1>4. Good(s)'
  <2>. USE DEF StreamInv, TypeOK, Clouds, Wires, Homes, Backs, Ends, Live, Good, AnswerFails
  <2>1. Life(s)'
      BY <1>3 DEF Life, Ending
  <2>2. Registered(s)'
      BY <1>3 DEF Registered
  <2>3. Ending(s)'
      BY <1>3 DEF Life, Registered, Ending
  <2>4. Sum(s)'
      BY <1>3 DEF Life, Registered, Ending, Sum
  <2>5. Credit(s)'
      BY <1>3 DEF Life, Registered, Credit, Metered
  <2>. HIDE DEF StreamInv, TypeOK, Clouds, Wires, Homes, Backs, Ends, Live, Good, AnswerFails
  <2>. QED
    BY <2>1, <2>2, <2>3, <2>4, <2>5 DEF Good
<1>. QED
    BY <1>1, <1>2, <1>4 DEF StreamInv

LEMMA ReadFileKeeps ==
    ASSUME StreamInv, NEW s \in Streams, ReadFile(s)
    PROVE  StreamInv'
<1>. USE Lengths, Fitting
<1>1. TypeOK'
  <2>1. home' \in [Streams -> Homes]
    BY DEF StreamInv, TypeOK, Homes, Live, ReadFile
  <2>. QED
    BY <2>1 DEF StreamInv, TypeOK, ReadFile
<1>2. ASSUME NEW t \in Streams, t # s PROVE Good(t)'
    BY <1>2, Untouched DEF StreamInv, TypeOK, ReadFile
<1>3. Good(s)
    BY DEF StreamInv
<1>4. Good(s)'
  <2>. USE DEF StreamInv, TypeOK, Clouds, Wires, Homes, Backs, Ends, Live, Good, ReadFile
  <2>1. Life(s)'
      BY <1>3 DEF Life, Ending
  <2>2. Registered(s)'
      BY <1>3 DEF Registered
  <2>3. Ending(s)'
      BY <1>3 DEF Life, Registered, Ending
  <2>4. Sum(s)'
      BY <1>3 DEF Life, Registered, Ending, Sum
  <2>5. Credit(s)'
      BY <1>3 DEF Life, Registered, Credit, Metered
  <2>. HIDE DEF StreamInv, TypeOK, Clouds, Wires, Homes, Backs, Ends, Live, Good, ReadFile
  <2>. QED
    BY <2>1, <2>2, <2>3, <2>4, <2>5 DEF Good
<1>. QED
    BY <1>1, <1>2, <1>4 DEF StreamInv

LEMMA SendKeeps ==
    ASSUME StreamInv, NEW s \in Streams, Send(s)
    PROVE  StreamInv'
<1>. USE Lengths, Fitting
<1>1. TypeOK'
  <2>1. wire' \in [Streams -> Wires]
    <3>0. home[s].chunk \in Nat
        BY DEF StreamInv, TypeOK, Wires, Homes, Backs, Send, Afford
    <3>1. wire[s] \in Wires
        BY DEF StreamInv, TypeOK
    <3>2. [wire[s] EXCEPT !.bytes = @ + home[s].chunk] \in Wires
        BY <3>1, <3>0 DEF Wires, Ends
    <3>. QED
        BY <3>2 DEF StreamInv, TypeOK, Send, Afford
  <2>2. home' \in [Streams -> Homes]
    <3>1. home[s] \in Homes /\ (IF Metered THEN home[s].avail - home[s].chunk ELSE home[s].avail) \in Nat
        BY DEF StreamInv, TypeOK, Homes, Send, Afford, Metered
    <3>2. [home[s] EXCEPT !.chunk = 0, !.avail = IF Metered THEN @ - home[s].chunk ELSE @] \in Homes
        BY <3>1 DEF Homes, Live
    <3>. QED
        BY <3>2 DEF StreamInv, TypeOK, Send
  <2>. QED
    BY <2>1, <2>2 DEF StreamInv, TypeOK, Send, Afford
<1>2. ASSUME NEW t \in Streams, t # s PROVE Good(t)'
    BY <1>2, Untouched DEF StreamInv, TypeOK, Send, Afford
<1>3. Good(s)
    BY DEF StreamInv
<1>4. Good(s)'
  <2>. USE DEF StreamInv, TypeOK, Clouds, Wires, Homes, Backs, Ends, Live, Good, Send, Afford
  <2>1. Life(s)'
      BY <1>3 DEF Life, Ending
  <2>2. Registered(s)'
      BY <1>3 DEF Registered
  <2>3. Ending(s)'
      BY <1>3 DEF Life, Registered, Ending
  <2>4. Sum(s)'
      BY <1>3 DEF Life, Registered, Ending, Sum
  <2>5. Credit(s)'
      BY <1>3 DEF Life, Registered, Credit, Metered
  <2>. HIDE DEF StreamInv, TypeOK, Clouds, Wires, Homes, Backs, Ends, Live, Good, Send, Afford
  <2>. QED
    BY <2>1, <2>2, <2>3, <2>4, <2>5 DEF Good
<1>. QED
    BY <1>1, <1>2, <1>4 DEF StreamInv

LEMMA SendEndKeeps ==
    ASSUME StreamInv, NEW s \in Streams, SendEnd(s)
    PROVE  StreamInv'
<1>. USE Lengths, Fitting
<1>1. TypeOK'
  <2>1. home' \in [Streams -> Homes]
    <3>1. home[s] \in Homes
        BY DEF StreamInv, TypeOK
    <3>2. [home[s] EXCEPT !.pc = "ended"] \in Homes
        BY <3>1 DEF Homes
    <3>. QED
        BY <3>2 DEF StreamInv, TypeOK, SendEnd, Ended
  <2>2. wire' \in [Streams -> Wires]
    BY DEF StreamInv, TypeOK, Wires, Ends, SendEnd, Ended
  <2>. QED
    BY <2>1, <2>2 DEF StreamInv, TypeOK, SendEnd, Ended
<1>2. ASSUME NEW t \in Streams, t # s PROVE Good(t)'
    BY <1>2, Untouched DEF StreamInv, TypeOK, SendEnd, Ended
<1>3. Good(s)
    BY DEF StreamInv
<1>4. Good(s)'
  <2>. USE DEF StreamInv, TypeOK, Clouds, Wires, Homes, Backs, Ends, Live, Good, SendEnd, Ended
  <2>1. Life(s)'
      BY <1>3 DEF Life, Ending
  <2>2. Registered(s)'
      BY <1>3 DEF Registered
  <2>3. Ending(s)'
      BY <1>3 DEF Life, Registered, Ending
  <2>4. Sum(s)'
      BY <1>3 DEF Life, Registered, Ending, Sum
  <2>5. Credit(s)'
      BY <1>3 DEF Life, Registered, Credit, Metered
  <2>. HIDE DEF StreamInv, TypeOK, Clouds, Wires, Homes, Backs, Ends, Live, Good, SendEnd, Ended
  <2>. QED
    BY <2>1, <2>2, <2>3, <2>4, <2>5 DEF Good
<1>. QED
    BY <1>1, <1>2, <1>4 DEF StreamInv

LEMMA FileFailsKeeps ==
    ASSUME StreamInv, NEW s \in Streams, FileFails(s)
    PROVE  StreamInv'
<1>. USE Lengths, Fitting
<1>1. TypeOK'
  <2>1. home' \in [Streams -> Homes]
    <3>1. home[s] \in Homes
        BY DEF StreamInv, TypeOK
    <3>2. [home[s] EXCEPT !.pc = "ended"] \in Homes
        BY <3>1 DEF Homes
    <3>. QED
        BY <3>2 DEF StreamInv, TypeOK, FileFails, Ended
  <2>2. wire' \in [Streams -> Wires]
    BY DEF StreamInv, TypeOK, Wires, Ends, FileFails, Ended
  <2>. QED
    BY <2>1, <2>2 DEF StreamInv, TypeOK, FileFails, Ended
<1>2. ASSUME NEW t \in Streams, t # s PROVE Good(t)'
    BY <1>2, Untouched DEF StreamInv, TypeOK, FileFails, Ended
<1>3. Good(s)
    BY DEF StreamInv
<1>4. Good(s)'
  <2>. USE DEF StreamInv, TypeOK, Clouds, Wires, Homes, Backs, Ends, Live, Good, FileFails, Ended
  <2>1. Life(s)'
      BY <1>3 DEF Life, Ending
  <2>2. Registered(s)'
      BY <1>3 DEF Registered
  <2>3. Ending(s)'
      BY <1>3 DEF Life, Registered, Ending
  <2>4. Sum(s)'
      BY <1>3 DEF Life, Registered, Ending, Sum
  <2>5. Credit(s)'
      BY <1>3 DEF Life, Registered, Credit, Metered
  <2>. HIDE DEF StreamInv, TypeOK, Clouds, Wires, Homes, Backs, Ends, Live, Good, FileFails, Ended
  <2>. QED
    BY <2>1, <2>2, <2>3, <2>4, <2>5 DEF Good
<1>. QED
    BY <1>1, <1>2, <1>4 DEF StreamInv

LEMMA GivesUpKeeps ==
    ASSUME StreamInv, NEW s \in Streams, GivesUp(s)
    PROVE  StreamInv'
<1>. USE Lengths, Fitting
<1>1. TypeOK'
  <2>1. home' \in [Streams -> Homes]
    <3>1. home[s] \in Homes
        BY DEF StreamInv, TypeOK
    <3>2. [home[s] EXCEPT !.pc = "ended"] \in Homes
        BY <3>1 DEF Homes
    <3>. QED
        BY <3>2 DEF StreamInv, TypeOK, GivesUp, Ended
  <2>2. wire' \in [Streams -> Wires]
    BY DEF StreamInv, TypeOK, Wires, Ends, GivesUp, Ended
  <2>. QED
    BY <2>1, <2>2 DEF StreamInv, TypeOK, GivesUp, Ended
<1>2. ASSUME NEW t \in Streams, t # s PROVE Good(t)'
    BY <1>2, Untouched DEF StreamInv, TypeOK, GivesUp, Ended
<1>3. Good(s)
    BY DEF StreamInv
<1>4. Good(s)'
  <2>. USE DEF StreamInv, TypeOK, Clouds, Wires, Homes, Backs, Ends, Live, Good, GivesUp, Ended
  <2>a. home'[s].pc = "ended" /\ home'[s].chunk = home[s].chunk /\ home'[s].left = home[s].left /\ home'[s].avail = home[s].avail /\ home'[s].size = home[s].size /\ wire'[s].bytes = wire[s].bytes /\ cloud' = cloud /\ back' = back
      BY <1>3 DEF Life
  <2>1. Life(s)'
      BY <1>3, <2>a DEF Life, Ending
  <2>2. Registered(s)'
      BY <1>3 DEF Registered
  <2>3. Ending(s)'
      BY <1>3 DEF Life, Registered, Ending
  <2>4. Sum(s)'
      BY <1>3, <2>a DEF Life, Registered, Ending, Sum
  <2>5. Credit(s)'
      BY <1>3, <2>a DEF Life, Registered, Credit, Metered
  <2>. HIDE DEF StreamInv, TypeOK, Clouds, Wires, Homes, Backs, Ends, Live, Good, GivesUp, Ended
  <2>. QED
    BY <2>1, <2>2, <2>3, <2>4, <2>5 DEF Good
<1>. QED
    BY <1>1, <1>2, <1>4 DEF StreamInv

LEMMA TimesOutKeeps ==
    ASSUME StreamInv, NEW s \in Streams, TimesOut(s)
    PROVE  StreamInv'
<1>. USE Lengths, Fitting
<1>1. TypeOK'
  <2>1. home' \in [Streams -> Homes]
    <3>1. home[s] \in Homes
        BY DEF StreamInv, TypeOK
    <3>2. [home[s] EXCEPT !.stop = TRUE] \in Homes
        BY <3>1 DEF Homes
    <3>. QED
        BY <3>2 DEF StreamInv, TypeOK, TimesOut
  <2>. QED
    BY <2>1 DEF StreamInv, TypeOK, TimesOut
<1>2. ASSUME NEW t \in Streams, t # s PROVE Good(t)'
    BY <1>2, Untouched DEF StreamInv, TypeOK, TimesOut
<1>3. Good(s)
    BY DEF StreamInv
<1>4. Good(s)'
  <2>. USE DEF StreamInv, TypeOK, Clouds, Wires, Homes, Backs, Ends, Live, Good, TimesOut
  <2>1. Life(s)'
      BY <1>3 DEF Life, Ending
  <2>2. Registered(s)'
      BY <1>3 DEF Registered
  <2>3. Ending(s)'
      BY <1>3 DEF Life, Registered, Ending
  <2>4. Sum(s)'
      BY <1>3 DEF Life, Registered, Ending, Sum
  <2>5. Credit(s)'
      BY <1>3 DEF Life, Registered, Credit, Metered
  <2>. HIDE DEF StreamInv, TypeOK, Clouds, Wires, Homes, Backs, Ends, Live, Good, TimesOut
  <2>. QED
    BY <2>1, <2>2, <2>3, <2>4, <2>5 DEF Good
<1>. QED
    BY <1>1, <1>2, <1>4 DEF StreamInv

LEMMA AbandonsKeeps ==
    ASSUME StreamInv, NEW s \in Streams, Abandons(s)
    PROVE  StreamInv'
<1>. USE Lengths, Fitting
<1>1. TypeOK'
  <2>1. home' \in [Streams -> Homes]
    <3>1. home[s] \in Homes
        BY DEF StreamInv, TypeOK
    <3>2. [home[s] EXCEPT !.pc = "ended"] \in Homes
        BY <3>1 DEF Homes
    <3>. QED
        BY <3>2 DEF StreamInv, TypeOK, Abandons, Ended
  <2>2. wire' \in [Streams -> Wires]
    BY DEF StreamInv, TypeOK, Wires, Ends, Abandons, Ended
  <2>. QED
    BY <2>1, <2>2 DEF StreamInv, TypeOK, Abandons, Ended
<1>2. ASSUME NEW t \in Streams, t # s PROVE Good(t)'
    BY <1>2, Untouched DEF StreamInv, TypeOK, Abandons, Ended
<1>3. Good(s)
    BY DEF StreamInv
<1>4. Good(s)'
  <2>. USE DEF StreamInv, TypeOK, Clouds, Wires, Homes, Backs, Ends, Live, Good, Abandons, Ended
  <2>1. Life(s)'
      BY <1>3 DEF Life, Ending
  <2>2. Registered(s)'
      BY <1>3 DEF Registered
  <2>3. Ending(s)'
      BY <1>3 DEF Life, Registered, Ending
  <2>4. Sum(s)'
      BY <1>3 DEF Life, Registered, Ending, Sum
  <2>5. Credit(s)'
      BY <1>3 DEF Life, Registered, Credit, Metered
  <2>. HIDE DEF StreamInv, TypeOK, Clouds, Wires, Homes, Backs, Ends, Live, Good, Abandons, Ended
  <2>. QED
    BY <2>1, <2>2, <2>3, <2>4, <2>5 DEF Good
<1>. QED
    BY <1>1, <1>2, <1>4 DEF StreamInv

\* The two steps of a whole tunnel: the relay closes it, the home does.
LEMMA CloudClosesKeeps ==
    ASSUME StreamInv, CloudCloses
    PROVE  StreamInv'
<1>1. ASSUME NEW s \in Streams
      PROVE  [cloud[s] EXCEPT !.err = IF cloud[s].reg /\ @ = "none" THEN "closed" ELSE @] \in Clouds
    BY DEF StreamInv, TypeOK, Clouds
<1>2. TypeOK'
    BY <1>1 DEF StreamInv, TypeOK, CloudCloses
<1>3. ASSUME NEW s \in Streams PROVE Good(s)'
    BY Lengths DEF StreamInv, TypeOK, Clouds, Live, CloudCloses, Good, Life, Registered, Ending, Sum,
                   Credit, Metered
<1>. QED
    BY <1>2, <1>3 DEF StreamInv

LEMMA HomeClosesKeeps ==
    ASSUME StreamInv, HomeCloses
    PROVE  StreamInv'
<1>1. ASSUME NEW s \in Streams
      PROVE  [home[s] EXCEPT !.stop = home[s].pc \in {"serving", "sending"} \/ @] \in Homes
    BY DEF StreamInv, TypeOK, Homes
<1>2. TypeOK'
    BY <1>1 DEF StreamInv, TypeOK, HomeCloses
<1>3. ASSUME NEW s \in Streams PROVE Good(s)'
    BY Lengths DEF StreamInv, TypeOK, Homes, Live, HomeCloses, Good, Life, Registered, Ending, Sum,
                   Credit, Metered
<1>. QED
    BY <1>2, <1>3 DEF StreamInv

--------------------------------------------------------------------------------

LEMMA InitGood == Init => StreamInv
<1>. SUFFICES ASSUME Init PROVE StreamInv
    OBVIOUS
<1>1. TypeOK
  <2>1. home \in [Streams -> Homes]
    <3>1. PICK size \in [Streams -> Sizes] :
            home = [s \in Streams |-> [pc |-> "none", size |-> size[s], left |-> size[s],
                                       chunk |-> 0, avail |-> 0, stop |-> FALSE]]
        BY DEF Init
    <3>. QED
        BY <3>1, Lengths DEF Homes, Live
  <2>. QED
    BY <2>1 DEF Init, TypeOK, Clouds, Wires, Backs, Ends
<1>2. ASSUME NEW s \in Streams PROVE Good(s)
    BY Lengths DEF Init, Live, Good, Life, Registered, Ending, Sum, Credit, Metered
<1>. QED
    BY <1>1, <1>2 DEF StreamInv

LEMMA StepGood == StreamInv /\ [Next]_vars => StreamInv'
<1>. SUFFICES ASSUME StreamInv, [Next]_vars PROVE StreamInv'
    OBVIOUS
<1>1. ASSUME NEW s \in Streams, Client(s) PROVE StreamInv'
    BY <1>1, TakeHeadKeeps, ReadKeeps, ReadEndKeeps, BrokenKeeps DEF Client
<1>2. ASSUME NEW s \in Streams, Loop(s) PROVE StreamInv'
    BY <1>2, PushHeadKeeps, PushBodyKeeps, OverflowKeeps, WaitKeeps, PushEndKeeps DEF Loop
<1>3. ASSUME NEW s \in Streams, Dispatch(s) PROVE StreamInv'
    BY <1>3, CalledKeeps, CreditedKeeps, ToldToStopKeeps DEF Dispatch
<1>4. ASSUME NEW s \in Streams, Handler(s) PROVE StreamInv'
    BY <1>4, ServeKeeps, AnswerKeeps, ReadFileKeeps, SendKeeps, SendEndKeeps, GivesUpKeeps,
       AbandonsKeeps DEF Handler
<1>5. ASSUME NEW s \in Streams,
             Ask(s) \/ Leave(s) \/ Pause(s) \/ Stall(s) \/ AnswerFails(s) \/ FileFails(s) \/ TimesOut(s)
      PROVE  StreamInv'
    BY <1>5, AskKeeps, LeaveKeeps, PauseKeeps, StallKeeps, AnswerFailsKeeps, FileFailsKeeps,
       TimesOutKeeps
<1>6. CASE UNCHANGED vars
    BY <1>6 DEF vars, StreamInv, TypeOK, Good, Life, Registered, Ending, Sum, Credit, Metered
<1>. QED
    BY <1>1, <1>2, <1>3, <1>4, <1>5, <1>6, CloudClosesKeeps, HomeClosesKeeps DEF Next

\* The inductive invariant holds in every state, whatever the streams' number,
\* the window, the batch and the answers.
THEOREM Inductive == Spec => []StreamInv
    BY InitGood, StepGood, PTL DEF Spec

\* Every variable keeps its type: no counter of bytes or of credit passes zero.
THEOREM TypeSafety == Spec => []TypeOK
<1>1. StreamInv => TypeOK
    BY DEF StreamInv
<1>. QED
    BY <1>1, Inductive, PTL

\* A home that spends only its credit never has a stream failed for its window.
THEOREM WindowHeld == Spec => []WindowKept
<1>1. StreamInv => WindowKept
    BY DEF StreamInv, Good, Credit, WindowKept
<1>. QED
    BY <1>1, Inductive, PTL

\* What a client saw to its end is the whole answer.
THEOREM BodiesWhole == Spec => []WholeBody
<1>1. StreamInv => WholeBody
    BY DEF StreamInv, Good, Sum, WholeBody
<1>. QED
    BY <1>1, Inductive, PTL

\* The home and its client never wait for each other: were nothing under way,
\* the credit would be more than the window less a batch, which is a chunk.
THEOREM CreditComes == Spec => []CreditMoves
<1>1. StreamInv => CreditMoves
  <2>. SUFFICES ASSUME StreamInv, NEW s \in Streams,
                       Metered, relayOpen, cloud[s].reg, home[s].pc = "sending", ~Afford(s),
                       ~(wire[s].bytes + cloud[s].q + back[s].win > 0)
                PROVE  FALSE
    BY DEF CreditMoves
  <2>1. Good(s)
    BY DEF StreamInv
  <2>2. /\ wire[s].bytes \in Nat /\ cloud[s].q \in Nat /\ back[s].win \in Nat
        /\ home[s].avail \in Nat /\ home[s].chunk \in Nat /\ cloud[s].unacked \in Nat
    BY DEF StreamInv, TypeOK, Clouds, Wires, Homes, Backs
  <2>3. home[s].avail + cloud[s].unacked = Window
    BY <2>1, <2>2, Lengths DEF Good, Credit, Live
  <2>4. cloud[s].unacked < Grant
    BY <2>1 DEF Good, Credit, Metered
  <2>5. home[s].chunk =< MaxChunk /\ home[s].chunk > home[s].avail
    BY <2>1, <2>2 DEF Good, Life, Afford
  <2>. QED
    BY <2>2, <2>3, <2>4, <2>5, Lengths, Fitting
<1>. QED
    BY <1>1, Inductive, PTL

--------------------------------------------------------------------------------
(* Streams are bounded transfers.                                               *)

\* What a stream that dropped frames still has is no more than the file, and a
\* reader whose home keeps to its credit is never cut off from it.
Piped(s) ==
    /\ cloud[s].got + cloud[s].q + wire[s].bytes + home[s].chunk + home[s].left =< home[s].size
    /\ Metered /\ cloud[s].pc \in {"head", "body"} => cloud[s].reg

AllPiped == \A s \in Streams : Piped(s)

\* A step that shows nothing of any stream.
HiddenAt(s) ==
    /\ home'[s].size = home[s].size /\ home'[s].left = home[s].left
    /\ cloud'[s].got = cloud[s].got
    /\ cloud'[s].pc = cloud[s].pc \/ (cloud[s].pc = "head" /\ cloud'[s].pc = "body")

Hidden == flow' = flow /\ keeps' = keeps /\ \A s \in Streams : HiddenAt(s)

LEMMA HiddenStutters ==
    ASSUME StreamInv, Hidden
    PROVE  UNCHANGED Transfer!vars
<1>1. \A s \in Streams : Phase(s)' = Phase(s)
    BY DEF Hidden, HiddenAt, Phase
<1>. QED
    BY <1>1 DEF Hidden, HiddenAt, Transfer!vars, Metered

\* The steps of the relay's loop, of the home's loop and of the handlers that
\* neither read the file nor hand anything to the client.
LEMMA RelayHides ==
    ASSUME StreamInv, NEW s \in Streams, TakeHead(s) \/ Pause(s) \/ Loop(s) \/ Stall(s)
    PROVE  Hidden
<1>1. cloud \in [Streams -> Clouds]
    BY DEF StreamInv, TypeOK
<1>2. home' = home /\ flow' = flow /\ keeps' = keeps
    BY DEF TakeHead, Pause, Loop, PushHead, PushBody, Overflow, Wait, PushEnd, Stall, Failed
<1>3. ASSUME NEW t \in Streams, t # s PROVE cloud'[t] = cloud[t]
    BY <1>1, <1>3
       DEF TakeHead, Pause, Loop, PushHead, PushBody, Overflow, Wait, PushEnd, Stall, Failed
<1>4. /\ cloud'[s].got = cloud[s].got
      /\ cloud'[s].pc = cloud[s].pc \/ (cloud[s].pc = "head" /\ cloud'[s].pc = "body")
  <2>1. CASE TakeHead(s)
    BY <1>1, <2>1 DEF TakeHead, Clouds
  <2>2. CASE Pause(s)
    BY <1>1, <2>2 DEF Pause, Clouds
  <2>3. CASE PushHead(s)
    BY <1>1, <2>3 DEF PushHead, Clouds
  <2>4. CASE PushBody(s)
    BY <1>1, <2>4 DEF PushBody, Clouds
  <2>5. CASE Overflow(s) \/ Stall(s)
    BY <1>1, <2>5 DEF Overflow, Stall, Failed, Clouds
  <2>6. CASE Wait(s)
    BY <2>6 DEF Wait
  <2>7. CASE PushEnd(s)
    BY <1>1, <2>7 DEF PushEnd, Clouds
  <2>. QED
    BY <2>1, <2>2, <2>3, <2>4, <2>5, <2>6, <2>7 DEF Loop
<1>. QED
    BY <1>2, <1>3, <1>4 DEF Hidden, HiddenAt

LEMMA HomeHides ==
    ASSUME StreamInv, NEW s \in Streams,
           Dispatch(s) \/ Handler(s) \/ AnswerFails(s) \/ FileFails(s) \/ TimesOut(s),
           ~ReadFile(s)
    PROVE  Hidden
<1>. USE DEF Dispatch, Called, Credited, ToldToStop, Handler, Serve, Answer, Send, SendEnd,
             GivesUp, Abandons, AnswerFails, FileFails, TimesOut, Ended
<1>1. home \in [Streams -> Homes]
    BY DEF StreamInv, TypeOK
<1>2. cloud' = cloud /\ flow' = flow /\ keeps' = keeps
    OBVIOUS
<1>3. ASSUME NEW t \in Streams, t # s PROVE home'[t] = home[t]
    BY <1>1, <1>3
<1>4. home'[s].size = home[s].size /\ home'[s].left = home[s].left
  <2>1. CASE Dispatch(s)
    BY <1>1, <2>1 DEF Homes
  <2>2. CASE Serve(s) \/ Answer(s) \/ Send(s) \/ SendEnd(s)
    BY <1>1, <2>2 DEF Homes
  <2>3. CASE GivesUp(s) \/ Abandons(s) \/ AnswerFails(s) \/ FileFails(s) \/ TimesOut(s)
    BY <1>1, <2>3 DEF Homes
  <2>. QED
    BY <2>1, <2>2, <2>3
<1>. QED
    BY <1>2, <1>3, <1>4 DEF Hidden, HiddenAt

LEMMA ClosesHide ==
    ASSUME StreamInv, CloudCloses \/ HomeCloses \/ UNCHANGED vars
    PROVE  Hidden
<1>1. cloud \in [Streams -> Clouds] /\ home \in [Streams -> Homes]
    BY DEF StreamInv, TypeOK
<1>2. ASSUME NEW s \in Streams, CloudCloses PROVE HiddenAt(s)
    BY <1>1, <1>2 DEF CloudCloses, Clouds, HiddenAt
<1>3. ASSUME NEW s \in Streams, HomeCloses PROVE HiddenAt(s)
    BY <1>1, <1>3 DEF HomeCloses, Homes, HiddenAt
<1>4. CASE UNCHANGED vars
    BY <1>4 DEF vars, Hidden, HiddenAt
<1>. QED
    BY <1>2, <1>3, <1>4 DEF Hidden, CloudCloses, HomeCloses

\* The relay's side of a stream only loses bytes, the home's only moves them on.
LEMMA RelayTakes ==
    ASSUME StreamInv, NEW s \in Streams,
           Ask(s) \/ Client(s) \/ Leave(s) \/ Pause(s) \/ Loop(s) \/ Stall(s)
    PROVE  /\ home' = home /\ flow' = flow /\ keeps' = keeps
           /\ \A t \in Streams \ {s} : cloud'[t] = cloud[t] /\ wire'[t] = wire[t]
           /\ cloud'[s].got + cloud'[s].q + wire'[s].bytes
                =< cloud[s].got + cloud[s].q + wire[s].bytes
<1>. DEFINE Less == cloud'[s].got + cloud'[s].q + wire'[s].bytes
                      =< cloud[s].got + cloud[s].q + wire[s].bytes
<1>1. cloud \in [Streams -> Clouds] /\ wire \in [Streams -> Wires]
    BY DEF StreamInv, TypeOK
<1>2. /\ home' = home /\ flow' = flow /\ keeps' = keeps
      /\ \A t \in Streams \ {s} : cloud'[t] = cloud[t] /\ wire'[t] = wire[t]
  <2>1. CASE Ask(s) \/ Client(s) \/ Leave(s) \/ Pause(s)
    BY <1>1, <2>1 DEF Ask, Client, TakeHead, Read, ReadEnd, Broken, Leave, Pause, Released
  <2>2. CASE Loop(s) \/ Stall(s)
    BY <1>1, <2>2 DEF Loop, PushHead, PushBody, Overflow, Wait, PushEnd, Stall, Failed
  <2>. QED
    BY <2>1, <2>2
<1>3. cloud[s].got \in Nat /\ cloud[s].q \in Nat /\ wire[s].bytes \in Nat
    BY <1>1 DEF Clouds, Wires
<1>4. CASE Ask(s) \/ TakeHead(s) \/ Pause(s)
    BY <1>1, <1>3, <1>4 DEF Ask, TakeHead, Pause, Clouds
<1>5. CASE ReadEnd(s) \/ Broken(s) \/ Leave(s)
    BY <1>1, <1>3, <1>5 DEF ReadEnd, Broken, Leave, Released, Clouds
<1>6. CASE Read(s)
    BY <1>1, <1>3, <1>6 DEF Read, Clouds
<1>7. CASE PushHead(s) \/ Wait(s) \/ PushEnd(s)
  <2>1. /\ cloud'[s].got = cloud[s].got /\ cloud'[s].q = cloud[s].q
        /\ wire'[s].bytes = wire[s].bytes
    <3>1. CASE PushHead(s)
        BY <1>1, <3>1 DEF PushHead, Clouds, Wires
    <3>2. CASE Wait(s)
        BY <3>2 DEF Wait
    <3>3. CASE PushEnd(s)
        BY <1>1, <3>3 DEF PushEnd, Clouds, Wires
    <3>. QED
        BY <1>7, <3>1, <3>2, <3>3
  <2>. QED
    BY <1>2, <1>3, <2>1
<1>8. CASE PushBody(s)
    BY <1>1, <1>3, <1>8 DEF PushBody, Frame, Clouds, Wires
<1>9. CASE Overflow(s) \/ Stall(s)
    BY <1>1, <1>3, <1>9 DEF Overflow, Stall, Failed, Frame, Clouds, Wires
<1>. QED
    BY <1>2, <1>4, <1>5, <1>6, <1>7, <1>8, <1>9 DEF Client, Loop

LEMMA HomeMoves ==
    ASSUME StreamInv, NEW s \in Streams,
           Dispatch(s) \/ Handler(s) \/ AnswerFails(s) \/ FileFails(s) \/ TimesOut(s)
    PROVE  /\ cloud' = cloud /\ flow' = flow /\ keeps' = keeps
           /\ \A t \in Streams \ {s} : home'[t] = home[t] /\ wire'[t] = wire[t]
           /\ home'[s].size = home[s].size
           /\ wire'[s].bytes + home'[s].chunk + home'[s].left
                = wire[s].bytes + home[s].chunk + home[s].left
<1>1. /\ home \in [Streams -> Homes] /\ wire \in [Streams -> Wires]
      /\ home[s].chunk \in Nat /\ home[s].left \in Nat /\ wire[s].bytes \in Nat
    BY DEF StreamInv, TypeOK, Homes, Wires
<1>2. cloud' = cloud /\ flow' = flow /\ keeps' = keeps
    BY DEF Dispatch, Called, Credited, ToldToStop, Handler, Serve, Answer, ReadFile, Send,
           SendEnd, GivesUp, Abandons, AnswerFails, FileFails, TimesOut, Ended
<1>3. \A t \in Streams \ {s} : home'[t] = home[t] /\ wire'[t] = wire[t]
    BY <1>1
       DEF Dispatch, Called, Credited, ToldToStop, Handler, Serve, Answer, ReadFile, Send,
           SendEnd, GivesUp, Abandons, AnswerFails, FileFails, TimesOut, Ended
<1>4. CASE ReadFile(s)
  <2>1. PICK n \in 1..MaxChunk :
          /\ home[s].chunk = 0 /\ n =< home[s].left /\ wire' = wire
          /\ home' = [home EXCEPT ![s] = [home[s] EXCEPT !.chunk = n, !.left = home[s].left - n]]
    BY <1>1, <1>4 DEF ReadFile
  <2>2. home'[s].size = home[s].size /\ home'[s].chunk = n /\ home'[s].left = home[s].left - n
    BY <1>1, <2>1 DEF Homes
  <2>. QED
    BY <1>1, <1>2, <1>3, <2>1, <2>2
<1>5. CASE Send(s)
  <2>1. /\ home'[s].size = home[s].size /\ home'[s].chunk = 0 /\ home'[s].left = home[s].left
        /\ wire'[s].bytes = wire[s].bytes + home[s].chunk
    BY <1>1, <1>5 DEF Send, Homes, Wires
  <2>. QED
    BY <1>1, <1>2, <1>3, <2>1
<1>6. CASE ~ReadFile(s) /\ ~Send(s)
  <2>1. home'[s].size = home[s].size /\ home'[s].left = home[s].left
    BY <1>6, HomeHides DEF Hidden, HiddenAt
  <2>2. wire'[s].bytes = wire[s].bytes
    BY <1>1, <1>6
       DEF Dispatch, Called, Credited, ToldToStop, Handler, Serve, Answer,
           SendEnd, GivesUp, Abandons, AnswerFails, FileFails, TimesOut, Ended, Wires
  <2>3. home'[s].chunk = home[s].chunk
    <3>1. CASE Dispatch(s)
        BY <1>1, <3>1 DEF Dispatch, Called, Credited, ToldToStop, Homes
    <3>2. CASE Serve(s) \/ Answer(s) \/ SendEnd(s)
        BY <1>1, <3>2 DEF Serve, Answer, SendEnd, Ended, Homes
    <3>3. CASE GivesUp(s) \/ Abandons(s) \/ AnswerFails(s) \/ FileFails(s) \/ TimesOut(s)
        BY <1>1, <3>3 DEF GivesUp, Abandons, AnswerFails, FileFails, TimesOut, Ended, Homes
    <3>. QED
        BY <1>6, <3>1, <3>2, <3>3 DEF Handler
  <2>. QED
    BY <1>2, <1>3, <2>1, <2>2, <2>3
<1>. QED
    BY <1>4, <1>5, <1>6

LEMMA NoneMore ==
    ASSUME StreamInv, StreamInv', AllPiped, [Next]_vars, NEW s \in Streams
    PROVE  cloud'[s].got + cloud'[s].q + wire'[s].bytes + home'[s].chunk + home'[s].left
             =< home'[s].size
<1>1. /\ cloud[s].got \in Nat /\ cloud[s].q \in Nat /\ wire[s].bytes \in Nat
      /\ home[s].chunk \in Nat /\ home[s].left \in Nat /\ home[s].size \in Nat
      /\ cloud'[s].got \in Nat /\ cloud'[s].q \in Nat /\ wire'[s].bytes \in Nat
      /\ home'[s].chunk \in Nat /\ home'[s].left \in Nat
    BY Lengths DEF StreamInv, TypeOK, Clouds, Wires, Homes
<1>2. cloud[s].got + cloud[s].q + wire[s].bytes + home[s].chunk + home[s].left =< home[s].size
    BY DEF AllPiped, Piped
<1>3. ASSUME NEW t \in Streams,
             Ask(t) \/ Client(t) \/ Leave(t) \/ Pause(t) \/ Loop(t) \/ Stall(t)
      PROVE  cloud'[s].got + cloud'[s].q + wire'[s].bytes + home'[s].chunk + home'[s].left
               =< home'[s].size
    BY <1>1, <1>2, <1>3, RelayTakes
<1>4. ASSUME NEW t \in Streams,
             Dispatch(t) \/ Handler(t) \/ AnswerFails(t) \/ FileFails(t) \/ TimesOut(t)
      PROVE  cloud'[s].got + cloud'[s].q + wire'[s].bytes + home'[s].chunk + home'[s].left
               =< home'[s].size
    BY <1>1, <1>2, <1>4, HomeMoves
<1>5. CASE CloudCloses
  <2>1. cloud'[s].got = cloud[s].got /\ cloud'[s].q = cloud[s].q
    BY <1>5 DEF CloudCloses, StreamInv, TypeOK, Clouds
  <2>. QED
    BY <1>2, <1>5, <2>1 DEF CloudCloses
<1>6. CASE HomeCloses
  <2>1. home'[s].chunk = home[s].chunk /\ home'[s].left = home[s].left
        /\ home'[s].size = home[s].size
    BY <1>6 DEF HomeCloses, StreamInv, TypeOK, Homes
  <2>. QED
    BY <1>2, <1>6, <2>1 DEF HomeCloses
<1>7. CASE UNCHANGED vars
    BY <1>2, <1>7 DEF vars
<1>. QED
    BY <1>3, <1>4, <1>5, <1>6, <1>7 DEF Next

\* Nobody is cut off by a home that keeps to its credit.
LEMMA Attached ==
    ASSUME StreamInv, StreamInv', AllPiped, [Next]_vars, NEW s \in Streams,
           Metered', cloud'[s].pc \in {"head", "body"}
    PROVE  cloud'[s].reg
<1>1. cloud \in [Streams -> Clouds]
    BY DEF StreamInv, TypeOK
<1>2. flow' = flow /\ keeps' = keeps
    BY RelayTakes, HomeMoves DEF Next, vars, CloudCloses, HomeCloses
<1>3. CASE cloud'[s] = cloud[s]
    BY <1>2, <1>3 DEF AllPiped, Piped, Metered
<1>4. ASSUME NEW t \in Streams,
             Ask(t) \/ Client(t) \/ Leave(t) \/ Pause(t) \/ Loop(t) \/ Stall(t)
      PROVE  cloud'[s].reg
  <2>1. CASE s # t
    BY <1>3, <1>4, <2>1, RelayTakes
  <2>2. CASE s = t
    <3>1. CASE Ask(s)
        BY <1>1, <3>1 DEF Ask, Clouds
    <3>2. CASE TakeHead(s) \/ Pause(s) \/ Read(s) \/ PushHead(s) \/ PushBody(s) \/ PushEnd(s) \/ Wait(s)
      <4>1. CASE TakeHead(s)
        BY <1>1, <1>2, <4>1 DEF TakeHead, Clouds, AllPiped, Piped, Metered
      <4>7. CASE Pause(s)
        BY <1>1, <1>2, <4>7 DEF Pause, Clouds, AllPiped, Piped, Metered
      <4>4. CASE PushHead(s)
        BY <1>1, <1>2, <4>4 DEF PushHead, Clouds, AllPiped, Piped, Metered
      <4>5. CASE PushEnd(s)
        BY <1>1, <1>2, <4>5 DEF PushEnd, Clouds, AllPiped, Piped, Metered
      <4>6. CASE Wait(s)
        BY <1>2, <4>6 DEF Wait, AllPiped, Piped, Metered
      <4>2. CASE Read(s)
        BY <1>1, <1>2, <4>2 DEF Read, Clouds, AllPiped, Piped, Metered
      <4>3. CASE PushBody(s)
        BY <1>1, <1>2, <4>3 DEF PushBody, Clouds, AllPiped, Piped, Metered
      <4>. QED
        BY <3>2, <4>1, <4>2, <4>3, <4>4, <4>5, <4>6, <4>7
    <3>3. CASE ReadEnd(s) \/ Broken(s) \/ Leave(s)
        BY <1>1, <3>3 DEF ReadEnd, Broken, Leave, Released, Clouds
    <3>4. ~Overflow(s)
      <4>1. Overflow(s) => cloud'[s].err = "overflow"
        BY <1>1 DEF Overflow, Failed, Clouds
      <4>. QED
        BY <4>1 DEF StreamInv, Good, Credit, Metered
    <3>5. ~Stall(s)
        BY <1>2 DEF Stall, Waits, Metered
    <3>. QED
        BY <1>4, <2>2, <3>1, <3>2, <3>3, <3>4, <3>5 DEF Client, Loop
  <2>. QED
    BY <2>1, <2>2
<1>5. ASSUME NEW t \in Streams,
             Dispatch(t) \/ Handler(t) \/ AnswerFails(t) \/ FileFails(t) \/ TimesOut(t)
      PROVE  cloud'[s].reg
    BY <1>3, <1>5, HomeMoves
<1>6. CASE CloudCloses
  <2>1. cloud'[s].pc = cloud[s].pc /\ cloud'[s].reg = cloud[s].reg
    BY <1>1, <1>6 DEF CloudCloses, Clouds
  <2>. QED
    BY <1>2, <2>1 DEF AllPiped, Piped, Metered
<1>7. CASE HomeCloses \/ UNCHANGED vars
    BY <1>3, <1>7 DEF HomeCloses, vars
<1>. QED
    BY <1>4, <1>5, <1>6, <1>7 DEF Next

LEMMA PipedKept ==
    ASSUME StreamInv, StreamInv', AllPiped, [Next]_vars
    PROVE  AllPiped'
BY Attached, NoneMore DEF AllPiped, Piped

\* A read of the file fills the transfer, within the window and a chunk.
LEMMA ReadFileFills ==
    ASSUME StreamInv, AllPiped, NEW s \in Streams, ReadFile(s)
    PROVE  Transfer!Fill(s)
<1>1. PICK n \in 1..MaxChunk :
        /\ home[s].pc = "sending" /\ home[s].chunk = 0 /\ n =< home[s].left
        /\ home' = [home EXCEPT ![s].chunk = n, ![s].left = @ - n]
        /\ cloud' = cloud /\ flow' = flow /\ keeps' = keeps
    BY DEF ReadFile
<1>2. /\ cloud[s].got \in Nat /\ cloud[s].q \in Nat /\ wire[s].bytes \in Nat
      /\ home[s].left \in Nat /\ home[s].size \in Nat /\ home[s].avail \in Nat
      /\ cloud[s].unacked \in Nat /\ back[s].win \in Nat
      /\ home \in [Streams -> Homes]
  <2>1. /\ cloud[s] \in Clouds /\ wire[s] \in Wires /\ home[s] \in Homes /\ back[s] \in Backs
        /\ home \in [Streams -> Homes]
    BY DEF StreamInv, TypeOK
  <2>. QED
    BY <2>1, Lengths DEF Clouds, Wires, Homes, Backs
<1>n. MaxChunk \in Nat /\ n \in Nat /\ n =< MaxChunk /\ n > 0
    BY Lengths
<1>3. Good(s) /\ Piped(s)
    BY DEF StreamInv, AllPiped
<1>4. home[s].left =< home[s].size
    BY <1>1, <1>2, <1>3 DEF Piped
<1>5. cloud[s].pc # "idle"
    BY <1>1, <1>3 DEF Good, Life
<1>6. Phase(s) # "idle"
    BY <1>5 DEF Phase, StreamInv, TypeOK, Clouds
<1>7. ASSUME Metered, Phase(s) = "open"
      PROVE  home[s].size - home[s].left + n =< cloud[s].got + (Window + MaxChunk)
  <2>1. cloud[s].pc \in {"head", "body"}
    BY <1>7 DEF Phase, StreamInv, TypeOK, Clouds
  <2>2. cloud[s].got + cloud[s].q + wire[s].bytes + home[s].left = home[s].size
    BY <1>1, <1>2, <1>3, <1>7, <2>1 DEF Piped, Good, Sum
  <2>3. wire[s].bytes + cloud[s].q =< Window
    BY <1>2, <1>3, <1>7, Lengths DEF Good, Credit
  <2>. QED
    BY <1>2, <1>n, <2>2, <2>3, Lengths
<1>8. /\ home'[s].size = home[s].size /\ home'[s].left = home[s].left - n
      /\ \A t \in Streams \ {s} : home'[t] = home[t]
    BY <1>1, <1>2 DEF Homes
<1>9. \A t \in Streams : home'[t].size = home[t].size /\ Phase(t)' = Phase(t)
    BY <1>1, <1>8 DEF Phase
<1>10. [t \in Streams |-> home'[t].size - home'[t].left]
         = [[t \in Streams |-> home[t].size - home[t].left] EXCEPT
              ![s] = home[s].size - home[s].left + n]
  <2>1. home'[s].size - home'[s].left = home[s].size - home[s].left + n
    BY <1>2, <1>n, <1>8
  <2>. QED
    BY <1>8, <2>1
<1>11. n \in 1..(home[s].size - (home[s].size - home[s].left))
    BY <1>1, <1>2, <1>n
<1>12. /\ [t \in Streams |-> home'[t].size] = [t \in Streams |-> home[t].size]
       /\ [t \in Streams |-> cloud'[t].got] = [t \in Streams |-> cloud[t].got]
       /\ [t \in Streams |-> Phase(t)'] = [t \in Streams |-> Phase(t)]
       /\ Metered' = Metered
    BY <1>1, <1>9 DEF Metered
<1>13. /\ [t \in Streams |-> Phase(t)][s] # "idle"
       /\ Metered /\ [t \in Streams |-> Phase(t)][s] = "open" =>
            [t \in Streams |-> home[t].size - home[t].left][s] + n
              =< [t \in Streams |-> cloud[t].got][s] + (Window + MaxChunk)
    BY <1>6, <1>7
<1>. QED
    BY <1>10, <1>11, <1>12, <1>13 DEF Transfer!Fill

\* What the client reads drains it.
LEMMA ReadDrains ==
    ASSUME StreamInv, AllPiped, NEW s \in Streams, Read(s)
    PROVE  Transfer!Drain(s)
<1>1. PICK n \in 1..MaxChunk :
        /\ cloud[s].pc = "body" /\ n =< cloud[s].q
        /\ \E u : cloud' = [cloud EXCEPT ![s].q = @ - n, ![s].got = @ + n, ![s].unacked = u]
        /\ home' = home /\ flow' = flow /\ keeps' = keeps
    BY DEF Read
<1>2. /\ cloud[s].got \in Nat /\ cloud[s].q \in Nat /\ wire[s].bytes \in Nat
      /\ home[s].left \in Nat /\ home[s].size \in Nat /\ home[s].chunk \in Nat
      /\ cloud \in [Streams -> Clouds]
  <2>1. /\ cloud[s] \in Clouds /\ wire[s] \in Wires /\ home[s] \in Homes
        /\ cloud \in [Streams -> Clouds]
    BY DEF StreamInv, TypeOK
  <2>. QED
    BY <2>1, Lengths DEF Clouds, Wires, Homes
<1>n. n \in Nat /\ n > 0
    BY Lengths
<1>3. /\ cloud'[s].pc = "body" /\ cloud'[s].got = cloud[s].got + n
      /\ \A t \in Streams \ {s} : cloud'[t] = cloud[t]
    BY <1>1, <1>2 DEF Clouds
<1>4. Phase(s) = "open" /\ \A t \in Streams : Phase(t)' = Phase(t)
    BY <1>1, <1>3 DEF Phase
<1>5. n \in 1..(home[s].size - home[s].left - cloud[s].got)
    BY <1>1, <1>2, <1>n DEF AllPiped, Piped
<1>6. [t \in Streams |-> cloud'[t].got]
        = [[t \in Streams |-> cloud[t].got] EXCEPT ![s] = cloud[s].got + n]
    BY <1>3
<1>. QED
    BY <1>1, <1>4, <1>5, <1>6 DEF Transfer!Drain, Metered

\* A stream is asked, and ends whole or broken.
LEMMA Turns ==
    ASSUME StreamInv, NEW s \in Streams
    PROVE  /\ Ask(s) => Transfer!Ask(s)
           /\ ReadEnd(s) => Transfer!Whole(s) \/ Transfer!Break(s)
           /\ Broken(s) \/ Leave(s) => Transfer!Break(s)
<1>1. cloud \in [Streams -> Clouds]
    BY DEF StreamInv, TypeOK
<1>2. ASSUME NEW from, NEW to, Phase(s) = from, Phase(s)' = to,
             home' = home, flow' = flow, keeps' = keeps, cloud'[s].got = cloud[s].got,
             \A t \in Streams \ {s} : cloud'[t] = cloud[t]
      PROVE  Transfer!Becomes(s, from, to)
  <2>1. \A t \in Streams \ {s} : Phase(t)' = Phase(t)
    BY <1>2 DEF Phase
  <2>2. [t \in Streams |-> Phase(t)'] = [[t \in Streams |-> Phase(t)] EXCEPT ![s] = to]
    BY <1>2, <2>1
  <2>3. [t \in Streams |-> cloud'[t].got] = [t \in Streams |-> cloud[t].got]
    BY <1>2
  <2>. QED
    BY <1>2, <2>2, <2>3 DEF Transfer!Becomes, Metered
<1>3. Ask(s) => Transfer!Ask(s)
  <2>. SUFFICES ASSUME Ask(s) PROVE Transfer!Becomes(s, "idle", "open")
    BY DEF Transfer!Ask
  <2>1. /\ cloud[s].pc = "idle" /\ cloud'[s].pc = "head" /\ cloud'[s].got = cloud[s].got
        /\ \A t \in Streams \ {s} : cloud'[t] = cloud[t]
    BY <1>1 DEF Ask, Clouds
  <2>2. Phase(s) = "idle" /\ Phase(s)' = "open"
    BY <2>1 DEF Phase
  <2>. QED
    BY <1>2, <2>1, <2>2 DEF Ask
<1>4. ASSUME NEW pc \in {"done", "failed"}, Released(s, pc), cloud[s].pc \in {"head", "body"},
             home' = home, flow' = flow, keeps' = keeps
      PROVE  Transfer!Becomes(s, "open", IF pc = "done" THEN "whole" ELSE "broken")
  <2>1. /\ cloud'[s].pc = pc /\ cloud'[s].got = cloud[s].got
        /\ \A t \in Streams \ {s} : cloud'[t] = cloud[t]
    BY <1>1, <1>4 DEF Released, Clouds
  <2>2. Phase(s) = "open" /\ Phase(s)' = IF pc = "done" THEN "whole" ELSE "broken"
    BY <1>4, <2>1 DEF Phase
  <2>. QED
    BY <1>2, <1>4, <2>1, <2>2
<1>5. Broken(s) \/ Leave(s) => Transfer!Break(s)
    BY <1>4 DEF Broken, Leave, Transfer!Break
<1>6. ReadEnd(s) => Transfer!Whole(s) \/ Transfer!Break(s)
  <2>1. ASSUME ReadEnd(s), cloud[s].end = "eof" PROVE Transfer!Whole(s)
    <3>1. Good(s) /\ home[s].left = 0 /\ home[s].chunk = 0 /\ wire[s].bytes = 0
          /\ cloud[s].reg /\ cloud[s].q = 0
        BY <2>1 DEF ReadEnd, StreamInv, Good, Ending
    <3>2. cloud[s].got \in Nat /\ home[s].size \in Nat
        BY Lengths DEF StreamInv, TypeOK, Clouds, Homes
    <3>3. cloud[s].got = home[s].size
        BY <3>1, <3>2 DEF Good, Sum
    <3>. QED
        BY <1>4, <2>1, <3>3 DEF ReadEnd, Transfer!Whole
  <2>2. ASSUME ReadEnd(s), cloud[s].end # "eof" PROVE Transfer!Break(s)
    BY <1>4, <2>2 DEF ReadEnd, Transfer!Break
  <2>. QED
    BY <2>1, <2>2
<1>. QED
    BY <1>3, <1>5, <1>6

\* Every step of every stream is a step of its transfer.
THEOREM StreamsTransfer == Spec => Transfers
<1>1. ASSUME Init PROVE Transfer!Init /\ AllPiped
  <2>1. PICK size \in [Streams -> Sizes] :
          home = [s \in Streams |-> [pc |-> "none", size |-> size[s], left |-> size[s],
                                     chunk |-> 0, avail |-> 0, stop |-> FALSE]]
    BY <1>1 DEF Init
  <2>2. ASSUME NEW s \in Streams
        PROVE  /\ home[s].size \in Nat /\ home[s].size - home[s].left = 0
               /\ Phase(s) = "idle" /\ cloud[s].got = 0 /\ Piped(s)
    <3>1. cloud[s].got = 0 /\ cloud[s].q = 0 /\ cloud[s].pc = "idle" /\ wire[s].bytes = 0
        BY <1>1 DEF Init
    <3>2. home[s].size \in Nat /\ home[s].left = home[s].size /\ home[s].chunk = 0
        BY <2>1, Lengths
    <3>. QED
        BY <3>1, <3>2 DEF Phase, Piped, Metered
  <2>3. AllPiped
    BY <2>2 DEF AllPiped
  <2>5. Metered \in BOOLEAN
    BY <1>1 DEF Init, Metered
  <2>. QED
    BY <2>2, <2>3, <2>5 DEF Transfer!Init
<1>2. ASSUME StreamInv, AllPiped, [Next]_vars PROVE [Transfer!Next]_(Transfer!vars)
  <2>1. CASE Hidden
    BY <1>2, <2>1, HiddenStutters
  <2>2. ASSUME NEW s \in Streams, ReadFile(s) \/ Read(s) \/ Ask(s) \/ ReadEnd(s) \/ Broken(s) \/ Leave(s)
        PROVE  Transfer!Next
    BY <1>2, <2>2, ReadFileFills, ReadDrains, Turns DEF Transfer!Next
  <2>3. CASE ~Hidden /\ ~\E s \in Streams : \/ ReadFile(s) \/ Read(s) \/ Ask(s) \/ ReadEnd(s)
                                            \/ Broken(s) \/ Leave(s)
    BY <1>2, <2>3, RelayHides, HomeHides, ClosesHide DEF Next, Client
  <2>. QED
    BY <2>1, <2>2, <2>3
<1>3. StreamInv /\ StreamInv' /\ AllPiped /\ [Next]_vars => AllPiped'
    BY PipedKept
<1>. QED
    BY <1>1, <1>2, <1>3, Inductive, PTL DEF Spec, Transfers, Transfer!Spec

================================================================================
