--------------------------- MODULE BoundedTransfer ---------------------------
(* What the relay and the home promise together of the answers they carry: a  *)
(* client is never handed more than was read for it, it is told that the      *)
(* answer is whole only when it has all of it, and on a capped tunnel the     *)
(* home's reading of an answer stays Ahead of its client by no more than was  *)
(* agreed on, for as long as somebody is there to take it.                    *)
EXTENDS Naturals

CONSTANTS Streams, Ahead

VARIABLES
    capped,    \* the two sides agreed on a limit
    length,    \* how long the answer to a stream's request is
    read,      \* how much of it the home took from its API
    got,       \* how much of it the client was handed
    state      \* "idle", "open", then "whole" or "broken"

vars == <<capped, length, read, got, state>>

Init ==
    /\ capped \in BOOLEAN
    /\ length \in [Streams -> Nat]
    /\ read = [s \in Streams |-> 0]
    /\ got = [s \in Streams |-> 0]
    /\ state = [s \in Streams |-> "idle"]

Becomes(s, from, to) ==
    /\ state[s] = from
    /\ state' = [state EXCEPT ![s] = to]
    /\ UNCHANGED <<capped, length, read, got>>

Ask(s) == Becomes(s, "idle", "open")

\* Nobody holds the home back from reading an answer its client gave up.
Fill(s) ==
    \E n \in 1..(length[s] - read[s]) :
        /\ state[s] # "idle"
        /\ capped /\ state[s] = "open" => read[s] + n =< got[s] + Ahead
        /\ read' = [read EXCEPT ![s] = @ + n]
        /\ UNCHANGED <<capped, length, got, state>>

Drain(s) ==
    \E n \in 1..(read[s] - got[s]) :
        /\ state[s] = "open"
        /\ got' = [got EXCEPT ![s] = @ + n]
        /\ UNCHANGED <<capped, length, read, state>>

Whole(s) == got[s] = length[s] /\ Becomes(s, "open", "whole")

Break(s) == Becomes(s, "open", "broken")

Next == \E s \in Streams : Ask(s) \/ Fill(s) \/ Drain(s) \/ Whole(s) \/ Break(s)

Spec == Init /\ [][Next]_vars

==============================================================================
