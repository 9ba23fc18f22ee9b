----------------------------- MODULE EncodeOnce -----------------------------
(***************************************************************************)
(* What the placement of live channels promises, whatever is cached,       *)
(* forwarded, late or lost: a channel has at most one owner, every change  *)
(* of owner comes with a token above every token ever given, and only the  *)
(* owner encodes under the channel's current token                         *)
(* (specs/epics/32-tv-streaming-cluster-remote/README.md, R2.1).           *)
(***************************************************************************)
EXTENDS Naturals

CONSTANTS Channels, Hosts, None

VARIABLES owner, token, holders

vars == <<owner, token, holders>>

Init ==
    /\ owner = [c \in Channels |-> None]
    /\ token = [c \in Channels |-> 0]
    /\ holders = [c \in Channels |-> {}]

\* The channel gets an owner, the same or another, under a token above all others;
\* nobody encodes under it yet.
Grant(c, h) ==
    /\ owner' = [owner EXCEPT ![c] = h]
    /\ token' = [token EXCEPT ![c] = token'[c]]
    /\ \A d \in Channels : token'[c] > token[d]
    /\ holders' = [holders EXCEPT ![c] = {}]

\* The channel has no owner any more.
Return(c) ==
    /\ owner[c] # None
    /\ owner' = [owner EXCEPT ![c] = None]
    /\ token' = [token EXCEPT ![c] = token'[c]]
    /\ token'[c] >= token[c]
    /\ holders' = [holders EXCEPT ![c] = {}]

\* Hosts start and stop to encode: under a current token only the owner does.
Encode ==
    /\ holders' \in [Channels -> SUBSET Hosts]
    /\ \A c \in Channels : holders'[c] \subseteq {owner[c]}
    /\ UNCHANGED <<owner, token>>

Next == (\E c \in Channels : Return(c) \/ \E h \in Hosts : Grant(c, h)) \/ Encode

Spec == Init /\ [][Next]_vars
=============================================================================
