--------------------------- MODULE MCRelayTunnels ---------------------------
(* Two relay processes for TLC.  They are alike: the home starts on the first. *)
(* The request is a GET: another takes the same steps until its tunnel closes, *)
(* and fails where a GET is routed again.                                      *)
EXTENDS RelayTunnels

CONSTANTS r1, r2

MCInit == Init /\ tun[1].relay = r1

MCNext == Next /\ (q.pc = "idle" => q'.pc = "idle" \/ q'.get)

MCSpec == MCInit /\ [][MCNext]_vars /\ Fairness
=============================================================================
