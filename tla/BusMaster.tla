----------------------------- MODULE BusMaster -----------------------------
(***************************************************************************)
(* The single-master rule (ADR-9), with no file in sight: of the processes *)
(* that ask for exclusivity, at most one is the master of a bus.  It takes *)
(* a bus that has no master, gives its buses back one at a time, or dies   *)
(* and leaves all of them free at once.                                    *)
(***************************************************************************)
CONSTANTS
  Masters,     \* the processes that ask for exclusivity
  Buses,       \* the physical channels
  Nobody       \* the master of a free bus

VARIABLE master

Init == master = [b \in Buses |-> Nobody]

Take(p, b) == master[b] = Nobody /\ master' = [master EXCEPT ![b] = p]
Give(p, b) == master[b] = p /\ master' = [master EXCEPT ![b] = Nobody]
Die(p) == master' = [b \in Buses |-> IF master[b] = p THEN Nobody ELSE master[b]]

Next == \E p \in Masters : Die(p) \/ \E b \in Buses : Take(p, b) \/ Give(p, b)

Spec == Init /\ [][Next]_master
=============================================================================
