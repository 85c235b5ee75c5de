---------------------------- MODULE LatestValue ----------------------------
(***************************************************************************)
(* What a latest-value exchange promises: a value is replaced by the next  *)
(* one, at most one reader is given it as new, and a reader keeps its own  *)
(* copy otherwise.  This is the contract in the comments of TripleBuffer   *)
(* (src/jr_ros2/include/jr_ros2/rt/jr_triple_buffer.hpp), without its lock. *)
(***************************************************************************)
EXTENDS Naturals

CONSTANT Readers

VARIABLES
  value,   \* the number of the last value
  taken,   \* whether it was given to a reader, or is gone
  copy     \* the number of the copy each reader keeps; 0 before its first

vars == <<value, taken, copy>>

Init == value = 0 /\ taken = TRUE /\ copy = [r \in Readers |-> 0]

Put == value' = value + 1 /\ taken' = FALSE /\ UNCHANGED copy

Take(r) ==
  /\ ~taken
  /\ copy' = [copy EXCEPT ![r] = value] /\ taken' = TRUE /\ UNCHANGED value

\* The exchange is given up with the value nobody took; a new one takes its place.
Renew == taken' = TRUE /\ UNCHANGED <<value, copy>>

Next == Put \/ Renew \/ \E r \in Readers : Take(r)

Spec == Init /\ [][Next]_vars
=============================================================================
