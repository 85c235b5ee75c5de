------------------------------ MODULE EventLog ------------------------------
(***************************************************************************)
(* What the fault ring promises (the header comment of                     *)
(* src/jr_ros2/include/jr_ros2/rt/jr_spsc_ring.hpp): events come out in    *)
(* the order in which they were accepted, each one once; when N events     *)
(* wait, it is the new event that is dropped, and counted.                 *)
(***************************************************************************)
EXTENDS Naturals, Sequences

CONSTANTS
  N,           \* how many events can wait
  Events       \* what an event can be

VARIABLES
  log,         \* the events accepted so far
  taken,       \* how many of them came out
  out,         \* the one that came out last
  lost         \* how many events were dropped

Init == log = << >> /\ taken = 0 /\ out = 0 /\ lost = 0

Accept(e) ==
  /\ Len(log) - taken < N
  /\ log' = Append(log, e)
  /\ UNCHANGED <<taken, out, lost>>

Drop ==
  /\ Len(log) - taken >= N
  /\ lost' = lost + 1
  /\ UNCHANGED <<log, taken, out>>

Take ==
  /\ taken < Len(log)
  /\ out' = log[taken + 1] /\ taken' = taken + 1
  /\ UNCHANGED <<log, lost>>

Next == (\E e \in Events : Accept(e)) \/ Drop \/ Take

Spec == Init /\ [][Next]_<<log, taken, out, lost>>
=============================================================================
