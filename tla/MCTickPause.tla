---------------------------- MODULE MCTickPause ----------------------------
(* Model values for TickPause: the service thread, the poll timer thread   *)
(* and the lifecycle thread.  The services and the timer share a callback group,   *)
(* the transitions have another one.                                       *)
EXTENDS TickPause

CONSTANTS svc, poll, life

MCClients      == {svc, poll, life}
MCLifecycle    == {life}
TwoGroups      == [c \in MCClients |-> IF c = life THEN life ELSE svc]
=============================================================================
