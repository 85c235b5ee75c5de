------------------------- MODULE ContextOwnership -------------------------
(***************************************************************************)
(* What the safe-pause protocol promises, with no flag in sight: an SDK    *)
(* context has one owner at a time, only the owner is ever inside it, and  *)
(* ownership moves only while nobody is inside.  The rule is the header    *)
(* comment of src/jr_ros2/include/jr_ros2/rt/jr_tick_group.hpp.  It is     *)
(* void while callbacks meet, and binds again from a state of rest.        *)
(***************************************************************************)
CONSTANTS
  Clients,     \* the threads that may borrow the context
  Tick         \* the tick thread, which owns it otherwise

VARIABLES
  owner,       \* the thread that may enter the context
  inside,      \* the threads that are inside it
  void         \* whether callbacks have met since the last state of rest

Init == owner = Tick /\ inside = {} /\ void = FALSE

Enter(t)    == owner = t /\ inside = {} /\ inside' = {t} /\ UNCHANGED owner
Exit(t)     == inside = {t} /\ inside' = {} /\ UNCHANGED owner
HandOver(c) == owner = Tick /\ inside = {} /\ owner' = c /\ UNCHANGED inside
GiveBack(c) == owner = c /\ inside = {} /\ owner' = Tick /\ UNCHANGED inside

\* While the rule binds.
Ruled ==
  /\ void = FALSE /\ void' = FALSE
  /\ \/ \E t \in Clients \cup {Tick} : Enter(t) \/ Exit(t)
     \/ \E c \in Clients : HandOver(c) \/ GiveBack(c)

\* Two callbacks meet: nobody is promised anything, also not afterwards.
Meet == void' = TRUE

\* The rule binds again where the tick thread owns the context and nobody borrows it.
Rest == void = TRUE /\ void' = FALSE /\ owner' = Tick /\ inside' \subseteq {Tick}

Next == Ruled \/ Meet \/ Rest

Spec == Init /\ [][Next]_<<owner, inside, void>>
=============================================================================
