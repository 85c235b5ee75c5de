------------------------- MODULE NodeLifecycleProofs -------------------------
(***************************************************************************)
(* Proofs about the life cycle of the node, for any joints: what is left   *)
(* when the group is given up, that services have a tick thread behind     *)
(* them, and that joints are powered on invitation only.                   *)
(***************************************************************************)
EXTENDS NodeLifecycle, TLAPS

\* What the argument needs of the types.
NodeTypeOK ==
  /\ {spinning, tg, open, up, running, stopReq, request, release, ready, invited, stuck} \subseteq BOOLEAN
  /\ req \in Requests

\* A thread runs only in a group that is running, a group that is given up has given
\* up everything, and services live on a group that runs.
GroupInv ==
  /\ ~running => tpc = "off"
  /\ tg => open
  /\ ~tg => /\ ~running /\ ~open /\ mode = "idle" /\ lpc = "idle"
            /\ phase \in {"unconfigured", "finalized"}
            /\ onExit = "disable" /\ ~stuck => on = {}
  /\ up => tg /\ running
  /\ lpc \in {"deactivateCall", "deactivatePause", "deactivateJoin", "giveUpJoin"} => ~up
  /\ lpc = "giveUpJoin" => phase \in {"unconfigured", "finalized"}

\* Who gives power back has found it on invitation, or was passed over when it was
\* taken; a tick thread that activates a bus that is active changes nothing.
PowerInv ==
  /\ on # {} => invited
  /\ spc # "idle" /\ Restores => invited
  /\ tpc = "reactivate" => mode = "active" \/ invited

-----------------------------------------------------------------------------
\* Every step keeps the types.
LEMMA TypeStep ==
  ASSUME NodeTypeOK, [Next]_vars
  PROVE  NodeTypeOK'
<1> USE DEF NodeTypeOK, config, node, thread, flags, device, service
<1>1. CASE EnterPause
  BY <1>1 DEF EnterPause, TakePower
<1>2. CASE LeaveDecide
  BY <1>2 DEF LeaveDecide
<1>3. CASE LeaveAct
  BY <1>3 DEF LeaveAct, ActivateBus
<1>4. CASE Left
  BY <1>4 DEF Left
<1>5. CASE ThreadEnds
  BY <1>5 DEF ThreadEnds
<1>6. CASE PowerLost
  BY <1>6 DEF PowerLost
<1>7. CASE Interrupt
  BY <1>7 DEF Interrupt
<1>8. CASE OnConfigure
  BY <1>8 DEF OnConfigure, May
<1>9. CASE OnActivate
  BY <1>9 DEF OnActivate, May, Start, CreateEntities
<1>10. CASE ActivateThrows
  BY <1>10 DEF ActivateThrows, May, Start
<1>11. CASE OnDeactivate
  BY <1>11 DEF OnDeactivate, May, DestroyEntities
<1>12. CASE GiveUp
  BY <1>12 DEF GiveUp, DestroyEntities, StopCall
<1>13. CASE CallPause("activateCall", "activatePause")
  BY <1>13 DEF CallPause, PauseFlags, Granted
<1>14. CASE CallPause("deactivateCall", "deactivatePause")
  BY <1>14 DEF CallPause, PauseFlags, Granted
<1>15. CASE CallPause("errorCall", "errorPause")
  BY <1>15 DEF CallPause, PauseFlags, Granted
<1>16. CASE PauseTimeout
  BY <1>16 DEF PauseTimeout
<1>17. CASE ActivateDone
  BY <1>17 DEF ActivateDone, Activated, ActivateBus, Resume, Granted, BlockingOpAllowed
<1>18. CASE DeactivateDone
  BY <1>18 DEF DeactivateDone, Disabled, TransitionTakesPower, TakePower, GivesBack, StopCall, Granted, BlockingOpAllowed
<1>19. CASE DeactivateJoined
  BY <1>19 DEF DeactivateJoined
<1>20. CASE GaveUp
  BY <1>20 DEF GaveUp, Close, TransitionTakesPower, TakePower, GivesBack
<1>21. CASE OnErrorDone
  BY <1>21 DEF OnErrorDone, Disabled, TransitionTakesPower, TakePower, GivesBack, Resume, Granted, BlockingOpAllowed
<1>22. CASE WindowTimeout
  BY <1>22 DEF WindowTimeout, ServiceReturns, NoRequest, Requests
<1>23. CASE Serve
  <2>1. CASE req.op = "enable"
    BY <1>23, <2>1 DEF Serve, SetEnabled
  <2>2. CASE req.op = "disable"
    BY <1>23, <2>2 DEF Serve, SetEnabled
  <2>3. CASE req.op = "look"
    BY <1>23, <2>3 DEF Serve, SetEnabled
  <2> QED
    BY <2>1, <2>2, <2>3 DEF Requests, NodeTypeOK
<1>24. CASE CloseWindow
  BY <1>24 DEF CloseWindow, ServiceReturns, NoRequest, Requests, Restores, SetEnabled, Resume
<1>25. ASSUME NEW r \in Requests, OpenWindow(r) PROVE NodeTypeOK'
  BY <1>25 DEF OpenWindow, PauseFlags, Granted, Requests
<1>26. CASE UNCHANGED vars
  BY <1>26 DEF vars
<1> QED
  BY <1>1, <1>2, <1>3, <1>4, <1>5, <1>6, <1>7, <1>8, <1>9, <1>10, <1>11, <1>12, <1>13, <1>14, <1>15, <1>16, <1>17, <1>18, <1>19, <1>20, <1>21, <1>22, <1>23, <1>24, <1>25, <1>26
     DEF Next, Tick, Transition, TransitionStep, Ending, ServiceStep

\* Every step keeps what a group and its services stand on.
LEMMA GroupStep ==
  ASSUME NodeTypeOK, GroupInv, [Next]_vars
  PROVE  GroupInv'
<1> USE DEF NodeTypeOK, GroupInv, config, node, thread, flags, device, service
<1>1. CASE EnterPause
  BY <1>1 DEF EnterPause, TakePower
<1>2. CASE LeaveDecide
  BY <1>2 DEF LeaveDecide
<1>3. CASE LeaveAct
  BY <1>3 DEF LeaveAct, ActivateBus
<1>4. CASE Left
  BY <1>4 DEF Left
<1>5. CASE ThreadEnds
  BY <1>5 DEF ThreadEnds
<1>6. CASE PowerLost
  BY <1>6 DEF PowerLost
<1>7. CASE Interrupt
  BY <1>7 DEF Interrupt
<1>8. CASE OnConfigure
  BY <1>8 DEF OnConfigure, May
<1>9. CASE OnActivate
  BY <1>9 DEF OnActivate, May, Start, CreateEntities
<1>10. CASE ActivateThrows
  BY <1>10 DEF ActivateThrows, May, Start
<1>11. CASE OnDeactivate
  BY <1>11 DEF OnDeactivate, May, DestroyEntities
<1>12. CASE GiveUp
  BY <1>12 DEF GiveUp, DestroyEntities, StopCall
<1>13. CASE CallPause("activateCall", "activatePause")
  BY <1>13 DEF CallPause, PauseFlags, Granted
<1>14. CASE CallPause("deactivateCall", "deactivatePause")
  BY <1>14 DEF CallPause, PauseFlags, Granted
<1>15. CASE CallPause("errorCall", "errorPause")
  BY <1>15 DEF CallPause, PauseFlags, Granted
<1>16. CASE PauseTimeout
  BY <1>16 DEF PauseTimeout
<1>17. CASE ActivateDone
  BY <1>17 DEF ActivateDone, Activated, ActivateBus, Resume, Granted, BlockingOpAllowed
<1>18. CASE DeactivateDone
  BY <1>18 DEF DeactivateDone, Disabled, TransitionTakesPower, TakePower, GivesBack, StopCall, Granted, BlockingOpAllowed
<1>19. CASE DeactivateJoined
  BY <1>19 DEF DeactivateJoined
<1>20. CASE GaveUp
  BY <1>20 DEF GaveUp, Close, TransitionTakesPower, TakePower, GivesBack
<1>21. CASE OnErrorDone
  BY <1>21 DEF OnErrorDone, Disabled, TransitionTakesPower, TakePower, GivesBack, Resume, Granted, BlockingOpAllowed
<1>22. CASE WindowTimeout
  BY <1>22 DEF WindowTimeout, ServiceReturns, NoRequest, Requests
<1>23. CASE Serve
  <2>1. CASE req.op = "enable"
    BY <1>23, <2>1 DEF Serve, SetEnabled
  <2>2. CASE req.op = "disable"
    BY <1>23, <2>2 DEF Serve, SetEnabled
  <2>3. CASE req.op = "look"
    BY <1>23, <2>3 DEF Serve, SetEnabled
  <2> QED
    BY <2>1, <2>2, <2>3 DEF Requests, NodeTypeOK
<1>24. CASE CloseWindow
  BY <1>24 DEF CloseWindow, ServiceReturns, NoRequest, Requests, Restores, SetEnabled, Resume
<1>25. ASSUME NEW r \in Requests, OpenWindow(r) PROVE GroupInv'
  BY <1>25 DEF OpenWindow, PauseFlags, Granted, Requests
<1>26. CASE UNCHANGED vars
  BY <1>26 DEF vars
<1> QED
  BY <1>1, <1>2, <1>3, <1>4, <1>5, <1>6, <1>7, <1>8, <1>9, <1>10, <1>11, <1>12, <1>13, <1>14, <1>15, <1>16, <1>17, <1>18, <1>19, <1>20, <1>21, <1>22, <1>23, <1>24, <1>25, <1>26
     DEF Next, Tick, Transition, TransitionStep, Ending, ServiceStep

\* Every step keeps power on invitation.
LEMMA PowerStep ==
  ASSUME NodeTypeOK, GroupInv, PowerInv, [Next]_vars
  PROVE  PowerInv'
<1> USE DEF NodeTypeOK, GroupInv, PowerInv, Restores, Requests, config, node, thread, flags, device, service
<1>1. CASE EnterPause
  BY <1>1 DEF EnterPause, TakePower
<1>2. CASE LeaveDecide
  BY <1>2 DEF LeaveDecide
<1>3. CASE LeaveAct
  BY <1>3 DEF LeaveAct, ActivateBus
<1>4. CASE Left
  BY <1>4 DEF Left
<1>5. CASE ThreadEnds
  BY <1>5 DEF ThreadEnds
<1>6. CASE PowerLost
  BY <1>6 DEF PowerLost
<1>7. CASE Interrupt
  BY <1>7 DEF Interrupt
<1>8. CASE OnConfigure
  BY <1>8 DEF OnConfigure, May
<1>9. CASE OnActivate
  BY <1>9 DEF OnActivate, May, Start, CreateEntities
<1>10. CASE ActivateThrows
  BY <1>10 DEF ActivateThrows, May, Start
<1>11. CASE OnDeactivate
  BY <1>11 DEF OnDeactivate, May, DestroyEntities
<1>12. CASE GiveUp
  BY <1>12 DEF GiveUp, DestroyEntities, StopCall
<1>13. CASE CallPause("activateCall", "activatePause")
  BY <1>13 DEF CallPause, PauseFlags, Granted
<1>14. CASE CallPause("deactivateCall", "deactivatePause")
  BY <1>14 DEF CallPause, PauseFlags, Granted
<1>15. CASE CallPause("errorCall", "errorPause")
  BY <1>15 DEF CallPause, PauseFlags, Granted
<1>16. CASE PauseTimeout
  BY <1>16 DEF PauseTimeout
<1>17. CASE ActivateDone
  BY <1>17 DEF ActivateDone, Activated, ActivateBus, Resume, Granted, BlockingOpAllowed
<1>18. CASE DeactivateDone
  BY <1>18 DEF DeactivateDone, Disabled, TransitionTakesPower, TakePower, GivesBack, StopCall, Granted, BlockingOpAllowed
<1>19. CASE DeactivateJoined
  BY <1>19 DEF DeactivateJoined
<1>20. CASE GaveUp
  BY <1>20 DEF GaveUp, Close, TransitionTakesPower, TakePower, GivesBack
<1>21. CASE OnErrorDone
  BY <1>21 DEF OnErrorDone, Disabled, TransitionTakesPower, TakePower, GivesBack, Resume, Granted, BlockingOpAllowed
<1>22. CASE WindowTimeout
  BY <1>22 DEF WindowTimeout, ServiceReturns, NoRequest, Requests
<1>23. CASE Serve
  BY <1>23 DEF Serve, SetEnabled
<1>24. CASE CloseWindow
  BY <1>24 DEF CloseWindow, ServiceReturns, NoRequest, Requests, Restores, SetEnabled, Resume
<1>25. ASSUME NEW r \in Requests, OpenWindow(r) PROVE PowerInv'
  BY <1>25 DEF OpenWindow, PauseFlags, Granted, Requests
<1>26. CASE UNCHANGED vars
  BY <1>26 DEF vars
<1> QED
  BY <1>1, <1>2, <1>3, <1>4, <1>5, <1>6, <1>7, <1>8, <1>9, <1>10, <1>11, <1>12, <1>13, <1>14, <1>15, <1>16, <1>17, <1>18, <1>19, <1>20, <1>21, <1>22, <1>23, <1>24, <1>25, <1>26
     DEF Next, Tick, Transition, TransitionStep, Ending, ServiceStep

-----------------------------------------------------------------------------
\* The life cycle of the node keeps its group, its entities and its phase in step.
LEMMA GroupCorrect == Spec => [](NodeTypeOK /\ GroupInv)
<1>1. Init => NodeTypeOK /\ GroupInv
  <2> SUFFICES ASSUME Init PROVE NodeTypeOK /\ GroupInv
    OBVIOUS
  <2>1. req \in Requests
    BY DEF Init, NoRequest, Requests
  <2>2. NodeTypeOK
    BY <2>1 DEF Init, NodeTypeOK
  <2>3. GroupInv
    BY DEF Init, GroupInv
  <2> QED
    BY <2>2, <2>3
<1>2. (NodeTypeOK /\ GroupInv) /\ [Next]_vars => (NodeTypeOK /\ GroupInv)'
  BY TypeStep, GroupStep
<1> QED
  BY <1>1, <1>2, PTL DEF Spec

\* However the group of a node is lost (on_cleanup(), on_shutdown(), the end of main()),
\* no thread and no lock is left, and with on_exit=disable no powered joint.
THEOREM GroupIsReleased == Spec => []GoneIsReleased
<1>1. GroupInv => GoneIsReleased
  BY DEF GroupInv, GoneIsReleased
<1> QED
  BY <1>1, GroupCorrect, PTL

\* Services are offered by a node only that has a bus and a tick thread.
THEOREM ServicesHaveTick == Spec => []ServedByTick
<1>1. GroupInv => ServedByTick
  BY DEF GroupInv, ServedByTick
<1> QED
  BY <1>1, GroupCorrect, PTL

\* A joint is powered only when somebody asked for it since a transition last took its
\* power, or was giving it back at that moment, however transitions, services and the
\* tick thread overlap and whatever call fails.
THEOREM PowerOnInvitation == Spec => []PowerIsInvited
<1>1. Init => PowerInv
  BY DEF Init, PowerInv
<1>2. NodeTypeOK /\ GroupInv /\ PowerInv /\ [Next]_vars => PowerInv'
  BY PowerStep
<1>3. PowerInv => PowerIsInvited
  BY DEF PowerInv, PowerIsInvited
<1> QED
  BY <1>1, <1>2, <1>3, GroupCorrect, PTL DEF Spec
=============================================================================
