------------------------- MODULE PauseWindowProofs -------------------------
(***************************************************************************)
(* Proofs about the safe pause: the protocol that hands the context over,  *)
(* for any set of clients, and what a window does to the buses of the      *)
(* group, for any buses and joints.                                        *)
(***************************************************************************)
EXTENDS TickPause, SafeWindow, TLAPS

(***************************************************************************)
(* The protocol (TickPause).                                               *)
(***************************************************************************)

\* The variables keep their types, whatever the callback groups are.
THEOREM TypeCorrect == Spec => []TypeOK
<1>1. Init => TypeOK
  BY DEF Init, TypeOK, TickLocations, ClientLocations
<1>2. TypeOK /\ [Next]_vars => TypeOK'
  <2> SUFFICES ASSUME TypeOK, [Next]_vars PROVE TypeOK'
    OBVIOUS
  <2> USE DEF TypeOK, flags, TickLocations, ClientLocations, Begins
  <2>1. CASE Tick
    BY <2>1 DEF Tick, TickGoto, LoopTest, PauseTest, CycleDone, EnterPauseDone, SignalReady,
                ReleaseTest, LeavePauseDone, ClearReady, ClearRequest, ClearRelease
  <2>2. ASSUME NEW c \in Clients, PauseCall(c) \/ PauseStep(c) \/ PauseTimeout(c) PROVE TypeOK'
    <3>1. CASE PauseCall(c)
      BY <3>1 DEF PauseCall, ClientGoto
    <3>2. CASE PeekDone(c) \/ PauseCheckRunning(c) \/ PauseCheckReady(c)
      BY <3>2 DEF PeekDone, PauseCheckRunning, PauseCheckReady, ClientGoto
    <3>3. CASE PauseSetRelease(c)
      BY <3>3 DEF PauseSetRelease, ClientGoto
    <3>4. CASE PauseSetRequest(c)
      BY <3>4 DEF PauseSetRequest, ClientGoto
    <3>5. CASE PauseReady(c) \/ PauseTimeout(c)
      BY <3>5 DEF PauseReady, PauseTimeout, ClientGoto
    <3> QED
      BY <2>2, <3>1, <3>2, <3>3, <3>4, <3>5 DEF PauseStep
  <2>3. ASSUME NEW c \in Clients, CallBegin(c) \/ CallDone(c) \/ Resume(c) PROVE TypeOK'
    <3>1. CASE CallBegin(c) \/ CallDone(c)
      BY <3>1 DEF CallBegin, CallDone, ClientGoto
    <3>2. CASE Resume(c)
      BY <3>2 DEF Resume, ClientGoto
    <3> QED
      BY <2>3, <3>1, <3>2
  <2>4. ASSUME NEW c \in Clients, Start(c) \/ Stop(c) \/ StopStep(c) PROVE TypeOK'
    <3>1. CASE Start(c) \/ Stop(c)
      BY <3>1 DEF Start, Stop, ClientGoto
    <3>2. CASE StopStep(c)
      BY <3>2 DEF StopStep, StopRelease, StopJoin, ClientGoto
    <3> QED
      BY <2>4, <3>1, <3>2
  <2>5. CASE UNCHANGED vars
    BY <2>5 DEF vars
  <2> QED
    BY <2>1, <2>2, <2>3, <2>4, <2>5 DEF Next, Client
<1> QED
  BY <1>1, <1>2, PTL DEF Spec

-----------------------------------------------------------------------------
(* The inductive invariant.                                                *)

LEMMA InitProtocol == Init => Protocol
  BY DEF Init, Protocol, OneBusy, TickPlaces, ReadyMeansParked, NoRequestKept,
         ClientPlaces, BeingLeft, InWindow

\* Where nothing is left of earlier windows the protocol starts afresh.
LEMMA RestIsProtocol == TypeOK /\ AtRest => Protocol
  BY DEF TypeOK, AtRest, Protocol, OneBusy, TickPlaces, ReadyMeansParked, NoRequestKept,
         ClientPlaces, BeingLeft, InWindow

\* A step of the tick thread keeps the invariant; no client moves.
LEMMA TickKeepsProtocol ==
  ASSUME TypeOK, Protocol, Tick
  PROVE  Protocol'
<1> USE DEF TypeOK, TickGoto, flags, TickLocations, ClientLocations
<1>1. OneBusy'
  BY DEF Protocol, OneBusy, Tick, LoopTest, PauseTest, CycleDone, EnterPauseDone,
         SignalReady, ReleaseTest, LeavePauseDone, ClearReady, ClearRequest, ClearRelease
<1> USE DEF Protocol, TickPlaces, ReadyMeansParked, NoRequestKept, ClientPlaces,
            BeingLeft, InWindow, OneBusy
<1>2. CASE LoopTest
  BY <1>1, <1>2 DEF LoopTest
<1>3. CASE PauseTest
  BY <1>1, <1>3 DEF PauseTest
<1>4. CASE CycleDone
  BY <1>1, <1>4 DEF CycleDone
<1>5. CASE EnterPauseDone
  BY <1>1, <1>5 DEF EnterPauseDone
<1>6. CASE SignalReady
  BY <1>1, <1>6 DEF SignalReady
<1>7. CASE ReleaseTest
  BY <1>1, <1>7 DEF ReleaseTest
<1>8. CASE LeavePauseDone
  BY <1>1, <1>8 DEF LeavePauseDone
<1>9. CASE ClearReady
  BY <1>1, <1>9 DEF ClearReady
<1>10. CASE ClearRequest
  BY <1>1, <1>10 DEF ClearRequest
<1>11. CASE ClearRelease
  BY <1>1, <1>11 DEF ClearRelease
<1> QED
  BY <1>2, <1>3, <1>4, <1>5, <1>6, <1>7, <1>8, <1>9, <1>10, <1>11 DEF Tick

\* A client that is out of "idle" is alone there, unless callbacks have met; the others
\* stay where they are.
LEMMA ClientAlone ==
  ASSUME TypeOK, ProtocolInv, NEW c \in Clients, Client(c), ~overlapped'
  PROVE  /\ Protocol
         /\ \A d \in Clients \ {c} : cpc[d] = "idle" /\ cpc'[d] = "idle"
<1>1. \A d \in Clients \ {c} : cpc'[d] = cpc[d]
  BY DEF TypeOK, Client, PauseCall, PauseStep, PeekDone, PauseCheckRunning, PauseCheckReady,
         PauseSetRelease, PauseSetRequest, PauseReady, PauseTimeout, CallBegin, CallDone,
         Resume, Start, Stop, StopStep, StopRelease, StopJoin, ClientGoto
<1>2. CASE PauseCall(c) \/ Start(c) \/ Stop(c)
  <2>1. (\A d \in Clients \ {c} : cpc[d] = "idle") /\ (overlapped => AtRest)
    BY <1>2 DEF PauseCall, Start, Stop, Begins
  <2> QED
    BY <1>1, <2>1, RestIsProtocol DEF ProtocolInv
<1>3. CASE ~(PauseCall(c) \/ Start(c) \/ Stop(c))
  <2>1. overlapped' = overlapped /\ cpc[c] # "idle"
    BY <1>3 DEF Client, PauseStep, PeekDone, PauseCheckRunning, PauseCheckReady,
         PauseSetRelease, PauseSetRequest, PauseReady, PauseTimeout, CallBegin, CallDone,
         Resume, StopStep, StopRelease, StopJoin, ClientGoto
  <2>2. Protocol
    BY <2>1 DEF ProtocolInv
  <2> QED
    BY <1>1, <2>1, <2>2 DEF Protocol, OneBusy
<1> QED
  BY <1>2, <1>3

\* A step of a client keeps the invariant.
LEMMA ClientKeepsProtocol ==
  ASSUME TypeOK, ProtocolInv, NEW c \in Clients, Client(c), ~overlapped'
  PROVE  Protocol'
<1>1. Protocol /\ \A d \in Clients \ {c} : cpc[d] = "idle" /\ cpc'[d] = "idle"
  BY ClientAlone
<1>0. OneBusy'
  BY <1>1 DEF OneBusy
<1> USE DEF TypeOK, ClientGoto, flags, TickLocations, ClientLocations,
            Protocol, TickPlaces, ReadyMeansParked, NoRequestKept, ClientPlaces,
            BeingLeft, InWindow
<1>2. CASE PauseCall(c)
  BY <1>0, <1>1, <1>2 DEF PauseCall, Begins
<1>3. CASE PeekDone(c)
  BY <1>0, <1>1, <1>3 DEF PeekDone
<1>4. CASE PauseCheckRunning(c)
  BY <1>0, <1>1, <1>4 DEF PauseCheckRunning
<1>5. CASE PauseCheckReady(c)
  BY <1>0, <1>1, <1>5 DEF PauseCheckReady
<1>6. CASE PauseSetRelease(c)
  BY <1>0, <1>1, <1>6 DEF PauseSetRelease
<1>7. CASE PauseSetRequest(c)
  BY <1>0, <1>1, <1>7 DEF PauseSetRequest
<1>8. CASE PauseReady(c)
  BY <1>0, <1>1, <1>8 DEF PauseReady
<1>9. CASE PauseTimeout(c)
  BY <1>0, <1>1, <1>9 DEF PauseTimeout
<1>10. CASE CallBegin(c) \/ CallDone(c)
  BY <1>0, <1>1, <1>10 DEF CallBegin, CallDone
<1>11. CASE Resume(c)
  BY <1>0, <1>1, <1>11 DEF Resume
<1>12. CASE Start(c)
  BY <1>0, <1>1, <1>12 DEF Start
<1>13. CASE Stop(c)
  BY <1>0, <1>1, <1>13 DEF Stop
<1>14. CASE StopRelease(c)
  BY <1>0, <1>1, <1>14 DEF StopRelease
<1>15. CASE StopJoin(c)
  BY <1>0, <1>1, <1>15 DEF StopJoin
<1> QED
  BY <1>2, <1>3, <1>4, <1>5, <1>6, <1>7, <1>8, <1>9, <1>10, <1>11, <1>12, <1>13, <1>14, <1>15
     DEF Client, PauseStep, StopStep

\* The protocol invariant holds in every reachable state, whatever the callback groups
\* and the order of the callbacks are: between two meetings of callbacks the flags, the
\* local variable of the tick thread and the threads fit together.
THEOREM ProtocolCorrect == Spec => []ProtocolInv
<1>1. TypeOK /\ ProtocolInv /\ [Next]_vars => ProtocolInv'
  <2> SUFFICES ASSUME TypeOK, ProtocolInv, [Next]_vars, ~overlapped' PROVE Protocol'
    BY DEF ProtocolInv
  <2>1. CASE Tick
    <3>1. overlapped' = overlapped
      BY <2>1 DEF Tick, LoopTest, PauseTest, CycleDone, EnterPauseDone, SignalReady,
             ReleaseTest, LeavePauseDone, ClearReady, ClearRequest, ClearRelease
    <3> QED
      BY <2>1, <3>1, TickKeepsProtocol DEF ProtocolInv
  <2>2. ASSUME NEW c \in Clients, Client(c) PROVE Protocol'
    BY <2>2, ClientKeepsProtocol
  <2>3. CASE UNCHANGED vars
    BY <2>3 DEF vars, flags, ProtocolInv, Protocol, OneBusy, TickPlaces, ReadyMeansParked,
                NoRequestKept, ClientPlaces, BeingLeft, InWindow
  <2> QED
    BY <2>1, <2>2, <2>3 DEF Next
<1>2. Init => ProtocolInv
  BY InitProtocol DEF ProtocolInv
<1> QED
  BY <1>1, <1>2, TypeCorrect, PTL DEF Spec

-----------------------------------------------------------------------------
(* What follows from it.                                                   *)

\* A tick thread that is inside the context has no client in a window.
LEMMA TickInContextAlone ==
  ASSUME Protocol, TickInContext, NEW c \in Clients
  PROVE  ~InWindow(c)
  BY DEF Protocol, TickInContext, InWindow, TickPlaces, ReadyMeansParked, ClientPlaces

\* Until two callbacks meet, and again after the next state of rest, a blocking call never
\* meets the tick thread inside the context, and no two callbacks are inside it together.
THEOREM WindowsAreExclusive == Spec => [](ParkedWhileCalled /\ OneCaller)
<1>1. ProtocolInv => ParkedWhileCalled /\ OneCaller
  BY TickInContextAlone
     DEF ParkedWhileCalled, OneCaller, InContext, InWindow, ProtocolInv, Protocol, OneBusy
<1> QED
  BY <1>1, ProtocolCorrect, PTL

-----------------------------------------------------------------------------
(* The protocol implements ContextOwnership.                               *)

\* What the refinement mapping gives in a state that satisfies the invariant.
MappingFacts ==
  /\ \A c \in Clients : InWindow(c) => Holder = c
  /\ (\A c \in Clients : ~InWindow(c)) => Holder = "tick"
  /\ \A c \in Clients : InContext(c) => Inside = {c}
  /\ TickInContext => Inside = {"tick"} /\ Holder = "tick"
  /\ (\A c \in Clients : ~InContext(c)) /\ ~TickInContext => Inside = {}

LEMMA MappingCorrect == Protocol => MappingFacts
<1> SUFFICES ASSUME Protocol PROVE MappingFacts
  OBVIOUS
<1>1. \A c, d \in Clients : InWindow(c) /\ InWindow(d) => c = d
  BY DEF Protocol, OneBusy, InWindow
<1>2. \A c \in Clients : InContext(c) => InWindow(c)
  BY DEF InContext, InWindow
<1>3. TickInContext => \A c \in Clients : ~InWindow(c)
  BY TickInContextAlone
<1>4. \A c \in Clients : InWindow(c) => Holder = c
  BY <1>1 DEF Holder
<1>5. (\A c \in Clients : ~InWindow(c)) => Holder = "tick"
  BY DEF Holder
<1>6. \A c \in Clients : InContext(c) => Inside = {c}
  BY <1>1, <1>2, <1>3 DEF Inside
<1>7. TickInContext => Inside = {"tick"}
  BY <1>2, <1>3 DEF Inside
<1>8. (\A c \in Clients : ~InContext(c)) /\ ~TickInContext => Inside = {}
  BY DEF Inside
<1> QED
  BY <1>3, <1>4, <1>5, <1>6, <1>7, <1>8 DEF MappingFacts

LEMMA MappingCorrectNext == Protocol' => MappingFacts'
  BY MappingCorrect, PTL

\* A step of the tick thread enters, leaves, or is not visible.
LEMMA TickStepMaps ==
  ASSUME TypeOK, MappingFacts, MappingFacts', Tick
  PROVE  [\/ \E t \in Clients \cup {"tick"} : Ownership!Enter(t) \/ Ownership!Exit(t)
          \/ \E c \in Clients : Ownership!HandOver(c) \/ Ownership!GiveBack(c)]_<<Holder, Inside>>
<1> USE DEF TypeOK, TickGoto, TickLocations
<1>1. /\ \A c \in Clients : cpc'[c] = cpc[c]
      /\ \A c \in Clients : InWindow(c)' = InWindow(c) /\ InContext(c)' = InContext(c)
  BY DEF Tick, LoopTest, PauseTest, CycleDone, EnterPauseDone, SignalReady, ReleaseTest,
         LeavePauseDone, ClearReady, ClearRequest, ClearRelease, InWindow, InContext
<1>2. Holder' = Holder
  BY <1>1 DEF Holder
<1>3. CASE TickInContext /\ TickInContext'
  BY <1>2, <1>3 DEF MappingFacts
<1>4. CASE ~TickInContext /\ ~TickInContext'
  BY <1>1, <1>2, <1>4 DEF Inside
<1>5. CASE TickInContext /\ ~TickInContext'
  <2>1. Inside = {"tick"} /\ Inside' = {}
    <3>1. \A c \in Clients : ~InContext(c)
      BY <1>5, ClientsAssumption DEF MappingFacts
    <3> QED
      BY <3>1, <1>1, <1>5 DEF MappingFacts
  <2> QED
    BY <1>2, <2>1 DEF Ownership!Exit
<1>6. CASE ~TickInContext /\ TickInContext'
  <2>1. Inside' = {"tick"} /\ Holder' = "tick" /\ \A c \in Clients : ~InContext(c)
    BY <1>1, <1>6, ClientsAssumption DEF MappingFacts
  <2>2. Inside = {}
    BY <2>1, <1>6 DEF MappingFacts
  <2> QED
    BY <1>2, <2>1, <2>2 DEF Ownership!Enter
<1> QED
  BY <1>3, <1>4, <1>5, <1>6

\* A step of a client takes the context, gives it back, enters, leaves, or is
\* not visible.
LEMMA ClientStepMaps ==
  ASSUME TypeOK, ProtocolInv, MappingFacts, MappingFacts',
         NEW c \in Clients, Client(c), ~overlapped'
  PROVE  [\/ \E t \in Clients \cup {"tick"} : Ownership!Enter(t) \/ Ownership!Exit(t)
          \/ \E d \in Clients : Ownership!HandOver(d) \/ Ownership!GiveBack(d)]_<<Holder, Inside>>
<1> USE DEF TypeOK, ClientGoto, InWindow, InContext
<1>1. Protocol /\ \A d \in Clients \ {c} : cpc[d] = "idle" /\ cpc'[d] = "idle"
  BY ClientAlone
<1>2. c # "tick"
  BY ClientsAssumption
<1>3. InWindow(c) => Holder = c /\ ~TickInContext
  BY <1>2 DEF MappingFacts
<1>4. InWindow(c)' => Holder' = c /\ ~TickInContext'
  BY <1>2 DEF MappingFacts
<1>5. ~InWindow(c) => Holder = "tick"
  BY <1>1 DEF MappingFacts
<1>6. ~InWindow(c)' => Holder' = "tick"
  BY <1>1 DEF MappingFacts
<1>7. CASE /\ InWindow(c)' = InWindow(c) /\ InContext(c)' = InContext(c)
           /\ TickInContext' = TickInContext
  <2>1. Holder' = Holder
    BY <1>3, <1>4, <1>5, <1>6, <1>7
  <2>2. \A d \in Clients : InContext(d)' = InContext(d)
    BY <1>1, <1>7
  <2> QED
    BY <1>7, <2>1, <2>2 DEF Inside
<1>8. CASE ~InWindow(c) /\ cpc'[c] = "owner" /\ tpc' = tpc
  <2>1. Holder = "tick" /\ Holder' = c
    BY <1>4, <1>5, <1>8
  <2>2. ~TickInContext /\ ~TickInContext'
    BY <1>4, <1>8 DEF TickInContext
  <2>3. /\ \A d \in Clients : ~InContext(d)
        /\ \A d \in Clients : ~InContext(d)'
    BY <1>1, <1>8
  <2>4. Inside = {} /\ Inside' = {}
    BY <2>2, <2>3 DEF MappingFacts
  <2> QED
    BY <2>1, <2>4 DEF Ownership!HandOver
<1>9. CASE CallBegin(c)
  <2>1. Inside = {} /\ Inside' = {c} /\ Holder = c /\ Holder' = c
    BY <1>1, <1>3, <1>4, <1>9 DEF CallBegin, MappingFacts
  <2> QED
    BY <2>1 DEF Ownership!Enter
<1>10. CASE CallDone(c)
  <2>1. Inside = {c} /\ Inside' = {} /\ Holder = c /\ Holder' = c
    BY <1>1, <1>3, <1>4, <1>10 DEF CallDone, MappingFacts
  <2> QED
    BY <2>1 DEF Ownership!Exit
<1>11. CASE Resume(c)
  <2>1. ~InWindow(c)' /\ ~InContext(c)' /\ InWindow(c) /\ ~InContext(c)
    BY <1>11 DEF Resume
  <2>2. ~TickInContext /\ ~TickInContext'
    BY <1>3, <1>11, <2>1 DEF Resume, TickInContext
  <2>3. /\ \A d \in Clients : ~InContext(d)
        /\ \A d \in Clients : ~InContext(d)'
    BY <1>1, <2>1
  <2>4. Inside = {} /\ Inside' = {} /\ Holder = c /\ Holder' = "tick"
    BY <1>3, <1>6, <2>1, <2>2, <2>3 DEF MappingFacts
  <2> QED
    BY <2>4 DEF Ownership!GiveBack
<1>12. CASE PauseCheckRunning(c) \/ PauseCheckReady(c) \/ PauseReady(c)
  BY <1>7, <1>8, <1>12 DEF PauseCheckRunning, PauseCheckReady, PauseReady, TickInContext
<1>13. CASE PauseCall(c) \/ PeekDone(c) \/ PauseTimeout(c)
  BY <1>7, <1>13 DEF PauseCall, PeekDone, PauseTimeout, TickInContext
<1>14. CASE PauseSetRelease(c) \/ PauseSetRequest(c)
  BY <1>7, <1>14 DEF PauseSetRelease, PauseSetRequest, TickInContext
<1>15. CASE Start(c)
  <2>1. TickInContext' = TickInContext
    BY <1>1, <1>15 DEF Start, Protocol, TickPlaces, TickInContext
  <2> QED
    BY <1>7, <1>15, <2>1 DEF Start
<1>16. CASE Stop(c) \/ StopStep(c)
  <2>1. CASE Stop(c)
    BY <1>7, <2>1 DEF Stop, TickInContext
  <2>2. CASE StopRelease(c)
    BY <1>7, <2>2 DEF StopRelease, TickInContext
  <2>3. CASE StopJoin(c)
    BY <1>7, <2>3 DEF StopJoin, TickInContext
  <2> QED
    BY <1>16, <2>1, <2>2, <2>3 DEF StopStep
<1> QED
  BY <1>9, <1>10, <1>11, <1>12, <1>13, <1>14, <1>15, <1>16 DEF Client, PauseStep

\* A callback that begins where all is at rest after a meeting lets the rule bind again.
LEMMA RestMaps ==
  ASSUME TypeOK, NEW c \in Clients, Client(c), overlapped, ~overlapped'
  PROVE  Holder' = "tick" /\ Inside' \subseteq {"tick"}
<1>1. AtRest /\ (PauseCall(c) \/ Start(c) \/ Stop(c))
  BY DEF Client, PauseStep, PeekDone, PauseCheckRunning, PauseCheckReady,
         PauseSetRelease, PauseSetRequest, PauseReady, PauseTimeout, CallBegin, CallDone,
         Resume, StopStep, StopRelease, StopJoin, ClientGoto, PauseCall, Start, Stop, Begins
<1>2. \A d \in Clients : cpc'[d] \in {"idle", "peek", "checkRunning", "stopRelease"}
  BY <1>1 DEF TypeOK, AtRest, PauseCall, Start, Stop, ClientGoto
<1>3. \A d \in Clients : ~InWindow(d)' /\ ~InContext(d)'
  BY <1>2 DEF InWindow, InContext
<1> QED
  BY <1>3 DEF Holder, Inside

\* For any callback groups and any order of the callbacks, the flags of TickGroup implement
\* the hand-over of an SDK context: one owner, nobody else inside, no hand-over under
\* anybody's feet, from a state of rest until two callbacks meet.
THEOREM ImplementsOwnership == Spec => OwnershipSpec
<1>1. Init => Ownership!Init
  BY DEF Init, Ownership!Init, Holder, Inside, InWindow, InContext, TickInContext
<1>2. /\ TypeOK /\ TypeOK' /\ ProtocolInv /\ ProtocolInv'
      /\ (Protocol => MappingFacts) /\ (Protocol' => MappingFacts') /\ [Next]_vars
      => [Ownership!Next]_<<Holder, Inside, overlapped>>
  <2> SUFFICES ASSUME TypeOK, TypeOK', ProtocolInv, ProtocolInv', Protocol => MappingFacts,
                      Protocol' => MappingFacts', [Next]_vars
               PROVE  [Ownership!Next]_<<Holder, Inside, overlapped>>
    OBVIOUS
  <2>1. CASE overlapped'
    BY <2>1 DEF TypeOK, Ownership!Next, Ownership!Meet
  <2>2. CASE ~overlapped' /\ Tick
    <3>1. overlapped' = overlapped
      BY <2>2 DEF Tick, LoopTest, PauseTest, CycleDone, EnterPauseDone, SignalReady,
             ReleaseTest, LeavePauseDone, ClearReady, ClearRequest, ClearRelease
    <3>2. overlapped = FALSE /\ overlapped' = FALSE /\ MappingFacts /\ MappingFacts'
      BY <2>2, <3>1 DEF TypeOK, ProtocolInv
    <3> QED
      BY <2>2, <3>2, TickStepMaps DEF Ownership!Next, Ownership!Ruled
  <2>3. ASSUME NEW c \in Clients, Client(c), ~overlapped'
        PROVE  [Ownership!Next]_<<Holder, Inside, overlapped>>
    <3>1. CASE ~overlapped
      <4>1. overlapped = FALSE /\ overlapped' = FALSE /\ MappingFacts /\ MappingFacts'
        BY <2>3, <3>1 DEF TypeOK, ProtocolInv
      <4> QED
        BY <2>3, <4>1, ClientStepMaps DEF Ownership!Next, Ownership!Ruled
    <3>2. CASE overlapped
      <4>1. overlapped = TRUE /\ overlapped' = FALSE
        BY <2>3, <3>2 DEF TypeOK
      <4> QED
        BY <2>3, <4>1, RestMaps DEF Ownership!Next, Ownership!Rest
    <3> QED
      BY <3>1, <3>2
  <2>4. CASE UNCHANGED vars
    BY <2>4 DEF vars, Holder, Inside, InWindow, InContext, TickInContext
  <2> QED
    BY <2>1, <2>2, <2>3, <2>4 DEF Next
<1> QED
  BY <1>1, <1>2, MappingCorrect, MappingCorrectNext, ProtocolCorrect, TypeCorrect, PTL
     DEF Spec, OwnershipSpec, Ownership!Spec

(***************************************************************************)
(* The window (SafeWindow).                                                *)
(***************************************************************************)

\* The joints that were enabled are of the bus of the request; until it is served, a
\* joint that is powered was powered before.
Remembered ==
  /\ wasEnabled \subseteq before \cap JointsOf(Own)
  /\ phase \in {"peeked", "open"} => on \subseteq before

\* A window begins with every bus paused, and with power where taking it away failed.
MadeSafe == phase = "open" => BusesOf(on) \subseteq powerFailed /\ mode = [b \in Buses |-> "paused"]

\* Power of the bus of the request that nobody invited was there before, and failed to go.
LeftOver == IF Own \in powerFailed THEN before ELSE {}

\* A request powers what it asks to power, on its own bus, and makes no other bus
\* active; one that resumes, unless it enables, leaves its bus as the window made it.
ServedInv ==
  phase = "closing" =>
    /\ on \cap JointsOf(Own) \subseteq Asked(req) \cup LeftOver
    /\ \A b \in Buses \ {Own} : mode[b] # "active"
    /\ req.resume /\ req.op # "enable" /\ Own \notin powerFailed => mode[Own] = "paused"
    /\ req.op \notin LifecycleCalls

\* When the window is left, the bus of the request shows whether any was activated.
LeavingInv ==
  phase = "leaving" =>
    /\ on \cap JointsOf(Own) \subseteq Invited \cup LeftOver
    /\ (\E b \in Buses : mode[b] = "active") => req.op = "groupEnable" \/ mode[Own] = "active"
    /\ req.resume /\ req.op # "enable" /\ Own \notin powerFailed => wasEnabled \ req.sel \subseteq on

\* In a window a powered joint shows as an active bus, unless switching it failed.
PoweredIsActive ==
  phase \in {"closing", "leaving"} => \A b \in BusesOf(on) \ powerFailed : mode[b] = "active"

\* What is powered, or was before the window, may be powered again.
CalibratedOnly == RequireCalibrated => on \cup wasEnabled \subseteq calibrated

\* The endpoint table of a bus is lost to a failing call only.
AllLoaded == Buses \ loaded \subseteq loadFailed

WindowInv ==
  /\ WindowTypeOK
  /\ Remembered
  /\ MadeSafe
  /\ ServedInv
  /\ LeavingInv
  /\ PoweredIsActive
  /\ CalibratedOnly
  /\ AllLoaded
  /\ OwnPowerInvited
  /\ PoweredIsVisible
-----------------------------------------------------------------------------
(* The operators of the window.                                            *)

\* The buses are numbers, and every joint is on one of them.
LEMMA BusFacts ==
  /\ Own \in Buses /\ N \in Nat /\ \A b \in Buses : b \in Nat
  /\ \A b : JointsOf(b) \subseteq Joints
  /\ \A j \in Joints : BusOf[j] \in Buses /\ \A b : j \in JointsOf(b) <=> b = BusOf[j]
  BY WindowAssumption DEF Buses, JointsOf

\* The buses that have a joint of a set: more joints are of more buses.
LEMMA BusesOfFacts ==
  /\ \A s : BusesOf(s) \subseteq Buses
  /\ \A s, t : s \subseteq t => BusesOf(s) \subseteq BusesOf(t)
  /\ \A s, t : BusesOf(s \cup t) = BusesOf(s) \cup BusesOf(t)
  /\ \A s : s \subseteq JointsOf(Own) => BusesOf(s) \subseteq {Own}
  /\ \A s : Own \notin BusesOf(s) => s \cap JointsOf(Own) = {}
<1>1. \A s : s \subseteq JointsOf(Own) => BusesOf(s) \subseteq {Own}
  BY DEF BusesOf, JointsOf
<1>2. \A s : Own \notin BusesOf(s) => s \cap JointsOf(Own) = {}
  BY BusFacts DEF BusesOf
<1> QED
  BY <1>1, <1>2 DEF BusesOf

\* What is known of a request.
LEMMA RequestFacts ==
  ASSUME NEW r \in Requests
  PROVE  /\ r.op \in Operations /\ r.sel \subseteq JointsOf(Own) /\ r.resume \in BOOLEAN
         /\ r.op \in ResumeNever \cup LifecycleCalls => ~r.resume
  BY DEF Requests

LEMMA ReadBackFacts ==
  ASSUME NEW m \in [Buses -> Modes], NEW powered
  PROVE  /\ ModeReadBack(m, powered) \in [Buses -> Modes]
         /\ \A b \in Buses \ {Own} : ModeReadBack(m, powered)[b] = m[b]
         /\ powered \cap JointsOf(Own) # {} => ModeReadBack(m, powered)[Own] = "active"
         /\ powered \cap JointsOf(Own) = {} /\ m[Own] # "active" => ModeReadBack(m, powered) = m
<1>1. Own \in Buses
  BY BusFacts
<1> QED
  BY <1>1 DEF ModeReadBack, Modes

\* What switching a set does, whether the SDK does it or not: it shows in the mode of the
\* bus, and what failed is remembered.
Switched(sel) ==
  /\ mode' \in [Buses -> Modes] /\ \A b \in Buses \ {Own} : mode'[b] = mode[b]
  /\ powerFailed \subseteq powerFailed' /\ powerFailed' \subseteq powerFailed \cup {Own}
  /\ UNCHANGED power \/ (on' \cap JointsOf(Own) # {} => mode'[Own] = "active")

\* Enabling a set powers nothing else, keeps to the calibrated joints, and, on a paused
\* bus and when no call fails on it, is complete.
LEMMA EnableFacts ==
  ASSUME NEW sel, sel \subseteq JointsOf(Own), EnableSubset(sel), mode \in [Buses -> Modes]
  PROVE  /\ on \subseteq on' /\ on' \subseteq on \cup sel
         /\ Switched(sel)
         /\ RequireCalibrated => on' \subseteq on \cup calibrated
         /\ mode[Own] = "paused" /\ (RequireCalibrated => sel \subseteq calibrated)
              /\ Own \notin powerFailed' => sel \subseteq on'
<1>1. CASE MayEnable(sel)
  <2>1. PICK got \in SUBSET sel : Switch(on \cup got, got = sel)
    BY <1>1 DEF EnableSubset
  <2>2. /\ on' = on \cup got /\ mode' = ModeReadBack(mode, on \cup got)
        /\ powerFailed' = IF got = sel THEN powerFailed ELSE powerFailed \cup {Own}
    BY <2>1 DEF Switch
  <2>3. Switched(sel)
    BY <2>2, ReadBackFacts DEF Switched
  <2> QED
    BY <1>1, <2>2, <2>3 DEF MayEnable
<1>2. CASE ~MayEnable(sel)
  <2>1. UNCHANGED power
    BY <1>2 DEF EnableSubset
  <2>2. Switched(sel)
    BY <2>1 DEF Switched, power
  <2> QED
    BY <1>2, <2>1, <2>2 DEF MayEnable, OpsWindowOk, power
<1> QED
  BY <1>1, <1>2

\* Disabling takes power only, and on a bus that had none it changes nothing.
LEMMA DisableFacts ==
  ASSUME NEW sel, DisableSubset(sel), mode \in [Buses -> Modes], mode[Own] = "paused"
  PROVE  /\ on' \subseteq on /\ Switched(sel)
         /\ on \cap JointsOf(Own) = {} => mode' = mode
<1>1. PICK got \in SUBSET sel : Switch(on \ got, got = sel)
  BY DEF DisableSubset, OpsWindowOk
<1>2. /\ on' = on \ got /\ mode' = ModeReadBack(mode, on \ got)
      /\ powerFailed' = IF got = sel THEN powerFailed ELSE powerFailed \cup {Own}
  BY <1>1 DEF Switch
<1>3. Switched(sel)
  BY <1>2, ReadBackFacts DEF Switched
<1>4. on \cap JointsOf(Own) = {} => mode' = mode
  BY <1>2, ReadBackFacts
<1> QED
  BY <1>2, <1>3, <1>4

\* A bus without its endpoint table is one where a call failed.
TableKept ==
  /\ loaded' \subseteq Buses /\ loadFailed' \subseteq Buses
  /\ Buses \ loaded' \subseteq loadFailed'

\* Configuring takes buses to READY, or leaves their mode; the buses that it does not
\* get to are without a table only if it failed.
LEMMA ConfigureFacts ==
  ASSUME NEW m \in [Buses -> Modes], ConfigureBuses(m, loaded \ {Own}),
         loaded \subseteq Buses, loadFailed \subseteq Buses, AllLoaded
  PROVE  /\ mode' \in [Buses -> Modes] /\ \A b \in Buses : mode'[b] \in {"ready", m[b]}
         /\ TableKept
<1>1. PICK k \in 0 .. N :
        /\ mode'   = [b \in Buses |-> IF b <= k THEN "ready" ELSE m[b]]
        /\ loaded' = (loaded \ {Own}) \cup 1 .. k
        /\ loadFailed' = (loadFailed \cup (IF k < N THEN {Own} ELSE {})) \ 1 .. k
  BY DEF ConfigureBuses
<1>2. 1 .. k \subseteq Buses /\ (~(k < N) => 1 .. k = Buses) /\ Own \in Buses
  BY <1>1, BusFacts DEF Buses
<1>3. TableKept
  BY <1>1, <1>2 DEF TableKept, AllLoaded
<1> QED
  BY <1>1, <1>3 DEF Modes

\* A reset of devices powers nothing and activates no bus.
LEMMA ResetFacts ==
  ASSUME NEW sel, ResetDevices(sel), mode \in [Buses -> Modes], loaded \subseteq Buses,
         loadFailed \subseteq Buses, AllLoaded, \A b \in Buses : mode[b] # "active"
  PROVE  /\ on' \subseteq on /\ mode' \in [Buses -> Modes] /\ \A b \in Buses : mode'[b] # "active"
         /\ TableKept /\ powerFailed' = powerFailed
<1>0. powerFailed' = powerFailed
  BY DEF ResetDevices
<1>1. CASE UNCHANGED <<on, mode, table>>
  BY <1>0, <1>1 DEF TableKept, AllLoaded, table
<1>2. ASSUME NEW got \in SUBSET sel, on' = on \ got,
             ConfigureBuses([mode EXCEPT ![Own] = "idle"], loaded \ {Own})
      PROVE  /\ on' \subseteq on /\ mode' \in [Buses -> Modes] /\ \A b \in Buses : mode'[b] # "active"
             /\ TableKept
  <2> DEFINE m == [mode EXCEPT ![Own] = "idle"]
  <2>1. m \in [Buses -> Modes] /\ \A b \in Buses : m[b] # "active"
    BY BusFacts DEF Modes
  <2>2. ConfigureBuses(m, loaded \ {Own}) /\ on' = on \ got
    BY <1>2
  <2> HIDE DEF m
  <2> QED
    BY <2>1, <2>2, ConfigureFacts
<1>3. ASSUME NEW got \in SUBSET sel, on' = on \ got, TableLost
      PROVE  on' \subseteq on /\ mode' = mode /\ TableKept
  BY <1>3, BusFacts DEF TableLost, TableKept, AllLoaded
<1>4. CASE ~OpsWindowOk
  BY <1>0, <1>1, <1>4 DEF ResetDevices
<1>5. CASE OpsWindowOk
  <2>1. PICK got \in SUBSET sel :
          /\ on' = on \ got
          /\ \/ ConfigureBuses([mode EXCEPT ![Own] = "idle"], loaded \ {Own})
             \/ TableLost
             \/ got = {} /\ UNCHANGED <<mode, table>>
    BY <1>5 DEF ResetDevices
  <2> QED
    BY <1>0, <1>1, <1>2, <1>3, <2>1
<1> QED
  BY <1>4, <1>5

\* So does the import of a descriptor.
LEMMA ImportFacts ==
  ASSUME ImportDescriptor, mode \in [Buses -> Modes], loaded \subseteq Buses,
         loadFailed \subseteq Buses, AllLoaded, \A b \in Buses : mode[b] # "active"
  PROVE  /\ on' = on /\ mode' \in [Buses -> Modes] /\ \A b \in Buses : mode'[b] # "active"
         /\ TableKept /\ powerFailed' = powerFailed
<1> DEFINE m == [mode EXCEPT ![Own] = "idle"]
<1>1. m \in [Buses -> Modes] /\ \A b \in Buses : m[b] # "active"
  BY BusFacts DEF Modes
<1>2. on' = on /\ powerFailed' = powerFailed /\ (ConfigureBuses(m, loaded \ {Own}) \/ TableLost)
  BY DEF ImportDescriptor
<1>3. CASE TableLost
  BY <1>2, <1>3, BusFacts DEF TableLost, TableKept, AllLoaded
<1> HIDE DEF m
<1>4. CASE ConfigureBuses(m, loaded \ {Own})
  BY <1>1, <1>2, <1>4, ConfigureFacts
<1> QED
  BY <1>2, <1>3, <1>4

\* The joints of the first buses.
LEMMA UpToFacts == \A b : UpTo(b) \subseteq Joints
  BY BusFacts DEF UpTo

\* Buses that are taken back: a joint is powered there only where a call failed.
LEMMA TakenBackFacts ==
  ASSUME NEW b \in Buses, NEW left \in SUBSET UpTo(b - 1), NEW got \in SUBSET JointsOf(b),
         TakenBack(b, left, got), on \subseteq Joints, BusesOf(on) \subseteq powerFailed,
         powerFailed \subseteq Buses
  PROVE  /\ on' \subseteq on \cup left \cup got /\ on' \subseteq Joints
         /\ powerFailed' \subseteq Buses /\ BusesOf(on') \subseteq powerFailed'
<1>1. /\ on' = (on \ UpTo(b - 1)) \cup left \cup got
      /\ powerFailed' = (powerFailed \ 1 .. b - 1) \cup BusesOf(left \cup got)
  BY DEF TakenBack
<1>2. on' \subseteq on \cup left \cup got /\ on' \subseteq Joints
  BY <1>1, UpToFacts, BusFacts
<1>3. powerFailed' \subseteq Buses
  BY <1>1, BusesOfFacts
<1>4. ASSUME NEW c \in BusesOf(on'), c \notin BusesOf(left \cup got)
      PROVE  c \in powerFailed \ 1 .. b - 1
  <2>1. c \in Buses
    BY <1>4 DEF BusesOf
  <2>2. PICK j \in on' : j \in JointsOf(c)
    BY <1>4 DEF BusesOf
  <2>3. j \in on /\ j \notin UpTo(b - 1)
    BY <1>1, <1>4, <2>1, <2>2 DEF BusesOf
  <2>4. c \notin 1 .. b - 1
    BY <2>2, <2>3 DEF UpTo
  <2>5. c \in BusesOf(on)
    BY <2>1, <2>2, <2>3 DEF BusesOf
  <2> QED
    BY <2>4, <2>5
<1> QED
  BY <1>1, <1>2, <1>3, <1>4

\* Activating the group when power is left only where taking it away failed: what is
\* powered is calibrated, and, where no call failed, on a bus that is active.
LEMMA ActivateFacts ==
  ASSUME ActivateGroup, mode \in [Buses -> Modes], on \subseteq Joints, powerFailed \subseteq Buses,
         BusesOf(on) \subseteq powerFailed, RequireCalibrated => on \subseteq calibrated
  PROVE  /\ on' \subseteq Joints /\ mode' \in [Buses -> Modes] /\ powerFailed' \subseteq Buses
         /\ RequireCalibrated => on' \subseteq calibrated
         /\ \A b \in BusesOf(on') \ powerFailed' : mode'[b] = "active"
<1>1. CASE /\ \A b \in Buses : Activates(b, RequireCalibrated)
           /\ on' = Joints /\ mode' = [b \in Buses |-> "active"] /\ UNCHANGED powerFailed
  <2>1. RequireCalibrated => on' \subseteq calibrated
    BY <1>1, BusFacts DEF Activates
  <2> QED
    BY <1>1, <2>1, BusesOfFacts DEF Modes
<1>2. ASSUME NEW b \in Buses, NEW left \in SUBSET UpTo(b - 1), NEW got \in SUBSET JointsOf(b),
             \A k \in 1 .. b - 1 : Activates(k, RequireCalibrated),
             got = {} \/ Activates(b, RequireCalibrated),
             TakenBack(b, left, got), mode' \in [Buses -> Modes]
      PROVE  /\ on' \subseteq Joints /\ mode' \in [Buses -> Modes] /\ powerFailed' \subseteq Buses
             /\ RequireCalibrated => on' \subseteq calibrated
             /\ \A c \in BusesOf(on') \ powerFailed' : mode'[c] = "active"
  <2>1. /\ on' \subseteq on \cup left \cup got /\ on' \subseteq Joints
        /\ powerFailed' \subseteq Buses /\ BusesOf(on') \subseteq powerFailed'
    BY <1>2, TakenBackFacts
  <2>2. RequireCalibrated => left \subseteq calibrated /\ got \subseteq calibrated
    BY <1>2 DEF Activates, UpTo
  <2> QED
    BY <1>2, <2>1, <2>2
<1>3. ASSUME NEW b \in Buses, NEW left \in SUBSET UpTo(b - 1),
             \A k \in 1 .. b - 1 : Activates(k, RequireCalibrated),
             \/ /\ ~Activates(b, RequireCalibrated)
                /\ TakenBack(b, left, {})
                /\ mode' = [k \in Buses |-> IF k < b THEN "ready" ELSE mode[k]]
             \/ /\ Activates(b, RequireCalibrated)
                /\ \E got \in SUBSET JointsOf(b) : TakenBack(b, left, got)
                /\ mode' = [k \in Buses |-> IF k < b THEN "ready" ELSE IF k = b THEN "fault" ELSE mode[k]]
      PROVE  \E got \in SUBSET JointsOf(b) :
               /\ got = {} \/ Activates(b, RequireCalibrated)
               /\ TakenBack(b, left, got) /\ mode' \in [Buses -> Modes]
  <2>1. mode' \in [Buses -> Modes]
    BY <1>3 DEF Modes
  <2> QED
    BY <1>3, <2>1
<1> QED
  BY <1>1, <1>2, <1>3 DEF ActivateGroup

\* leave_pause() that finds an active bus: it takes no power, it powers calibrated joints
\* of buses that are not active, and every bus is active or at fault after it.
LEMMA ReactivateFacts ==
  ASSUME ReactivateAll, mode \in [Buses -> Modes], on \subseteq Joints, powerFailed \subseteq Buses
  PROVE  /\ on \subseteq on' /\ on' \subseteq Joints /\ mode' \in [Buses -> {"active", "fault"}]
         /\ RequireCalibrated => on' \subseteq on \cup calibrated
         /\ mode[Own] = "active" => on' \cap JointsOf(Own) = on \cap JointsOf(Own)
         /\ powerFailed \subseteq powerFailed' /\ powerFailed' \subseteq Buses
<1> DEFINE can == {b \in Buses : Activates(b, TRUE)}
<1>1. PICK half \in SUBSET can :
        /\ \E got \in SUBSET (UNION {JointsOf(b) : b \in half}) :
             on' = on \cup got \cup UNION {JointsOf(b) : b \in can \ half}
        /\ mode' = [b \in Buses |-> IF mode[b] = "active" \/ b \in can \ half THEN "active" ELSE "fault"]
        /\ powerFailed' = powerFailed \cup half
  BY DEF ReactivateAll
<1>2. PICK got \in SUBSET (UNION {JointsOf(b) : b \in half}) :
        on' = on \cup got \cup UNION {JointsOf(b) : b \in can \ half}
  BY <1>1
<1>3. on \subseteq on' /\ \A j \in on' \ on : \E b \in can : j \in JointsOf(b)
  BY <1>1, <1>2
<1>4. \A b \in can : Activates(b, TRUE) /\ b \in Buses
  OBVIOUS
<1> HIDE DEF can
<1>5. on' \subseteq Joints
  BY <1>3, BusFacts
<1>6. on' \subseteq on \cup calibrated
  BY <1>3, <1>4 DEF Activates
<1>7. ASSUME mode[Own] = "active" PROVE on' \cap JointsOf(Own) \subseteq on
  <2> SUFFICES ASSUME NEW j \in on' \ on, j \in JointsOf(Own) PROVE FALSE
    OBVIOUS
  <2>1. PICK b \in can : j \in JointsOf(b)
    BY <1>3
  <2>2. b = Own
    BY <2>1 DEF JointsOf
  <2> QED
    BY <1>4, <1>7, <2>2 DEF Activates
<1>8. mode' \in [Buses -> {"active", "fault"}]
  BY <1>1
<1>9. powerFailed' = powerFailed \cup half /\ half \subseteq Buses
  BY <1>1, <1>4
<1> QED
  BY <1>3, <1>5, <1>6, <1>7, <1>8, <1>9
-----------------------------------------------------------------------------
(* The invariant is kept.                                                  *)

LEMMA WindowInvInit == WindowInit => WindowInv
<1> SUFFICES ASSUME WindowInit PROVE WindowInv
  OBVIOUS
<1> USE DEF WindowInit
<1>1. req \in Requests
  BY DEF Requests, Operations, ResumeAlways, ResumeNever, ResumeAsked, LifecycleCalls
<1>2. WindowTypeOK
  BY <1>1, WindowAssumption DEF WindowTypeOK, Modes, Phases
<1>3. Remembered /\ MadeSafe /\ ServedInv /\ LeavingInv /\ PoweredIsActive
  BY DEF Remembered, MadeSafe, ServedInv, LeavingInv, PoweredIsActive
<1>4. CalibratedOnly /\ AllLoaded /\ OwnPowerInvited /\ PoweredIsVisible
  BY DEF CalibratedOnly, AllLoaded, OwnPowerInvited, PoweredIsVisible, BusesOf
<1> QED
  BY <1>2, <1>3, <1>4 DEF WindowInv

\* Power that is lost outside a window.
LEMMA LostKeeps == WindowInv /\ PowerLost => WindowInv'
<1> SUFFICES ASSUME WindowInv, PowerLost PROVE WindowInv'
  OBVIOUS
<1> USE DEF served, table
<1>1. /\ phase \in {"run", "peeked"} /\ phase' = phase /\ on' \subseteq on
      /\ UNCHANGED <<mode, loaded, calibrated, req, wasEnabled, before, powerFailed, loadFailed>>
  BY DEF PowerLost
<1>2. WindowTypeOK' /\ Remembered' /\ CalibratedOnly' /\ AllLoaded'
  BY <1>1 DEF WindowInv, WindowTypeOK, Remembered, CalibratedOnly, AllLoaded
<1>3. MadeSafe' /\ ServedInv' /\ LeavingInv' /\ PoweredIsActive'
  BY <1>1 DEF MadeSafe, ServedInv, LeavingInv, PoweredIsActive
<1>4. OwnPowerInvited'
  BY <1>1 DEF WindowInv, OwnPowerInvited, Invited, Asked
<1>5. PoweredIsVisible'
  BY <1>1, BusesOfFacts DEF WindowInv, PoweredIsVisible
<1> QED
  BY <1>2, <1>3, <1>4, <1>5 DEF WindowInv

\* A request begins.
LEMMA PeekKeeps ==
  ASSUME WindowInv, NEW r \in Requests, Peek(r)
  PROVE  WindowInv'
<1> USE DEF power, table
<1>1. /\ phase = "run" /\ phase' = "peeked" /\ req' = r /\ before' = on
      /\ wasEnabled' \subseteq on \cap JointsOf(Own)
      /\ UNCHANGED <<mode, on, loaded, calibrated, powerFailed, loadFailed>>
  BY DEF Peek
<1>2. WindowTypeOK'
  BY <1>1 DEF WindowInv, WindowTypeOK, Phases
<1>3. Remembered' /\ CalibratedOnly' /\ AllLoaded'
  BY <1>1 DEF WindowInv, Remembered, CalibratedOnly, AllLoaded
<1>4. MadeSafe' /\ ServedInv' /\ LeavingInv' /\ PoweredIsActive' /\ OwnPowerInvited' /\ PoweredIsVisible'
  BY <1>1 DEF MadeSafe, ServedInv, LeavingInv, PoweredIsActive, OwnPowerInvited, PoweredIsVisible
<1> QED
  BY <1>2, <1>3, <1>4 DEF WindowInv

LEMMA EnterKeeps == WindowInv /\ EnterPause => WindowInv'
<1> SUFFICES ASSUME WindowInv, EnterPause PROVE WindowInv'
  OBVIOUS
<1> USE DEF served, table
<1>1. /\ phase = "peeked" /\ phase' = "open" /\ on' \subseteq on /\ powerFailed' = BusesOf(on')
      /\ mode' = [b \in Buses |-> "paused"]
      /\ UNCHANGED <<loaded, calibrated, req, wasEnabled, before, loadFailed>>
  BY DEF EnterPause, DeactivateAll
<1>2. WindowTypeOK'
  BY <1>1, BusesOfFacts DEF WindowInv, WindowTypeOK, Phases, Modes
<1>3. Remembered' /\ CalibratedOnly' /\ AllLoaded' /\ MadeSafe'
  BY <1>1 DEF WindowInv, Remembered, CalibratedOnly, AllLoaded, MadeSafe
<1>4. ServedInv' /\ LeavingInv' /\ PoweredIsActive' /\ OwnPowerInvited' /\ PoweredIsVisible'
  BY <1>1 DEF ServedInv, LeavingInv, PoweredIsActive, OwnPowerInvited, PoweredIsVisible
<1> QED
  BY <1>2, <1>3, <1>4 DEF WindowInv

\* What an open window starts from.
OpenWindow ==
  /\ mode = [b \in Buses |-> "paused"] /\ mode \in [Buses -> Modes]
  /\ mode[Own] = "paused" /\ \A b \in Buses : mode[b] # "active"
  /\ on \subseteq before /\ on \subseteq Joints /\ BusesOf(on) \subseteq powerFailed
  /\ powerFailed \subseteq Buses /\ (RequireCalibrated => on \subseteq calibrated)
  /\ loaded \subseteq Buses /\ loadFailed \subseteq Buses /\ AllLoaded
  /\ calibrated \subseteq Joints
  /\ req \in Requests /\ req.sel \subseteq JointsOf(Own)
  /\ req.op \in ResumeNever \cup LifecycleCalls => ~req.resume

LEMMA OpenFacts == WindowInv /\ phase = "open" => OpenWindow
<1> SUFFICES ASSUME WindowInv, phase = "open" PROVE OpenWindow
  OBVIOUS
<1>1. req \in Requests /\ req.sel \subseteq JointsOf(Own)
      /\ (req.op \in ResumeNever \cup LifecycleCalls => ~req.resume)
  BY RequestFacts DEF WindowInv, WindowTypeOK
<1>2. mode = [b \in Buses |-> "paused"] /\ BusesOf(on) \subseteq powerFailed /\ on \subseteq before
  BY DEF WindowInv, MadeSafe, Remembered
<1>3. mode \in [Buses -> Modes] /\ mode[Own] = "paused" /\ \A b \in Buses : mode[b] # "active"
  BY <1>2, BusFacts DEF Modes
<1> QED
  BY <1>1, <1>2, <1>3 DEF OpenWindow, WindowInv, WindowTypeOK, CalibratedOnly

\* What the serving of a request on one bus comes to.
Served ==
  /\ req.op \notin LifecycleCalls
  /\ on' \subseteq on \cup (Asked(req) \cap JointsOf(Own))
  /\ powerFailed \subseteq powerFailed' /\ powerFailed' \subseteq Buses
  /\ mode' \in [Buses -> Modes] /\ \A b \in Buses \ {Own} : mode'[b] # "active"
  /\ req.resume /\ req.op # "enable" /\ Own \notin powerFailed => mode'[Own] = "paused"
  /\ Own \notin powerFailed' /\ on' \cap JointsOf(Own) # {} => mode'[Own] = "active"
  /\ calibrated \subseteq calibrated' /\ calibrated' \subseteq Joints
  /\ RequireCalibrated => on' \subseteq calibrated'
  /\ TableKept

LEMMA ServedKeeps ==
  ASSUME WindowInv, OpenWindow, Served, OpenTo("closing")
  PROVE  WindowInv'
<1> USE DEF served
<1>1. phase = "open" /\ phase' = "closing" /\ UNCHANGED <<req, wasEnabled, before>>
  BY DEF OpenTo
<1>2. on' \subseteq Joints
  BY BusFacts DEF OpenWindow, Served
<1>3. WindowTypeOK'
  BY <1>1, <1>2 DEF WindowInv, WindowTypeOK, Phases, Served, TableKept
<1>4. Remembered' /\ CalibratedOnly' /\ AllLoaded'
  BY <1>1 DEF WindowInv, Remembered, CalibratedOnly, AllLoaded, Served, TableKept
<1>5. on' \cap JointsOf(Own) \subseteq Asked(req) \cup (IF Own \in powerFailed' THEN before ELSE {})
  <2>1. Own \notin powerFailed => on \cap JointsOf(Own) = {}
    BY BusesOfFacts DEF OpenWindow
  <2> QED
    BY <2>1 DEF OpenWindow, Served
<1>6. ServedInv'
  BY <1>1, <1>5 DEF ServedInv, Served, Asked, LeftOver
<1>7. PoweredIsActive'
  <2> SUFFICES ASSUME NEW b \in BusesOf(on') \ powerFailed' PROVE mode'[b] = "active"
    BY <1>1 DEF PoweredIsActive, BusesOf
  <2>1. BusesOf(on') \subseteq BusesOf(on) \cup {Own}
    <3> DEFINE asked == Asked(req) \cap JointsOf(Own)
    <3>1. asked \subseteq JointsOf(Own) /\ on' \subseteq on \cup asked
      BY DEF Served
    <3> HIDE DEF asked
    <3>2. BusesOf(on') \subseteq BusesOf(on \cup asked)
      BY <3>1, BusesOfFacts
    <3>3. BusesOf(on \cup asked) = BusesOf(on) \cup BusesOf(asked)
      BY BusesOfFacts
    <3>4. BusesOf(asked) \subseteq {Own}
      BY <3>1, BusesOfFacts
    <3> QED
      BY <3>2, <3>3, <3>4
  <2>2. b = Own
    BY <2>1 DEF OpenWindow, Served
  <2> QED
    BY <2>2 DEF Served, BusesOf
<1>8. MadeSafe' /\ LeavingInv' /\ OwnPowerInvited' /\ PoweredIsVisible'
  BY <1>1 DEF MadeSafe, LeavingInv, OwnPowerInvited, PoweredIsVisible
<1> QED
  BY <1>3, <1>4, <1>6, <1>7, <1>8 DEF WindowInv

\* The requests that are served on one bus.
LEMMA ServeKeeps ==
  ASSUME WindowInv,
         \/ ServeEnable \/ ServeDisable \/ ServeQuiet \/ ServePoll \/ ServeCalibrate \/ ServeReset
         \/ ServeFaultReset \/ ServeJog \/ ServeImport
  PROVE  WindowInv'
<1>1. phase = "open" /\ OpenTo("closing")
  BY DEF OpenTo, ServeEnable, ServeDisable, ServeQuiet, ServePoll, ServeCalibrate, ServeReset,
     ServeFaultReset, ServeJog, ServeImport
<1>2. OpenWindow
  BY <1>1, OpenFacts
<1>3. Own \in Buses /\ (Own \notin powerFailed => on \cap JointsOf(Own) = {})
  BY <1>2, BusFacts, BusesOfFacts DEF OpenWindow
<1>4. UNCHANGED table => TableKept
  BY <1>2 DEF TableKept, table, OpenWindow, AllLoaded
<1>5. CASE ServeEnable
  <2>1. EnableSubset(req.sel) /\ req.op = "enable" /\ UNCHANGED <<table, calibrated>>
    BY <1>5 DEF ServeEnable
  <2>2. /\ on' \subseteq on \cup req.sel /\ Switched(req.sel)
        /\ RequireCalibrated => on' \subseteq on \cup calibrated
    BY <1>2, <2>1, EnableFacts DEF OpenWindow
  <2>3. Served
    BY <1>2, <1>3, <1>4, <2>1, <2>2 DEF Served, Switched, Asked, LifecycleCalls, OpenWindow, power
  <2> QED
    BY <1>1, <1>2, <2>3, ServedKeeps
<1>6. CASE ServeDisable
  <2>1. DisableSubset(req.sel) /\ req.op = "disable" /\ UNCHANGED <<table, calibrated>>
    BY <1>6 DEF ServeDisable
  <2>2. on' \subseteq on /\ Switched(req.sel) /\ (on \cap JointsOf(Own) = {} => mode' = mode)
    BY <1>2, <2>1, DisableFacts DEF OpenWindow
  <2>3. Served
    BY <1>2, <1>3, <1>4, <2>1, <2>2 DEF Served, Switched, LifecycleCalls, OpenWindow, power
  <2> QED
    BY <1>1, <1>2, <2>3, ServedKeeps
<1>7. CASE ServeQuiet \/ ServePoll
  <2>1. req.op \notin LifecycleCalls /\ UNCHANGED <<power, table, calibrated>>
    BY <1>7 DEF ServeQuiet, ServePoll, LifecycleCalls
  <2>2. Served
    BY <1>2, <1>3, <1>4, <2>1 DEF Served, OpenWindow, power
  <2> QED
    BY <1>1, <1>2, <2>2, ServedKeeps
<1>8. CASE ServeCalibrate
  <2>1. PICK got \in SUBSET req.sel : calibrated' = IF OpsWindowOk THEN calibrated \cup got ELSE calibrated
    BY <1>8 DEF ServeCalibrate
  <2>2. calibrated \subseteq calibrated' /\ calibrated' \subseteq Joints
    BY <1>2, <2>1, BusFacts DEF OpenWindow
  <2>3. req.op = "calibrate" /\ UNCHANGED <<power, table>>
    BY <1>8 DEF ServeCalibrate
  <2>4. Served
    BY <1>2, <1>3, <1>4, <2>2, <2>3 DEF Served, LifecycleCalls, OpenWindow, power
  <2> QED
    BY <1>1, <1>2, <2>4, ServedKeeps
<1>9. CASE ServeReset \/ ServeFaultReset
  <2>1. /\ req.op \in {"reset", "faultReset"} /\ calibrated' = calibrated
        /\ ResetDevices(req.sel) \/ UNCHANGED <<power, table>>
    BY <1>9 DEF ServeReset, ServeFaultReset
  <2>2. /\ on' \subseteq on /\ mode' \in [Buses -> Modes] /\ \A b \in Buses : mode'[b] # "active"
        /\ TableKept /\ powerFailed' = powerFailed
    <3>1. CASE ResetDevices(req.sel)
      BY <1>2, <3>1, ResetFacts DEF OpenWindow
    <3>2. CASE UNCHANGED <<power, table>>
      BY <1>2, <1>4, <3>2 DEF OpenWindow, power
    <3> QED
      BY <2>1, <3>1, <3>2
  <2>3. req.op \notin LifecycleCalls /\ ~req.resume
    BY <1>2, <2>1 DEF ResumeNever, LifecycleCalls, OpenWindow
  <2>4. Served
    BY <1>2, <1>3, <2>1, <2>2, <2>3 DEF Served, OpenWindow
  <2> QED
    BY <1>1, <1>2, <2>4, ServedKeeps
<1>10. CASE ServeJog
  <2>1. /\ req.op = "jog" /\ UNCHANGED <<mode, table, calibrated>>
        /\ \/ UNCHANGED <<on, powerFailed>>
           \/ /\ req.sel \subseteq calibrated
              /\ on' = on \cup req.sel /\ powerFailed' = powerFailed \cup {Own}
    BY <1>10 DEF ServeJog, JogJoint
  <2>2. req.op \notin LifecycleCalls /\ ~req.resume
    BY <1>2, <2>1 DEF ResumeNever, LifecycleCalls, OpenWindow
  <2>3. Served
    BY <1>2, <1>3, <1>4, <2>1, <2>2 DEF Served, Asked, OpenWindow
  <2> QED
    BY <1>1, <1>2, <2>3, ServedKeeps
<1>11. CASE ServeImport
  <2>1. req.op = "import" /\ calibrated' = calibrated /\ ImportDescriptor
    BY <1>11 DEF ServeImport
  <2>2. req.op \notin LifecycleCalls /\ ~req.resume
    BY <1>2, <2>1 DEF ResumeNever, LifecycleCalls, OpenWindow
  <2>3. /\ on' = on /\ mode' \in [Buses -> Modes] /\ \A b \in Buses : mode'[b] # "active"
        /\ TableKept /\ powerFailed' = powerFailed
    BY <1>2, <2>1, ImportFacts DEF OpenWindow
  <2>4. Served
    BY <1>2, <1>3, <2>1, <2>2, <2>3 DEF Served, OpenWindow
  <2> QED
    BY <1>1, <1>2, <2>4, ServedKeeps
<1> QED
  BY <1>5, <1>6, <1>7, <1>8, <1>9, <1>10, <1>11

\* The windows of the lifecycle callbacks.
LEMMA GroupKeeps == WindowInv /\ (ServeGroupEnable \/ ServeGroupDisable) => WindowInv'
<1> SUFFICES ASSUME WindowInv, ServeGroupEnable \/ ServeGroupDisable PROVE WindowInv'
  OBVIOUS
<1> USE DEF served, table
<1>1. /\ phase = "open" /\ phase' = "leaving" /\ req.op \in LifecycleCalls
      /\ UNCHANGED <<req, wasEnabled, before, loaded, loadFailed, calibrated>>
  BY DEF OpenTo, ServeGroupEnable, ServeGroupDisable, LifecycleCalls
<1>2. OpenWindow /\ ~req.resume
  BY <1>1, OpenFacts DEF OpenWindow
<1>3. /\ on' \subseteq Joints /\ mode' \in [Buses -> Modes] /\ powerFailed' \subseteq Buses
      /\ RequireCalibrated => on' \subseteq calibrated
      /\ \A b \in BusesOf(on') \ powerFailed' : mode'[b] = "active"
      /\ on' \cap JointsOf(Own) \subseteq Asked(req) \cup (IF Own \in powerFailed' THEN before ELSE {})
      /\ (\E b \in Buses : mode'[b] = "active") => req.op = "groupEnable"
  <2>1. CASE ServeGroupEnable
    <3>1. req.op = "groupEnable" /\ ActivateGroup
      BY <2>1 DEF ServeGroupEnable
    <3>2. Asked(req) = Joints
      BY <3>1 DEF Asked
    <3>3. /\ on' \subseteq Joints /\ mode' \in [Buses -> Modes] /\ powerFailed' \subseteq Buses
          /\ RequireCalibrated => on' \subseteq calibrated
          /\ \A b \in BusesOf(on') \ powerFailed' : mode'[b] = "active"
      BY <1>2, <3>1, ActivateFacts DEF OpenWindow
    <3> QED
      BY <3>1, <3>2, <3>3
  <2>2. CASE ServeGroupDisable
    <3>1. on' \subseteq on /\ powerFailed' = BusesOf(on') /\ mode' = mode
      BY <1>2, <2>2 DEF ServeGroupDisable, DeactivateGroup, DeactivateAll, OpenWindow
    <3>2. on' \cap JointsOf(Own) \subseteq (IF Own \in powerFailed' THEN before ELSE {})
      BY <1>2, <3>1, BusesOfFacts DEF OpenWindow
    <3> QED
      BY <1>2, <3>1, <3>2, BusesOfFacts DEF OpenWindow
  <2> QED
    BY <2>1, <2>2
<1>4. WindowTypeOK'
  BY <1>1, <1>3 DEF WindowInv, WindowTypeOK, Phases
<1>5. Remembered' /\ CalibratedOnly' /\ AllLoaded'
  BY <1>1, <1>3 DEF WindowInv, Remembered, CalibratedOnly, AllLoaded
<1>6. LeavingInv' /\ PoweredIsActive'
  BY <1>1, <1>2, <1>3 DEF LeavingInv, Invited, Asked, LeftOver, PoweredIsActive, BusesOf
<1>7. MadeSafe' /\ ServedInv' /\ OwnPowerInvited' /\ PoweredIsVisible'
  BY <1>1 DEF MadeSafe, ServedInv, OwnPowerInvited, PoweredIsVisible
<1> QED
  BY <1>4, <1>5, <1>6, <1>7 DEF WindowInv

\* exit_window().
LEMMA RestoreKeeps == WindowInv /\ Restore => WindowInv'
<1> SUFFICES ASSUME WindowInv, Restore PROVE WindowInv'
  OBVIOUS
<1> USE DEF served, table
<1> DEFINE back == wasEnabled \ req.sel
<1>1. /\ phase = "closing" /\ phase' = "leaving"
      /\ UNCHANGED <<req, wasEnabled, before, loaded, loadFailed, calibrated>>
  BY DEF Restore
<1>2. /\ mode \in [Buses -> Modes] /\ on \subseteq Joints /\ powerFailed \subseteq Buses
      /\ on \cap JointsOf(Own) \subseteq Asked(req) \cup LeftOver /\ Own \in Buses
      /\ \A b \in Buses \ {Own} : mode[b] # "active"
      /\ req.resume /\ req.op # "enable" /\ Own \notin powerFailed => mode[Own] = "paused"
      /\ back \subseteq before \cap JointsOf(Own) /\ (RequireCalibrated => on \cup back \subseteq calibrated)
      /\ \A b \in BusesOf(on) \ powerFailed : mode[b] = "active"
  BY <1>1, BusFacts DEF WindowInv, WindowTypeOK, ServedInv, Remembered, CalibratedOnly, PoweredIsActive
<1>3. \/ req.resume /\ EnableSubset(back)
      \/ UNCHANGED power /\ (req.resume => back = {})
  BY DEF Restore
<1> HIDE DEF back
<1>4. /\ on' \subseteq on \cup (IF req.resume THEN back ELSE {})
      /\ Switched(back)
      /\ RequireCalibrated => on' \subseteq calibrated
      /\ req.resume /\ req.op # "enable" /\ Own \notin powerFailed' => back \subseteq on'
  <2>1. CASE req.resume /\ EnableSubset(back)
    <3>1. back \subseteq JointsOf(Own)
      BY <1>2
    <3>2. /\ on' \subseteq on \cup back /\ Switched(back)
          /\ RequireCalibrated => on' \subseteq on \cup calibrated
          /\ mode[Own] = "paused" /\ (RequireCalibrated => back \subseteq calibrated)
               /\ Own \notin powerFailed' => back \subseteq on'
      BY <1>2, <2>1, <3>1, EnableFacts
    <3> QED
      BY <1>2, <2>1, <3>2 DEF Switched
  <2>2. CASE UNCHANGED power /\ (req.resume => back = {})
    BY <1>2, <2>2 DEF Switched, power
  <2> QED
    BY <1>3, <2>1, <2>2
<1>5. /\ on' \subseteq Joints /\ powerFailed' \subseteq Buses
      /\ on' \cap JointsOf(Own)
           \subseteq Asked(req) \cup (IF req.resume THEN before \ req.sel ELSE {})
                     \cup (IF Own \in powerFailed' THEN before ELSE {})
  BY <1>2, <1>4, BusFacts DEF back, Switched, LeftOver
<1>6. \A b \in BusesOf(on') \ powerFailed' : mode'[b] = "active"
  <2> SUFFICES ASSUME NEW b \in BusesOf(on') \ powerFailed' PROVE mode'[b] = "active"
    OBVIOUS
  <2>1. b \in Buses /\ b \notin powerFailed
    BY <1>4 DEF BusesOf, Switched
  <2>2. CASE UNCHANGED power
    BY <1>2, <2>1, <2>2 DEF power
  <2>3. CASE ~UNCHANGED power
    <3>1. CASE b = Own
      BY <1>4, <2>3, <3>1 DEF BusesOf, Switched
    <3>2. CASE b # Own
      <4>1. BusesOf(back) \subseteq {Own}
        BY <1>2, BusesOfFacts
      <4>2. BusesOf(on') \subseteq BusesOf(on) \cup BusesOf(back)
        BY <1>4, BusesOfFacts
      <4> QED
        BY <1>2, <1>4, <2>1, <3>2, <4>1, <4>2 DEF Switched
    <3> QED
      BY <3>1, <3>2
  <2> QED
    BY <2>2, <2>3
<1>7. WindowTypeOK'
  BY <1>1, <1>4, <1>5 DEF WindowInv, WindowTypeOK, Phases, Switched
<1>8. Remembered' /\ CalibratedOnly' /\ AllLoaded'
  BY <1>1, <1>4 DEF WindowInv, Remembered, CalibratedOnly, AllLoaded
<1>9. LeavingInv'
  BY <1>1, <1>2, <1>4, <1>5 DEF LeavingInv, Invited, Asked, LeftOver, back, Switched
<1>10. MadeSafe' /\ ServedInv' /\ PoweredIsActive' /\ OwnPowerInvited' /\ PoweredIsVisible'
  BY <1>1, <1>6 DEF MadeSafe, ServedInv, PoweredIsActive, OwnPowerInvited, PoweredIsVisible, BusesOf
<1> QED
  BY <1>7, <1>8, <1>9, <1>10 DEF WindowInv

\* leave_pause(): a bus of the group that is active was made so by the request, and
\* the bus of the request, if it is active, gets no power from the activation.
LEMMA LeaveKeeps ==
  ASSUME WindowInv, LeavePause
  PROVE  WindowInv' /\ on \subseteq on' /\ powerFailed \subseteq powerFailed'
<1> USE DEF served, table
<1>1. /\ phase = "leaving" /\ phase' = "run"
      /\ UNCHANGED <<req, wasEnabled, before, loaded, loadFailed, calibrated>>
  BY DEF LeavePause
<1>2. /\ mode \in [Buses -> Modes] /\ on \subseteq Joints /\ powerFailed \subseteq Buses
      /\ on \cap JointsOf(Own) \subseteq Invited \cup LeftOver /\ req \in Requests
      /\ (\E b \in Buses : mode[b] = "active") => req.op = "groupEnable" \/ mode[Own] = "active"
      /\ \A b \in BusesOf(on) \ powerFailed : mode[b] = "active"
  BY <1>1 DEF WindowInv, WindowTypeOK, LeavingInv, PoweredIsActive
<1>3. Invited' = Invited
  BY <1>1 DEF Invited, Asked
<1>4. /\ on \subseteq on' /\ on' \subseteq Joints /\ mode' \in [Buses -> Modes \ {"paused"}]
      /\ powerFailed \subseteq powerFailed' /\ powerFailed' \subseteq Buses
      /\ RequireCalibrated => on' \subseteq on \cup calibrated
      /\ on' \cap JointsOf(Own) \subseteq Invited \cup LeftOver
      /\ \A b \in BusesOf(on') \ powerFailed' : mode'[b] \in {"active", "fault"}
  <2>1. CASE \E b \in Buses : mode[b] = "active"
    <3>1. ReactivateAll
      BY <2>1 DEF LeavePause
    <3>2. /\ on \subseteq on' /\ on' \subseteq Joints /\ mode' \in [Buses -> {"active", "fault"}]
          /\ RequireCalibrated => on' \subseteq on \cup calibrated
          /\ mode[Own] = "active" => on' \cap JointsOf(Own) = on \cap JointsOf(Own)
          /\ powerFailed \subseteq powerFailed' /\ powerFailed' \subseteq Buses
      BY <1>2, <3>1, ReactivateFacts
    <3>3. on' \cap JointsOf(Own) \subseteq Invited \cup LeftOver
      BY <1>2, <2>1, <3>2 DEF Invited, Asked
    <3>4. BusesOf(on') \subseteq Buses /\ mode' \in [Buses -> Modes \ {"paused"}]
      BY <3>2, BusesOfFacts DEF Modes
    <3> QED
      BY <3>2, <3>3, <3>4
  <2>2. CASE ~\E b \in Buses : mode[b] = "active"
    <3>1. on' = on /\ mode' = [b \in Buses |-> "ready"] /\ powerFailed' = powerFailed
      BY <2>2 DEF LeavePause, AllReady
    <3>2. BusesOf(on) \subseteq powerFailed
      BY <1>2, <2>2, BusesOfFacts
    <3> QED
      BY <1>2, <3>1, <3>2 DEF Modes
  <2> QED
    BY <2>1, <2>2
<1>5. WindowTypeOK'
  BY <1>1, <1>4 DEF WindowInv, WindowTypeOK, Phases
<1>6. Remembered' /\ CalibratedOnly' /\ AllLoaded'
  BY <1>1, <1>4 DEF WindowInv, Remembered, CalibratedOnly, AllLoaded
<1>7. MadeSafe' /\ ServedInv' /\ LeavingInv' /\ PoweredIsActive'
  BY <1>1 DEF MadeSafe, ServedInv, LeavingInv, PoweredIsActive
<1>8. OwnPowerInvited' /\ PoweredIsVisible'
  BY <1>1, <1>3, <1>4 DEF OwnPowerInvited, PoweredIsVisible, LeftOver, BusesOf
<1> QED
  BY <1>4, <1>5, <1>6, <1>7, <1>8 DEF WindowInv

LEMMA WindowInvStep == WindowInv /\ [WindowNext]_windowVars => WindowInv'
<1> SUFFICES ASSUME WindowInv, [WindowNext]_windowVars PROVE WindowInv'
  OBVIOUS
<1>1. CASE UNCHANGED windowVars
  BY <1>1 DEF windowVars, WindowInv, WindowTypeOK, Remembered, MadeSafe, ServedInv, LeavingInv,
     Invited, Asked, LeftOver, BusesOf, PoweredIsActive, CalibratedOnly, AllLoaded, OwnPowerInvited,
     PoweredIsVisible
<1>2. CASE WindowNext
  BY <1>2, LostKeeps, PeekKeeps, EnterKeeps, ServeKeeps, GroupKeeps, RestoreKeeps, LeaveKeeps
     DEF WindowNext, Serve
<1> QED
  BY <1>1, <1>2

\* What a window knows of power, mode, endpoint tables and the joints to restore
\* (enter_window(), the services, exit_window() and leave_pause()), for any buses and
\* joints of a group and whichever calls of the SDK fail.
THEOREM WindowCorrect == WindowSpec => []WindowInv
  BY WindowInvInit, WindowInvStep, PTL DEF WindowSpec

\* The variables of the window keep their types, and PAUSED is seen in a window only.
THEOREM WindowTypeCorrect == WindowSpec => []WindowTypeOK
<1>1. WindowInv => WindowTypeOK
  BY DEF WindowInv
<1> QED
  BY <1>1, WindowCorrect, PTL

\* After the window of a service, of the timer or of a transition no joint of its bus
\* is powered but those that it asked for and those that exit_window() restores, and,
\* when BusRuntime::deactivate() did not take the power away, those that had it before.
THEOREM OwnPowerIsInvited == WindowSpec => []OwnPowerInvited
<1>1. WindowInv => OwnPowerInvited
  BY DEF WindowInv
<1> QED
  BY <1>1, WindowCorrect, PTL

\* A joint that has power outside of a window is on a bus whose mode_ is ACTIVE or FAULT,
\* where close() and the next window find it, or on one where a call that switches power
\* failed; a failure on one bus does not hide a joint of another.
THEOREM PowerShows == WindowSpec => []PoweredIsVisible
<1>1. WindowInv => PoweredIsVisible
  BY DEF WindowInv
<1> QED
  BY <1>1, WindowCorrect, PTL

\* A bus that is READY or ACTIVE has the endpoint table of its devices, unless the last
\* reset_device(), import or configure() of it failed.
THEOREM ReadyHasEndpoints == WindowSpec => []ReadyIsLoaded
<1>1. WindowInv => ReadyIsLoaded
  BY DEF WindowInv, AllLoaded, ReadyIsLoaded
<1> QED
  BY <1>1, WindowCorrect, PTL

\* The window of a request that resumes gives the joints of its own bus that it was not
\* about their power back: exit_window() enables them, and leave_pause() takes nothing
\* from them.  It needs no call to succeed but those that switch power on that bus.
THEOREM OthersComeBack == WindowSpec => OthersRestored
<1> DEFINE A == LeavePause /\ req.resume /\ req.op # "enable" /\ Own \notin powerFailed'
                  => wasEnabled \ req.sel \subseteq on'
<1>1. WindowInv /\ [WindowNext]_windowVars => [A]_windowVars
  <2> SUFFICES ASSUME WindowInv, LeavePause, req.resume, req.op # "enable", Own \notin powerFailed'
               PROVE  wasEnabled \ req.sel \subseteq on'
    OBVIOUS
  <2>1. on \subseteq on' /\ Own \notin powerFailed
    BY LeaveKeeps
  <2>2. wasEnabled \ req.sel \subseteq on
    BY <2>1 DEF WindowInv, LeavingInv, LeavePause
  <2> QED
    BY <2>1, <2>2
<1> QED
  BY <1>1, WindowCorrect, PTL DEF WindowSpec, OthersRestored
=============================================================================
