-------------------------- MODULE TickClockProofs --------------------------
(***************************************************************************)
(* Proofs about the clock of the tick thread, for every period and for     *)
(* every bound of the clock.                                               *)
(***************************************************************************)
EXTENDS TickClock, TLAPS

\* The next cycle's distance from the epoch, and what one more cycle adds to it.
LEMMA OneMorePeriod ==
  ASSUME NEW p \in Nat, NEW n \in Nat
  PROVE  (n + 1) * p = n * p + p /\ n * p \in Nat
  OBVIOUS

\* What is counted as missed never exceeds the lateness.
LEMMA PeriodsFit ==
  ASSUME NEW late \in Int
  PROVE  /\ PeriodsIn(late) \in Nat
         /\ late <= Period => PeriodsIn(late) = 0
         /\ late >= 0 => PeriodsIn(late) * Period <= late
<1>1. Period \in Nat /\ Period > 0
  BY ClockAssumption
<1>2. CASE late > Period
  <2>1. late \div Period \in Nat /\ (late \div Period) * Period <= late
    BY <1>1, <1>2
  <2> QED
    BY <1>1, <1>2, <2>1 DEF PeriodsIn
<1>3. CASE ~(late > Period)
  BY <1>1, <1>3 DEF PeriodsIn
<1> QED
  BY <1>2, <1>3

\* The variables keep their types.
THEOREM ClockTypeCorrect == Spec => []TypeOK
<1>1. Init => TypeOK
  <2> SUFFICES ASSUME Init PROVE TypeOK
    OBVIOUS
  <2>1. paused \in BOOLEAN /\ stopReq \in BOOLEAN /\ strayed \in BOOLEAN
    BY Zenon DEF Init
  <2> QED
    BY <2>1 DEF Init, TypeOK, Places
<1>2. TypeOK /\ [Next]_vars => TypeOK'
  <2> SUFFICES ASSUME TypeOK, [Next]_vars PROVE TypeOK'
    OBVIOUS
  <2> USE DEF TypeOK, Places, history
  <2>1. CASE Advance
    <3>1. strayed' \in BOOLEAN
      BY <2>1, Zenon DEF Advance
    <3> QED
      BY <2>1, <3>1 DEF Advance
  <2>2. CASE Start
    <3>1. paused' \in BOOLEAN /\ stopReq' \in BOOLEAN /\ strayed' \in BOOLEAN
      BY <2>2, Zenon DEF Start, OriginSet
    <3> QED
      BY <2>2, <3>1 DEF Start, OriginSet
  <2>7. CASE Stop \/ PauseCall \/ Resume
    BY <2>7 DEF Stop, PauseCall, Resume
  <2>3. CASE LoopTest \/ Wake \/ PauseTest \/ EnterPause \/ StillPaused \/ LeavePause
    BY <2>3 DEF LoopTest, Wake, PauseTest, EnterPause, StillPaused, LeavePause
  <2>4. CASE Settle
    <3>1. PeriodsIn(now - tStart) \in Nat
      BY PeriodsFit
    <3>2. strayed' \in BOOLEAN
      BY <2>4, Zenon DEF Settle, OriginSet
    <3> QED
      BY <2>4, <3>1, <3>2 DEF Settle, OriginSet
  <2>5. CASE Cycle
    <3>1. Deadline \in Int
      BY ClockAssumption, OneMorePeriod DEF Deadline
    <3>2. PeriodsIn(tStart - Deadline) \in Nat
      BY <3>1, PeriodsFit
    <3> QED
      BY <2>5, <3>2 DEF Cycle
  <2>6. CASE UNCHANGED vars
    BY <2>6 DEF vars
  <2> QED
    BY <2>1, <2>2, <2>3, <2>4, <2>5, <2>6, <2>7 DEF Next
<1> QED
  BY <1>1, <1>2, PTL DEF Spec

-----------------------------------------------------------------------------
(* The deadlines stay near, whatever pauses and restarts there are.        *)

\* A cycle starts once its deadline is over, and the epoch is not in the future.
DeadlineInv ==
  /\ tpc # "off" => epochIndex <= tickIndex
  /\ tStart <= now
  /\ tpc \in {"test", "enter", "hold", "cycle"} => Deadline <= now

\* The deadline in the terms of the invariant.
LEMMA DeadlineValue ==
  ASSUME TypeOK
  PROVE  /\ Deadline \in Nat
         /\ epochIndex <= tickIndex => Deadline = startNs + (tickIndex - epochIndex) * Period
         /\ tickIndex <= epochIndex => Deadline = startNs
<1>1. Period \in Nat
  BY ClockAssumption
<1>2. CASE tickIndex > epochIndex
  <2>1. tickIndex - epochIndex \in Nat
    BY <1>2 DEF TypeOK
  <2> QED
    BY <1>1, <1>2, <2>1, OneMorePeriod DEF Deadline, TypeOK
<1>3. CASE ~(tickIndex > epochIndex)
  BY <1>1, <1>3, OneMorePeriod DEF Deadline, TypeOK
<1> QED
  BY <1>2, <1>3

\* A cycle moves the deadline by one period.
LEMMA CycleMovesDeadline ==
  ASSUME TypeOK, TypeOK', epochIndex <= tickIndex, Cycle
  PROVE  Deadline' = Deadline + Period
<1>1. /\ tickIndex' = tickIndex + 1 /\ epochIndex' = epochIndex /\ startNs' = startNs
      /\ tickIndex \in Nat /\ epochIndex \in Nat /\ startNs \in Nat /\ Period \in Nat
  BY ClockAssumption DEF Cycle, TypeOK
<1>2. Deadline = startNs + (tickIndex - epochIndex) * Period
  BY DeadlineValue
<1>3. Deadline' = startNs + ((tickIndex - epochIndex) + 1) * Period
  BY <1>1 DEF Deadline
<1>4. /\ ((tickIndex - epochIndex) + 1) * Period = (tickIndex - epochIndex) * Period + Period
      /\ (tickIndex - epochIndex) * Period \in Nat
  BY <1>1, OneMorePeriod
<1> QED
  BY <1>1, <1>2, <1>3, <1>4

\* The epoch is set to now, by start() and by the end of a pause.
LEMMA EpochAtNow ==
  ASSUME TypeOK, TypeOK', startNs' = now, tickIndex' <= epochIndex'
  PROVE  Deadline' = now
<1>1. /\ startNs' = now /\ now \in Nat /\ tickIndex' \in Nat /\ epochIndex' \in Nat
      /\ Period \in Nat
  BY ClockAssumption DEF TypeOK
<1>2. ~(tickIndex' > epochIndex')
  BY <1>1
<1>3. Deadline' = now + 0 * Period
  BY <1>1, <1>2, Zenon DEF Deadline
<1> QED
  BY <1>1, <1>3

\* What NextDeadlineNear allows is a natural number, and no less than a period.
LEMMA Allowance ==
  ASSUME NEW n \in Nat
  PROVE  (1 + n) * Period \in Nat /\ Period <= (1 + n) * Period
<1>1. Period \in Nat
  BY ClockAssumption
<1>2. (n + 1) * Period = n * Period + Period /\ n * Period \in Nat
  BY <1>1, OneMorePeriod
<1>3. 1 + n = n + 1
  OBVIOUS
<1> QED
  BY <1>1, <1>2, <1>3

\* start() puts the first cycle off by a period for each cycle of earlier runs.
LEMMA StartPutsOff ==
  ASSUME TypeOK, TypeOK', Start
  PROVE  Deadline' \in Nat /\ now <= Deadline' /\ Deadline' <= now + (1 + carried') * Period
<1>1. /\ startNs' = now /\ epochIndex' = 0 /\ tickIndex' = tickIndex /\ carried' = tickIndex
      /\ now \in Nat /\ tickIndex \in Nat /\ Period \in Nat
  BY ClockAssumption DEF Start, OriginSet, TypeOK
<1>2. /\ (tickIndex + 1) * Period = tickIndex * Period + Period /\ tickIndex * Period \in Nat
      /\ 1 + tickIndex = tickIndex + 1
  BY <1>1, OneMorePeriod
<1>3. CASE tickIndex > 0
  <2>1. Deadline' = now + tickIndex * Period
    BY <1>1, <1>3 DEF Deadline
  <2> QED
    BY <1>1, <1>2, <2>1
<1>4. CASE ~(tickIndex > 0)
  <2>1. Deadline' = now
    BY <1>1, <1>4, EpochAtNow
  <2> QED
    BY <1>1, <1>2, <2>1
<1> QED
  BY <1>3, <1>4

LEMMA DeadlineStep ==
  ASSUME TypeOK, TypeOK', DeadlineInv, NextDeadlineNear, [Next]_vars
  PROVE  DeadlineInv' /\ NextDeadlineNear'
<1>1. Deadline \in Nat /\ now \in Nat /\ now' \in Nat /\ Period \in Nat
  BY DeadlineValue, ClockAssumption DEF TypeOK
<1>9. (1 + carried) * Period \in Nat /\ Period <= (1 + carried) * Period
  BY Allowance DEF TypeOK
<1>10. (1 + carried') * Period \in Nat
  BY Allowance DEF TypeOK
<1> USE DEF DeadlineInv, NextDeadlineNear, history
<1>2. CASE Advance
  <2>1. Deadline' = Deadline /\ carried' = carried
    BY <1>2 DEF Advance, Deadline
  <2> QED
    BY <1>1, <1>9, <1>2, <2>1 DEF Advance, TypeOK
<1>3. CASE Start
  <2>1. /\ tickIndex' \in Nat /\ epochIndex' = 0 /\ tpc' = "loop"
        /\ now' = now /\ tStart' = tStart
    BY <1>3 DEF Start, TypeOK
  <2>2. Deadline' <= now + (1 + carried') * Period
    BY <1>3, StartPutsOff
  <2>3. NextDeadlineNear'
    BY <2>1, <2>2
  <2> QED
    BY <2>1, <2>3
<1>4. CASE Stop \/ PauseCall \/ Resume
  <2>1. Deadline' = Deadline /\ carried' = carried
    BY <1>4 DEF Stop, PauseCall, Resume, Deadline
  <2> QED
    BY <1>1, <1>4, <2>1 DEF Stop, PauseCall, Resume
<1>5. CASE LoopTest \/ Wake \/ PauseTest \/ EnterPause \/ StillPaused \/ LeavePause
  <2>1. Deadline' = Deadline /\ carried' = carried
    BY <1>5 DEF LoopTest, Wake, PauseTest, EnterPause, StillPaused, LeavePause, Deadline
  <2>2. CASE LoopTest \/ StillPaused \/ LeavePause
    BY <1>1, <2>1, <2>2 DEF LoopTest, StillPaused, LeavePause
  <2>3. CASE Wake
    BY <1>1, <2>1, <2>3 DEF Wake
  <2>4. CASE PauseTest \/ EnterPause
    BY <1>1, <2>1, <2>4 DEF PauseTest, EnterPause
  <2> QED
    BY <1>5, <2>2, <2>3, <2>4
<1>6. CASE Settle
  <2>1. Deadline' = now
    BY <1>6, EpochAtNow DEF Settle, TypeOK
  <2>2. now' = now /\ tStart' = tStart /\ epochIndex' = tickIndex' /\ tpc' = "leave"
    BY <1>6 DEF Settle
  <2>3. NextDeadlineNear'
    BY <1>1, <1>10, <2>1, <2>2
  <2>4. epochIndex' \in Nat
    BY DEF TypeOK
  <2> QED
    BY <2>2, <2>3, <2>4
<1>7. CASE Cycle
  <2>1. Deadline' = Deadline + Period
    BY <1>7, CycleMovesDeadline DEF Cycle
  <2>2. carried' = carried
    BY <1>7 DEF Cycle
  <2> QED
    BY <1>1, <1>9, <1>7, <2>1, <2>2 DEF Cycle, TypeOK
<1>8. CASE UNCHANGED vars
  <2>1. Deadline' = Deadline
    BY <1>8 DEF vars, Deadline
  <2> QED
    BY <1>8, <2>1 DEF vars
<1> QED
  BY <1>2, <1>3, <1>4, <1>5, <1>6, <1>7, <1>8 DEF Next

\* In every run of the group, whatever pauses there were and wherever the thread lost time,
\* the next cycle is at most a period away, and a period more for each cycle that earlier
\* runs had made when the thread was started, until a pause moves the origin.
THEOREM DeadlineStaysNear == Spec => []NextDeadlineNear
<1>1. Init => DeadlineInv /\ NextDeadlineNear
  BY ClockAssumption DEF Init, DeadlineInv, NextDeadlineNear
<1>2. TypeOK /\ TypeOK' /\ DeadlineInv /\ NextDeadlineNear /\ [Next]_vars
      => DeadlineInv' /\ NextDeadlineNear'
  BY DeadlineStep
<1> QED
  BY <1>1, <1>2, ClockTypeCorrect, PTL DEF Spec

-----------------------------------------------------------------------------
(* While time is lost in pauses only: no period is counted as missed twice. *)

\* Outside pauses no cycle is late; what is counted was over by t_start.
OnTime ==
  /\ ~paused /\ tpc \in {"loop", "sleep", "test", "cycle"} => now <= Deadline
  /\ tpc = "leave" => now <= Deadline
  /\ tpc \in {"test", "enter", "hold"} => (missed - base) * Period <= tStart - since

MissedInv ==
  /\ epochIndex <= tickIndex \/ tpc = "off"
  /\ tStart <= now
  /\ tpc \in {"hold", "leave"} => paused
  /\ tpc = "cycle" => ~paused
  /\ ~strayed => OnTime

\* Nothing is counted since a moment that is now.
LEMMA NothingNew ==
  ASSUME NEW x \in Nat, NEW y, NEW p \in Nat
  PROVE  y = x => (x - y) * p = 0
<1>1. x - x = 0 /\ 0 * p = 0
  OBVIOUS
<1> QED
  BY <1>1

\* Settling a pause counts no more than the time since t_start; if time had been lost
\* before, the account starts anew.
LEMMA SettleFits ==
  ASSUME TypeOK, TypeOK', MissedInv, Settle
  PROVE  (missed' - base') * Period <= now - since'
<1> DEFINE more == PeriodsIn(now - tStart)
<1>1. now - tStart \in Nat /\ Period \in Nat /\ now \in Nat /\ missed' \in Nat
  BY ClockAssumption DEF TypeOK, MissedInv
<1>2. CASE strayed
  <2>1. base' = missed' /\ since' = now
    BY <1>2 DEF Settle, OriginSet
  <2>2. base' = missed' => (missed' - base') * Period = 0
    BY <1>1, NothingNew
  <2>3. now - since' = 0
    BY <1>1, <2>1
  <2>4. (missed' - base') * Period = 0
    BY <2>1, <2>2
  <2> QED
    BY <2>3, <2>4
<1>3. CASE ~strayed
  <2>1. base' = base /\ since' = since
    BY <1>3 DEF Settle, OriginSet
  <2>2. more \in Nat /\ more * Period <= now - tStart
    BY <1>1, PeriodsFit
  <2>3. missed' = missed + more /\ (missed - base) * Period <= tStart - since
    BY <1>3 DEF Settle, MissedInv, OnTime
  <2>4. missed \in Nat /\ base \in Nat /\ since \in Nat /\ tStart \in Nat
    BY DEF TypeOK
  <2>5. ((missed + more) - base) * Period = (missed - base) * Period + more * Period
    BY <1>1, <2>2, <2>4
  <2>6. (missed - base) * Period \in Int /\ more * Period \in Int
    BY <1>1, <2>2, <2>4
  <2> HIDE DEF more
  <2> QED
    BY <1>1, <2>1, <2>2, <2>3, <2>4, <2>5, <2>6
<1> QED
  BY <1>2, <1>3

\* A cycle that is not late adds nothing.
LEMMA PromptCycleCountsNothing ==
  ASSUME TypeOK, MissedInv, Cycle, ~strayed
  PROVE  missed' = missed
<1>1. Deadline \in Nat /\ tStart \in Nat /\ now \in Nat /\ missed \in Nat /\ Period \in Nat
  BY DeadlineValue, ClockAssumption DEF TypeOK
<1>2. tStart <= Deadline
  BY <1>1 DEF Cycle, MissedInv, OnTime
<1>3. PeriodsIn(tStart - Deadline) = 0
  BY <1>1, <1>2, PeriodsFit
<1> QED
  BY <1>1, <1>3 DEF Cycle

\* The parts of the invariant that hold also when time was lost.
LEMMA PlacesStep ==
  ASSUME TypeOK, TypeOK', MissedInv, [Next]_vars
  PROVE  /\ epochIndex' <= tickIndex' \/ tpc' = "off"
         /\ tStart' <= now'
         /\ tpc' \in {"hold", "leave"} => paused'
         /\ tpc' = "cycle" => ~paused'
<1> USE DEF TypeOK, MissedInv, history, Places
<1>1. CASE Advance
  BY <1>1 DEF Advance
<1>2. CASE Start
  BY <1>2 DEF Start
<1>3. CASE Stop \/ PauseCall \/ Resume
  BY <1>3 DEF Stop, PauseCall, Resume
<1>4. CASE LoopTest \/ Wake
  BY <1>4 DEF LoopTest, Wake
<1>5. CASE PauseTest \/ StillPaused
  BY <1>5 DEF PauseTest, StillPaused
<1>6. CASE EnterPause
  <2>1. paused'
    BY <1>6 DEF EnterPause
  <2> QED
    BY <1>6, <2>1 DEF EnterPause
<1>7. CASE Settle
  BY <1>7 DEF Settle
<1>8. CASE LeavePause \/ Cycle
  BY <1>8 DEF LeavePause, Cycle
<1>9. CASE UNCHANGED vars
  BY <1>9 DEF vars
<1> QED
  BY <1>1, <1>2, <1>3, <1>4, <1>5, <1>6, <1>7, <1>8, <1>9 DEF Next

\* Setting the origin puts the thread on time again.
LEMMA OriginStep ==
  ASSUME TypeOK, TypeOK', MissedInv, MissedFits, Start \/ Settle
  PROVE  OnTime' /\ MissedFits'
<1>1. now \in Nat /\ Period \in Nat
  BY ClockAssumption DEF TypeOK
<1>2. CASE Start
  <2>1. tpc' = "loop" /\ now' = now /\ missed' = missed
    BY <1>2 DEF Start
  <2>2. now <= Deadline'
    BY <1>2, StartPutsOff
  <2>3. MissedFits'
    <3>1. CASE strayed
      <4>1. base' = missed' /\ since' = now'
        BY <1>2, <2>1, <3>1 DEF Start, OriginSet
      <4> QED
        BY <1>1, <2>1, <4>1 DEF MissedFits, TypeOK
    <3>2. CASE ~strayed
      <4>1. base' = base /\ since' = since
        BY <1>2, <3>2 DEF Start, OriginSet
      <4> QED
        BY <2>1, <3>2, <4>1 DEF MissedFits
    <3> QED
      BY <3>1, <3>2
  <2> QED
    BY <2>1, <2>2, <2>3 DEF OnTime
<1>3. CASE Settle
  <2>1. tpc' = "leave" /\ now' = now
    BY <1>3 DEF Settle
  <2>2. Deadline' = now
    BY <1>3, EpochAtNow DEF Settle, TypeOK
  <2> QED
    BY <1>1, <1>3, <2>1, <2>2, SettleFits DEF OnTime, MissedFits
<1> QED
  BY <1>2, <1>3

\* A step that sets no origin, of a thread that has not strayed and does not.
LEMMA OnTimeStep ==
  ASSUME TypeOK, TypeOK', MissedInv, MissedFits, ~strayed, ~strayed',
         [Advance \/ Stop \/ PauseCall \/ Resume \/ LoopTest \/ Wake \/ PauseTest
          \/ EnterPause \/ StillPaused \/ LeavePause \/ Cycle]_vars
  PROVE  OnTime' /\ MissedFits'
<1>1. /\ Deadline \in Nat /\ now \in Nat /\ now' \in Nat /\ Period \in Nat
      /\ (missed - base) * Period \in Int /\ tStart \in Nat /\ since \in Nat
  BY DeadlineValue, ClockAssumption DEF TypeOK
<1>9. OnTime /\ (missed - base) * Period <= now - since
  BY DEF MissedInv, MissedFits
<1>2. CASE Advance
  <2>1. /\ Deadline' = Deadline /\ missed' = missed /\ tStart' = tStart /\ now' = now + 1
        /\ base' = base /\ since' = since
    BY <1>2 DEF Advance, Deadline
  <2>2. MissedFits'
    BY <1>1, <1>9, <2>1 DEF MissedFits
  <2>3. tpc' = tpc /\ tpc \in {"sleep", "off", "enter", "hold"} /\ (tpc = "sleep" => now < Deadline)
    BY <1>2 DEF Advance, Places, TypeOK
  <2> QED
    BY <1>1, <1>9, <2>1, <2>2, <2>3 DEF OnTime
<1>3. CASE Cycle
  <2>1. epochIndex <= tickIndex /\ now <= Deadline
    BY <1>3, <1>9 DEF Cycle, MissedInv, OnTime
  <2>2. Deadline' = Deadline + Period
    BY <1>3, <2>1, CycleMovesDeadline
  <2>3. /\ missed' = missed /\ now' = now /\ paused' = paused /\ tpc' = "loop"
        /\ base' = base /\ since' = since
    BY <1>3, PromptCycleCountsNothing DEF Cycle, history
  <2> QED
    BY <1>1, <1>9, <2>1, <2>2, <2>3 DEF OnTime, MissedFits
<1>4. CASE ~Advance /\ ~Cycle
  <2>1. /\ Deadline' = Deadline /\ missed' = missed /\ now' = now
        /\ base' = base /\ since' = since
    BY <1>4 DEF Stop, PauseCall, Resume, LoopTest, Wake, PauseTest, EnterPause, StillPaused,
                LeavePause, Deadline, history, vars
  <2>2. MissedFits'
    BY <1>9, <2>1 DEF MissedFits
  <2> USE DEF OnTime
  <2>3. CASE Stop \/ PauseCall \/ Resume
    BY <1>9, <2>1, <2>2, <2>3 DEF Stop, PauseCall, Resume
  <2>4. CASE LoopTest \/ StillPaused \/ LeavePause
    BY <1>1, <1>9, <2>1, <2>2, <2>4 DEF LoopTest, StillPaused, LeavePause, MissedInv
  <2>5. CASE Wake
    BY <1>1, <1>9, <2>1, <2>2, <2>5 DEF Wake
  <2>6. CASE PauseTest
    BY <1>1, <1>9, <2>1, <2>2, <2>6 DEF PauseTest
  <2>7. CASE EnterPause
    BY <1>1, <1>9, <2>1, <2>2, <2>7 DEF EnterPause
  <2>8. CASE UNCHANGED vars
    BY <1>9, <2>1, <2>2, <2>8 DEF vars
  <2> QED
    BY <1>4, <2>3, <2>4, <2>5, <2>6, <2>7, <2>8
<1> QED
  BY <1>2, <1>3, <1>4

LEMMA MissedStep ==
  ASSUME TypeOK, TypeOK', MissedInv, MissedFits, [Next]_vars
  PROVE  MissedInv' /\ MissedFits'
<1>1. ~strayed' => OnTime' /\ MissedFits'
  <2> SUFFICES ASSUME ~strayed' PROVE OnTime' /\ MissedFits'
    OBVIOUS
  <2>1. CASE Start \/ Settle
    BY <2>1, OriginStep
  <2>2. CASE ~(Start \/ Settle)
    <3>1. ~strayed
      BY <2>2 DEF Next, Advance, Stop, PauseCall, Resume, LoopTest, Wake, PauseTest, EnterPause,
                  StillPaused, LeavePause, Cycle, history, vars
    <3> QED
      BY <2>2, <3>1, OnTimeStep DEF Next
  <2> QED
    BY <2>1, <2>2
<1>2. MissedFits'
  BY <1>1 DEF MissedFits
<1> QED
  BY <1>1, <1>2, PlacesStep DEF MissedInv

\* Wherever the thread loses time and however often it is started, the missed ticks counted
\* since the origin was last set fit into the time since then, as long as time is lost only
\* while pauses are entered and held: of a pause each period is counted once.
THEOREM PausesCountedOnce == Spec => []MissedFits
<1>1. Init => MissedInv /\ MissedFits
  <2> SUFFICES ASSUME Init PROVE MissedInv /\ MissedFits
    OBVIOUS
  <2>1. Period \in Nat /\ (0 - 0) * Period = 0
    BY ClockAssumption
  <2> QED
    BY <2>1 DEF Init, MissedInv, OnTime, MissedFits
<1>2. TypeOK /\ TypeOK' /\ MissedInv /\ MissedFits /\ [Next]_vars => MissedInv' /\ MissedFits'
  BY MissedStep
<1> QED
  BY <1>1, <1>2, ClockTypeCorrect, PTL DEF Spec
=============================================================================
