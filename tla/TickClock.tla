----------------------------- MODULE TickClock -----------------------------
(***************************************************************************)
(* The clock of the tick thread: the absolute deadlines of rt::Sleeper,    *)
(* the pauses that move its origin, and the count of missed ticks          *)
(* (thread_main() and jitter_from_deadline() of                            *)
(* src/jr_ros2/src/rt/jr_tick_group.cpp; Sleeper of jr_rt_sched.hpp).      *)
(*                                                                         *)
(* Time is a number of ticks of an ideal clock that is finer than Period.  *)
(* TickPause models the handshake; here it is one variable, `window`.      *)
(***************************************************************************)
EXTENDS Integers

CONSTANTS
  Period,      \* period_ns_
  MaxTime,     \* bound of the clock
  MaxStarts    \* bound of the number of start() calls

ASSUME ClockAssumption ==
  /\ Period \in Nat \ {0}
  /\ MaxTime \in Nat /\ MaxStarts \in Nat

VARIABLES
  now,         \* the monotonic clock
  startNs,     \* Sleeper::start_ns_
  epochIndex,  \* Sleeper::epoch_index_
  tickIndex,   \* tick_index_: one more per cycle, never reset
  missed,      \* missed_ticks_
  tStart,      \* the local variable t_start
  tpc,         \* where the tick thread is
  paused,      \* its local variable `paused`
  window,      \* the pause window: "none", "request" (pause()), "release" (resume())
  stopReq,     \* stop_requested_
  starts,      \* number of start() calls so far
  carried,     \* history: tick_index_ when the origin was set without it (start()), else 0
  strayed,     \* history: time was lost outside pauses since the origin was last set
  since,       \* history: when that was, if time had been lost before; else 0
  base         \* history: missed_ticks_ at that time

history == <<carried, strayed, since, base>>
vars == <<now, startNs, epochIndex, tickIndex, missed, tStart, tpc, paused,
          window, stopReq, starts, history>>

Places == {"loop", "test", "enter", "hold", "leave", "cycle"}

\* Sleeper::deadline_of(tick_index_).
Deadline ==
  startNs + (IF tickIndex > epochIndex THEN tickIndex - epochIndex ELSE 0) * Period

\* What a lateness adds to missed_ticks_.
PeriodsIn(late) == IF late > Period THEN late \div Period ELSE 0

Init ==
  /\ now = 0
  /\ startNs = 0 /\ epochIndex = 0 /\ tickIndex = 0 /\ missed = 0 /\ tStart = 0
  /\ tpc = "off" /\ paused = FALSE /\ window = "none" /\ stopReq = FALSE
  /\ starts = 0
  /\ carried = 0 /\ strayed = FALSE /\ since = 0 /\ base = 0

-----------------------------------------------------------------------------
\* History: the origin of the deadlines is set to now.
OriginSet(index, counted) ==
  /\ carried' = index /\ strayed' = FALSE
  /\ since' = IF strayed THEN now ELSE since
  /\ base' = IF strayed THEN counted ELSE base

\* Time passes: while the thread sleeps before its deadline, while there is no thread,
\* and wherever the thread is slow; it strays unless that is where pauses take their time.
Advance ==
  /\ now < MaxTime
  /\ tpc = "sleep" => now < Deadline
  /\ now' = now + 1
  /\ strayed' = (strayed \/ tpc \in Places \ {"enter", "hold"})
  /\ UNCHANGED <<startNs, epochIndex, tickIndex, missed, tStart, tpc, paused,
                 window, stopReq, starts, carried, since, base>>

\* start() and the Sleeper constructor: tick_index_ goes on from where it was.
Start ==
  /\ tpc = "off" /\ starts < MaxStarts
  /\ startNs' = now /\ epochIndex' = 0
  /\ tpc' = "loop" /\ paused' = FALSE /\ stopReq' = FALSE
  /\ starts' = starts + 1
  /\ OriginSet(tickIndex, missed)
  /\ UNCHANGED <<now, tickIndex, missed, tStart, window>>

\* stop() also releases a pause.
Stop ==
  /\ tpc # "off" /\ ~stopReq
  /\ stopReq' = TRUE
  /\ window' = IF window = "request" THEN "release" ELSE window
  /\ UNCHANGED <<now, startNs, epochIndex, tickIndex, missed, tStart, tpc, paused, starts, history>>

\* pause() asks for a window.
PauseCall ==
  /\ tpc # "off" /\ window = "none"
  /\ window' = "request"
  /\ UNCHANGED <<now, startNs, epochIndex, tickIndex, missed, tStart, tpc, paused,
                 stopReq, starts, history>>

\* resume() gives it back, which nobody does before pause() has returned.
Resume ==
  /\ paused /\ window = "request"
  /\ window' = "release"
  /\ UNCHANGED <<now, startNs, epochIndex, tickIndex, missed, tStart, tpc, paused,
                 stopReq, starts, history>>

-----------------------------------------------------------------------------
LoopTest ==
  /\ tpc = "loop"
  /\ tpc' = IF stopReq THEN "off" ELSE "sleep"
  /\ UNCHANGED <<now, startNs, epochIndex, tickIndex, missed, tStart, paused,
                 window, stopReq, starts, history>>

\* sleep_until(deadline) returns; t_start = now_ns().
Wake ==
  /\ tpc = "sleep" /\ now >= Deadline
  /\ tStart' = now
  /\ tpc' = "test"
  /\ UNCHANGED <<now, startNs, epochIndex, tickIndex, missed, paused,
                 window, stopReq, starts, history>>

PauseTest ==
  /\ tpc = "test"
  /\ tpc' = IF window # "none" /\ ~paused THEN "enter" ELSE IF paused THEN "hold" ELSE "cycle"
  /\ UNCHANGED <<now, startNs, epochIndex, tickIndex, missed, tStart, paused,
                 window, stopReq, starts, history>>

EnterPause ==
  /\ tpc = "enter"
  /\ paused' = TRUE
  /\ tpc' = "hold"
  /\ UNCHANGED <<now, startNs, epochIndex, tickIndex, missed, tStart, window, stopReq, starts, history>>

\* if (!pause_release_) continue;
StillPaused ==
  /\ tpc = "hold" /\ window # "release"
  /\ tpc' = "loop"
  /\ UNCHANGED <<now, startNs, epochIndex, tickIndex, missed, tStart, paused,
                 window, stopReq, starts, history>>

\* The first reset_epoch(): it moved the origin in time and kept it in ticks.
SettleOnlyTime ==
  /\ tpc = "hold" /\ window = "release"
  /\ missed' = missed + PeriodsIn(now - tStart)
  /\ startNs' = now
  /\ tpc' = "leave"
  /\ OriginSet(0, missed')
  /\ UNCHANGED <<now, epochIndex, tickIndex, tStart, paused, window, stopReq, starts>>

\* No reset_epoch(): the deadlines of the pause are all still due.
SettleNothing ==
  /\ tpc = "hold" /\ window = "release"
  /\ missed' = missed + PeriodsIn(now - tStart)
  /\ tpc' = "leave"
  /\ OriginSet(0, missed')
  /\ UNCHANGED <<now, startNs, epochIndex, tickIndex, tStart, paused, window, stopReq, starts>>

\* The accounting of the pause, and reset_epoch().
Settle ==
  /\ tpc = "hold" /\ window = "release"
  /\ missed' = missed + PeriodsIn(now - tStart)
  /\ startNs' = now /\ epochIndex' = tickIndex
  /\ tpc' = "leave"
  /\ OriginSet(0, missed')
  /\ UNCHANGED <<now, tickIndex, tStart, paused, window, stopReq, starts>>

\* leave_pause() and the flags.
LeavePause ==
  /\ tpc = "leave"
  /\ paused' = FALSE /\ window' = "none"
  /\ tpc' = "loop"
  /\ UNCHANGED <<now, startNs, epochIndex, tickIndex, missed, tStart, stopReq, starts, history>>

\* jitter_from_deadline() and run_cycle().
Cycle ==
  /\ tpc = "cycle"
  /\ missed' = missed + PeriodsIn(tStart - Deadline)
  /\ tickIndex' = tickIndex + 1
  /\ tpc' = "loop"
  /\ UNCHANGED <<now, startNs, epochIndex, tStart, paused, window, stopReq, starts, history>>

Next ==
  \/ Advance
  \/ Start \/ Stop \/ PauseCall \/ Resume
  \/ LoopTest \/ Wake \/ PauseTest \/ EnterPause
  \/ StillPaused \/ Settle \/ LeavePause \/ Cycle

Spec == Init /\ [][Next]_vars

-----------------------------------------------------------------------------
\* The values of the variables.
TypeOK ==
  /\ now \in Nat /\ startNs \in Nat /\ tStart \in Nat
  /\ epochIndex \in Nat /\ tickIndex \in Nat /\ missed \in Nat /\ starts \in Nat
  /\ tpc \in {"off", "sleep"} \cup Places
  /\ window \in {"none", "request", "release"}
  /\ paused \in BOOLEAN /\ stopReq \in BOOLEAN
  /\ carried \in Nat /\ since \in Nat /\ base \in Nat /\ strayed \in BOOLEAN

\* The next cycle is never put further off than one period, whatever pauses there were
\* (deadline_of() counts from the epoch, not from the first tick), but for a start() that
\* finds tick_index_ where an earlier run left it: it adds a period for each cycle of then,
\* until a pause moves the origin.
NextDeadlineNear == tpc # "off" => Deadline <= now + (1 + carried) * Period

\* No more ticks are counted as missed than there were periods to miss: of the time spent
\* in pauses each period is counted once.  It is said of the time since the origin of the
\* deadlines was last set; time lost in cycles or by leave_pause() makes the cycles after it
\* late, each counts its lateness anew, and the next setting of the origin ends that.
MissedFits == ~strayed => (missed - base) * Period <= now - since
=============================================================================
