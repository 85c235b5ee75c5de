--------------------------- MODULE SystemHardware ---------------------------
(***************************************************************************)
(* The ros2_control component (src/jr_ros2_control/src/                    *)
(* jr_system_interface.cpp) over one tick group: life cycle transitions on *)
(* the lifecycle thread of the controller manager, read() and write() on   *)
(* its update thread, and, with tick_source=internal, the tick thread.     *)
(* They share the SDK context (pause windows), the power of the joints,    *)
(* and the snapshots, whose exchange is that of SnapshotExchange, step by  *)
(* step.                                                                   *)
(*                                                                         *)
(* The controller manager does not run a transition and read() or write()  *)
(* of a component at once (jr_tick_group.cpp:277); which of its threads    *)
(* makes which call is `Lifecycle` and `Update`.                           *)
(***************************************************************************)
EXTENDS SnapshotExchange

CONSTANTS
  Lifecycle, Update,   \* the threads of transitions and of read() and write()
  Joints,              \* the joints of the group
  MaxSnapshots         \* bound on the snapshots taken

ASSUME ThreadsAssumption == Lifecycle \in Readers /\ Update \in Readers

VARIABLES
  external,    \* tick_source == controller_manager
  onExit,      \* safety.on_exit
  phase,       \* the life cycle state of the component
  lpc,         \* where its transition is
  upc,         \* where the update thread is
  tg,          \* tg_ # nullptr
  running,     \* running_ of the group
  tpc,         \* what the tick thread is about
  request,     \* pause_request_
  release,     \* pause_release_
  mode,        \* mode_ of the bus
  on,          \* the joints that are powered
  clean,       \* history: the transition that last took the power of all joints has left none
               \* on, and no tick thread was about to activate them then
  reported,    \* the snapshot in the state interfaces, as its number; 0 before the first read()
  due          \* what a read() in progress has to report, at least

lifecycle == <<phase, lpc, tg>>
window    == <<tpc, request, release>>
device    == <<mode, on, clean>>
config    == <<external, onExit>>
vars      == <<exchange, config, lifecycle, upc, running, window, device, reported, due>>

Phases == {"unconfigured", "inactive", "active", "finalized"}

Init ==
  /\ ExchangeInit
  /\ external \in BOOLEAN /\ onExit \in {"disable", "other"}
  /\ phase = "unconfigured" /\ lpc = "idle" /\ upc = "idle" /\ tg = FALSE
  /\ running = FALSE /\ tpc = "off" /\ request = FALSE /\ release = FALSE
  /\ mode = "idle" /\ on = {} /\ clean = TRUE
  /\ reported = 0 /\ due = 0

-----------------------------------------------------------------------------
(* The cycles.                                                             *)

\* run_cycle() up to publish(); the rest of it is Publish.
CycleBegin == FillSlot /\ staging < MaxSnapshots

\* The tick thread runs a cycle.
TickCycle ==
  /\ tpc = "run" /\ running /\ ~request
  /\ CycleBegin
  /\ UNCHANGED <<config, lifecycle, upc, running, window, device, reported, due>>

\* The SDK's safe sequence: nobody looks at its result, and a joint it does not reach
\* stays powered.
SafeSequence == on' \in SUBSET on

\* enter_pause(): the buses are made safe, then the status is published.
EnterPause ==
  /\ tpc = "run" /\ running /\ request
  /\ CycleBegin
  /\ tpc' = "entering" /\ mode' = "paused" /\ SafeSequence
  /\ UNCHANGED <<config, lifecycle, upc, running, request, release, clean, reported, due>>

\* pause_ready_ is set: the thread is parked.
Park ==
  /\ tpc = "entering" /\ wpc = "idle" /\ tpc' = "parked"
  /\ UNCHANGED <<exchange, config, lifecycle, upc, running, request, release, device, reported, due>>

\* leave_pause() looks at the mode of the buses ...
LeaveDecide ==
  /\ tpc = "parked" /\ release
  /\ tpc' = IF mode = "active" THEN "reactivate" ELSE "quiet"
  /\ UNCHANGED <<exchange, config, lifecycle, upc, running, request, release, device, reported, due>>

\* activate() of the bus, which fails with some joints powered, or with none.
ActivateBus ==
  \/ mode = "active" /\ UNCHANGED <<mode, on>>
  \/ mode # "active" /\ mode' = "active" /\ on' = Joints
  \/ mode # "active" /\ mode' = "fault" /\ on' \in SUBSET Joints

\* ... activates them, which does nothing to one that is active still, or not, ...
LeaveAct ==
  /\ tpc \in {"reactivate", "quiet"}
  /\ CycleBegin
  /\ tpc' = "leaving"
  /\ IF tpc = "reactivate"
     THEN ActivateBus
     ELSE mode' = "ready" /\ UNCHANGED on
  /\ UNCHANGED <<config, lifecycle, upc, running, request, release, clean, reported, due>>

\* ... publishes, and thread_main() takes its flags back.
Left ==
  /\ tpc = "leaving" /\ wpc = "idle"
  /\ tpc' = "run" /\ request' = FALSE /\ release' = FALSE
  /\ UNCHANGED <<exchange, config, lifecycle, upc, running, device, reported, due>>

\* stop() lets the thread out, which ends at the head of its loop.
Stopped(t) == t \in {"off", "run", "parked"}

\* An estop, a command timeout or a fault of the device takes power.
PowerLost ==
  /\ \E lost \in SUBSET on \ {{}} : on' = on \ lost
  /\ UNCHANGED <<exchange, config, lifecycle, upc, running, window, mode, clean, reported, due>>

\* The steps of publish(), whoever runs the cycle.
PublishStep ==
  /\ Publish
  /\ UNCHANGED <<config, lifecycle, upc, running, window, device, reported, due>>

Tick == TickCycle \/ EnterPause \/ Park \/ LeaveDecide \/ LeaveAct \/ Left

-----------------------------------------------------------------------------
(* The update thread.                                                      *)

UpdateMay == phase \in {"inactive", "active"} /\ lpc = "idle" /\ upc = "idle" /\ tg

\* read(): acquire_snapshot() on the update thread.
ReadCall ==
  /\ UpdateMay /\ HasValue(Update)
  /\ upc' = IF published THEN "read" ELSE "idle"
  /\ due' = IF fresh THEN live[1] ELSE 0
  /\ UNCHANGED <<config, lifecycle, running, window, device, reported>>

\* read(): the copy of this thread goes into the state interfaces.
ReadDone ==
  /\ upc = "read" /\ rpc[Update] = "idle"
  /\ upc' = "idle" /\ reported' = stage[Update][1]
  /\ UNCHANGED <<exchange, config, lifecycle, running, window, device, due>>

\* write() with tick_source=controller_manager: step() runs the cycle at once; with
\* the other one the command just waits in the mailbox (CommandGate).
WriteStep ==
  /\ UpdateMay /\ external /\ running
  /\ CycleBegin
  /\ upc' = "step"
  /\ UNCHANGED <<config, lifecycle, running, window, device, reported, due>>

WriteDone ==
  /\ upc = "step" /\ wpc = "idle" /\ upc' = "idle"
  /\ UNCHANGED <<exchange, config, lifecycle, running, window, device, reported, due>>

\* The steps of acquire_snapshot() on either thread.
ReadStep ==
  /\ \E r \in Readers : Reading(r)
  /\ UNCHANGED <<config, lifecycle, upc, running, window, device, reported, due>>

UpdateThread == ReadCall \/ ReadDone \/ WriteStep \/ WriteDone

-----------------------------------------------------------------------------
(* Life cycle: configuration.                                              *)

LifecycleMay(p) == phase \in p /\ lpc = "idle" /\ upc = "idle"

\* on_configure() of a component that has its group still.
AlreadyConfigured ==
  /\ LifecycleMay({"unconfigured"}) /\ tg
  /\ phase' = "inactive"
  /\ UNCHANGED <<exchange, config, lpc, upc, tg, running, window, device, reported, due>>

\* configure_backend() up to start() or start_external(); if a step of it fails, all is
\* undone and the component stays unconfigured (on_error() without a group succeeds).
Configure ==
  /\ LifecycleMay({"unconfigured"}) /\ ~tg
  /\ tg' = TRUE /\ running' = TRUE /\ mode' = "ready"
  /\ lpc' = "prime"
  /\ tpc' = IF external THEN "off" ELSE "run"
  /\ request' = FALSE /\ release' = FALSE
  /\ NewGroup
  /\ UNCHANGED <<config, phase, upc, on, clean, reported, due>>

\* A transition takes the power of all joints.
TakePower == SafeSequence /\ clean' = (on' = {} /\ tpc # "reactivate")

\* prime_snapshot(): one step() of its own, or a look for what the tick thread gave.
PrimeStep ==
  /\ lpc = "prime" /\ external
  /\ CycleBegin
  /\ lpc' = "primeStep"
  /\ UNCHANGED <<config, phase, tg, upc, running, window, device, reported, due>>

PrimeCall ==
  /\ \/ lpc = "prime" /\ ~external
     \/ lpc = "primeStep" /\ wpc = "idle"
  /\ HasValue(Lifecycle)
  /\ lpc' = IF published THEN "primed" ELSE lpc
  /\ UNCHANGED <<config, phase, tg, upc, running, window, device, reported, due>>

\* Nothing was published in a second: the group is stopped, closed and destroyed.
PrimeFails ==
  /\ lpc = "prime" /\ ~external /\ ~published /\ wpc = "idle"
  /\ lpc' = "idle" /\ tg' = FALSE /\ running' = FALSE /\ tpc' = "off"
  /\ TakePower /\ mode' = "idle"
  /\ UNCHANGED <<exchange, config, phase, upc, request, release, reported, due>>

\* The result of acquire_snapshot() is not looked at, only that there is one.
ConfigureDone ==
  /\ lpc = "primed" /\ rpc[Lifecycle] = "idle"
  /\ lpc' = "idle" /\ phase' = "inactive"
  /\ UNCHANGED <<exchange, config, tg, upc, running, window, device, reported, due>>

-----------------------------------------------------------------------------
(* Life cycle: power.                                                      *)

\* pause(): pause_ready_ is set from Park to the end of leave_pause().
PauseReady == tpc \in {"parked", "reactivate", "quiet", "leaving"}

\* A transition calls pause(), with the internal tick, before it touches power.
CallPause(from, next) ==
  /\ lpc = from /\ ~external /\ upc = "idle"
  /\ lpc' = next
  /\ IF PauseReady THEN UNCHANGED <<request, release>> ELSE request' = TRUE /\ release' = FALSE
  /\ UNCHANGED <<exchange, config, phase, tg, upc, running, tpc, device, reported, due>>

\* pause() times out: the transition returns ERROR, and the request stands.
PauseTimeout ==
  /\ lpc \in {"activatePause", "deactivatePause", "errorPause"} /\ ~PauseReady
  /\ lpc' = IF lpc = "errorPause" THEN "failed" ELSE "error"
  /\ UNCHANGED <<exchange, config, phase, tg, upc, running, window, device, reported, due>>

\* resume() after the work of a window.
Resumed == release' = (IF external THEN release ELSE TRUE) /\ UNCHANGED <<tpc, request>>

\* The context belongs to the transition.
Owned(at, inPause) == IF external THEN lpc = at ELSE lpc = inPause /\ PauseReady

\* activate() of the group succeeds, fails, or is refused before it does anything.
Activated ==
  /\ \/ ActivateBus
     \/ mode # "active" /\ UNCHANGED <<on, mode>>
  /\ IF mode' = "active" THEN lpc' = "idle" /\ phase' = "active"
                         ELSE lpc' = "error" /\ UNCHANGED phase

Deactivated ==
  TakePower /\ mode' = IF mode \in {"active", "fault"} THEN "ready" ELSE mode

OnActivate ==
  /\ LifecycleMay({"inactive"}) /\ lpc' = "activate"
  /\ UNCHANGED <<exchange, config, phase, tg, upc, running, window, device, reported, due>>

ActivateDone ==
  /\ Owned("activate", "activatePause") /\ Activated /\ Resumed
  /\ UNCHANGED <<exchange, config, tg, upc, running, clean, reported, due>>

OnDeactivate ==
  /\ LifecycleMay({"active"}) /\ lpc' = "deactivate"
  /\ UNCHANGED <<exchange, config, phase, tg, upc, running, window, device, reported, due>>

DeactivateDone ==
  /\ Owned("deactivate", "deactivatePause") /\ Deactivated /\ Resumed
  /\ lpc' = "idle" /\ phase' = "inactive"
  /\ UNCHANGED <<exchange, config, tg, upc, running, reported, due>>

\* on_error(), after a transition has returned ERROR; it keeps the group.
OnErrorDone ==
  /\ Owned("error", "errorPause") /\ Deactivated /\ Resumed
  /\ lpc' = "idle" /\ phase' = "unconfigured"
  /\ UNCHANGED <<exchange, config, tg, upc, running, reported, due>>

\* An on_error() that succeeds although it was not given the window.
OnErrorRelents ==
  /\ lpc = "failed" /\ lpc' = "idle" /\ phase' = "unconfigured"
  /\ UNCHANGED <<exchange, config, tg, upc, running, window, device, reported, due>>

\* on_error() returns ERROR.
OnErrorFails ==
  /\ lpc = "failed" /\ lpc' = "idle" /\ phase' = "finalized"
  /\ UNCHANGED <<exchange, config, tg, upc, running, window, device, reported, due>>

\* The component has no on_cleanup(): the group stays, and ticks.
OnCleanup ==
  /\ LifecycleMay({"inactive"}) /\ phase' = "unconfigured"
  /\ UNCHANGED <<exchange, config, lpc, tg, upc, running, window, device, reported, due>>

\* on_shutdown(), and the destructor of a component that was not shut down: stop(),
\* close_buses(on_exit); what another exit action leaves powered is its own affair.
Shutdown ==
  /\ LifecycleMay(Phases) /\ tg
  /\ Stopped(tpc) /\ wpc = "idle"
  /\ phase' = "finalized" /\ tg' = FALSE /\ running' = FALSE /\ tpc' = "off"
  /\ IF onExit = "disable" THEN TakePower ELSE on' \in SUBSET on /\ UNCHANGED clean
  /\ mode' = "idle"
  /\ UNCHANGED <<exchange, config, lpc, upc, request, release, reported, due>>

Transition ==
  \/ AlreadyConfigured \/ Configure \/ PrimeStep \/ PrimeCall \/ PrimeFails \/ ConfigureDone
  \/ CallPause("activate", "activatePause") \/ CallPause("deactivate", "deactivatePause")
  \/ CallPause("error", "errorPause") \/ PauseTimeout
  \/ OnActivate \/ ActivateDone \/ OnDeactivate \/ DeactivateDone
  \/ OnErrorDone \/ OnErrorFails \/ OnCleanup \/ Shutdown

Next == Tick \/ PublishStep \/ UpdateThread \/ ReadStep \/ Transition \/ PowerLost

Spec == Init /\ [][Next]_vars

-----------------------------------------------------------------------------
\* A component that is not active has no powered joint, whatever failed on the way, and
\* neither has one that was shut down with on_exit=disable ("`on_activate` 才会使能关节",
\* jr_system_interface.hpp); if the call that took the power reached every joint, and
\* did not overtake a tick thread that was leaving a window.
OffWhenNotActive ==
  (phase \in {"unconfigured", "inactive"} /\ lpc = "idle") \/ (~tg /\ onExit = "disable")
    => on = {} \/ ~clean

\* A transition takes power when no tick thread is about to activate the bus: does not
\* hold, pause() takes the window that is being left for the one it asks for.
TransitionsWaitForTick == [][DeactivateDone \/ OnErrorDone => tpc # "reactivate"]_vars

\* A read() reports nothing older than the newest snapshot that nobody had been given
\* when it was called, although the tick thread publishes and the lifecycle thread reads too.
ReadsAreFresh == [][ReadDone => reported' >= due]_vars

\* What read() puts into the state interfaces was measured: it is a snapshot that some
\* cycle has published, never the zeros of a copy that was not written yet.
ReportedIsMeasured == [][ReadDone => reported' # 0]_vars
=============================================================================
