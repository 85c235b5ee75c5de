---------------------------- MODULE NodeLifecycle ----------------------------
(***************************************************************************)
(* The driver node JrBusNode: its life cycle transitions, the services     *)
(* that open a pause window, the tick thread that its group runs while the *)
(* node is active, and the end of the process (jr_bus_node.cpp,            *)
(* jr_bus_main.cpp, over start(), stop(), pause() and resume() of          *)
(* jr_tick_group.cpp and close() of jr_bus_runtime.cpp).                   *)
(*                                                                         *)
(* Transitions and services run on different threads of the executor.      *)
(* What TickPause does one access to a flag at a time is done here one     *)
(* call at a time; what SafeWindow does for every service is done here for *)
(* SetEnabled and for one that only looks.  The group has one bus.         *)
(*                                                                         *)
(* A transition may destroy the services and the group while a service is  *)
(* served, which then goes on with what is left: what a use of destroyed   *)
(* objects may do besides, the end of the process, is not modelled.        *)
(***************************************************************************)
EXTENDS Naturals

CONSTANT Joints   \* the joints of the bus

VARIABLES
  autoEnable,   \* safety.auto_enable
  onExit,       \* safety.on_exit
  spinning,     \* main() is in exec.spin()
  phase,        \* the life cycle state of the node
  lpc,          \* where its transition is
  tg,           \* tg_ # nullptr
  open,         \* the bus is open and its lock held
  up,           \* topics, services and diagnostics exist
  running,      \* running_
  stopReq,      \* stop_requested_
  tpc,          \* where the tick thread is
  request,      \* pause_request_
  release,      \* pause_release_
  ready,        \* pause_ready_
  mode,         \* mode_ of the bus
  on,           \* the joints that are powered
  spc,          \* where the service is
  req,          \* its request
  was,          \* the joints its Guard found enabled
  invited,      \* history: somebody asked for power since a transition last took it from all
                \* joints, or was about to give it back then
  stuck         \* history: the exit action has left a joint powered

config  == <<autoEnable, onExit>>
node    == <<phase, tg, open, up>>
thread  == <<running, stopReq, tpc>>
flags   == <<request, release, ready>>
device  == <<mode, on, invited, stuck>>
service == <<spc, req, was>>
vars    == <<config, spinning, node, lpc, thread, flags, device, service>>

Requests ==
  [op : {"enable", "disable"}, sel : SUBSET Joints \ {{}}, resume : BOOLEAN]
    \cup [op : {"look"}, sel : {{}}, resume : {TRUE}]

NoRequest == [op |-> "look", sel |-> {}, resume |-> TRUE]

Init ==
  /\ autoEnable \in BOOLEAN /\ onExit \in {"disable", "other"}
  /\ spinning = TRUE
  /\ phase = "unconfigured" /\ lpc = "idle" /\ tg = FALSE /\ open = FALSE /\ up = FALSE
  /\ running = FALSE /\ stopReq = FALSE /\ tpc = "off"
  /\ request = FALSE /\ release = FALSE /\ ready = FALSE
  /\ mode = "idle" /\ on = {} /\ invited = FALSE
  /\ stuck = FALSE
  /\ spc = "idle" /\ req = NoRequest /\ was = {}

-----------------------------------------------------------------------------
\* The SDK's safe sequence: nobody looks at its result, and a joint it does not reach
\* stays powered.
TakePower == on' \in SUBSET on

-----------------------------------------------------------------------------
(* The tick thread.                                                        *)

\* enter_pause(), pause_ready_.
EnterPause ==
  /\ tpc = "run" /\ request
  /\ tpc' = "parked" /\ ready' = TRUE
  /\ TakePower /\ mode' = "paused"
  /\ UNCHANGED <<config, spinning, node, lpc, running, stopReq, request, release, invited, stuck, service>>

\* A leave_pause() that enables whatever the window has left.
LeaveReactivates ==
  /\ tpc = "parked" /\ release /\ tpc' = "reactivate"
  /\ UNCHANGED <<config, spinning, node, lpc, running, stopReq, flags, device, service>>

\* leave_pause() looks at the mode ...
LeaveDecide ==
  /\ tpc = "parked" /\ release
  /\ tpc' = IF mode = "active" THEN "reactivate" ELSE "quiet"
  /\ UNCHANGED <<config, spinning, node, lpc, running, stopReq, flags, device, service>>

\* activate() of the bus, which fails with some joints powered, or with none.
ActivateBus ==
  \/ mode = "active" /\ UNCHANGED <<mode, on>>
  \/ mode # "active" /\ mode' = "active" /\ on' = Joints
  \/ mode # "active" /\ mode' = "fault" /\ on' \in SUBSET Joints

\* ... and activates the bus, which does nothing to one that is active still.
LeaveAct ==
  /\ tpc \in {"reactivate", "quiet"} /\ tpc' = "leaving"
  /\ IF tpc = "reactivate"
     THEN ActivateBus
     ELSE mode' = "ready" /\ UNCHANGED on
  /\ UNCHANGED <<config, spinning, node, lpc, running, stopReq, flags, invited, stuck, service>>

Left ==
  /\ tpc = "leaving" /\ tpc' = "run"
  /\ request' = FALSE /\ release' = FALSE /\ ready' = FALSE
  /\ UNCHANGED <<config, spinning, node, lpc, running, stopReq, device, service>>

\* The head of the loop: a thread that is stopped in a pause leaves the flags as they are.
ThreadEnds ==
  /\ tpc \in {"run", "parked"} /\ stopReq /\ tpc' = "off"
  /\ UNCHANGED <<config, spinning, node, lpc, running, stopReq, flags, device, service>>

Tick == EnterPause \/ LeaveDecide \/ LeaveAct \/ Left \/ ThreadEnds

\* An estop, a command timeout or a fault of the device takes power.
PowerLost ==
  /\ on # {} /\ \E j \in on : on' = on \ {j}
  /\ UNCHANGED <<config, spinning, node, lpc, thread, flags, mode, invited, stuck, service>>

-----------------------------------------------------------------------------
(* Calls into the group.                                                   *)

\* pause() answers at once when nothing runs or the flag of a window stands.
Granted == ~running \/ ready

PauseFlags ==
  IF Granted THEN UNCHANGED flags ELSE request' = TRUE /\ release' = FALSE /\ UNCHANGED ready

\* blocking_op_allowed(): the tick thread, if any, has given the context away.
BlockingOpAllowed == ~running \/ ready

Resume == release' = TRUE /\ UNCHANGED <<request, ready>>

\* start(): the flags of the pause protocol stay as the last thread left them.
Start ==
  IF running THEN UNCHANGED thread ELSE running' = TRUE /\ stopReq' = FALSE /\ tpc' = "run"

\* A stop() that only lets the thread out of its pause.
StopOnlyReleases == UNCHANGED stopReq /\ release' = TRUE

\* stop(), first half.
StopCall ==
  IF ~running THEN UNCHANGED <<stopReq, release>> ELSE stopReq' = TRUE /\ release' = TRUE

\* A service that is served may restore what was on before, and a tick thread that has
\* found the bus active activates it.
Restores  == req.resume /\ was \ req.sel # {}
GivesBack == (spc # "idle" /\ Restores) \/ tpc = "reactivate"

\* A transition takes power: of a joint that it leaves on it is known who asked.
TransitionTakesPower == TakePower /\ invited' = ((invited /\ on' # {}) \/ GivesBack)

\* close() of the bus: power, context, HAL and lock.
Close ==
  /\ mode' = "idle" /\ open' = FALSE
  /\ IF onExit = "disable" THEN TransitionTakesPower /\ stuck' = (on' # {})
                           ELSE UNCHANGED <<on, invited, stuck>>

-----------------------------------------------------------------------------
(* Transitions.                                                            *)

\* create_entities() with create_services(), and their destruction: timers,
\* subscriptions, publishers, services, diagnostics.
CreateEntities  == up' = TRUE
DestroyEntities == up' = FALSE

May(p) == spinning /\ phase \in p /\ lpc = "idle"

\* on_configure(); when it fails it has given back what it had taken (BusLock).
OnConfigure ==
  /\ May({"unconfigured"}) /\ phase' = "inactive"
  /\ IF tg
     THEN UNCHANGED <<tg, open, flags, mode, stuck>>
     ELSE /\ tg' = TRUE /\ open' = TRUE /\ mode' = "ready" /\ stuck' = FALSE
          /\ request' = FALSE /\ release' = FALSE /\ ready' = FALSE
  /\ UNCHANGED <<config, spinning, lpc, up, thread, on, invited, service>>

\* on_activate() up to the pause, if joints are to be enabled.
OnActivate ==
  /\ May({"inactive"}) /\ Start /\ CreateEntities
  /\ IF autoEnable THEN lpc' = "activateCall" /\ UNCHANGED phase
                   ELSE phase' = "active" /\ UNCHANGED lpc
  /\ UNCHANGED <<config, spinning, tg, open, flags, device, service>>

\* Something throws while the entities are created; rclcpp makes it an ERROR.
ActivateThrows ==
  /\ May({"inactive"}) /\ Start
  /\ lpc' = "errorCall" /\ up' = FALSE
  /\ UNCHANGED <<config, spinning, phase, tg, open, flags, device, service>>

\* The call of pause() in a transition.
CallPause(at, wait) ==
  /\ lpc = at /\ lpc' = wait /\ PauseFlags
  /\ UNCHANGED <<config, spinning, node, thread, device, service>>

\* FAILURE after a pause() that timed out: the request stands.
PauseTimeout ==
  /\ lpc \in {"activatePause", "deactivatePause", "errorPause"} /\ ~Granted
  /\ lpc' = "idle"
  /\ phase' = IF lpc = "errorPause" THEN "finalized" ELSE phase
  /\ UNCHANGED <<config, spinning, tg, open, up, thread, flags, device, service>>

\* activate() of the group succeeds, fails, or is refused before it does anything.
Activated ==
  /\ \/ ActivateBus
     \/ mode # "active" /\ UNCHANGED <<on, mode>>
  /\ phase' = IF mode' = "active" THEN "active" ELSE phase

ActivateDone ==
  /\ lpc = "activatePause" /\ Granted /\ lpc' = "idle"
  /\ IF BlockingOpAllowed THEN Activated /\ invited' = TRUE /\ UNCHANGED stuck
                          ELSE UNCHANGED <<phase, device>>
  /\ Resume
  /\ UNCHANGED <<config, spinning, tg, open, up, thread, service>>

\* An on_deactivate() that leaves them to on_cleanup().
OnDeactivateServes ==
  /\ May({"active"}) /\ lpc' = "deactivateCall"
  /\ UNCHANGED <<config, spinning, node, thread, flags, device, service>>

\* on_deactivate() destroys topics, services and diagnostics before anything else.
OnDeactivate ==
  /\ May({"active"}) /\ lpc' = "deactivateCall" /\ DestroyEntities
  /\ UNCHANGED <<config, spinning, phase, tg, open, thread, flags, device, service>>

\* deactivate() of the group.
Disabled ==
  /\ TransitionTakesPower /\ UNCHANGED stuck
  /\ mode' = IF mode \in {"active", "fault"} THEN "ready" ELSE mode

\* ... then resume() and stop(), and the result.
DeactivateDone ==
  /\ lpc = "deactivatePause" /\ Granted
  /\ IF BlockingOpAllowed THEN Disabled /\ phase' = "inactive" ELSE UNCHANGED <<device, phase>>
  /\ lpc' = "deactivateJoin" /\ StopCall /\ release' = TRUE
  /\ UNCHANGED <<config, spinning, tg, open, up, running, tpc, request, ready, service>>

DeactivateJoined ==
  /\ lpc = "deactivateJoin" /\ tpc = "off" /\ lpc' = "idle" /\ running' = FALSE
  /\ UNCHANGED <<config, spinning, node, stopReq, tpc, flags, device, service>>

\* A transition that gives up the group: on_cleanup() and on_shutdown(), also the one
\* that main() triggers when spin() has returned, and the destructors of a node that
\* was finalized with its group.
GiveUp ==
  /\ \/ spinning /\ phase \in {"unconfigured", "inactive", "active"} /\ lpc = "idle"
     \/ ~spinning /\ lpc = "idle"
  /\ DestroyEntities
  /\ lpc' = IF tg THEN "giveUpJoin" ELSE "idle"
  /\ phase' \in IF phase = "inactive" /\ spinning THEN {"unconfigured", "finalized"} ELSE {"finalized"}
  /\ IF tg THEN StopCall ELSE UNCHANGED <<stopReq, release>>
  /\ UNCHANGED <<config, spinning, tg, open, running, tpc, request, ready, device, service>>

\* stop() that does not wait for the thread.
GaveUpUnjoined ==
  /\ lpc = "giveUpJoin" /\ lpc' = "idle"
  /\ running' = FALSE /\ tg' = FALSE /\ Close
  /\ UNCHANGED <<config, spinning, phase, up, stopReq, tpc, flags, service>>

\* The thread has ended; close_buses(on_exit), tg_.reset().
GaveUp ==
  /\ lpc = "giveUpJoin" /\ (running => tpc = "off") /\ lpc' = "idle"
  /\ running' = FALSE /\ tg' = FALSE /\ Close
  /\ UNCHANGED <<config, spinning, phase, up, stopReq, tpc, flags, service>>

\* on_error(), after an ERROR: the group stays, and ticks.
OnErrorDone ==
  /\ lpc = "errorPause" /\ Granted /\ lpc' = "idle"
  /\ IF BlockingOpAllowed THEN Disabled /\ phase' = "unconfigured"
                          ELSE UNCHANGED device /\ phase' = "finalized"
  /\ Resume
  /\ UNCHANGED <<config, spinning, tg, open, up, thread, service>>

\* SIGINT: spin() returns when its threads are done with what they were at.
Interrupt ==
  /\ spinning /\ lpc = "idle" /\ spc = "idle" /\ spinning' = FALSE
  /\ UNCHANGED <<config, node, lpc, thread, flags, device, service>>

TransitionStep ==
  \/ CallPause("activateCall", "activatePause") \/ CallPause("deactivateCall", "deactivatePause")
  \/ CallPause("errorCall", "errorPause") \/ PauseTimeout
  \/ ActivateDone \/ DeactivateDone \/ DeactivateJoined \/ GaveUp \/ OnErrorDone

Transition == OnConfigure \/ OnActivate \/ ActivateThrows \/ OnDeactivate \/ (GiveUp /\ spinning)

\* main() after spin().
Ending == GiveUp /\ ~spinning /\ (tg \/ phase # "finalized")

-----------------------------------------------------------------------------
(* A service.                                                              *)

OpenWindow(r) ==
  /\ spinning /\ up /\ spc = "idle"
  /\ spc' = "pause" /\ req' = r /\ was' = on /\ PauseFlags
  /\ UNCHANGED <<config, spinning, node, lpc, thread, device>>

ServiceReturns == spc' = "idle" /\ req' = NoRequest /\ was' = {}

WindowTimeout ==
  /\ spc = "pause" /\ ~Granted /\ ServiceReturns
  /\ UNCHANGED <<config, spinning, node, lpc, thread, flags, device>>

\* set_enabled() of a selection, which needs a mode other than active and idle.
SetEnabled(goal) ==
  IF mode \in {"active", "idle"}
  THEN UNCHANGED <<on, mode>>
  ELSE /\ on' \in {on, goal}
       /\ mode' = IF on' # {} THEN "active" ELSE mode

Serve ==
  /\ spc = "pause" /\ Granted /\ spc' = "close"
  /\ CASE req.op = "enable"  -> SetEnabled(on \cup req.sel) /\ invited' = TRUE
       [] req.op = "disable" -> SetEnabled(on \ req.sel) /\ UNCHANGED invited
       [] req.op = "look"    -> UNCHANGED device
  /\ UNCHANGED <<config, spinning, node, lpc, thread, flags, stuck, req, was>>

\* exit_window(): the joints that were not asked about get their power back.
CloseWindow ==
  /\ spc = "close" /\ ServiceReturns
  /\ IF tg /\ Restores THEN SetEnabled(on \cup (was \ req.sel)) ELSE UNCHANGED <<on, mode>>
  /\ IF tg THEN Resume ELSE UNCHANGED flags
  /\ UNCHANGED <<config, spinning, node, lpc, thread, invited, stuck>>

ServiceStep == WindowTimeout \/ Serve \/ CloseWindow

Next ==
  \/ Tick \/ PowerLost \/ Interrupt
  \/ Transition \/ TransitionStep \/ Ending
  \/ ServiceStep \/ \E r \in Requests : OpenWindow(r)

\* Each thread goes on with what it has begun: the tick thread has a deadline to wait
\* for, waiting calls have a time limit, and main() runs to its end.
Spec ==
  /\ Init /\ [][Next]_vars
  /\ WF_vars(Tick) /\ WF_vars(TransitionStep) /\ WF_vars(ServiceStep) /\ WF_vars(Ending)

-----------------------------------------------------------------------------
\* A node without a group has no tick thread, no bus and no lock, and with
\* on_exit=disable nothing is powered but what the call on exit did not reach, however
\* the group was lost ("`cleanup` ... 不会留下抱力关节", README; the destructors are the
\* last resort).
GoneIsReleased ==
  ~tg => tpc = "off" /\ ~open /\ (onExit = "disable" /\ ~stuck => on = {})

\* G6: a joint is powered only if somebody asked for it (SetEnabled or auto_enable)
\* since all power was last taken by on_deactivate(), on_error() or the exit action, or
\* was giving it back at that moment: a service that was served, or the tick thread.
PowerIsInvited == on # {} => invited

\* A transition takes the power of the joints when nobody is about to give it back:
\* does not hold, services have another callback group than transitions, and pause()
\* does not wait for a window that is being left.
TransitionsAreAlone == [][DeactivateDone \/ OnErrorDone => ~GivesBack]_vars

\* Services have a tick thread behind them, and only an interrupted transition
\* leaves a transition's node without its topics.
ServedByTick == up /\ lpc = "idle" => running /\ open

\* After SIGINT the process gives back the bus, in whatever state the node was, also
\* when a pause had timed out before and the tick thread is parked.
InterruptReleases == ~spinning ~> (~tg /\ phase = "finalized")

\* The tick thread takes the power of the joints for a caller only: does not hold with
\* safety.auto_enable after deactivate and activate, when the new thread finds the
\* request of the last window.  The log line of on_activate() says "joints enabled
\* (control frames start from the next cycle)".
PowerTakenForCallers == [][EnterPause /\ on # {} => lpc # "idle" \/ spc # "idle"]_vars
=============================================================================
