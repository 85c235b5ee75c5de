----------------------------- MODULE SafeWindow -----------------------------
(***************************************************************************)
(* What a safe pause window does to the buses of a tick group: the mode of *)
(* each BusRuntime, the joints that are powered, and what a service        *)
(* restores (src/jr_ros2/src/ros/jr_bus_services.cpp, .../rt/              *)
(* jr_bus_runtime.cpp, jr_bus_ops.cpp, jr_tick_group.cpp).                 *)
(*                                                                         *)
(* TickPause models how the context changes hands.  Here the hand-over is  *)
(* one step, one request is served at a time, and the question is what the *)
(* request and its window leave behind.                                    *)
(***************************************************************************)
EXTENDS Naturals

CONSTANTS
  N,                  \* the number of buses of the group
  Joints,             \* the joints of the group
  BusOf,              \* [Joints -> buses]
  Own,                \* bus_in_group_: the bus whose services are modelled
  Calibrated,         \* the joints that are calibrated at the start
  RequireCalibrated   \* safety.require_calibrated

Buses == 1 .. N
JointsOf(b) == {j \in Joints : BusOf[j] = b}

ASSUME WindowAssumption ==
  /\ N \in Nat /\ Own \in Buses
  /\ BusOf \in [Joints -> Buses]
  /\ Calibrated \subseteq Joints
  /\ RequireCalibrated \in BOOLEAN

VARIABLES
  mode,        \* mode_ of each bus
  on,          \* the joints that are powered (jsdk_joint_is_enabled)
  loaded,      \* the buses whose endpoint table and ranges belong to the devices
  calibrated,  \* report_.joint[].calibrated
  phase,       \* how far the window is
  req,         \* the request that is served: operation, selected joints, resume flag
  wasEnabled,  \* Guard::was_enabled
  before,      \* history: the joints of the group that were powered at enter_window()
  powerFailed, \* history: the buses on which a call that switches power failed since one
               \* last took all of it away
  loadFailed   \* history: the buses whose last reset, import or configure() failed

windowVars == <<mode, on, loaded, calibrated, phase, req, wasEnabled, before,
                powerFailed, loadFailed>>
power  == <<mode, on, powerFailed>>
table  == <<loaded, loadFailed>>
served == <<req, wasEnabled, before>>

Modes == {"idle", "ready", "active", "paused", "fault"}
Phases == {"run", "peeked", "open", "closing", "leaving"}

\* "params" stands for the requests that select joints and change nothing here
\* (parameters, home, set zero, save), "look" for those that select none; "poll" is
\* the timer that reads endpoints.
ResumeAlways == {"params", "calibrate", "look", "poll"}
ResumeNever  == {"reset", "faultReset", "nodeId", "jog", "import"}
ResumeAsked  == {"enable", "disable"}
LifecycleCalls    == {"groupEnable", "groupDisable"}
Operations   == ResumeAlways \cup ResumeNever \cup ResumeAsked \cup LifecycleCalls

\* The lifecycle callbacks open a window without a Guard: nothing is restored.
Requests ==
  {r \in [op : Operations, sel : SUBSET JointsOf(Own), resume : BOOLEAN] :
     /\ r.op \in ResumeAlways => r.resume
     /\ r.op \in ResumeNever \cup LifecycleCalls => ~r.resume
     /\ (r.sel = {}) <=> (r.op \in {"look", "poll", "import"} \cup LifecycleCalls)
     /\ r.op \in {"jog", "nodeId"} => \E j \in Joints : r.sel = {j}}

\* The joints a request asks to power.
Asked(r) ==
  IF r.op \in {"enable", "jog"} THEN r.sel ELSE IF r.op = "groupEnable" THEN Joints ELSE {}

WindowInit ==
  /\ mode = [b \in Buses |-> "ready"]
  /\ on = {}
  /\ loaded = Buses
  /\ calibrated = Calibrated
  /\ phase = "run"
  /\ req = [op |-> "look", sel |-> {}, resume |-> TRUE]
  /\ wasEnabled = {}
  /\ before = {}
  /\ powerFailed = {} /\ loadFailed = {}

-----------------------------------------------------------------------------
(* Outside the window.                                                     *)

\* An estop, a timeout that disables, or a device fault: power goes, the mode stays.
PowerLost ==
  /\ phase \in {"run", "peeked"}
  /\ \E lost \in SUBSET on \ {{}} : on' = on \ lost
  /\ UNCHANGED <<mode, powerFailed, table, calibrated, phase, served>>

\* poll_feedback() leaves a bus alone that has a powered joint.
PollMay == on \cap JointsOf(Own) = {}

\* enter_window() asks the running group which joints are enabled.
Peek(r) ==
  /\ phase = "run"
  /\ r.op = "poll" => PollMay
  /\ phase' = "peeked"
  /\ req' = r
  /\ wasEnabled' = IF r.op \in LifecycleCalls THEN {} ELSE on \cap JointsOf(Own)
  /\ before' = on
  /\ UNCHANGED <<power, table, calibrated>>

\* The buses that have a joint of a set.
BusesOf(joints) == {b \in Buses : joints \cap JointsOf(b) # {}}

\* deactivate() of every bus: what the SDK answers is not looked at, and what it did not
\* switch off stays powered.
DeactivateAll == \E left \in SUBSET on : on' = left /\ powerFailed' = BusesOf(left)

\* pause(): the tick thread deactivates every bus and marks it paused.
EnterPause ==
  /\ phase = "peeked"
  /\ phase' = "open"
  /\ DeactivateAll
  /\ mode' = [b \in Buses |-> "paused"]
  /\ UNCHANGED <<table, calibrated, served>>

-----------------------------------------------------------------------------
(* Inside the window.  Any call of the SDK may fail, half done: `got` are  *)
(* the joints to which it was done.                                        *)

OpsWindowOk == mode[Own] \notin {"active", "idle"}

\* set_enabled() puts its bus in the mode that the joints are read back in.
ModeReadBack(m, powered) ==
  [m EXCEPT ![Own] = IF powered \cap JointsOf(Own) # {} THEN "active"
                     ELSE IF @ = "active" THEN "ready" ELSE @]

MayEnable(sel) == OpsWindowOk /\ (RequireCalibrated => sel \subseteq calibrated)

\* What is powered on the bus becomes `powered`, and some of what was asked is not done.
Switch(powered, allDone) ==
  /\ on' = powered
  /\ mode' = ModeReadBack(mode, powered)
  /\ powerFailed' = IF allDone THEN powerFailed ELSE powerFailed \cup {Own}

EnableSubset(sel) ==
  IF MayEnable(sel) THEN \E got \in SUBSET sel : Switch(on \cup got, got = sel) ELSE UNCHANGED power

DisableSubset(sel) ==
  IF OpsWindowOk THEN \E got \in SUBSET sel : Switch(on \ got, got = sel) ELSE UNCHANGED power

\* The devices were reset, or have a new descriptor, and the window just goes on.
ForgetConfigure(m, l) == mode' = [m EXCEPT ![Own] = "ready"] /\ loaded' = l /\ UNCHANGED loadFailed

\* configure_buses(): one bus after the other, until one fails.  `m` and `l` are
\* the modes and the endpoint tables it starts from.
ConfigureBuses(m, l) ==
  \E k \in 0 .. N :
    /\ mode'   = [b \in Buses |-> IF b <= k THEN "ready" ELSE m[b]]
    /\ loaded' = l \cup 1 .. k
    /\ loadFailed' = (loadFailed \cup (IF k < N THEN {Own} ELSE {})) \ 1 .. k

\* The bus keeps its mode, and an endpoint table that is not of its devices any more.
TableLost == UNCHANGED mode /\ loaded' = loaded \ {Own} /\ loadFailed' = loadFailed \cup {Own}

\* reset_device(), and configure_buses() once all the devices were reset.
ResetDevices(sel) ==
  /\ UNCHANGED powerFailed
  /\ IF OpsWindowOk
     THEN \E got \in SUBSET sel :
            /\ on' = on \ got
            /\ \/ got = sel /\ ConfigureBuses([mode EXCEPT ![Own] = "idle"], loaded \ {Own})
               \/ got \notin {{}, sel} /\ TableLost
               \/ got = {} /\ UNCHANGED <<mode, table>>
     ELSE UNCHANGED <<on, mode, table>>

\* import_descriptor(), rolled back or not, and configure_buses() if there is
\* anything to parse.
ImportDescriptor ==
  /\ UNCHANGED <<on, powerFailed>>
  /\ \/ ConfigureBuses([mode EXCEPT ![Own] = "idle"], loaded \ {Own})
     \/ TableLost

\* jog(): the joint may be left enabled, or may not have been enabled in time.
JogJoint(sel) ==
  /\ UNCHANGED mode
  /\ \/ UNCHANGED <<on, powerFailed>>
     \/ /\ OpsWindowOk /\ sel \subseteq calibrated
        /\ on' = on \cup sel /\ powerFailed' = powerFailed \cup {Own}

\* BusRuntime::activate() gets as far as the SDK.
Activates(b, requireCalibrated) ==
  /\ mode[b] \in {"ready", "fault", "paused"}
  /\ requireCalibrated => JointsOf(b) \subseteq calibrated

UpTo(b) == UNION {JointsOf(k) : k \in 1 .. b}

\* The buses before bus b, which were activated, are taken back: `left` stays powered
\* there.  Of the joints of bus b `got` is powered.
TakenBack(b, left, got) ==
  /\ on' = (on \ UpTo(b - 1)) \cup left \cup got
  /\ powerFailed' = (powerFailed \ 1 .. b - 1) \cup BusesOf(left \cup got)

\* TickGroup::activate(): the buses before the one that fails are taken back.
ActivateGroup ==
  \/ /\ \A b \in Buses : Activates(b, RequireCalibrated)
     /\ on' = Joints /\ mode' = [b \in Buses |-> "active"] /\ UNCHANGED powerFailed
  \/ \E b \in Buses : \E left \in SUBSET UpTo(b - 1) :
       /\ \A k \in 1 .. b - 1 : Activates(k, RequireCalibrated)
       /\ \/ /\ ~Activates(b, RequireCalibrated)
             /\ TakenBack(b, left, {})
             /\ mode' = [k \in Buses |-> IF k < b THEN "ready" ELSE mode[k]]
          \/ /\ Activates(b, RequireCalibrated)
             /\ \E got \in SUBSET JointsOf(b) : TakenBack(b, left, got)
             /\ mode' = [k \in Buses |-> IF k < b THEN "ready" ELSE IF k = b THEN "fault" ELSE mode[k]]

\* TickGroup::deactivate().
DeactivateGroup ==
  /\ DeactivateAll
  /\ mode' = [b \in Buses |-> IF mode[b] \in {"active", "fault"} THEN "ready" ELSE mode[b]]

OpenTo(next) == phase = "open" /\ phase' = next /\ UNCHANGED served

ServeEnable ==
  /\ req.op = "enable" /\ OpenTo("closing")
  /\ EnableSubset(req.sel) /\ UNCHANGED <<table, calibrated>>

ServeDisable ==
  /\ req.op = "disable" /\ OpenTo("closing")
  /\ DisableSubset(req.sel) /\ UNCHANGED <<table, calibrated>>

ServeQuiet ==
  /\ req.op \in {"params", "look", "nodeId"} /\ OpenTo("closing")
  /\ UNCHANGED <<power, table, calibrated>>

\* What was read goes into the snapshots, or nothing does.
ServePoll ==
  /\ req.op = "poll" /\ OpenTo("closing")
  /\ UNCHANGED <<power, table, calibrated>>

ServeCalibrate ==
  /\ req.op = "calibrate" /\ OpenTo("closing")
  /\ \E got \in SUBSET req.sel : calibrated' = IF OpsWindowOk THEN calibrated \cup got ELSE calibrated
  /\ UNCHANGED <<power, table>>

ServeReset ==
  /\ req.op = "reset" /\ OpenTo("closing")
  /\ ResetDevices(req.sel) /\ UNCHANGED calibrated

\* A fault that does not clear is answered by a device reset, if that is allowed.
ServeFaultReset ==
  /\ req.op = "faultReset" /\ OpenTo("closing")
  /\ UNCHANGED <<power, table>> \/ ResetDevices(req.sel)
  /\ UNCHANGED calibrated

ServeJog ==
  /\ req.op = "jog" /\ OpenTo("closing")
  /\ JogJoint(req.sel) /\ UNCHANGED <<table, calibrated>>

ServeImport ==
  /\ req.op = "import" /\ OpenTo("closing")
  /\ ImportDescriptor /\ UNCHANGED calibrated

ServeGroupEnable ==
  /\ req.op = "groupEnable" /\ OpenTo("leaving")
  /\ ActivateGroup /\ UNCHANGED <<table, calibrated>>

ServeGroupDisable ==
  /\ req.op = "groupDisable" /\ OpenTo("leaving")
  /\ DeactivateGroup /\ UNCHANGED <<table, calibrated>>

\* exit_window() that forgets which joints the request was about.
RestoreAll ==
  /\ phase = "closing" /\ phase' = "leaving"
  /\ IF wasEnabled # {} THEN EnableSubset(wasEnabled) ELSE UNCHANGED power
  /\ UNCHANGED <<table, calibrated, served>>

\* exit_window() that takes every Guard for one that is not told to resume.
RestoreNothing ==
  /\ phase = "closing" /\ phase' = "leaving"
  /\ UNCHANGED <<power, table, calibrated, served>>

\* exit_window(): what was enabled before, without the joints of the request.
Restore ==
  /\ phase = "closing" /\ phase' = "leaving"
  /\ IF req.resume /\ wasEnabled \ req.sel # {}
     THEN EnableSubset(wasEnabled \ req.sel)
     ELSE UNCHANGED power
  /\ UNCHANGED <<table, calibrated, served>>

-----------------------------------------------------------------------------
(* resume(): the tick thread leaves the pause.                             *)

\* leave_pause() when a bus is active: every bus is activated, and an active one
\* says that it is.  Of the buses `half` the SDK activates some joints only.
ReactivateAll ==
  LET can == {b \in Buses : Activates(b, TRUE)} IN
  \E half \in SUBSET can :
    /\ \E got \in SUBSET (UNION {JointsOf(b) : b \in half}) :
         on' = on \cup got \cup UNION {JointsOf(b) : b \in can \ half}
    /\ mode' = [b \in Buses |-> IF mode[b] = "active" \/ b \in can \ half THEN "active" ELSE "fault"]
    /\ powerFailed' = powerFailed \cup half

AllReady == mode' = [b \in Buses |-> "ready"] /\ UNCHANGED <<on, powerFailed>>

\* leave_pause() that takes every bus to READY.
LeaveAlwaysReady ==
  /\ phase = "leaving" /\ phase' = "run"
  /\ AllReady
  /\ UNCHANGED <<table, calibrated, served>>

LeavePause ==
  /\ phase = "leaving" /\ phase' = "run"
  /\ IF \E b \in Buses : mode[b] = "active" THEN ReactivateAll ELSE AllReady
  /\ UNCHANGED <<table, calibrated, served>>

Serve ==
  \/ ServeEnable \/ ServeDisable \/ ServeQuiet \/ ServePoll \/ ServeCalibrate \/ ServeReset
  \/ ServeFaultReset \/ ServeJog \/ ServeImport \/ ServeGroupEnable \/ ServeGroupDisable

WindowNext ==
  \/ PowerLost \/ \E r \in Requests : Peek(r)
  \/ EnterPause \/ Serve \/ Restore \/ LeavePause

WindowSpec == WindowInit /\ [][WindowNext]_windowVars

-----------------------------------------------------------------------------
\* The values of the variables; only a window shows the mode PAUSED.
WindowTypeOK ==
  /\ mode \in [Buses -> IF phase \in {"run", "peeked"} THEN Modes \ {"paused"} ELSE Modes]
  /\ on \subseteq Joints /\ calibrated \subseteq Joints
  /\ loaded \subseteq Buses
  /\ phase \in Phases
  /\ req \in Requests
  /\ wasEnabled \subseteq JointsOf(Own) /\ before \subseteq Joints
  /\ powerFailed \subseteq Buses /\ loadFailed \subseteq Buses

\* The joints that may be powered when a request was served: those that it asks to
\* power and, if it resumes, those that were powered before it and that it was not
\* about.
Invited == Asked(req) \cup (IF req.resume THEN before \ req.sel ELSE {})

\* After a window, no joint of the bus of the request is powered uninvited, whichever
\* calls of the SDK failed; when the one that takes the power away did, a joint may be
\* powered that was powered before, and no other.
OwnPowerInvited ==
  phase = "run" =>
    on \cap JointsOf(Own) \subseteq Invited \cup (IF Own \in powerFailed THEN before ELSE {})

\* After a window, no joint of any bus of the group is powered uninvited: does not hold,
\* leave_pause() activates all the buses once one is active.
NoUninvitedPower == phase = "run" /\ powerFailed = {} => on \subseteq Invited

\* The timer never takes the power of a joint ("宁可不给轮询值，也不去动一个正在动的关节",
\* poll_feedback()): does not hold, it looks at its own bus and pauses all of the group.
PollTakesNoPower == [][EnterPause /\ req.op = "poll" => on = {}]_windowVars

\* A powered joint shows in the mode of its bus, by which close() and the next window
\* decide whether there is anything to make safe, unless a call that switches power
\* failed on that very bus since one last took all of its power away.
PoweredIsVisible ==
  phase = "run" =>
    \A b \in BusesOf(on) \ powerFailed : mode[b] \in {"active", "fault"}

\* A bus that is ready or active has an endpoint table that belongs to its devices,
\* unless the last reset, import or configure() of its devices failed.
ReadyIsLoaded ==
  \A b \in Buses \ loadFailed : mode[b] \in {"ready", "active"} => b \in loaded

\* When the window of a request that resumes is left, the joints of the bus of the request
\* that were enabled before it and that it was not about are enabled again, if no call that
\* switches power failed on that bus, and unless the request enables (its bus is active
\* then, and the enabling of the others is refused).
OthersRestored ==
  [][LeavePause /\ req.resume /\ req.op # "enable" /\ Own \notin powerFailed'
       => wasEnabled \ req.sel \subseteq on']_windowVars

\* The same of all the joints that the window took the power of: does not hold, pause()
\* takes it on every bus of the group, and exit_window() restores the bus of the request.
AllRestored ==
  [][LeavePause /\ req.resume /\ req.op # "enable" /\ powerFailed' = {}
       => before \ req.sel \subseteq on']_windowVars
=============================================================================
