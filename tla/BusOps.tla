------------------------------- MODULE BusOps -------------------------------
(***************************************************************************)
(* The blocking operations of a bus (jr_bus_ops.cpp, and the service       *)
(* callbacks of jr_bus_services.cpp that call them), one step per call of  *)
(* the SDK: parameters read, written, read back and saved, zero, home,     *)
(* calibration, reset, fault reset, jog.                                   *)
(*                                                                         *)
(* Each call may fail, and one that fails may have been carried out: the   *)
(* reply is lost, or comes after the time-out.  What is left on the        *)
(* devices is set against what the answer says.  SafeWindow models what    *)
(* is done around an operation, the modes and the joints that are          *)
(* restored; here every window begins with the joints disabled.            *)
(*                                                                         *)
(* A device has one endpoint, in RAM and in flash, of a type that holds    *)
(* 0 .. Width - 1; a request may give a wider number.  A CONFIG_SAVE       *)
(* reboots its device, which comes back with what is in its flash.         *)
(***************************************************************************)
EXTENDS Naturals, Sequences

CONSTANTS
  N,             \* joints of the bus
  MitJoints,     \* the joints whose device speaks the MIT vocabulary
  Width,         \* values of the endpoint's type
  MaxItems,      \* bound on the items of a request
  MaxRequests    \* bound on the requests

ASSUME OpsAssumption ==
  /\ N \in Nat \ {0} /\ MitJoints \subseteq 1 .. N
  /\ Width \in Nat \ {0} /\ MaxItems \in Nat /\ MaxRequests \in Nat

Joints == 1 .. N
Stored == 0 .. Width - 1

VARIABLES
  allowFlash,    \* never changes: safety.allow_flash_persist
  live, flash,   \* the endpoint of each device
  power,         \* of each joint: what was asked of it and what it is
  calibrated,    \* pre_calibrated of each device
  flashSent,     \* history: the joints to which the request has sent what makes a device
                 \* write its flash
  report,        \* report_.joint[].calibrated: that the SDK has a scale for the joint
  req,           \* the request that is served, or was served last
  at, n,         \* the step, and the item or joint it is about
  res,           \* the result of each item
  done,          \* the joints the SDK said of that it was done
  persisted,     \* the items that are reported as persisted
  answer,        \* of the BusRuntime to the service
  requests

devices == <<live, flash, power, calibrated, flashSent>>
results == <<res, done, persisted, report>>
vars == <<allowFlash, devices, results, req, at, n, answer, requests>>

PerJoint == {"zero", "home", "nodeId", "calibrate", "reset"}
Ops == PerJoint \cup {"read", "write", "save", "faultReset", "jog"}

\* Joint 0 stands for an item whose joint or path is none of the bus.
Item == {i \in [joint : 0 .. N, given : 0 .. Width] : i.joint = 0 => i.given = 0}
Lists(S) == UNION {[1 .. k -> S] : k \in 1 .. MaxItems}
Selections == {s \in Lists(Joints) : \A k, l \in DOMAIN s : k < l => s[k] < s[l]}
Selection == {[k \in DOMAIN s |-> [joint |-> s[k], given |-> 0]] : s \in Selections}

OneJoint  == {s \in Selection : Len(s) = 1}

\* A value is given as text or as a number of the type that the client names.
Requests ==
  [op : {"write"}, items : Lists(Item), text : BOOLEAN, flag : BOOLEAN]
    \cup [op : {"read"}, items : Lists([joint : 0 .. N, given : {0}]), text : {FALSE}, flag : {FALSE}]
    \cup [op : (PerJoint \ {"nodeId"}) \cup {"save"}, items : Selection, text : {FALSE}, flag : {FALSE}]
    \cup [op : {"faultReset"}, items : Selection, text : {FALSE}, flag : BOOLEAN]
    \cup [op : {"nodeId"}, items : OneJoint, text : {FALSE}, flag : BOOLEAN]
    \cup [op : {"jog"}, items : OneJoint, text : {FALSE}, flag : {FALSE}]

NoRequest == [op |-> "read", items |-> <<>>, text |-> FALSE, flag |-> FALSE]

\* The requests that say that they write flash: persist=true, or SaveConfig itself.
Persists(r) == r.op = "save" \/ (r.op \in {"write", "nodeId"} /\ r.flag)

\* What is boxed for a typed number: a cast to the endpoint's type.
Requested(r, k) == r.items[k].given % Width

\* Text is parsed by the declared type; what does not fit is an error.
Unparsable(r) == r.op = "write" /\ r.text /\ \E k \in DOMAIN r.items : r.items[k].given >= Width

Init ==
  /\ allowFlash \in BOOLEAN
  /\ live = [j \in Joints |-> 0] /\ flash = [j \in Joints |-> 0]
  /\ power = [j \in Joints |-> "off"]
  /\ calibrated \in [Joints -> BOOLEAN] /\ report \in [Joints -> BOOLEAN] /\ flashSent = {}
  /\ req = NoRequest
  /\ at = "idle" /\ n = 1
  /\ res = <<>> /\ done = {} /\ persisted = {}
  /\ answer = "none" /\ requests = 0

-----------------------------------------------------------------------------
(* The service: gates, window, answer.                                     *)

FirstStep(op) ==
  CASE op \in PerJoint -> "each" [] op = "faultReset" -> "clear" [] op = "jog" -> "ask" [] OTHER -> op

GateCloses(r) == Persists(r) /\ ~allowFlash

\* What is refused at the gate opens no window; other requests find all joints disabled.
Refused(r) == GateCloses(r) \/ Unparsable(r) \/ (r.op = "jog" /\ ~report[r.items[1].joint])

Serve(r) ==
  /\ at = "idle" /\ answer = "none" /\ requests < MaxRequests /\ requests' = requests + 1
  /\ req' = r /\ n' = 1 /\ done' = {} /\ persisted' = {} /\ flashSent' = {}
  /\ res' = [k \in DOMAIN r.items |-> IF r.items[k].joint = 0 THEN "failed" ELSE "todo"]
  /\ power' = IF GateCloses(r) THEN power ELSE [j \in Joints |-> "off"]
  /\ IF Refused(r) THEN at' = "idle" /\ answer' = "refused"
     ELSE at' = FirstStep(r.op) /\ answer' = "none"
  /\ UNCHANGED <<live, flash, calibrated, report>>

Answer(a) == at' = "idle" /\ answer' = a /\ UNCHANGED n
Turn(to) == at' = to /\ n' = 1 /\ UNCHANGED answer
Stay == n' = n + 1 /\ UNCHANGED <<at, answer>>

Selected == {req.items[k].joint : k \in DOMAIN req.items}
Over(list) == n > Len(list)
Result(k, what) == res' = [res EXCEPT ![k] = what]
AnyItem(what) == \E k \in DOMAIN res : res[k] = what
Worst == IF AnyItem("failed") THEN "failed" ELSE IF AnyItem("unverified") THEN "unverified" ELSE "ok"

-----------------------------------------------------------------------------
(* Parameters.                                                             *)

\* read_params(): joint by joint, some items at a time, each with its own status.
Read ==
  /\ at = "read"
  /\ \E got \in [DOMAIN res -> {"ok", "failed"}] :
       res' = [k \in DOMAIN res |-> IF req.items[k].joint = n THEN got[k] ELSE res[k]]
  /\ IF n < N THEN Stay
     ELSE at' = "idle" /\ UNCHANGED n
          /\ answer' = IF \E k \in DOMAIN res : res'[k] = "failed" THEN "failed" ELSE "ok"
  /\ UNCHANGED <<devices, done, persisted, report>>

\* A write_params() that takes the value it wrote for the one it would read back.
WriteItemTrusts ==
  /\ at = "write" /\ ~Over(req.items) /\ Stay
  /\ IF res[n] = "failed" THEN UNCHANGED <<live, res>>
     ELSE LET j == req.items[n].joint IN
          \/ Result(n, "failed") /\ UNCHANGED live
          \/ \E w \in Stored : live' = [live EXCEPT ![j] = w] /\ Result(n, "verified")
  /\ UNCHANGED <<flash, flashSent, power, calibrated, done, persisted, report>>

\* write_params() for one item.  It is refused by the descriptor or by the device,
\* or its reply is lost; or it is accepted, and is read back, or cannot be.  A device
\* may store another value, or consume what it is given.
WriteItem ==
  /\ at = "write" /\ ~Over(req.items) /\ Stay
  /\ IF res[n] = "failed" THEN UNCHANGED <<live, res>>
     ELSE LET j == req.items[n].joint
              v == Requested(req, n) IN
          \/ /\ Result(n, "failed") /\ live' \in {live, [live EXCEPT ![j] = v]}
          \/ \E w \in Stored :
               /\ live' = [live EXCEPT ![j] = w]
               /\ \/ Result(n, "unverified")
                  \/ w = v /\ Result(n, "verified")
                  \/ w # v /\ Result(n, "consumed")
  /\ UNCHANGED <<flash, flashSent, power, calibrated, done, persisted, report>>

\* A write_params() that persists what was accepted although something was not.
WriteDoneSaves ==
  /\ at = "write" /\ Over(req.items)
  /\ IF req.flag THEN Turn("save") ELSE Answer(Worst)
  /\ UNCHANGED <<devices, results>>

\* Only if nothing failed is there something to persist.
WriteDone ==
  /\ at = "write" /\ Over(req.items)
  /\ IF req.flag /\ ~AnyItem("failed") THEN Turn("save") ELSE Answer(Worst)
  /\ UNCHANGED <<devices, results>>

\* A write persists all the joints of the bus.
SaveList == IF req.op = "write" THEN [k \in Joints |-> k] ELSE [k \in DOMAIN req.items |-> req.items[k].joint]

\* The device starts again with what is in its flash; what calibration that is, is not
\* modelled.
Reboots(j) ==
  /\ live' = [live EXCEPT ![j] = flash'[j]]
  /\ \E c \in BOOLEAN : calibrated' = [calibrated EXCEPT ![j] = c]

\* save_config() for one joint.  It is saved and the device comes back as it was; or the
\* reply is lost, usually because the device reboots, or it is refused, and whether it
\* has rebooted, and with which flash, is not known.  The joints after it are not saved.
SaveJoint ==
  /\ at = "save" /\ ~Over(SaveList)
  /\ LET j == SaveList[n]
         saved == [flash EXCEPT ![j] = live[j]] IN
     /\ flashSent' = flashSent \cup {j}
     /\ \/ flash' = saved /\ done' = done \cup {j} /\ Stay /\ UNCHANGED <<live, calibrated>>
        \/ /\ \/ flash' \in {flash, saved} /\ Answer("unverified")
              \/ flash' = flash /\ Answer("failed")
           /\ Reboots(j) \/ UNCHANGED <<live, calibrated>>
           /\ UNCHANGED done
  /\ UNCHANGED <<power, res, persisted, report>>

\* A write_params() that reports every item as persisted.
SaveDoneAll ==
  /\ at = "save" /\ Over(SaveList)
  /\ persisted' = IF req.op = "write" THEN DOMAIN res ELSE {}
  /\ Answer(IF req.op = "write" THEN Worst ELSE "ok")
  /\ UNCHANGED <<devices, res, done, report>>

\* The items that are OK are persisted.
SaveDone ==
  /\ at = "save" /\ Over(SaveList)
  /\ persisted' = IF req.op = "write" THEN {k \in DOMAIN res : res[k] \in {"verified", "consumed"}} ELSE {}
  /\ Answer(IF req.op = "write" THEN Worst ELSE "ok")
  /\ UNCHANGED <<devices, res, done, report>>

-----------------------------------------------------------------------------
(* Zero, home, address, calibration, reset: the joints one after the other *)
(* until one fails.                                                        *)

\* What the call for joint j makes its device write to flash: a node id that is to persist,
\* alone or with the rest of the configuration, and a zero in the MIT vocabulary
\* (joint_status_flags_text()), which has a place of its own.
WritesFlash(j) == (req.op = "nodeId" /\ req.flag) \/ (req.op = "zero" /\ j \in MitJoints)

\* What the call for joint j does to its device: a calibration that has run need not
\* have taken, a device that is reset has what is in its flash.
Effect(j) ==
  /\ flashSent' = IF WritesFlash(j) THEN flashSent \cup {j} ELSE flashSent
  /\ \/ flash' = flash
     \/ req.op = "nodeId" /\ req.flag /\ flash' = [flash EXCEPT ![j] = live[j]]
  /\ CASE req.op = "calibrate" ->
              UNCHANGED live /\ \E c \in BOOLEAN : calibrated' = [calibrated EXCEPT ![j] = c]
       [] req.op \in {"reset", "faultReset"} -> Reboots(j)
       [] OTHER -> UNCHANGED <<live, calibrated>>
  /\ UNCHANGED power

\* A loop that passes over the joint that fails.
EachJointOn ==
  /\ at = "each" /\ ~Over(req.items) /\ Stay
  /\ LET j == req.items[n].joint IN
     \/ Effect(j) /\ done' = done \cup {j}
     \/ (Effect(j) \/ UNCHANGED devices) /\ UNCHANGED done
  /\ UNCHANGED <<res, persisted, report>>

EachJoint ==
  /\ at = "each" /\ ~Over(req.items)
  /\ LET j == req.items[n].joint IN
     \/ Effect(j) /\ done' = done \cup {j} /\ Stay
     \/ (Effect(j) \/ UNCHANGED devices) /\ UNCHANGED done /\ Answer("failed")
  /\ UNCHANGED <<res, persisted, report>>

EachDone ==
  /\ at = "each" /\ Over(req.items)
  /\ CASE req.op = "calibrate" -> Turn("flags")
       [] req.op \in {"reset", "faultReset"} -> Turn("configure")
       [] OTHER -> Answer("ok")
  /\ UNCHANGED <<devices, results>>

\* read_back_after_configure(): joint by joint, whether the SDK has a scale, which is not
\* the flag of the device; a limit outside of the range of a joint ends it there, and
\* calibrate() does not look at that.
ReadBack == report' \in [Joints -> BOOLEAN]

\* calibrate(): the flags are read back, up to the first that is not set or that
\* cannot be read; what configure() would report is read again in any case.
ReadFlag ==
  /\ at = "flags" /\ ~Over(req.items)
  /\ \/ calibrated[req.items[n].joint] /\ Stay /\ UNCHANGED report
     \/ Answer("unverified") /\ ReadBack
  /\ UNCHANGED <<devices, res, done, persisted>>

FlagsDone ==
  /\ at = "flags" /\ Over(req.items) /\ Answer("ok") /\ ReadBack
  /\ UNCHANGED <<devices, res, done, persisted>>

\* After a reset the service configures the buses; the answer is that of the reset.
Reconfigure ==
  /\ at = "configure" /\ Answer("ok") /\ ReadBack
  /\ UNCHANGED <<devices, res, done, persisted>>

\* fault_reset(): all the joints, whether or not one fails; then, if the request
\* allows it, all of them are reset.
ClearFault ==
  /\ at = "clear" /\ ~Over(req.items) /\ Stay
  /\ \/ done' = done \cup {req.items[n].joint} /\ UNCHANGED res
     \/ Result(n, "failed") /\ UNCHANGED done
  /\ UNCHANGED <<devices, persisted, report>>

ClearDone ==
  /\ at = "clear" /\ Over(req.items)
  /\ IF ~AnyItem("failed") THEN Answer("ok") /\ UNCHANGED done
     ELSE IF req.flag THEN Turn("each") /\ done' = {}
     ELSE Answer("failed") /\ UNCHANGED done
  /\ UNCHANGED <<devices, res, persisted, report>>

-----------------------------------------------------------------------------
(* jog(): enable, hold, disable, by cycles that it runs itself.            *)

Jogged == req.items[1].joint
Powered(j, what) == power' = [power EXCEPT ![j] = what]
JogStep(from, to) == at = from /\ at' = to /\ UNCHANGED <<n, answer, live, flash, flashSent, calibrated, results>>

JogAsk == JogStep("ask", "enabling") /\ Powered(Jogged, "asked")

JogEnabled == JogStep("enabling", "hold") /\ power[Jogged] = "on" /\ UNCHANGED power

\* No joint after 300 ms: the operation is given up, the request to the SDK stands.
JogGivesUp ==
  /\ at = "enabling" /\ power[Jogged] # "on" /\ Answer("failed")
  /\ UNCHANGED <<devices, results>>

JogRelease == JogStep("hold", "disabling") /\ Powered(Jogged, IF power[Jogged] = "on" THEN "stopping" ELSE "off")

\* A jog() that does not look whether the joint is off.
JogEndsBlind ==
  /\ at = "disabling" /\ Answer("ok")
  /\ UNCHANGED <<devices, results>>

\* The joint is off, or still on after 300 ms.
JogEnds ==
  /\ at = "disabling" /\ Answer(IF power[Jogged] = "off" THEN "ok" ELSE "unverified")
  /\ UNCHANGED <<devices, results>>

\* Cycles run in jog() and outside of the windows: what was asked of a joint happens.
Cycling == at \in {"idle", "enabling", "hold", "disabling"}

PowerStep(j) ==
  /\ Cycling
  /\ \/ power[j] = "asked" /\ Powered(j, "on")
     \/ power[j] \in {"on", "stopping"} /\ Powered(j, "off")
  /\ UNCHANGED <<live, flash, flashSent, calibrated, results, req, at, n, answer, requests>>

\* The callback returns, and with it what it knows of its request.
Return ==
  /\ at = "idle" /\ answer # "none" /\ requests < MaxRequests
  /\ answer' = "none" /\ req' = NoRequest /\ n' = 1
  /\ res' = <<>> /\ done' = {} /\ persisted' = {} /\ flashSent' = {}
  /\ UNCHANGED <<live, flash, power, calibrated, report, at, requests>>

\* A device is switched off and on between two requests.
PowerCycle(j) ==
  /\ at = "idle" /\ answer = "none" /\ requests < MaxRequests
  /\ UNCHANGED <<flash, flashSent, results, req, at, n, answer, requests>>
  /\ Reboots(j) /\ Powered(j, "off")

OpStep ==
  \/ Read \/ WriteItem \/ WriteDone \/ SaveJoint \/ SaveDone
  \/ EachJoint \/ EachDone \/ ReadFlag \/ FlagsDone \/ Reconfigure \/ ClearFault \/ ClearDone
  \/ JogAsk \/ JogEnabled \/ JogGivesUp \/ JogRelease \/ JogEnds

Next ==
  /\ \/ \E r \in Requests : Serve(r)
     \/ Return
     \/ OpStep /\ UNCHANGED <<req, requests>>
     \/ \E j \in Joints : PowerStep(j) \/ PowerCycle(j)
  /\ UNCHANGED allowFlash

Spec == Init /\ [][Next]_vars

-----------------------------------------------------------------------------
Answered == answer \notin {"none", "refused"}

\* Item k is the last one for its joint.
Final(k) == \A l \in DOMAIN res : l > k => req.items[l].joint # req.items[k].joint

\* The joints whose CONFIG_SAVE was not acknowledged.
Unsure == flashSent \ done

\* What is reported as verified is in the device when the request is answered, unless
\* a later item of the request has changed it, or the device was to save it and may have
\* rebooted without ("读不回来就明说", jr_bus_ops.cpp).
VerifiedIsLive ==
  Answered /\ req.op = "write" =>
    \A k \in DOMAIN res :
      res[k] = "verified" /\ Final(k) /\ req.items[k].joint \notin Unsure =>
        live[req.items[k].joint] = Requested(req, k)

\* What is reported as persisted and was verified is in the flash, and in the device,
\* which has rebooted with it.
PersistedIsInFlash ==
  Answered => \A k \in persisted :
    /\ res[k] # "unverified"
    /\ res[k] = "verified" /\ Final(k) =>
         \A memory \in {flash, live} : memory[req.items[k].joint] = Requested(req, k)

\* Flash is written by nothing but a request that says so, where the configuration
\* allows it, and not if an item of the request has failed ("避免写了一半就存进 Flash"),
\* with one exception that the configuration has no say in: a zero that is set in the
\* MIT vocabulary.
FlashOnDemand ==
  [][\A j \in Joints : flash'[j] # flash[j] \/ j \in flashSent' \ flashSent =>
       \/ allowFlash /\ Persists(req) /\ ~AnyItem("failed")
       \/ req.op = "zero" /\ j \in MitJoints]_vars

\* Setting a zero writes no flash ("**不落 Flash**", SetZero.srv, which always answers
\* persisted=false): does not hold of a device of the MIT vocabulary as the comments on
\* ZERO_PENDING_REBOOT describe it (joint_status_flags_text(), JointFeedback.msg).
ZeroSparesFlash == req.op = "zero" => flashSent = {}

\* An operation that answers OK has been carried out for every joint it was asked for,
\* and a calibration that does has been read back from every device.
OkIsWhole ==
  answer = "ok" =>
    /\ req.op \in {"read", "write"} => ~AnyItem("failed") /\ ~AnyItem("todo")
    /\ req.op \in PerJoint \cup {"save", "faultReset"} => Selected \subseteq done
    /\ req.op = "calibrate" => \A j \in Selected : calibrated[j]

\* A calibration that answers OK is reported for each joint: does not hold, the report
\* is of the scales, and may have ended at an earlier joint; the service then answers
\* that it failed.
OkIsReported == answer = "ok" /\ req.op = "calibrate" => \A j \in Selected : report[j]

\* What is reported as verified is in the device in any case: does not hold if the
\* CONFIG_SAVE after it was not acknowledged.
VerifiedSurvivesSave ==
  Answered /\ req.op = "write" =>
    \A k \in DOMAIN res : res[k] = "verified" /\ Final(k) => live[req.items[k].joint] = Requested(req, k)

\* A jog that answers OK leaves the joint off ("disabled again (safe state)").
JogOkIsOff == answer = "ok" /\ req.op = "jog" => power[Jogged] = "off"

\* After a jog that was "aborted before any motion" the joint is not enabled: does not
\* hold, the request to enable it is not withdrawn.
AbortedIsOff == answer = "failed" /\ req.op = "jog" => power[Jogged] # "on"

\* A number that the endpoint cannot hold is not reported as verified ("超值域 ... 一律拒绝"):
\* does not hold for a typed value.
VerifiedIsGiven ==
  Answered /\ req.op = "write" =>
    \A k \in DOMAIN res : res[k] = "verified" => Requested(req, k) = req.items[k].given

\* The joints that Calibrate reports as verified have been calibrated by this request:
\* does not hold after a failure, the report is then the one of the last configure().
CalibratedNow ==
  Answered /\ req.op = "calibrate" => \A j \in Selected : report[j] => j \in done

\* Values that "will be lost on power cycle" are not in the flash: does not hold if
\* the verification of CONFIG_SAVE timed out.
LostIsNotInFlash ==
  [][req.op = "write" /\ at = "save" /\ answer' \in {"unverified", "failed"} /\ ~Over(SaveList)
       => flash' = flash]_vars
=============================================================================
