---------------------------- MODULE CommandGate ----------------------------
(***************************************************************************)
(* The way of a command from a ROS callback to the frames of a bus: the    *)
(* checks of the topic callbacks, the latest-value mailbox, the cycle that *)
(* applies the last command again and again, the mode gate, the            *)
(* interpolation, the RtHook, the group frame and the command timeout      *)
(* (jr_bus_node.cpp, run_cycle() and apply_command_timeout() of            *)
(* jr_tick_group.cpp, apply_command(), try_broadcast_mit() and the safety  *)
(* actions of jr_bus_runtime.cpp).                                         *)
(*                                                                         *)
(* A command is known by its number; the motion that a joint is sent is    *)
(* the number of a command, or a part of the way between two of them.      *)
(* Times are in periods.  Of a RtHook only the safety actions count: its   *)
(* targets are dropped (run_cycle() looks at `mask`, which nothing sets).  *)
(***************************************************************************)
EXTENDS Naturals, FiniteSets

CONSTANTS
  Joints,      \* the joints of the bus
  MitSets,     \* the sets of joints to consider as in MIT mode, whose targets are sent as they are
  MaxSeq,      \* bound of the number of commands
  Limit,       \* command.timeout_ms
  MinLength,   \* the shortest and ...
  MaxLength,   \* ... the longest segment of the interpolation
  Gaps,        \* the possible distances between two cycles (a late cycle, a pause)
  OnTimeouts,  \* the values of command.on_timeout to consider
  Hooks        \* what the RtHook may ask for in a cycle

TimeoutActions == {"hold", "zero_torque", "disable", "estop"}
HookActions == {"none", "zero", "estop"}

ASSUME GateAssumption ==
  /\ IsFiniteSet(Joints) /\ MitSets \subseteq SUBSET Joints
  /\ MaxSeq \in Nat /\ Limit \in Nat \ {0}
  /\ MinLength \in Nat \ {0} /\ MaxLength \in Nat /\ MinLength <= MaxLength
  /\ Gaps \subseteq Nat \ {0}
  /\ OnTimeouts \subseteq TimeoutActions /\ Hooks \subseteq HookActions

VARIABLES
  onTimeout,   \* command.on_timeout
  mit,         \* the joints in MIT mode
  grouped,     \* the link is FD and the feedback policy is one that broadcasts
  seq,         \* cmd_seq_ of the node
  box,         \* commands_: what is in the mailbox
  last,        \* last_cmd_ and last_cmd_seq_
  silence,     \* how long ago last_cmd_ns_ is
  overwrites,  \* overwrites_
  fired,       \* timeout_fired_
  interp,      \* interp_*_ of each joint
  target,      \* the target the SDK has for each joint
  sent,        \* the targets that the frames of the last cycle carried
  did,         \* the safety actions of the last cycle: "zero" before its frames, "estop" in it
  published,   \* a snapshot was published
  taken,       \* history: the commands that a cycle took
  refused,     \* history: <<command, joint>> of the wrong mode
  acted,       \* history: timeout actions since a command was taken
  safed,       \* history: the joints that no new command moved since a safety action
  estopDue     \* history: an estop was submitted since the last cycle

config  == <<onTimeout, mit, grouped>>
history == <<taken, refused, acted, safed, estopDue>>
gateVars == <<config, seq, box, last, silence, overwrites, fired, interp, target, sent, did,
          published, history>>

Least(a, b) == IF a < b THEN a ELSE b

Commands ==
  {c \in [seq : 1 .. MaxSeq, kind : {"targets", "estop"},
          mask : SUBSET Joints, wrong : SUBSET Joints] :
     /\ c.wrong \subseteq c.mask
     /\ c.kind = "targets" <=> c.mask # {}}

NoCommand == [seq |-> 0, kind |-> "targets", mask |-> {}, wrong |-> {}]

\* What a joint is sent: a command's target, or a part of the way to it.
Motions == [from : 0 .. MaxSeq, to : 0 .. MaxSeq, done : 0 .. MaxLength, of : 1 .. MaxLength]
Whole(n) == [from |-> n, to |-> n, done |-> 0, of |-> 1]

\* The interpolation of a joint: from which command to which, the last it has seen, whether
\* it knows where to start, whether a segment is under way, and how far that is.
Segments == [from : 0 .. MaxSeq, to : 0 .. MaxSeq, seen : 0 .. MaxSeq,
             have : BOOLEAN, active : BOOLEAN, elapsed : 0 .. MaxLength,
             length : MinLength .. MaxLength, age : 0 .. MaxLength + 1]

\* hold_position(): the joint's own position, which no command asked for.
Held == Whole(0)

\* lerp_motion().
Between(i) ==
  IF i.elapsed >= i.length THEN Whole(i.to)
  ELSE [from |-> i.from, to |-> i.to, done |-> i.elapsed, of |-> i.length]

GateInit ==
  /\ onTimeout \in OnTimeouts /\ mit \in MitSets /\ grouped \in BOOLEAN
  /\ seq = 0 /\ box = NoCommand /\ last = NoCommand
  /\ silence = 0 /\ overwrites = 0 /\ fired = FALSE
  /\ interp = [j \in Joints |-> [from |-> 0, to |-> 0, seen |-> 0, have |-> FALSE, active |-> FALSE,
                                 elapsed |-> 0, length |-> MinLength, age |-> 0]]
  /\ target = [j \in Joints |-> Held] /\ sent = target /\ did = {} /\ published = FALSE
  /\ taken = {} /\ refused = {} /\ acted = 0 /\ safed = {} /\ estopDue = FALSE

-----------------------------------------------------------------------------
(* The topic callbacks, all in one callback group.                         *)

\* submit().
Submit(c) ==
  /\ c.seq = seq + 1 /\ c \in Commands
  /\ seq' = c.seq
  /\ box' = c
  /\ refused' = refused \cup {<<c.seq, j>> : j \in c.wrong}
  /\ estopDue' = (estopDue \/ c.kind = "estop")
  /\ UNCHANGED <<config, last, silence, overwrites, fired, interp, target, sent, did, published,
                 taken, acted, safed>>

\* The joints that are in MIT mode by the snapshot that the callback's thread has: this
\* one's, or zeros if other threads were given all that was published, where 0 is MIT.
Seen == {mit, Joints}

Targets(mask) == [seq |-> seq + 1, kind |-> "targets", mask |-> mask, wrong |-> mask \ mit]

\* on_cmd_mit(): drops the joints of another mode, but without a snapshot nothing; what
\* is left, if anything, is submitted.  Entries for joints of other buses are dropped, too.
OnCmdMit(entries) ==
  \E seen \in IF published THEN Seen ELSE {Joints} :
    entries \cap seen # {} /\ Submit(Targets(entries \cap seen))

\* on_cmd_mode(): an entry names its mode, never MIT, and `right` are those that name
\* their joint's; values that are not finite are dropped.  Without a snapshot all are.
OnCmdMode(entries, right) ==
  /\ published
  /\ \E seen \in Seen, finite \in SUBSET right :
       /\ finite \ seen # {}
       /\ Submit([Targets(finite \ seen) EXCEPT !.wrong = {}])

\* on_estop_local(), for both topics.
OnEstop == Submit([seq |-> seq + 1, kind |-> "estop", mask |-> {}, wrong |-> {}])

-----------------------------------------------------------------------------
(* One cycle.                                                              *)

\* The progress of a segment is not measured from its start.
AgedNot(i, gap) == [i EXCEPT !.age = Least(@ + gap, MaxLength + 1)]

\* Time has gone on for the interpolation of a joint.
Aged(i, gap) ==
  [i EXCEPT !.elapsed = Least(@ + gap, i.length), !.age = Least(@ + gap, MaxLength + 1)]

\* The length of a segment is the distance of the commands, within bounds.
Length(age) ==
  IF age < MinLength THEN MinLength ELSE IF age > MaxLength THEN MaxLength ELSE age

\* The interpolation of a joint takes up a command that it has not seen.
TakenUp(i, n) ==
  IF i.seen = n THEN i
  ELSE IF i.have
       THEN [i EXCEPT !.from = i.to, !.to = n, !.seen = n, !.active = TRUE, !.elapsed = 0,
                      !.length = Length(i.age), !.age = 0]
       ELSE [i EXCEPT !.to = n, !.seen = n, !.active = FALSE, !.have = TRUE, !.age = 0]

\* The segment ends when its end was sent.
Ended(i) == [i EXCEPT !.active = i.active /\ i.elapsed < i.length]

\* A safety action that only touches the targets.
ClearedNot(i) == i

\* Safety actions drop the interpolation's history.
Cleared(i) == [i EXCEPT !.active = FALSE, !.have = FALSE]

\* The mode is looked at by nobody.
MovedWrong(c) == IF c.kind = "targets" THEN c.mask ELSE {}

\* The joints that a command has a target for, and in the right mode.
Moved(c) == IF c.kind = "targets" THEN c.mask \ c.wrong ELSE {}

\* apply_command(): the interpolation and the SDK's targets after it.  `f` are the
\* interpolations before it.
InterpApplied(c, f) ==
  [j \in Joints |->
     IF c.kind # "targets" THEN Cleared(f[j])
     ELSE IF j \in Moved(c) THEN Ended(TakenUp(f[j], c.seq)) ELSE f[j]]

TargetApplied(c, f) ==
  [j \in Joints |->
     IF j \notin Moved(c) THEN target[j]
     ELSE LET i == TakenUp(f[j], c.seq)
          IN  IF j \in mit \/ ~i.active THEN Whole(c.seq) ELSE Between(i)]

\* The hook's zero_torque_all() or estop() after the mailbox's command.
HookApplied(h, t) == IF h = "zero" THEN [j \in Joints |-> Held] ELSE t

\* try_broadcast_mit(): one frame for all the joints, if all are MIT, enabled (`on`)
\* and have had a target: it carries the last target that each was given.
GroupFrame(on, f, t) ==
  IF grouped /\ on /\ mit = Joints /\ \A j \in Joints : f[j].to # 0
  THEN [j \in Joints |-> Whole(f[j].to)] ELSE t

\* The commands before the first one that was taken are counted, too.
GapCountsFirst(c) == c.seq - last.seq - 1

\* What taking a command adds to the overwrites.
GapCounts(c) == IF last.seq # 0 THEN c.seq - last.seq - 1 ELSE 0

\* The timeout acts in every cycle that is too late.
TimeoutRepeats(quiet) == quiet > Limit

\* The command timeout acts in this cycle.
TimeoutActs(quiet) == quiet > Limit /\ ~fired

\* The cycle takes what is in the mailbox and applies the last command, the new one
\* or the old one again, then the hook's; the frames go out; then the command timeout
\* acts, and the snapshot is published.
Cycle(gap, hook, on) ==
  LET took   == box.seq # 0
      cmd    == IF took THEN box ELSE last
      quiet  == IF took \/ cmd.seq = 0 THEN 0 ELSE Least(silence + gap, Limit + 1)
      aged   == [j \in Joints |-> Aged(interp[j], gap)]
      after  == IF cmd.seq = 0 THEN aged ELSE InterpApplied(cmd, aged)
      out    == GroupFrame(on, after, HookApplied(hook, IF cmd.seq = 0 THEN target ELSE TargetApplied(cmd, aged)))
      acts   == TimeoutActs(quiet)
      holds  == acts /\ onTimeout \in {"hold", "zero_torque"}
      clears == hook # "none" \/ (acts /\ onTimeout # "disable")
  IN
  /\ box' = NoCommand
  /\ last' = cmd
  /\ silence' = quiet
  /\ overwrites' = overwrites + (IF took THEN GapCounts(box) ELSE 0)
  /\ fired' = (quiet > Limit)
  /\ interp' = [j \in Joints |-> IF clears THEN Cleared(after[j]) ELSE after[j]]
  /\ sent' = out
  /\ target' = [j \in Joints |-> IF holds THEN Held ELSE out[j]]
  /\ did' = {a \in {"zero", "estop"} :
               \/ hook = a
               \/ a = "estop" /\ (cmd.kind = "estop" \/ (acts /\ onTimeout = "estop"))}
  /\ published' = TRUE
  /\ taken' = IF took THEN taken \cup {box.seq} ELSE taken
  /\ acted' = (IF took THEN 0 ELSE acted) + (IF acts THEN 1 ELSE 0)
  /\ safed' = IF clears \/ cmd.kind # "targets" THEN Joints ELSE IF took THEN safed \ Moved(box) ELSE safed
  /\ estopDue' = FALSE
  /\ UNCHANGED <<config, seq, refused>>

ACycle == \E gap \in Gaps, hook \in Hooks, on \in BOOLEAN : Cycle(gap, hook, on)

GateNext ==
  \/ \E entries \in SUBSET Joints : OnCmdMit(entries)
  \/ \E entries \in SUBSET Joints : \E right \in SUBSET (entries \ mit) : OnCmdMode(entries, right)
  \/ OnEstop
  \/ ACycle

GateSpec == GateInit /\ [][GateNext]_gateVars

-----------------------------------------------------------------------------
\* The values of the variables; a command is in the mailbox until a cycle takes it.
GateTypeOK ==
  /\ onTimeout \in OnTimeouts /\ mit \in MitSets /\ grouped \in BOOLEAN
  /\ seq \in 0 .. MaxSeq
  /\ box \in Commands \cup {NoCommand} /\ last \in Commands \cup {NoCommand}
  /\ box.seq # 0 => box.seq = seq /\ last.seq < box.seq
  /\ silence \in 0 .. Limit + 1 /\ overwrites \in 0 .. MaxSeq /\ fired \in BOOLEAN
  /\ interp \in [Joints -> Segments]
  /\ target \in [Joints -> Motions] /\ sent \in [Joints -> Motions]
  /\ did \subseteq {"zero", "estop"} /\ published \in BOOLEAN /\ estopDue \in BOOLEAN
  /\ taken \subseteq 1 .. MaxSeq /\ refused \subseteq (1 .. MaxSeq) \X Joints
  /\ acted \in Nat /\ safed \subseteq Joints

\* command_overwrites counts each command that was replaced in the mailbox after the
\* first one was taken, once, and no other.
OverwritesCounted ==
  overwrites = Cardinality({n \in 1 .. last.seq : n \notin taken /\ \E m \in taken : m < n})

\* A silence longer than the limit has one timeout action, a shorter one has none,
\* however often the old command is applied again.
TimeoutActsOnce == acted = IF silence > Limit THEN 1 ELSE 0

\* A target in the wrong mode is dropped without a trace: it is neither given to the
\* SDK nor an end of a later interpolation.
RefusedLeavesNoTrace ==
  \A j \in Joints :
    {interp[j].from, interp[j].to, target[j].from, target[j].to}
      \cap {n \in 1 .. MaxSeq : <<n, j>> \in refused} = {}

\* A joint that is commanded without a break gets where it was sent to: no
\* interpolation is longer than the longest segment.  A cycle in which the hook has
\* taken the torque from all joints is left out.
ReachedInTime ==
  silence >= MaxLength /\ "zero" \notin did =>
    \A j \in Moved(last) : sent[j] = Whole(last.seq)

\* The first new target after a safety action is sent whole: a joint does not move off
\* slowly from where an old command wanted it.
FirstAfterSafetyIsWhole ==
  [][ACycle /\ "zero" \notin did' => \A j \in Moved(box) \cap safed : sent'[j] = Whole(box.seq)]_gateVars

\* An estop is broadcast by the cycle after it was submitted.
EstopInNextCycle == [][ACycle /\ estopDue => "estop" \in did']_gateVars

\* A command is in force until the timeout: the cycles after a timeout that holds do
\* not send what the old command asked for.
NotInForceAfterTimeout ==
  [][ACycle /\ box.seq = 0 /\ acted = 1 /\ onTimeout = "hold"
       => \A j \in Joints : sent'[j] = Held]_gateVars

\* A hook that takes the torque from all joints is obeyed in the frames of its cycle
\* ("全部泄力（安全动作", jr_command.hpp:56): does not hold with a group frame, which
\* carries the last targets.
ZeroTorqueIsSent ==
  [][ACycle /\ "zero" \in did' => \A j \in Joints : sent'[j] = Held]_gateVars
=============================================================================
