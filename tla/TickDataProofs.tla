--------------------------- MODULE TickDataProofs ---------------------------
(***************************************************************************)
(* Proofs about what goes into a tick thread and what comes out of it.     *)
(* About the fault ring, for every capacity and any number of events: what *)
(* the indices and their copies say, that no cell is used by both sides at *)
(* once, and that the ring is the EventLog.  About the way of a command,   *)
(* for any joints, limits, hooks and number of commands: what is counted,  *)
(* when the timeout acts, and what the frames carry.                       *)
(***************************************************************************)
EXTENDS CommandGate, SpscRing, FiniteSetTheorems, TLAPS

(***************************************************************************)
(* The fault ring (SpscRing).                                              *)
(***************************************************************************)

LEMMA Division ==
  ASSUME NEW n \in Nat \ {0}, NEW a \in Nat
  PROVE  /\ a % n \in 0 .. n - 1
         /\ a \div n \in Nat
         /\ a = n * (a \div n) + (a % n)
  OBVIOUS

LEMMA MultiplesApart ==
  ASSUME NEW n \in Nat \ {0}, NEW p \in Nat, NEW q \in Nat, p < q
  PROVE  n * p + n <= n * q
<1>1. PICK d \in Nat : q = p + d + 1
  <2>1. q - p - 1 \in Nat /\ q = p + (q - p - 1) + 1
    OBVIOUS
  <2> QED
    BY <2>1
<1>2. n * (p + d + 1) = n * p + n * d + n /\ n * d \in Nat /\ n * p \in Nat
  OBVIOUS
<1> QED
  BY <1>1, <1>2

\* Two indices that are less than n apart do not share a cell.
LEMMA CellsDiffer ==
  ASSUME NEW n \in Nat \ {0}, NEW a \in Nat, NEW b \in Nat, a < b, b < a + n
  PROVE  a % n # b % n
<1> SUFFICES ASSUME a % n = b % n PROVE FALSE
  OBVIOUS
<1> DEFINE p == a \div n
           q == b \div n
           r == a % n
<1>1. p \in Nat /\ q \in Nat /\ r \in 0 .. n - 1 /\ a = n * p + r /\ b = n * q + r
  BY Division
<1>2. n * p \in Nat /\ n * q \in Nat
  BY <1>1
<1> HIDE DEF p, q, r
<1>3. CASE p < q
  BY <1>1, <1>2, <1>3, MultiplesApart
<1>4. CASE q < p
  BY <1>1, <1>2, <1>4, MultiplesApart
<1>5. CASE p = q
  BY <1>1, <1>2, <1>5
<1> QED
  BY <1>1, <1>3, <1>4, <1>5

\* What Append adds, and what it leaves alone.
LEMMA AppendAdds ==
  ASSUME NEW s \in Seq(Nat), NEW e \in Nat
  PROVE  /\ Len(Append(s, e)) = Len(s) + 1
         /\ Append(s, e)[Len(s) + 1] = e
         /\ \A i \in 1 .. Len(s) : Append(s, e)[i] = s[i]
  OBVIOUS

\* Where an index falls.
LEMMA CellExists ==
  ASSUME NEW a \in Nat
  PROVE  a % N \in 0 .. N - 1
  BY RingAssumption, Division

-----------------------------------------------------------------------------
\* The variables of the ring keep their types.
THEOREM RingTypeCorrect == Spec => []TypeOK
<1>1. Init => TypeOK
  BY RingAssumption DEF Init, TypeOK
<1>2. TypeOK /\ [Next]_vars => TypeOK'
  <2> SUFFICES ASSUME TypeOK, [Next]_vars PROVE TypeOK'
    OBVIOUS
  <2> USE DEF TypeOK
  <2>1. CASE PushCall
    BY <2>1 DEF PushCall
  <2>2. CASE PushLook
    BY <2>2 DEF PushLook
  <2>3. CASE PushFill
    BY <2>3 DEF PushFill
  <2>4. CASE PushPublish
    BY <2>4 DEF PushPublish
  <2>5. CASE PopCall \/ PopLook \/ PopFree
    <3>1. CASE PopCall
      BY <3>1 DEF PopCall
    <3>2. CASE PopLook
      BY <3>2 DEF PopLook
    <3>3. CASE PopFree
      BY <3>3 DEF PopFree
    <3> QED
      BY <2>5, <3>1, <3>2, <3>3
  <2>6. CASE PopCopy
    <3>1. buf[read % N] \in Nat
      BY CellExists
    <3> QED
      BY <2>6, <3>1 DEF PopCopy
  <2>7. CASE UNCHANGED vars
    BY <2>7 DEF vars
  <2> QED
    BY <2>1, <2>2, <2>3, <2>4, <2>5, <2>6, <2>7 DEF Next, Push, Pop
<1> QED
  BY <1>1, <1>2, PTL DEF Spec

-----------------------------------------------------------------------------
(* The invariant: the indices first, then the contents of the cells.       *)

LEMMA IndicesStep ==
  ASSUME TypeOK, TypeOK', IndicesInOrder, [Next]_vars
  PROVE  IndicesInOrder'
<1>0. N \in Nat /\ N >= 2
  BY RingAssumption
<1> USE DEF TypeOK, IndicesInOrder
<1>1. CASE PushCall
  BY <1>0, <1>1 DEF PushCall
<1>2. CASE PushLook
  BY <1>0, <1>2 DEF PushLook
<1>3. CASE PushFill
  BY <1>0, <1>3 DEF PushFill
<1>4. CASE PushPublish
  BY <1>0, <1>4 DEF PushPublish
<1>5. CASE PopCall
  BY <1>0, <1>5 DEF PopCall
<1>6. CASE PopLook
  BY <1>0, <1>6 DEF PopLook
<1>7. CASE PopCopy
  BY <1>0, <1>7 DEF PopCopy
<1>8. CASE PopFree
  BY <1>0, <1>8 DEF PopFree
<1>9. CASE UNCHANGED vars
  BY <1>9 DEF vars
<1> QED
  BY <1>1, <1>2, <1>3, <1>4, <1>5, <1>6, <1>7, <1>8, <1>9 DEF Next, Push, Pop

\* The cell that is filled is none of those that hold an event.
LEMMA FillsFreeCell ==
  ASSUME TypeOK, IndicesInOrder, ppc \in {"fill", "publish"}, NEW k \in read .. write - 1
  PROVE  k % N # write % N
<1>1. N \in Nat \ {0} /\ k \in Nat /\ write \in Nat /\ k < write /\ write < k + N
  BY RingAssumption DEF TypeOK, IndicesInOrder
<1> QED
  BY <1>1, CellsDiffer

LEMMA CellsStep ==
  ASSUME TypeOK, TypeOK', IndicesInOrder, CellsHoldLog, [Next]_vars
  PROVE  CellsHoldLog'
<1>0. /\ N \in Nat /\ N >= 2 /\ write \in Nat /\ read \in Nat /\ read <= write
      /\ log \in Seq(Nat) /\ Len(log) = write
  BY RingAssumption DEF TypeOK, IndicesInOrder, CellsHoldLog
<1>1. CASE PushCall
  BY <1>1 DEF PushCall, CellsHoldLog
<1>2. CASE PushLook
  BY <1>2 DEF PushLook, CellsHoldLog
<1>3. CASE PushFill
  <2>1. /\ ppc = "fill" /\ buf' = [buf EXCEPT ![write % N] = event] /\ ppc' = "publish"
        /\ write' = write /\ read' = read /\ log' = log /\ copy' = copy /\ cpc' = cpc
        /\ event' = event
    BY <1>3 DEF PushFill
  <2>2. write % N \in 0 .. N - 1
    BY <1>0, CellExists
  <2>3. buf'[write % N] = event
    BY <2>1, <2>2 DEF TypeOK
  <2>4. ASSUME NEW k \in read .. write - 1 PROVE buf'[k % N] = log[k + 1]
    <3>0. k \in Nat
      BY <1>0
    <3>1. k % N \in 0 .. N - 1 /\ k % N # write % N
      BY <2>1, <3>0, CellExists, FillsFreeCell
    <3>2. buf'[k % N] = buf[k % N]
      BY <2>1, <3>1 DEF TypeOK
    <3> QED
      BY <3>2 DEF CellsHoldLog
  <2> QED
    BY <2>1, <2>3, <2>4 DEF CellsHoldLog
<1>4. CASE PushPublish
  <2>1. /\ ppc = "publish" /\ write' = write + 1 /\ log' = Append(log, event) /\ ppc' = "idle"
        /\ read' = read /\ buf' = buf /\ copy' = copy /\ cpc' = cpc
    BY <1>4 DEF PushPublish
  <2>2. /\ Len(log') = write + 1 /\ log'[write + 1] = event
        /\ \A i \in 1 .. write : log'[i] = log[i]
    <3>1. event \in Nat
      BY DEF TypeOK
    <3> QED
      BY <1>0, <2>1, <3>1, AppendAdds
  <2>3. ASSUME NEW k \in read .. write PROVE buf[k % N] = log'[k + 1]
    <3>1. CASE k = write
      <4>1. buf[write % N] = event
        BY <2>1 DEF CellsHoldLog
      <4> QED
        BY <2>2, <3>1, <4>1
    <3>2. CASE k \in read .. write - 1
      <4>1. buf[k % N] = log[k + 1]
        BY <3>2 DEF CellsHoldLog
      <4>2. k + 1 \in 1 .. write
        BY <1>0, <3>2
      <4> QED
        BY <2>2, <4>1, <4>2
    <3> QED
      BY <1>0, <3>1, <3>2
  <2>4. cpc = "free" => copy = log'[read + 1]
    <3>1. cpc = "free" => read + 1 \in 1 .. write
      BY <1>0 DEF IndicesInOrder, TypeOK
    <3> QED
      BY <2>2, <3>1 DEF CellsHoldLog
  <2>5. read' .. write' - 1 = read .. write
    BY <1>0, <2>1
  <2> QED
    BY <2>1, <2>2, <2>3, <2>4, <2>5 DEF CellsHoldLog
<1>5. CASE PopCall \/ PopLook
  BY <1>5 DEF PopCall, PopLook, CellsHoldLog
<1>6. CASE PopCopy
  <2>1. /\ copy' = buf[read % N] /\ cpc = "copy"
        /\ UNCHANGED <<write, read, buf, event, ppc, log>>
    BY <1>6 DEF PopCopy
  <2>2. read \in read .. write - 1
    BY <1>0, <2>1 DEF IndicesInOrder, TypeOK
  <2>3. copy' = log[read + 1]
    BY <2>1, <2>2 DEF CellsHoldLog
  <2> QED
    BY <2>1, <2>3 DEF CellsHoldLog
<1>7. CASE PopFree
  <2>1. /\ read' = read + 1 /\ cpc' = "idle" /\ UNCHANGED <<write, buf, event, ppc, log>>
    BY <1>7 DEF PopFree
  <2>2. \A k \in read' .. write - 1 : k \in read .. write - 1
    BY <1>0, <2>1
  <2> QED
    BY <2>1, <2>2 DEF CellsHoldLog
<1>8. CASE UNCHANGED vars
  BY <1>8 DEF vars, CellsHoldLog
<1> QED
  BY <1>1, <1>2, <1>3, <1>4, <1>5, <1>6, <1>7, <1>8 DEF Next, Push, Pop

\* The indices stay in order and the cells hold what the log says.
THEOREM RingCorrect == Spec => []RingInv
<1>1. Init => RingInv
  BY RingAssumption DEF Init, RingInv, IndicesInOrder, CellsHoldLog
<1>2. TypeOK /\ TypeOK' /\ RingInv /\ [Next]_vars => RingInv'
  BY IndicesStep, CellsStep DEF RingInv
<1> QED
  BY <1>1, <1>2, RingTypeCorrect, PTL DEF Spec

\* No event is copied out of a cell while another one is put into it.
THEOREM NoTornEvent == Spec => []NeverTorn
<1>1. TypeOK /\ RingInv => NeverTorn
  <2> SUFFICES ASSUME TypeOK, RingInv, ppc = "fill", cpc = "copy" PROVE read % N # write % N
    BY DEF NeverTorn
  <2>1. read \in read .. write - 1
    BY DEF TypeOK, RingInv, IndicesInOrder
  <2> QED
    BY <2>1, FillsFreeCell DEF RingInv
<1> QED
  BY <1>1, RingTypeCorrect, RingCorrect, PTL

\* No event is lost without being counted.
THEOREM NoSilentLoss == Spec => []EventsAccounted
<1>1. Init => EventsAccounted
  BY DEF Init, EventsAccounted
<1>2. TypeOK /\ EventsAccounted /\ [Next]_vars => EventsAccounted'
  <2> SUFFICES ASSUME TypeOK, EventsAccounted, [Next]_vars PROVE EventsAccounted'
    OBVIOUS
  <2> USE DEF TypeOK, EventsAccounted
  <2>1. CASE PushCall
    BY <2>1 DEF PushCall
  <2>2. CASE PushLook
    BY <2>2 DEF PushLook
  <2>3. CASE PushFill
    BY <2>3 DEF PushFill
  <2>4. CASE PushPublish
    BY <2>4 DEF PushPublish
  <2>5. CASE Pop
    BY <2>5 DEF Pop, PopCall, PopLook, PopCopy, PopFree
  <2>6. CASE UNCHANGED vars
    BY <2>6 DEF vars
  <2> QED
    BY <2>1, <2>2, <2>3, <2>4, <2>5, <2>6 DEF Next, Push
<1> QED
  BY <1>1, <1>2, RingTypeCorrect, PTL DEF Spec

-----------------------------------------------------------------------------
(* The ring implements the log.                                            *)

\* The events in the ring are the numbers given out so far.
EventInRange == ppc # "idle" => event \in 1 .. MaxEvents

LEMMA EventsInRange == Spec => []EventInRange
<1>1. Init => EventInRange
  BY DEF Init, EventInRange
<1>2. TypeOK /\ EventInRange /\ [Next]_vars => EventInRange'
  <2> SUFFICES ASSUME TypeOK, EventInRange, [Next]_vars PROVE EventInRange'
    OBVIOUS
  <2> USE DEF EventInRange
  <2>1. CASE PushCall
    BY <2>1, RingAssumption DEF PushCall, TypeOK
  <2>2. CASE PushLook \/ PushFill \/ PushPublish
    BY <2>2 DEF PushLook, PushFill, PushPublish
  <2>3. CASE Pop
    BY <2>3 DEF Pop, PopCall, PopLook, PopCopy, PopFree
  <2>4. CASE UNCHANGED vars
    BY <2>4 DEF vars
  <2> QED
    BY <2>1, <2>2, <2>3, <2>4 DEF Next, Push
<1> QED
  BY <1>1, <1>2, RingTypeCorrect, PTL DEF Spec

\* Every step of the ring is a step of the log, or none.
THEOREM ImplementsEventLog == Spec => LogSpec
<1>1. Init => Log!Init
  BY DEF Init, Log!Init
<1>2. TypeOK /\ RingInv /\ EventInRange /\ [Next]_vars => [Log!Next]_<<log, read, out, dropped>>
  <2> SUFFICES ASSUME TypeOK, RingInv, EventInRange, [Next]_vars
               PROVE  [Log!Next]_<<log, read, out, dropped>>
    OBVIOUS
  <2>0. N \in Nat /\ N >= 2
    BY RingAssumption
  <2> USE DEF TypeOK, RingInv, IndicesInOrder, CellsHoldLog
  <2>1. CASE PushCall \/ PushFill \/ PopCall \/ PopLook \/ PopCopy
    BY <2>1 DEF PushCall, PushFill, PopCall, PopLook, PopCopy
  <2>2. CASE PushLook
    <3>1. CASE write - read >= N
      BY <2>0, <2>2, <3>1 DEF PushLook, Log!Drop, Log!Next
    <3>2. CASE ~(write - read >= N)
      BY <2>0, <2>2, <3>2 DEF PushLook
    <3> QED
      BY <3>1, <3>2
  <2>3. CASE PushPublish
    <3>1. event \in 1 .. MaxEvents
      BY <2>3 DEF PushPublish, EventInRange
    <3>2. Log!Accept(event)
      BY <2>0, <2>3 DEF PushPublish, Log!Accept
    <3> QED
      BY <3>1, <3>2 DEF Log!Next
  <2>4. CASE PopFree
    BY <2>0, <2>4 DEF PopFree, Log!Take, Log!Next
  <2>5. CASE UNCHANGED vars
    BY <2>5 DEF vars
  <2> QED
    BY <2>1, <2>2, <2>3, <2>4, <2>5 DEF Next, Push, Pop
<1> QED
  BY <1>1, <1>2, RingTypeCorrect, RingCorrect, EventsInRange, PTL DEF Spec, LogSpec, Log!Spec

(***************************************************************************)
(* The way of a command (CommandGate).                                     *)
(***************************************************************************)

\* The commands that were overwritten after one was taken.
Missed(S, l) == {n \in 1 .. l : n \notin S /\ \E m \in S : m < n}
Overwritten == Missed(taken, last.seq)

\* The cycles have taken what they know of, and the last of it is the last command.
Counting ==
  /\ last.seq <= seq
  /\ taken \subseteq 1 .. last.seq /\ (last.seq # 0 => last.seq \in taken)
  /\ overwrites = Cardinality(Overwritten)

\* How long the silence is, and whether the timeout has acted in it.
Timing ==
  /\ fired = (silence > Limit)
  /\ last.seq = 0 => silence = 0
  /\ TimeoutActsOnce

\* Who refuses knows the command, and the command its joints.
RefusedKnown ==
  /\ refused \subseteq (1 .. seq) \X Joints
  /\ \A j \in Joints : /\ <<box.seq, j>> \in refused => j \in box.wrong
                       /\ <<last.seq, j>> \in refused => j \in last.wrong

\* A number that a joint may be moved by: of no later command than the last, and not refused.
Clean(j, n) == n \in 0 .. last.seq /\ <<n, j>> \notin refused

Traceless(j) ==
  /\ Clean(j, interp[j].from) /\ Clean(j, interp[j].to) /\ interp[j].seen <= last.seq
  /\ Clean(j, target[j].from) /\ Clean(j, target[j].to)

\* A joint that the last command moves is on its way to it, for as long as that is in force.
OnTheWay(j) ==
  j \in Moved(last) =>
    /\ interp[j].seen = last.seq /\ interp[j].to = last.seq
    /\ interp[j].active => interp[j].elapsed >= silence \/ interp[j].elapsed >= interp[j].length

\* After a safety action the interpolation has forgotten where it was.
Forgotten(j) == j \in safed => ~interp[j].have

GateInv ==
  /\ GateTypeOK
  /\ Counting
  /\ Timing
  /\ RefusedKnown
  /\ \A j \in Joints : Traceless(j) /\ OnTheWay(j) /\ Forgotten(j)
  /\ ReachedInTime
-----------------------------------------------------------------------------
(* The operators of a cycle, joint by joint.                               *)

LEMMA LeastFacts ==
  ASSUME NEW a \in Nat, NEW b \in Nat
  PROVE  Least(a, b) \in Nat /\ Least(a, b) <= a /\ Least(a, b) <= b /\ Least(a, b) \in {a, b}
  BY DEF Least

\* Time changes the progress and the age of a segment, and nothing else.
LEMMA AgedFacts ==
  ASSUME NEW i \in Segments, NEW gap \in Gaps
  PROVE  LET f == Aged(i, gap) IN
         /\ f \in Segments
         /\ f.from = i.from /\ f.to = i.to /\ f.seen = i.seen /\ f.have = i.have
         /\ f.active = i.active /\ f.length = i.length
         /\ f.elapsed = i.elapsed + gap \/ f.elapsed >= f.length
<1> DEFINE e == Least(i.elapsed + gap, i.length)
           a == Least(i.age + gap, MaxLength + 1)
<1>1. gap \in Nat /\ i.elapsed \in Nat /\ i.length \in Nat /\ i.age \in Nat /\ MaxLength \in Nat
      /\ i.length <= MaxLength
  BY GateAssumption DEF Segments
<1>2. e \in 0 .. MaxLength /\ e \in {i.elapsed + gap, i.length}
  <2>1. i.elapsed + gap \in Nat
    BY <1>1
  <2>2. e \in Nat /\ e <= i.length /\ e \in {i.elapsed + gap, i.length}
    BY <1>1, <2>1, LeastFacts
  <2> HIDE DEF e
  <2> QED
    BY <1>1, <2>2
<1>3. a \in 0 .. MaxLength + 1
  <2>1. i.age + gap \in Nat /\ MaxLength + 1 \in Nat
    BY <1>1
  <2>2. a \in Nat /\ a <= MaxLength + 1
    BY <2>1, LeastFacts
  <2> HIDE DEF a
  <2> QED
    BY <1>1, <2>2
<1>4. Aged(i, gap) = [i EXCEPT !.elapsed = e, !.age = a]
  BY DEF Aged
<1> HIDE DEF e, a
<1>5. Aged(i, gap) \in Segments /\ Aged(i, gap).elapsed = e
  BY <1>2, <1>3, <1>4 DEF Segments
<1>6. /\ Aged(i, gap).from = i.from /\ Aged(i, gap).to = i.to /\ Aged(i, gap).seen = i.seen
      /\ Aged(i, gap).have = i.have /\ Aged(i, gap).active = i.active /\ Aged(i, gap).length = i.length
  BY <1>4 DEF Segments
<1> QED
  BY <1>1, <1>2, <1>5, <1>6

\* A command that was seen changes nothing; a new one begins a segment from where the one
\* before ended, or none if that was forgotten.
LEMMA TakenUpFacts ==
  ASSUME NEW i \in Segments, NEW n \in 1 .. MaxSeq
  PROVE  LET f == TakenUp(i, n) IN
         /\ f \in Segments /\ f.seen = n
         /\ i.seen = n => f = i
         /\ i.seen # n => f.to = n /\ f.from \in {i.from, i.to} /\ f.active = i.have /\ f.have
<1>1. Length(i.age) \in MinLength .. MaxLength /\ 0 \in 0 .. MaxLength /\ 0 \in 0 .. MaxLength + 1
      /\ n \in 0 .. MaxSeq
  BY GateAssumption DEF Length, Segments
<1> DEFINE len == Length(i.age)
<1> HIDE DEF len
<1>2. CASE i.seen = n
  BY <1>2 DEF TakenUp
<1>3. CASE i.seen # n /\ i.have
  <2>1. TakenUp(i, n) = [i EXCEPT !.from = i.to, !.to = n, !.seen = n, !.active = TRUE, !.elapsed = 0,
                                  !.length = len, !.age = 0]
    BY <1>3 DEF TakenUp, len
  <2>2. /\ TakenUp(i, n).seen = n /\ TakenUp(i, n).to = n /\ TakenUp(i, n).from = i.to
        /\ TakenUp(i, n).active = TRUE /\ TakenUp(i, n).have = i.have
    BY <2>1 DEF Segments
  <2>3. TakenUp(i, n) \in Segments
    BY <1>1, <2>1 DEF Segments, len
  <2> QED
    BY <1>3, <2>2, <2>3
<1>4. CASE i.seen # n /\ ~i.have
  <2>1. TakenUp(i, n) = [i EXCEPT !.to = n, !.seen = n, !.active = FALSE, !.have = TRUE, !.age = 0]
    BY <1>4 DEF TakenUp
  <2>2. /\ TakenUp(i, n).seen = n /\ TakenUp(i, n).to = n /\ TakenUp(i, n).from = i.from
        /\ TakenUp(i, n).active = FALSE /\ TakenUp(i, n).have = TRUE
    BY <2>1 DEF Segments
  <2>3. TakenUp(i, n) \in Segments /\ i.have = FALSE
    BY <1>1, <1>4, <2>1 DEF Segments
  <2> QED
    BY <1>4, <2>2, <2>3
<1> QED
  BY <1>2, <1>3, <1>4

LEMMA EndedFacts ==
  ASSUME NEW i \in Segments
  PROVE  LET f == Ended(i) IN
         /\ f \in Segments
         /\ f.from = i.from /\ f.to = i.to /\ f.seen = i.seen /\ f.have = i.have
         /\ f.elapsed = i.elapsed /\ f.length = i.length /\ (f.active => i.active)
  BY GateAssumption DEF Ended, Segments

LEMMA ClearedFacts ==
  ASSUME NEW i \in Segments
  PROVE  LET f == Cleared(i) IN
         /\ f \in Segments
         /\ f.from = i.from /\ f.to = i.to /\ f.seen = i.seen /\ ~f.have /\ ~f.active
         /\ f.elapsed = i.elapsed /\ f.length = i.length
  BY DEF Cleared, Segments

LEMMA WholeFacts ==
  ASSUME NEW n \in 0 .. MaxSeq
  PROVE  Whole(n) \in Motions /\ Whole(n).from = n /\ Whole(n).to = n
  BY GateAssumption DEF Whole, Motions

\* A segment is never longer than the longest, and at its end the target is whole.
LEMMA BetweenFacts ==
  ASSUME NEW i \in Segments
  PROVE  /\ Between(i) \in Motions
         /\ Between(i).from \in {i.from, i.to} /\ Between(i).to = i.to
         /\ i.elapsed >= i.length => Between(i) = Whole(i.to)
         /\ i.length <= MaxLength
<1>1. i.length \in MinLength .. MaxLength /\ i.elapsed \in 0 .. MaxLength
      /\ i.from \in 0 .. MaxSeq /\ i.to \in 0 .. MaxSeq
  BY DEF Segments
<1>2. CASE i.elapsed >= i.length
  BY <1>1, <1>2, WholeFacts, GateAssumption DEF Between
<1>3. CASE ~(i.elapsed >= i.length)
  BY <1>1, <1>3, GateAssumption DEF Between, Motions
<1> QED
  BY <1>2, <1>3

-----------------------------------------------------------------------------
(* The parts of a cycle.                                                   *)

Took        == box.seq # 0
Cmd         == IF Took THEN box ELSE last
Quiet(gap)  == IF Took \/ Cmd.seq = 0 THEN 0 ELSE Least(silence + gap, Limit + 1)
AgedAll(gap) == [j \in Joints |-> Aged(interp[j], gap)]
After(gap)  == IF Cmd.seq = 0 THEN AgedAll(gap) ELSE InterpApplied(Cmd, AgedAll(gap))
Commanded(gap) == IF Cmd.seq = 0 THEN target ELSE TargetApplied(Cmd, AgedAll(gap))
Out(gap, hook, on_) == GroupFrame(on_, After(gap), HookApplied(hook, Commanded(gap)))
Acts(gap)   == TimeoutActs(Quiet(gap))
Holds(gap)  == Acts(gap) /\ onTimeout \in {"hold", "zero_torque"}
Clears(gap, hook) == hook # "none" \/ (Acts(gap) /\ onTimeout # "disable")

LEMMA CycleParts ==
  ASSUME NEW gap, NEW hook, NEW on_, Cycle(gap, hook, on_)
  PROVE  /\ box' = NoCommand /\ last' = Cmd /\ silence' = Quiet(gap)
         /\ overwrites' = overwrites + (IF Took THEN GapCounts(box) ELSE 0)
         /\ fired' = (Quiet(gap) > Limit)
         /\ interp' = [j \in Joints |-> IF Clears(gap, hook) THEN Cleared(After(gap)[j]) ELSE After(gap)[j]]
         /\ sent' = Out(gap, hook, on_)
         /\ target' = [j \in Joints |-> IF Holds(gap) THEN Held ELSE Out(gap, hook, on_)[j]]
         /\ did' = {a \in {"zero", "estop"} :
                     \/ hook = a
                     \/ a = "estop" /\ (Cmd.kind = "estop" \/ (Acts(gap) /\ onTimeout = "estop"))}
         /\ published' = TRUE
         /\ taken' = IF Took THEN taken \cup {box.seq} ELSE taken
         /\ acted' = (IF Took THEN 0 ELSE acted) + (IF Acts(gap) THEN 1 ELSE 0)
         /\ safed' = IF Clears(gap, hook) \/ Cmd.kind # "targets" THEN Joints
                     ELSE IF Took THEN safed \ Moved(box) ELSE safed
         /\ estopDue' = FALSE
         /\ UNCHANGED <<config, seq, refused>>
  BY DEF Cycle, Took, Cmd, Quiet, AgedAll, After, Commanded, Out, Acts, Holds, Clears

\* What may be in the mailbox.
Mailed == Commands \cup {NoCommand}

\* The command of a cycle: the one in the mailbox, which is later than the last, or the last.
LEMMA CmdFacts ==
  ASSUME GateInv
  PROVE  /\ Cmd \in Mailed /\ Cmd.seq \in 0 .. MaxSeq /\ last.seq \in 0 .. MaxSeq
         /\ last.seq <= Cmd.seq /\ Cmd.seq <= seq /\ (Took => last.seq < Cmd.seq)
         /\ ~Took => Cmd = last
         /\ Moved(Cmd) \subseteq Joints /\ (Cmd.seq = 0 => Moved(Cmd) = {} /\ Cmd.kind = "targets")
         /\ \A j \in Moved(Cmd) : <<Cmd.seq, j>> \notin refused
<1>1. /\ box \in Mailed /\ last \in Mailed /\ seq \in 0 .. MaxSeq
      /\ box.seq # 0 => box.seq = seq /\ last.seq < box.seq
      /\ last.seq <= seq
  BY DEF GateInv, GateTypeOK, Counting, Mailed
<1>2. Cmd \in Mailed /\ (~Took => Cmd = last) /\ (Took => Cmd = box)
  BY <1>1 DEF Cmd
<1>3. \A c \in Mailed : /\ c.seq \in 0 .. MaxSeq /\ Moved(c) \subseteq Joints
                        /\ c.seq = 0 => Moved(c) = {} /\ c.kind = "targets"
  BY GateAssumption DEF Mailed, Commands, NoCommand, Moved
<1>4. \A j \in Moved(Cmd) : <<Cmd.seq, j>> \notin refused
  BY <1>2, <1>3 DEF GateInv, RefusedKnown, Moved
<1>5. last.seq \in Nat /\ box.seq \in Nat /\ seq \in Nat /\ last.seq \in 0 .. MaxSeq
  <2>1. last.seq \in 0 .. MaxSeq
    BY <1>1, <1>3
  <2>2. box.seq \in 0 .. MaxSeq
    BY <1>1, <1>3
  <2> QED
    BY <1>1, <2>1, <2>2
<1>6. last.seq <= Cmd.seq /\ Cmd.seq <= seq /\ (Took => last.seq < Cmd.seq)
  BY <1>1, <1>2, <1>5 DEF Took
<1>7. Cmd.seq \in 0 .. MaxSeq
  BY <1>2, <1>3
<1>8. Moved(Cmd) \subseteq Joints /\ (Cmd.seq = 0 => Moved(Cmd) = {} /\ Cmd.kind = "targets")
  BY <1>2, <1>3
<1> QED
  BY <1>2, <1>4, <1>5, <1>6, <1>7, <1>8

\* A joint whose interpolation may be moved by n in the cycle of Cmd.
CleanNow(j, n) == n \in 0 .. Cmd.seq /\ <<n, j>> \notin refused

LEMMA CleanStays ==
  ASSUME GateInv, NEW j \in Joints, NEW n, Clean(j, n)
  PROVE  CleanNow(j, n)
  BY CmdFacts DEF Clean, CleanNow

\* How long the silence is in this cycle.
LEMMA QuietFacts ==
  ASSUME GateInv, NEW gap \in Gaps
  PROVE  /\ gap \in Nat \ {0} /\ silence \in 0 .. Limit + 1 /\ Limit \in Nat /\ Quiet(gap) \in 0 .. Limit + 1
         /\ Took \/ Cmd.seq = 0 => Quiet(gap) = 0
         /\ ~Took /\ Cmd.seq # 0 => Quiet(gap) \in {silence + gap, Limit + 1} /\ Quiet(gap) <= silence + gap
<1>1. gap \in Nat \ {0} /\ silence \in 0 .. Limit + 1 /\ Limit \in Nat /\ silence + gap \in Nat /\ Limit + 1 \in Nat
  BY GateAssumption DEF GateInv, GateTypeOK
<1> DEFINE q == Least(silence + gap, Limit + 1)
<1>2. q \in Nat /\ q <= silence + gap /\ q <= Limit + 1 /\ q \in {silence + gap, Limit + 1}
  BY <1>1, LeastFacts
<1>3. Quiet(gap) = IF Took \/ Cmd.seq = 0 THEN 0 ELSE q
  BY DEF Quiet
<1> HIDE DEF q
<1> QED
  BY <1>1, <1>2, <1>3

\* The interpolation of a joint once time has gone on.
LEMMA AgedNow ==
  ASSUME GateInv, NEW gap \in Gaps, NEW j \in Joints
  PROVE  LET i == interp[j]
             a == AgedAll(gap)[j] IN
         /\ i \in Segments /\ silence \in Nat
         /\ a \in Segments /\ a.to = i.to /\ a.seen = i.seen /\ a.have = i.have
         /\ a.active = i.active /\ a.length = i.length
         /\ a.elapsed = i.elapsed + gap \/ a.elapsed >= a.length
         /\ CleanNow(j, a.from) /\ CleanNow(j, a.to) /\ a.seen <= last.seq /\ a.seen <= Cmd.seq
<1> DEFINE i == interp[j]
           a == Aged(interp[j], gap)
<1>1. i \in Segments /\ Clean(j, i.from) /\ Clean(j, i.to) /\ i.seen <= last.seq /\ silence \in Nat
  BY GateAssumption DEF GateInv, GateTypeOK, Segments, Traceless
<1>2. /\ a \in Segments /\ a.from = i.from /\ a.to = i.to /\ a.seen = i.seen /\ a.have = i.have
      /\ a.active = i.active /\ a.length = i.length
      /\ a.elapsed = i.elapsed + gap \/ a.elapsed >= a.length
  BY <1>1, AgedFacts
<1>3. AgedAll(gap)[j] = a
  BY DEF AgedAll
<1>4. CleanNow(j, a.from) /\ CleanNow(j, a.to) /\ a.seen <= Cmd.seq
  BY <1>1, <1>2, CleanStays, CmdFacts DEF Segments
<1> QED
  BY <1>1, <1>2, <1>3, <1>4

\* The interpolation of a joint that is moved, before its segment may end.
Taken(gap, j) == TakenUp(AgedAll(gap)[j], Cmd.seq)

LEMMA TakenFacts ==
  ASSUME GateInv, NEW gap \in Gaps, NEW j \in Moved(Cmd)
  PROVE  LET t == Taken(gap, j) IN
         /\ t \in Segments /\ t.seen = Cmd.seq /\ t.to = Cmd.seq
         /\ CleanNow(j, t.from) /\ CleanNow(j, Cmd.seq) /\ Cmd.seq \in 1 .. MaxSeq
         /\ t.active => t.elapsed >= Quiet(gap) \/ t.elapsed >= t.length
         /\ Took => Quiet(gap) = 0
         /\ j \in safed => ~t.active \/ ~Took
         /\ j \in safed => ~t.have \/ Took
<1> DEFINE i == interp[j]
           a == AgedAll(gap)[j]
           t == Taken(gap, j)
<1>1. j \in Joints /\ Cmd.seq \in 1 .. MaxSeq /\ CleanNow(j, Cmd.seq)
  BY CmdFacts DEF CleanNow
<1>2. /\ i \in Segments /\ silence \in Nat
      /\ a \in Segments /\ a.to = i.to /\ a.seen = i.seen /\ a.have = i.have
      /\ a.active = i.active /\ a.length = i.length
      /\ a.elapsed = i.elapsed + gap \/ a.elapsed >= a.length
      /\ CleanNow(j, a.from) /\ CleanNow(j, a.to) /\ a.seen <= last.seq /\ a.seen <= Cmd.seq
  BY <1>1, AgedNow
<1>3. /\ t \in Segments /\ t.seen = Cmd.seq
      /\ a.seen = Cmd.seq => t = a
      /\ a.seen # Cmd.seq => t.to = Cmd.seq /\ t.from \in {a.from, a.to} /\ t.active = a.have /\ t.have
  BY <1>1, <1>2, TakenUpFacts DEF Taken
<1>4. OnTheWay(j) /\ Forgotten(j)
  BY <1>1 DEF GateInv
<1> HIDE DEF t, a
<1>5. CASE Took
  <2>1. a.seen # Cmd.seq /\ Quiet(gap) = 0
    BY <1>2, <1>5, CmdFacts DEF Quiet, Segments
  <2>2. t.elapsed >= Quiet(gap)
    BY <1>3, <2>1, GateAssumption DEF Segments
  <2>3. j \in safed => ~t.active
    BY <1>2, <1>3, <1>4, <2>1 DEF Forgotten, i
  <2> QED
    BY <1>1, <1>2, <1>3, <1>5, <2>1, <2>2, <2>3 DEF t
<1>6. CASE ~Took
  <2>1. Cmd = last /\ j \in Moved(last)
    BY <1>6, CmdFacts
  <2>2. a.seen = Cmd.seq /\ a.to = Cmd.seq /\ t = a
    BY <1>2, <1>3, <1>4, <2>1 DEF OnTheWay, i
  <2>3. Quiet(gap) <= silence + gap /\ Quiet(gap) \in Nat /\ gap \in Nat
    BY <1>1, <1>6, QuietFacts
  <2>4. a.active => a.elapsed >= Quiet(gap) \/ a.elapsed >= a.length
    <3>1. a.active => i.elapsed >= silence \/ i.elapsed >= i.length
      BY <1>2, <1>4, <2>1 DEF OnTheWay, i
    <3>2. i.elapsed \in Nat /\ i.length \in Nat /\ a.elapsed \in Nat
      BY <1>2, GateAssumption DEF Segments
    <3> HIDE DEF i
    <3> QED
      BY <1>2, <2>3, <3>1, <3>2
  <2>5. j \in safed => ~t.have
    BY <1>2, <1>4, <2>2 DEF Forgotten, i
  <2> QED
    BY <1>1, <1>2, <1>3, <1>6, <2>2, <2>4, <2>5 DEF t
<1> QED
  BY <1>5, <1>6

\* The interpolation of a joint after the command was applied.
LEMMA AfterFacts ==
  ASSUME GateInv, NEW gap \in Gaps, NEW j \in Joints
  PROVE  LET f == After(gap)[j] IN
         /\ f \in Segments /\ f.seen <= Cmd.seq /\ CleanNow(j, f.from) /\ CleanNow(j, f.to)
         /\ j \in Moved(Cmd) => f.seen = Cmd.seq /\ f.to = Cmd.seq
         /\ j \in Moved(Cmd) /\ f.active => f.elapsed >= Quiet(gap) \/ f.elapsed >= f.length
         /\ Cmd.kind # "targets" => ~f.have
         /\ j \in safed /\ ~(Took /\ j \in Moved(box)) => ~f.have
<1> DEFINE a == AgedAll(gap)[j]
           t == Taken(gap, j)
           f == After(gap)[j]
<1>1. /\ a \in Segments /\ a.have = interp[j].have /\ a.seen <= Cmd.seq
      /\ CleanNow(j, a.from) /\ CleanNow(j, a.to)
  BY AgedNow
<1>2. j \in safed => ~a.have
  BY <1>1 DEF GateInv, Forgotten
<1>3. CASE Cmd.seq # 0 /\ Cmd.kind # "targets"
  <2>1. f = Cleared(a) /\ j \notin Moved(Cmd)
    BY <1>3 DEF After, InterpApplied, Moved
  <2> QED
    BY <1>1, <2>1, ClearedFacts
<1>4. CASE j \notin Moved(Cmd) /\ (Cmd.seq = 0 \/ Cmd.kind = "targets")
  <2>1. f = a /\ Cmd.kind = "targets"
    BY <1>4, CmdFacts DEF After, InterpApplied
  <2> QED
    BY <1>1, <1>2, <1>4, <2>1
<1>5. CASE j \in Moved(Cmd)
  <2>1. f = Ended(t) /\ Cmd.kind = "targets"
    BY <1>5, CmdFacts DEF After, InterpApplied, Taken, Moved
  <2>2. /\ t \in Segments /\ t.seen = Cmd.seq /\ t.to = Cmd.seq /\ Cmd.seq \in 1 .. MaxSeq
        /\ CleanNow(j, t.from) /\ CleanNow(j, Cmd.seq)
        /\ t.active => t.elapsed >= Quiet(gap) \/ t.elapsed >= t.length
        /\ j \in safed => ~t.have \/ Took
    BY <1>5, TakenFacts
  <2>3. /\ f \in Segments /\ f.from = t.from /\ f.to = t.to /\ f.seen = t.seen /\ f.have = t.have
        /\ f.elapsed = t.elapsed /\ f.length = t.length /\ (f.active => t.active)
    BY <2>1, <2>2, EndedFacts
  <2>4. Took => j \in Moved(box)
    BY <1>5 DEF Cmd
  <2> HIDE DEF t, f
  <2> QED
    BY <1>5, <2>1, <2>2, <2>3, <2>4 DEF f
<1> QED
  BY <1>3, <1>4, <1>5, CmdFacts

\* The target of a joint after the command was applied.
LEMMA CommandedFacts ==
  ASSUME GateInv, NEW gap \in Gaps, NEW j \in Joints
  PROVE  LET m == Commanded(gap)[j] IN
         /\ m \in Motions /\ CleanNow(j, m.from) /\ CleanNow(j, m.to)
         /\ j \in Moved(Cmd) /\ Quiet(gap) >= MaxLength => m = Whole(Cmd.seq)
         /\ Took /\ j \in Moved(Cmd) /\ j \in safed => m = Whole(Cmd.seq)
<1> DEFINE t == Taken(gap, j)
           m == Commanded(gap)[j]
<1>1. target[j] \in Motions /\ Clean(j, target[j].from) /\ Clean(j, target[j].to)
  BY DEF GateInv, GateTypeOK, Traceless
<1>2. CASE j \notin Moved(Cmd)
  <2>1. m = target[j]
    BY <1>2 DEF Commanded, TargetApplied
  <2> QED
    BY <1>1, <1>2, <2>1, CleanStays
<1>3. CASE j \in Moved(Cmd)
  <2>1. m = IF j \in mit \/ ~t.active THEN Whole(Cmd.seq) ELSE Between(t)
    BY <1>3, CmdFacts DEF Commanded, TargetApplied, Taken
  <2>2. /\ t \in Segments /\ t.to = Cmd.seq /\ Cmd.seq \in 1 .. MaxSeq
        /\ CleanNow(j, t.from) /\ CleanNow(j, Cmd.seq)
        /\ t.active => t.elapsed >= Quiet(gap) \/ t.elapsed >= t.length
        /\ j \in safed => ~t.active \/ ~Took
    BY <1>3, TakenFacts
  <2>3. Whole(Cmd.seq) \in Motions /\ Whole(Cmd.seq).from = Cmd.seq /\ Whole(Cmd.seq).to = Cmd.seq
    BY <2>2, WholeFacts
  <2>4. /\ Between(t) \in Motions
        /\ Between(t).from \in {t.from, t.to} /\ Between(t).to = t.to
        /\ t.elapsed >= t.length => Between(t) = Whole(t.to)
        /\ t.length <= MaxLength
    BY <2>2, BetweenFacts
  <2>5. t.elapsed \in Nat /\ t.length \in Nat /\ Quiet(gap) \in Nat /\ MaxLength \in Nat
    BY <2>2, QuietFacts, GateAssumption DEF Segments
  <2> HIDE DEF t, m
  <2>6. CASE j \in mit \/ ~t.active
    BY <2>1, <2>2, <2>3, <2>6 DEF m
  <2>7. CASE ~(j \in mit \/ ~t.active)
    <3>1. m = Between(t) /\ CleanNow(j, m.from) /\ CleanNow(j, m.to)
      BY <2>1, <2>2, <2>4, <2>7
    <3>2. Quiet(gap) >= MaxLength => t.elapsed >= t.length
      BY <2>2, <2>4, <2>5, <2>7
    <3> QED
      BY <2>2, <2>4, <2>7, <3>1, <3>2 DEF m
  <2> QED
    BY <2>6, <2>7
<1> QED
  BY <1>2, <1>3

\* What the frames carry for a joint.
LEMMA OutFacts ==
  ASSUME GateInv, NEW gap \in Gaps, NEW hook, NEW on_, NEW j \in Joints
  PROVE  LET m == Out(gap, hook, on_)[j] IN
         /\ m \in Motions /\ CleanNow(j, m.from) /\ CleanNow(j, m.to)
         /\ hook # "zero" /\ j \in Moved(Cmd) /\ Quiet(gap) >= MaxLength => m = Whole(Cmd.seq)
         /\ hook # "zero" /\ Took /\ j \in Moved(Cmd) /\ j \in safed => m = Whole(Cmd.seq)
<1> DEFINE f == After(gap)[j]
           c == Commanded(gap)[j]
           m == Out(gap, hook, on_)[j]
<1>1. /\ c \in Motions /\ CleanNow(j, c.from) /\ CleanNow(j, c.to)
      /\ j \in Moved(Cmd) /\ Quiet(gap) >= MaxLength => c = Whole(Cmd.seq)
      /\ Took /\ j \in Moved(Cmd) /\ j \in safed => c = Whole(Cmd.seq)
  BY CommandedFacts
<1>2. f \in Segments /\ CleanNow(j, f.to) /\ (j \in Moved(Cmd) => f.to = Cmd.seq)
  BY AfterFacts
<1>3. Whole(f.to) \in Motions /\ Whole(f.to).from = f.to /\ Whole(f.to).to = f.to
  BY <1>2, WholeFacts DEF Segments
<1>4. Held \in Motions /\ CleanNow(j, Held.from) /\ CleanNow(j, Held.to)
  <2>1. Held \in Motions /\ Held.from = 0 /\ Held.to = 0
    BY WholeFacts, GateAssumption DEF Held
  <2>2. CleanNow(j, 0)
    BY CmdFacts DEF CleanNow, GateInv, RefusedKnown
  <2> QED
    BY <2>1, <2>2
<1>5. m = Whole(f.to) \/ m = c \/ (hook = "zero" /\ m = Held)
  BY DEF Out, GroupFrame, HookApplied
<1> HIDE DEF f, c, m
<1> QED
  BY <1>1, <1>2, <1>3, <1>4, <1>5 DEF m
-----------------------------------------------------------------------------
(* The invariant is kept.                                                  *)

LEMMA GateInvInit == GateInit => GateInv
<1> SUFFICES ASSUME GateInit PROVE GateInv
  OBVIOUS
<1>1. last = NoCommand /\ box = NoCommand /\ last.seq = 0 /\ box.seq = 0 /\ Moved(last) = {}
  BY DEF GateInit, NoCommand, Moved
<1>2. /\ onTimeout \in OnTimeouts /\ mit \in MitSets /\ grouped \in BOOLEAN
      /\ seq = 0 /\ silence = 0 /\ overwrites = 0 /\ fired = FALSE
      /\ target = [j \in Joints |-> Held] /\ sent = target /\ did = {} /\ published = FALSE
      /\ taken = {} /\ refused = {} /\ acted = 0 /\ safed = {} /\ estopDue = FALSE
  BY DEF GateInit
<1>3. 0 \in 0 .. MaxSeq /\ Held \in Motions /\ Held.from = 0 /\ Held.to = 0
  BY WholeFacts, GateAssumption DEF Held
<1>4. \A j \in Joints : interp[j].from = 0 /\ interp[j].to = 0 /\ interp[j].seen = 0
  BY DEF GateInit
<1>5. interp \in [Joints -> Segments]
  BY <1>3, GateAssumption DEF GateInit, Segments
<1>6. GateTypeOK
  <2>1. target \in [Joints -> Motions] /\ sent \in [Joints -> Motions]
    BY <1>2, <1>3
  <2>2. seq \in 0 .. MaxSeq /\ silence \in 0 .. Limit + 1 /\ overwrites \in 0 .. MaxSeq /\ acted \in Nat
    BY <1>2, GateAssumption
  <2> QED
    BY <1>1, <1>2, <1>5, <2>1, <2>2 DEF GateTypeOK
<1>7. Counting
  <2>1. Overwritten = {}
    BY <1>2 DEF Overwritten, Missed
  <2>2. overwrites = Cardinality(Overwritten)
    BY <1>2, <2>1, FS_EmptySet
  <2>3. last.seq <= seq /\ taken \subseteq 1 .. last.seq /\ (last.seq # 0 => last.seq \in taken)
    BY <1>1, <1>2
  <2> QED
    BY <2>2, <2>3 DEF Counting
<1>8. Timing
  <2>1. ~(silence > Limit)
    <3>1. silence = 0 /\ Limit \in Nat
      BY <1>2, GateAssumption
    <3> QED
      BY <3>1
  <2>2. fired = (silence > Limit)
    <3>1. fired = FALSE
      BY <1>2
    <3>2. (silence > Limit) = FALSE
      BY <2>1
    <3> QED
      BY <3>1, <3>2, Zenon
  <2>3. TimeoutActsOnce
    BY <1>2, <2>1 DEF TimeoutActsOnce
  <2> QED
    BY <1>2, <2>2, <2>3 DEF Timing
<1>9. RefusedKnown
  BY <1>2 DEF RefusedKnown
<1>10. \A j \in Joints : Traceless(j) /\ OnTheWay(j) /\ Forgotten(j)
  BY <1>1, <1>2, <1>3, <1>4 DEF Traceless, OnTheWay, Forgotten, Clean
<1>11. ReachedInTime
  BY <1>1 DEF ReachedInTime
<1> QED
  BY <1>6, <1>7, <1>8, <1>9, <1>10, <1>11 DEF GateInv

\* A command that is submitted only waits: no number in use is the new one.
LEMMA SubmitKeeps ==
  ASSUME GateInv, NEW c, Submit(c)
  PROVE  GateInv'
<1>1. /\ c \in Commands /\ c.seq = seq + 1 /\ seq' = c.seq /\ box' = c
      /\ refused' = refused \cup {<<c.seq, j>> : j \in c.wrong}
      /\ estopDue' = (estopDue \/ c.kind = "estop")
      /\ UNCHANGED <<onTimeout, mit, grouped, last, silence, overwrites, fired, interp, target, sent, did,
                     published, taken, acted, safed>>
  BY DEF Submit, config
<1>2. c.seq \in 1 .. MaxSeq /\ c.wrong \subseteq Joints
  BY <1>1 DEF Commands
<1>3. seq \in Nat /\ last.seq \in Nat /\ last.seq <= seq /\ refused \subseteq (1 .. seq) \X Joints /\ c.seq = seq + 1
      /\ c.seq # last.seq
  BY <1>1, <1>2, CmdFacts, GateAssumption DEF GateInv, GateTypeOK, Counting, RefusedKnown
<1>4. GateTypeOK'
  <2>1. refused' \subseteq (1 .. MaxSeq) \X Joints
    BY <1>1, <1>2 DEF GateInv, GateTypeOK
  <2>2. box' \in Commands \cup {NoCommand} /\ seq' \in 0 .. MaxSeq /\ estopDue' \in BOOLEAN
    BY <1>1, <1>2 DEF GateInv, GateTypeOK
  <2>3. box'.seq # 0 => box'.seq = seq' /\ last'.seq < box'.seq
    BY <1>1, <1>3
  <2> QED
    BY <1>1, <2>1, <2>2, <2>3 DEF GateInv, GateTypeOK
<1>5. Counting' /\ Timing' /\ ReachedInTime'
  BY <1>1, <1>3 DEF GateInv, Counting, Overwritten, Timing, TimeoutActsOnce, ReachedInTime
<1>6. \A n, j : <<n, j>> \in refused' => <<n, j>> \in refused \/ (n = c.seq /\ j \in c.wrong)
  BY <1>1
<1>7. RefusedKnown'
  <2>1. refused' \subseteq (1 .. seq') \X Joints
    <3>1. c.seq \in 1 .. seq' /\ 1 .. seq \subseteq 1 .. seq'
      BY <1>1, <1>3
    <3> QED
      BY <1>1, <1>2, <1>3, <3>1
  <2>2. ASSUME NEW j \in Joints, <<box'.seq, j>> \in refused' PROVE j \in box'.wrong
    <3>1. <<c.seq, j>> \notin refused
      BY <1>3
    <3> QED
      BY <1>1, <1>6, <2>2, <3>1
  <2>3. ASSUME NEW j \in Joints, <<last'.seq, j>> \in refused' PROVE j \in last'.wrong
    BY <1>1, <1>3, <1>6, <2>3 DEF GateInv, RefusedKnown
  <2> QED
    BY <2>1, <2>2, <2>3 DEF RefusedKnown
<1>8. ASSUME NEW j \in Joints, NEW n, Clean(j, n) PROVE Clean(j, n)'
  BY <1>1, <1>3, <1>6, <1>8 DEF Clean
<1>9. ASSUME NEW j \in Joints PROVE (Traceless(j) /\ OnTheWay(j) /\ Forgotten(j))'
  <2>1. Traceless(j) /\ OnTheWay(j) /\ Forgotten(j)
    BY DEF GateInv
  <2>2. Traceless(j)'
    BY <1>1, <1>8, <2>1 DEF Traceless
  <2> QED
    BY <1>1, <2>1, <2>2 DEF OnTheWay, Forgotten
<1> QED
  BY <1>4, <1>5, <1>7, <1>9 DEF GateInv
-----------------------------------------------------------------------------
(* A cycle keeps the invariant.                                            *)

\* The commands between the one before and the new one are those that were overwritten.
LEMMA MissedFacts ==
  ASSUME NEW S, NEW l \in Nat, NEW n \in Nat, l < n, S \subseteq 1 .. l, l # 0 => l \in S
  PROVE  Cardinality(Missed(S \cup {n}, n)) = Cardinality(Missed(S, l)) + (IF l # 0 THEN n - l - 1 ELSE 0)
<1>1. IsFiniteSet(Missed(S, l)) /\ Cardinality(Missed(S, l)) \in Nat
  <2>1. IsFiniteSet(1 .. l) /\ Missed(S, l) \subseteq 1 .. l
    BY FS_Interval DEF Missed
  <2>2. IsFiniteSet(Missed(S, l))
    BY <2>1, FS_Subset
  <2> QED
    BY <2>2, FS_CardinalityType
<1>2. CASE l = 0
  <2>1. S = {} /\ Missed(S, l) = {}
    BY <1>2 DEF Missed
  <2>2. Missed(S \cup {n}, n) = {}
    BY <2>1 DEF Missed
  <2> QED
    BY <1>2, <2>1, <2>2, FS_EmptySet
<1>3. CASE l # 0
  <2> DEFINE gap == l + 1 .. n - 1
  <2>1. Missed(S \cup {n}, n) = Missed(S, l) \cup gap
    <3>1. ASSUME NEW k \in Missed(S \cup {n}, n) PROVE k \in Missed(S, l) \cup gap
      BY <1>3, <3>1 DEF Missed
    <3>2. ASSUME NEW k \in Missed(S, l) PROVE k \in Missed(S \cup {n}, n)
      BY <3>2 DEF Missed
    <3>3. ASSUME NEW k \in gap PROVE k \in Missed(S \cup {n}, n)
      <4>1. k \in 1 .. n /\ k \notin S \cup {n} /\ l < k /\ l \in S
        BY <1>3, <3>3
      <4> QED
        BY <4>1 DEF Missed
    <3> QED
      BY <3>1, <3>2, <3>3
  <2>2. IsFiniteSet(gap) /\ Cardinality(gap) = n - l - 1
    <3>1. l + 1 \in Int /\ n - 1 \in Int
      OBVIOUS
    <3>2. IsFiniteSet(gap) /\ Cardinality(gap) = IF l + 1 > n - 1 THEN 0 ELSE (n - 1) - (l + 1) + 1
      BY <3>1, FS_Interval
    <3> HIDE DEF gap
    <3> QED
      BY <3>2
  <2>3. Missed(S, l) \cap gap = {}
    BY DEF Missed
  <2> HIDE DEF gap
  <2>4. Cardinality(Missed(S, l) \cup gap)
          = Cardinality(Missed(S, l)) + Cardinality(gap) - Cardinality(Missed(S, l) \cap gap)
    BY <1>1, <2>2, FS_Union
  <2>5. Cardinality(Missed(S, l) \cap gap) = 0
    BY <2>3, FS_EmptySet
  <2>6. Cardinality(Missed(S \cup {n}, n)) = Cardinality(Missed(S, l) \cup gap)
    BY <2>1, Zenon
  <2>7. Cardinality(Missed(S, l) \cup gap) = Cardinality(Missed(S, l)) + (n - l - 1)
    BY <1>1, <2>2, <2>4, <2>5
  <2> QED
    BY <1>3, <2>6, <2>7
<1> QED
  BY <1>2, <1>3

LEMMA MissedAreFew ==
  ASSUME NEW S, NEW l \in Nat
  PROVE  Cardinality(Missed(S, l)) \in 0 .. l
<1>1. IsFiniteSet(1 .. l) /\ Cardinality(1 .. l) = l
  <2>1. IsFiniteSet(1 .. l) /\ Cardinality(1 .. l) = IF 1 > l THEN 0 ELSE l - 1 + 1
    BY FS_Interval
  <2> QED
    BY <2>1
<1>2. Missed(S, l) \subseteq 1 .. l
  BY DEF Missed
<1>3. IsFiniteSet(Missed(S, l)) /\ Cardinality(Missed(S, l)) <= Cardinality(1 .. l)
  BY <1>1, <1>2, FS_Subset
<1>4. Cardinality(Missed(S, l)) \in Nat
  BY <1>3, FS_CardinalityType
<1> QED
  BY <1>1, <1>3, <1>4

LEMMA CycleCounts ==
  ASSUME GateInv, NEW gap \in Gaps, NEW hook \in Hooks, NEW on_ \in BOOLEAN, Cycle(gap, hook, on_)
  PROVE  Counting' /\ overwrites' \in 0 .. MaxSeq /\ taken' \subseteq 1 .. MaxSeq
<1>1. /\ last' = Cmd /\ overwrites' = overwrites + (IF Took THEN GapCounts(box) ELSE 0)
      /\ taken' = (IF Took THEN taken \cup {box.seq} ELSE taken) /\ seq' = seq
  BY CycleParts
<1>2. /\ last.seq \in 0 .. MaxSeq /\ Cmd.seq \in 0 .. MaxSeq /\ last.seq <= Cmd.seq /\ Cmd.seq <= seq
      /\ Took => last.seq < Cmd.seq /\ Cmd = box
      /\ ~Took => Cmd = last
  BY CmdFacts DEF Cmd
<1>3. /\ taken \subseteq 1 .. last.seq /\ (last.seq # 0 => last.seq \in taken)
      /\ overwrites = Cardinality(Missed(taken, last.seq)) /\ MaxSeq \in Nat
  BY GateAssumption DEF GateInv, Counting, Overwritten
<1> DEFINE l == last.seq
           n == Cmd.seq
           S == taken
           T == taken'
<1>4. l \in Nat /\ n \in Nat /\ last'.seq = n /\ l <= MaxSeq /\ n <= MaxSeq /\ l <= n
  BY <1>1, <1>2, <1>3
<1>5. Took => T = S \cup {n} /\ l < n /\ GapCounts(box) = IF l # 0 THEN n - l - 1 ELSE 0
  <2>1. Took => box = Cmd /\ T = S \cup {n} /\ l < n
    BY <1>1, <1>2
  <2> QED
    BY <2>1 DEF GapCounts
<1>6. ~Took => T = S /\ l = n /\ overwrites' = overwrites
  BY <1>1, <1>2 DEF GateInv, GateTypeOK
<1>7. overwrites = Cardinality(Missed(S, l)) /\ S \subseteq 1 .. l /\ (l # 0 => l \in S)
  BY <1>3
<1>8. overwrites' = Cardinality(Missed(T, n)) /\ T \subseteq 1 .. n /\ (n # 0 => n \in T)
  <2>1. Cardinality(Missed(S, l)) \in 0 .. l
    BY <1>4, MissedAreFew
  <2>2. CASE Took
    <3>1. overwrites' = overwrites + GapCounts(box)
      BY <1>1, <2>2
    <3>2. T = S \cup {n} /\ l < n /\ GapCounts(box) = IF l # 0 THEN n - l - 1 ELSE 0
      BY <1>5, <2>2
    <3> HIDE DEF l, n, S, T
    <3>3. Cardinality(Missed(S \cup {n}, n)) = Cardinality(Missed(S, l)) + (IF l # 0 THEN n - l - 1 ELSE 0)
      BY <1>4, <1>7, <3>2, MissedFacts
    <3>4. T \subseteq 1 .. n /\ (n # 0 => n \in T)
      BY <1>4, <1>7, <3>2
    <3> QED
      BY <1>7, <3>1, <3>2, <3>3, <3>4
  <2>3. CASE ~Took
    <3> HIDE DEF l, n, S, T
    <3> QED
      BY <1>4, <1>6, <1>7, <2>1, <2>3
  <2> QED
    BY <2>2, <2>3
<1>9. overwrites' \in 0 .. MaxSeq /\ taken' \subseteq 1 .. MaxSeq
  <2>1. Cardinality(Missed(T, n)) \in 0 .. n
    BY <1>4, MissedAreFew
  <2>2. T \subseteq 1 .. MaxSeq
    <3> HIDE DEF n, T
    <3> QED
      BY <1>3, <1>4, <1>8
  <2> QED
    BY <1>3, <1>4, <1>8, <2>1, <2>2
<1>10. Counting'
  <2>1. Overwritten' = Missed(T, n)
    BY <1>4 DEF Overwritten
  <2>2. last'.seq <= seq'
    BY <1>1, <1>2
  <2> QED
    BY <1>4, <1>8, <2>1, <2>2 DEF Counting
<1> QED
  BY <1>9, <1>10

\* The timeout acts in the first cycle that is too late, and not again before a command
\* is taken.
LEMMA CycleTimes ==
  ASSUME GateInv, NEW gap \in Gaps, NEW hook \in Hooks, NEW on_ \in BOOLEAN, Cycle(gap, hook, on_)
  PROVE  Timing' /\ silence' \in 0 .. Limit + 1 /\ fired' \in BOOLEAN /\ acted' \in Nat
<1>1. /\ last' = Cmd /\ silence' = Quiet(gap) /\ fired' = (Quiet(gap) > Limit)
      /\ acted' = (IF Took THEN 0 ELSE acted) + (IF Acts(gap) THEN 1 ELSE 0)
  BY CycleParts
<1> DEFINE late == silence > Limit
           q == Quiet(gap)
           lateNow == q > Limit
<1>2. Acts(gap) <=> lateNow /\ ~fired
  BY DEF Acts, TimeoutActs
<1>3. (fired <=> late) /\ (last.seq = 0 => silence = 0) /\ acted = IF late THEN 1 ELSE 0
  BY DEF GateInv, Timing, TimeoutActsOnce
<1>4. /\ gap \in Nat \ {0} /\ silence \in 0 .. Limit + 1 /\ Limit \in Nat /\ q \in 0 .. Limit + 1
      /\ Took \/ Cmd.seq = 0 => q = 0
      /\ ~Took /\ Cmd.seq # 0 => q \in {silence + gap, Limit + 1} /\ q <= silence + gap
  BY QuietFacts
<1>5. ~Took => Cmd = last
  BY CmdFacts
<1> HIDE DEF q
<1>6. Took \/ Cmd.seq = 0 => ~lateNow
  BY <1>4
<1>7. ~Took /\ late => lateNow
  <2>1. ~Took /\ late => Cmd.seq # 0
    BY <1>3, <1>4, <1>5
  <2> QED
    BY <1>4, <2>1
<1>8. Acts(gap) <=> lateNow /\ ~late
  BY <1>2, <1>3
<1> HIDE DEF late, lateNow
<1>9. acted' = IF lateNow THEN 1 ELSE 0
  <2>1. CASE Took
    BY <1>1, <1>6, <1>8, <2>1
  <2>2. CASE ~Took
    BY <1>1, <1>3, <1>7, <1>8, <2>2
  <2> QED
    BY <2>1, <2>2
<1>10. silence' = q /\ fired' = (q > Limit) /\ last'.seq = Cmd.seq
  BY <1>1 DEF q
<1>11. fired' = (silence' > Limit)
  BY <1>10
<1>12. last'.seq = 0 => silence' = 0
  BY <1>4, <1>10
<1>13. TimeoutActsOnce'
  BY <1>9, <1>10 DEF TimeoutActsOnce, lateNow
<1>14. Timing'
  BY <1>11, <1>12, <1>13 DEF Timing
<1>15. silence' \in 0 .. Limit + 1 /\ fired' \in BOOLEAN
  BY <1>4, <1>10
<1>16. acted' \in Nat
  BY <1>9
<1> QED
  BY <1>14, <1>15, <1>16

\* What a cycle does to the joints.
LEMMA CycleMotions ==
  ASSUME NEW gap, NEW hook, NEW on_, Cycle(gap, hook, on_)
  PROVE  /\ interp' = [j \in Joints |-> IF Clears(gap, hook) THEN Cleared(After(gap)[j]) ELSE After(gap)[j]]
         /\ sent' = Out(gap, hook, on_)
         /\ target' = [j \in Joints |-> IF Holds(gap) THEN Held ELSE Out(gap, hook, on_)[j]]
  BY DEF Cycle, Took, Cmd, Quiet, AgedAll, After, Commanded, Out, Acts, Holds, Clears

\* A cycle in which the hook asks for no torque has that done.
LEMMA ActionsDone ==
  ASSUME NEW gap, NEW hook, NEW on_, Cycle(gap, hook, on_)
  PROVE  did' \subseteq {"zero", "estop"} /\ ("zero" \notin did' => hook # "zero")
<1>1. did' = {a \in {"zero", "estop"} :
               \/ hook = a
               \/ a = "estop" /\ (Cmd.kind = "estop" \/ (Acts(gap) /\ onTimeout = "estop"))}
  BY DEF Cycle, Took, Cmd, Quiet, Acts
<1> QED
  BY <1>1

\* The frames of a cycle carry a motion for each joint.
LEMMA OutType ==
  ASSUME GateInv, NEW gap \in Gaps, NEW hook, NEW on_
  PROVE  Out(gap, hook, on_) \in [Joints -> Motions]
<1>1. Commanded(gap) = [j \in Joints |-> Commanded(gap)[j]]
  BY DEF Commanded, TargetApplied, GateInv, GateTypeOK
<1>2. Out(gap, hook, on_) = [j \in Joints |-> Out(gap, hook, on_)[j]]
  BY <1>1 DEF Out, GroupFrame, HookApplied
<1>3. \A j \in Joints : Out(gap, hook, on_)[j] \in Motions
  BY OutFacts
<1> QED
  BY <1>2, <1>3

\* The interpolation of a joint after the cycle.
LEMMA InterpFacts ==
  ASSUME GateInv, NEW gap \in Gaps, NEW hook \in Hooks, NEW on_ \in BOOLEAN, Cycle(gap, hook, on_),
         NEW j \in Joints
  PROVE  LET f == After(gap)[j]
             i == interp'[j] IN
         /\ i \in Segments /\ i.from = f.from /\ i.to = f.to /\ i.seen = f.seen
         /\ i.elapsed = f.elapsed /\ i.length = f.length
         /\ (i.active => f.active) /\ (i.have => f.have /\ ~Clears(gap, hook))
<1>1. After(gap)[j] \in Segments
  BY AfterFacts
<1>2. interp'[j] = IF Clears(gap, hook) THEN Cleared(After(gap)[j]) ELSE After(gap)[j]
  <2>1. interp' = [k \in Joints |-> IF Clears(gap, hook) THEN Cleared(After(gap)[k]) ELSE After(gap)[k]]
    BY CycleMotions
  <2> QED
    BY <2>1
<1>3. CASE Clears(gap, hook)
  BY <1>1, <1>2, <1>3, ClearedFacts
<1>4. CASE ~Clears(gap, hook)
  BY <1>1, <1>2, <1>4
<1> QED
  BY <1>3, <1>4

LEMMA CycleTypes ==
  ASSUME GateInv, NEW gap \in Gaps, NEW hook \in Hooks, NEW on_ \in BOOLEAN, Cycle(gap, hook, on_)
  PROVE  GateTypeOK'
<1>1. /\ onTimeout' \in OnTimeouts /\ mit' \in MitSets /\ grouped' \in BOOLEAN /\ seq' \in 0 .. MaxSeq
      /\ refused' \subseteq (1 .. MaxSeq) \X Joints /\ published' \in BOOLEAN /\ estopDue' \in BOOLEAN
  <2>1. UNCHANGED <<config, seq, refused>> /\ published' = TRUE /\ estopDue' = FALSE
    BY CycleParts, Zenon
  <2>2. UNCHANGED <<onTimeout, mit, grouped, seq, refused>>
    BY <2>1 DEF config
  <2>3. /\ onTimeout \in OnTimeouts /\ mit \in MitSets /\ grouped \in BOOLEAN /\ seq \in 0 .. MaxSeq
        /\ refused \subseteq (1 .. MaxSeq) \X Joints
    BY DEF GateInv, GateTypeOK
  <2> QED
    BY <2>1, <2>2, <2>3
<1>2. box' \in Commands \cup {NoCommand} /\ last' \in Commands \cup {NoCommand} /\ box'.seq = 0
  <2>1. box' = NoCommand /\ last' = Cmd
    BY CycleParts, Zenon
  <2>2. NoCommand.seq = 0
    BY DEF NoCommand
  <2> QED
    BY <2>1, <2>2, CmdFacts DEF Mailed
<1>3. /\ silence' \in 0 .. Limit + 1 /\ overwrites' \in 0 .. MaxSeq /\ fired' \in BOOLEAN
      /\ taken' \subseteq 1 .. MaxSeq /\ acted' \in Nat
  BY CycleCounts, CycleTimes
<1>4. interp' \in [Joints -> Segments]
  <2>1. interp' = [j \in Joints |-> interp'[j]]
    BY CycleParts
  <2>2. \A j \in Joints : interp'[j] \in Segments
    BY InterpFacts
  <2> QED
    BY <2>1, <2>2
<1>5. sent' \in [Joints -> Motions] /\ target' \in [Joints -> Motions]
  <2>1. Held \in Motions
    BY WholeFacts, GateAssumption DEF Held
  <2>2. sent' = Out(gap, hook, on_)
        /\ target' = [j \in Joints |-> IF Holds(gap) THEN Held ELSE Out(gap, hook, on_)[j]]
    BY CycleMotions
  <2> QED
    BY <2>1, <2>2, OutType
<1>6. did' \subseteq {"zero", "estop"}
  BY ActionsDone
<1>7. safed' \subseteq Joints
  BY CycleParts DEF GateInv, GateTypeOK
<1> QED
  BY <1>1, <1>2, <1>3, <1>4, <1>5, <1>6, <1>7 DEF GateTypeOK

\* What the cycle leaves of the commands that joints refused.
LEMMA CycleRefused ==
  ASSUME GateInv, NEW gap \in Gaps, NEW hook \in Hooks, NEW on_ \in BOOLEAN, Cycle(gap, hook, on_)
  PROVE  RefusedKnown'
<1>1. box' = NoCommand /\ last' = Cmd /\ seq' = seq /\ refused' = refused
  BY CycleParts
<1>2. refused \subseteq (1 .. seq) \X Joints
  BY DEF GateInv, RefusedKnown
<1>3. \A j \in Joints : <<box'.seq, j>> \notin refused
  BY <1>1, <1>2 DEF NoCommand
<1>4. \A j \in Joints : <<Cmd.seq, j>> \in refused => j \in Cmd.wrong
  BY DEF GateInv, RefusedKnown, Cmd
<1> QED
  BY <1>1, <1>2, <1>3, <1>4 DEF RefusedKnown

\* What the cycle does to each joint.
LEMMA CycleJoint ==
  ASSUME GateInv, NEW gap \in Gaps, NEW hook \in Hooks, NEW on_ \in BOOLEAN, Cycle(gap, hook, on_),
         NEW j \in Joints
  PROVE  (Traceless(j) /\ OnTheWay(j) /\ Forgotten(j))'
<1> DEFINE f == After(gap)[j]
           i == interp'[j]
<1>1. /\ f \in Segments /\ f.seen <= Cmd.seq /\ CleanNow(j, f.from) /\ CleanNow(j, f.to)
      /\ j \in Moved(Cmd) => f.seen = Cmd.seq /\ f.to = Cmd.seq
      /\ j \in Moved(Cmd) /\ f.active => f.elapsed >= Quiet(gap) \/ f.elapsed >= f.length
      /\ Cmd.kind # "targets" => ~f.have
      /\ j \in safed /\ ~(Took /\ j \in Moved(box)) => ~f.have
  BY AfterFacts
<1>2. /\ i.from = f.from /\ i.to = f.to /\ i.seen = f.seen
      /\ i.elapsed = f.elapsed /\ i.length = f.length
      /\ (i.active => f.active) /\ (i.have => f.have /\ ~Clears(gap, hook))
  BY InterpFacts
<1>3. /\ last' = Cmd /\ refused' = refused /\ silence' = Quiet(gap)
      /\ target'[j] = Held \/ target'[j] = Out(gap, hook, on_)[j]
      /\ safed' = IF Clears(gap, hook) \/ Cmd.kind # "targets" THEN Joints
                  ELSE IF Took THEN safed \ Moved(box) ELSE safed
  <2>1. last' = Cmd /\ UNCHANGED <<config, seq, refused>> /\ silence' = Quiet(gap)
        /\ safed' = IF Clears(gap, hook) \/ Cmd.kind # "targets" THEN Joints
                    ELSE IF Took THEN safed \ Moved(box) ELSE safed
    BY CycleParts, Zenon
  <2>2. target' = [k \in Joints |-> IF Holds(gap) THEN Held ELSE Out(gap, hook, on_)[k]]
    BY CycleMotions
  <2>3. target'[j] = Held \/ target'[j] = Out(gap, hook, on_)[j]
    BY <2>2
  <2> QED
    BY <2>1, <2>3, Zenon
<1>4. CleanNow(j, target'[j].from) /\ CleanNow(j, target'[j].to)
  <2>1. CleanNow(j, Out(gap, hook, on_)[j].from) /\ CleanNow(j, Out(gap, hook, on_)[j].to)
    BY OutFacts
  <2>2. CleanNow(j, Held.from) /\ CleanNow(j, Held.to)
    <3>1. Held.from = 0 /\ Held.to = 0
      BY WholeFacts, GateAssumption DEF Held
    <3>2. CleanNow(j, 0)
      BY CmdFacts DEF CleanNow, GateInv, RefusedKnown
    <3> QED
      BY <3>1, <3>2
  <2> QED
    BY <1>3, <2>1, <2>2
<1> HIDE DEF f
<1>5. Traceless(j)'
  BY <1>1, <1>2, <1>3, <1>4 DEF Traceless, Clean, CleanNow
<1>6. OnTheWay(j)'
  BY <1>1, <1>2, <1>3 DEF OnTheWay
<1>7. Forgotten(j)'
  BY <1>1, <1>2, <1>3 DEF Forgotten
<1> QED
  BY <1>5, <1>6, <1>7

\* The frames of a cycle in which a joint was long enough commanded carry its target.
LEMMA CycleReaches ==
  ASSUME GateInv, NEW gap \in Gaps, NEW hook \in Hooks, NEW on_ \in BOOLEAN, Cycle(gap, hook, on_)
  PROVE  ReachedInTime'
<1>1. last' = Cmd /\ silence' = Quiet(gap) /\ sent' = Out(gap, hook, on_) /\ ("zero" \notin did' => hook # "zero")
  <2>1. last' = Cmd /\ silence' = Quiet(gap) /\ sent' = Out(gap, hook, on_)
    BY CycleParts, Zenon
  <2>2. "zero" \notin did' => hook # "zero"
    BY ActionsDone
  <2> QED
    BY <2>1, <2>2
<1>2. \A j \in Moved(Cmd) : hook # "zero" /\ Quiet(gap) >= MaxLength => Out(gap, hook, on_)[j] = Whole(Cmd.seq)
  BY CmdFacts, OutFacts
<1> QED
  BY <1>1, <1>2 DEF ReachedInTime

LEMMA GateInvStep == GateInv /\ [GateNext]_gateVars => GateInv'
<1> SUFFICES ASSUME GateInv, [GateNext]_gateVars PROVE GateInv'
  OBVIOUS
<1>1. ASSUME NEW entries, OnCmdMit(entries) PROVE GateInv'
  <2>1. PICK seen : Submit(Targets(entries \cap seen))
    BY <1>1 DEF OnCmdMit
  <2> QED
    BY <2>1, SubmitKeeps
<1>2. ASSUME NEW entries, NEW right, OnCmdMode(entries, right) PROVE GateInv'
  <2>1. PICK seen, finite : Submit([Targets(finite \ seen) EXCEPT !.wrong = {}])
    BY <1>2 DEF OnCmdMode
  <2> QED
    BY <2>1, SubmitKeeps
<1>3. CASE OnEstop
  BY <1>3, SubmitKeeps DEF OnEstop
<1>4. CASE ACycle
  <2>1. PICK gap \in Gaps, hook \in Hooks, on_ \in BOOLEAN : Cycle(gap, hook, on_)
    BY <1>4 DEF ACycle
  <2>2. GateTypeOK' /\ Counting' /\ Timing' /\ RefusedKnown' /\ ReachedInTime'
    BY <2>1, CycleTypes, CycleCounts, CycleTimes, CycleRefused, CycleReaches
  <2>3. \A j \in Joints : (Traceless(j) /\ OnTheWay(j) /\ Forgotten(j))'
    BY <2>1, CycleJoint
  <2> QED
    BY <2>2, <2>3 DEF GateInv
<1>5. CASE UNCHANGED gateVars
  BY <1>5 DEF gateVars, config, history, GateInv, GateTypeOK, Counting, Overwritten, Timing,
     TimeoutActsOnce, RefusedKnown, Traceless, Clean, OnTheWay, Forgotten, ReachedInTime
<1> QED
  BY <1>1, <1>2, <1>3, <1>4, <1>5 DEF GateNext

\* What the mailbox, the interpolation, the timeout and the counters know of one another.
THEOREM GateCorrect == GateSpec => []GateInv
  BY GateInvInit, GateInvStep, PTL DEF GateSpec

\* The variables of the command path keep their types, and a command is in the mailbox
\* until a cycle takes it.
THEOREM GateTypeCorrect == GateSpec => []GateTypeOK
<1>1. GateInv => GateTypeOK
  BY DEF GateInv
<1> QED
  BY <1>1, GateCorrect, PTL

\* Each command that was replaced in the mailbox, after the first one was taken, is
\* counted once (run_cycle() of jr_tick_group.cpp), whatever the order of callbacks and cycles.
THEOREM OverwritesAreCounted == GateSpec => []OverwritesCounted
<1>1. GateInv => OverwritesCounted
  BY DEF GateInv, Counting, Overwritten, Missed, OverwritesCounted
<1> QED
  BY <1>1, GateCorrect, PTL

\* The command timeout acts once in a silence that is too long, and in no other.
THEOREM TimeoutIsOnce == GateSpec => []TimeoutActsOnce
<1>1. GateInv => TimeoutActsOnce
  BY DEF GateInv, Timing
<1> QED
  BY <1>1, GateCorrect, PTL

\* A target of the wrong mode reaches neither the SDK nor an interpolation, in this cycle
\* or in a later one that applies the old command again.
THEOREM RefusedIsDropped == GateSpec => []RefusedLeavesNoTrace
<1>1. GateInv => RefusedLeavesNoTrace
  BY DEF GateInv, Traceless, Clean, RefusedLeavesNoTrace
<1> QED
  BY <1>1, GateCorrect, PTL

\* A joint that is commanded without a break is sent its target after the longest
\* segment, however late the cycles were.
THEOREM TargetsAreReached == GateSpec => []ReachedInTime
<1>1. GateInv => ReachedInTime
  BY DEF GateInv
<1> QED
  BY <1>1, GateCorrect, PTL

\* After a safety action the interpolation does not lead from an old target to the first
\* new one.
THEOREM SafetyForgets == GateSpec => FirstAfterSafetyIsWhole
<1>1. GateInv /\ [GateNext]_gateVars
        => [ACycle /\ "zero" \notin did' => \A j \in Moved(box) \cap safed : sent'[j] = Whole(box.seq)]_gateVars
  <2> SUFFICES ASSUME GateInv, ACycle, "zero" \notin did', NEW j \in Moved(box) \cap safed
               PROVE  sent'[j] = Whole(box.seq)
    OBVIOUS
  <2>1. PICK gap \in Gaps, hook \in Hooks, on_ \in BOOLEAN : Cycle(gap, hook, on_)
    BY DEF ACycle
  <2>2. sent' = Out(gap, hook, on_)
    BY <2>1, CycleParts, Zenon
  <2>3. hook # "zero"
    BY <2>1, ActionsDone
  <2>4. Took
    BY DEF GateInv, GateTypeOK, Commands, NoCommand, Moved, Took
  <2>5. Cmd = box /\ j \in Joints
    BY <2>4, CmdFacts DEF Cmd
  <2> QED
    BY <2>1, <2>2, <2>3, <2>4, <2>5, OutFacts
<1> QED
  BY <1>1, GateCorrect, PTL DEF GateSpec, FirstAfterSafetyIsWhole
=============================================================================
