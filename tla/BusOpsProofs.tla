---------------------------- MODULE BusOpsProofs ----------------------------
(***************************************************************************)
(* Proofs about the blocking operations of a bus, for any number of joints *)
(* and of items: what is saved and when, and what the answers and the      *)
(* reports about parameters mean.                                          *)
(***************************************************************************)
EXTENDS BusOps, SequenceTheorems, TLAPS

Locations ==
  {"idle", "read", "write", "save", "each", "flags", "configure", "clear",
   "ask", "enabling", "hold", "disabling"}

Shape(items) ==
  /\ Len(items) \in Nat /\ DOMAIN items = 1 .. Len(items)
  /\ \A k \in DOMAIN items : items[k].joint \in 0 .. N /\ items[k].given \in Nat

OpsTypeOK ==
  /\ live \in [Joints -> Stored] /\ flash \in [Joints -> Stored]
  /\ power \in [Joints -> {"off", "asked", "on", "stopping"}]
  /\ calibrated \in [Joints -> BOOLEAN] /\ report \in [Joints -> BOOLEAN]
  /\ req.op \in Ops /\ Shape(req.items)
  /\ req.op = "jog" => 1 \in DOMAIN req.items /\ req.items[1].joint \in Joints
  /\ at \in Locations /\ n \in Nat \ {0}
  /\ res \in [DOMAIN req.items -> {"todo", "ok", "failed", "unverified", "verified", "consumed"}]

\* Where an operation is, and what it may do there.
WhereInv ==
  /\ at # "idle" => answer = "none" /\ persisted = {}
  /\ at = "read" => req.op = "read" /\ n \in 1 .. N
  /\ at = "write" => req.op = "write" /\ (req.flag => allowFlash)
  /\ at = "save" => /\ req.op \in {"write", "save"} /\ Persists(req) /\ allowFlash
                    /\ ~AnyItem("failed")
  /\ at = "each" => /\ req.op \in PerJoint \cup {"faultReset"}
                    /\ req.op = "nodeId" /\ req.flag => allowFlash /\ ~AnyItem("failed")
  /\ at = "flags" => req.op = "calibrate"
  /\ at = "configure" => req.op \in {"reset", "faultReset"}
  /\ at = "clear" => req.op = "faultReset"
  /\ at \in {"ask", "enabling", "hold", "disabling"} => req.op = "jog"

\* What has been done up to here.
ProgressInv ==
  /\ at = "read" => \A k \in DOMAIN res : res[k] = "todo" => req.items[k].joint >= n
  /\ at = "write" => \A k \in DOMAIN res : res[k] = "todo" => k >= n
  /\ at = "save" /\ req.op = "write" => ~AnyItem("todo")
  /\ at = "each" \/ (at = "save" /\ req.op = "save") =>
       \A k \in DOMAIN res : k < n => req.items[k].joint \in done
  /\ at = "clear" =>
       \A k \in DOMAIN res : k < n => req.items[k].joint \in done \/ res[k] = "failed"
  /\ at \in {"flags", "configure"} => Selected \subseteq done
  /\ at = "flags" => \A k \in DOMAIN res : k < n => calibrated[req.items[k].joint]

\* What a verified item has left, as far as the request has come.
FinalSoFar(k) ==
  \A l \in DOMAIN res : l > k /\ (at = "write" => l < n) => req.items[l].joint # req.items[k].joint

VerifyInv ==
  /\ \A k \in DOMAIN res : req.items[k].joint = 0 => res[k] = "failed"
  /\ at = "write" => \A k \in DOMAIN res : k >= n => res[k] \in {"todo", "failed"}
  /\ at \in {"write", "save"} /\ req.op = "write" =>
       \A k \in DOMAIN res : res[k] = "verified" /\ FinalSoFar(k) =>
         live[req.items[k].joint] = Requested(req, k)
  /\ at \in {"write", "save"} /\ req.op = "write" => \A j \in Joints : j \in done => at = "save" /\ j < n
  /\ at = "save" /\ req.op = "write" => \A j \in Joints : j < n => flash[j] = live[j]

WholeInv  == ProgressInv /\ OkIsWhole
ReportInv == VerifyInv /\ VerifiedIsLive /\ PersistedIsInFlash

\* The steps of an operation leave the request alone.
Kept == UNCHANGED <<req, requests, allowFlash>>

-----------------------------------------------------------------------------
LEMMA Remainder ==
  ASSUME NEW a \in Nat, NEW b \in Nat \ {0}
  PROVE  a % b \in 0 .. b - 1
  OBVIOUS

\* A list of items is a sequence.
LEMMA ListShape ==
  ASSUME NEW S, NEW s \in Lists(S)
  PROVE  Len(s) \in Nat /\ DOMAIN s = 1 .. Len(s) /\ \A k \in DOMAIN s : s[k] \in S
<1>1. PICK k \in Nat : s \in [1 .. k -> S]
  BY OpsAssumption DEF Lists
<1>2. s \in Seq(S)
  BY <1>1, SeqDef
<1> QED
  BY <1>2, LenProperties

\* What every request has.
LEMMA RequestShape ==
  ASSUME NEW r \in Requests
  PROVE  /\ r.op \in Ops /\ Shape(r.items)
         /\ r.op \notin {"read", "write"} => \A k \in DOMAIN r.items : r.items[k].joint # 0
         /\ r.op = "jog" => 1 \in DOMAIN r.items /\ r.items[1].joint \in Joints
<1>1. CASE r.op = "write"
  <2>1. r.items \in Lists(Item)
    BY <1>1 DEF Requests, PerJoint
  <2> QED
    BY <1>1, <2>1, ListShape, OpsAssumption DEF Item, Shape, Ops
<1>2. CASE r.op = "read"
  <2>1. r.items \in Lists([joint : 0 .. N, given : {0}])
    BY <1>2 DEF Requests, PerJoint
  <2>2. Len(r.items) \in Nat /\ DOMAIN r.items = 1 .. Len(r.items)
        /\ \A k \in DOMAIN r.items : r.items[k] \in [joint : 0 .. N, given : {0}]
    BY <2>1, ListShape
  <2> QED
    BY <1>2, <2>2 DEF Shape, Ops
<1>3. CASE r.op \notin {"read", "write"}
  <2>1. r.op \in Ops /\ r.items \in Selection /\ (r.op = "jog" => Len(r.items) = 1)
    BY <1>3 DEF Requests, OneJoint, PerJoint, Ops
  <2>2. PICK s \in Lists(Joints) : r.items = [k \in DOMAIN s |-> [joint |-> s[k], given |-> 0]]
    BY <2>1 DEF Selection, Selections
  <2>3. Len(s) \in Nat /\ DOMAIN s = 1 .. Len(s) /\ \A k \in DOMAIN s : s[k] \in Joints
    BY <2>2, ListShape
  <2>4. r.items \in Seq([joint : Joints, given : {0}])
    BY <2>2, <2>3, SeqDef
  <2>5. Len(r.items) \in Nat /\ DOMAIN r.items = 1 .. Len(r.items)
        /\ \A k \in DOMAIN r.items : r.items[k] \in [joint : Joints, given : {0}]
    BY <2>4, LenProperties
  <2>6. \A k \in DOMAIN r.items :
           r.items[k].joint \in Joints /\ r.items[k].joint \in 0 .. N /\ r.items[k].joint # 0
           /\ r.items[k].given \in Nat
    BY <2>5, OpsAssumption DEF Joints
  <2>7. r.op = "jog" => 1 \in DOMAIN r.items
    <3>1. SUFFICES ASSUME r.op = "jog" PROVE 1 \in DOMAIN r.items
      OBVIOUS
    <3>2. Len(r.items) = 1
      BY ONLY <2>1, <3>1
    <3>3. DOMAIN r.items = 1 .. Len(r.items)
      BY ONLY <2>5
    <3> QED
      BY ONLY <3>2, <3>3
  <2> QED
    BY <1>3, <2>1, <2>5, <2>6, <2>7 DEF Shape
<1> QED
  BY <1>1, <1>2, <1>3

-----------------------------------------------------------------------------
\* Every step keeps the types.
LEMMA TypeStep ==
  ASSUME OpsTypeOK, [Next]_vars
  PROVE  OpsTypeOK'
<1> USE OpsAssumption DEF OpsTypeOK, Locations, PerJoint, devices, results
<1>1. ASSUME NEW r \in Requests, Serve(r), UNCHANGED allowFlash PROVE OpsTypeOK'
  <2>1. req' = r /\ n' = 1 /\ at' \in {"idle", FirstStep(r.op)}
        /\ res' = [k \in DOMAIN r.items |-> IF r.items[k].joint = 0 THEN "failed" ELSE "todo"]
        /\ power' \in {power, [j \in Joints |-> "off"]}
        /\ UNCHANGED <<live, flash, calibrated, report>>
    BY <1>1 DEF Serve
  <2>2. r.op \in Ops /\ Shape(r.items)
        /\ (r.op = "jog" => 1 \in DOMAIN r.items /\ r.items[1].joint \in Joints)
    BY RequestShape
  <2>3. FirstStep(r.op) \in Locations
    BY <2>2 DEF FirstStep, Locations, Ops, PerJoint
  <2>4. power' \in [Joints -> {"off", "asked", "on", "stopping"}]
    BY <2>1
  <2>5. res' \in [DOMAIN r.items -> {"todo", "ok", "failed", "unverified", "verified", "consumed"}]
    BY <2>1
  <2>6. at' \in Locations /\ n' \in Nat \ {0}
    BY <2>1, <2>3 DEF Locations
  <2> QED
    BY <2>1, <2>2, <2>4, <2>5, <2>6 DEF Locations
<1>2. CASE Read /\ Kept
  BY <1>2 DEF Kept, Read, Stay
<1>3. CASE WriteItem /\ Kept
  <2>1. n \in DOMAIN req.items
    BY <1>3 DEF WriteItem, Over, Shape
  <2>2. Requested(req, n) \in Stored
    BY <2>1, OpsAssumption, Remainder DEF Requested, Stored, Shape
  <2>3. live' \in [Joints -> Stored]
    BY <1>3, <2>2 DEF WriteItem
  <2>4. res' \in [DOMAIN req.items -> {"todo", "ok", "failed", "unverified", "verified", "consumed"}]
    BY <1>3, <2>1 DEF WriteItem, Result
  <2> QED
    BY <1>3, <2>3, <2>4 DEF Kept, WriteItem, Stay
<1>4. CASE WriteDone /\ Kept
  BY <1>4 DEF Kept, WriteDone, Over, Turn, Answer, AnyItem, Worst
<1>5. CASE SaveJoint /\ Kept
  <2>1. \E j : flash' \in {flash, [flash EXCEPT ![j] = live[j]]}
    BY <1>5 DEF SaveJoint
  <2>2. flash' \in [Joints -> Stored]
    BY <2>1
  <2>3. at' \in {"save", "idle"} /\ n' \in {n, n + 1}
    BY <1>5 DEF SaveJoint, Stay, Answer
  <2>4. \E j : live' \in {live, [live EXCEPT ![j] = flash'[j]]}
    BY <1>5 DEF SaveJoint, Reboots
  <2>5. live' \in [Joints -> Stored]
    BY <2>2, <2>4
  <2>6. calibrated' \in [Joints -> BOOLEAN]
    BY <1>5 DEF SaveJoint, Reboots
  <2>7. UNCHANGED <<power, res, report, req>>
    BY <1>5 DEF SaveJoint, Kept
  <2> QED
    BY <2>2, <2>3, <2>5, <2>6, <2>7
<1>6. CASE SaveDone /\ Kept
  BY <1>6 DEF Kept, SaveDone, Over, Answer, Worst, AnyItem, SaveList
<1>7. CASE EachJoint /\ Kept
  BY <1>7 DEF Kept, EachJoint, Effect, Reboots, Over, Stay, Answer
<1>8. CASE EachDone /\ Kept
  BY <1>8 DEF Kept, EachDone, Over, Turn, Answer
<1>9. CASE ReadFlag /\ Kept
  BY <1>9 DEF Kept, ReadFlag, ReadBack, Over, Stay, Answer
<1>10. CASE FlagsDone /\ Kept
  BY <1>10 DEF Kept, FlagsDone, ReadBack, Over, Answer
<1>11. CASE Reconfigure /\ Kept
  BY <1>11 DEF Kept, Reconfigure, ReadBack, Answer
<1>12. CASE ClearFault /\ Kept
  BY <1>12 DEF Kept, ClearFault, Over, Stay, Result
<1>13. CASE ClearDone /\ Kept
  BY <1>13 DEF Kept, ClearDone, Over, Answer, Turn, AnyItem
<1>14. CASE JogAsk /\ Kept
  BY <1>14 DEF Kept, JogAsk, JogStep, Powered
<1>15. CASE JogEnabled /\ Kept
  BY <1>15 DEF Kept, JogEnabled, JogStep
<1>16. CASE JogGivesUp /\ Kept
  BY <1>16 DEF Kept, JogGivesUp, Answer
<1>17. CASE JogRelease /\ Kept
  BY <1>17 DEF Kept, JogRelease, JogStep, Powered
<1>18. CASE JogEnds /\ Kept
  BY <1>18 DEF Kept, JogEnds, Answer
<1>19. ASSUME NEW j \in Joints, PowerStep(j), UNCHANGED allowFlash PROVE OpsTypeOK'
  BY <1>19 DEF PowerStep, Powered, Cycling
<1>20. ASSUME NEW j \in Joints, PowerCycle(j), UNCHANGED allowFlash PROVE OpsTypeOK'
  BY <1>20 DEF PowerCycle, Powered, Reboots
<1>22. CASE Return /\ UNCHANGED allowFlash
  BY <1>22 DEF Return, Shape, Ops, NoRequest
<1>21. CASE UNCHANGED vars
  BY <1>21 DEF vars
<1> QED
  BY <1>1, <1>2, <1>3, <1>4, <1>5, <1>6, <1>7, <1>8, <1>9, <1>10, <1>11, <1>12, <1>13, <1>14, <1>15, <1>16, <1>17, <1>18, <1>19, <1>20, <1>21, <1>22 DEF Next, OpStep, Kept

\* Every step keeps where an operation may be.
LEMMA WhereStep ==
  ASSUME OpsTypeOK, WhereInv, [Next]_vars
  PROVE  WhereInv'
<1> USE OpsAssumption DEF OpsTypeOK, WhereInv, PerJoint, Persists, AnyItem, devices, results
<1>1. ASSUME NEW r \in Requests, Serve(r), UNCHANGED allowFlash PROVE WhereInv'
  <2>1. req' = r /\ persisted' = {} /\ allowFlash' = allowFlash
        /\ res' = [k \in DOMAIN r.items |-> IF r.items[k].joint = 0 THEN "failed" ELSE "todo"]
    BY <1>1 DEF Serve
  <2>2. CASE at' = "idle"
    BY <2>2
  <2>3. CASE at' # "idle"
    <3>1. at' = FirstStep(r.op) /\ answer' = "none" /\ n' = 1 /\ (Persists(r) => allowFlash)
      BY <1>1, <2>3 DEF Serve, Refused, GateCloses
    <3>2. r.op \in Ops
      BY RequestShape
    <3>3. at' = "save" => r.op = "save" /\ \A k \in DOMAIN r.items : r.items[k].joint # 0
      BY <3>1, <3>2, RequestShape DEF FirstStep, Ops
    <3>4. at' = "save" => ~AnyItem("failed")'
      BY <2>1, <3>3
    <3>5. /\ at' = "read" => r.op = "read"
          /\ at' = "write" => r.op = "write" /\ (r.flag => allowFlash)
          /\ at' = "save" => r.op = "save"
          /\ at' = "each" => r.op \in PerJoint \cup {"faultReset"}
          /\ at' \notin {"flags", "configure", "enabling", "hold", "disabling"}
          /\ at' = "clear" => r.op = "faultReset"
          /\ at' = "ask" => r.op = "jog"
      BY <3>1, <3>2 DEF FirstStep, Ops
    <3>6. /\ at' # "idle" => answer' = "none" /\ persisted' = {}
          /\ at' = "read" => req'.op = "read" /\ n' \in 1 .. N
          /\ at' = "write" => req'.op = "write" /\ (req'.flag => allowFlash')
      BY <2>1, <3>1, <3>5
    <3>8. at' = "each" /\ r.op = "nodeId" => (\A k \in DOMAIN res' : res'[k] # "failed") /\ (r.flag => allowFlash)
      BY <2>1, <3>1, RequestShape DEF Ops
    <3>7. at' = "save" => /\ req'.op \in {"write", "save"} /\ allowFlash' /\ ~AnyItem("failed")'
                         /\ (req'.op = "save" \/ (req'.op = "write" /\ req'.flag))
      BY <2>1, <3>1, <3>3, <3>4
    <3> QED
      BY <2>1, <3>5, <3>6, <3>7, <3>8
  <2> QED
    BY <2>2, <2>3
<1>2. CASE Read /\ Kept
  BY <1>2 DEF Kept, Read, Stay
<1>3. CASE WriteItem /\ Kept
  BY <1>3 DEF Kept, WriteItem, Over, Stay, Result
<1>4. CASE WriteDone /\ Kept
  BY <1>4 DEF Kept, WriteDone, Over, Turn, Answer, AnyItem, Worst
<1>5. CASE SaveJoint /\ Kept
  BY <1>5 DEF Kept, SaveJoint, Reboots, Over, Stay, Answer, SaveList
<1>6. CASE SaveDone /\ Kept
  BY <1>6 DEF Kept, SaveDone, Over, Answer, Worst, AnyItem, SaveList
<1>7. CASE EachJoint /\ Kept
  BY <1>7 DEF Kept, EachJoint, Effect, Reboots, Over, Stay, Answer
<1>8. CASE EachDone /\ Kept
  BY <1>8 DEF Kept, EachDone, Over, Turn, Answer
<1>9. CASE ReadFlag /\ Kept
  BY <1>9 DEF Kept, ReadFlag, ReadBack, Over, Stay, Answer
<1>10. CASE FlagsDone /\ Kept
  BY <1>10 DEF Kept, FlagsDone, ReadBack, Over, Answer
<1>11. CASE Reconfigure /\ Kept
  BY <1>11 DEF Kept, Reconfigure, ReadBack, Answer
<1>12. CASE ClearFault /\ Kept
  BY <1>12 DEF Kept, ClearFault, Over, Stay, Result
<1>13. CASE ClearDone /\ Kept
  BY <1>13 DEF Kept, ClearDone, Over, Answer, Turn, AnyItem
<1>14. CASE JogAsk /\ Kept
  BY <1>14 DEF Kept, JogAsk, JogStep, Powered
<1>15. CASE JogEnabled /\ Kept
  BY <1>15 DEF Kept, JogEnabled, JogStep
<1>16. CASE JogGivesUp /\ Kept
  BY <1>16 DEF Kept, JogGivesUp, Answer
<1>17. CASE JogRelease /\ Kept
  BY <1>17 DEF Kept, JogRelease, JogStep, Powered
<1>18. CASE JogEnds /\ Kept
  BY <1>18 DEF Kept, JogEnds, Answer
<1>19. ASSUME NEW j \in Joints, PowerStep(j), UNCHANGED allowFlash PROVE WhereInv'
  BY <1>19 DEF PowerStep, Powered, Cycling
<1>20. ASSUME NEW j \in Joints, PowerCycle(j), UNCHANGED allowFlash PROVE WhereInv'
  BY <1>20 DEF PowerCycle, Powered, Reboots
<1>22. CASE Return /\ UNCHANGED allowFlash
  BY <1>22 DEF Return, NoRequest
<1>21. CASE UNCHANGED vars
  BY <1>21 DEF vars
<1> QED
  BY <1>1, <1>2, <1>3, <1>4, <1>5, <1>6, <1>7, <1>8, <1>9, <1>10, <1>11, <1>12, <1>13, <1>14, <1>15, <1>16, <1>17, <1>18, <1>19, <1>20, <1>21, <1>22 DEF Next, OpStep, Kept

\* Every step keeps what has been done, and what an answer says of it.
LEMMA ProgressStep ==
  ASSUME OpsTypeOK, WhereInv, WholeInv, [Next]_vars
  PROVE  WholeInv'
<1> USE OpsAssumption DEF OpsTypeOK, WhereInv, WholeInv, ProgressInv, OkIsWhole, PerJoint, AnyItem, Selected, Shape, devices, results
<1>1. ASSUME NEW r \in Requests, Serve(r), UNCHANGED allowFlash PROVE WholeInv'
  <2>1. answer' \in {"none", "refused"} /\ n' = 1 /\ req' = r
        /\ res' = [k \in DOMAIN r.items |-> IF r.items[k].joint = 0 THEN "failed" ELSE "todo"]
    BY <1>1 DEF Serve
  <2>2. at' \in {"idle", FirstStep(r.op)}
    BY <1>1 DEF Serve
  <2>3. at' \notin {"flags", "configure"} /\ (at' = "save" => r.op = "save")
    BY <2>2, RequestShape DEF FirstStep, Ops
  <2>4. \A k \in DOMAIN res' : k >= 1 /\ ~(k < 1) /\ (res'[k] = "todo" => r.items[k].joint >= 1)
    BY <2>1, RequestShape
  <2>5. OkIsWhole'
    BY <2>1
  <2>6. ProgressInv'
    BY <2>1, <2>3, <2>4
  <2> QED
    BY <2>5, <2>6
<1>2. CASE Read /\ Kept
  <2>1. /\ at = "read" /\ UNCHANGED <<req, done>> /\ req.op = "read" /\ n \in 1 .. N
        /\ \A k \in DOMAIN res : res[k] = "todo" => req.items[k].joint >= n
    BY <1>2 DEF Read, Kept
  <2>2. DOMAIN res' = DOMAIN res
        /\ \A k \in DOMAIN res : res'[k] = "todo" => res[k] = "todo" /\ req.items[k].joint # n
    <3>1. PICK got \in [DOMAIN res -> {"ok", "failed"}] :
            res' = [k \in DOMAIN res |-> IF req.items[k].joint = n THEN got[k] ELSE res[k]]
      BY ONLY <1>2 DEF Read
    <3> QED
      BY ONLY <3>1
  <2>3. \A k \in DOMAIN res : res'[k] = "todo" => req.items[k].joint >= n + 1
    BY <2>1, <2>2
  <2>4. CASE n < N
    <3>1. at' = "read" /\ n' = n + 1 /\ answer' = "none"
      BY <1>2, <2>1, <2>4 DEF Read, Stay
    <3> QED
      BY <2>1, <2>2, <2>3, <3>1
  <2>5. CASE ~(n < N)
    <3>1. at' = "idle" /\ (answer' = "ok" => ~\E k \in DOMAIN res : res'[k] = "failed")
      BY <1>2, <2>5 DEF Read
    <3>2. \A k \in DOMAIN res : res'[k] # "todo"
      BY <2>1, <2>3, <2>5
    <3> QED
      BY <2>1, <2>2, <3>1, <3>2
  <2> QED
    BY <2>4, <2>5
<1>3. CASE WriteItem /\ Kept
  <2>1. at = "write" /\ at' = "write" /\ n' = n + 1 /\ answer' = "none" /\ req' = req
        /\ n \in DOMAIN res
    BY <1>3 DEF WriteItem, Over, Stay, Kept
  <2>2. DOMAIN res' = DOMAIN res /\ res'[n] # "todo" /\ \A k \in DOMAIN res \ {n} : res'[k] = res[k]
    BY <1>3, <2>1 DEF WriteItem, Result
  <2>3. \A k \in DOMAIN res : res'[k] = "todo" => k >= n + 1
    BY <2>1, <2>2
  <2> QED
    BY <2>1, <2>2, <2>3
<1>4. CASE WriteDone /\ Kept
  BY <1>4 DEF Kept, WriteDone, Over, Turn, Answer, AnyItem, Worst
<1>5. CASE SaveJoint /\ Kept
  <2>1. at = "save" /\ res' = res /\ req' = req /\ answer = "none"
    BY <1>5 DEF SaveJoint, Kept
  <2>2. CASE Stay
    <3>1. at' = "save" /\ n' = n + 1 /\ answer' = "none"
      BY <2>1, <2>2 DEF Stay
    <3>2. done' = done \cup {SaveList[n]}
      BY <1>5, <2>1, <2>2, <3>1 DEF SaveJoint, Answer
    <3>3. req.op = "save" /\ n \in DOMAIN res => SaveList[n] = req.items[n].joint
      BY DEF SaveList
    <3>4. ASSUME req.op = "save", NEW k \in DOMAIN res, k < n + 1
          PROVE  req.items[k].joint \in done'
      <4>1. k < n => req.items[k].joint \in done
        BY <2>1, <3>4
      <4>2. k < n \/ k = n
        BY <3>4
      <4>3. k = n => req.items[k].joint = SaveList[n]
        BY ONLY <3>4, <3>3
      <4> QED
        BY ONLY <3>2, <4>1, <4>2, <4>3
    <3> QED
      BY <2>1, <3>1, <3>4
  <2>3. CASE Answer("unverified") \/ Answer("failed")
    BY <2>1, <2>3 DEF Answer
  <2> QED
    BY <1>5, <2>2, <2>3 DEF SaveJoint
<1>6. CASE SaveDone /\ Kept
  <2>1. at' = "idle" /\ res' = res /\ req' = req /\ done' = done /\ at = "save"
        /\ UNCHANGED <<calibrated, report>>
    BY <1>6 DEF SaveDone, Answer, Kept
  <2>2. CASE req.op = "write"
    <3>1. answer' = "ok" => ~AnyItem("failed") /\ ~AnyItem("todo")
      BY <1>6, <2>1, <2>2 DEF SaveDone
    <3> QED
      BY <2>1, <2>2, <3>1
  <2>3. CASE req.op = "save"
    <3>1. SaveList = [k \in DOMAIN req.items |-> req.items[k].joint]
      BY <2>3 DEF SaveList
    <3>2. SaveList \in Seq(0 .. N) /\ DOMAIN SaveList = 1 .. Len(req.items)
      BY <3>1, SeqDef
    <3>3. Len(SaveList) = Len(req.items)
      BY <3>2, LenProperties
    <3>4. \A k \in DOMAIN res : k < n
      BY <1>6, <3>3 DEF SaveDone, Over
    <3>5. Selected \subseteq done
      BY <2>1, <2>3, <3>4
    <3> QED
      BY <2>1, <2>3, <3>5
  <2> QED
    BY <2>1, <2>2, <2>3
<1>7. CASE EachJoint /\ Kept
  <2>1. at = "each" /\ req' = req /\ res' = res /\ n \in DOMAIN res
    BY <1>7 DEF EachJoint, Over, Kept
  <2>2. CASE Stay
    <3>1. at' = "each" /\ n' = n + 1 /\ answer' = "none" /\ done' = done \cup {req.items[n].joint}
      BY <1>7, <2>1, <2>2 DEF EachJoint, Stay, Answer
    <3>2. \A k \in DOMAIN res : k < n + 1 => k < n \/ k = n
      OBVIOUS
    <3>3. \A k \in DOMAIN res : k < n + 1 => req.items[k].joint \in done'
      BY ONLY <2>1, <3>1, <3>2, ProgressInv DEF ProgressInv
    <3>4. ProgressInv'
      BY ONLY <2>1, <3>1, <3>3 DEF ProgressInv
    <3>5. OkIsWhole'
      BY <3>1
    <3> QED
      BY <3>4, <3>5
  <2>3. CASE Answer("failed")
    BY <2>3 DEF Answer
  <2> QED
    BY <1>7, <2>2, <2>3 DEF EachJoint
<1>8. CASE EachDone /\ Kept
  <2>1. at = "each" /\ res' = res /\ done' = done /\ req' = req /\ UNCHANGED calibrated
        /\ \A k \in DOMAIN res : k < n
    BY <1>8 DEF EachDone, Over, Kept
  <2>2. Selected \subseteq done
    BY <2>1
  <2>3. \/ at' \in {"flags", "configure"} /\ n' = 1 /\ answer' = "none"
        \/ at' = "idle" /\ req.op \notin {"calibrate", "read", "write"}
    BY <1>8 DEF EachDone, Turn, Answer
  <2>4. \A k \in DOMAIN res : ~(k < 1)
    OBVIOUS
  <2>5. ProgressInv'
    BY <2>1, <2>2, <2>3, <2>4
  <2>6. OkIsWhole'
    BY <2>1, <2>2, <2>3
  <2> QED
    BY <2>5, <2>6
<1>9. CASE ReadFlag /\ Kept
  <2>1. at = "flags" /\ req' = req /\ res' = res /\ done' = done /\ calibrated' = calibrated
        /\ req.op = "calibrate"
    BY <1>9 DEF ReadFlag, Kept
  <2>2. CASE at' = "flags"
    <3>1. n' = n + 1 /\ answer' = "none" /\ calibrated[req.items[n].joint]
      BY <1>9, <2>1, <2>2 DEF ReadFlag, Stay, Answer
    <3>2. \A k \in DOMAIN res : k < n + 1 => k < n \/ k = n
      OBVIOUS
    <3>3. \A k \in DOMAIN res : k < n + 1 => calibrated[req.items[k].joint]
      BY <2>1, <3>1, <3>2
    <3>4. ProgressInv'
      BY ONLY <2>1, <2>2, <3>1, <3>3, ProgressInv DEF ProgressInv
    <3>5. OkIsWhole'
      BY <3>1
    <3> QED
      BY <3>4, <3>5
  <2>3. CASE at' # "flags"
    <3>1. at' = "idle" /\ answer' = "unverified"
      BY <1>9, <2>1, <2>3 DEF ReadFlag, Stay, Answer
    <3> QED
      BY <3>1
  <2> QED
    BY <2>2, <2>3
<1>10. CASE FlagsDone /\ Kept
  <2>1. at = "flags" /\ at' = "idle" /\ req' = req /\ res' = res /\ done' = done
        /\ calibrated' = calibrated /\ req.op = "calibrate"
        /\ \A k \in DOMAIN res : k < n
    BY <1>10 DEF FlagsDone, ReadBack, Over, Answer, Kept
  <2>2. Selected \subseteq done /\ \A j \in Selected : calibrated[j]
    BY <2>1
  <2>3. ProgressInv'
    BY ONLY <2>1 DEF ProgressInv
  <2>4. OkIsWhole'
    BY ONLY <2>1, <2>2 DEF OkIsWhole, Selected, PerJoint
  <2> QED
    BY <2>3, <2>4
<1>11. CASE Reconfigure /\ Kept
  BY <1>11 DEF Kept, Reconfigure, ReadBack, Answer
<1>12. CASE ClearFault /\ Kept
  <2>1. at = "clear" /\ at' = "clear" /\ n' = n + 1 /\ answer' = "none" /\ req' = req /\ n \in DOMAIN res
    BY <1>12 DEF ClearFault, Over, Stay, Kept
  <2>2. /\ DOMAIN res' = DOMAIN res /\ \A k \in DOMAIN res \ {n} : res'[k] = res[k]
        /\ \A j \in done : j \in done'
        /\ req.items[n].joint \in done' \/ res'[n] = "failed"
    BY <1>12, <2>1 DEF ClearFault, Result
  <2>3. \A k \in DOMAIN res : k < n + 1 => k < n \/ k = n
    OBVIOUS
  <2>4. \A k \in DOMAIN res : k < n + 1 => req.items[k].joint \in done' \/ res'[k] = "failed"
    BY <2>1, <2>2, <2>3
  <2> QED
    BY <2>1, <2>2, <2>4
<1>13. CASE ClearDone /\ Kept
  <2>1. at = "clear" /\ res' = res /\ req' = req /\ req.op = "faultReset"
        /\ \A k \in DOMAIN res : k < n /\ ~(k < 1)
    BY <1>13 DEF ClearDone, Over, Kept
  <2>2. CASE at' = "each"
    <3>1. n' = 1 /\ answer' = "none"
      BY <1>13, <2>2 DEF ClearDone, Turn, Answer
    <3> QED
      BY <2>1, <2>2, <3>1
  <2>3. CASE at' = "idle"
    <3>1. done' = done /\ (answer' = "ok" => ~AnyItem("failed"))
      BY <1>13, <2>3 DEF ClearDone, Turn, Answer
    <3>2. answer' = "ok" => Selected \subseteq done
      BY <2>1, <3>1
    <3> QED
      BY <2>1, <2>3, <3>1, <3>2
  <2> QED
    BY <1>13, <2>2, <2>3 DEF ClearDone, Turn, Answer
<1>14. CASE JogAsk /\ Kept
  BY <1>14 DEF Kept, JogAsk, JogStep, Powered
<1>15. CASE JogEnabled /\ Kept
  BY <1>15 DEF Kept, JogEnabled, JogStep
<1>16. CASE JogGivesUp /\ Kept
  BY <1>16 DEF Kept, JogGivesUp, Answer
<1>17. CASE JogRelease /\ Kept
  BY <1>17 DEF Kept, JogRelease, JogStep, Powered
<1>18. CASE JogEnds /\ Kept
  BY <1>18 DEF Kept, JogEnds, Answer
<1>19. ASSUME NEW j \in Joints, PowerStep(j), UNCHANGED allowFlash PROVE WholeInv'
  <2>1. UNCHANGED <<at, n, req, res, done, calibrated, report, answer>>
    BY <1>19 DEF PowerStep
  <2>2. ProgressInv'
    BY ONLY <2>1, ProgressInv DEF ProgressInv, AnyItem, Selected
  <2>3. OkIsWhole'
    BY ONLY <2>1, OkIsWhole DEF OkIsWhole, AnyItem, Selected
  <2> QED
    BY <2>2, <2>3
<1>20. ASSUME NEW j \in Joints, PowerCycle(j), UNCHANGED allowFlash PROVE WholeInv'
  BY <1>20 DEF PowerCycle, Powered, Reboots
<1>22. CASE Return /\ UNCHANGED allowFlash
  BY <1>22 DEF Return, NoRequest
<1>21. CASE UNCHANGED vars
  <2>1. ProgressInv'
    BY ONLY <1>21, ProgressInv DEF ProgressInv, vars, devices, results, AnyItem, Selected
  <2>2. OkIsWhole'
    BY ONLY <1>21, OkIsWhole DEF OkIsWhole, vars, devices, results, AnyItem, Selected
  <2> QED
    BY <2>1, <2>2
<1> QED
  BY <1>1, <1>2, <1>3, <1>4, <1>5, <1>6, <1>7, <1>8, <1>9, <1>10, <1>11, <1>12, <1>13, <1>14, <1>15, <1>16, <1>17, <1>18, <1>19, <1>20, <1>21, <1>22 DEF Next, OpStep, Kept

\* Every step keeps what the answer of a jog says.
LEMMA JogStepOk ==
  ASSUME OpsTypeOK, WhereInv, JogOkIsOff, [Next]_vars
  PROVE  JogOkIsOff'
<1> USE OpsAssumption DEF OpsTypeOK, WhereInv, JogOkIsOff, PerJoint, Jogged, devices, results
<1>1. ASSUME NEW r \in Requests, Serve(r), UNCHANGED allowFlash PROVE JogOkIsOff'
  BY <1>1, RequestShape DEF Serve, FirstStep, GateCloses, Refused
<1>2. CASE Read /\ Kept
  BY <1>2 DEF Kept, Read, Stay
<1>3. CASE WriteItem /\ Kept
  BY <1>3 DEF Kept, WriteItem, Over, Stay, Result
<1>4. CASE WriteDone /\ Kept
  BY <1>4 DEF Kept, WriteDone, Over, Turn, Answer, AnyItem, Worst
<1>5. CASE SaveJoint /\ Kept
  BY <1>5 DEF Kept, SaveJoint, Reboots, Over, Stay, Answer, SaveList
<1>6. CASE SaveDone /\ Kept
  BY <1>6 DEF Kept, SaveDone, Over, Answer, Worst, AnyItem, SaveList
<1>7. CASE EachJoint /\ Kept
  BY <1>7 DEF Kept, EachJoint, Effect, Reboots, Over, Stay, Answer
<1>8. CASE EachDone /\ Kept
  BY <1>8 DEF Kept, EachDone, Over, Turn, Answer
<1>9. CASE ReadFlag /\ Kept
  BY <1>9 DEF Kept, ReadFlag, ReadBack, Over, Stay, Answer
<1>10. CASE FlagsDone /\ Kept
  BY <1>10 DEF Kept, FlagsDone, ReadBack, Over, Answer
<1>11. CASE Reconfigure /\ Kept
  BY <1>11 DEF Kept, Reconfigure, ReadBack, Answer
<1>12. CASE ClearFault /\ Kept
  BY <1>12 DEF Kept, ClearFault, Over, Stay, Result
<1>13. CASE ClearDone /\ Kept
  BY <1>13 DEF Kept, ClearDone, Over, Answer, Turn, AnyItem
<1>14. CASE JogAsk /\ Kept
  BY <1>14 DEF Kept, JogAsk, JogStep, Powered
<1>15. CASE JogEnabled /\ Kept
  BY <1>15 DEF Kept, JogEnabled, JogStep
<1>16. CASE JogGivesUp /\ Kept
  BY <1>16 DEF Kept, JogGivesUp, Answer
<1>17. CASE JogRelease /\ Kept
  BY <1>17 DEF Kept, JogRelease, JogStep, Powered
<1>18. CASE JogEnds /\ Kept
  BY <1>18 DEF Kept, JogEnds, Answer
<1>19. ASSUME NEW j \in Joints, PowerStep(j), UNCHANGED allowFlash PROVE JogOkIsOff'
  <2>1. answer' = answer /\ req' = req
    BY <1>19 DEF PowerStep
  <2>2. ASSUME answer = "ok", req.op = "jog" PROVE power'[req.items[1].joint] = "off"
    <3>1. power[req.items[1].joint] = "off"
      BY <2>2
    <3>2. j # req.items[1].joint
      BY <1>19, <3>1 DEF PowerStep
    <3>3. req.items[1].joint \in Joints
      BY <2>2
    <3>4. \E what : power' = [power EXCEPT ![j] = what]
      BY <1>19 DEF PowerStep, Powered
    <3> QED
      BY <3>1, <3>2, <3>3, <3>4
  <2> QED
    BY <2>1, <2>2
<1>20. ASSUME NEW j \in Joints, PowerCycle(j), UNCHANGED allowFlash PROVE JogOkIsOff'
  BY <1>20 DEF PowerCycle, Powered, Reboots
<1>22. CASE Return /\ UNCHANGED allowFlash
  BY <1>22 DEF Return
<1>21. CASE UNCHANGED vars
  BY <1>21 DEF vars
<1> QED
  BY <1>1, <1>2, <1>3, <1>4, <1>5, <1>6, <1>7, <1>8, <1>9, <1>10, <1>11, <1>12, <1>13, <1>14, <1>15, <1>16, <1>17, <1>18, <1>19, <1>20, <1>21, <1>22 DEF Next, OpStep, Kept

\* Every step keeps what the reports about parameters say.
LEMMA VerifyStep ==
  ASSUME OpsTypeOK, WhereInv, ReportInv, [Next]_vars
  PROVE  ReportInv'
<1> USE OpsAssumption DEF OpsTypeOK, WhereInv, ReportInv, VerifyInv, VerifiedIsLive, PersistedIsInFlash, Answered, Final, FinalSoFar, Unsure, Shape, PerJoint, Requested, devices, results
<1>1. ASSUME NEW r \in Requests, Serve(r), UNCHANGED allowFlash PROVE ReportInv'
  BY <1>1, RequestShape DEF Serve, FirstStep, GateCloses, Refused
<1>2. CASE Read /\ Kept
  BY <1>2 DEF Kept, Read, Stay
<1>3. CASE WriteItem /\ Kept
  <2>1. at = "write" /\ at' = "write" /\ n' = n + 1 /\ answer' = "none" /\ req' = req
        /\ n \in DOMAIN res /\ req.op = "write"
    BY <1>3 DEF WriteItem, Over, Stay, Kept
  <2>2. DOMAIN res' = DOMAIN res /\ \A k \in DOMAIN res \ {n} : res'[k] = res[k]
    BY <1>3, <2>1 DEF WriteItem, Result
  <2>3. \A k \in DOMAIN res : req.items[k].joint = 0 => res'[k] = "failed"
    BY <1>3, <2>1, <2>2 DEF WriteItem
  <2>4. \A k \in DOMAIN res : k >= n + 1 => res'[k] \in {"todo", "failed"}
    BY ONLY <2>1, <2>2, OpsTypeOK, VerifyInv DEF OpsTypeOK, Shape, VerifyInv
  <2>5. ASSUME NEW k \in DOMAIN res, res'[k] = "verified",
               \A l \in DOMAIN res : l > k /\ l < n + 1 => req.items[l].joint # req.items[k].joint
        PROVE  live'[req.items[k].joint] = req.items[k].given % Width
    <3>1. req.items[k].joint \in Joints
      BY <2>3, <2>5, OpsAssumption DEF Joints
    <3>2. CASE res[n] = "failed"
      <4>1. res' = res /\ live' = live
        BY <1>3, <3>2 DEF WriteItem
      <4>2. \A l \in DOMAIN res : l > k /\ l < n => req.items[l].joint # req.items[k].joint
        BY ONLY <2>5, OpsTypeOK DEF OpsTypeOK, Shape
      <4> QED
        BY <2>1, <2>5, <4>1, <4>2
    <3>3. CASE res[n] # "failed" /\ k = n
      <4>1. PICK w : live' = [live EXCEPT ![req.items[n].joint] = w] /\ w = Requested(req, n)
        BY <1>3, <2>1, <2>5, <3>3 DEF WriteItem, Result
      <4> QED
        BY <3>1, <3>3, <4>1
    <3>4. CASE res[n] # "failed" /\ k # n
      <4>1. res[k] = "verified" /\ k < n
        BY ONLY <2>1, <2>2, <2>4, <2>5, <3>4, OpsTypeOK DEF OpsTypeOK, Shape
      <4>2. \A l \in DOMAIN res : l > k /\ l < n => req.items[l].joint # req.items[k].joint
        BY ONLY <2>5, OpsTypeOK DEF OpsTypeOK, Shape
      <4>3. live[req.items[k].joint] = req.items[k].given % Width
        BY <2>1, <4>1, <4>2
      <4>4. req.items[n].joint # req.items[k].joint
        BY ONLY <2>1, <2>5, <4>1, OpsTypeOK DEF OpsTypeOK, Shape
      <4>5. \E w : live' \in {live, [live EXCEPT ![req.items[n].joint] = w]}
        BY <1>3, <3>4 DEF WriteItem
      <4>6. live'[req.items[k].joint] = live[req.items[k].joint]
        BY <3>1, <4>4, <4>5
      <4> QED
        BY <4>3, <4>6
    <3> QED
      BY <3>2, <3>3, <3>4
  <2>6. done' = done /\ \A j \in Joints : j \notin done
    BY <1>3, <2>1 DEF WriteItem
  <2>7. VerifyInv'
    BY ONLY <2>1, <2>2, <2>3, <2>4, <2>5, <2>6 DEF VerifyInv, FinalSoFar, Requested
  <2> QED
    BY <2>1, <2>7
<1>4. CASE WriteDone /\ Kept
  <2>1. at = "write" /\ req' = req /\ res' = res /\ live' = live /\ flash' = flash /\ persisted' = persisted
        /\ done' = done /\ persisted = {} /\ req.op = "write" /\ \A k \in DOMAIN res : k < n
    BY <1>4 DEF WriteDone, Over, Kept
  <2>2. \A k \in DOMAIN res : res[k] = "verified"
           /\ (\A l \in DOMAIN res : l > k => req.items[l].joint # req.items[k].joint)
           => live[req.items[k].joint] = req.items[k].given % Width
    BY <2>1
  <2>3. at' = "idle" \/ (at' = "save" /\ n' = 1 /\ answer' = "none")
    BY <1>4, <2>1 DEF WriteDone, Turn, Answer
  <2>4. \A k \in DOMAIN res : req.items[k].joint = 0 => res[k] = "failed"
    OBVIOUS
  <2>5. \A j \in Joints : ~(j < 1) /\ j \notin done
    <3>1. \A j \in Joints : j \notin done
      BY ONLY <2>1, VerifyInv DEF VerifyInv
    <3> QED
      BY ONLY <3>1, OpsAssumption DEF Joints
  <2>6. VerifyInv'
    BY ONLY <2>1, <2>2, <2>3, <2>4, <2>5 DEF VerifyInv, FinalSoFar, Requested
  <2>7. VerifiedIsLive' /\ PersistedIsInFlash'
    BY ONLY <2>1, <2>2 DEF VerifiedIsLive, PersistedIsInFlash, Final, Requested
  <2> QED
    BY <2>6, <2>7
<1>5. CASE SaveJoint /\ Kept
  <2> DEFINE j == SaveList[n]
  <2>1. at = "save" /\ req' = req /\ res' = res /\ persisted' = {} /\ answer = "none"
        /\ flashSent' = flashSent \cup {j}
    BY <1>5 DEF SaveJoint, Kept
  <2>2. req.op = "write" => \A k \in DOMAIN res : res[k] = "verified"
           /\ (\A l \in DOMAIN res : l > k => req.items[l].joint # req.items[k].joint)
           => live[req.items[k].joint] = req.items[k].given % Width
    BY <2>1
  <2>3. \A k \in DOMAIN res : req.items[k].joint = 0 => res[k] = "failed"
    OBVIOUS
  <2>4. PersistedIsInFlash'
    BY ONLY <2>1 DEF PersistedIsInFlash
  <2>5. req.op = "write" => j = n
    BY <1>5 DEF SaveJoint, SaveList, Over
  <2>6. CASE Stay
    <3>1. at' = "save" /\ n' = n + 1 /\ answer' = "none" /\ live' = live
          /\ flash' = [flash EXCEPT ![j] = live[j]] /\ done' = done \cup {j}
      BY <1>5, <2>1, <2>6 DEF SaveJoint, Stay, Answer
    <3>2. ASSUME req.op = "write", NEW i \in Joints
          PROVE  (i \in done' => i < n + 1) /\ (i < n + 1 => flash'[i] = live[i])
      <4>1. i \in Nat /\ n \in Nat /\ (i < n => flash[i] = live[i]) /\ (i \in done => i < n)
        BY <2>1, <3>2 DEF Joints
      <4> QED
        BY <2>5, <3>1, <3>2, <4>1
    <3>3. VerifyInv'
      BY ONLY <2>1, <2>2, <2>3, <3>1, <3>2 DEF VerifyInv, FinalSoFar, Requested
    <3> QED
      BY <2>4, <3>1, <3>3
  <2>7. CASE ~Stay
    <3>1. at' = "idle" /\ done' = done
      BY <1>5, <2>1, <2>7 DEF SaveJoint, Answer
    <3>2. \E v : live' \in {live, [live EXCEPT ![j] = v]}
      BY <1>5, <2>7 DEF SaveJoint, Reboots
    <3>3. req.op = "write" /\ n \in Joints => n \notin done
      BY <2>1
    <3>4. ASSUME req.op = "write", NEW k \in DOMAIN res, res[k] = "verified",
                 \A l \in DOMAIN res : l > k => req.items[l].joint # req.items[k].joint,
                 req.items[k].joint \notin flashSent' \ done'
          PROVE  live'[req.items[k].joint] = req.items[k].given % Width
      <4>1. req.items[k].joint \in Joints
        BY <2>3, <3>4, OpsAssumption DEF Joints
      <4>2. req.items[k].joint # j
        BY <2>1, <2>5, <3>1, <3>3, <3>4, <4>1
      <4> QED
        BY <2>2, <3>2, <3>4, <4>1, <4>2
    <3>5. VerifiedIsLive'
      BY ONLY <2>1, <3>4 DEF VerifiedIsLive, Final, Requested, Unsure
    <3>6. VerifyInv'
      BY ONLY <2>1, <2>3, <3>1 DEF VerifyInv
    <3> QED
      BY <2>4, <3>5, <3>6
  <2> QED
    BY <2>6, <2>7
<1>6. CASE SaveDone /\ Kept
  <2>1. at = "save" /\ at' = "idle" /\ req' = req /\ res' = res /\ live' = live /\ flash' = flash
        /\ UNCHANGED <<done, flashSent>> /\ (req.op # "write" => persisted' = {})
        /\ (req.op = "write" => persisted' = {k \in DOMAIN res : res[k] \in {"verified", "consumed"}})
    BY <1>6 DEF SaveDone, Answer, Kept
  <2>2. req.op = "write" => \A k \in DOMAIN res : res[k] = "verified"
           /\ (\A l \in DOMAIN res : l > k => req.items[l].joint # req.items[k].joint)
           => live[req.items[k].joint] = req.items[k].given % Width
    BY <2>1
  <2>3. \A k \in DOMAIN res : req.items[k].joint = 0 => res[k] = "failed"
    OBVIOUS
  <2>4. ASSUME req.op = "write", NEW j \in Joints PROVE flash[j] = live[j]
    <3>1. SaveList = [k \in Joints |-> k]
      BY <2>4 DEF SaveList
    <3>2. SaveList \in Seq(Joints) /\ DOMAIN SaveList = 1 .. N
      BY <3>1, SeqDef, OpsAssumption DEF Joints
    <3>3. Len(SaveList) = N
      BY <3>2, LenProperties, OpsAssumption
    <3>4. j < n
      BY <1>6, <3>3, OpsAssumption DEF SaveDone, Over, Joints
    <3> QED
      BY <2>1, <2>4, <3>4
  <2>5. \A k \in DOMAIN res : res[k] = "verified" => req.items[k].joint \in Joints
    BY <2>3, OpsAssumption DEF Joints
  <2>6. VerifyInv'
    BY ONLY <2>1, <2>3 DEF VerifyInv
  <2>7. VerifiedIsLive'
    BY ONLY <2>1, <2>2 DEF VerifiedIsLive, Final, Requested
  <2>8. PersistedIsInFlash'
    BY ONLY <2>1, <2>2, <2>4, <2>5 DEF PersistedIsInFlash, Final, Requested
  <2> QED
    BY <2>6, <2>7, <2>8
<1>7. CASE EachJoint /\ Kept
  BY <1>7 DEF Kept, EachJoint, Effect, Reboots, Over, Stay, Answer
<1>8. CASE EachDone /\ Kept
  BY <1>8 DEF Kept, EachDone, Over, Turn, Answer
<1>9. CASE ReadFlag /\ Kept
  BY <1>9 DEF Kept, ReadFlag, ReadBack, Over, Stay, Answer
<1>10. CASE FlagsDone /\ Kept
  BY <1>10 DEF Kept, FlagsDone, ReadBack, Over, Answer
<1>11. CASE Reconfigure /\ Kept
  BY <1>11 DEF Kept, Reconfigure, ReadBack, Answer
<1>12. CASE ClearFault /\ Kept
  BY <1>12 DEF Kept, ClearFault, Over, Stay, Result
<1>13. CASE ClearDone /\ Kept
  BY <1>13 DEF Kept, ClearDone, Over, Answer, Turn, AnyItem
<1>14. CASE JogAsk /\ Kept
  BY <1>14 DEF Kept, JogAsk, JogStep, Powered
<1>15. CASE JogEnabled /\ Kept
  BY <1>15 DEF Kept, JogEnabled, JogStep
<1>16. CASE JogGivesUp /\ Kept
  BY <1>16 DEF Kept, JogGivesUp, Answer
<1>17. CASE JogRelease /\ Kept
  BY <1>17 DEF Kept, JogRelease, JogStep, Powered
<1>18. CASE JogEnds /\ Kept
  BY <1>18 DEF Kept, JogEnds, Answer
<1>19. ASSUME NEW j \in Joints, PowerStep(j), UNCHANGED allowFlash PROVE ReportInv'
  BY <1>19 DEF PowerStep, Powered, Cycling
<1>20. ASSUME NEW j \in Joints, PowerCycle(j), UNCHANGED allowFlash PROVE ReportInv'
  BY <1>20 DEF PowerCycle, Powered, Reboots
<1>22. CASE Return /\ UNCHANGED allowFlash
  BY <1>22 DEF Return, NoRequest
<1>21. CASE UNCHANGED vars
  BY <1>21 DEF vars
<1> QED
  BY <1>1, <1>2, <1>3, <1>4, <1>5, <1>6, <1>7, <1>8, <1>9, <1>10, <1>11, <1>12, <1>13, <1>14, <1>15, <1>16, <1>17, <1>18, <1>19, <1>20, <1>21, <1>22 DEF Next, OpStep, Kept

-----------------------------------------------------------------------------
OpsInv == OpsTypeOK /\ WhereInv

\* Types and places need nothing else.
LEMMA OpsCorrect == Spec => []OpsInv
<1>1. Init => OpsInv
  <2> SUFFICES ASSUME Init PROVE OpsInv
    OBVIOUS
  <2>1. OpsTypeOK
    BY OpsAssumption DEF Init, OpsTypeOK, Shape, Stored, Locations, Ops, NoRequest
  <2>2. WhereInv
    BY DEF Init, WhereInv
  <2> QED
    BY <2>1, <2>2 DEF OpsInv
<1>2. OpsInv /\ [Next]_vars => OpsInv'
  BY TypeStep, WhereStep DEF OpsInv
<1> QED
  BY <1>1, <1>2, PTL DEF Spec

\* An operation that answers OK was carried out for every joint it was asked for, for
\* any number of joints.
THEOREM OkMeansWhole == Spec => []OkIsWhole
<1>1. Init => WholeInv
  BY DEF Init, WholeInv, ProgressInv, OkIsWhole
<1>2. OpsInv /\ WholeInv /\ [Next]_vars => WholeInv'
  BY ProgressStep DEF OpsInv
<1>3. WholeInv => OkIsWhole
  BY DEF WholeInv
<1> QED
  BY <1>1, <1>2, <1>3, OpsCorrect, PTL DEF Spec

\* A jog that answers OK has left its joint off.
THEOREM JogEndsOff == Spec => []JogOkIsOff
<1>1. Init => JogOkIsOff
  BY DEF Init, JogOkIsOff
<1>2. OpsInv /\ JogOkIsOff /\ [Next]_vars => JogOkIsOff'
  BY JogStepOk DEF OpsInv
<1> QED
  BY <1>1, <1>2, OpsCorrect, PTL DEF Spec

\* The reports of write_params() are consistent with the devices, while it runs and after.
LEMMA ReportsCorrect == Spec => []ReportInv
<1>1. Init => ReportInv
  BY DEF Init, ReportInv, VerifyInv, VerifiedIsLive, PersistedIsInFlash, Answered
<1>2. OpsInv /\ ReportInv /\ [Next]_vars => ReportInv'
  BY VerifyStep DEF OpsInv
<1> QED
  BY <1>1, <1>2, OpsCorrect, PTL DEF Spec

\* An item that write_params() reports as verified is what the device has, for any
\* joints, items and widths.
THEOREM ReportsAreTrue == Spec => []VerifiedIsLive
<1>1. ReportInv => VerifiedIsLive
  BY DEF ReportInv
<1> QED
  BY <1>1, ReportsCorrect, PTL

\* An item that write_params() reports as persisted is in the device's flash as it is in
\* its RAM: all the joints of the bus were saved after the last write.
THEOREM PersistedReportsAreTrue == Spec => []PersistedIsInFlash
<1>1. ReportInv => PersistedIsInFlash
  BY DEF ReportInv
<1> QED
  BY <1>1, ReportsCorrect, PTL

\* No device writes its flash unless the configuration allows it, the request says so,
\* and no item of it has failed; or a zero is set that the device itself stores.
THEOREM FlashNotByAccident == Spec => FlashOnDemand
<1> DEFINE Allowed(j) == \/ allowFlash /\ Persists(req) /\ ~AnyItem("failed")
                         \/ req.op = "zero" /\ j \in MitJoints
<1>1. ASSUME OpsInv, Next, NEW j \in Joints, flash'[j] # flash[j] \/ j \in flashSent' \ flashSent
      PROVE  Allowed(j)
  <2>1. SaveJoint \/ EachJoint
    BY <1>1 DEF Next, OpStep, Serve, Return, Read, WriteItem, WriteDone, SaveJoint, SaveDone, EachJoint,
       EachDone, ReadFlag, FlagsDone, Reconfigure, ClearFault, ClearDone, JogAsk, JogEnabled,
       JogGivesUp, JogRelease, JogEnds, JogStep, PowerStep, PowerCycle, devices, results
  <2>2. CASE SaveJoint
    BY <1>1, <2>2 DEF SaveJoint, OpsInv, WhereInv
  <2>3. CASE EachJoint
    <3>1. at = "each" /\ n \in DOMAIN req.items
      BY <1>1, <2>3 DEF EachJoint, Over, OpsInv, OpsTypeOK, Shape
    <3>2. Effect(req.items[n].joint)
      BY <1>1, <2>3 DEF EachJoint, devices
    <3>3. CASE req.op = "nodeId" /\ req.flag
      BY <1>1, <3>1, <3>3 DEF OpsInv, WhereInv, Persists
    <3>4. CASE ~(req.op = "nodeId" /\ req.flag)
      <4>1. flash' = flash
        BY <3>2, <3>4 DEF Effect
      <4>2. WritesFlash(req.items[n].joint) /\ j = req.items[n].joint
        BY <1>1, <3>2, <4>1 DEF Effect
      <4> QED
        BY <3>4, <4>2 DEF WritesFlash
    <3> QED
      BY <3>3, <3>4
  <2> QED
    BY <2>1, <2>2, <2>3
<1>2. OpsInv /\ [Next]_vars =>
        [\A j \in Joints : flash'[j] # flash[j] \/ j \in flashSent' \ flashSent => Allowed(j)]_vars
  BY <1>1
<1> QED
  BY <1>2, OpsCorrect, PTL DEF Spec, FlashOnDemand
=============================================================================
