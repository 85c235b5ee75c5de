------------------------ MODULE SystemHardwareProofs ------------------------
(***************************************************************************)
(* Proofs about the snapshot exchange, for any readers and any number of   *)
(* snapshots: the spin lock excludes, no copy is torn, and the exchange is *)
(* the LatestValue.  Then about the ros2_control component that runs it:   *)
(* it does with the exchange what the exchange alone may do, a component   *)
(* that is not active powers no joint, and read() is never late.           *)
(***************************************************************************)
EXTENDS SystemHardware, TLAPS

(***************************************************************************)
(* The exchange.                                                           *)
(***************************************************************************)

\* A pair whose one half is replaced.
LEMMA HalfOfPair ==
  ASSUME NEW p \in Nat \X Nat, NEW n \in Nat
  PROVE  /\ [p EXCEPT ![1] = n] \in Nat \X Nat
         /\ [p EXCEPT ![1] = n][1] = n /\ [p EXCEPT ![1] = n][2] = p[2]
         /\ [p EXCEPT ![2] = n] \in Nat \X Nat
         /\ [p EXCEPT ![2] = n][2] = n /\ [p EXCEPT ![2] = n][1] = p[1]
         /\ p[1] \in Nat /\ p[2] \in Nat
  OBVIOUS

-----------------------------------------------------------------------------
(* The inductive invariant.                                                *)

WriterInside == wpc \in {"half", "rest", "fresh", "unlock"}
ReaderInside(r) == rpc[r] \in {"test", "half", "rest", "clear", "unlock"}

\* Who is at a location inside the lock holds it.
LockHeld ==
  /\ lock = "writer" <=> WriterInside
  /\ \A r \in Readers : lock = r <=> ReaderInside(r)

\* How much of the staged snapshot has reached live_.
LiveInv ==
  /\ wpc \in {"lock", "half", "rest", "fresh"} => staging # 0
  /\ live[1] = IF wpc \in {"lock", "half"} THEN staging - 1 ELSE staging
  /\ live[2] = IF wpc \in {"lock", "half", "rest"} THEN staging - 1 ELSE staging

\* How much of live_ has reached the copy of a reader.
CopyInv(r) ==
  /\ rpc[r] \in {"half", "rest", "clear"} => fresh
  /\ rpc[r] \in {"rest", "clear"} => stage[r][1] = live[1]
  /\ rpc[r] # "rest" => stage[r][1] = stage[r][2]

ExchangeInv ==
  /\ ExchangeTypeOK
  /\ LockHeld
  /\ LiveInv
  /\ \A r \in Readers : CopyInv(r)

-----------------------------------------------------------------------------
(* The lock.                                                               *)

\* Readers and writer exclude each other, and so do two readers.
LEMMA InsideAlone ==
  ASSUME ExchangeInv, NEW r \in Readers, ReaderInside(r)
  PROVE  ~WriterInside /\ \A s \in Readers : ReaderInside(s) => s = r
  BY ReadersAssumption DEF ExchangeInv, LockHeld, WriterInside, ReaderInside

\* Every step keeps the types.
LEMMA TypeStep ==
  ASSUME ExchangeTypeOK, [ExchangeNext]_exchange
  PROVE  ExchangeTypeOK'
<1> USE DEF payload
<1>1. CASE FillSlot
  BY <1>1 DEF ExchangeTypeOK, WriterLocations, ReaderLocations, FillSlot, WriterGoto
<1>2. CASE PublishLock
  BY <1>2 DEF ExchangeTypeOK, WriterLocations, ReaderLocations, PublishLock, WriterGoto
<1>3. CASE PublishHalf
  BY <1>3, HalfOfPair DEF ExchangeTypeOK, WriterLocations, ReaderLocations, PublishHalf, WriterGoto
<1>4. CASE PublishRest
  BY <1>4, HalfOfPair DEF ExchangeTypeOK, WriterLocations, ReaderLocations, PublishRest, WriterGoto
<1>5. CASE PublishFresh
  BY <1>5 DEF ExchangeTypeOK, WriterLocations, ReaderLocations, PublishFresh, WriterGoto
<1>6. CASE PublishUnlock
  BY <1>6 DEF ExchangeTypeOK, WriterLocations, ReaderLocations, PublishUnlock, WriterGoto
<1>7. CASE PublishCount
  BY <1>7 DEF ExchangeTypeOK, WriterLocations, ReaderLocations, PublishCount, WriterGoto
<1>8. CASE NewGroup
  BY <1>8 DEF ExchangeTypeOK, WriterLocations, ReaderLocations, NewGroup
<1>9. ASSUME NEW r \in Readers, HasValue(r) PROVE ExchangeTypeOK'
  BY <1>9 DEF ExchangeTypeOK, WriterLocations, ReaderLocations, HasValue, ReaderGoto
<1>10. ASSUME NEW r \in Readers, ReadLock(r) PROVE ExchangeTypeOK'
  BY <1>10 DEF ExchangeTypeOK, WriterLocations, ReaderLocations, ReadLock, ReaderGoto
<1>11. ASSUME NEW r \in Readers, ReadTest(r) PROVE ExchangeTypeOK'
  BY <1>11 DEF ExchangeTypeOK, WriterLocations, ReaderLocations, ReadTest, ReaderGoto
<1>12. ASSUME NEW r \in Readers, ReadHalf(r) PROVE ExchangeTypeOK'
  BY <1>12, HalfOfPair DEF ExchangeTypeOK, WriterLocations, ReaderLocations, ReadHalf, ReaderGoto
<1>13. ASSUME NEW r \in Readers, ReadRest(r) PROVE ExchangeTypeOK'
  BY <1>13, HalfOfPair DEF ExchangeTypeOK, WriterLocations, ReaderLocations, ReadRest, ReaderGoto
<1>14. ASSUME NEW r \in Readers, ReadClear(r) PROVE ExchangeTypeOK'
  BY <1>14 DEF ExchangeTypeOK, WriterLocations, ReaderLocations, ReadClear, ReaderGoto
<1>15. ASSUME NEW r \in Readers, ReadUnlock(r) PROVE ExchangeTypeOK'
  BY <1>15 DEF ExchangeTypeOK, WriterLocations, ReaderLocations, ReadUnlock, ReaderGoto
<1>16. CASE UNCHANGED exchange
  BY <1>16 DEF ExchangeTypeOK, WriterLocations, ReaderLocations, exchange
<1> QED
  BY <1>1, <1>2, <1>3, <1>4, <1>5, <1>6, <1>7, <1>8, <1>9, <1>10, <1>11, <1>12, <1>13, <1>14, <1>15, <1>16 DEF ExchangeNext, Publish, Reading

\* Every step keeps the lock with who is inside.
LEMMA LockStep ==
  ASSUME ExchangeInv, [ExchangeNext]_exchange
  PROVE  LockHeld'
<1> USE DEF payload
<1>1. CASE FillSlot
  BY <1>1, ReadersAssumption DEF ExchangeInv, ExchangeTypeOK, LockHeld, WriterInside, ReaderInside, WriterLocations, ReaderLocations, FillSlot, WriterGoto
<1>2. CASE PublishLock
  BY <1>2, ReadersAssumption DEF ExchangeInv, ExchangeTypeOK, LockHeld, WriterInside, ReaderInside, WriterLocations, ReaderLocations, PublishLock, WriterGoto
<1>3. CASE PublishHalf
  BY <1>3, ReadersAssumption DEF ExchangeInv, ExchangeTypeOK, LockHeld, WriterInside, ReaderInside, WriterLocations, ReaderLocations, PublishHalf, WriterGoto
<1>4. CASE PublishRest
  BY <1>4, ReadersAssumption DEF ExchangeInv, ExchangeTypeOK, LockHeld, WriterInside, ReaderInside, WriterLocations, ReaderLocations, PublishRest, WriterGoto
<1>5. CASE PublishFresh
  BY <1>5, ReadersAssumption DEF ExchangeInv, ExchangeTypeOK, LockHeld, WriterInside, ReaderInside, WriterLocations, ReaderLocations, PublishFresh, WriterGoto
<1>6. CASE PublishUnlock
  BY <1>6, ReadersAssumption DEF ExchangeInv, ExchangeTypeOK, LockHeld, WriterInside, ReaderInside, WriterLocations, ReaderLocations, PublishUnlock, WriterGoto
<1>7. CASE PublishCount
  BY <1>7, ReadersAssumption DEF ExchangeInv, ExchangeTypeOK, LockHeld, WriterInside, ReaderInside, WriterLocations, ReaderLocations, PublishCount, WriterGoto
<1>8. CASE NewGroup
  BY <1>8, ReadersAssumption DEF ExchangeInv, ExchangeTypeOK, LockHeld, WriterInside, ReaderInside, WriterLocations, ReaderLocations, NewGroup
<1>9. ASSUME NEW r \in Readers, HasValue(r) PROVE LockHeld'
  BY <1>9, ReadersAssumption DEF ExchangeInv, ExchangeTypeOK, LockHeld, WriterInside, ReaderInside, WriterLocations, ReaderLocations, HasValue, ReaderGoto
<1>10. ASSUME NEW r \in Readers, ReadLock(r) PROVE LockHeld'
  BY <1>10, ReadersAssumption DEF ExchangeInv, ExchangeTypeOK, LockHeld, WriterInside, ReaderInside, WriterLocations, ReaderLocations, ReadLock, ReaderGoto
<1>11. ASSUME NEW r \in Readers, ReadTest(r) PROVE LockHeld'
  BY <1>11, ReadersAssumption DEF ExchangeInv, ExchangeTypeOK, LockHeld, WriterInside, ReaderInside, WriterLocations, ReaderLocations, ReadTest, ReaderGoto
<1>12. ASSUME NEW r \in Readers, ReadHalf(r) PROVE LockHeld'
  BY <1>12, ReadersAssumption DEF ExchangeInv, ExchangeTypeOK, LockHeld, WriterInside, ReaderInside, WriterLocations, ReaderLocations, ReadHalf, ReaderGoto
<1>13. ASSUME NEW r \in Readers, ReadRest(r) PROVE LockHeld'
  BY <1>13, ReadersAssumption DEF ExchangeInv, ExchangeTypeOK, LockHeld, WriterInside, ReaderInside, WriterLocations, ReaderLocations, ReadRest, ReaderGoto
<1>14. ASSUME NEW r \in Readers, ReadClear(r) PROVE LockHeld'
  BY <1>14, ReadersAssumption DEF ExchangeInv, ExchangeTypeOK, LockHeld, WriterInside, ReaderInside, WriterLocations, ReaderLocations, ReadClear, ReaderGoto
<1>15. ASSUME NEW r \in Readers, ReadUnlock(r) PROVE LockHeld'
  BY <1>15, ReadersAssumption DEF ExchangeInv, ExchangeTypeOK, LockHeld, WriterInside, ReaderInside, WriterLocations, ReaderLocations, ReadUnlock, ReaderGoto
<1>16. CASE UNCHANGED exchange
  BY <1>16 DEF ExchangeInv, ExchangeTypeOK, LockHeld, WriterInside, ReaderInside, WriterLocations, ReaderLocations, exchange
<1> QED
  BY <1>1, <1>2, <1>3, <1>4, <1>5, <1>6, <1>7, <1>8, <1>9, <1>10, <1>11, <1>12, <1>13, <1>14, <1>15, <1>16 DEF ExchangeNext, Publish, Reading

\* Every step of the writer keeps live_ in step with the staged snapshot.
LEMMA LiveStep ==
  ASSUME ExchangeInv, [ExchangeNext]_exchange
  PROVE  LiveInv'
<1> USE DEF payload
<1>1. CASE FillSlot
  BY <1>1 DEF ExchangeInv, ExchangeTypeOK, LiveInv, WriterLocations, FillSlot, WriterGoto
<1>2. CASE PublishLock
  BY <1>2 DEF ExchangeInv, ExchangeTypeOK, LiveInv, WriterLocations, PublishLock, WriterGoto
<1>3. CASE PublishHalf
  BY <1>3, HalfOfPair DEF ExchangeInv, ExchangeTypeOK, LiveInv, WriterLocations, PublishHalf, WriterGoto
<1>4. CASE PublishRest
  BY <1>4, HalfOfPair DEF ExchangeInv, ExchangeTypeOK, LiveInv, WriterLocations, PublishRest, WriterGoto
<1>5. CASE PublishFresh
  BY <1>5 DEF ExchangeInv, ExchangeTypeOK, LiveInv, WriterLocations, PublishFresh, WriterGoto
<1>6. CASE PublishUnlock
  BY <1>6 DEF ExchangeInv, ExchangeTypeOK, LiveInv, WriterLocations, PublishUnlock, WriterGoto
<1>7. CASE PublishCount
  BY <1>7 DEF ExchangeInv, ExchangeTypeOK, LiveInv, WriterLocations, PublishCount, WriterGoto
<1>8. CASE NewGroup
  BY <1>8 DEF ExchangeInv, ExchangeTypeOK, LiveInv, WriterLocations, NewGroup
<1>9. ASSUME NEW r \in Readers, HasValue(r) PROVE LiveInv'
  BY <1>9 DEF ExchangeInv, ExchangeTypeOK, LiveInv, WriterLocations, HasValue, ReaderGoto
<1>10. ASSUME NEW r \in Readers, ReadLock(r) PROVE LiveInv'
  BY <1>10 DEF ExchangeInv, ExchangeTypeOK, LiveInv, WriterLocations, ReadLock, ReaderGoto
<1>11. ASSUME NEW r \in Readers, ReadTest(r) PROVE LiveInv'
  BY <1>11 DEF ExchangeInv, ExchangeTypeOK, LiveInv, WriterLocations, ReadTest, ReaderGoto
<1>12. ASSUME NEW r \in Readers, ReadHalf(r) PROVE LiveInv'
  BY <1>12, HalfOfPair DEF ExchangeInv, ExchangeTypeOK, LiveInv, WriterLocations, ReadHalf, ReaderGoto
<1>13. ASSUME NEW r \in Readers, ReadRest(r) PROVE LiveInv'
  BY <1>13, HalfOfPair DEF ExchangeInv, ExchangeTypeOK, LiveInv, WriterLocations, ReadRest, ReaderGoto
<1>14. ASSUME NEW r \in Readers, ReadClear(r) PROVE LiveInv'
  BY <1>14 DEF ExchangeInv, ExchangeTypeOK, LiveInv, WriterLocations, ReadClear, ReaderGoto
<1>15. ASSUME NEW r \in Readers, ReadUnlock(r) PROVE LiveInv'
  BY <1>15 DEF ExchangeInv, ExchangeTypeOK, LiveInv, WriterLocations, ReadUnlock, ReaderGoto
<1>16. CASE UNCHANGED exchange
  BY <1>16 DEF ExchangeInv, ExchangeTypeOK, LiveInv, WriterLocations, exchange
<1> QED
  BY <1>1, <1>2, <1>3, <1>4, <1>5, <1>6, <1>7, <1>8, <1>9, <1>10, <1>11, <1>12, <1>13, <1>14, <1>15, <1>16 DEF ExchangeNext, Publish, Reading

\* Every step keeps the copies in step with live_.
LEMMA CopyStep ==
  ASSUME ExchangeInv, [ExchangeNext]_exchange, NEW r \in Readers
  PROVE  CopyInv(r)'
<1> USE DEF payload
<1>1. /\ ReaderInside(r) => ~WriterInside
      /\ \A s \in Readers : ReaderInside(s) /\ ReaderInside(r) => s = r
      /\ WriterInside => \A s \in Readers : ~ReaderInside(s)
      /\ ExchangeTypeOK /\ LiveInv /\ CopyInv(r)
  BY InsideAlone DEF ExchangeInv
<1>2. CopyInv(r) /\ live \in Nat \X Nat /\ stage \in [Readers -> Nat \X Nat] /\ rpc \in [Readers -> ReaderLocations]
  BY <1>1 DEF ExchangeTypeOK
<1>3. CASE FillSlot
  BY <1>2, <1>3 DEF FillSlot, CopyInv, WriterGoto
<1>4. CASE PublishLock \/ PublishUnlock \/ PublishCount
  BY <1>2, <1>4 DEF PublishLock, PublishUnlock, PublishCount, CopyInv, WriterGoto
<1>5. CASE PublishHalf \/ PublishRest
  BY <1>1, <1>2, <1>5 DEF PublishHalf, PublishRest, CopyInv, WriterGoto, WriterInside, ReaderInside
<1>6. CASE PublishFresh
  BY <1>2, <1>6 DEF PublishFresh, CopyInv, WriterGoto
<1>7. CASE NewGroup
  BY <1>2, <1>7 DEF NewGroup, CopyInv
<1>8. ASSUME NEW s \in Readers, HasValue(s) \/ ReadLock(s) \/ ReadTest(s) \/ ReadUnlock(s)
      PROVE  CopyInv(r)'
  BY <1>2, <1>8 DEF HasValue, ReadLock, ReadTest, ReadUnlock, CopyInv, ReaderGoto, ReaderLocations
<1>9. ASSUME NEW s \in Readers, ReadHalf(s)
      PROVE  CopyInv(r)'
  <2>1. CASE s = r
    <3>1. rpc'[r] = "rest" /\ rpc[r] = "half" /\ fresh' = fresh /\ live' = live
      BY <1>2, <1>9, <2>1 DEF ReadHalf, ReaderGoto
    <3>2. stage'[r][1] = live[1]
      BY <1>2, <1>9, <2>1, HalfOfPair DEF ReadHalf
    <3> QED
      BY <1>2, <3>1, <3>2 DEF CopyInv
  <2>2. CASE s # r
    BY <1>2, <1>9, <2>2 DEF ReadHalf, ReaderGoto, CopyInv
  <2> QED
    BY <2>1, <2>2
<1>10. ASSUME NEW s \in Readers, ReadRest(s)
       PROVE  CopyInv(r)'
  <2>1. CASE s = r
    <3>1. rpc'[r] = "clear" /\ rpc[r] = "rest" /\ fresh' = fresh /\ live' = live
      BY <1>2, <1>10, <2>1 DEF ReadRest, ReaderGoto
    <3>2. stage'[r][2] = live[2] /\ stage'[r][1] = stage[r][1]
      BY <1>2, <1>10, <2>1, HalfOfPair DEF ReadRest
    <3>3. live[1] = live[2]
      BY <1>1, <3>1 DEF LiveInv, WriterInside, ReaderInside, ExchangeTypeOK, WriterLocations
    <3> QED
      BY <1>2, <3>1, <3>2, <3>3 DEF CopyInv
  <2>2. CASE s # r
    BY <1>2, <1>10, <2>2 DEF ReadRest, ReaderGoto, CopyInv
  <2> QED
    BY <2>1, <2>2
<1>11. ASSUME NEW s \in Readers, ReadClear(s)
       PROVE  CopyInv(r)'
  BY <1>1, <1>2, <1>11 DEF ReadClear, ReaderGoto, CopyInv, ReaderInside
<1>12. CASE UNCHANGED exchange
  BY <1>2, <1>12 DEF exchange, CopyInv
<1> QED
  BY <1>3, <1>4, <1>5, <1>6, <1>7, <1>8, <1>9, <1>10, <1>11, <1>12 DEF ExchangeNext, Publish, Reading

-----------------------------------------------------------------------------
LEMMA InvInit == ExchangeInit => ExchangeInv
<1> SUFFICES ASSUME ExchangeInit PROVE ExchangeInv
  OBVIOUS
<1> USE DEF ExchangeInit
<1>1. ExchangeTypeOK
  BY DEF ExchangeTypeOK, WriterLocations, ReaderLocations
<1>2. LockHeld
  BY ReadersAssumption DEF LockHeld, WriterInside, ReaderInside
<1>3. LiveInv
  BY DEF LiveInv
<1>4. \A r \in Readers : CopyInv(r)
  BY DEF CopyInv
<1> QED
  BY <1>1, <1>2, <1>3, <1>4 DEF ExchangeInv

LEMMA InvStep == ExchangeInv /\ [ExchangeNext]_exchange => ExchangeInv'
<1> SUFFICES ASSUME ExchangeInv, [ExchangeNext]_exchange PROVE ExchangeInv'
  OBVIOUS
<1>1. ExchangeTypeOK' /\ LockHeld' /\ LiveInv'
  BY TypeStep, LockStep, LiveStep DEF ExchangeInv
<1>2. \A r \in Readers : CopyInv(r)'
  BY CopyStep
<1> QED
  BY <1>1, <1>2 DEF ExchangeInv

\* The lock of the exchange, the staged, the live and the copied snapshots agree
\* (TripleBuffer's write_slot(), publish() and read() and the copies of
\* acquire_snapshot()), for any number of readers and of snapshots.
THEOREM ExchangeCorrect == ExchangeSpec => []ExchangeInv
  BY InvInit, InvStep, PTL DEF ExchangeSpec

\* No caller of acquire_snapshot() ever holds a copy mixed from two snapshots.
THEOREM SnapshotsAreWhole == ExchangeSpec => []NeverTorn
<1>1. ExchangeInv => NeverTorn
  BY DEF ExchangeInv, CopyInv, NeverTorn
<1> QED
  BY <1>1, ExchangeCorrect, PTL

-----------------------------------------------------------------------------
(* The exchange is a LatestValue.                                          *)

\* What the variables of LatestValue stand for.
Value   == IF wpc \in {"lock", "half", "rest", "fresh"} THEN staging - 1 ELSE staging
Taken   == ~fresh \/ \E r \in Readers : Taking(r)
CopyOf(r) == IF Taking(r) THEN live[1] ELSE stage[r][1]
Copy    == [r \in Readers |-> CopyOf(r)]

\* A step that nobody could see.
Hidden == UNCHANGED <<Value, Taken, Copy>>

\* The steps that hide: no value is put, none is taken, and no copy changes.
LEMMA HiddenStep ==
  ASSUME Value' = Value, Taken' = Taken, \A r \in Readers : CopyOf(r)' = CopyOf(r)
  PROVE  Hidden
  BY DEF Hidden, Copy

\* While one is inside, nobody else is taking; while the writer is, nobody at all.
LEMMA TakingAlone ==
  ASSUME ExchangeInv
  PROVE  /\ WriterInside => \A s \in Readers : ~Taking(s)
         /\ \A r, s \in Readers : ReaderInside(r) /\ Taking(s) => s = r
  BY ReadersAssumption DEF ExchangeInv, LockHeld, WriterInside, ReaderInside, Taking

\* Filling the slot, taking or giving back the lock and copying hide.
LEMMA WriterHides ==
  ASSUME ExchangeInv, FillSlot \/ PublishLock \/ PublishHalf \/ PublishRest
                      \/ PublishUnlock \/ PublishCount
  PROVE  Hidden
<1> USE DEF payload
<1>1. ExchangeTypeOK /\ LiveInv
  BY DEF ExchangeInv
<1>2. rpc' = rpc /\ fresh' = fresh /\ stage' = stage
  BY DEF FillSlot, PublishLock, PublishHalf, PublishRest, PublishUnlock, PublishCount, WriterGoto
<1>3. Taken' = Taken /\ \A r \in Readers : Taking(r)' = Taking(r)
  BY <1>2 DEF Taken, Taking
<1>4. Value' = Value
  BY <1>1 DEF Value, ExchangeTypeOK, FillSlot, PublishLock, PublishHalf, PublishRest,
     PublishUnlock, PublishCount, WriterGoto
<1>5. ASSUME NEW r \in Readers PROVE CopyOf(r)' = CopyOf(r)
  <2>1. CASE live' = live
    BY <1>2, <1>3, <2>1 DEF CopyOf
  <2>2. CASE PublishHalf \/ PublishRest
    <3>1. ~Taking(r)
      BY <2>2, TakingAlone DEF PublishHalf, PublishRest, WriterGoto, WriterInside
    <3> QED
      BY <1>2, <1>3, <3>1 DEF CopyOf
  <2> QED
    BY <2>1, <2>2 DEF FillSlot, PublishLock, PublishUnlock, PublishCount
<1> QED
  BY <1>3, <1>4, <1>5, HiddenStep

\* The step that sets fresh_ is the Put.
LEMMA FreshIsPut ==
  ASSUME ExchangeInv, PublishFresh
  PROVE  Value' = Value + 1 /\ Taken' = FALSE /\ Copy' = Copy
<1> USE DEF payload
<1>1. ExchangeTypeOK /\ LiveInv /\ wpc = "fresh" /\ wpc' = "unlock" /\ fresh'
      /\ rpc' = rpc /\ stage' = stage /\ staging' = staging /\ live' = live
  BY DEF ExchangeInv, PublishFresh, WriterGoto
<1>2. \A r \in Readers : ~Taking(r) /\ ~Taking(r)'
  BY <1>1, TakingAlone DEF WriterInside, Taking
<1>3. Value' = Value + 1
  BY <1>1 DEF Value, ExchangeTypeOK
<1>4. Taken' = FALSE
  BY <1>1, <1>2 DEF Taken
<1>5. \A r \in Readers : CopyOf(r)' = CopyOf(r)
  BY <1>1, <1>2 DEF CopyOf
<1> QED
  BY <1>3, <1>4, <1>5 DEF Copy

\* A reader that finds fresh_ set takes the value.
LEMMA TestIsTake ==
  ASSUME ExchangeInv, NEW r \in Readers, ReadTest(r), fresh
  PROVE  ~Taken /\ Copy' = [Copy EXCEPT ![r] = Value] /\ Taken' = TRUE /\ Value' = Value
<1> USE DEF payload
<1>1. /\ ExchangeTypeOK /\ LiveInv /\ rpc[r] = "test" /\ rpc' = [rpc EXCEPT ![r] = "half"]
      /\ live' = live /\ stage' = stage /\ staging' = staging /\ wpc' = wpc /\ fresh' = fresh
  BY DEF ExchangeInv, ReadTest, ReaderGoto
<1>2. rpc'[r] = "half" /\ \A s \in Readers \ {r} : rpc'[s] = rpc[s]
  BY <1>1 DEF ExchangeTypeOK
<1>3. ~WriterInside /\ \A s \in Readers : ~Taking(s)
  BY <1>1, TakingAlone, InsideAlone DEF ReaderInside, Taking
<1>4. ~Taken /\ Taken' = TRUE /\ Value' = Value
  BY <1>1, <1>2, <1>3 DEF Taken, Taking, Value
<1>5. live[1] = Value
  BY <1>1, <1>3 DEF LiveInv, Value, WriterInside, ExchangeTypeOK, WriterLocations
<1>6. CopyOf(r)' = Value
  BY <1>1, <1>2, <1>5 DEF CopyOf, Taking
<1>7. \A s \in Readers \ {r} : CopyOf(s)' = CopyOf(s)
  BY <1>1, <1>2 DEF CopyOf, Taking
<1> QED
  BY <1>4, <1>6, <1>7 DEF Copy

\* The other steps of a reader hide: what is copied was taken already.
LEMMA ReaderHides ==
  ASSUME ExchangeInv, NEW r \in Readers,
         \/ HasValue(r) \/ ReadLock(r) \/ ReadHalf(r) \/ ReadRest(r)
         \/ ReadClear(r) \/ ReadUnlock(r) \/ (ReadTest(r) /\ ~fresh)
  PROVE  Hidden
<1> USE DEF payload
<1>1. /\ ExchangeTypeOK /\ CopyInv(r) /\ live' = live /\ staging' = staging /\ wpc' = wpc
      /\ \A s \in Readers \ {r} : rpc'[s] = rpc[s] /\ stage'[s] = stage[s]
  BY DEF ExchangeInv, ExchangeTypeOK, HasValue, ReadLock, ReadHalf, ReadRest, ReadClear, ReadUnlock,
     ReadTest, ReaderGoto
<1>2. rpc \in [Readers -> ReaderLocations] /\ stage \in [Readers -> Nat \X Nat] /\ live \in Nat \X Nat
  BY <1>1 DEF ExchangeTypeOK
<1>3. Value' = Value
  BY <1>1 DEF Value
<1>4. \A s \in Readers \ {r} : CopyOf(s)' = CopyOf(s) /\ Taking(s)' = Taking(s)
  BY <1>1 DEF CopyOf, Taking
<1>5. CASE HasValue(r) \/ ReadLock(r) \/ ReadUnlock(r) \/ (ReadTest(r) /\ ~fresh)
  <2>1. ~Taking(r) /\ ~Taking(r)' /\ stage' = stage /\ fresh' = fresh
    BY <1>2, <1>5 DEF HasValue, ReadLock, ReadUnlock, ReadTest, ReaderGoto, Taking
  <2>2. Taken' = Taken
    BY <1>4, <2>1 DEF Taken
  <2>3. CopyOf(r)' = CopyOf(r)
    BY <2>1 DEF CopyOf
  <2> QED
    BY <1>3, <1>4, <2>2, <2>3, HiddenStep
<1>6. CASE ReadHalf(r) \/ ReadRest(r)
  <2>1. Taking(r) /\ Taking(r)' /\ fresh' = fresh
    BY <1>2, <1>6 DEF ReadHalf, ReadRest, ReaderGoto, Taking
  <2>2. Taken' = Taken
    BY <2>1 DEF Taken
  <2>3. CopyOf(r)' = CopyOf(r)
    BY <1>1, <2>1 DEF CopyOf
  <2> QED
    BY <1>3, <1>4, <2>2, <2>3, HiddenStep
<1>7. CASE ReadClear(r)
  <2>1. Taking(r) /\ ~Taking(r)' /\ ~fresh' /\ stage' = stage /\ rpc[r] = "clear"
    BY <1>2, <1>7 DEF ReadClear, ReaderGoto, Taking
  <2>2. Taken' = Taken
    BY <2>1 DEF Taken
  <2>3. CopyOf(r)' = CopyOf(r)
    BY <1>1, <2>1 DEF CopyOf, CopyInv
  <2> QED
    BY <1>3, <1>4, <2>2, <2>3, HiddenStep
<1> QED
  BY <1>5, <1>6, <1>7

\* A new group gives up what nobody took.
LEMMA NewGroupRenews ==
  ASSUME NewGroup
  PROVE  Taken' = TRUE /\ Value' = Value /\ Copy' = Copy
<1> USE DEF payload
<1>1. /\ ~fresh' /\ rpc' = rpc /\ stage' = stage /\ live' = live /\ staging' = staging /\ wpc' = wpc
      /\ \A r \in Readers : ~Taking(r) /\ ~Taking(r)'
  BY DEF NewGroup, Taking
<1>2. Taken' = TRUE /\ Value' = Value
  BY <1>1 DEF Taken, Value
<1>3. \A r \in Readers : CopyOf(r)' = CopyOf(r)
  BY <1>1 DEF CopyOf
<1> QED
  BY <1>2, <1>3 DEF Copy

\* The exchange of snapshots implements LatestValue: what the threads see of
\* TripleBuffer and acquire_snapshot() is a whole value that replaces the last one and
\* is given to one reader at most, for any number of readers and of snapshots.
THEOREM ImplementsLatestValue == ExchangeSpec => LatestSpec
<1>1. ExchangeInit => Latest!Init
  <2> SUFFICES ASSUME ExchangeInit PROVE Latest!Init
    OBVIOUS
  <2>1. \A r \in Readers : ~Taking(r) /\ CopyOf(r) = 0
    BY DEF ExchangeInit, Taking, CopyOf
  <2>2. Copy = [r \in Readers |-> 0]
    BY <2>1 DEF Copy
  <2>3. Value = 0 /\ Taken = TRUE
    BY DEF ExchangeInit, Value, Taken
  <2> QED
    BY <2>2, <2>3 DEF Latest!Init, Value, Taken, Copy, CopyOf
<1>2. ASSUME ExchangeInv, [ExchangeNext]_exchange PROVE [Latest!Next]_Latest!vars
  <2>1. ASSUME Hidden PROVE UNCHANGED Latest!vars
    BY <2>1 DEF Hidden, Latest!vars, Value, Taken, Copy, CopyOf
  <2>2. CASE PublishFresh
    BY <1>2, <2>2, FreshIsPut DEF Latest!Next, Latest!Put, Value, Taken, Copy, CopyOf
  <2>3. CASE NewGroup
    BY <2>3, NewGroupRenews DEF Latest!Next, Latest!Renew, Value, Taken, Copy, CopyOf
  <2>4. ASSUME NEW r \in Readers, ReadTest(r), fresh PROVE Latest!Next
    BY <1>2, <2>4, TestIsTake DEF Latest!Next, Latest!Take, Value, Taken, Copy, CopyOf
  <2>5. CASE UNCHANGED exchange
    <3>1. Value' = Value /\ Taken' = Taken /\ \A r \in Readers : CopyOf(r)' = CopyOf(r)
      BY <2>5 DEF exchange, Value, Taken, Taking, CopyOf
    <3> QED
      BY <2>1, <3>1, HiddenStep
  <2> QED
    BY <1>2, <2>1, <2>2, <2>3, <2>4, <2>5, WriterHides, ReaderHides DEF ExchangeNext, Publish, Reading
<1> QED
  BY <1>1, <1>2, ExchangeCorrect, PTL DEF ExchangeSpec, LatestSpec, Latest!Spec

(***************************************************************************)
(* The component.                                                          *)
(***************************************************************************)

\* Whatever the component does, its exchange does a step of its own or none.
LEMMA ExchangeStep == [Next]_vars => [ExchangeNext]_exchange
<1> SUFFICES ASSUME [Next]_vars PROVE [ExchangeNext]_exchange
  OBVIOUS
<1>1. CASE Tick
  BY <1>1 DEF Tick, TickCycle, EnterPause, Park, LeaveDecide, LeaveAct, Left, CycleBegin, ExchangeNext
<1>2. CASE PublishStep
  BY <1>2 DEF PublishStep, ExchangeNext
<1>3. CASE UpdateThread
  BY <1>3, ThreadsAssumption DEF UpdateThread, ReadCall, ReadDone, WriteStep, WriteDone, CycleBegin, ExchangeNext
<1>4. CASE ReadStep
  BY <1>4 DEF ReadStep, ExchangeNext
<1>5. CASE Configure \/ PrimeStep \/ PrimeCall
  BY <1>5, ThreadsAssumption DEF Configure, PrimeStep, PrimeCall, CycleBegin, ExchangeNext
<1>6. CASE AlreadyConfigured \/ PrimeFails \/ ConfigureDone
  BY <1>6 DEF AlreadyConfigured, PrimeFails, ConfigureDone
<1>7. ASSUME NEW from, NEW next, CallPause(from, next) PROVE UNCHANGED exchange
  BY <1>7 DEF CallPause
<1>8. CASE PauseTimeout \/ OnActivate \/ ActivateDone \/ OnDeactivate \/ DeactivateDone
           \/ OnErrorDone \/ OnErrorFails \/ OnCleanup \/ Shutdown
  BY <1>8 DEF PauseTimeout, OnActivate, ActivateDone, OnDeactivate, DeactivateDone,
     OnErrorDone, OnErrorFails, OnCleanup, Shutdown
<1>9. CASE PowerLost \/ UNCHANGED vars
  BY <1>9 DEF PowerLost, vars
<1> QED
  BY <1>1, <1>2, <1>3, <1>4, <1>5, <1>6, <1>7, <1>8, <1>9 DEF Next, Transition

\* The component is faithful to the exchange: each of its calls, on the update, the
\* lifecycle and the tick thread, uses the snapshots the way TripleBuffer and
\* acquire_snapshot() do, so that what holds of the exchange holds here.
THEOREM HardwareExchanges == Spec => ExchangeSpec
<1>1. Init => ExchangeInit
  BY DEF Init
<1> QED
  BY <1>1, ExchangeStep, PTL DEF Spec, ExchangeSpec

\* No thread of the component holds a copy mixed from two snapshots, whatever
\* transition, cycle and read() overlap.
THEOREM HardwareSnapshotsAreWhole == Spec => []NeverTorn
  BY HardwareExchanges, SnapshotsAreWhole, PTL

\* What read() and prime_snapshot() see of the cycles is a LatestValue, over every
\* group the component makes and destroys.
THEOREM HardwareImplementsLatestValue == Spec => LatestSpec
  BY HardwareExchanges, ImplementsLatestValue, PTL
-----------------------------------------------------------------------------
(* Power: the inductive invariant.                                         *)

Pausing == {"activatePause", "deactivatePause", "errorPause"}
Priming == {"prime", "primeStep", "primed"}

\* A tick thread that is about to activate the bus found it active, and so it still is,
\* unless a transition has overtaken it.
StillActive == tpc = "reactivate" => mode = "active" \/ ~clean

\* Nothing is powered while the component is configured, and no window is asked for.
PrimedUnpowered ==
  lpc \in Priming => on = {} /\ phase = "unconfigured" /\ tpc \in {"off", "run"} /\ ~request

\* Without a group no transition is under way, and none that needs one may begin.
GroupHeld ==
  ~tg => /\ lpc = "idle" /\ phase \in {"unconfigured", "finalized"}
         /\ phase = "unconfigured" => on = {}
         /\ tpc = "off"

PowerInv ==
  /\ StillActive
  /\ PrimedUnpowered
  /\ GroupHeld
  /\ OffWhenNotActive

-----------------------------------------------------------------------------
(* read(): the inductive invariant.                                        *)

\* A cycle of write() or a read() is made between transitions, and a thread is inside
\* acquire_snapshot() because its call is.
CallsApart ==
  /\ upc # "idle" => lpc = "idle"
  /\ \A r \in Readers : rpc[r] # "idle" => \/ r = Lifecycle /\ lpc = "primed"
                                           \/ r = Update /\ upc = "read"

\* What a read() has to report is still to be had, or in its copy.
DueKept ==
  /\ due \in Nat
  /\ upc = "read" =>
       /\ rpc[Update] \in {"lock", "test"} => due = 0 \/ (fresh /\ due <= live[1])
       /\ rpc[Update] = "half" => due <= live[1]
       /\ rpc[Update] \notin {"lock", "test", "half"} => due <= stage[Update][1]

ReadInv == CallsApart /\ DueKept
-----------------------------------------------------------------------------
(* Power: every step keeps the invariant.                                  *)

\* The step concerns neither power nor what the windows and transitions are about.
NoPower == UNCHANGED <<config, phase, lpc, tg, tpc, request, mode, on, clean>>

LEMMA NoPowerKeeps == ASSUME PowerInv, NoPower PROVE PowerInv'
  BY DEF PowerInv, NoPower, config, StillActive, PrimedUnpowered, GroupHeld, OffWhenNotActive, Pausing, Priming

\* The steps of the tick thread.
LEMMA PowerTick ==
  ASSUME PowerInv, Tick
  PROVE  PowerInv'
<1> USE DEF PowerInv, config, lifecycle, window, device
<1>1. CASE TickCycle
  <2>1. NoPower
    BY <1>1 DEF TickCycle, NoPower
  <2> QED
    BY <2>1, NoPowerKeeps
<1>2. CASE EnterPause
  BY <1>2 DEF EnterPause, SafeSequence, StillActive, PrimedUnpowered, GroupHeld, OffWhenNotActive, Pausing, Priming
<1>3. CASE Park
  BY <1>3 DEF Park, StillActive, PrimedUnpowered, GroupHeld, OffWhenNotActive, Pausing, Priming
<1>4. CASE LeaveDecide
  BY <1>4 DEF LeaveDecide, StillActive, PrimedUnpowered, GroupHeld, OffWhenNotActive, Pausing, Priming
<1>5. CASE LeaveAct
  BY <1>5 DEF LeaveAct, ActivateBus, StillActive, PrimedUnpowered, GroupHeld, OffWhenNotActive, Pausing, Priming
<1>6. CASE Left
  BY <1>6 DEF Left, StillActive, PrimedUnpowered, GroupHeld, OffWhenNotActive, Pausing, Priming
<1> QED
  BY <1>1, <1>2, <1>3, <1>4, <1>5, <1>6 DEF Tick

\* The steps of the update thread, of publish() and of acquire_snapshot().
LEMMA PowerUpdate ==
  ASSUME PowerInv, UpdateThread \/ PublishStep \/ ReadStep
  PROVE  PowerInv'
<1>1. NoPower
  BY DEF UpdateThread, ReadCall, ReadDone, WriteStep, WriteDone, PublishStep, ReadStep,
     NoPower, config, lifecycle, window, device
<1> QED
  BY <1>1, NoPowerKeeps

\* Configuration: nothing is powered before it, and it powers nothing.
LEMMA PowerConfigure ==
  ASSUME PowerInv, \/ AlreadyConfigured \/ Configure \/ PrimeStep \/ PrimeCall
                   \/ PrimeFails \/ ConfigureDone \/ OnCleanup
  PROVE  PowerInv'
<1> USE DEF PowerInv, config, lifecycle, window, device
<1>1. CASE AlreadyConfigured
  BY <1>1 DEF AlreadyConfigured, LifecycleMay, StillActive, PrimedUnpowered, GroupHeld, OffWhenNotActive, Pausing, Priming
<1>2. CASE Configure
  BY <1>2 DEF Configure, LifecycleMay, StillActive, PrimedUnpowered, GroupHeld, OffWhenNotActive, Pausing, Priming
<1>3. CASE PrimeStep
  BY <1>3 DEF PrimeStep, StillActive, PrimedUnpowered, GroupHeld, OffWhenNotActive, Pausing, Priming
<1>4. CASE PrimeCall
  BY <1>4 DEF PrimeCall, StillActive, PrimedUnpowered, GroupHeld, OffWhenNotActive, Pausing, Priming
<1>5. CASE PrimeFails
  BY <1>5 DEF PrimeFails, TakePower, SafeSequence, StillActive, PrimedUnpowered, GroupHeld, OffWhenNotActive, Pausing, Priming
<1>6. CASE ConfigureDone
  BY <1>6 DEF ConfigureDone, StillActive, PrimedUnpowered, GroupHeld, OffWhenNotActive, Pausing, Priming
<1>7. CASE OnCleanup
  BY <1>7 DEF OnCleanup, LifecycleMay, StillActive, PrimedUnpowered, GroupHeld, OffWhenNotActive, Pausing, Priming
<1> QED
  BY <1>1, <1>2, <1>3, <1>4, <1>5, <1>6, <1>7

\* The pauses of the transitions.
LEMMA PowerPause ==
  ASSUME PowerInv,
         \/ CallPause("activate", "activatePause") \/ CallPause("deactivate", "deactivatePause")
         \/ CallPause("error", "errorPause") \/ PauseTimeout \/ OnActivate \/ OnDeactivate
         \/ OnErrorFails
  PROVE  PowerInv'
<1> USE DEF PowerInv, config, lifecycle, window, device
<1>1. ASSUME NEW from \in {"activate", "deactivate", "error"}, NEW next \in Pausing, CallPause(from, next)
      PROVE  PowerInv'
  BY <1>1 DEF CallPause, PauseReady, StillActive, PrimedUnpowered, GroupHeld, OffWhenNotActive, Pausing, Priming
<1>2. CASE PauseTimeout
  BY <1>2 DEF PauseTimeout, StillActive, PrimedUnpowered, GroupHeld, OffWhenNotActive, Pausing, Priming
<1>3. CASE OnActivate \/ OnDeactivate
  BY <1>3 DEF OnActivate, OnDeactivate, LifecycleMay, StillActive, PrimedUnpowered, GroupHeld, OffWhenNotActive, Pausing, Priming
<1>4. CASE OnErrorFails
  BY <1>4 DEF OnErrorFails, StillActive, PrimedUnpowered, GroupHeld, OffWhenNotActive, Pausing, Priming
<1> QED
  BY <1>1, <1>2, <1>3, <1>4 DEF Pausing

\* The transitions that set power.
LEMMA PowerSet ==
  ASSUME PowerInv, ActivateDone \/ DeactivateDone \/ OnErrorDone \/ Shutdown
  PROVE  PowerInv'
<1> USE DEF PowerInv, config, lifecycle, window, device
<1>1. CASE ActivateDone
  <2>1. tg /\ lpc \in {"activate", "activatePause"}
    BY <1>1 DEF ActivateDone, Owned, GroupHeld
  <2>2. (lpc' = "error" \/ (lpc' = "idle" /\ phase' = "active")) /\ (mode = "active" => mode' = "active")
    BY <1>1 DEF ActivateDone, Activated, ActivateBus
  <2> QED
    BY <1>1, <2>1, <2>2 DEF ActivateDone, Resumed, StillActive, PrimedUnpowered, GroupHeld, OffWhenNotActive, Pausing, Priming
<1>2. CASE DeactivateDone
  <2>1. tg
    BY <1>2 DEF DeactivateDone, Owned, GroupHeld
  <2> QED
    BY <1>2, <2>1 DEF DeactivateDone, Deactivated, TakePower, SafeSequence, Resumed, StillActive, PrimedUnpowered, GroupHeld, OffWhenNotActive, Pausing, Priming
<1>3. CASE OnErrorDone
  <2>1. tg
    BY <1>3 DEF OnErrorDone, Owned, GroupHeld
  <2> QED
    BY <1>3, <2>1 DEF OnErrorDone, Deactivated, TakePower, SafeSequence, Resumed, StillActive, PrimedUnpowered, GroupHeld, OffWhenNotActive, Pausing, Priming
<1>4. CASE Shutdown
  BY <1>4 DEF Shutdown, LifecycleMay, TakePower, SafeSequence, StillActive, PrimedUnpowered, GroupHeld, OffWhenNotActive, Pausing, Priming
<1> QED
  BY <1>1, <1>2, <1>3, <1>4

LEMMA PowerStep == ASSUME PowerInv, [Next]_vars PROVE PowerInv'
<1>1. CASE PowerLost
  BY <1>1 DEF PowerLost, PowerInv, config, lifecycle, window, StillActive, PrimedUnpowered, GroupHeld, OffWhenNotActive, Pausing, Priming
<1>2. CASE UNCHANGED vars
  <2>1. NoPower
    BY <1>2 DEF vars, NoPower, config, lifecycle, window, device
  <2> QED
    BY <2>1, NoPowerKeeps
<1> QED
  BY <1>1, <1>2, PowerTick, PowerUpdate, PowerConfigure, PowerPause, PowerSet DEF Next, Transition

\* A component that is not active, or that was shut down with on_exit=disable, has no
\* powered joint, whatever transition failed, timed out or was cut short on the way, if
\* the call that took the power reached every joint and did not overtake the tick thread.
THEOREM InactiveIsUnpowered == Spec => []OffWhenNotActive
<1>1. Init => PowerInv
  BY DEF Init, PowerInv, StillActive, PrimedUnpowered, GroupHeld, OffWhenNotActive, Pausing, Priming
<1>2. PowerInv => OffWhenNotActive
  BY DEF PowerInv
<1> QED
  BY <1>1, <1>2, PowerStep, PTL DEF Spec
-----------------------------------------------------------------------------
(* read(): every step keeps the invariant.                                 *)

\* What the invariant of read() is about, the calls and the exchange, stays.
LEMMA CallsKept ==
  ASSUME ReadInv, UNCHANGED <<exchange, upc, lpc, due>>
  PROVE  ReadInv'
  BY DEF ReadInv, CallsApart, DueKept, exchange

\* A step that leaves the calls alone, and of the exchange what read() gets from it.
LEMMA CallsApartKept ==
  ASSUME CallsApart, UNCHANGED <<rpc, upc, lpc>>
  PROVE  CallsApart'
  BY DEF CallsApart

\* The snapshots in live_ and in the copies are numbers.
LEMMA Numbers ==
  ASSUME ExchangeInv, NEW r \in Readers
  PROVE  live[1] \in Nat /\ stage[r][1] \in Nat /\ staging \in Nat /\ rpc[r] \in ReaderLocations
  BY DEF ExchangeInv, ExchangeTypeOK

\* The writer only ever puts a later snapshot into live_, and it clears nothing.
LEMMA LiveGrows ==
  ASSUME ExchangeInv, FillSlot \/ Publish
  PROVE  /\ live[1] <= live'[1] /\ live'[1] \in Nat /\ (fresh => fresh')
         /\ rpc' = rpc /\ stage' = stage
<1> USE DEF payload
<1>1. ExchangeTypeOK /\ LiveInv /\ live[1] \in Nat
  BY DEF ExchangeInv, ExchangeTypeOK
<1>2. CASE PublishHalf
  <2>1. live'[1] = staging /\ live[1] = staging - 1 /\ staging \in Nat
    BY <1>1, <1>2, HalfOfPair DEF PublishHalf, WriterGoto, LiveInv, ExchangeTypeOK
  <2> QED
    BY <1>1, <1>2, <2>1 DEF PublishHalf, WriterGoto
<1>3. CASE PublishRest
  <2>1. live'[1] = live[1]
    BY <1>1, <1>3, HalfOfPair DEF PublishRest, ExchangeTypeOK
  <2> QED
    BY <1>1, <1>3, <2>1 DEF PublishRest, WriterGoto
<1>4. CASE FillSlot \/ PublishLock \/ PublishFresh \/ PublishUnlock \/ PublishCount
  BY <1>1, <1>4 DEF FillSlot, PublishLock, PublishFresh, PublishUnlock, PublishCount, WriterGoto
<1> QED
  BY <1>2, <1>3, <1>4 DEF Publish

\* While a read() is under way the writer can only improve on what is due.
LEMMA DueUnderWriter ==
  ASSUME ExchangeInv, ReadInv, FillSlot \/ Publish, UNCHANGED due,
         upc' = upc \/ upc' # "read"
  PROVE  DueKept'
<1>1. live[1] \in Nat /\ stage[Update][1] \in Nat
  BY Numbers, ThreadsAssumption
<1> QED
  BY <1>1, LiveGrows DEF ReadInv, DueKept

\* The steps of a thread inside acquire_snapshot().
LEMMA DueUnderReader ==
  ASSUME ExchangeInv, ReadInv, NEW r \in Readers, Reading(r), UNCHANGED <<upc, lpc, due>>
  PROVE  ReadInv'
<1> USE DEF payload
<1>1. /\ ExchangeTypeOK /\ rpc[r] # "idle" /\ rpc[Update] \in ReaderLocations
      /\ rpc' \in [Readers -> ReaderLocations] /\ \A s \in Readers \ {r} : rpc'[s] = rpc[s]
  BY Numbers, ThreadsAssumption DEF ExchangeInv, ExchangeTypeOK, ReaderLocations, Reading,
     ReadLock, ReadTest, ReadHalf, ReadRest, ReadClear, ReadUnlock, ReaderGoto
<1>2. CallsApart'
  BY <1>1 DEF ReadInv, CallsApart
<1>3. CASE upc # "read"
  BY <1>2, <1>3 DEF ReadInv, DueKept
<1>4. ASSUME upc = "read" PROVE DueKept'
  <2>1. r = Update
    BY <1>1, <1>4 DEF ReadInv, CallsApart
  <2>2. live[1] \in Nat /\ stage[r][1] \in Nat /\ due \in Nat
    BY Numbers DEF ReadInv, DueKept
  <2>3. CASE ReadLock(r)
    BY <1>1, <1>4, <2>1, <2>3 DEF ReadInv, DueKept, ReadLock, ReaderGoto, ExchangeTypeOK
  <2>4. CASE ReadTest(r)
    BY <1>1, <1>4, <2>1, <2>2, <2>4 DEF ReadInv, DueKept, ReadTest, ReaderGoto, ExchangeTypeOK
  <2>5. CASE ReadHalf(r)
    <3>1. stage'[r][1] = live[1] /\ rpc[r] = "half" /\ rpc'[r] = "rest"
      BY <1>1, <2>5, HalfOfPair DEF ReadHalf, ReaderGoto, ExchangeTypeOK
    <3> QED
      BY <1>4, <2>1, <3>1 DEF ReadInv, DueKept
  <2>6. CASE ReadRest(r)
    <3>1. stage'[r][1] = stage[r][1] /\ rpc[r] = "rest" /\ rpc'[r] = "clear"
      BY <1>1, <2>6, HalfOfPair DEF ReadRest, ReaderGoto, ExchangeTypeOK
    <3> QED
      BY <1>4, <2>1, <3>1 DEF ReadInv, DueKept
  <2>7. CASE ReadClear(r) \/ ReadUnlock(r)
    <3>1. stage' = stage /\ rpc[r] \in {"clear", "unlock"} /\ rpc'[r] \in {"unlock", "idle"}
      BY <1>1, <2>7 DEF ReadClear, ReadUnlock, ReaderGoto, ExchangeTypeOK
    <3> QED
      BY <1>4, <2>1, <3>1 DEF ReadInv, DueKept
  <2> QED
    BY <2>3, <2>4, <2>5, <2>6, <2>7 DEF Reading
<1> QED
  BY <1>2, <1>3, <1>4 DEF ReadInv

\* The cycles, whoever runs them.
LEMMA ReadCycles ==
  ASSUME ExchangeInv, ReadInv, Tick \/ PublishStep \/ WriteStep \/ PrimeStep
  PROVE  ReadInv'
<1> USE DEF config, lifecycle, window, device
<1>1. CASE TickCycle \/ EnterPause \/ LeaveAct \/ PublishStep
  <2>1. (FillSlot \/ Publish) /\ UNCHANGED <<upc, lpc, due>>
    BY <1>1 DEF TickCycle, EnterPause, LeaveAct, PublishStep, CycleBegin
  <2> QED
    BY <2>1, LiveGrows, CallsApartKept, DueUnderWriter DEF ReadInv
<1>2. CASE Park \/ LeaveDecide \/ Left
  BY <1>2, CallsKept DEF Park, LeaveDecide, Left
<1>3. CASE WriteStep
  <2>1. FillSlot /\ UNCHANGED <<rpc, lpc, due>> /\ upc = "idle" /\ lpc = "idle" /\ upc' = "step"
    BY <1>3, LiveGrows DEF WriteStep, CycleBegin, UpdateMay
  <2>2. CallsApart'
    BY <2>1 DEF ReadInv, CallsApart
  <2> QED
    BY <2>1, <2>2, DueUnderWriter DEF ReadInv
<1>4. CASE PrimeStep
  <2>1. FillSlot /\ UNCHANGED <<rpc, upc, due>> /\ lpc = "prime" /\ lpc' = "primeStep"
    BY <1>4, LiveGrows DEF PrimeStep, CycleBegin
  <2>2. CallsApart'
    BY <2>1 DEF ReadInv, CallsApart
  <2> QED
    BY <2>1, <2>2, DueUnderWriter DEF ReadInv
<1> QED
  BY <1>1, <1>2, <1>3, <1>4 DEF Tick

\* The calls of the update thread.
LEMMA ReadCalls ==
  ASSUME ExchangeInv, ReadInv, ReadCall \/ ReadDone \/ WriteDone
  PROVE  ReadInv'
<1> USE DEF payload, config, lifecycle, window, device
<1>1. CASE ReadCall
  <2>1. /\ rpc[Update] = "idle" /\ rpc' = [rpc EXCEPT ![Update] = IF published THEN "lock" ELSE "idle"]
        /\ upc = "idle" /\ lpc = "idle" /\ lpc' = "idle" /\ UNCHANGED <<fresh, live, stage>>
        /\ upc' = IF published THEN "read" ELSE "idle"
        /\ due' = IF fresh THEN live[1] ELSE 0
    BY <1>1 DEF ReadCall, UpdateMay, HasValue, ReaderGoto
  <2>2. live[1] \in Nat /\ rpc \in [Readers -> ReaderLocations] /\ Update \in Readers
    BY Numbers, ThreadsAssumption DEF ExchangeInv, ExchangeTypeOK
  <2>3. CallsApart'
    BY <2>1, <2>2 DEF ReadInv, CallsApart
  <2>4. DueKept'
    BY <2>1, <2>2 DEF DueKept
  <2> QED
    BY <2>3, <2>4 DEF ReadInv
<1>2. CASE ReadDone
  BY <1>2 DEF ReadDone, ReadInv, CallsApart, DueKept, exchange
<1>3. CASE WriteDone
  BY <1>3 DEF WriteDone, ReadInv, CallsApart, DueKept, exchange
<1> QED
  BY <1>1, <1>2, <1>3

\* The transitions begin when the update thread is in no call, and read while it is not.
LEMMA ReadTransitions ==
  ASSUME ExchangeInv, ReadInv, Transition
  PROVE  ReadInv'
<1> USE DEF payload, config, lifecycle, window, device
<1>1. CASE AlreadyConfigured \/ OnCleanup \/ Shutdown
  BY <1>1, CallsKept DEF AlreadyConfigured, OnCleanup, Shutdown
<1>2. CASE Configure
  <2>1. upc = "idle" /\ upc' = "idle" /\ due' = due /\ rpc' = rpc /\ \A r \in Readers : rpc[r] = "idle"
    BY <1>2 DEF Configure, LifecycleMay, NewGroup
  <2> QED
    BY <2>1 DEF ReadInv, CallsApart, DueKept
<1>3. CASE PrimeStep
  BY <1>3, ReadCycles
<1>4. CASE PrimeCall
  <2>1. /\ rpc' = [rpc EXCEPT ![Lifecycle] = IF published THEN "lock" ELSE "idle"]
        /\ lpc \in {"prime", "primeStep"} /\ lpc' = (IF published THEN "primed" ELSE lpc)
        /\ rpc[Lifecycle] = "idle" /\ UNCHANGED <<upc, due>>
    BY <1>4 DEF PrimeCall, HasValue, ReaderGoto
  <2>2. rpc \in [Readers -> ReaderLocations] /\ Lifecycle \in Readers
    BY ThreadsAssumption DEF ExchangeInv, ExchangeTypeOK
  <2>3. upc = "idle"
    BY <2>1 DEF ReadInv, CallsApart
  <2> QED
    BY <2>1, <2>2, <2>3 DEF ReadInv, CallsApart, DueKept
<1>5. CASE PrimeFails \/ ConfigureDone
  <2>1. lpc \in {"prime", "primed"} /\ (lpc = "primed" => rpc[Lifecycle] = "idle")
        /\ lpc' = "idle" /\ UNCHANGED <<exchange, upc, due>>
    BY <1>5 DEF PrimeFails, ConfigureDone
  <2> QED
    BY <2>1 DEF ReadInv, CallsApart, DueKept, exchange
<1>6. ASSUME NEW from \in {"activate", "deactivate", "error"}, NEW next, CallPause(from, next)
      PROVE  ReadInv'
  BY <1>6 DEF CallPause, ReadInv, CallsApart, DueKept, exchange
<1>7. CASE OnActivate \/ OnDeactivate
  BY <1>7 DEF OnActivate, OnDeactivate, LifecycleMay, ReadInv, CallsApart, DueKept, exchange
<1>8. CASE PauseTimeout \/ ActivateDone \/ DeactivateDone \/ OnErrorDone \/ OnErrorFails
  <2>1. lpc \notin {"idle", "primed"} /\ UNCHANGED <<exchange, upc, due>>
    BY <1>8 DEF PauseTimeout, ActivateDone, DeactivateDone, OnErrorDone, OnErrorFails, Owned
  <2> QED
    BY <2>1 DEF ReadInv, CallsApart, DueKept, exchange
<1> QED
  BY <1>1, <1>2, <1>3, <1>4, <1>5, <1>6, <1>7, <1>8 DEF Transition

LEMMA ReadInvStep == ASSUME ExchangeInv, ReadInv, [Next]_vars PROVE ReadInv'
<1>1. CASE ReadStep
  BY <1>1, DueUnderReader DEF ReadStep, lifecycle
<1>2. CASE PowerLost \/ UNCHANGED vars
  BY <1>2, CallsKept DEF PowerLost, vars, lifecycle
<1> QED
  BY <1>1, <1>2, ReadCycles, ReadCalls, ReadTransitions DEF Next, UpdateThread

\* read() of the update thread reports nothing older than the newest snapshot that
\* nobody had been given when it was called: prime_snapshot() of the lifecycle thread
\* takes none away from it, and the tick thread that publishes meanwhile hides none.
THEOREM ReadsAreNotLate == Spec => ReadsAreFresh
<1>1. Init => ReadInv
  BY DEF Init, ExchangeInit, ReadInv, CallsApart, DueKept
<1>2. ExchangeInv /\ ReadInv => [ReadDone => reported' >= due]_vars
  BY ThreadsAssumption DEF ReadInv, DueKept, ReadDone
<1> QED
  BY <1>1, <1>2, ReadInvStep, HardwareExchanges, ExchangeCorrect, PTL DEF Spec, ReadsAreFresh
=============================================================================
