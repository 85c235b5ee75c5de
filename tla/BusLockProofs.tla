--------------------------- MODULE BusLockProofs ---------------------------
(***************************************************************************)
(* Proofs about the bus locks, for any number of processes and buses.      *)
(***************************************************************************)
EXTENDS BusLock, TLAPS

\* Processes that ask for exclusivity look for the lock files in one directory.
OneDirectory == \A p, q \in Exclusive : Dir[p] = Dir[q]

\* A process has a file of its own directory for each bus, and different buses have different files.
LEMMA FileFacts ==
  ASSUME NEW p \in Procs, NEW b \in Buses
  PROVE  File(p, b) \in Files /\ \A c \in Buses : File(p, b) = File(p, c) => b = c
  BY DEF File, Files

\* Where the loop that opens the buses of a group goes.
LEMMA OpenNextGoes ==
  ASSUME NEW p \in Procs, NEW open, OpenNext(p, open)
  PROVE  \/ Go(p, "configure", "none")
         \/ \E b \in Buses \ open : Go(p, "lock", b)
         \/ \E b \in Buses \ open : Go(p, "hal", b) /\ LockMode[p] = "off"
<1>1. CASE Go(p, "configure", "none")
  BY <1>1
<1>2. CASE \E b \in First(p, Group(p) \ open) :
             Go(p, IF LockMode[p] = "off" THEN "hal" ELSE "lock", b)
  <2>1. PICK b \in Buses \ open : Go(p, IF LockMode[p] = "off" THEN "hal" ELSE "lock", b)
    BY <1>2 DEF First, Group
  <2>2. CASE LockMode[p] = "off"
    BY <2>1, <2>2
  <2>3. CASE LockMode[p] # "off"
    BY <2>1, <2>3
  <2> QED
    BY <2>2, <2>3
<1> QED
  BY <1>1, <1>2 DEF OpenNext

\* Where the loop that closes them goes.
LEMMA CloseNextGoes ==
  ASSUME NEW p \in Procs, NEW open, CloseNext(p, open)
  PROVE  (open = {} /\ Go(p, "down", "none")) \/ \E b \in open : Go(p, "closeHal", b)
  BY DEF CloseNext, First

\* The places of the processes, as far as their type goes.
PlacesOK ==
  /\ stage \in [Procs -> Stages]
  /\ cur \in [Procs -> Buses \cup {"none"}]
  /\ \A p \in Procs : cur[p] = "none" <=> stage[p] \in {"down", "configure", "up"}

\* Going to a place keeps the types of places.
LEMMA GoKeepsPlaces ==
  ASSUME PlacesOK, NEW p \in Procs, NEW s \in Stages, NEW b \in Buses \cup {"none"},
         Go(p, s, b), b = "none" <=> s \in {"down", "configure", "up"}
  PROVE  PlacesOK'
  BY DEF PlacesOK, Go

\* So do the two loops over the buses.
LEMMA LoopsKeepPlaces ==
  ASSUME PlacesOK, NEW p \in Procs, NEW open \in SUBSET Buses,
         OpenNext(p, open) \/ CloseNext(p, open)
  PROVE  PlacesOK'
<1> USE LockAssumption DEF Stages
<1>1. CASE OpenNext(p, open)
  <2>1. CASE Go(p, "configure", "none")
    BY <2>1, GoKeepsPlaces
  <2>2. CASE \E b \in Buses \ open : Go(p, "lock", b)
    BY <2>2, GoKeepsPlaces
  <2>3. CASE \E b \in Buses \ open : Go(p, "hal", b)
    BY <2>3, GoKeepsPlaces
  <2> QED
    BY <1>1, <2>1, <2>2, <2>3, OpenNextGoes
<1>2. CASE CloseNext(p, open)
  <2>1. CASE Go(p, "down", "none")
    BY <2>1, GoKeepsPlaces
  <2>2. CASE \E b \in open : Go(p, "closeHal", b)
    BY <2>2, GoKeepsPlaces
  <2> QED
    BY <1>2, <2>1, <2>2, CloseNextGoes
<1> QED
  BY <1>1, <1>2

\* The variables keep their types, wherever the lock files are.
THEOREM LockTypeCorrect == Spec => []TypeOK
<1>1. Init => TypeOK
  BY LockAssumption DEF Init, TypeOK, Stages
<1>2. TypeOK /\ [Next]_vars => TypeOK'
  <2> SUFFICES ASSUME TypeOK, [Next]_vars PROVE TypeOK'
    OBVIOUS
  <2>0. PlacesOK /\ \A p \in Procs : Open(p) \in SUBSET Buses
    BY DEF TypeOK, PlacesOK, Open
  <2>1. CASE UNCHANGED vars
    BY <2>1 DEF vars, TypeOK
  <2>2. ASSUME NEW p \in Procs, Start(p) \/ OpenStep(p) \/ Failure(p) \/ Stop(p) \/ CloseStep(p) \/ Crash(p)
        PROVE  PlacesOK'
    <3> USE <2>0, GoKeepsPlaces, LoopsKeepPlaces, LockAssumption DEF Stages
    <3>0. cur[p] \in Buses <=> stage[p] \notin {"down", "configure", "up"}
      BY DEF PlacesOK
    <3>1. CASE Start(p)
      BY <3>1 DEF Start
    <3>2. CASE TryLock(p)
      BY <3>0, <3>2 DEF TryLock, At
    <3>3. CASE Refused(p)
      BY <3>0, <3>3 DEF Refused, At
    <3>4. CASE ReadOwner(p) \/ LockFileFails(p) \/ ConfigureFails(p) \/ Stop(p)
      BY <3>4 DEF ReadOwner, LockFileFails, ConfigureFails, Stop
    <3>5. CASE TruncateOwner(p)
      BY <3>0, <3>5 DEF TruncateOwner, At
    <3>6. CASE WritePid(p)
      BY <3>0, <3>6 DEF WritePid, At
    <3>7. CASE OpenHal(p)
      BY <3>0, <3>7 DEF OpenHal, At
    <3>8. CASE OpenHalFails(p)
      BY <3>0, <3>8 DEF OpenHalFails, At
    <3>9. CASE ConfigureDone(p)
      BY <3>9 DEF ConfigureDone
    <3>10. CASE CloseHal(p)
      BY <3>0, <3>10 DEF CloseHal, At
    <3>11. CASE RemoveOwner(p)
      BY <3>0, <3>11 DEF RemoveOwner, At
    <3>12. CASE Unlock(p)
      BY <3>12 DEF Unlock
    <3>13. CASE Crash(p)
      BY <3>13 DEF Crash
    <3> QED
      BY <2>2, <3>1, <3>2, <3>3, <3>4, <3>5, <3>6, <3>7, <3>8, <3>9, <3>10, <3>11, <3>12, <3>13
         DEF OpenStep, Failure, CloseStep
  <2>3. ASSUME NEW p \in Procs, Start(p) \/ OpenStep(p) \/ Failure(p) \/ Stop(p) \/ CloseStep(p) \/ Crash(p)
        PROVE  /\ holder' \in [Files -> Procs \cup {"nobody"}]
               /\ owner' \in [Files -> Procs \cup {"nobody", "dead"}]
               /\ held' \in [Procs -> SUBSET Buses] /\ hal' \in [Procs -> SUBSET Buses]
    <3> USE DEF TypeOK, files
    <3>1. CASE Start(p) \/ Failure(p) \/ Stop(p)
      BY <3>1 DEF Start, Failure, LockFileFails, OpenHalFails, ConfigureFails, Stop
    <3>2. CASE TryLock(p) \/ Refused(p) \/ ReadOwner(p) \/ TruncateOwner(p) \/ ConfigureDone(p)
      BY <3>2 DEF TryLock, Refused, ReadOwner, TruncateOwner, ConfigureDone
    <3>3. CASE WritePid(p)
      <4>1. cur[p] \in Buses
        BY <3>3, LockAssumption DEF WritePid, At
      <4>2. owner' \in [Files -> Procs \cup {"nobody", "dead"}] /\ holder' = holder /\ hal' = hal
        BY <3>3 DEF WritePid
      <4>3. held' \in [Procs -> SUBSET Buses]
        BY <3>3, <4>1 DEF WritePid
      <4> QED
        BY <4>2, <4>3
    <3>4. CASE OpenHal(p)
      BY <3>4, LockAssumption DEF OpenHal, At
    <3>5. CASE CloseHal(p) \/ RemoveOwner(p)
      BY <3>5 DEF CloseHal, RemoveOwner
    <3>6. CASE Unlock(p)
      BY <3>6 DEF Unlock, Unlocked
    <3>7. CASE Crash(p)
      BY <3>7 DEF Crash, Unlocked
    <3> QED
      BY <2>3, <3>1, <3>2, <3>3, <3>4, <3>5, <3>6, <3>7 DEF OpenStep, CloseStep
  <2>4. TypeOK' <=> /\ PlacesOK'
                    /\ holder' \in [Files -> Procs \cup {"nobody"}]
                    /\ owner' \in [Files -> Procs \cup {"nobody", "dead"}]
                    /\ held' \in [Procs -> SUBSET Buses] /\ hal' \in [Procs -> SUBSET Buses]
    BY DEF TypeOK, PlacesOK
  <2> QED
    BY <2>1, <2>2, <2>3, <2>4 DEF Next
<1> QED
  BY <1>1, <1>2, PTL DEF Spec

-----------------------------------------------------------------------------
(* The inductive invariant.                                                *)

\* What process p does in a step.
StepOf(p) == Start(p) \/ OpenStep(p) \/ Failure(p) \/ Stop(p) \/ CloseStep(p) \/ Crash(p)

\* The part of the invariant that is about one process.
InvOf(p) == HeldIsLocked(p) /\ LockIsHeld(p) /\ HalIsHeld(p) /\ DownIsClosed(p)

\* The places to which an opening and a closing loop goes, in terms of the variables.
LEMMA LoopPlaces ==
  ASSUME TypeOK, NEW p \in Procs, NEW open
  PROVE  /\ OpenNext(p, open) =>
              \/ stage'[p] = "configure"
              \/ stage'[p] = "lock" /\ cur'[p] \in Buses \ open
              \/ stage'[p] = "hal" /\ cur'[p] \in Buses \ open /\ LockMode[p] = "off"
         /\ CloseNext(p, open) =>
              \/ stage'[p] = "down" /\ open = {}
              \/ stage'[p] = "closeHal" /\ cur'[p] \in open
         /\ OpenNext(p, open) \/ CloseNext(p, open) =>
              \A q \in Procs \ {p} : stage'[q] = stage[q] /\ cur'[q] = cur[q]
<1> USE DEF TypeOK, Go
<1>1. ASSUME OpenNext(p, open)
      PROVE  /\ \/ stage'[p] = "configure"
                \/ stage'[p] = "lock" /\ cur'[p] \in Buses \ open
                \/ stage'[p] = "hal" /\ cur'[p] \in Buses \ open /\ LockMode[p] = "off"
             /\ \A q \in Procs \ {p} : stage'[q] = stage[q] /\ cur'[q] = cur[q]
  BY <1>1, OpenNextGoes
<1>2. ASSUME CloseNext(p, open)
      PROVE  /\ \/ stage'[p] = "down" /\ open = {}
                \/ stage'[p] = "closeHal" /\ cur'[p] \in open
             /\ \A q \in Procs \ {p} : stage'[q] = stage[q] /\ cur'[q] = cur[q]
  BY <1>2, CloseNextGoes
<1> QED
  BY <1>1, <1>2

\* A step of one process changes nothing of the others, and none of their locks.
LEMMA OthersKept ==
  ASSUME TypeOK, NEW p \in Procs, StepOf(p), NEW q \in Procs \ {p}
  PROVE  /\ stage'[q] = stage[q] /\ cur'[q] = cur[q]
         /\ held'[q] = held[q] /\ hal'[q] = hal[q]
         /\ \A f \in Files : holder'[f] = q <=> holder[f] = q
<1> USE LoopPlaces, LockAssumption DEF TypeOK, files, Go
<1>1. CASE Start(p) \/ Stop(p) \/ Failure(p)
  BY <1>1 DEF Start, Stop, Failure, LockFileFails, OpenHalFails, ConfigureFails
<1>2. CASE Refused(p) \/ ReadOwner(p) \/ ConfigureDone(p)
  BY <1>2 DEF Refused, ReadOwner, ConfigureDone
<1>3. CASE TryLock(p)
  BY <1>3 DEF TryLock
<1>4. CASE TruncateOwner(p) \/ WritePid(p) \/ RemoveOwner(p)
  BY <1>4 DEF TruncateOwner, WritePid, RemoveOwner
<1>5. CASE OpenHal(p) \/ CloseHal(p)
  BY <1>5 DEF OpenHal, CloseHal
<1>6. CASE Unlock(p)
  BY <1>6 DEF Unlock, Unlocked
<1>7. CASE Crash(p)
  BY <1>7 DEF Crash, Unlocked
<1> QED
  BY <1>1, <1>2, <1>3, <1>4, <1>5, <1>6, <1>7 DEF StepOf, OpenStep, CloseStep

\* Nor does it disturb the part of the invariant that is about another process.
LEMMA OthersInvKept ==
  ASSUME TypeOK, NEW p \in Procs, StepOf(p), NEW q \in Procs \ {p}, InvOf(q)
  PROVE  InvOf(q)'
<1> USE OthersKept, FileFacts DEF InvOf
<1>1. HeldIsLocked(q)'
  BY DEF HeldIsLocked, Acquiring, File
<1>2. LockIsHeld(q)'
  BY DEF LockIsHeld, Acquiring, File
<1>3. HalIsHeld(q)' /\ DownIsClosed(q)'
  BY DEF HalIsHeld, DownIsClosed, At, Open
<1> QED
  BY <1>1, <1>2, <1>3

\* A step that leaves the files and what is open alone keeps the part of its process.
LEMMA MoveKeepsInv ==
  ASSUME TypeOK, NEW p \in Procs, InvOf(p), UNCHANGED <<files, held, hal>>,
         ~Acquiring(p), ~Acquiring(p)',
         stage'[p] = "hal" => LockMode[p] = "off",
         stage'[p] \in {"lock", "readOwner", "hal", "removeOwner", "unlock"} => cur'[p] \notin hal[p],
         stage'[p] = "down" => Open(p) = {}
  PROVE  InvOf(p)'
<1> USE DEF InvOf, files
<1>1. HeldIsLocked(p)'
  BY DEF HeldIsLocked, File
<1>2. LockIsHeld(p)'
  BY DEF LockIsHeld, File
<1>3. HalIsHeld(p)'
  BY DEF HalIsHeld, At, Acquiring, Exclusive
<1>4. DownIsClosed(p)'
  BY DEF DownIsClosed, At, Open
<1> QED
  BY <1>1, <1>2, <1>3, <1>4

\* A step of a process keeps its own part of the invariant.
LEMMA StepKeepsInv ==
  ASSUME TypeOK, NEW p \in Procs, StepOf(p), InvOf(p)
  PROVE  InvOf(p)'
<1> USE LockAssumption DEF TypeOK, Go, At
<1>0. cur[p] \in Buses => File(p, cur[p]) \in Files
  BY FileFacts
<1>1. CASE Start(p)
  BY <1>1, MoveKeepsInv, LoopPlaces DEF Start, Acquiring, InvOf, DownIsClosed, Open
<1>2. CASE Stop(p) \/ LockFileFails(p) \/ ConfigureFails(p) \/ ReadOwner(p)
  BY <1>2, MoveKeepsInv, LoopPlaces DEF Stop, LockFileFails, ConfigureFails, ReadOwner, Acquiring
<1>3. CASE Refused(p) \/ ConfigureDone(p)
  BY <1>3, MoveKeepsInv DEF Refused, ConfigureDone, Acquiring, InvOf, HalIsHeld
<1>4. CASE OpenHalFails(p)
  <2>1. stage[p] = "hal" /\ cur[p] \notin hal[p] /\ UNCHANGED <<files, held, hal>>
    BY <1>4 DEF OpenHalFails, InvOf, HalIsHeld
  <2>2. CASE Go(p, "removeOwner", cur[p])
    BY <2>1, <2>2, MoveKeepsInv DEF Acquiring
  <2>3. CASE CloseNext(p, Open(p))
    BY <2>1, <2>3, MoveKeepsInv, LoopPlaces DEF Acquiring
  <2> QED
    BY <1>4, <2>2, <2>3 DEF OpenHalFails
<1>5. CASE TryLock(p)
  <2>1. /\ stage[p] = "lock" /\ stage'[p] = "truncate" /\ cur'[p] = cur[p] /\ cur[p] \in Buses
        /\ UNCHANGED <<held, hal>> /\ cur[p] \notin hal[p]
        /\ \/ p \notin Exclusive /\ UNCHANGED holder
           \/ p \in Exclusive /\ holder' = [holder EXCEPT ![File(p, cur[p])] = p]
    BY <1>5 DEF TryLock, InvOf, HalIsHeld, Exclusive
  <2>2. HeldIsLocked(p)'
    <3> SUFFICES ASSUME NEW b \in Buses, p \in Exclusive, b \in held[p] \/ b = cur[p]
                 PROVE  holder'[File(p, b)] = p
      BY <2>1 DEF HeldIsLocked, Acquiring, File
    <3>1. holder' = [holder EXCEPT ![File(p, cur[p])] = p]
      BY <2>1
    <3>2. b \in held[p] => holder[File(p, b)] = p
      BY DEF InvOf, HeldIsLocked
    <3> QED
      BY <1>0, <3>1, <3>2, FileFacts
  <2>3. LockIsHeld(p)'
    BY <1>0, <2>1 DEF InvOf, LockIsHeld, Acquiring, File
  <2> QED
    BY <2>1, <2>2, <2>3 DEF InvOf, HalIsHeld, DownIsClosed, Exclusive
<1>6. CASE TruncateOwner(p)
  BY <1>6 DEF TruncateOwner, InvOf, HeldIsLocked, LockIsHeld, HalIsHeld, DownIsClosed,
              Acquiring, File, Exclusive
<1>7. CASE WritePid(p)
  BY <1>7 DEF WritePid, InvOf, HeldIsLocked, LockIsHeld, HalIsHeld, DownIsClosed,
              Acquiring, File, Exclusive
<1>8. CASE OpenHal(p)
  <2>1. /\ stage[p] = "hal" /\ cur[p] \in Buses
        /\ hal' = [hal EXCEPT ![p] = @ \cup {cur[p]}] /\ UNCHANGED <<files, held>>
        /\ OpenNext(p, Open(p) \cup {cur[p]})
    BY <1>8 DEF OpenHal
  <2>2. \/ stage'[p] = "configure"
        \/ stage'[p] = "lock" /\ cur'[p] \notin hal'[p]
        \/ stage'[p] = "hal" /\ cur'[p] \notin hal'[p] /\ p \notin Exclusive
    BY <2>1, LoopPlaces DEF Open, Exclusive
  <2>3. HeldIsLocked(p)' /\ LockIsHeld(p)'
    BY <2>1, <2>2 DEF InvOf, HeldIsLocked, LockIsHeld, Acquiring, File, files, Exclusive
  <2>4. HalIsHeld(p)' /\ DownIsClosed(p)'
    BY <2>1, <2>2 DEF InvOf, HalIsHeld, DownIsClosed, files, Exclusive
  <2> QED
    BY <2>3, <2>4 DEF InvOf
<1>9. CASE CloseHal(p)
  <2>1. /\ stage[p] = "closeHal" /\ cur[p] \in Buses /\ cur[p] \notin hal'[p] /\ hal'[p] \subseteq hal[p]
        /\ hal' = [hal EXCEPT ![p] = @ \ {cur[p]}] /\ UNCHANGED <<files, held>>
    BY <1>9 DEF CloseHal
  <2>2. \/ stage'[p] = "removeOwner" /\ cur'[p] = cur[p]
        \/ stage'[p] = "closeHal"
        \/ stage'[p] = "down" /\ Open(p)' = {}
    <3>1. CASE cur[p] \in held[p]
      BY <1>9, <3>1 DEF CloseHal
    <3>2. CASE cur[p] \notin held[p]
      <4>1. CloseNext(p, Open(p) \ {cur[p]})
        BY <1>9, <3>2 DEF CloseHal
      <4>2. Open(p)' = Open(p) \ {cur[p]}
        BY <2>1, <3>2 DEF Open, files
      <4>3. \/ stage'[p] = "down" /\ Open(p) \ {cur[p]} = {}
            \/ stage'[p] = "closeHal"
        <5>1. CASE \E b \in First(p, Open(p) \ {cur[p]}) : Go(p, "closeHal", b)
          BY <5>1
        <5>2. CASE Open(p) \ {cur[p]} = {} /\ Go(p, "down", "none")
          BY <5>2
        <5> QED
          BY <4>1, <5>1, <5>2 DEF CloseNext
      <4> QED
        BY <4>2, <4>3
    <3> QED
      BY <3>1, <3>2
  <2>3. HeldIsLocked(p)' /\ LockIsHeld(p)'
    BY <2>1, <2>2 DEF InvOf, HeldIsLocked, LockIsHeld, Acquiring, File, files, Exclusive
  <2>4. HalIsHeld(p)' /\ DownIsClosed(p)'
    BY <2>1, <2>2 DEF InvOf, HalIsHeld, DownIsClosed, files, Exclusive
  <2> QED
    BY <2>3, <2>4 DEF InvOf
<1>10. CASE RemoveOwner(p)
  BY <1>10 DEF RemoveOwner, InvOf, HeldIsLocked, LockIsHeld, HalIsHeld, DownIsClosed,
               Acquiring, File, Exclusive
<1>11. CASE Unlock(p)
  <2>1. /\ stage[p] = "unlock" /\ cur[p] \in Buses /\ cur[p] \notin hal[p]
        /\ holder' = [holder EXCEPT ![File(p, cur[p])] = Unlocked(p, File(p, cur[p]))]
        /\ held' = [held EXCEPT ![p] = @ \ {cur[p]}] /\ UNCHANGED <<owner, hal>>
    BY <1>11 DEF Unlock, InvOf, HalIsHeld
  <2>2. \/ stage'[p] = "closeHal"
        \/ stage'[p] = "down" /\ Open(p)' = {}
    <3>1. CloseNext(p, Open(p) \ {cur[p]}) /\ Open(p)' = Open(p) \ {cur[p]}
      BY <1>11, <2>1 DEF Unlock, Open
    <3>2. \/ stage'[p] = "down" /\ Open(p) \ {cur[p]} = {}
          \/ stage'[p] = "closeHal"
      BY <3>1, LoopPlaces
    <3> QED
      BY <3>1, <3>2
  <2>3. HeldIsLocked(p)'
    BY <1>0, <2>1, <2>2, FileFacts DEF InvOf, HeldIsLocked, Acquiring, File, Exclusive
  <2>4. LockIsHeld(p)'
    BY <1>0, <2>1, <2>2, FileFacts DEF InvOf, LockIsHeld, Acquiring, File, Unlocked
  <2>5. HalIsHeld(p)' /\ DownIsClosed(p)'
    BY <2>1, <2>2 DEF InvOf, HalIsHeld, DownIsClosed, Exclusive
  <2> QED
    BY <2>3, <2>4, <2>5 DEF InvOf
<1>12. CASE Crash(p)
  <2>1. /\ stage'[p] = "down" /\ held'[p] = {} /\ hal'[p] = {}
        /\ \A f \in Files : holder'[f] # p
    BY <1>12 DEF Crash, Unlocked
  <2> QED
    BY <2>1 DEF InvOf, HeldIsLocked, LockIsHeld, HalIsHeld, DownIsClosed, Acquiring, Open
<1> QED
  BY <1>1, <1>2, <1>3, <1>4, <1>5, <1>6, <1>7, <1>8, <1>9, <1>10, <1>11, <1>12
     DEF StepOf, OpenStep, Failure, CloseStep

\* The invariant of the locks holds in every reachable state, whatever the directories.
THEOREM LocksCorrect == Spec => []LockInv
<1>1. Init => LockInv
  BY LockAssumption DEF Init, LockInv, HeldIsLocked, LockIsHeld, HalIsHeld, DownIsClosed, Acquiring, At, Open
<1>2. TypeOK /\ LockInv /\ [Next]_vars => LockInv'
  <2> SUFFICES ASSUME TypeOK, LockInv, [Next]_vars PROVE LockInv'
    OBVIOUS
  <2>1. ASSUME NEW p \in Procs, StepOf(p) PROVE LockInv'
    BY <2>1, StepKeepsInv, OthersInvKept DEF LockInv, InvOf
  <2>2. CASE UNCHANGED vars
    BY <2>2 DEF vars, LockInv, HeldIsLocked, LockIsHeld, HalIsHeld, DownIsClosed, Acquiring, At,
                Open
  <2> QED
    BY <2>1, <2>2 DEF Next, StepOf
<1> QED
  BY <1>1, <1>2, LockTypeCorrect, PTL DEF Spec

-----------------------------------------------------------------------------
(* What follows from it.                                                   *)

\* A bus that an exclusive process has open is locked by it.
LEMMA HalIsLocked ==
  ASSUME TypeOK, LockInv, NEW p \in Exclusive, NEW b \in hal[p]
  PROVE  b \in Buses /\ holder[File(p, b)] = p
<1>1. p \in Procs
  BY DEF Exclusive
<1>2. b \in Buses /\ b \in held[p]
  BY <1>1 DEF TypeOK, LockInv, HalIsHeld
<1> QED
  BY <1>1, <1>2 DEF LockInv, HeldIsLocked

\* With one directory, two exclusive processes that have a bus open are the holders of one file.
LEMMA OneHolder ==
  ASSUME OneDirectory, TypeOK, LockInv
  PROVE  OneMaster
<1> SUFFICES ASSUME NEW p \in Exclusive, NEW q \in Exclusive, NEW b \in hal[p] \cap hal[q]
             PROVE  p = q
  BY DEF OneMaster
<1>1. holder[File(p, b)] = p /\ holder[File(q, b)] = q
  BY HalIsLocked
<1>2. File(p, b) = File(q, b)
  BY DEF OneDirectory, File
<1> QED
  BY <1>1, <1>2

\* With one lock directory, two processes that ask for exclusivity never have the same
\* bus open, however many start, fail, stop and crash.
THEOREM OneMasterPerBus ==
  ASSUME OneDirectory
  PROVE  Spec => []OneMaster
  BY OneHolder, LocksCorrect, LockTypeCorrect, PTL

\* A process that is down has given all its locks and buses back.
THEOREM NothingIsKept == Spec => []DownKeepsNothing
<1>1. LockInv => DownKeepsNothing
  BY DEF LockInv, LockIsHeld, DownIsClosed, DownKeepsNothing, Acquiring, At, Open
<1> QED
  BY <1>1, LocksCorrect, PTL

-----------------------------------------------------------------------------
(* The locks implement BusMaster.                                          *)

\* What the mapping gives in a state with one master per bus.
MasterFacts ==
  /\ Master = [b \in Buses |-> Master[b]]
  /\ \A b \in Buses, p \in Exclusive : b \in hal[p] => Master[b] = p
  /\ \A b \in Buses : (\A p \in Exclusive : b \notin hal[p]) => Master[b] = "nobody"

\* What Master says of a bus, from OneMaster.
LEMMA MasterCorrect == OneMaster => MasterFacts
  BY DEF OneMaster, MasterFacts, Master

\* The same in the next state.
LEMMA MasterCorrectNext == OneMaster' => MasterFacts'
  BY MasterCorrect, PTL

\* Buses whose exclusive users stay the same keep their master.
LEMMA MasterKept ==
  ASSUME MasterFacts, MasterFacts', NEW b \in Buses,
         \A p \in Exclusive : b \in hal'[p] <=> b \in hal[p]
  PROVE  Master'[b] = Master[b]
<1>1. CASE \E p \in Exclusive : b \in hal[p]
  BY <1>1 DEF MasterFacts
<1>2. CASE \A p \in Exclusive : b \notin hal[p]
  BY <1>2 DEF MasterFacts
<1> QED
  BY <1>1, <1>2

\* A step of a process is a step of BusMaster or leaves the masters alone.
LEMMA StepMaps ==
  ASSUME OneDirectory, TypeOK, LockInv, OneMaster, MasterFacts, MasterFacts',
         NEW p \in Procs, StepOf(p)
  PROVE  [Mastership!Next]_Master
<1> USE DEF TypeOK
<1>0. ASSUME hal' = hal PROVE [Mastership!Next]_Master
  BY <1>0 DEF Master
<1>1. CASE p \notin Exclusive
  <2>1. \A q \in Exclusive : hal'[q] = hal[q]
    BY <1>1, OthersKept DEF Exclusive
  <2>2. \A b \in Buses : Master'[b] = Master[b]
    BY <2>1, MasterKept
  <2> QED
    BY <2>2 DEF MasterFacts
<1>2. CASE OpenHal(p) /\ p \in Exclusive
  <2>1. cur[p] \in Buses /\ hal' = [hal EXCEPT ![p] = @ \cup {cur[p]}]
    BY <1>2 DEF OpenHal, At
  <2>2. cur[p] \in held[p] /\ cur[p] \notin hal[p]
    BY <1>2 DEF OpenHal, At, LockInv, HalIsHeld
  <2>3. \A q \in Exclusive : cur[p] \notin hal[q]
    <3> SUFFICES ASSUME NEW q \in Exclusive, cur[p] \in hal[q] PROVE FALSE
      OBVIOUS
    <3>1. holder[File(q, cur[p])] = q
      BY HalIsLocked
    <3>2. holder[File(p, cur[p])] = p
      BY <2>1, <2>2, <1>2 DEF LockInv, HeldIsLocked
    <3>3. File(p, cur[p]) = File(q, cur[p])
      BY <1>2 DEF OneDirectory, File
    <3> QED
      BY <2>2, <3>1, <3>2, <3>3
  <2>4. Master[cur[p]] = "nobody" /\ Master'[cur[p]] = p
    BY <1>2, <2>1, <2>3 DEF MasterFacts
  <2>5. \A b \in Buses \ {cur[p]} : Master'[b] = Master[b]
    <3> SUFFICES ASSUME NEW b \in Buses \ {cur[p]} PROVE Master'[b] = Master[b]
      OBVIOUS
    <3>1. \A q \in Exclusive : b \in hal'[q] <=> b \in hal[q]
      BY <2>1 DEF Exclusive
    <3> QED
      BY <3>1, MasterKept
  <2>6. Master' = [Master EXCEPT ![cur[p]] = p]
    BY <2>4, <2>5 DEF MasterFacts
  <2> QED
    BY <1>2, <2>1, <2>4, <2>6 DEF Mastership!Next, Mastership!Take
<1>3. CASE CloseHal(p) /\ p \in Exclusive
  <2>1. cur[p] \in Buses /\ hal' = [hal EXCEPT ![p] = @ \ {cur[p]}]
    BY <1>3 DEF CloseHal, At
  <2>2. CASE cur[p] \notin hal[p]
    BY <1>0, <2>1, <2>2
  <2>3. CASE cur[p] \in hal[p]
    <3>1. \A q \in Exclusive : cur[p] \notin hal'[q]
      BY <1>3, <2>1, <2>3 DEF OneMaster, Exclusive
    <3>2. Master[cur[p]] = p /\ Master'[cur[p]] = "nobody"
      BY <1>3, <2>1, <2>3, <3>1 DEF MasterFacts
    <3>3. \A b \in Buses \ {cur[p]} : Master'[b] = Master[b]
      <4> SUFFICES ASSUME NEW b \in Buses \ {cur[p]} PROVE Master'[b] = Master[b]
        OBVIOUS
      <4>1. \A q \in Exclusive : b \in hal'[q] <=> b \in hal[q]
        BY <2>1 DEF Exclusive
      <4> QED
        BY <4>1, MasterKept
    <3>4. Master' = [Master EXCEPT ![cur[p]] = "nobody"]
      BY <3>2, <3>3 DEF MasterFacts
    <3> QED
      BY <1>3, <2>1, <3>2, <3>4 DEF Mastership!Next, Mastership!Give
  <2> QED
    BY <2>2, <2>3
<1>4. CASE Crash(p) /\ p \in Exclusive
  <2>1. hal' = [hal EXCEPT ![p] = {}]
    BY <1>4 DEF Crash
  <2>2. \A b \in Buses : Master'[b] = IF Master[b] = p THEN "nobody" ELSE Master[b]
    <3> SUFFICES ASSUME NEW b \in Buses
                 PROVE  Master'[b] = IF Master[b] = p THEN "nobody" ELSE Master[b]
      OBVIOUS
    <3>1. CASE b \in hal[p]
      <4>1. \A q \in Exclusive : b \notin hal'[q]
        BY <1>4, <2>1, <3>1 DEF OneMaster, Exclusive
      <4> QED
        BY <1>4, <3>1, <4>1 DEF MasterFacts
    <3>2. CASE b \notin hal[p]
      <4>1. \A q \in Exclusive : b \in hal'[q] <=> b \in hal[q]
        BY <2>1, <3>2 DEF Exclusive
      <4>2. Master'[b] = Master[b]
        BY <4>1, MasterKept
      <4>3. Master[b] # p
        BY <3>2, LockAssumption DEF MasterFacts
      <4> QED
        BY <4>2, <4>3
    <3> QED
      BY <3>1, <3>2
  <2>3. Master' = [b \in Buses |-> IF Master[b] = p THEN "nobody" ELSE Master[b]]
    BY <2>2 DEF MasterFacts
  <2> QED
    BY <1>4, <2>3 DEF Mastership!Next, Mastership!Die
<1>5. CASE Start(p) \/ Failure(p) \/ Stop(p) \/ RemoveOwner(p) \/ Unlock(p)
  BY <1>0, <1>5 DEF Start, Failure, LockFileFails, OpenHalFails, ConfigureFails, Stop,
                    RemoveOwner, Unlock
<1>6. CASE TryLock(p) \/ Refused(p) \/ ReadOwner(p) \/ TruncateOwner(p) \/ WritePid(p) \/ ConfigureDone(p)
  BY <1>0, <1>6 DEF TryLock, Refused, ReadOwner, TruncateOwner, WritePid, ConfigureDone
<1> QED
  BY <1>1, <1>2, <1>3, <1>4, <1>5, <1>6 DEF StepOf, OpenStep, CloseStep

\* With one lock directory, the locks implement the single-master rule.
THEOREM ImplementsBusMaster ==
  ASSUME OneDirectory
  PROVE  Spec => MastershipSpec
<1>1. Init => Mastership!Init
  BY DEF Init, Mastership!Init, Master, Exclusive
<1>2. /\ TypeOK /\ LockInv /\ OneMaster /\ MasterFacts /\ MasterFacts' /\ [Next]_vars
      => [Mastership!Next]_Master
  <2> SUFFICES ASSUME TypeOK, LockInv, OneMaster, MasterFacts, MasterFacts', [Next]_vars
               PROVE  [Mastership!Next]_Master
    OBVIOUS
  <2>1. ASSUME NEW p \in Procs, StepOf(p) PROVE [Mastership!Next]_Master
    BY <2>1, StepMaps
  <2>2. CASE UNCHANGED vars
    BY <2>2 DEF vars, Master
  <2> QED
    BY <2>1, <2>2 DEF Next, StepOf
<1> QED
  BY <1>1, <1>2, MasterCorrect, MasterCorrectNext, OneMasterPerBus, LocksCorrect,
     LockTypeCorrect, PTL DEF Spec, MastershipSpec, Mastership!Spec

-----------------------------------------------------------------------------
(* The owner files: why who is refused is told the truth.                  *)

\* A file that no shared process writes.
Private(f) == \A p \in Procs : LockMode[p] = "shared" => f[2] \notin Group(p)

\* A process is busy with buses of its group; without bus_lock it touches no file; it does
\* not acquire what it holds, and gives up only what it holds.
Orderly(p) ==
  /\ held[p] \subseteq Group(p) /\ hal[p] \subseteq Group(p) /\ (cur[p] # "none" => cur[p] \in Group(p))
  /\ LockMode[p] = "off" => held[p] = {} /\ stage[p] \notin {"lock", "readOwner", "truncate", "writePid"}
  /\ stage[p] \in {"lock", "truncate", "writePid"} => cur[p] \notin held[p]
  /\ stage[p] \in {"removeOwner", "unlock"} => cur[p] \in held[p]

\* The owner file names who has acquired the lock, until it is removed.
OwnerNamed(p) ==
  \A b \in held[p] :
    Private(File(p, b)) /\ ~(At(p, "unlock") /\ cur[p] = b) => owner[File(p, b)] = p

\* When the lock is given up, the owner file is gone.
OwnerGone(p) ==
  At(p, "unlock") /\ Private(File(p, cur[p])) => owner[File(p, cur[p])] = "nobody"

\* Whom an owner file names has the lock.
OwnerIsHolder ==
  \A f \in Files : Private(f) /\ owner[f] \in Procs => holder[f] = owner[f]

OwnerInv ==
  /\ \A p \in Procs : Orderly(p) /\ OwnerNamed(p) /\ OwnerGone(p)
  /\ OwnerIsHolder

\* Where the two loops go, in terms of the group.
LEMMA LoopGroups ==
  ASSUME TypeOK, NEW p \in Procs, NEW open
  PROVE  /\ OpenNext(p, open) =>
              \/ stage'[p] = "configure" /\ cur'[p] = "none"
              \/ stage'[p] = "lock" /\ cur'[p] \in Group(p) \ open /\ LockMode[p] # "off"
              \/ stage'[p] = "hal" /\ cur'[p] \in Group(p) \ open /\ LockMode[p] = "off"
         /\ CloseNext(p, open) =>
              \/ stage'[p] = "down" /\ cur'[p] = "none"
              \/ stage'[p] = "closeHal" /\ cur'[p] \in open
<1> USE DEF TypeOK, Go
<1>1. ASSUME NEW b \in First(p, Group(p) \ open),
             Go(p, IF LockMode[p] = "off" THEN "hal" ELSE "lock", b)
      PROVE  \/ stage'[p] = "lock" /\ cur'[p] \in Group(p) \ open /\ LockMode[p] # "off"
             \/ stage'[p] = "hal" /\ cur'[p] \in Group(p) \ open /\ LockMode[p] = "off"
  <2>1. b \in Group(p) \ open
    BY DEF First
  <2>2. cur'[p] = b /\ stage'[p] = IF LockMode[p] = "off" THEN "hal" ELSE "lock"
    BY <1>1
  <2> QED
    BY <2>1, <2>2
<1>2. ASSUME OpenNext(p, open)
      PROVE  \/ stage'[p] = "configure" /\ cur'[p] = "none"
             \/ stage'[p] = "lock" /\ cur'[p] \in Group(p) \ open /\ LockMode[p] # "off"
             \/ stage'[p] = "hal" /\ cur'[p] \in Group(p) \ open /\ LockMode[p] = "off"
  <2>1. CASE Go(p, "configure", "none")
    BY <2>1
  <2>2. CASE \E b \in First(p, Group(p) \ open) : Go(p, IF LockMode[p] = "off" THEN "hal" ELSE "lock", b)
    BY <1>1, <2>2
  <2> QED
    BY <1>2, <2>1, <2>2 DEF OpenNext
<1>3. ASSUME CloseNext(p, open)
      PROVE  \/ stage'[p] = "down" /\ cur'[p] = "none"
             \/ stage'[p] = "closeHal" /\ cur'[p] \in open
  BY <1>3, CloseNextGoes
<1> QED
  BY <1>2, <1>3

\* A move that leaves the files and what is held alone keeps a process orderly.
LEMMA MoveKeepsOrder ==
  ASSUME NEW p \in Procs, Orderly(p), held'[p] = held[p], hal'[p] \subseteq Group(p),
         cur'[p] # "none" => cur'[p] \in Group(p),
         LockMode[p] = "off" => stage'[p] \notin {"lock", "readOwner", "truncate", "writePid"},
         stage'[p] \in {"lock", "truncate", "writePid"} => cur'[p] \notin held[p],
         stage'[p] \in {"removeOwner", "unlock"} => cur'[p] \in held[p]
  PROVE  Orderly(p)'
  BY DEF Orderly, Group

\* A step of a process keeps it orderly.
LEMMA OrderStep ==
  ASSUME TypeOK, LockInv, NEW p \in Procs, Orderly(p), StepOf(p)
  PROVE  Orderly(p)'
<1> DEFINE Out(s) == s \in {"down", "configure", "up"}
<1>0. /\ held[p] \subseteq Group(p) /\ hal[p] \subseteq Group(p) /\ Open(p) \subseteq Group(p)
      /\ (cur[p] \in Buses => cur[p] \in Group(p)) /\ "none" \notin Buses /\ Group(p) \subseteq Buses
      /\ (stage[p] \notin {"down", "configure", "up"} <=> cur[p] \in Buses)
  BY LockAssumption DEF Orderly, Open, TypeOK, Group
<1> USE DEF At
<1>1. CASE Start(p)
  <2>1. OpenNext(p, {}) /\ held' = held /\ hal' = hal /\ held[p] = {}
    BY <1>1 DEF Start, LockInv, DownIsClosed, Open
  <2> QED
    BY <1>0, <2>1, LoopGroups, MoveKeepsOrder
<1>2. CASE Stop(p) \/ LockFileFails(p) \/ ConfigureFails(p) \/ ReadOwner(p)
  <2>1. CloseNext(p, Open(p)) /\ held' = held /\ hal' = hal
    BY <1>2 DEF Stop, LockFileFails, ConfigureFails, ReadOwner
  <2> QED
    BY <1>0, <2>1, LoopGroups, MoveKeepsOrder
<1>3. CASE Refused(p) \/ ConfigureDone(p)
  BY <1>0, <1>3, MoveKeepsOrder DEF Refused, ConfigureDone, Go, TypeOK, Exclusive
<1>4. CASE TryLock(p)
  <2>1. stage[p] = "lock" /\ stage'[p] = "truncate" /\ cur'[p] = cur[p] /\ held' = held /\ hal' = hal
    BY <1>4 DEF TryLock, Go, TypeOK
  <2>2. LockMode[p] # "off" /\ cur[p] \notin held[p]
    BY <2>1 DEF Orderly
  <2> QED
    BY <1>0, <2>1, <2>2, MoveKeepsOrder
<1>5. CASE TruncateOwner(p)
  <2>1. stage[p] = "truncate" /\ stage'[p] = "writePid" /\ cur'[p] = cur[p] /\ held' = held /\ hal' = hal
    BY <1>5 DEF TruncateOwner, Go, TypeOK
  <2>2. LockMode[p] # "off" /\ cur[p] \notin held[p]
    BY <2>1 DEF Orderly
  <2> QED
    BY <1>0, <2>1, <2>2, MoveKeepsOrder
<1>6. CASE WritePid(p)
  <2>1. stage[p] = "writePid" /\ stage'[p] = "hal" /\ cur'[p] = cur[p] /\ hal' = hal
        /\ held'[p] = held[p] \cup {cur[p]}
    BY <1>6 DEF WritePid, Go, TypeOK
  <2> QED
    BY <1>0, <2>1 DEF Orderly, Group
<1>7. CASE OpenHal(p)
  <2>1. stage[p] = "hal" /\ OpenNext(p, Open(p) \cup {cur[p]}) /\ held' = held
        /\ hal'[p] = hal[p] \cup {cur[p]} /\ cur[p] \in Group(p)
    BY <1>0, <1>7 DEF OpenHal, TypeOK
  <2>2. held[p] \subseteq Open(p) \cup {cur[p]}
    BY DEF Open
  <2> QED
    BY <1>0, <2>1, <2>2, LoopGroups, MoveKeepsOrder
<1>8. CASE OpenHalFails(p)
  <2>1. stage[p] = "hal" /\ held' = held /\ hal' = hal
    BY <1>8 DEF OpenHalFails
  <2>2. CASE cur[p] \in held[p]
    <3>1. stage'[p] = "removeOwner" /\ cur'[p] = cur[p]
      BY <1>8, <2>2 DEF OpenHalFails, Go, TypeOK
    <3> QED
      BY <1>0, <2>1, <2>2, <3>1, MoveKeepsOrder
  <2>3. CASE cur[p] \notin held[p]
    <3>1. CloseNext(p, Open(p))
      BY <1>8, <2>3 DEF OpenHalFails
    <3> QED
      BY <1>0, <2>1, <3>1, LoopGroups, MoveKeepsOrder
  <2> QED
    BY <2>2, <2>3
<1>9. CASE CloseHal(p)
  <2>1. stage[p] = "closeHal" /\ held' = held /\ hal'[p] = hal[p] \ {cur[p]}
    BY <1>9 DEF CloseHal, files, TypeOK
  <2>2. CASE cur[p] \in held[p]
    <3>1. stage'[p] = "removeOwner" /\ cur'[p] = cur[p]
      BY <1>9, <2>2 DEF CloseHal, Go, TypeOK
    <3> QED
      BY <1>0, <2>1, <2>2, <3>1, MoveKeepsOrder
  <2>3. CASE cur[p] \notin held[p]
    <3>1. CloseNext(p, Open(p) \ {cur[p]})
      BY <1>9, <2>3 DEF CloseHal
    <3> QED
      BY <1>0, <2>1, <3>1, LoopGroups, MoveKeepsOrder
  <2> QED
    BY <2>2, <2>3
<1>10. CASE RemoveOwner(p)
  <2>1. stage[p] = "removeOwner" /\ stage'[p] = "unlock" /\ cur'[p] = cur[p] /\ held' = held /\ hal' = hal
    BY <1>10 DEF RemoveOwner, Go, TypeOK
  <2>2. cur[p] \in held[p]
    BY <2>1 DEF Orderly
  <2> QED
    BY <1>0, <2>1, <2>2, MoveKeepsOrder
<1>11. CASE Unlock(p)
  <2>1. CloseNext(p, Open(p) \ {cur[p]}) /\ hal' = hal /\ held'[p] = held[p] \ {cur[p]}
    BY <1>11 DEF Unlock, TypeOK
  <2>2. LockMode[p] = "off" => held'[p] = {}
    BY <2>1 DEF Orderly
  <2>3. \/ stage'[p] = "down" /\ cur'[p] = "none"
        \/ stage'[p] = "closeHal" /\ cur'[p] \in Group(p)
    BY <1>0, <2>1, LoopGroups
  <2> QED
    BY <1>0, <2>1, <2>2, <2>3 DEF Orderly, Group
<1>12. CASE Crash(p)
  <2>1. stage'[p] = "down" /\ cur'[p] = "none" /\ held'[p] = {} /\ hal'[p] = {}
    BY <1>12 DEF Crash, Go, TypeOK
  <2> QED
    BY <2>1 DEF Orderly
<1> QED
  BY <1>1, <1>2, <1>3, <1>4, <1>5, <1>6, <1>7, <1>8, <1>9, <1>10, <1>11, <1>12
     DEF StepOf, OpenStep, Failure, CloseStep

\* Who has, or is about to have, a private lock is exclusive and has the flock.
LEMMA PrivateIsLocked ==
  ASSUME TypeOK, LockInv, NEW p \in Procs, Orderly(p), NEW b \in Buses, Private(File(p, b)),
         b \in held[p] \/ (Acquiring(p) /\ b = cur[p])
  PROVE  p \in Exclusive /\ holder[File(p, b)] = p
<1>1. b \in Group(p)
  BY LockAssumption DEF Orderly
<1>2. LockMode[p] # "shared"
  BY <1>1 DEF Private, File
<1>3. LockMode[p] # "off"
  BY DEF Orderly, Acquiring
<1>4. p \in Exclusive
  BY <1>2, <1>3, LockAssumption DEF LockModes, Exclusive
<1> QED
  BY <1>4 DEF LockInv, HeldIsLocked

\* What a step does to the owner files.
LEMMA OwnerChanges ==
  ASSUME TypeOK, NEW p \in Procs, StepOf(p), NEW f \in Files, owner'[f] # owner[f]
  PROVE  \/ cur[p] \in Buses /\ f = File(p, cur[p]) /\ (Acquiring(p) \/ stage[p] = "removeOwner")
         \/ owner[f] = p
<1> USE DEF files, At
<1>1. CASE Start(p) \/ Stop(p) \/ Failure(p)
  BY <1>1 DEF Start, Stop, Failure, LockFileFails, OpenHalFails, ConfigureFails
<1>2. CASE TryLock(p) \/ Refused(p) \/ ReadOwner(p) \/ ConfigureDone(p) \/ OpenHal(p)
  BY <1>2 DEF TryLock, Refused, ReadOwner, ConfigureDone, OpenHal
<1>3. CASE CloseHal(p) \/ Unlock(p)
  BY <1>3 DEF CloseHal, Unlock
<1>4. CASE TruncateOwner(p) \/ WritePid(p) \/ RemoveOwner(p)
  <2>1. stage[p] \in {"truncate", "writePid", "removeOwner"} /\ \E o : owner' = [owner EXCEPT ![File(p, cur[p])] = o]
    BY <1>4 DEF TruncateOwner, WritePid, RemoveOwner
  <2>2. f = File(p, cur[p])
    BY <2>1 DEF TypeOK
  <2> QED
    BY <2>1, <2>2 DEF TypeOK, Acquiring
<1>5. CASE Crash(p)
  BY <1>5 DEF Crash
<1> QED
  BY <1>1, <1>2, <1>3, <1>4, <1>5 DEF StepOf, OpenStep, CloseStep

\* A step of a process leaves the owner files alone that the others have, or removed.
LEMMA OthersNamed ==
  ASSUME TypeOK, LockInv, OwnerInv, NEW p \in Procs, StepOf(p), NEW q \in Procs \ {p}
  PROVE  (Orderly(q) /\ OwnerNamed(q) /\ OwnerGone(q))'
<1>1. stage'[q] = stage[q] /\ cur'[q] = cur[q] /\ held'[q] = held[q] /\ hal'[q] = hal[q]
  BY OthersKept
<1>2. Orderly(p) /\ Orderly(q) /\ OwnerNamed(q) /\ OwnerGone(q)
  BY DEF OwnerInv
<1>3. Orderly(q)'
  BY <1>1, <1>2 DEF Orderly, Group
<1>4. ASSUME NEW b \in held[q], Private(File(q, b)) PROVE owner'[File(q, b)] = owner[File(q, b)]
  <2>1. b \in Buses /\ holder[File(q, b)] = q /\ File(q, b) \in Files
    BY <1>2, <1>4, PrivateIsLocked, FileFacts DEF TypeOK
  <2>2. owner[File(q, b)] # p
    BY <1>2, <1>4, LockAssumption DEF OwnerNamed, OwnerGone
  <2>3. ASSUME cur[p] \in Buses, File(q, b) = File(p, cur[p]), Acquiring(p) \/ stage[p] = "removeOwner"
        PROVE  FALSE
    <3>1. cur[p] \in held[p] \/ Acquiring(p)
      BY <1>2, <2>3 DEF Orderly
    <3>2. holder[File(p, cur[p])] = p
      BY <1>2, <1>4, <2>3, <3>1, PrivateIsLocked
    <3> QED
      BY <2>1, <2>3, <3>2
  <2> QED
    BY <2>1, <2>2, <2>3, OwnerChanges
<1>5. OwnerNamed(q)'
  <2> SUFFICES ASSUME NEW b \in held'[q], Private(File(q, b)), ~(stage'[q] = "unlock" /\ cur'[q] = b)
               PROVE  owner'[File(q, b)] = q
    BY DEF OwnerNamed, At, Private, Group, File
  <2> QED
    BY <1>1, <1>2, <1>4 DEF OwnerNamed, At
<1>6. OwnerGone(q)'
  <2> SUFFICES ASSUME stage'[q] = "unlock", Private(File(q, cur[q]))
               PROVE  owner'[File(q, cur[q])] = "nobody"
    BY <1>1 DEF OwnerGone, At, Private, Group, File
  <2>1. cur[q] \in held[q] /\ owner[File(q, cur[q])] = "nobody"
    BY <1>1, <1>2 DEF Orderly, OwnerGone, At
  <2> QED
    BY <1>4, <2>1
<1> QED
  BY <1>3, <1>5, <1>6

\* A step of a process keeps what the owner files say of it.
LEMMA OwnNamed ==
  ASSUME TypeOK, LockInv, OwnerInv, NEW p \in Procs, StepOf(p)
  PROVE  (OwnerNamed(p) /\ OwnerGone(p))'
<1>0. Orderly(p) /\ OwnerNamed(p) /\ OwnerGone(p)
  BY DEF OwnerInv
<1> USE DEF At
<1>1. ASSUME owner' = owner, held'[p] = held[p], stage[p] # "unlock", stage'[p] # "unlock"
      PROVE  (OwnerNamed(p) /\ OwnerGone(p))'
  BY <1>0, <1>1 DEF OwnerNamed, OwnerGone, Private, Group, File
<1>2. CASE Start(p) \/ Stop(p) \/ LockFileFails(p) \/ ConfigureFails(p) \/ ReadOwner(p)
  <2>1. owner' = owner /\ held' = held /\ stage[p] # "unlock"
    BY <1>2 DEF Start, Stop, LockFileFails, ConfigureFails, ReadOwner, files
  <2>2. stage'[p] # "unlock"
    BY <1>2, LoopGroups DEF Start, Stop, LockFileFails, ConfigureFails, ReadOwner
  <2> QED
    BY <1>1, <2>1, <2>2
<1>3. CASE Refused(p) \/ ConfigureDone(p) \/ TryLock(p)
  BY <1>1, <1>3 DEF Refused, ConfigureDone, TryLock, Go, TypeOK, files
<1>4. CASE OpenHal(p) \/ OpenHalFails(p) \/ CloseHal(p)
  <2>1. owner' = owner /\ held' = held /\ stage[p] # "unlock"
    BY <1>4 DEF OpenHal, OpenHalFails, CloseHal, files
  <2>2. \/ stage'[p] = "removeOwner"
        \/ \E open : OpenNext(p, open) \/ CloseNext(p, open)
    BY <1>4 DEF OpenHal, OpenHalFails, CloseHal, Go, TypeOK
  <2>3. stage'[p] # "unlock"
    BY <2>2, LoopGroups
  <2> QED
    BY <1>1, <2>1, <2>3
<1>5. CASE TruncateOwner(p)
  <2>1. /\ stage[p] = "truncate" /\ stage'[p] = "writePid" /\ held' = held
        /\ owner' = [owner EXCEPT ![File(p, cur[p])] = "nobody"] /\ cur[p] \in Buses
    BY <1>5 DEF TruncateOwner, Go, TypeOK
  <2>2. cur[p] \notin held[p] /\ held[p] \subseteq Buses
    BY <1>0, <2>1 DEF Orderly, TypeOK
  <2>3. \A b \in held[p] : owner'[File(p, b)] = owner[File(p, b)]
    BY <2>1, <2>2, FileFacts DEF TypeOK
  <2> QED
    BY <1>0, <2>1, <2>3 DEF OwnerNamed, OwnerGone, Private, Group, File
<1>6. CASE WritePid(p)
  <2>1. /\ stage[p] = "writePid" /\ stage'[p] = "hal" /\ held'[p] = held[p] \cup {cur[p]}
        /\ owner' = [owner EXCEPT ![File(p, cur[p])] = p] /\ cur[p] \in Buses
    BY <1>6 DEF WritePid, Go, TypeOK
  <2>2. cur[p] \notin held[p] /\ held[p] \subseteq Buses
    BY <1>0, <2>1 DEF Orderly, TypeOK
  <2>3. \A b \in held[p] : owner'[File(p, b)] = owner[File(p, b)]
    BY <2>1, <2>2, FileFacts DEF TypeOK
  <2>4. owner'[File(p, cur[p])] = p
    BY <2>1, FileFacts DEF TypeOK
  <2> QED
    BY <1>0, <2>1, <2>3, <2>4 DEF OwnerNamed, OwnerGone, Private, Group, File
<1>7. CASE RemoveOwner(p)
  <2>1. /\ stage[p] = "removeOwner" /\ stage'[p] = "unlock" /\ held' = held /\ cur'[p] = cur[p]
        /\ owner' = [owner EXCEPT ![File(p, cur[p])] = "nobody"] /\ cur[p] \in Buses
    BY <1>7 DEF RemoveOwner, Go, TypeOK
  <2>2. held[p] \subseteq Buses
    BY DEF TypeOK
  <2>3. \A b \in held[p] : b # cur[p] => owner'[File(p, b)] = owner[File(p, b)]
    BY <2>1, <2>2, FileFacts DEF TypeOK
  <2>4. owner'[File(p, cur[p])] = "nobody"
    BY <2>1, FileFacts DEF TypeOK
  <2> QED
    BY <1>0, <2>1, <2>3, <2>4 DEF OwnerNamed, OwnerGone, Private, Group, File
<1>8. CASE Unlock(p)
  <2>1. stage[p] = "unlock" /\ owner' = owner /\ held'[p] = held[p] \ {cur[p]}
    BY <1>8 DEF Unlock, TypeOK
  <2>2. stage'[p] # "unlock"
    BY <1>8, LoopGroups DEF Unlock
  <2> QED
    BY <1>0, <2>1, <2>2 DEF OwnerNamed, OwnerGone, Private, Group, File
<1>9. CASE Crash(p)
  <2>1. held'[p] = {} /\ stage'[p] = "down"
    BY <1>9 DEF Crash, Go, TypeOK
  <2> QED
    BY <2>1 DEF OwnerNamed, OwnerGone
<1> QED
  BY <1>2, <1>3, <1>4, <1>5, <1>6, <1>7, <1>8, <1>9 DEF StepOf, OpenStep, Failure, CloseStep

\* Whom an owner file names has the lock after the step, too.
LEMMA HolderStep ==
  ASSUME TypeOK, LockInv, OwnerInv, NEW p \in Procs, StepOf(p)
  PROVE  OwnerIsHolder'
<1> SUFFICES ASSUME NEW f \in Files, Private(f), owner'[f] \in Procs
             PROVE  holder'[f] = owner'[f]
  BY DEF OwnerIsHolder, Private, Group, Files
<1>0. Orderly(p) /\ OwnerGone(p) /\ (owner[f] \in Procs => holder[f] = owner[f])
  BY DEF OwnerInv, OwnerIsHolder
<1> USE LockAssumption DEF At
<1>1. CASE owner' = owner /\ holder' = holder
  BY <1>0, <1>1
<1>2. CASE TryLock(p)
  <2>1. owner' = owner /\ \/ holder' = holder
                          \/ /\ holder[File(p, cur[p])] = "nobody"
                             /\ holder' = [holder EXCEPT ![File(p, cur[p])] = p]
    BY <1>2 DEF TryLock
  <2>2. f # File(p, cur[p]) \/ holder' = holder
    BY <1>0, <2>1
  <2> QED
    BY <1>0, <2>1, <2>2 DEF TypeOK
<1>3. CASE TruncateOwner(p) \/ RemoveOwner(p)
  <2>1. holder' = holder /\ owner' = [owner EXCEPT ![File(p, cur[p])] = "nobody"]
    BY <1>3 DEF TruncateOwner, RemoveOwner
  <2> QED
    BY <1>0, <2>1 DEF TypeOK
<1>4. CASE WritePid(p)
  <2>1. holder' = holder /\ owner' = [owner EXCEPT ![File(p, cur[p])] = p] /\ stage[p] = "writePid"
        /\ cur[p] \in Buses
    BY <1>4 DEF WritePid, TypeOK
  <2>2. CASE f = File(p, cur[p])
    <3>1. holder[f] = p
      BY <1>0, <2>1, <2>2, PrivateIsLocked DEF Acquiring
    <3> QED
      BY <2>1, <2>2, <3>1 DEF TypeOK
  <2>3. CASE f # File(p, cur[p])
    BY <1>0, <2>1, <2>3 DEF TypeOK
  <2> QED
    BY <2>2, <2>3
<1>5. CASE Unlock(p)
  <2>1. /\ owner' = owner /\ stage[p] = "unlock"
        /\ holder' = [holder EXCEPT ![File(p, cur[p])] = Unlocked(p, File(p, cur[p]))]
    BY <1>5 DEF Unlock
  <2>2. f # File(p, cur[p])
    BY <1>0, <2>1 DEF OwnerGone
  <2> QED
    BY <1>0, <2>1, <2>2 DEF TypeOK
<1>6. CASE Crash(p)
  <2>1. holder'[f] = Unlocked(p, f) /\ owner'[f] = IF owner[f] = p THEN "dead" ELSE owner[f]
    BY <1>6 DEF Crash
  <2> QED
    BY <1>0, <2>1 DEF Unlocked
<1>7. CASE Start(p) \/ Failure(p) \/ Stop(p) \/ CloseHal(p)
  BY <1>1, <1>7 DEF Start, Failure, LockFileFails, OpenHalFails, ConfigureFails, Stop, CloseHal, files
<1>8. CASE Refused(p) \/ ReadOwner(p) \/ OpenHal(p) \/ ConfigureDone(p)
  BY <1>1, <1>8 DEF Refused, ReadOwner, OpenHal, ConfigureDone, files
<1> QED
  BY <1>2, <1>3, <1>4, <1>5, <1>6, <1>7, <1>8 DEF StepOf, OpenStep, CloseStep

\* Whoever asks for the owner of a lock, how many processes, buses and directories there
\* are, and wherever they crash.
LEMMA OwnersCorrect == Spec => []OwnerInv
<1>1. Init => OwnerInv
  <2> SUFFICES ASSUME Init PROVE OwnerInv
    OBVIOUS
  <2>1. \A p \in Procs : held[p] = {} /\ hal[p] = {} /\ stage[p] = "down" /\ cur[p] = "none"
    BY DEF Init
  <2>2. \A f \in Files : owner[f] = "nobody"
    BY DEF Init
  <2> QED
    BY <2>1, <2>2, LockAssumption DEF OwnerInv, Orderly, OwnerNamed, OwnerGone, OwnerIsHolder, At
<1>2. TypeOK /\ LockInv /\ OwnerInv /\ [Next]_vars => OwnerInv'
  <2> SUFFICES ASSUME TypeOK, LockInv, OwnerInv, [Next]_vars PROVE OwnerInv'
    OBVIOUS
  <2>1. ASSUME NEW p \in Procs, StepOf(p) PROVE OwnerInv'
    <3>1. OwnerIsHolder'
      BY <2>1, HolderStep
    <3>2. (Orderly(p) /\ OwnerNamed(p) /\ OwnerGone(p))'
      BY <2>1, OrderStep, OwnNamed DEF OwnerInv
    <3>3. \A q \in Procs \ {p} : (Orderly(q) /\ OwnerNamed(q) /\ OwnerGone(q))'
      BY <2>1, OthersNamed
    <3> QED
      BY <3>1, <3>2, <3>3 DEF OwnerInv
  <2>2. CASE UNCHANGED vars
    BY <2>2 DEF vars, OwnerInv, Orderly, OwnerNamed, OwnerGone, OwnerIsHolder, Private, Group, File, Files, At
  <2> QED
    BY <2>1, <2>2 DEF Next, StepOf
<1> QED
  BY <1>1, <1>2, LocksCorrect, LockTypeCorrect, PTL DEF Spec

\* An owner file that no shared process writes names the holder of the lock or nobody
\* that is alive, and names it from the return of acquire() to the call of release();
\* wherever the lock files are and however many processes crash.
THEOREM OwnerIsTold == Spec => []OwnerFileTrue
<1>1. TypeOK /\ OwnerInv => OwnerFileTrue
  <2> SUFFICES ASSUME TypeOK, OwnerInv, NEW f \in Files, Private(f)
               PROVE  /\ owner[f] \in Procs => holder[f] = owner[f]
                      /\ \A p \in Procs : f = File(p, f[2]) /\ f[2] \in held[p] /\ ~At(p, "unlock") => owner[f] = p
    BY DEF OwnerFileTrue, Private
  <2>1. owner[f] \in Procs => holder[f] = owner[f]
    BY DEF OwnerInv, OwnerIsHolder
  <2>2. ASSUME NEW p \in Procs, f = File(p, f[2]), f[2] \in held[p], ~At(p, "unlock") PROVE owner[f] = p
    <3>1. OwnerNamed(p)
      BY DEF OwnerInv
    <3> QED
      BY <2>2, <3>1 DEF OwnerNamed
  <2> QED
    BY <2>1, <2>2
<1> QED
  BY <1>1, OwnersCorrect, LockTypeCorrect, PTL
=============================================================================
