--------------------------- MODULE DescCacheProofs ---------------------------
(***************************************************************************)
(* Proofs about the descriptor cache, for any processes that share the     *)
(* file, any firmware versions and any number of crashes, losses of power, *)
(* updates and imports: a hit is of the firmware that the device reported, *)
(* and without two that save at once the file is whole whenever it is      *)
(* there and nothing that was written to it was lost.                      *)
(***************************************************************************)
EXTENDS DescCache, TLAPS

Halves == Versions \cup {None}

TypeOK ==
  /\ path \in Inodes \cup {0} /\ tmp \in Inodes \cup {0}
  /\ half \in [Inodes -> Halves \X Halves] /\ cut \subseteq Inodes
  /\ pc \in [Processes -> Locations]
  /\ handle \in [Processes -> Inodes \cup {0}]
  /\ version \in [Processes -> Versions]
  /\ known \in [Processes -> Versions \cup {0}]
  /\ header \in [Processes -> Halves]
  /\ store \in [Processes -> Halves]
  /\ json \in [Processes -> Halves]
  /\ cached \in [Processes -> BOOLEAN]
  /\ overlap \in BOOLEAN

\* Where a process has handles: to read, and to write.
HandleInv ==
  \A p \in Processes : pc[p] \in {"header", "body", "first", "rest", "close"} => handle[p] # 0

\* Between the question to the device and its answer nothing counts as from the cache,
\* and a header that was accepted is of the firmware that was reported.
HitInv ==
  \A p \in Processes :
    /\ pc[p] \in {"open", "header", "body", "fetch", "create"} \cup Saving => ~cached[p]
    /\ pc[p] = "body" /\ known[p] # 0 => header[p] = known[p]
    /\ cached[p] /\ known[p] # 0 => store[p] = known[p]

CacheInv == TypeOK /\ HandleInv /\ HitInv

\* The halves of a file.
LEMMA HalfTyped ==
  ASSUME NEW f \in [Inodes -> Halves \X Halves], NEW i \in Inodes, NEW d \in Halves
  PROVE  /\ [f EXCEPT ![i][1] = d] \in [Inodes -> Halves \X Halves]
         /\ [f EXCEPT ![i][2] = d] \in [Inodes -> Halves \X Halves]
         /\ [f EXCEPT ![i] = Empty] \in [Inodes -> Halves \X Halves]
  BY DEF Halves, Empty

LEMMA HalfWritten ==
  ASSUME NEW f \in [Inodes -> Halves \X Halves], NEW i \in Inodes, NEW d \in Halves
  PROVE  /\ [f EXCEPT ![i][1] = d][i][1] = d /\ [f EXCEPT ![i][1] = d][i][2] = f[i][2]
         /\ [f EXCEPT ![i][2] = d][i][2] = d /\ [f EXCEPT ![i][2] = d][i][1] = f[i][1]
         /\ \A k \in Inodes \ {i} : /\ [f EXCEPT ![i][1] = d][k] = f[k]
                                    /\ [f EXCEPT ![i][2] = d][k] = f[k]
                                    /\ [f EXCEPT ![i] = Empty][k] = f[k]
  BY DEF Halves, Empty

LEMMA ShortTyped ==
  ASSUME half \in [Inodes -> Halves \X Halves], NEW i \in Inodes, NEW left \in Short(i)
  PROVE  /\ [half EXCEPT ![i] = left] \in [Inodes -> Halves \X Halves]
         /\ \A k \in Inodes \ {i} : [half EXCEPT ![i] = left][k] = half[k]
  BY DEF Short, Halves, Empty

\* A loss of power leaves the files that lost nothing as they are.
LEMMA LossTyped ==
  ASSUME PowerLoss, half \in [Inodes -> Halves \X Halves], cut \subseteq Inodes,
         path \in Inodes \cup {0}, tmp \in Inodes \cup {0}
  PROVE  /\ half' \in [Inodes -> Halves \X Halves] /\ cut \subseteq cut' /\ cut' \subseteq Inodes
         /\ \A i \in Inodes \ cut' : half'[i] = half[i]
<1>1. PICK lost \in SUBSET ({path, tmp} \ {0}) :
        /\ \E gone \in SUBSET lost :
             half' = [i \in Inodes |-> IF i \in gone THEN Empty
                                     ELSE IF i \in lost THEN <<half[i][1], None>> ELSE half[i]]
        /\ cut' = cut \cup lost
  BY DEF PowerLoss
<1> QED
  BY <1>1 DEF Halves, Empty

-----------------------------------------------------------------------------
\* Every step keeps the types.
LEMMA TypeStep ==
  ASSUME TypeOK, HandleInv, [Next]_vars
  PROVE  TypeOK'
<1> USE CacheAssumption DEF TypeOK, HandleInv, Halves, Locations, Goto, files, memory, bounds
<1>1. ASSUME NEW p \in Processes, Start(p) PROVE TypeOK'
  BY <1>1 DEF Start
<1>2. ASSUME NEW p \in Processes, Query(p) PROVE TypeOK'
  BY <1>2 DEF Query
<1>3. ASSUME NEW p \in Processes, LoadOpen(p) PROVE TypeOK'
  BY <1>3 DEF LoadOpen
<1>4. ASSUME NEW p \in Processes, LoadHeader(p) PROVE TypeOK'
  <2>1. handle[p] \in Inodes /\ half[handle[p]][1] \in Halves
    BY <1>4 DEF LoadHeader
  <2> QED
    BY <1>4, <2>1 DEF LoadHeader, HeaderServes, Close
<1>5. ASSUME NEW p \in Processes, LoadBody(p) PROVE TypeOK'
  <2>1. handle[p] \in Inodes /\ half[handle[p]][2] \in Halves
    BY <1>5 DEF LoadBody
  <2>2. /\ handle' = [handle EXCEPT ![p] = 0] /\ header' = [header EXCEPT ![p] = None]
        /\ path' = path /\ tmp' = tmp /\ half' = half /\ cut' = cut /\ known' = known /\ json' = json
        /\ version' = version /\ overlap' = overlap
        /\ pc' \in {[pc EXCEPT ![p] = "done"], [pc EXCEPT ![p] = "fetch"]}
        /\ store' \in {store, [store EXCEPT ![p] = half[handle[p]][2]]}
        /\ cached' \in {cached, [cached EXCEPT ![p] = TRUE]}
    BY <1>5 DEF LoadBody, Close
  <2>3. header' \in [Processes -> Halves] /\ store' \in [Processes -> Halves]
    BY <2>1, <2>2
  <2> QED
    BY <2>2, <2>3
<1>6. ASSUME NEW p \in Processes, Fetch(p) PROVE TypeOK'
  BY <1>6 DEF Fetch
<1>7. ASSUME NEW p \in Processes, Create(p) PROVE TypeOK'
  <2>1. PICK i \in Inodes : /\ tmp' = i /\ handle' = [handle EXCEPT ![p] = i]
                           /\ half' = [half EXCEPT ![i] = Empty] /\ cut' = cut \ {i}
    BY <1>7 DEF Create, Creates, NewFile, Free
  <2>2. half' \in [Inodes -> Halves \X Halves]
    BY ONLY <2>1, TypeOK, HalfTyped DEF TypeOK
  <2>3. pc' = [pc EXCEPT ![p] = "first"] /\ path' = path /\ overlap' \in BOOLEAN
        /\ UNCHANGED <<memory, version>>
    BY <1>7 DEF Create
  <2> QED
    BY <2>1, <2>2, <2>3
<1>8. ASSUME NEW p \in Processes, CreateFails(p) PROVE TypeOK'
  BY <1>8 DEF CreateFails
<1>9. ASSUME NEW p \in Processes, Write(p, "first", "rest", 1) PROVE TypeOK'
  <2>1. half' = [half EXCEPT ![handle[p]][1] = json[p]] /\ handle[p] \in Inodes /\ json[p] \in Halves
    BY <1>9 DEF Write
  <2>2. half' \in [Inodes -> Halves \X Halves]
    BY ONLY <2>1, TypeOK, HalfTyped DEF TypeOK
  <2> QED
    BY <1>9, <2>2 DEF Write
<1>10. ASSUME NEW p \in Processes, Write(p, "rest", "close", 2) PROVE TypeOK'
  <2>1. half' = [half EXCEPT ![handle[p]][2] = json[p]] /\ handle[p] \in Inodes /\ json[p] \in Halves
    BY <1>10 DEF Write
  <2>2. half' \in [Inodes -> Halves \X Halves]
    BY ONLY <2>1, TypeOK, HalfTyped DEF TypeOK
  <2> QED
    BY <1>10, <2>2 DEF Write
<1>11. ASSUME NEW p \in Processes, WriteFails(p) PROVE TypeOK'
  BY <1>11 DEF WriteFails, Close
<1>12. ASSUME NEW p \in Processes, CloseTmp(p) PROVE TypeOK'
  <2>1. handle[p] \in Inodes
    BY <1>12 DEF CloseTmp
  <2>2. half' \in [Inodes -> Halves \X Halves] /\ cut' \subseteq Inodes
    BY <1>12, <2>1, ShortTyped DEF CloseTmp
  <2> QED
    BY <1>12, <2>2 DEF CloseTmp, Close
<1>13. ASSUME NEW p \in Processes, Unlink(p) PROVE TypeOK'
  BY <1>13 DEF Unlink
<1>14. ASSUME NEW p \in Processes, Rename(p) PROVE TypeOK'
  BY <1>14 DEF Rename
<1>15. ASSUME NEW p \in Processes, Import(p) PROVE TypeOK'
  BY <1>15 DEF Import, Event
<1>16. ASSUME NEW p \in Processes, ImportRejected(p) PROVE TypeOK'
  BY <1>16 DEF ImportRejected, Event
<1>17. ASSUME NEW p \in Processes, Reconfigure(p) PROVE TypeOK'
  <2>1. CASE Forget(p)
    <3>1. /\ known' \in [Processes -> Versions \cup {0}] /\ header' \in [Processes -> Halves]
          /\ store' \in [Processes -> Halves] /\ json' \in [Processes -> Halves]
          /\ cached' \in [Processes -> BOOLEAN]
      BY <2>1 DEF Forget
    <3> QED
      BY <1>17, <3>1 DEF Reconfigure
  <2>2. CASE UNCHANGED memory
    BY <1>17, <2>2 DEF Reconfigure
  <2> QED
    BY <1>17, <2>1, <2>2 DEF Reconfigure
<1>18. ASSUME NEW p \in Processes, Update(p) PROVE TypeOK'
  BY <1>18 DEF Update, Event
<1>19. ASSUME NEW p \in Processes, Crash(p) PROVE TypeOK'
  BY <1>19 DEF Crash, Event, Close, Forget
<1>20. CASE PowerLoss
  BY <1>20, LossTyped DEF PowerLoss, Event
<1>21. CASE UNCHANGED vars
  BY <1>21 DEF vars
<1> QED
  BY <1>1, <1>2, <1>3, <1>4, <1>5, <1>6, <1>7, <1>8, <1>9, <1>10, <1>11, <1>12, <1>13, <1>14, <1>15, <1>16, <1>17, <1>18, <1>19, <1>20, <1>21 DEF Next, ConfigureStep

\* Every step keeps who has a file open.
LEMMA HandleStep ==
  ASSUME TypeOK, HandleInv, [Next]_vars
  PROVE  HandleInv'
<1> USE CacheAssumption DEF TypeOK, HandleInv, Goto, files, memory, bounds
<1>1. ASSUME NEW p \in Processes, Start(p) PROVE HandleInv'
  BY <1>1 DEF Start
<1>2. ASSUME NEW p \in Processes, Query(p) PROVE HandleInv'
  BY <1>2 DEF Query
<1>3. ASSUME NEW p \in Processes, LoadOpen(p) PROVE HandleInv'
  BY <1>3 DEF LoadOpen
<1>4. ASSUME NEW p \in Processes, LoadHeader(p) PROVE HandleInv'
  BY <1>4 DEF LoadHeader, HeaderServes, Close
<1>5. ASSUME NEW p \in Processes, LoadBody(p) PROVE HandleInv'
  BY <1>5 DEF LoadBody, BodyServes, Close
<1>6. ASSUME NEW p \in Processes, Fetch(p) PROVE HandleInv'
  BY <1>6 DEF Fetch
<1>7. ASSUME NEW p \in Processes, Create(p) PROVE HandleInv'
  BY <1>7 DEF Create, Creates, NewFile, Free
<1>8. ASSUME NEW p \in Processes, CreateFails(p) PROVE HandleInv'
  BY <1>8 DEF CreateFails
<1>9. ASSUME NEW p \in Processes, Write(p, "first", "rest", 1) PROVE HandleInv'
  BY <1>9 DEF Write
<1>10. ASSUME NEW p \in Processes, Write(p, "rest", "close", 2) PROVE HandleInv'
  BY <1>10 DEF Write
<1>11. ASSUME NEW p \in Processes, WriteFails(p) PROVE HandleInv'
  BY <1>11 DEF WriteFails, Close
<1>12. ASSUME NEW p \in Processes, CloseTmp(p) PROVE HandleInv'
  BY <1>12 DEF CloseTmp, Close
<1>13. ASSUME NEW p \in Processes, Unlink(p) PROVE HandleInv'
  BY <1>13 DEF Unlink
<1>14. ASSUME NEW p \in Processes, Rename(p) PROVE HandleInv'
  BY <1>14 DEF Rename
<1>15. ASSUME NEW p \in Processes, Import(p) PROVE HandleInv'
  BY <1>15 DEF Import, Event
<1>16. ASSUME NEW p \in Processes, ImportRejected(p) PROVE HandleInv'
  BY <1>16 DEF ImportRejected, Event
<1>17. ASSUME NEW p \in Processes, Reconfigure(p) PROVE HandleInv'
  BY <1>17 DEF Reconfigure, Forget
<1>18. ASSUME NEW p \in Processes, Update(p) PROVE HandleInv'
  BY <1>18 DEF Update, Event
<1>19. ASSUME NEW p \in Processes, Crash(p) PROVE HandleInv'
  BY <1>19 DEF Crash, Event, Close, Forget
<1>20. CASE PowerLoss
  BY <1>20 DEF PowerLoss, Event
<1>21. CASE UNCHANGED vars
  BY <1>21 DEF vars
<1> QED
  BY <1>1, <1>2, <1>3, <1>4, <1>5, <1>6, <1>7, <1>8, <1>9, <1>10, <1>11, <1>12, <1>13, <1>14, <1>15, <1>16, <1>17, <1>18, <1>19, <1>20, <1>21 DEF Next, ConfigureStep

\* Every step keeps a hit of the firmware that was reported.
LEMMA HitStep ==
  ASSUME TypeOK, HitInv, [Next]_vars
  PROVE  HitInv'
<1> USE CacheAssumption DEF TypeOK, HitInv, Saving, Goto, files, memory, bounds
<1>1. ASSUME NEW p \in Processes, Start(p) PROVE HitInv'
  BY <1>1 DEF Start
<1>2. ASSUME NEW p \in Processes, Query(p) PROVE HitInv'
  BY <1>2 DEF Query
<1>3. ASSUME NEW p \in Processes, LoadOpen(p) PROVE HitInv'
  BY <1>3 DEF LoadOpen
<1>4. ASSUME NEW p \in Processes, LoadHeader(p) PROVE HitInv'
  BY <1>4 DEF LoadHeader, HeaderServes, Close
<1>5. ASSUME NEW p \in Processes, LoadBody(p) PROVE HitInv'
  BY <1>5 DEF LoadBody, BodyServes, Close
<1>6. ASSUME NEW p \in Processes, Fetch(p) PROVE HitInv'
  BY <1>6 DEF Fetch
<1>7. ASSUME NEW p \in Processes, Create(p) PROVE HitInv'
  BY <1>7 DEF Create, Creates, NewFile, Free
<1>8. ASSUME NEW p \in Processes, CreateFails(p) PROVE HitInv'
  BY <1>8 DEF CreateFails
<1>9. ASSUME NEW p \in Processes, Write(p, "first", "rest", 1) PROVE HitInv'
  BY <1>9 DEF Write
<1>10. ASSUME NEW p \in Processes, Write(p, "rest", "close", 2) PROVE HitInv'
  BY <1>10 DEF Write
<1>11. ASSUME NEW p \in Processes, WriteFails(p) PROVE HitInv'
  BY <1>11 DEF WriteFails, Close
<1>12. ASSUME NEW p \in Processes, CloseTmp(p) PROVE HitInv'
  BY <1>12 DEF CloseTmp, Close
<1>13. ASSUME NEW p \in Processes, Unlink(p) PROVE HitInv'
  BY <1>13 DEF Unlink
<1>14. ASSUME NEW p \in Processes, Rename(p) PROVE HitInv'
  BY <1>14 DEF Rename
<1>15. ASSUME NEW p \in Processes, Import(p) PROVE HitInv'
  BY <1>15 DEF Import, Event
<1>16. ASSUME NEW p \in Processes, ImportRejected(p) PROVE HitInv'
  BY <1>16 DEF ImportRejected, Event
<1>17. ASSUME NEW p \in Processes, Reconfigure(p) PROVE HitInv'
  BY <1>17 DEF Reconfigure, Forget
<1>18. ASSUME NEW p \in Processes, Update(p) PROVE HitInv'
  BY <1>18 DEF Update, Event
<1>19. ASSUME NEW p \in Processes, Crash(p) PROVE HitInv'
  BY <1>19 DEF Crash, Event, Close, Forget
<1>20. CASE PowerLoss
  BY <1>20 DEF PowerLoss, Event
<1>21. CASE UNCHANGED vars
  BY <1>21 DEF vars
<1> QED
  BY <1>1, <1>2, <1>3, <1>4, <1>5, <1>6, <1>7, <1>8, <1>9, <1>10, <1>11, <1>12, <1>13, <1>14, <1>15, <1>16, <1>17, <1>18, <1>19, <1>20, <1>21 DEF Next, ConfigureStep

-----------------------------------------------------------------------------
\* CacheInv is inductive: the types, the handles and the hits need nothing else.
LEMMA CacheCorrect == Spec => []CacheInv
<1>1. Init => CacheInv
  <2> SUFFICES ASSUME Init PROVE CacheInv
    OBVIOUS
  <2>1. TypeOK
    BY DEF Init, TypeOK, Halves, Locations, Empty
  <2>2. HandleInv /\ HitInv
    BY DEF Init, HandleInv, HitInv, Saving
  <2> QED
    BY <2>1, <2>2 DEF CacheInv
<1>2. CacheInv /\ [Next]_vars => CacheInv'
  BY TypeStep, HandleStep, HitStep DEF CacheInv
<1> QED
  BY <1>1, <1>2, PTL DEF Spec

\* After a hit of load() a descriptor is that of the firmware the device last reported,
\* for any processes, versions and crashes.
THEOREM HitsAreForFirmware == Spec => []HitIsForFirmware
<1>1. CacheInv => HitIsForFirmware
  BY DEF CacheInv, HitInv, HitIsForFirmware
<1> QED
  BY <1>1, CacheCorrect, PTL

-----------------------------------------------------------------------------
(* The file.                                                               *)

\* What a process has reached in its save(), if no two save at once.
SaveInv(p) ==
  /\ \A q \in Processes \ {p} : pc[q] \notin Saving
  /\ tmp # 0
  /\ pc[p] \in {"first", "rest", "close"} => handle[p] = tmp
  /\ pc[p] # "first" /\ tmp \notin cut => half[tmp][1] = json[p]
  /\ pc[p] \in {"close", "unlink", "rename"} /\ tmp \notin cut => half[tmp][2] = json[p]

WholeInv ==
  /\ tmp # 0 => tmp # path
  /\ \A p \in Processes : pc[p] \in {"create"} \cup Saving => json[p] # None
  /\ ~overlap /\ path \notin cut \cup {0} => Whole(path)
  /\ ~overlap => \A p \in Processes : pc[p] \in Saving => SaveInv(p)

\* fopen() of the temporary file empties that one and no other.
LEMMA CreateKeepsWhole ==
  ASSUME CacheInv, WholeInv, NEW p \in Processes, Create(p)
  PROVE  WholeInv'
<1> USE CacheAssumption DEF memory
<1>1. TypeOK
  BY DEF CacheInv
<1>2. PICK i \in Inodes : /\ tmp' = i /\ handle' = [handle EXCEPT ![p] = i] /\ i # path /\ i # 0
                         /\ half' = [half EXCEPT ![i] = Empty] /\ cut' = cut \ {i}
  BY <1>1 DEF Create, Creates, NewFile, Free, Named, WholeInv, TypeOK
<1>3. path' = path /\ json' = json /\ pc[p] = "create" /\ pc' = [pc EXCEPT ![p] = "first"]
      /\ (~overlap' => ~overlap /\ \A q \in Processes : pc[q] \notin Saving)
  BY DEF Create, Goto
<1>4. \A q \in Processes : q # p => pc'[q] = pc[q]
  BY <1>3
<1>5. pc'[p] = "first" /\ handle'[p] = i
  BY <1>1, <1>2, <1>3 DEF TypeOK
<1>6. (tmp # 0 => tmp # path)'
  BY <1>2, <1>3
<1>7. (\A q \in Processes : pc[q] \in {"create"} \cup Saving => json[q] # None)'
  BY <1>3, <1>4, <1>5 DEF WholeInv, Saving
<1>8. (~overlap /\ path \notin cut \cup {0} => Whole(path))'
  <2>1. path # 0 => half'[path] = half[path] /\ (path \in cut' <=> path \in cut)
    BY <1>1, <1>2, HalfWritten DEF TypeOK
  <2> QED
    BY <1>2, <1>3, <2>1 DEF WholeInv, Whole
<1>9. (~overlap => \A q \in Processes : pc[q] \in Saving => SaveInv(q))'
  BY <1>2, <1>3, <1>4, <1>5 DEF SaveInv, Saving
<1> QED
  BY <1>6, <1>7, <1>8, <1>9 DEF WholeInv

\* A half that a process writes goes into its file.
LEMMA WriteKeepsWhole ==
  ASSUME CacheInv, WholeInv, NEW p \in Processes,
         Write(p, "first", "rest", 1) \/ Write(p, "rest", "close", 2)
  PROVE  WholeInv'
<1> USE CacheAssumption DEF memory
<1>1. TypeOK /\ handle[p] \in Inodes /\ json[p] \in Halves
  BY DEF CacheInv, HandleInv, TypeOK, Write
<1>2. /\ path' = path /\ tmp' = tmp /\ json' = json /\ handle' = handle /\ overlap' = overlap
      /\ cut' = cut
      /\ pc[p] \in {"first", "rest"} /\ pc' = [pc EXCEPT ![p] = IF pc[p] = "first" THEN "rest" ELSE "close"]
      /\ half' = IF pc[p] = "first" THEN [half EXCEPT ![handle[p]][1] = json[p]]
                                    ELSE [half EXCEPT ![handle[p]][2] = json[p]]
  BY DEF Write, Goto, bounds
<1>3. /\ pc'[p] = IF pc[p] = "first" THEN "rest" ELSE "close"
      /\ \A q \in Processes : q # p => pc'[q] = pc[q]
  BY <1>1, <1>2 DEF TypeOK
<1>4. /\ \A k \in Inodes \ {handle[p]} : half'[k] = half[k]
      /\ pc[p] = "first" => half'[handle[p]][1] = json[p]
      /\ pc[p] = "rest" => half'[handle[p]][2] = json[p] /\ half'[handle[p]][1] = half[handle[p]][1]
  BY <1>1, <1>2, HalfWritten DEF TypeOK
<1>5. (tmp # 0 => tmp # path)'
  BY <1>2 DEF WholeInv
<1>6. (\A q \in Processes : pc[q] \in {"create"} \cup Saving => json[q] # None)'
  BY <1>2, <1>3 DEF WholeInv, Saving
<1>7. ~overlap => SaveInv(p) /\ handle[p] = tmp
  BY <1>2 DEF WholeInv, SaveInv, Saving
<1>8. (~overlap /\ path \notin cut \cup {0} => Whole(path))'
  BY <1>1, <1>2, <1>4, <1>7 DEF WholeInv, Whole, SaveInv, TypeOK
<1>9. ~overlap => SaveInv(p)'
  BY <1>2, <1>3, <1>4, <1>7 DEF SaveInv, Saving
<1>10. (~overlap => \A q \in Processes : pc[q] \in Saving => SaveInv(q))'
  BY <1>2, <1>3, <1>7, <1>9 DEF SaveInv
<1> QED
  BY <1>5, <1>6, <1>8, <1>10 DEF WholeInv

\* Every other step keeps the file as well.
LEMMA WholeStep ==
  ASSUME CacheInv, WholeInv, [Next]_vars
  PROVE  WholeInv'
<1>0. TypeOK
  BY DEF CacheInv
<1> USE <1>0, CacheAssumption DEF TypeOK, WholeInv, SaveInv, Whole, Saving, Goto, files, memory, bounds
<1>1. ASSUME NEW p \in Processes, Start(p) PROVE WholeInv'
  BY <1>1 DEF Start
<1>2. ASSUME NEW p \in Processes, Query(p) PROVE WholeInv'
  BY <1>2 DEF Query
<1>3. ASSUME NEW p \in Processes, LoadOpen(p) PROVE WholeInv'
  BY <1>3 DEF LoadOpen
<1>4. ASSUME NEW p \in Processes, LoadHeader(p) PROVE WholeInv'
  BY <1>4 DEF LoadHeader, Close
<1>5. ASSUME NEW p \in Processes, LoadBody(p) PROVE WholeInv'
  BY <1>5 DEF LoadBody, Close
<1>6. ASSUME NEW p \in Processes, Fetch(p) PROVE WholeInv'
  BY <1>6 DEF Fetch, None
<1>7. ASSUME NEW p \in Processes, Create(p) PROVE WholeInv'
  BY <1>7, CreateKeepsWhole
<1>8. ASSUME NEW p \in Processes, CreateFails(p) PROVE WholeInv'
  BY <1>8 DEF CreateFails
<1>9. ASSUME NEW p \in Processes, Write(p, "first", "rest", 1) \/ Write(p, "rest", "close", 2) PROVE WholeInv'
  BY <1>9, WriteKeepsWhole
<1>10. ASSUME NEW p \in Processes, WriteFails(p) PROVE WholeInv'
  BY <1>10 DEF WriteFails, Close
<1>11. ASSUME NEW p \in Processes, CloseTmp(p) PROVE WholeInv'
  <2>1. handle[p] \in Inodes /\ pc[p] = "close" /\ (~overlap => SaveInv(p) /\ handle[p] = tmp)
    BY <1>11 DEF CloseTmp, CacheInv, HandleInv
  <2>2. /\ path' = path /\ tmp' = tmp /\ json' = json /\ overlap' = overlap
        /\ pc' = [pc EXCEPT ![p] = "unlink"] /\ cut \subseteq cut'
        /\ \A i \in Inodes \ cut' : half'[i] = half[i]
    BY <1>11, <2>1, ShortTyped DEF CloseTmp
  <2> QED
    BY <2>1, <2>2
<1>12. ASSUME NEW p \in Processes, Unlink(p) PROVE WholeInv'
  BY <1>12 DEF Unlink
<1>13. ASSUME NEW p \in Processes, Rename(p) PROVE WholeInv'
  BY <1>13 DEF Rename
<1>14. ASSUME NEW p \in Processes, Import(p) PROVE WholeInv'
  BY <1>14 DEF Import, Event
<1>15. ASSUME NEW p \in Processes, ImportRejected(p) PROVE WholeInv'
  BY <1>15 DEF ImportRejected, Event
<1>16. ASSUME NEW p \in Processes, Reconfigure(p) PROVE WholeInv'
  BY <1>16 DEF Reconfigure, Forget
<1>17. ASSUME NEW p \in Processes, Update(p) PROVE WholeInv'
  BY <1>17 DEF Update, Event
<1>18. ASSUME NEW p \in Processes, Crash(p) PROVE WholeInv'
  BY <1>18 DEF Crash, Event, Close, Forget
<1>19. CASE PowerLoss
  BY <1>19, LossTyped DEF PowerLoss
<1>20. CASE UNCHANGED vars
  BY <1>20 DEF vars
<1> QED
  BY <1>1, <1>2, <1>3, <1>4, <1>5, <1>6, <1>7, <1>8, <1>9, <1>10, <1>11, <1>12, <1>13, <1>14, <1>15, <1>16, <1>17, <1>18, <1>19, <1>20 DEF Next, ConfigureStep

\* Without two that save at once the cache file is whole whenever it is there and lost
\* nothing of what was written to it (an fclose() that failed, a loss of power), after a
\* crash of the process at any access to the file system of save() too.
THEOREM FileIsWhole == Spec => []CacheIsWhole
<1>1. Init => WholeInv
  BY DEF Init, WholeInv, Saving
<1>2. CacheInv /\ WholeInv /\ [Next]_vars => WholeInv'
  BY WholeStep
<1>3. WholeInv => CacheIsWhole
  BY DEF WholeInv, CacheIsWhole
<1> QED
  BY <1>1, <1>2, <1>3, CacheCorrect, PTL DEF Spec
=============================================================================
