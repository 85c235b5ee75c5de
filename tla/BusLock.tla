------------------------------ MODULE BusLock ------------------------------
(***************************************************************************)
(* Several processes (driver nodes, the ros2_control component, tools)     *)
(* that open the buses of a tick group, in the order of its configuration: *)
(* for each bus first BusLock::acquire(), then the HAL; after the last one *)
(* configure().  Whatever fails on the way, the process closes what it has *)
(* opened.  The lock is a flock() on one file and a second file that tells *)
(* whose it is (src/jr_ros2/src/rt/jr_bus_lock.cpp).  Every access to one  *)
(* of the files is a step; a process may crash between any two of them,    *)
(* and its descriptors are then closed by the kernel, its files stay.      *)
(***************************************************************************)
EXTENDS Naturals, FiniteSets

CONSTANTS
  Procs,       \* the processes
  Buses,       \* the physical channels, which name the lock files (lock_key())
  Place,       \* [Procs -> [Buses -> Nat]]: a bus's place in the process's tick group; 0: not in it
  LockMode,    \* [Procs -> {"exclusive", "shared", "off"}]: bus_lock.enabled and .allow_shared
  Dir          \* [Procs -> directory]: where a process looks for the lock files

LockModes == {"exclusive", "shared", "off"}

ASSUME LockAssumption ==
  /\ Place \in [Procs -> [Buses -> Nat]]
  /\ LockMode \in [Procs -> LockModes]
  /\ \A p \in Procs : \E b \in Buses : Place[p][b] # 0
  /\ {"nobody", "dead"} \cap Procs = {}
  /\ "none" \notin Buses

VARIABLES
  holder,      \* per lock file: who has the flock, or "nobody"
  owner,       \* per owner file: the process whose pid it holds; "dead": a pid of no process; "nobody": none
  held,        \* per process: the buses whose BusLock::held_ is set
  hal,         \* per process: the buses whose HAL is open
  stage,       \* where each process is
  cur          \* the bus it is opening or closing, or "none"

files == <<holder, owner>>
procs == <<held, hal, stage, cur>>
vars  == <<holder, owner, held, hal, stage, cur>>

Stages ==
  {"down", "lock", "readOwner", "truncate", "writePid", "hal", "configure", "up",
   "closeHal", "removeOwner", "unlock"}

Files      == {Dir[p] : p \in Procs} \X Buses
File(p, b) == <<Dir[p], b>>
Group(p)   == {b \in Buses : Place[p][b] # 0}
Open(p)    == held[p] \cup hal[p]
Exclusive  == {p \in Procs : LockMode[p] = "exclusive"}

Init ==
  /\ holder = [f \in Files |-> "nobody"] /\ owner = [f \in Files |-> "nobody"]
  /\ held = [p \in Procs |-> {}] /\ hal = [p \in Procs |-> {}]
  /\ stage = [p \in Procs |-> "down"] /\ cur = [p \in Procs |-> "none"]

-----------------------------------------------------------------------------
(* The loops over the buses of a group.                                    *)

At(p, s)    == stage[p] = s
Go(p, s, b) == stage' = [stage EXCEPT ![p] = s] /\ cur' = [cur EXCEPT ![p] = b]

\* The first bus of a set in the order of the group.
First(p, S) == {b \in S : \A c \in S : Place[p][b] <= Place[p][c]}

\* open_buses(): the next bus, or configure_buses() when all are open.
OpenNext(p, open) ==
  \/ \E b \in First(p, Group(p) \ open) : Go(p, IF LockMode[p] = "off" THEN "hal" ELSE "lock", b)
  \/ Group(p) \subseteq open /\ Go(p, "configure", "none")

\* A group that was not opened completely is dropped without being closed.
CloseNothing(p, open) == Go(p, "down", "none")

\* close_buses() and the destructors: the next bus that is open; close() of the
\* others does nothing.
CloseNext(p, open) ==
  \/ \E b \in First(p, open) : Go(p, "closeHal", b)
  \/ open = {} /\ Go(p, "down", "none")

-----------------------------------------------------------------------------
(* BusRuntime::open() of one bus.                                          *)

Start(p) ==
  /\ At(p, "down")
  /\ OpenNext(p, {})
  /\ UNCHANGED <<files, held, hal>>

\* The lock is taken whoever has it.
TryLockTakes(p) ==
  /\ At(p, "lock")
  /\ holder' = [holder EXCEPT ![File(p, cur[p])] = p]
  /\ Go(p, "truncate", cur[p])
  /\ UNCHANGED <<owner, held, hal>>

\* flock(LOCK_EX | LOCK_NB) succeeds; in shared mode it is not called.
TryLock(p) ==
  /\ At(p, "lock")
  /\ \/ LockMode[p] = "shared" /\ UNCHANGED holder
     \/ /\ p \in Exclusive /\ holder[File(p, cur[p])] = "nobody"
        /\ holder' = [holder EXCEPT ![File(p, cur[p])] = p]
  /\ Go(p, "truncate", cur[p])
  /\ UNCHANGED <<owner, held, hal>>

\* acquire() tries again until the lock is free.
RefusedRetries(p) ==
  /\ At(p, "lock") /\ p \in Exclusive
  /\ holder[File(p, cur[p])] # "nobody"
  /\ UNCHANGED vars

\* EWOULDBLOCK.
Refused(p) ==
  /\ At(p, "lock") /\ p \in Exclusive
  /\ holder[File(p, cur[p])] # "nobody"
  /\ Go(p, "readOwner", cur[p])
  /\ UNCHANGED <<files, held, hal>>

\* The message names the pid of the owner file; open_buses() fails and the group is
\* destroyed.
ReadOwner(p) ==
  /\ At(p, "readOwner")
  /\ CloseNext(p, Open(p))
  /\ UNCHANGED <<files, held, hal>>

\* The bus plan or the ABI check refuses the bus, or the lock file cannot be opened.
LockFileFails(p) ==
  /\ At(p, "lock")
  /\ CloseNext(p, Open(p))
  /\ UNCHANGED <<files, held, hal>>

\* fopen(owner_path_, "wb").
TruncateOwner(p) ==
  /\ At(p, "truncate")
  /\ owner' = [owner EXCEPT ![File(p, cur[p])] = "nobody"]
  /\ Go(p, "writePid", cur[p])
  /\ UNCHANGED <<holder, held, hal>>

WritePid(p) ==
  /\ At(p, "writePid")
  /\ owner' = [owner EXCEPT ![File(p, cur[p])] = p]
  /\ held' = [held EXCEPT ![p] = @ \cup {cur[p]}]
  /\ Go(p, "hal", cur[p])
  /\ UNCHANGED <<holder, hal>>

OpenHal(p) ==
  /\ At(p, "hal")
  /\ hal' = [hal EXCEPT ![p] = @ \cup {cur[p]}]
  /\ OpenNext(p, Open(p) \cup {cur[p]})
  /\ UNCHANGED <<files, held>>

\* The HAL, the context or a joint fails: close(kNone) of this bus, then the others.
OpenHalFails(p) ==
  /\ At(p, "hal")
  /\ IF cur[p] \in held[p] THEN Go(p, "removeOwner", cur[p]) ELSE CloseNext(p, Open(p))
  /\ UNCHANGED <<files, held, hal>>

ConfigureDone(p) ==
  /\ At(p, "configure")
  /\ Go(p, "up", "none")
  /\ UNCHANGED <<files, held, hal>>

ConfigureFails(p) ==
  /\ At(p, "configure")
  /\ CloseNext(p, Open(p))
  /\ UNCHANGED <<files, held, hal>>

-----------------------------------------------------------------------------
(* BusRuntime::close() and BusLock::release() of one bus.                  *)

\* on_cleanup(), on_shutdown().
Stop(p) ==
  /\ At(p, "up")
  /\ CloseNext(p, Open(p))
  /\ UNCHANGED <<files, held, hal>>

\* flock(LOCK_UN) on the process's own descriptor.
Unlocked(p, f) == IF holder[f] = p THEN "nobody" ELSE holder[f]

\* The flock is given up before the owner file is removed.
CloseHalUnlocks(p) ==
  /\ At(p, "closeHal")
  /\ hal' = [hal EXCEPT ![p] = @ \ {cur[p]}]
  /\ holder' = [holder EXCEPT ![File(p, cur[p])] = Unlocked(p, File(p, cur[p]))]
  /\ IF cur[p] \in held[p] THEN Go(p, "removeOwner", cur[p])
                           ELSE CloseNext(p, Open(p) \ {cur[p]})
  /\ UNCHANGED <<owner, held>>

CloseHal(p) ==
  /\ At(p, "closeHal")
  /\ hal' = [hal EXCEPT ![p] = @ \ {cur[p]}]
  /\ IF cur[p] \in held[p] THEN Go(p, "removeOwner", cur[p])
                           ELSE CloseNext(p, Open(p) \ {cur[p]})
  /\ UNCHANGED <<files, held>>

RemoveOwner(p) ==
  /\ At(p, "removeOwner")
  /\ owner' = [owner EXCEPT ![File(p, cur[p])] = "nobody"]
  /\ Go(p, "unlock", cur[p])
  /\ UNCHANGED <<holder, held, hal>>

Unlock(p) ==
  /\ At(p, "unlock")
  /\ holder' = [holder EXCEPT ![File(p, cur[p])] = Unlocked(p, File(p, cur[p]))]
  /\ held' = [held EXCEPT ![p] = @ \ {cur[p]}]
  /\ CloseNext(p, Open(p) \ {cur[p]})
  /\ UNCHANGED <<owner, hal>>

\* The kernel closes the descriptors of a process that dies; a pid in an owner
\* file stays there and names nobody any more.
Crash(p) ==
  /\ ~At(p, "down")
  /\ holder' = [f \in Files |-> Unlocked(p, f)]
  /\ owner' = [f \in Files |-> IF owner[f] = p THEN "dead" ELSE owner[f]]
  /\ held' = [held EXCEPT ![p] = {}] /\ hal' = [hal EXCEPT ![p] = {}]
  /\ Go(p, "down", "none")

\* What a process does once it is starting or stopping, and how a start fails.
OpenStep(p) ==
  \/ TryLock(p) \/ Refused(p) \/ ReadOwner(p)
  \/ TruncateOwner(p) \/ WritePid(p) \/ OpenHal(p) \/ ConfigureDone(p)
Failure(p)   == LockFileFails(p) \/ OpenHalFails(p) \/ ConfigureFails(p)
CloseStep(p) == CloseHal(p) \/ RemoveOwner(p) \/ Unlock(p)

Next ==
  \E p \in Procs :
    Start(p) \/ OpenStep(p) \/ Failure(p) \/ Stop(p) \/ CloseStep(p) \/ Crash(p)

Spec == Init /\ [][Next]_vars

(* A process that is starting or stopping goes on: no step of it waits for *)
(* another process.  Nobody has to start, to fail, to stop or to crash.    *)
FairSpec == Spec /\ \A p \in Procs : WF_vars(OpenStep(p) \/ CloseStep(p))

-----------------------------------------------------------------------------
\* The values of the variables.
TypeOK ==
  /\ holder \in [Files -> Procs \cup {"nobody"}]
  /\ owner \in [Files -> Procs \cup {"nobody", "dead"}]
  /\ held \in [Procs -> SUBSET Buses] /\ hal \in [Procs -> SUBSET Buses]
  /\ stage \in [Procs -> Stages]
  /\ cur \in [Procs -> Buses \cup {"none"}]
  /\ \A p \in Procs : cur[p] = "none" <=> stage[p] \in {"down", "configure", "up"}

\* Two processes that ask for exclusivity never have the same bus open.
OneMaster ==
  \A p, q \in Exclusive : hal[p] \cap hal[q] # {} => p = q

\* The locks implement the single-master rule.
Master ==
  [b \in Buses |-> IF \E p \in Exclusive : b \in hal[p]
                   THEN CHOOSE p \in Exclusive : b \in hal[p] ELSE "nobody"]
Mastership == INSTANCE BusMaster WITH Masters <- Exclusive, Nobody <- "nobody", master <- Master
MastershipSpec == Mastership!Spec

\* Who is refused is told the truth: an owner file that names a process names the
\* one that has the lock, and once acquire() has returned it does name it.  It is
\* said of the files that no shared process writes.
OwnerFileTrue ==
  \A f \in Files :
    (\A p \in Procs : LockMode[p] = "shared" => f[2] \notin Group(p)) =>
      /\ owner[f] \in Procs => holder[f] = owner[f]
      /\ \A p \in Procs : f = File(p, f[2]) /\ f[2] \in held[p] /\ ~At(p, "unlock") => owner[f] = p

\* A process that is down, however it got there, has given everything back.
DownKeepsNothing ==
  \A p \in Procs : At(p, "down") =>
    Open(p) = {} /\ \A f \in Files : holder[f] # p

\* Nobody waits for a lock: a start ends, with all buses or with none, also when two
\* processes want the same buses in opposite orders.
StartEnds ==
  \A p \in Procs : ~At(p, "down") ~> (At(p, "up") \/ At(p, "down"))
-----------------------------------------------------------------------------
(* Why OneMaster holds: the inductive invariant of the locks.              *)

\* acquire() has the flock and has not set held_ yet.
Acquiring(p) == stage[p] \in {"truncate", "writePid"}

\* What an exclusive process believes it has locked is locked by it.
HeldIsLocked(p) ==
  \A b \in Buses :
    p \in Exclusive /\ (b \in held[p] \/ (Acquiring(p) /\ b = cur[p])) => holder[File(p, b)] = p

\* Every flock is known to its process, which will give it back.
LockIsHeld(p) ==
  \A f \in Files : holder[f] = p =>
    \E b \in Buses : f = File(p, b) /\ (b \in held[p] \/ (Acquiring(p) /\ b = cur[p]))

\* The HAL of an exclusive process is only open under the lock; a bus that is being
\* opened or unlocked has no HAL open.
HalIsHeld(p) ==
  /\ p \in Exclusive => hal[p] \subseteq held[p] /\ (At(p, "hal") => cur[p] \in held[p])
  /\ stage[p] \in {"lock", "readOwner", "truncate", "writePid", "hal", "removeOwner", "unlock"}
       => cur[p] \notin hal[p]

\* A process that is down has nothing open.
DownIsClosed(p) == At(p, "down") => Open(p) = {}

LockInv ==
  \A p \in Procs : HeldIsLocked(p) /\ LockIsHeld(p) /\ HalIsHeld(p) /\ DownIsClosed(p)
=============================================================================
