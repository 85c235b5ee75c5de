-------------------------- MODULE SnapshotExchange --------------------------
(***************************************************************************)
(* The exchange of state snapshots between the thread that runs the cycles *)
(* and the threads that read: TripleBuffer with its spin lock, and         *)
(* TickGroup::acquire_snapshot() with its copy per thread.                 *)
(*                                                                         *)
(* A snapshot is its number.  What is copied under the lock is a pair whose *)
(* halves are copied one after the other, so that a torn copy would show.  *)
(* One action is one access to what two threads share; the private slot of *)
(* the writer is filled in one.                                            *)
(***************************************************************************)
EXTENDS Naturals

CONSTANT Readers   \* the threads that call acquire_snapshot()

ASSUME ReadersAssumption == "writer" \notin Readers /\ "free" \notin Readers

VARIABLES
  lock,        \* payload_lock_: who holds it, or "free"
  staging,     \* the number of the snapshot in staging_
  live,        \* live_
  fresh,       \* fresh_
  published,   \* published_ # 0
  stage,       \* acquire_snapshot()'s thread_local copy of each reader
  wpc,         \* where the writer is
  rpc          \* where each reader is

payload  == <<staging, live, stage>>
exchange == <<lock, staging, live, fresh, published, stage, wpc, rpc>>

WriterLocations == {"idle", "lock", "half", "rest", "fresh", "unlock", "count"}
ReaderLocations == {"idle", "lock", "test", "half", "rest", "clear", "unlock"}

ExchangeInit ==
  /\ lock = "free"
  /\ staging = 0 /\ live = <<0, 0>>
  /\ fresh = FALSE /\ published = FALSE
  /\ stage = [r \in Readers |-> <<0, 0>>]
  /\ wpc = "idle" /\ rpc = [r \in Readers |-> "idle"]

-----------------------------------------------------------------------------
(* The writer: write_slot() and publish().                                 *)

WriterGoto(from, to) == wpc = from /\ wpc' = to /\ UNCHANGED rpc

\* The private slot is filled: nobody sees it.
FillSlot ==
  /\ WriterGoto("idle", "lock")
  /\ staging' = staging + 1
  /\ UNCHANGED <<lock, live, fresh, published, stage>>

\* A publish() that relies on the atomic flag and takes no lock.
PublishUnlocked ==
  /\ WriterGoto("lock", "half")
  /\ UNCHANGED <<lock, payload, fresh, published>>

PublishLock ==
  /\ WriterGoto("lock", "half")
  /\ lock = "free" /\ lock' = "writer"
  /\ UNCHANGED <<payload, fresh, published>>

PublishHalf ==
  /\ WriterGoto("half", "rest")
  /\ live' = [live EXCEPT ![1] = staging]
  /\ UNCHANGED <<lock, staging, fresh, published, stage>>

PublishRest ==
  /\ WriterGoto("rest", "fresh")
  /\ live' = [live EXCEPT ![2] = staging]
  /\ UNCHANGED <<lock, staging, fresh, published, stage>>

PublishFresh ==
  /\ WriterGoto("fresh", "unlock")
  /\ fresh' = TRUE
  /\ UNCHANGED <<lock, payload, published>>

PublishUnlock ==
  /\ WriterGoto("unlock", "count")
  /\ lock' = "free"
  /\ UNCHANGED <<payload, fresh, published>>

PublishCount ==
  /\ WriterGoto("count", "idle")
  /\ published' = TRUE
  /\ UNCHANGED <<lock, payload, fresh>>

Publish ==
  \/ PublishLock \/ PublishHalf \/ PublishRest \/ PublishFresh
  \/ PublishUnlock \/ PublishCount

-----------------------------------------------------------------------------
(* A reader: acquire_snapshot() and read().                                *)

ReaderGoto(r, from, to) == rpc[r] = from /\ rpc' = [rpc EXCEPT ![r] = to] /\ UNCHANGED wpc

\* has_value(): before the first publication the call returns nullptr.
HasValue(r) ==
  /\ ReaderGoto(r, "idle", IF published THEN "lock" ELSE "idle")
  /\ UNCHANGED <<lock, payload, fresh, published>>

\* A reader that does not wait for the lock and keeps its copy instead.
ReadTryLock(r) ==
  /\ ReaderGoto(r, "lock", IF lock = "free" THEN "test" ELSE "idle")
  /\ lock' = IF lock = "free" THEN r ELSE lock
  /\ UNCHANGED <<payload, fresh, published>>

ReadLock(r) ==
  /\ ReaderGoto(r, "lock", "test")
  /\ lock = "free" /\ lock' = r
  /\ UNCHANGED <<payload, fresh, published>>

ReadTest(r) ==
  /\ ReaderGoto(r, "test", IF fresh THEN "half" ELSE "unlock")
  /\ UNCHANGED <<lock, payload, fresh, published>>

ReadHalf(r) ==
  /\ ReaderGoto(r, "half", "rest")
  /\ stage' = [stage EXCEPT ![r][1] = live[1]]
  /\ UNCHANGED <<lock, staging, live, fresh, published>>

ReadRest(r) ==
  /\ ReaderGoto(r, "rest", "clear")
  /\ stage' = [stage EXCEPT ![r][2] = live[2]]
  /\ UNCHANGED <<lock, staging, live, fresh, published>>

\* The flag stays, and the next reader is given the same snapshot as new.
ReadLeavesFresh(r) ==
  /\ ReaderGoto(r, "clear", "unlock")
  /\ UNCHANGED <<lock, payload, fresh, published>>

ReadClear(r) ==
  /\ ReaderGoto(r, "clear", "unlock")
  /\ fresh' = FALSE
  /\ UNCHANGED <<lock, payload, published>>

ReadUnlock(r) ==
  /\ ReaderGoto(r, "unlock", "idle")
  /\ lock' = "free"
  /\ UNCHANGED <<payload, fresh, published>>

Reading(r) ==
  \/ ReadLock(r) \/ ReadTest(r) \/ ReadHalf(r) \/ ReadRest(r)
  \/ ReadClear(r) \/ ReadUnlock(r)

\* The group is destroyed with its buffer, and later another is made; the copies of
\* the threads, being static, outlive it.
NewGroup ==
  /\ wpc = "idle" /\ \A r \in Readers : rpc[r] = "idle"
  /\ fresh' = FALSE /\ published' = FALSE
  /\ UNCHANGED <<lock, payload, wpc, rpc>>

ExchangeNext ==
  \/ FillSlot \/ Publish \/ NewGroup
  \/ \E r \in Readers : HasValue(r) \/ Reading(r)

ExchangeSpec == ExchangeInit /\ [][ExchangeNext]_exchange

-----------------------------------------------------------------------------
ExchangeTypeOK ==
  /\ lock \in Readers \cup {"writer", "free"}
  /\ staging \in Nat /\ live \in Nat \X Nat
  /\ fresh \in BOOLEAN /\ published \in BOOLEAN
  /\ stage \in [Readers -> Nat \X Nat]
  /\ wpc \in WriterLocations
  /\ rpc \in [Readers -> ReaderLocations]

\* A copy that a caller holds is whole: what publish() and read() copy in pieces is
\* never mixed from two snapshots (the comments of publish() tell of 1 torn value in
\* 2400 reads of an earlier version).
NeverTorn == \A r \in Readers : rpc[r] = "idle" => stage[r][1] = stage[r][2]

\* The buffer behaves like LatestValue: a snapshot counts as put when fresh_ is set,
\* and as taken when a reader has found fresh_ set under the lock.
Taking(r) == rpc[r] \in {"half", "rest", "clear"}

Latest == INSTANCE LatestValue WITH
  value <- IF wpc \in {"lock", "half", "rest", "fresh"} THEN staging - 1 ELSE staging,
  taken <- ~fresh \/ \E r \in Readers : Taking(r),
  copy  <- [r \in Readers |-> IF Taking(r) THEN live[1] ELSE stage[r][1]]

\* The exchange is a LatestValue: whole values, each given to one reader at most.
LatestSpec == Latest!Spec
=============================================================================
