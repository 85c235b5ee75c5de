------------------------------ MODULE SpscRing ------------------------------
(***************************************************************************)
(* The lock-free ring that carries fault events from the tick thread to    *)
(* the ROS timer that publishes them                                       *)
(* (src/jr_ros2/include/jr_ros2/rt/jr_spsc_ring.hpp).                      *)
(*                                                                         *)
(* One action per access to a shared location: the two indices and the     *)
(* buffer, whose cells take several accesses to write and to read.  Both   *)
(* sides keep a copy of the other's index and look again only when the     *)
(* copy says that they are stuck.  The acquire/release pairs on the        *)
(* indices are what makes the interleaving of these steps faithful.        *)
(***************************************************************************)
EXTENDS Naturals, Sequences

CONSTANTS
  N,           \* the capacity
  MaxEvents    \* bound of the number of events

ASSUME RingAssumption == N \in Nat \ {0, 1} /\ MaxEvents \in Nat

VARIABLES
  write,       \* write_
  read,        \* read_
  dropped,     \* dropped_
  readCache,   \* read_cache_, of the producer
  writeCache,  \* write_cache_, of the consumer
  buf,         \* buf_
  event,       \* the number of the event that push() was last called with
  copy,        \* *out of pop()
  out,         \* history: the event that pop() delivered last
  ppc,         \* where the producer is in push()
  cpc,         \* where the consumer is in pop()
  log          \* history: the events that were accepted

vars == <<write, read, dropped, readCache, writeCache, buf, event, copy, out, ppc, cpc, log>>

Init ==
  /\ write = 0 /\ read = 0 /\ dropped = 0 /\ readCache = 0 /\ writeCache = 0
  /\ buf = [i \in 0 .. N - 1 |-> 0]
  /\ event = 0 /\ copy = 0 /\ out = 0
  /\ ppc = "idle" /\ cpc = "idle"
  /\ log = << >>

-----------------------------------------------------------------------------
(* The producer: push().                                                   *)

\* push() trusts its copy of the read index.
PushCallTrusts ==
  /\ ppc = "idle" /\ event < MaxEvents
  /\ event' = event + 1
  /\ ppc' = IF write - readCache > N THEN "full" ELSE "fill"
  /\ UNCHANGED <<write, read, dropped, readCache, writeCache, buf, copy, out, cpc, log>>

\* push() is called: is there room, as far as the producer knows?
PushCall ==
  /\ ppc = "idle" /\ event < MaxEvents
  /\ event' = event + 1
  /\ ppc' = IF write - readCache >= N THEN "full" ELSE "fill"
  /\ UNCHANGED <<write, read, dropped, readCache, writeCache, buf, copy, out, cpc, log>>

\* A full ring makes room by giving up the oldest event.
PushLookOverwrites ==
  /\ ppc = "full"
  /\ readCache' = read
  /\ ppc' = "fill"
  /\ UNCHANGED <<write, read, dropped, writeCache, buf, event, copy, out, cpc, log>>

\* A drop that nobody counts.
PushLookSilent ==
  /\ ppc = "full"
  /\ readCache' = read
  /\ ppc' = IF write - read >= N THEN "idle" ELSE "fill"
  /\ UNCHANGED <<write, read, dropped, writeCache, buf, event, copy, out, cpc, log>>

\* The producer looks at the read index again; if there is still no room, the new
\* event is dropped.
PushLook ==
  /\ ppc = "full"
  /\ readCache' = read
  /\ IF write - read >= N
     THEN ppc' = "idle" /\ dropped' = dropped + 1
     ELSE ppc' = "fill" /\ dropped' = dropped
  /\ UNCHANGED <<write, read, writeCache, buf, event, copy, out, cpc, log>>

\* The event is in its cell.
PushFill ==
  /\ ppc = "fill"
  /\ buf' = [buf EXCEPT ![write % N] = event]
  /\ ppc' = "publish"
  /\ UNCHANGED <<write, read, dropped, readCache, writeCache, event, copy, out, cpc, log>>

\* The release store of the write index.
PushPublish ==
  /\ ppc = "publish"
  /\ write' = write + 1
  /\ log' = Append(log, event)
  /\ ppc' = "idle"
  /\ UNCHANGED <<read, dropped, readCache, writeCache, buf, event, copy, out, cpc>>

-----------------------------------------------------------------------------
(* The consumer: pop().                                                    *)

\* pop() is called: is there an event, as far as the consumer knows?
PopCall ==
  /\ cpc = "idle"
  /\ cpc' = IF read = writeCache THEN "empty" ELSE "copy"
  /\ UNCHANGED <<write, read, dropped, readCache, writeCache, buf, event, copy, out, ppc, log>>

\* pop() takes an empty ring for empty for ever.
PopLookNot ==
  /\ cpc = "empty"
  /\ cpc' = "idle"
  /\ UNCHANGED <<write, read, dropped, readCache, writeCache, buf, event, copy, out, ppc, log>>

\* The consumer looks at the write index again; there may be no event.
PopLook ==
  /\ cpc = "empty"
  /\ writeCache' = write
  /\ cpc' = IF read = write THEN "idle" ELSE "copy"
  /\ UNCHANGED <<write, read, dropped, readCache, buf, event, copy, out, ppc, log>>

\* The event is copied out of its cell, and the release store of the read index.
PopCopy ==
  /\ cpc = "copy"
  /\ copy' = buf[read % N]
  /\ cpc' = "free"
  /\ UNCHANGED <<write, read, dropped, readCache, writeCache, buf, event, out, ppc, log>>

PopFree ==
  /\ cpc = "free"
  /\ read' = read + 1
  /\ out' = copy
  /\ cpc' = "idle"
  /\ UNCHANGED <<write, dropped, readCache, writeCache, buf, event, copy, ppc, log>>

Push == PushCall \/ PushLook \/ PushFill \/ PushPublish
Pop  == PopCall \/ PopLook \/ PopCopy \/ PopFree

Next == Push \/ Pop

Spec == Init /\ [][Next]_vars

(* A timer of the node drains the ring for ever; nobody has to push.       *)
FairSpec == Spec /\ WF_vars(Pop)

-----------------------------------------------------------------------------
\* The values of the variables.
TypeOK ==
  /\ write \in Nat /\ read \in Nat /\ dropped \in Nat
  /\ readCache \in Nat /\ writeCache \in Nat
  /\ buf \in [0 .. N - 1 -> Nat]
  /\ event \in Nat /\ copy \in Nat /\ out \in Nat
  /\ ppc \in {"idle", "full", "fill", "publish"}
  /\ cpc \in {"idle", "empty", "copy", "free"}
  /\ log \in Seq(Nat)

\* The copies are old, and old is on the safe side; the indices are at most N apart.
IndicesInOrder ==
  /\ readCache <= read /\ read <= writeCache /\ writeCache <= write
  /\ write <= readCache + N
  /\ ppc \in {"fill", "publish"} => write < readCache + N
  /\ cpc \in {"copy", "free"} => read < writeCache

\* The cells between the indices hold the accepted events, the oldest first.
CellsHoldLog ==
  /\ Len(log) = write
  /\ \A k \in read .. write - 1 : buf[k % N] = log[k + 1]
  /\ ppc = "publish" => buf[write % N] = event
  /\ cpc = "free" => copy = log[read + 1]

\* Why the properties below hold: the inductive invariant of the ring.
RingInv == IndicesInOrder /\ CellsHoldLog

\* An event is never copied out of a cell while another one is put into it.
NeverTorn == ~(ppc = "fill" /\ cpc = "copy" /\ write % N = read % N)

\* Every event was accepted, was dropped, or is being pushed.
EventsAccounted ==
  event = Len(log) + dropped + (IF ppc = "idle" THEN 0 ELSE 1)

\* The ring is an EventLog: an event is accepted and taken by the store of an index.
Log == INSTANCE EventLog WITH Events <- 1 .. MaxEvents, taken <- read, lost <- dropped

\* Every step of the ring is a step of the log, or none.
LogSpec == Log!Spec

\* Every accepted event is delivered.
AllDelivered == \A n \in 1 .. MaxEvents : (Len(log) >= n) ~> (read >= n)
=============================================================================
