------------------------------ MODULE DescCache ------------------------------
(***************************************************************************)
(* The descriptor of a bus: BusRuntime::configure() takes it from the      *)
(* cache file or from the device, and import_descriptor() from a user      *)
(* (jr_bus_runtime.cpp); DescCache::load() and save() read and write the   *)
(* file (jr_desc_cache.cpp), one action per access to the file system.     *)
(*                                                                         *)
(* The file is named after the bus, so that all processes whose bus has    *)
(* the same name share it, and its temporary file too: two hosts' set-ups  *)
(* run on one machine, a node beside a tool in shared mode.  Each process  *)
(* has its own device.  A descriptor is the version of the firmware it     *)
(* describes.  Its file is written and read in two halves: the header      *)
(* with the version, the length and the CRC, and what follows it.          *)
(* Written is not stored: save() hands its bytes to a stdio buffer whose   *)
(* last flush may fail, and never waits for the disk.                      *)
(***************************************************************************)
EXTENDS Naturals

CONSTANTS
  Processes,     \* processes that use a bus of this name
  Versions,      \* firmware versions
  Inodes,        \* bound on the files, with a name or open; one that is neither is free again
  MaxEvents,     \* bound on the crashes, power losses, firmware updates and imports
  MaxSaves       \* bound on the files created

ASSUME CacheAssumption ==
  /\ 0 \notin Versions /\ "none" \notin Versions /\ Versions # {}
  /\ 0 \notin Inodes
  /\ MaxEvents \in Nat /\ MaxSaves \in Nat

VARIABLES
  path, tmp,     \* the inodes of the two names, 0: no such file
  half,          \* the halves of each inode: whose descriptor it is, or "none"
  cut,           \* history: the inodes that have lost an end that was written to them
  pc,            \* where each process is
  handle,        \* the file it has open, 0: none
  version,       \* the firmware of its device
  known,         \* report_.device[0].fw_version, 0: never answered
  header,        \* the first half as load() has read it
  store,         \* the descriptor in the SDK
  json,          \* desc_json_
  cached,        \* what the SDK has is from the cache (history)
  events, saves, \* counters for the bounds
  overlap        \* two processes were once saving at the same time

files  == <<path, tmp, half, cut>>
memory == <<known, header, store, json, cached>>
bounds == <<version, events, saves>>
vars   == <<files, pc, handle, memory, bounds, overlap>>

None == "none"
Empty == <<None, None>>

Locations ==
  {"down", "query", "open", "header", "body", "fetch", "create", "first", "rest", "close",
   "unlink", "rename", "done"}

\* A save() is between fopen() and rename().
Saving == {"first", "rest", "close", "unlink", "rename"}

Init ==
  /\ path = 0 /\ tmp = 0 /\ half = [i \in Inodes |-> Empty] /\ cut = {}
  /\ pc = [p \in Processes |-> "down"] /\ handle = [p \in Processes |-> 0]
  /\ version \in [Processes -> Versions]
  /\ known = [p \in Processes |-> 0]
  /\ header = [p \in Processes |-> None]
  /\ store = [p \in Processes |-> None] /\ json = [p \in Processes |-> None]
  /\ cached = [p \in Processes |-> FALSE]
  /\ events = 0 /\ saves = 0 /\ overlap = FALSE

Goto(p, from, to) == pc[p] = from /\ pc' = [pc EXCEPT ![p] = to]
Close(p) == handle' = [handle EXCEPT ![p] = 0]

Event == events < MaxEvents /\ events' = events + 1

Forget(p) ==
  /\ known' = [known EXCEPT ![p] = 0] /\ header' = [header EXCEPT ![p] = None]
  /\ store' = [store EXCEPT ![p] = None] /\ json' = [json EXCEPT ![p] = None]
  /\ cached' = [cached EXCEPT ![p] = FALSE]

-----------------------------------------------------------------------------
(* configure(): the device and the cache.                                  *)

\* open() of the bus.
Start(p) ==
  /\ Goto(p, "down", "query")
  /\ UNCHANGED <<files, handle, memory, bounds, overlap>>

\* One QUERY_DEVICE_INFO, no retry: without an answer the version known stays.
Query(p) ==
  /\ Goto(p, "query", "open")
  /\ known' = [known EXCEPT ![p] = version[p]] \/ UNCHANGED known
  /\ cached' = [cached EXCEPT ![p] = FALSE]
  /\ UNCHANGED <<files, handle, header, store, json, bounds, overlap>>

\* load(): a miss if there is no file.
LoadOpen(p) ==
  /\ Goto(p, "open", IF path = 0 THEN "fetch" ELSE "header")
  /\ handle' = [handle EXCEPT ![p] = path]
  /\ UNCHANGED <<files, memory, bounds, overlap>>

\* A load() that does not look at the version.
HeaderServesAll(p, h) == h # None

\* The header: unreadable, invalid, or of another firmware than the device's.
HeaderServes(p, h) == h # None /\ (known[p] # 0 => h = known[p])

LoadHeader(p) ==
  /\ pc[p] = "header"
  /\ IF HeaderServes(p, half[handle[p]][1])
        THEN /\ Goto(p, "header", "body") /\ UNCHANGED handle
             /\ header' = [header EXCEPT ![p] = half[handle[p]][1]]
        ELSE Goto(p, "header", "fetch") /\ Close(p) /\ UNCHANGED header
  /\ UNCHANGED <<files, known, store, json, cached, bounds, overlap>>

\* The payload: truncated, not what the CRC was taken of, or a hit ...
BodyServes(p, b) == b = header[p]

\* ... which is imported, if the SDK takes it; desc_json_ stays what it was.
LoadBody(p) ==
  /\ pc[p] = "body" /\ Close(p) /\ header' = [header EXCEPT ![p] = None]
  /\ \/ /\ BodyServes(p, half[handle[p]][2]) /\ Goto(p, "body", "done")
        /\ store' = [store EXCEPT ![p] = half[handle[p]][2]]
        /\ cached' = [cached EXCEPT ![p] = TRUE]
     \/ /\ Goto(p, "body", "fetch")
        /\ UNCHANGED <<store, cached>>
  /\ UNCHANGED <<files, known, json, bounds, overlap>>

\* desc_fetch(): the device is asked, some times.  With shared_hit the SDK gives no
\* bytes, and keeps the descriptor it has or takes one that another context has
\* fetched; an incomplete one is not saved, and a failure leaves what there was.
Fetch(p) ==
  \/ /\ Goto(p, "fetch", "create")
     /\ store' = [store EXCEPT ![p] = version[p]] /\ json' = [json EXCEPT ![p] = version[p]]
     /\ UNCHANGED <<files, handle, known, header, cached, bounds, overlap>>
  \/ /\ Goto(p, "fetch", "done")
     /\ store' \in {store, [store EXCEPT ![p] = version[p]]} /\ json' = [json EXCEPT ![p] = None]
     /\ UNCHANGED <<files, handle, known, header, cached, bounds, overlap>>

-----------------------------------------------------------------------------
(* save().  Whatever fails in it is a warning.                             *)

Named(i) == i \in {path, tmp}
Free == {i \in Inodes : ~Named(i) /\ \A p \in Processes : handle[p] # i}
\* The file that an fopen("wb") of a name empties: a new one if the name is free.
NewFile == CHOOSE i \in Free : TRUE
Creates(name) == IF name # 0 THEN {name} ELSE {i \in Free : i = NewFile}

\* A save() that writes to the file itself.
CreateInPlace(p) ==
  /\ Goto(p, "create", "first") /\ saves < MaxSaves /\ saves' = saves + 1
  /\ \E i \in Creates(path) :
       /\ path' = i /\ handle' = [handle EXCEPT ![p] = i]
       /\ half' = [half EXCEPT ![i] = Empty] /\ cut' = cut \ {i}
  /\ overlap' = (overlap \/ \E q \in Processes : pc[q] \in Saving)
  /\ UNCHANGED <<tmp, memory, version, events>>

\* fopen("wb") of the temporary file, which may be there, and open in another process.
Create(p) ==
  /\ Goto(p, "create", "first") /\ saves < MaxSaves /\ saves' = saves + 1
  /\ \E i \in Creates(tmp) :
       /\ tmp' = i /\ handle' = [handle EXCEPT ![p] = i]
       /\ half' = [half EXCEPT ![i] = Empty] /\ cut' = cut \ {i}
  /\ overlap' = (overlap \/ \E q \in Processes : pc[q] \in Saving)
  /\ UNCHANGED <<path, memory, version, events>>

CreateFails(p) ==
  /\ Goto(p, "create", "done")
  /\ UNCHANGED <<files, handle, memory, bounds, overlap>>

Write(p, from, to, n) ==
  /\ pc[p] = from /\ Goto(p, from, to)
  /\ half' = [half EXCEPT ![handle[p]][n] = json[p]]
  /\ UNCHANGED <<path, tmp, cut, handle, memory, bounds, overlap>>

\* fwrite() fails: the temporary file is removed, whoever has made it.
WriteFails(p) ==
  /\ pc[p] \in {"first", "rest"} /\ pc' = [pc EXCEPT ![p] = "done"]
  /\ tmp' = 0 /\ Close(p)
  /\ UNCHANGED <<path, half, cut, memory, bounds, overlap>>

\* What is left of a file that has lost its end.
Short(i) == {<<half[i][1], None>>, Empty}

\* fclose() writes what is in the buffer, or fails to; save() does not ask.
CloseTmp(p) ==
  /\ Goto(p, "close", "unlink") /\ Close(p)
  /\ \/ UNCHANGED <<half, cut>>
     \/ \E left \in Short(handle[p]) : half' = [half EXCEPT ![handle[p]] = left]
                                     /\ cut' = cut \cup {handle[p]}
  /\ UNCHANGED <<path, tmp, memory, bounds, overlap>>

Unlink(p) ==
  /\ Goto(p, "unlink", "rename") /\ path' = 0
  /\ UNCHANGED <<tmp, half, cut, handle, memory, bounds, overlap>>

\* rename() fails if another process has taken the temporary file.
Rename(p) ==
  /\ Goto(p, "rename", "done")
  /\ IF tmp # 0 THEN path' = tmp /\ tmp' = 0 ELSE UNCHANGED <<path, tmp>>
  /\ UNCHANGED <<half, cut, handle, memory, bounds, overlap>>

-----------------------------------------------------------------------------
(* A bus that is open, between two calls of configure().                   *)

\* import_descriptor() with the bytes of a descriptor, then configure_buses().
Import(p) ==
  /\ Event
  /\ Goto(p, "done", "query")
  /\ \E d \in Versions : store' = [store EXCEPT ![p] = d] /\ json' = [json EXCEPT ![p] = d]
  /\ cached' = [cached EXCEPT ![p] = FALSE]
  /\ UNCHANGED <<files, handle, known, header, version, saves, overlap>>

\* ... with bytes the SDK rejects, after it has dropped what it had: desc_json_ is put
\* back, if there is one.
ImportRejected(p) ==
  /\ Event
  /\ Goto(p, "done", IF json[p] # None THEN "query" ELSE "done")
  /\ store' = [store EXCEPT ![p] = json[p]] /\ UNCHANGED json
  /\ cached' = [cached EXCEPT ![p] = FALSE]
  /\ UNCHANGED <<files, handle, known, header, version, saves, overlap>>

\* Some other reason to configure again, or the bus is closed.
Reconfigure(p) ==
  /\ \/ Goto(p, "done", "query") /\ UNCHANGED memory
     \/ Goto(p, "done", "down") /\ Forget(p)
  /\ UNCHANGED <<files, handle, bounds, overlap>>

\* A new firmware is loaded into the device, by some other tool.
Update(p) ==
  /\ Event
  /\ pc[p] \in {"down", "done"}
  /\ \E v \in Versions \ {version[p]} : version' = [version EXCEPT ![p] = v]
  /\ UNCHANGED <<files, pc, handle, memory, saves, overlap>>

\* The process ends anywhere and takes its memory along; the files stay as they are.
Crash(p) ==
  /\ Event
  /\ pc[p] # "down" /\ pc' = [pc EXCEPT ![p] = "down"] /\ Close(p) /\ Forget(p)
  /\ UNCHANGED <<files, version, saves, overlap>>

\* The machine loses its power: of a file that has a name, what the system had not yet
\* written is gone, and which that is nobody has asked (no fsync()).
PowerLoss ==
  /\ Event
  /\ pc' = [p \in Processes |-> "down"] /\ handle' = [p \in Processes |-> 0]
  /\ known' = [p \in Processes |-> 0] /\ header' = [p \in Processes |-> None]
  /\ store' = [p \in Processes |-> None] /\ json' = [p \in Processes |-> None]
  /\ cached' = [p \in Processes |-> FALSE]
  /\ \E lost \in SUBSET ({path, tmp} \ {0}) : \E gone \in SUBSET lost :
       /\ half' = [i \in Inodes |-> IF i \in gone THEN Empty
                                   ELSE IF i \in lost THEN <<half[i][1], None>> ELSE half[i]]
       /\ cut' = cut \cup lost
  /\ UNCHANGED <<path, tmp, version, saves, overlap>>

ConfigureStep(p) ==
  \/ Query(p) \/ LoadOpen(p) \/ LoadHeader(p) \/ LoadBody(p) \/ Fetch(p)
  \/ Create(p) \/ CreateFails(p)
  \/ Write(p, "first", "rest", 1) \/ Write(p, "rest", "close", 2) \/ WriteFails(p)
  \/ CloseTmp(p) \/ Unlink(p) \/ Rename(p)

Next ==
  \/ PowerLoss
  \/ \E p \in Processes :
    \/ Start(p) \/ ConfigureStep(p)
    \/ Import(p) \/ ImportRejected(p) \/ Reconfigure(p) \/ Update(p) \/ Crash(p)

Spec == Init /\ [][Next]_vars

-----------------------------------------------------------------------------
Whole(i) == half[i][1] # None /\ half[i][1] = half[i][2]

\* After a cache hit the parameters are decoded with the descriptor of the firmware
\* that the device has last reported, although other processes save under the same
\* name, crash half-way, and firmware is updated (load() of jr_desc_cache.cpp).
HitIsForFirmware ==
  \A p \in Processes : cached[p] /\ known[p] # 0 => store[p] = known[p]

\* A crash of a process anywhere in save() leaves the cache whole or leaves none, as
\* long as no two processes save at once and nothing that was written to the file was
\* lost: an fclose() that failed or a loss of power.
CacheIsWhole == ~overlap /\ path \notin cut \cup {0} => Whole(path)

\* The file is whole whatever was lost (避免"写一半断电"留下坏缓存, save()): does not hold,
\* with one process, when its fclose() fails or the machine loses its power.
WholeThroughLosses == ~overlap /\ path # 0 => Whole(path)

\* A rejected import leaves the descriptor that was there ("The previous descriptor was
\* **restored**", import_descriptor()), if it says so.
RestoredIsPrevious ==
  [][\A p \in Processes : ImportRejected(p) /\ json[p] # None => store'[p] = store[p]]_vars
=============================================================================
