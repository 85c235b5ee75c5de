----------------------------- MODULE TickPause -----------------------------
(***************************************************************************)
(* The safe-pause protocol of rt::TickGroup in internal tick mode: how the *)
(* SDK context goes from the tick thread to a ROS thread that needs a      *)
(* blocking call, and back (src/jr_ros2/src/rt/jr_tick_group.cpp).         *)
(*                                                                         *)
(* The four flags are the std::atomic<bool> members of TickGroup; every    *)
(* action below performs at most one access to one of them that another    *)
(* thread could observe or disturb, so all interleavings of pause(),       *)
(* resume(), start(), stop() and thread_main() are explored.  What a cycle *)
(* or a blocking call does with the context is not modelled here: only the *)
(* fact that a thread is inside it.                                        *)
(***************************************************************************)
EXTENDS Naturals, FiniteSets

CONSTANTS
  Clients,     \* ROS threads that open pause windows: service callbacks, the poll timer, lifecycle callbacks
  Lifecycle,   \* the clients that also run start() and stop() (the lifecycle transitions)
  Group,       \* [Clients -> callback group]; the executor runs one callback of a group at a time
  CanTimeout   \* TRUE: the poll in pause() may reach its deadline

ASSUME ClientsAssumption ==
  /\ Lifecycle \subseteq Clients
  /\ "tick" \notin Clients
  /\ Group \in [Clients -> Clients]
  /\ CanTimeout \in BOOLEAN

VARIABLES
  running,     \* running_
  stopReq,     \* stop_requested_
  request,     \* pause_request_
  ready,       \* pause_ready_
  release,     \* pause_release_
  tpc,         \* where the tick thread is
  paused,      \* its local variable `paused`
  cpc,         \* where each client is
  overlapped   \* history: callbacks of the clients have met since the protocol was last at rest

flags == <<running, stopReq, request, ready, release>>
vars  == <<running, stopReq, request, ready, release, tpc, paused, cpc, overlapped>>

TickLocations ==
  {"off", "loop", "test", "cycle", "enterPause", "signal", "hold",
   "leavePause", "clearReady", "clearRequest", "clearRelease"}

ClientLocations ==
  {"idle", "peek", "checkRunning", "checkReady", "setRelease", "setRequest", "poll",
   "owner", "inContext", "stopRelease", "join"}

\* Who is inside the SDK context at this moment.
TickInContext   == tpc \in {"cycle", "enterPause", "leavePause"}
InContext(c)    == cpc[c] = "inContext"
InWindow(c)     == cpc[c] \in {"owner", "inContext"}

Init ==
  /\ running = FALSE /\ stopReq = FALSE
  /\ request = FALSE /\ ready = FALSE /\ release = FALSE
  /\ tpc = "off" /\ paused = FALSE
  /\ cpc = [c \in Clients |-> "idle"]
  /\ overlapped = FALSE

-----------------------------------------------------------------------------
(* The tick thread: thread_main().                                         *)

TickGoto(from, to) == tpc = from /\ tpc' = to

\* while (!stop_requested_): the thread returns, whatever `paused` is.
LoopTest ==
  /\ TickGoto("loop", IF stopReq THEN "off" ELSE "test")
  /\ UNCHANGED <<flags, paused, cpc, overlapped>>

\* if (pause_request_ && !paused) enter_pause(); if (paused) ...; else run_cycle().
PauseTest ==
  /\ TickGoto("test", IF request /\ ~paused THEN "enterPause"
                      ELSE IF paused THEN "hold" ELSE "cycle")
  /\ UNCHANGED <<flags, paused, cpc, overlapped>>

\* run_cycle() returns.
CycleDone ==
  /\ TickGoto("cycle", "loop")
  /\ UNCHANGED <<flags, paused, cpc, overlapped>>

EnterPauseDone ==
  /\ TickGoto("enterPause", "signal")
  /\ paused' = TRUE
  /\ UNCHANGED <<flags, cpc, overlapped>>

SignalReady ==
  /\ TickGoto("signal", "hold")
  /\ ready' = TRUE
  /\ UNCHANGED <<running, stopReq, request, release, paused, cpc, overlapped>>

\* A parked thread that does not look at pause_release_ before leaving.
ReleaseTestSkipped ==
  /\ TickGoto("hold", "leavePause")
  /\ UNCHANGED <<flags, paused, cpc, overlapped>>

\* if (!pause_release_) continue;
ReleaseTest ==
  /\ TickGoto("hold", IF release THEN "leavePause" ELSE "loop")
  /\ UNCHANGED <<flags, paused, cpc, overlapped>>

LeavePauseDone ==
  /\ TickGoto("leavePause", "clearReady")
  /\ paused' = FALSE
  /\ UNCHANGED <<flags, cpc, overlapped>>

ClearReady ==
  /\ TickGoto("clearReady", "clearRequest")
  /\ ready' = FALSE
  /\ UNCHANGED <<running, stopReq, request, release, paused, cpc, overlapped>>

ClearRequest ==
  /\ TickGoto("clearRequest", "clearRelease")
  /\ request' = FALSE
  /\ UNCHANGED <<running, stopReq, ready, release, paused, cpc, overlapped>>

ClearRelease ==
  /\ TickGoto("clearRelease", "loop")
  /\ release' = FALSE
  /\ UNCHANGED <<running, stopReq, request, ready, paused, cpc, overlapped>>

Tick ==
  \/ LoopTest \/ PauseTest \/ CycleDone
  \/ EnterPauseDone \/ SignalReady \/ ReleaseTest
  \/ LeavePauseDone \/ ClearReady \/ ClearRequest \/ ClearRelease

-----------------------------------------------------------------------------
(* The clients.                                                            *)

ClientGoto(c, from, to) == cpc[c] = from /\ cpc' = [cpc EXCEPT ![c] = to]

\* A mutually exclusive callback group runs one callback at a time.
GroupFree(c) == \A d \in Clients : Group[d] = Group[c] => cpc[d] = "idle"

\* The tick thread is on its way out of a window, or about to enter and leave one.
BeingLeft == running /\ release /\ (request \/ tpc = "clearRelease")

\* Nothing is left of earlier windows: no callback runs, no flag of a pause is set.
AtRest ==
  /\ \A c \in Clients : cpc[c] = "idle"
  /\ ~request /\ ~ready /\ ~paused
  /\ IF running THEN ~stopReq /\ tpc \in {"loop", "test", "cycle"} ELSE tpc = "off"

\* History: a callback begins.  It meets another one when that one still runs, or when
\* the window before is being left; what follows a meeting lasts until all is at rest.
Begins(c, meets) ==
  overlapped' = (\/ meets
                 \/ \E d \in Clients \ {c} : cpc[d] # "idle"
                 \/ overlapped /\ ~AtRest)

\* A callback starts and calls pause().  Services exist from start() on.
PauseCall(c) ==
  /\ GroupFree(c)
  /\ Begins(c, BeingLeft)
  /\ c \in Lifecycle \/ running
  /\ ClientGoto(c, "idle", IF c \in Lifecycle THEN "checkRunning" ELSE "peek")
  /\ UNCHANGED <<flags, tpc, paused>>

\* enter_window() of a service asks the SDK which joints are enabled, then pauses.
PeekDone(c) ==
  /\ ClientGoto(c, "peek", "checkRunning")
  /\ UNCHANGED <<flags, tpc, paused, overlapped>>

\* "not running: the caller owns the context anyway".
PauseCheckRunning(c) ==
  /\ ClientGoto(c, "checkRunning", IF running THEN "checkReady" ELSE "owner")
  /\ UNCHANGED <<flags, tpc, paused, overlapped>>

\* "already paused".
PauseCheckReady(c) ==
  /\ ClientGoto(c, "checkReady", IF ready THEN "owner" ELSE "setRelease")
  /\ UNCHANGED <<flags, tpc, paused, overlapped>>

\* pause() keeps the release of an earlier resume().
PauseKeepsRelease(c) ==
  /\ ClientGoto(c, "setRelease", "setRequest")
  /\ UNCHANGED <<flags, tpc, paused, overlapped>>

PauseSetRelease(c) ==
  /\ ClientGoto(c, "setRelease", "setRequest")
  /\ release' = FALSE
  /\ UNCHANGED <<running, stopReq, request, ready, tpc, paused, overlapped>>

PauseSetRequest(c) ==
  /\ ClientGoto(c, "setRequest", "poll")
  /\ request' = TRUE
  /\ UNCHANGED <<running, stopReq, ready, release, tpc, paused, overlapped>>

PauseReady(c) ==
  /\ ready
  /\ ClientGoto(c, "poll", "owner")
  /\ UNCHANGED <<flags, tpc, paused, overlapped>>

\* kTimeout: the window was not entered, so its Guard never calls resume();
\* the request stays set.
PauseTimeout(c) ==
  /\ CanTimeout
  /\ ClientGoto(c, "poll", "idle")
  /\ UNCHANGED <<flags, tpc, paused, overlapped>>

\* A blocking SDK call on bus(i), made inside the window.
CallBegin(c) ==
  /\ ClientGoto(c, "owner", "inContext")
  /\ UNCHANGED <<flags, tpc, paused, overlapped>>

CallDone(c) ==
  /\ ClientGoto(c, "inContext", "owner")
  /\ UNCHANGED <<flags, tpc, paused, overlapped>>

\* An early return leaves the window and does not say so.
ResumeForgotten(c) ==
  /\ ClientGoto(c, "owner", "idle")
  /\ UNCHANGED <<flags, tpc, paused, overlapped>>

\* resume() gives the window back; it waits for nothing.
Resume(c) ==
  /\ ClientGoto(c, "owner", "idle")
  /\ release' = TRUE
  /\ UNCHANGED <<running, stopReq, request, ready, tpc, paused, overlapped>>

\* start(): no pause flag is reset.
Start(c) ==
  /\ GroupFree(c)
  /\ Begins(c, FALSE)
  /\ ~running
  /\ cpc[c] = "idle" /\ UNCHANGED cpc
  /\ stopReq' = FALSE /\ running' = TRUE
  /\ tpc' = "loop" /\ paused' = FALSE
  /\ UNCHANGED <<request, ready, release>>

\* stop() joins the thread without asking it to stop.
StopWithoutRequest(c) ==
  /\ GroupFree(c)
  /\ Begins(c, FALSE)
  /\ running
  /\ ClientGoto(c, "idle", "stopRelease")
  /\ UNCHANGED <<flags, tpc, paused>>

\* stop(): stop_requested_, then pause_release_, then join().
Stop(c) ==
  /\ GroupFree(c)
  /\ Begins(c, FALSE)
  /\ running
  /\ ClientGoto(c, "idle", "stopRelease")
  /\ stopReq' = TRUE
  /\ UNCHANGED <<running, request, ready, release, tpc, paused>>

StopRelease(c) ==
  /\ ClientGoto(c, "stopRelease", "join")
  /\ release' = TRUE
  /\ UNCHANGED <<running, stopReq, request, ready, tpc, paused, overlapped>>

StopJoin(c) ==
  /\ tpc = "off"
  /\ ClientGoto(c, "join", "idle")
  /\ running' = FALSE
  /\ UNCHANGED <<stopReq, request, ready, release, tpc, paused, overlapped>>

\* The steps of pause() that its caller takes without waiting for anybody.
PauseStep(c) ==
  \/ PeekDone(c) \/ PauseCheckRunning(c) \/ PauseCheckReady(c)
  \/ PauseSetRelease(c) \/ PauseSetRequest(c) \/ PauseReady(c)

StopStep(c) == StopRelease(c) \/ StopJoin(c)

Client(c) ==
  \/ PauseCall(c) \/ PauseStep(c) \/ PauseTimeout(c)
  \/ CallBegin(c) \/ CallDone(c) \/ Resume(c)
  \/ c \in Lifecycle /\ (Start(c) \/ Stop(c) \/ StopStep(c))

Next == Tick \/ \E c \in Clients : Client(c)

Spec == Init /\ [][Next]_vars

(* The tick thread is scheduled (SCHED_FIFO) and its cycles are bounded; a *)
(* callback that entered a function goes on executing it; resume() is run  *)
(* by the destructor of the window's Guard.  Nobody has to open a window,  *)
(* to start or to stop.                                                    *)
TickFairness   == WF_vars(Tick)
PauseFairness  == \A c \in Clients : WF_vars(PauseStep(c)) /\ WF_vars(StopStep(c))
CallFairness   == \A c \in Clients : WF_vars(CallDone(c))
ResumeFairness == \A c \in Clients : SF_vars(Resume(c))

FairSpec == Spec /\ TickFairness /\ PauseFairness /\ CallFairness /\ ResumeFairness

-----------------------------------------------------------------------------
\* The values of the variables.
TypeOK ==
  /\ running \in BOOLEAN /\ stopReq \in BOOLEAN
  /\ request \in BOOLEAN /\ ready \in BOOLEAN /\ release \in BOOLEAN
  /\ tpc \in TickLocations
  /\ paused \in BOOLEAN
  /\ cpc \in [Clients -> ClientLocations]
  /\ overlapped \in BOOLEAN

\* While a client runs a blocking SDK call in its window, the tick thread does
\* not touch the context: it is parked (or there is no tick thread), unless callbacks
\* have met since the protocol was last at rest.
ParkedWhileCalled ==
  ~overlapped => \A c \in Clients : InContext(c) => ~TickInContext

-----------------------------------------------------------------------------
(* Why ParkedWhileCalled holds: the inductive invariant of the protocol    *)
(* between two meetings of callbacks.                                      *)

\* One client at a time is out of "idle".
OneBusy ==
  \A c, d \in Clients : cpc[c] # "idle" /\ cpc[d] # "idle" => c = d

\* What the flags and the local variable say about where the tick thread is.
TickPlaces ==
  /\ ~running => tpc = "off"
  /\ running /\ stopReq => \E c \in Clients : cpc[c] \in {"stopRelease", "join"}
  /\ running /\ tpc = "off" => stopReq
  /\ tpc \in {"signal", "hold", "leavePause"} => paused
  /\ tpc \in {"cycle", "enterPause", "clearReady", "clearRequest", "clearRelease"} => ~paused
  /\ paused \/ ready \/ tpc \in {"enterPause", "clearReady", "clearRequest"} => request
  /\ tpc \in {"leavePause", "clearReady", "clearRequest", "clearRelease"} => release
  /\ tpc \in {"cycle", "clearRequest", "clearRelease"} => ~ready
  /\ tpc = "clearRelease" => ~request

\* A standing "ready" means parked, or a window that is being left.
ReadyMeansParked ==
  running /\ ready /\ ~release => paused /\ tpc \in {"loop", "test", "hold", "off"}

\* A stopped group keeps no request that nobody would release.
NoRequestKept ==
  /\ ~running /\ request => release
  /\ \A c \in Clients : cpc[c] = "join" /\ request => release

\* Where a client is in pause() and in its window.
ClientPlaces ==
  \A c \in Clients :
    /\ cpc[c] \in {"peek", "checkRunning", "checkReady", "setRelease"} => ~BeingLeft
    /\ cpc[c] \in {"checkReady", "setRelease", "setRequest", "poll"} => running
    /\ cpc[c] \in {"setRequest", "poll"} => ~release
    /\ cpc[c] \in {"stopRelease", "join"} => stopReq /\ running
    /\ InWindow(c) /\ running => ready /\ ~release

\* The flags, the local variable and the program counters fit together.
Protocol ==
  OneBusy /\ TickPlaces /\ ReadyMeansParked /\ NoRequestKept /\ ClientPlaces

ProtocolInv == ~overlapped => Protocol

\* No two ROS threads are inside the same context (one context, one thread), between
\* two meetings.
OneCaller ==
  ~overlapped => \A c, d \in Clients : InContext(c) /\ InContext(d) => c = d

\* The protocol implements the hand-over of ContextOwnership: a client owns the
\* context from the answer of pause() to resume(), the tick thread otherwise.
Holder ==
  IF \E c \in Clients : InWindow(c) THEN CHOOSE c \in Clients : InWindow(c) ELSE "tick"
Inside ==
  {c \in Clients : InContext(c)} \cup (IF TickInContext THEN {"tick"} ELSE {})

Ownership == INSTANCE ContextOwnership
               WITH Tick <- "tick", owner <- Holder, inside <- Inside, void <- overlapped

\* Every step of the protocol is a step of ContextOwnership, or none.
OwnershipSpec == Ownership!Spec

\* pause() needs no deadline to return: the tick thread answers a client that
\* waits (nothing makes the client give up, which it only may), unless another
\* callback meets it.
PauseGranted ==
  \A c \in Clients : (cpc[c] = "poll" /\ ~overlapped) ~> (cpc[c] # "poll" \/ overlapped)

\* stop() returns, also when the thread is parked in a pause.
StopReturns ==
  \A c \in Clients : (cpc[c] = "join") ~> (cpc[c] = "idle")

\* A window ends: the tick thread goes back to its cycles, or is stopped, after
\* pause() was answered, unless another callback meets the one that opened it.  Of a
\* pause() that timed out nothing is said: its request stays, and the thread may park
\* for nobody.
WindowsEnd ==
  (running /\ ~overlapped /\ \E c \in Clients : InWindow(c)) ~> (~running \/ ~paused \/ overlapped)
=============================================================================
