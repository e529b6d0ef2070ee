----------------------------- MODULE ServerMain -----------------------------
(***************************************************************************)
(* The server process (src/src/main.cpp): main() with HFTServer's          *)
(* initialize() and start(), the statistics loop, and signal_handler,      *)
(* which calls stop() on whatever thread the kernel interrupts.            *)
(*                                                                         *)
(* The kernel gives a signal to the main thread unless that thread blocks  *)
(* it, as it does while it runs the handler of the same signal; then a     *)
(* worker gets it.  An interrupted thread goes on only after the handler   *)
(* has returned, and keeps the mutexes it holds.  The workers are those of *)
(* HFTServer, reduced to the tests of running_, the epoll instance and the *)
(* locks they share with main(): stats_mutex_, and stdout's, which         *)
(* std::cout takes for every piece of output.                              *)
(*                                                                         *)
(* Definitions marked "Fault" are not part of the specification: they are  *)
(* the next definition with a bug that some property has to catch.         *)
(***************************************************************************)
EXTENDS Integers

CONSTANTS
    N,            \* thread_count_
    MaxSigint     \* bound: SIGINTs sent to the process

ASSUME NAssumption == N \in Nat
ASSUME SigintAssumption == MaxSigint \in Nat

Workers == 1..N
Main == 0
Threads == Workers \cup {Main}
Nobody == -1
Locks == {"stats", "stdout"}

VARIABLES
    mpc,          \* where main() is
    hpc,          \* hpc[t]: where signal_handler is on thread t
    wpc,          \* where each worker is
    threads,      \* worker_threads_
    newborn,      \* the worker that emplace_back() has started and not yet stored
    interrupted,  \* history: the workers that SIGINT found newborn
    running,      \* running_
    socket,       \* the listening socket
    epoll,        \* the epoll instance
    holder,       \* holder[l]: the thread that holds lock l
    gServer,      \* g_server is not null
    stopped,      \* a call of stop() has run to its end
    sigints,      \* SIGINTs delivered
    sigterm       \* a SIGTERM has been delivered

vars == <<mpc, hpc, wpc, threads, newborn, interrupted, running, socket, epoll, holder,
          gServer, stopped, sigints, sigterm>>

Descriptor == {"none", "open", "closed"}

TypeOK ==
    /\ mpc \in {"main", "socket", "bind", "listen", "epoll", "add", "services", "start",
                "spawn", "loop", "stats", "report", "print", "failed", "exited", "aborted"}
    /\ hpc \in [Threads -> {"none", "test", "store", "listener", "join", "epoll", "connections"}]
    /\ wpc \in [Workers -> {"unborn", "loop", "wait", "message", "print", "lock", "update", "exited"}]
    /\ threads \in SUBSET Workers /\ interrupted \in SUBSET Workers
    /\ newborn \in Workers \cup {Nobody}
    /\ running \in BOOLEAN /\ gServer \in BOOLEAN /\ stopped \in BOOLEAN /\ sigterm \in BOOLEAN
    /\ socket \in Descriptor /\ epoll \in Descriptor
    /\ holder \in [Locks -> Threads \cup {Nobody}]
    /\ sigints \in 0..MaxSigint

Init ==
    /\ mpc = "main"
    /\ hpc = [t \in Threads |-> "none"]
    /\ wpc = [w \in Workers |-> "unborn"]
    /\ threads = {} /\ newborn = Nobody /\ interrupted = {}
    /\ running = FALSE /\ gServer = FALSE /\ stopped = FALSE /\ sigterm = FALSE
    /\ socket = "none" /\ epoll = "none"
    /\ holder = [l \in Locks |-> Nobody]
    /\ sigints = 0

Ended == mpc \in {"failed", "exited", "aborted"}
InHandler(t) == hpc[t] # "none"

\* t can take a step of its own code.
Runs(t) == ~Ended /\ ~InHandler(t)

-----------------------------------------------------------------------------
(* main(), with initialize() and start()                                   *)

At(here, there) == Runs(Main) /\ mpc = here /\ mpc' = there

\* g_server is set and the handlers are installed.
MainBegins ==
    /\ At("main", "socket")
    /\ gServer' = TRUE
    /\ UNCHANGED <<hpc, wpc, threads, newborn, interrupted, running, socket, epoll, holder,
                   stopped, sigints, sigterm>>

CreateSocket ==
    /\ At("socket", "bind")
    /\ socket' = "open"
    /\ UNCHANGED <<hpc, wpc, threads, newborn, interrupted, running, epoll, holder, gServer,
                   stopped, sigints, sigterm>>

BindAndListen ==
    /\ At("bind", "listen") \/ At("listen", "epoll")
    /\ UNCHANGED <<hpc, wpc, threads, newborn, interrupted, running, socket, epoll, holder,
                   gServer, stopped, sigints, sigterm>>

CreateEpoll ==
    /\ At("epoll", "add")
    /\ epoll' = "open"
    /\ UNCHANGED <<hpc, wpc, threads, newborn, interrupted, running, socket, holder, gServer,
                   stopped, sigints, sigterm>>

AddListener ==
    /\ At("add", "services")
    /\ UNCHANGED <<hpc, wpc, threads, newborn, interrupted, running, socket, epoll, holder,
                   gServer, stopped, sigints, sigterm>>

\* Fault: the error path of EPOLL_CTL_ADD forgets the epoll instance.
InitializeFailsHalf ==
    /\ \E step \in {"socket", "bind", "listen", "epoll", "add"} : At(step, "failed")
    /\ socket' = IF mpc = "socket" THEN socket ELSE "closed"
    /\ UNCHANGED <<hpc, wpc, threads, newborn, interrupted, running, epoll, holder, gServer,
                   stopped, sigints, sigterm>>

\* A call of initialize() fails: what is open by then is closed, and main()
\* returns 1; the destructor's stop() finds running_ false.
InitializeFails ==
    /\ \E step \in {"socket", "bind", "listen", "epoll", "add"} : At(step, "failed")
    /\ socket' = IF mpc = "socket" THEN socket ELSE "closed"
    /\ epoll' = IF mpc = "add" THEN "closed" ELSE epoll
    /\ UNCHANGED <<hpc, wpc, threads, newborn, interrupted, running, holder, gServer, stopped,
                   sigints, sigterm>>

RegisterServices ==
    /\ At("services", "start")
    /\ UNCHANGED <<hpc, wpc, threads, newborn, interrupted, running, socket, epoll, holder,
                   gServer, stopped, sigints, sigterm>>

\* start(): running_ is false, nobody having set it before.
StartRunning ==
    /\ At("start", "spawn")
    /\ ~running
    /\ running' = TRUE
    /\ UNCHANGED <<hpc, wpc, threads, newborn, interrupted, socket, epoll, holder, gServer,
                   stopped, sigints, sigterm>>

Unborn == {w \in Workers : wpc[w] = "unborn"}

\* emplace_back(): the thread runs as soon as it is made ...
SpawnWorker(w) ==
    /\ At("spawn", "spawn")
    /\ newborn = Nobody
    /\ w \in Unborn /\ \A v \in Unborn : w <= v
    /\ newborn' = w
    /\ wpc' = [wpc EXCEPT ![w] = "loop"]
    /\ UNCHANGED <<hpc, threads, interrupted, running, socket, epoll, holder, gServer, stopped,
                   sigints, sigterm>>

\* Fault: the loop's index is one too high.
StoreNext(w) ==
    /\ At("spawn", "spawn")
    /\ newborn = w /\ newborn' = Nobody
    /\ threads' = threads \cup {w + 1}
    /\ UNCHANGED <<hpc, wpc, interrupted, running, socket, epoll, holder, gServer, stopped,
                   sigints, sigterm>>

\* ... and is an element of the vector only when that has grown.
StoreWorker(w) ==
    /\ At("spawn", "spawn")
    /\ newborn = w /\ newborn' = Nobody
    /\ threads' = threads \cup {w}
    /\ UNCHANGED <<hpc, wpc, interrupted, running, socket, epoll, holder, gServer, stopped,
                   sigints, sigterm>>

\* The last line of start() is printed like those of the report.
StartReturns ==
    /\ At("spawn", "report")
    /\ Unborn = {} /\ newborn = Nobody
    /\ UNCHANGED <<hpc, wpc, threads, newborn, interrupted, running, socket, epoll, holder,
                   gServer, stopped, sigints, sigterm>>

\* The end of a turn of the loop: "Check if server is still running".
LoopAgain ==
    /\ At("loop", IF gServer THEN "loop" ELSE "exited")
    /\ UNCHANGED <<hpc, wpc, threads, newborn, interrupted, running, socket, epoll, holder,
                   gServer, stopped, sigints, sigterm>>

Acquire(t, l) == holder[l] = Nobody /\ holder' = [holder EXCEPT ![l] = t]
Release(l) == holder' = [holder EXCEPT ![l] = Nobody]

MainLocks(l, here, there) ==
    /\ At(here, there) /\ Acquire(Main, l)
    /\ UNCHANGED <<hpc, wpc, threads, newborn, interrupted, running, socket, epoll, gServer,
                   stopped, sigints, sigterm>>

MainUnlocks(l, here, there) ==
    /\ At(here, there) /\ Release(l)
    /\ UNCHANGED <<hpc, wpc, threads, newborn, interrupted, running, socket, epoll, gServer,
                   stopped, sigints, sigterm>>

\* get_stats() every five seconds, then the lines of the report.
ReportStats ==
    \/ MainLocks("stats", "loop", "stats")
    \/ MainUnlocks("stats", "stats", "report")
    \/ MainLocks("stdout", "report", "print")
    \/ MainUnlocks("stdout", "print", "report")
    \/ MainUnlocks("stdout", "print", "loop")

MainStep ==
    \/ MainBegins \/ CreateSocket \/ BindAndListen \/ CreateEpoll \/ AddListener
    \/ InitializeFails \/ RegisterServices \/ StartRunning
    \/ \E w \in Workers : SpawnWorker(w) \/ StoreWorker(w)
    \/ StartReturns \/ LoopAgain \/ ReportStats

-----------------------------------------------------------------------------
(* A worker                                                                *)

WorkerAt(w, here, there) ==
    /\ Runs(w) /\ wpc[w] = here
    /\ wpc' = [wpc EXCEPT ![w] = there]
    /\ UNCHANGED <<mpc, hpc, threads, newborn, interrupted, running, socket, epoll, gServer,
                   stopped, sigints, sigterm>>

ReadRunning(w) ==
    WorkerAt(w, "loop", IF running THEN "wait" ELSE "exited") /\ UNCHANGED holder

\* epoll_wait() returns with nothing, or with an event whose handling prints.
WaitEnds(w) ==
    /\ WorkerAt(w, "wait", "loop") \/ WorkerAt(w, "wait", "message")
    /\ UNCHANGED holder

LockToPrint(w) == WorkerAt(w, "message", "print") /\ Acquire(w, "stdout")

\* The output of one event counts as one piece; then there are statistics to
\* update or not.
PrintEnds(w) ==
    /\ WorkerAt(w, "print", "lock") \/ WorkerAt(w, "print", "loop")
    /\ Release("stdout")

LockToUpdate(w) == WorkerAt(w, "lock", "update") /\ Acquire(w, "stats")

Update(w) == WorkerAt(w, "update", "loop") /\ Release("stats")

WorkerStep(w) ==
    \/ ReadRunning(w) \/ WaitEnds(w) \/ LockToPrint(w) \/ PrintEnds(w)
    \/ LockToUpdate(w) \/ Update(w)

-----------------------------------------------------------------------------
(* Signals                                                                 *)

\* The handlers are installed, and t is where the kernel delivers SIGINT.
Interruptible(t) ==
    /\ ~Ended /\ gServer
    /\ ~InHandler(t)
    /\ t # Main => InHandler(Main) /\ wpc[t] \notin {"unborn", "exited"}

DeliverSigint(t) ==
    /\ Interruptible(t)
    /\ sigints < MaxSigint
    /\ sigints' = sigints + 1
    /\ hpc' = [hpc EXCEPT ![t] = "test"]
    /\ interrupted' = interrupted \cup (IF t = Main THEN {newborn} \cap Workers ELSE {})
    /\ UNCHANGED <<mpc, wpc, threads, newborn, running, socket, epoll, holder, gServer, stopped,
                   sigterm>>

\* The handler is called for SIGTERM too and does nothing.
DeliverSigterm ==
    /\ ~Ended /\ gServer
    /\ ~sigterm
    /\ sigterm' = TRUE
    /\ UNCHANGED <<mpc, hpc, wpc, threads, newborn, interrupted, running, socket, epoll,
                   holder, gServer, stopped, sigints>>

HandlerAt(t, here, there) ==
    /\ ~Ended /\ hpc[t] = here
    /\ hpc' = [hpc EXCEPT ![t] = there]
    /\ UNCHANGED <<wpc, newborn, interrupted, holder, gServer, sigints, sigterm>>

\* stop(): "if (!running_.load()) return", then the store, as two steps.
TestRunning(t) ==
    /\ HandlerAt(t, "test", IF running THEN "store" ELSE "none")
    /\ UNCHANGED <<mpc, threads, running, socket, epoll, stopped>>

\* Fault: running_ is left alone.
ClearRunningForgotten(t) ==
    /\ HandlerAt(t, "store", "listener")
    /\ UNCHANGED <<mpc, threads, running, socket, epoll, stopped>>

ClearRunning(t) ==
    /\ HandlerAt(t, "store", "listener")
    /\ running' = FALSE
    /\ UNCHANGED <<mpc, threads, socket, epoll, stopped>>

\* Fault: the epoll instance is closed with the listener, before the joins.
CloseListenerAndEpoll(t) ==
    /\ HandlerAt(t, "listener", "join")
    /\ socket' = "closed"
    /\ epoll' = "closed"
    /\ UNCHANGED <<mpc, threads, running, stopped>>

CloseListener(t) ==
    /\ HandlerAt(t, "listener", "join")
    /\ socket' = "closed"
    /\ UNCHANGED <<mpc, threads, running, epoll, stopped>>

JoinThreads(t) ==
    /\ t \notin threads
    /\ \A w \in threads : wpc[w] = "exited"
    /\ HandlerAt(t, "join", "epoll")
    /\ threads' = {}
    /\ UNCHANGED <<mpc, running, socket, epoll, stopped>>

\* A worker that reaches itself in the join() loop: join() throws out of a
\* signal handler and the process is terminated.
JoinSelf(t) ==
    /\ t \in threads
    /\ \A w \in threads : w < t => wpc[w] = "exited"
    /\ HandlerAt(t, "join", "join")
    /\ mpc' = "aborted"
    /\ UNCHANGED <<threads, running, socket, epoll, stopped>>

\* Two handlers in the join() loop: joining a thread that the other is joining
\* throws.
JoinTwice(t) ==
    /\ threads # {}
    /\ \E u \in Threads \ {t} : hpc[u] = "join"
    /\ HandlerAt(t, "join", "join")
    /\ mpc' = "aborted"
    /\ UNCHANGED <<threads, running, socket, epoll, stopped>>

CloseEpoll(t) ==
    /\ HandlerAt(t, "epoll", "connections")
    /\ epoll' = "closed"
    /\ UNCHANGED <<mpc, threads, running, socket, stopped>>

CloseConnections(t) ==
    /\ HandlerAt(t, "connections", "none")
    /\ stopped' = TRUE
    /\ UNCHANGED <<mpc, threads, running, socket, epoll>>

HandlerStep(t) ==
    \/ TestRunning(t) \/ ClearRunning(t) \/ CloseListener(t) \/ JoinThreads(t) \/ JoinSelf(t)
    \/ JoinTwice(t) \/ CloseEpoll(t) \/ CloseConnections(t)

-----------------------------------------------------------------------------
Over == Ended /\ UNCHANGED vars

Next ==
    \/ MainStep
    \/ \E w \in Workers : WorkerStep(w)
    \/ \E t \in Threads : DeliverSigint(t) \/ HandlerStep(t)
    \/ DeliverSigterm
    \/ Over

Spec == Init /\ [][Next]_vars

\* Every thread runs, and a mutex that is free again and again is taken.
FairSpec ==
    /\ Spec
    /\ WF_vars(MainStep)
    /\ \A t \in Threads : WF_vars(HandlerStep(t))
    /\ \A w \in Workers :
        /\ WF_vars(WorkerStep(w))
        /\ SF_vars(LockToPrint(w)) /\ SF_vars(LockToUpdate(w))

-----------------------------------------------------------------------------
(* Properties                                                              *)

\* Whichever call of initialize() fails, main() returns with no descriptor
\* left open.
FailureCleansUp == mpc = "failed" => socket # "open" /\ epoll # "open"

\* The epoll instance is open as long as a worker may wait on it, wherever in
\* start() SIGINT arrives: the workers spawned after stop() get no further than
\* their test of running_.  The exception is a worker that SIGINT found started
\* and not yet stored in worker_threads_.
EpollOutlivesWaiters ==
    \A w \in Workers :
        wpc[w] \in {"wait", "message", "print", "lock", "update"} =>
            epoll = "open" \/ w \in interrupted

\* A stop() that interrupts main() where it holds no lock runs to its end, if
\* no second SIGINT comes: the workers it joins wait for nothing main() holds.
StopCompletes ==
    hpc[Main] = "store" /\ (\A l \in Locks : holder[l] # Main) ~> stopped \/ sigints > 1

\* SIGINT while the server runs stops it ("graceful shutdown", "shutting down
\* gracefully").
SigintStops == running /\ InHandler(Main) ~> stopped \/ sigints > 1
=============================================================================
