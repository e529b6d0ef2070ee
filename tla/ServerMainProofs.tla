-------------------------- MODULE ServerMainProofs --------------------------
(***************************************************************************)
(* Theorems about ServerMain, for any number of workers and of SIGINTs.    *)
(***************************************************************************)
EXTENDS ServerMain, TLAPS

-----------------------------------------------------------------------------
(* The inductive invariant                                                 *)

\* The places of main() before start() stores running_.
Early == {"main", "socket", "bind", "listen", "epoll", "add", "services", "start", "failed"}

\* Before start() there is nothing to stop: the handler, if it runs, returns
\* after its test, and no worker exists.
NothingRuns ==
    mpc \in Early =>
        /\ ~running /\ ~stopped /\ threads = {}
        /\ \A t \in Threads : hpc[t] \in {"none", "test"}
        /\ \A w \in Workers : wpc[w] = "unborn" /\ hpc[w] = "none"

\* Which descriptors are open, by the place main() has reached.
Opened ==
    /\ mpc \in {"main", "socket"} => socket = "none"
    /\ mpc \in {"main", "socket", "bind", "listen", "epoll"} => epoll = "none"
    /\ mpc \in {"add", "services", "start"} => epoll = "open"
    /\ mpc \notin Early => epoll \in {"open", "closed"}

\* A worker that is not in worker_threads_ does not exist yet, is over or is
\* about to be stored there.
AllJoinable ==
    \A w \in Workers : wpc[w] \notin {"unborn", "exited"} => w \in threads \/ w = newborn

\* A worker runs the handler only once main() does, whose stop() leaves
\* running_ false.
MainIsFirst == \A w \in Workers : InHandler(w) => InHandler(Main) \/ ~running

\* SIGINT finds a worker newborn before running_ can become false under it.
NewbornKnown ==
    \A w \in Workers : w = newborn =>
        /\ InHandler(Main) => w \in interrupted
        /\ ~running => w \in interrupted \/ wpc[w] \in {"unborn", "loop", "exited"}

\* Past the store, running_ stays false: start() is not called again.
StoreLasts ==
    \A t \in Threads : hpc[t] \in {"listener", "join", "epoll", "connections"} => ~running

\* Past the joins, no worker gets further than its test of running_, those
\* that start() creates afterwards included, but for the interrupted one.
Idle == \A w \in Workers : wpc[w] \in {"unborn", "loop", "exited"} \/ w \in interrupted

Joined ==
    \/ stopped
    \/ \E t \in Threads : hpc[t] \in {"epoll", "connections"}
    \/ epoll = "closed" /\ mpc # "failed"

JoinedIsIdle == Joined => ~running /\ Idle

IInv ==
    /\ TypeOK
    /\ FailureCleansUp
    /\ NothingRuns
    /\ Opened
    /\ AllJoinable
    /\ MainIsFirst
    /\ NewbornKnown
    /\ StoreLasts
    /\ JoinedIsIdle

-----------------------------------------------------------------------------
LEMMA InitInv == Init => IInv
  <1> SUFFICES ASSUME Init PROVE IInv
    OBVIOUS
  <1>1. TypeOK
    <2>1. sigints \in 0..MaxSigint
      BY SigintAssumption DEF Init
    <2>2. running \in BOOLEAN /\ gServer \in BOOLEAN /\ stopped \in BOOLEAN /\ sigterm \in BOOLEAN
      BY DEF Init
    <2>3. holder \in [Locks -> Threads \cup {Nobody}]
      BY DEF Init
    <2>4. hpc \in [Threads -> {"none", "test", "store", "listener", "join", "epoll", "connections"}]
      BY DEF Init
    <2>5. wpc \in [Workers -> {"unborn", "loop", "wait", "message", "print", "lock", "update", "exited"}]
      BY DEF Init
    <2>6. newborn = Nobody /\ interrupted = {} /\ threads = {}
      BY DEF Init
    <2> QED BY <2>1, <2>2, <2>3, <2>4, <2>5, <2>6 DEF Init, TypeOK, Descriptor
  <1>2. NothingRuns /\ Opened /\ FailureCleansUp
    BY DEF Init, NothingRuns, Opened, FailureCleansUp, Early, Threads
  <1>3. AllJoinable /\ StoreLasts /\ JoinedIsIdle
    BY DEF Init, AllJoinable, StoreLasts, JoinedIsIdle, Joined, Idle
  <1>4. MainIsFirst /\ NewbornKnown
    BY DEF Init, MainIsFirst, NewbornKnown, InHandler, Threads
  <1> QED BY <1>1, <1>2, <1>3, <1>4 DEF IInv

\* The steps of main() before start(), where nothing else can happen.
LEMMA MainEarly ==
    ASSUME IInv, MainBegins \/ CreateSocket \/ BindAndListen \/ CreateEpoll \/ AddListener
                    \/ InitializeFails \/ RegisterServices
    PROVE  IInv'
  <1>1. mpc \in Early /\ mpc' \in Early
    BY DEF MainBegins, CreateSocket, BindAndListen, CreateEpoll, AddListener, InitializeFails,
           RegisterServices, At, Early
  <1>2. UNCHANGED <<hpc, wpc, threads, newborn, interrupted, running, holder, stopped, sigints, sigterm>>
    BY DEF MainBegins, CreateSocket, BindAndListen, CreateEpoll, AddListener, InitializeFails,
           RegisterServices
  <1>3. TypeOK'
    <2>1. socket' \in {socket, "open", "closed"} /\ epoll' \in {epoll, "open", "closed"}
      BY DEF MainBegins, CreateSocket, BindAndListen, CreateEpoll, AddListener, InitializeFails,
             RegisterServices
    <2>2. gServer' = gServer \/ gServer' = TRUE
      BY DEF MainBegins, CreateSocket, BindAndListen, CreateEpoll, AddListener, InitializeFails,
             RegisterServices
    <2>3. mpc' \in {"socket", "bind", "listen", "epoll", "add", "services", "start", "failed"}
      BY DEF MainBegins, CreateSocket, BindAndListen, CreateEpoll, AddListener, InitializeFails,
             RegisterServices, At
    <2>4. gServer' \in BOOLEAN
      BY <2>2 DEF IInv, TypeOK
    <2>5. socket' \in Descriptor /\ epoll' \in Descriptor
      BY <2>1 DEF IInv, TypeOK, Descriptor
    <2> QED BY <1>2, <2>3, <2>4, <2>5 DEF IInv, TypeOK
  <1>4. NothingRuns'
    BY <1>1, <1>2 DEF IInv, NothingRuns
  <1>5. Opened' /\ FailureCleansUp'
    BY DEF IInv, Opened, FailureCleansUp, Early, MainBegins, CreateSocket, BindAndListen,
           CreateEpoll, AddListener, InitializeFails, RegisterServices, At
  <1>6. AllJoinable' /\ StoreLasts' /\ MainIsFirst' /\ NewbornKnown'
    BY <1>1, <1>2 DEF IInv, AllJoinable, StoreLasts, NothingRuns, MainIsFirst, NewbornKnown,
           InHandler
  <1>7. JoinedIsIdle'
    BY <1>1, <1>2, <1>4 DEF NothingRuns, JoinedIsIdle, Idle
  <1> QED BY <1>3, <1>4, <1>5, <1>6, <1>7 DEF IInv

\* start() and the loop of main().
LEMMA MainLate ==
    ASSUME IInv, StartRunning \/ StartReturns \/ LoopAgain \/ ReportStats
    PROVE  IInv'
  <1> DEFINE Late == {"start", "spawn", "loop", "stats", "report", "print", "exited"}
  <1>1. mpc \in Late /\ mpc' \in Late \ {"start"}
    BY DEF StartRunning, StartReturns, LoopAgain, ReportStats, MainLocks, MainUnlocks, At
  <1>2. UNCHANGED <<hpc, wpc, threads, newborn, interrupted, socket, epoll, gServer, stopped, sigints, sigterm>>
    BY DEF StartRunning, StartReturns, LoopAgain, ReportStats, MainLocks, MainUnlocks
  <1>3. running' = running \/ (mpc = "start" /\ running' = TRUE)
    BY DEF StartRunning, StartReturns, LoopAgain, ReportStats, MainLocks, MainUnlocks, At
  <1>4. holder' \in [Locks -> Threads \cup {Nobody}]
    BY DEF IInv, TypeOK, StartRunning, StartReturns, LoopAgain, ReportStats, MainLocks,
           MainUnlocks, Acquire, Release, Main, Threads
  <1>5. TypeOK'
    BY <1>1, <1>2, <1>3, <1>4 DEF IInv, TypeOK
  <1>6. NothingRuns' /\ Opened' /\ FailureCleansUp'
    BY <1>1, <1>2 DEF IInv, NothingRuns, Opened, FailureCleansUp, Early
  <1>7. AllJoinable'
    BY <1>2 DEF IInv, AllJoinable
  <1>8. StoreLasts'
    BY <1>2, <1>3 DEF IInv, StoreLasts, NothingRuns, Early
  <1>10. MainIsFirst' /\ NewbornKnown'
    <2>1. CASE running' = running
      BY <1>2, <2>1 DEF IInv, MainIsFirst, NewbornKnown, InHandler
    <2>2. CASE mpc = "start"
      BY <1>2, <1>3, <2>2 DEF IInv, MainIsFirst, NewbornKnown, InHandler, NothingRuns, Early
    <2> QED BY <1>3, <2>1, <2>2
  <1>9. JoinedIsIdle'
    <2>1. CASE running' = running
      BY <1>1, <1>2, <2>1 DEF IInv, JoinedIsIdle, Joined, Idle
    <2>2. CASE mpc = "start"
      BY <1>2, <2>2 DEF IInv, JoinedIsIdle, Joined, NothingRuns, Opened, Early
    <2> QED BY <1>3, <2>1, <2>2
  <1> QED BY <1>5, <1>6, <1>7, <1>8, <1>9, <1>10 DEF IInv

LEMMA Spawn ==
    ASSUME IInv, NEW w \in Workers, SpawnWorker(w)
    PROVE  IInv'
  <1>1. UNCHANGED <<mpc, hpc, threads, interrupted, running, socket, epoll, holder, gServer,
                    stopped, sigints, sigterm>>
    BY DEF SpawnWorker, At
  <1>2. newborn' = w /\ wpc' = [wpc EXCEPT ![w] = "loop"]
    BY DEF SpawnWorker
  <1>3. TypeOK'
    <2>1. wpc' \in [Workers -> {"unborn", "loop", "wait", "message", "print", "lock", "update", "exited"}]
      BY <1>2 DEF IInv, TypeOK
    <2> QED BY <1>1, <1>2, <2>1 DEF IInv, TypeOK
  <1>4. mpc' \notin Early /\ mpc \notin Early
    BY DEF SpawnWorker, At, Early
  <1>5. NothingRuns' /\ Opened' /\ FailureCleansUp' /\ StoreLasts'
    BY <1>1, <1>4 DEF IInv, NothingRuns, Opened, FailureCleansUp, StoreLasts, Early
  <1>6. AllJoinable'
    BY <1>1, <1>2 DEF IInv, TypeOK, AllJoinable, SpawnWorker, Nobody, Workers
  <1>7. MainIsFirst' /\ NewbornKnown'
    <2>1. ~InHandler(Main)
      BY DEF SpawnWorker, At, Runs
    <2> QED BY <1>1, <1>2, <2>1 DEF IInv, TypeOK, MainIsFirst, NewbornKnown, InHandler
  <1>8. JoinedIsIdle'
    BY <1>1, <1>2 DEF IInv, TypeOK, JoinedIsIdle, Joined, Idle
  <1> QED BY <1>3, <1>5, <1>6, <1>7, <1>8 DEF IInv

LEMMA Store ==
    ASSUME IInv, NEW w \in Workers, StoreWorker(w)
    PROVE  IInv'
  <1>1. UNCHANGED <<mpc, hpc, wpc, interrupted, running, socket, epoll, holder, gServer,
                    stopped, sigints, sigterm>>
    BY DEF StoreWorker, At
  <1>2. threads' = threads \cup {w} /\ newborn = w /\ newborn' = Nobody
    BY DEF StoreWorker
  <1>3. TypeOK'
    BY <1>1, <1>2 DEF IInv, TypeOK
  <1>4. mpc' \notin Early /\ mpc \notin Early
    BY DEF StoreWorker, At, Early
  <1>5. NothingRuns' /\ Opened' /\ FailureCleansUp' /\ StoreLasts'
    BY <1>1, <1>4 DEF IInv, NothingRuns, Opened, FailureCleansUp, StoreLasts, Early
  <1>6. AllJoinable' /\ JoinedIsIdle'
    BY <1>1, <1>2 DEF IInv, AllJoinable, JoinedIsIdle, Joined, Idle
  <1>7. MainIsFirst' /\ NewbornKnown'
    BY <1>1, <1>2 DEF IInv, MainIsFirst, NewbornKnown, InHandler, Nobody, Workers
  <1> QED BY <1>3, <1>5, <1>6, <1>7 DEF IInv

\* A worker past its test of running_ is one that stop() will join, or newborn.
LEMMA WorkerKeeps ==
    ASSUME IInv, NEW w \in Workers, WorkerStep(w)
    PROVE  IInv'
  <1> DEFINE Busy == {"wait", "message", "print", "lock", "update"}
  <1>1. UNCHANGED <<mpc, hpc, threads, newborn, interrupted, running, socket, epoll, gServer,
                    stopped, sigints, sigterm>>
    BY DEF WorkerStep, ReadRunning, WaitEnds, LockToPrint, PrintEnds, LockToUpdate, Update, WorkerAt
  <1>2. PICK there \in {"loop", "exited"} \cup Busy :
            /\ wpc[w] \in {"loop"} \cup Busy
            /\ wpc' = [wpc EXCEPT ![w] = there]
            /\ wpc[w] = "loop" => there = IF running THEN "wait" ELSE "exited"
    BY DEF WorkerStep, ReadRunning, WaitEnds, LockToPrint, PrintEnds, LockToUpdate, Update, WorkerAt
  <1>3. holder' \in [Locks -> Threads \cup {Nobody}]
    BY DEF IInv, TypeOK, WorkerStep, ReadRunning, WaitEnds, LockToPrint, PrintEnds, LockToUpdate,
           Update, Acquire, Release, Threads
  <1>4. TypeOK'
    BY <1>1, <1>2, <1>3 DEF IInv, TypeOK
  <1>5. mpc \notin Early
    BY <1>2 DEF IInv, NothingRuns
  <1>6. NothingRuns' /\ Opened' /\ FailureCleansUp' /\ StoreLasts'
    BY <1>1, <1>5 DEF IInv, NothingRuns, Opened, FailureCleansUp, StoreLasts, Early
  <1>7. AllJoinable'
    BY <1>1, <1>2 DEF IInv, TypeOK, AllJoinable
  <1>8. JoinedIsIdle'
    BY <1>1, <1>2 DEF IInv, TypeOK, JoinedIsIdle, Joined, Idle
  <1>9. MainIsFirst' /\ NewbornKnown'
    BY <1>1, <1>2 DEF IInv, TypeOK, MainIsFirst, NewbornKnown, InHandler
  <1> QED BY <1>4, <1>6, <1>7, <1>8, <1>9 DEF IInv

LEMMA SignalKeeps ==
    ASSUME IInv, DeliverSigterm \/ \E t \in Threads : DeliverSigint(t)
    PROVE  IInv'
  <1>1. UNCHANGED <<mpc, wpc, threads, newborn, running, socket, epoll, holder, gServer, stopped>>
    BY DEF DeliverSigterm, DeliverSigint
  <1>2. /\ hpc' \in [Threads -> {"none", "test", "store", "listener", "join", "epoll", "connections"}]
        /\ \A t \in Threads : hpc'[t] = hpc[t] \/ hpc'[t] = "test"
    BY DEF IInv, TypeOK, DeliverSigterm, DeliverSigint
  <1>3. sigints' \in 0..MaxSigint /\ sigterm' \in BOOLEAN
    <2>1. CASE DeliverSigterm
      BY <2>1 DEF IInv, TypeOK, DeliverSigterm
    <2>2. CASE \E t \in Threads : DeliverSigint(t)
      BY <2>2, SigintAssumption DEF IInv, TypeOK, DeliverSigint
    <2> QED BY <2>1, <2>2
  <1>4. interrupted' \in SUBSET Workers /\ interrupted \subseteq interrupted'
    BY DEF IInv, TypeOK, DeliverSigterm, DeliverSigint
  <1>5. TypeOK'
    BY <1>1, <1>2, <1>3, <1>4 DEF IInv, TypeOK
  <1>6. Opened' /\ FailureCleansUp' /\ AllJoinable' /\ StoreLasts' /\ JoinedIsIdle'
    BY <1>1, <1>2, <1>4 DEF IInv, Opened, FailureCleansUp, AllJoinable, StoreLasts, JoinedIsIdle,
       Joined, Idle
  <1>7. NothingRuns' /\ MainIsFirst' /\ NewbornKnown'
    <2>1. CASE DeliverSigterm
      BY <1>1, <2>1 DEF IInv, NothingRuns, MainIsFirst, NewbornKnown, InHandler, DeliverSigterm
    <2>2. ASSUME NEW t \in Threads, DeliverSigint(t)
          PROVE  NothingRuns' /\ MainIsFirst' /\ NewbornKnown'
      <3>1. hpc' = [hpc EXCEPT ![t] = "test"]
        BY <2>2 DEF DeliverSigint
      <3>2. t # Main => InHandler(Main) /\ wpc[t] # "unborn"
        BY <2>2 DEF DeliverSigint, Interruptible
      <3>3. t = Main => interrupted' = interrupted \cup ({newborn} \cap Workers)
        BY <2>2 DEF DeliverSigint
      <3>4. t # Main => t \in Workers
        BY DEF Threads
      <3>5. Main \notin Workers /\ Main \in Threads /\ Workers \subseteq Threads
        BY DEF Main, Workers, Threads
      <3>6. NothingRuns'
        BY <1>1, <3>1, <3>2, <3>4, <3>5 DEF IInv, TypeOK, NothingRuns
      <3>7. MainIsFirst'
        BY <1>1, <3>1, <3>2, <3>4, <3>5 DEF IInv, TypeOK, MainIsFirst, InHandler
      <3>8. NewbornKnown'
        BY <1>1, <1>4, <3>1, <3>2, <3>3, <3>5 DEF IInv, TypeOK, NewbornKnown, InHandler
      <3> QED BY <3>6, <3>7, <3>8
    <2> QED BY <2>1, <2>2
  <1> QED BY <1>5, <1>6, <1>7 DEF IInv

\* Only a handler that has found running_ true gets past its test, and only
\* one that has joined every worker gets past the joins.
LEMMA HandlerKeeps ==
    ASSUME IInv, NEW t \in Threads, HandlerStep(t)
    PROVE  IInv'
  <1>1. TypeOK'
    <2>1. UNCHANGED <<wpc, newborn, interrupted, holder, gServer, sigints, sigterm>>
      BY DEF HandlerStep, TestRunning, ClearRunning, CloseListener, JoinThreads, JoinSelf, JoinTwice,
         CloseEpoll, CloseConnections, HandlerAt
    <2>2. hpc' \in [Threads -> {"none", "test", "store", "listener", "join", "epoll", "connections"}]
      BY DEF IInv, TypeOK, HandlerStep, TestRunning, ClearRunning, CloseListener, JoinThreads,
         JoinSelf, JoinTwice, CloseEpoll, CloseConnections, HandlerAt
    <2>3. mpc' \in {mpc, "aborted"} /\ threads' \in {threads, {}}
      BY DEF HandlerStep, TestRunning, ClearRunning, CloseListener, JoinThreads, JoinSelf, JoinTwice,
         CloseEpoll, CloseConnections
    <2>4. running' \in BOOLEAN /\ stopped' \in BOOLEAN
      BY DEF IInv, TypeOK, HandlerStep, TestRunning, ClearRunning, CloseListener, JoinThreads, JoinSelf, JoinTwice,
         CloseEpoll, CloseConnections
    <2>5. socket' \in {socket, "closed"} /\ epoll' \in {epoll, "closed"}
      BY DEF HandlerStep, TestRunning, ClearRunning, CloseListener, JoinThreads, JoinSelf, JoinTwice,
         CloseEpoll, CloseConnections
    <2> QED BY <2>1, <2>2, <2>3, <2>4, <2>5 DEF IInv, TypeOK, Descriptor
  <1>5. Main \notin Workers /\ Main \in Threads /\ Workers \subseteq Threads
    BY DEF Main, Workers, Threads
  <1>2. CASE TestRunning(t)
    <2>1. UNCHANGED <<mpc, wpc, threads, newborn, interrupted, running, socket, epoll, stopped>>
      BY <1>2 DEF TestRunning, HandlerAt
    <2>2. /\ hpc[t] = "test"
          /\ hpc' = [hpc EXCEPT ![t] = IF running THEN "store" ELSE "none"]
      BY <1>2 DEF TestRunning, HandlerAt
    <2>3. NothingRuns' /\ Opened' /\ FailureCleansUp' /\ AllJoinable' /\ StoreLasts'
      BY <2>1, <2>2 DEF IInv, TypeOK, NothingRuns, Opened, FailureCleansUp, AllJoinable, StoreLasts
    <2>4. JoinedIsIdle'
      BY <2>1, <2>2 DEF IInv, TypeOK, JoinedIsIdle, Joined, Idle
    <2>5. MainIsFirst' /\ NewbornKnown'
      BY <1>5, <2>1, <2>2 DEF IInv, TypeOK, MainIsFirst, NewbornKnown, InHandler
    <2> QED BY <1>1, <2>3, <2>4, <2>5 DEF IInv
  <1>3. CASE JoinSelf(t) \/ JoinTwice(t)
    <2>1. /\ UNCHANGED <<wpc, threads, newborn, interrupted, running, socket, epoll, stopped>>
          /\ mpc' = "aborted"
      BY <1>3 DEF JoinSelf, JoinTwice, HandlerAt
    <2>2. hpc[t] = "join" /\ hpc' = hpc
      BY <1>3 DEF JoinSelf, JoinTwice, HandlerAt, IInv, TypeOK
    <2>3. mpc \notin Early /\ mpc' \notin Early /\ mpc # "failed"
      BY <2>1, <2>2 DEF IInv, NothingRuns, Early
    <2>4. NothingRuns' /\ Opened' /\ FailureCleansUp' /\ AllJoinable' /\ StoreLasts'
      BY <2>1, <2>2, <2>3 DEF IInv, NothingRuns, Opened, FailureCleansUp, AllJoinable, StoreLasts,
         Early
    <2>5. JoinedIsIdle'
      BY <2>1, <2>2, <2>3 DEF IInv, JoinedIsIdle, Joined, Idle
    <2>6. MainIsFirst' /\ NewbornKnown'
      BY <2>1, <2>2 DEF IInv, MainIsFirst, NewbornKnown, InHandler
    <2> QED BY <1>1, <2>4, <2>5, <2>6 DEF IInv
  <1>4. CASE ClearRunning(t) \/ CloseListener(t) \/ JoinThreads(t) \/ CloseEpoll(t)
               \/ CloseConnections(t)
    <2>1. UNCHANGED <<mpc, wpc, newborn, interrupted>>
      BY <1>4 DEF ClearRunning, CloseListener, JoinThreads, CloseEpoll, CloseConnections, HandlerAt
    <2>2. PICK here, there \in {"none", "store", "listener", "join", "epoll", "connections"} :
              hpc[t] = here /\ here # "none" /\ hpc' = [hpc EXCEPT ![t] = there]
      BY <1>4 DEF ClearRunning, CloseListener, JoinThreads, CloseEpoll, CloseConnections, HandlerAt
    <2>3. mpc \notin Early
      BY <2>2 DEF IInv, NothingRuns
    <2>4. running' = FALSE
      BY <1>4 DEF IInv, StoreLasts, ClearRunning, CloseListener, JoinThreads, CloseEpoll,
         CloseConnections, HandlerAt
    <2>5. NothingRuns' /\ FailureCleansUp' /\ StoreLasts'
      BY <2>1, <2>3, <2>4 DEF NothingRuns, FailureCleansUp, StoreLasts, Early
    <2>6. Opened'
      BY <1>4, <2>1, <2>3 DEF IInv, Opened, Early, ClearRunning, CloseListener, JoinThreads,
         CloseEpoll, CloseConnections
    <2>9. MainIsFirst' /\ NewbornKnown'
      <3>1. MainIsFirst'
        BY <2>4 DEF MainIsFirst
      <3>2. ASSUME NEW w \in Workers, w = newborn
            PROVE  w \in interrupted \/ wpc[w] \in {"unborn", "loop", "exited"}
        BY <1>5, <2>2, <3>2 DEF IInv, TypeOK, MainIsFirst, NewbornKnown, InHandler, Threads
      <3>3. InHandler(Main)' => InHandler(Main)
        BY <1>5, <2>2 DEF IInv, TypeOK, InHandler
      <3> QED BY <2>1, <3>1, <3>2, <3>3 DEF IInv, NewbornKnown
    <2>7. AllJoinable'
      BY <1>4, <2>1 DEF IInv, AllJoinable, ClearRunning, CloseListener, JoinThreads, CloseEpoll,
         CloseConnections
    <2>8. JoinedIsIdle'
      <3>1. CASE JoinThreads(t)
        <4>1. Idle
          <5>1. ~running
            BY <3>1 DEF IInv, StoreLasts, JoinThreads, HandlerAt
          <5> QED BY <3>1, <5>1 DEF IInv, AllJoinable, NewbornKnown, Idle, JoinThreads
        <4> QED BY <2>1, <2>4, <4>1 DEF JoinedIsIdle, Idle
      <3>2. CASE ~JoinThreads(t)
        <4>1. Joined' => Joined
          BY <1>4, <2>1, <2>3, <3>2 DEF IInv, TypeOK, Joined, ClearRunning, CloseListener,
             CloseEpoll, CloseConnections, HandlerAt
        <4> QED BY <2>1, <2>4, <4>1 DEF IInv, JoinedIsIdle, Idle
      <3> QED BY <3>1, <3>2
    <2> QED BY <1>1, <2>5, <2>6, <2>7, <2>8, <2>9 DEF IInv
  <1> QED BY <1>2, <1>3, <1>4 DEF HandlerStep

LEMMA NextInv == IInv /\ [Next]_vars => IInv'
  <1> SUFFICES ASSUME IInv, [Next]_vars PROVE IInv'
    OBVIOUS
  <1>1. CASE MainStep
    BY <1>1, MainEarly, MainLate, Spawn, Store DEF MainStep
  <1>2. ASSUME NEW w \in Workers, WorkerStep(w) PROVE IInv'
    BY <1>2, WorkerKeeps
  <1>3. ASSUME NEW t \in Threads, HandlerStep(t) PROVE IInv'
    BY <1>3, HandlerKeeps
  <1>4. CASE DeliverSigterm \/ \E t \in Threads : DeliverSigint(t)
    BY <1>4, SignalKeeps
  <1>5. CASE Over \/ UNCHANGED vars
    <2>1. UNCHANGED vars
      BY <1>5 DEF Over
    <2> QED BY <2>1 DEF vars, IInv, TypeOK, FailureCleansUp, NothingRuns, Opened, AllJoinable,
        MainIsFirst, NewbornKnown, InHandler, StoreLasts, JoinedIsIdle, Joined, Idle
  <1> QED BY <1>1, <1>2, <1>3, <1>4, <1>5 DEF Next

LEMMA Invariant == Spec => []IInv
  BY InitInv, NextInv, PTL DEF Spec

-----------------------------------------------------------------------------
\* Every variable of the process keeps its type.
THEOREM ServerTypeCorrect == Spec => []TypeOK
  BY Invariant, PTL DEF IInv

\* Whichever call of initialize() fails, main() returns with no descriptor
\* left open, a signal at any moment included.
THEOREM StartupFailureCleansUp == Spec => []FailureCleansUp
  BY Invariant, PTL DEF IInv

\* The epoll instance is open as long as a worker may wait on it, but for one
\* that SIGINT finds started and not yet in worker_threads_.
THEOREM WaitersHaveEpoll == Spec => []EpollOutlivesWaiters
  <1>1. IInv => EpollOutlivesWaiters
    BY DEF IInv, NothingRuns, Opened, JoinedIsIdle, Joined, Idle, EpollOutlivesWaiters, Early
  <1> QED BY <1>1, Invariant, PTL
=============================================================================
