----------------------------- MODULE SqlThread ------------------------------
(***************************************************************************)
(* The MySQL module (modules/extra/mysql.cpp): the main thread of the      *)
(* server queues queries and the dispatcher thread runs them.  A step of   *)
(* the model is what a thread does between two operations on a mutex.      *)
(* Thread::Stop (src/thread.cpp) and SocketThread (include/threadsocket.h) *)
(* are the same for the LDAP module, see LdapThread.                       *)
(*                                                                         *)
(* A query object is known by its address, which the allocator may give to *)
(* another query once the object is deleted.  External: the database,      *)
(* which answers every query or fails it.                                  *)
(***************************************************************************)
EXTENDS Naturals, Sequences, Functions, Erasing

CONSTANTS
    Query,      \* queries that modules submit, each once
    SqlCreator,    \* [Query -> module that submits it]
    OnConn,     \* [Query -> database connection it is for]
    Addr        \* addresses of query objects

ASSUME SqlAssumption == Query # {} /\ Addr # {}

NoQuery == [query |-> "none", addr |-> "none"]

NobodyHolds == "nobody"

VARIABLES
    qq,         \* queries that wait: [query, addr]
    rq,         \* queries with a result: [query, addr, of], of the query that ran
    queueLock,  \* the thread that holds the queue's mutex
    connLock,   \* [connection -> the thread that holds its mutex]
    conns,      \* the connections that exist
    worker,     \* what the dispatcher thread does next
    item,       \* i, the query it runs
    main,       \* what the main thread does next
    target,     \* the module or connection of the main thread's operation
    wakeup,     \* NotifyParent() was called
    stopping,   \* Thread::stopping
    unloaded,   \* modules that were unloaded
    calls,      \* history: [query -> what became of it]
    reused      \* history: a query got the address of a deleted one that was running

sqlVars == <<qq, rq, queueLock, connLock, conns, worker, item, main, target, wakeup, stopping,
             unloaded, calls, reused>>

SqlModules == {SqlCreator[q] : q \in Query}

SqlConns == {OnConn[q] : q \in Query}

SqlInit ==
    /\ qq = <<>> /\ rq = <<>>
    /\ queueLock = NobodyHolds
    /\ connLock = [c \in SqlConns |-> NobodyHolds]
    /\ conns = SqlConns
    /\ worker = "start" /\ item = NoQuery
    /\ main = "idle" /\ target = "none"
    /\ wakeup = FALSE /\ stopping = FALSE /\ unloaded = {}
    /\ calls = [q \in Query |-> "unused"]
    /\ reused = FALSE

-----------------------------------------------------------------------------
(* The dispatcher thread: DispatcherThread::OnStart *)

WorkerLocks ==
    /\ worker \in {"start", "woken"}
    /\ queueLock = NobodyHolds
    /\ queueLock' = "worker"
    /\ worker' = "loop"
    /\ UNCHANGED <<qq, rq, connLock, conns, item, main, target, wakeup, stopping, unloaded, calls, reused>>

WorkerStops ==
    /\ worker = "loop" /\ stopping
    /\ queueLock' = NobodyHolds
    /\ worker' = "done"
    /\ UNCHANGED <<qq, rq, connLock, conns, item, main, target, wakeup, stopping, unloaded, calls, reused>>

WaitForQueue ==
    /\ worker = "loop" /\ ~stopping /\ qq = <<>>
    /\ queueLock' = NobodyHolds
    /\ worker' = "waiting"
    /\ UNCHANGED <<qq, rq, connLock, conns, item, main, target, wakeup, stopping, unloaded, calls, reused>>

(* The front of the queue is taken with its connection's lock; the item stays *)
(* in the queue.                                                              *)
WorkerTakes ==
    /\ worker = "loop" /\ ~stopping /\ qq # <<>>
    /\ connLock[OnConn[Head(qq).query]] = NobodyHolds
    /\ item' = Head(qq)
    /\ connLock' = [connLock EXCEPT ![OnConn[Head(qq).query]] = "worker"]
    /\ queueLock' = NobodyHolds
    /\ worker' = "query"
    /\ UNCHANGED <<qq, rq, conns, main, target, wakeup, stopping, unloaded, calls, reused>>

DoBlockingQuery ==
    /\ worker = "query"
    /\ connLock' = [connLock EXCEPT ![OnConn[item.query]] = NobodyHolds]
    /\ worker' = "relock"
    /\ UNCHANGED <<qq, rq, queueLock, conns, item, main, target, wakeup, stopping, unloaded, calls, reused>>

(* The result counts if the query is still at the front of the queue, which *)
(* the code tells from the address.                                         *)
StillThereMutant == qq # <<>>

StillThere == qq # <<>> /\ Head(qq).addr = item.addr

WorkerReports ==
    /\ worker = "relock"
    /\ queueLock = NobodyHolds
    /\ queueLock' = "worker"
    /\ worker' = "loop"
    /\ item' = NoQuery
    /\ IF StillThere
       THEN /\ qq' = Tail(qq)
            /\ rq' = Append(rq, [query |-> Head(qq).query, addr |-> Head(qq).addr, of |-> item.query])
            /\ wakeup' = TRUE
       ELSE UNCHANGED <<qq, rq, wakeup>>
    /\ UNCHANGED <<connLock, conns, main, target, stopping, unloaded, calls, reused>>

-----------------------------------------------------------------------------
(* The main thread *)

InUse == {qq[n].addr : n \in DOMAIN qq} \cup {rq[n].addr : n \in DOMAIN rq}

(* The worker has a pointer to a query, which it compares but does not follow *)
Executing == worker \in {"query", "relock"}

NotifyAll == IF worker = "waiting" THEN "woken" ELSE worker

(* SQLConnection::Submit *)
Submit(q, a) ==
    /\ main = "idle" /\ queueLock = NobodyHolds
    /\ calls[q] = "unused" /\ SqlCreator[q] \notin unloaded /\ OnConn[q] \in conns
    /\ a \notin InUse
    /\ qq' = Append(qq, [query |-> q, addr |-> a])
    /\ calls' = [calls EXCEPT ![q] = "open"]
    /\ worker' = NotifyAll
    /\ reused' = (reused \/ (Executing /\ a = item.addr))
    /\ UNCHANGED <<rq, queueLock, connLock, conns, item, main, target, wakeup, stopping, unloaded>>

(* The calls of OnNotify: every result goes to its query *)
ResultsOf(q) == {e \in Range(rq) : e.query = q}

WithResults(c) ==
    [q \in Query |-> IF ResultsOf(q) = {} THEN c[q]
                     ELSE IF c[q] # "open" THEN "twice"
                     ELSE IF \A e \in ResultsOf(q) : e.of = q THEN "own" ELSE "foreign"]

(* OnError for the queries S *)
WithErrors(c, S) ==
    [q \in Query |-> IF q \notin S THEN c[q] ELSE IF c[q] = "open" THEN "error" ELSE "twice"]

(* ThreadSignalSocket::OnEventHandlerRead and DispatcherThread::OnNotify *)
OnNotify ==
    /\ main = "idle" /\ wakeup /\ queueLock = NobodyHolds
    /\ wakeup' = FALSE
    /\ calls' = WithResults(calls)
    /\ rq' = <<>>
    /\ UNCHANGED <<qq, queueLock, connLock, conns, worker, item, main, target, stopping, unloaded, reused>>

(* An operation that works on the queue begins: ReadConfig without a database *)
(* that was there, or SqlUnload.                                         *)
MainLocks(op, x) ==
    /\ main = "idle" /\ queueLock = NobodyHolds
    /\ queueLock' = "main"
    /\ main' = op
    /\ target' = x
    /\ UNCHANGED <<qq, rq, connLock, conns, worker, item, wakeup, stopping, unloaded, calls, reused>>

ReadConfigStarts(c) == c \in conns /\ MainLocks("rehash", c)

UnloadStarts(m) == m \notin unloaded /\ MainLocks("unload", m)

(* connection->lock is taken and given back: the query that runs is over *)
MayRemove(c) == connLock[c] = NobodyHolds

Waiting(S) == {q \in S : \E e \in Range(qq) : e.query = q}

(* The queue without the entries of the queries S *)
Without(S) == Erased(qq, {e \in Range(qq) : e.query \in S})

(* The rest of ReadConfig: the query that runs on the connection is waited for *)
ReadConfig ==
    LET mine == Waiting({q \in Query : OnConn[q] = target})
    IN  /\ main = "rehash"
        /\ MayRemove(target)
        /\ calls' = WithErrors(calls, mine)
        /\ qq' = Without(mine)
        /\ conns' = conns \ {target}
        /\ queueLock' = NobodyHolds
        /\ main' = "idle" /\ target' = "none"
        /\ UNCHANGED <<rq, connLock, worker, item, wakeup, stopping, unloaded, reused>>

(* SqlUnload up to UnlockQueue.  It takes the lock of the connection at *)
(* the front of the queue and keeps it.                                      *)
SqlUnload ==
    LET mine == Waiting({q \in Query : SqlCreator[q] = target})
        front == qq # <<>> /\ Head(qq).query \in mine
    IN  /\ main = "unload"
        /\ IF front
           THEN /\ connLock[OnConn[Head(qq).query]] = NobodyHolds
                /\ connLock' = [connLock EXCEPT ![OnConn[Head(qq).query]] = "main"]
           ELSE UNCHANGED connLock
        /\ calls' = WithErrors(calls, mine)
        /\ qq' = Without(mine)
        /\ queueLock' = NobodyHolds
        /\ main' = "unlocked"
        /\ UNCHANGED <<rq, conns, worker, item, target, wakeup, stopping, unloaded, reused>>

(* ... and its OnNotify, after which the module's code is gone *)
UnloadEnds ==
    /\ main = "unlocked" /\ queueLock = NobodyHolds
    /\ calls' = WithResults(calls)
    /\ rq' = <<>>
    /\ unloaded' = unloaded \cup {target}
    /\ main' = "idle" /\ target' = "none"
    /\ UNCHANGED <<qq, queueLock, connLock, conns, worker, item, wakeup, stopping, reused>>

(* ModuleSQL::~ModuleSQL: Thread::Stop first wakes the thread (OnStop), then *)
(* sets its flag, then joins it; the results it left are delivered.          *)
StopWakes ==
    /\ main = "idle" /\ queueLock = NobodyHolds
    /\ worker' = NotifyAll
    /\ main' = "waking"
    /\ UNCHANGED <<qq, rq, queueLock, connLock, conns, item, target, wakeup, stopping, unloaded, calls,
                   reused>>

StopFlags ==
    /\ main = "waking"
    /\ stopping' = TRUE
    /\ main' = "join"
    /\ UNCHANGED <<qq, rq, queueLock, connLock, conns, worker, item, target, wakeup, unloaded, calls, reused>>

StopJoins ==
    /\ main = "join" /\ worker = "done"
    /\ calls' = WithResults(calls)
    /\ rq' = <<>>
    /\ main' = "stopped"
    /\ UNCHANGED <<qq, queueLock, connLock, conns, worker, item, target, wakeup, stopping, unloaded, reused>>

-----------------------------------------------------------------------------

WorkerStep ==
    \/ WorkerLocks
    \/ WorkerStops
    \/ WaitForQueue
    \/ WorkerTakes
    \/ DoBlockingQuery
    \/ WorkerReports

MainStep ==
    \/ ReadConfig
    \/ SqlUnload
    \/ UnloadEnds
    \/ StopFlags
    \/ StopJoins

SqlNext ==
    \/ WorkerStep
    \/ MainStep
    \/ \E q \in Query, a \in Addr : Submit(q, a)
    \/ OnNotify
    \/ \E c \in SqlConns : ReadConfigStarts(c)
    \/ \E m \in SqlModules : UnloadStarts(m)
    \/ StopWakes

(* Both threads are scheduled, and a mutex that is free again and again is    *)
(* got by the thread that waits for it.  The main thread reads the socket     *)
(* that NotifyParent wrote to.                                                *)
SqlFairness ==
    /\ SF_sqlVars(WorkerStep)
    /\ SF_sqlVars(MainStep)
    /\ SF_sqlVars(OnNotify)

SqlSpec == SqlInit /\ [][SqlNext]_sqlVars /\ SqlFairness

-----------------------------------------------------------------------------

SqlTypeOK ==
    /\ Range(qq) \subseteq [query : Query, addr : Addr]
    /\ Range(rq) \subseteq [query : Query, addr : Addr, of : Query]
    /\ queueLock \in {NobodyHolds, "main", "worker"}
    /\ connLock \in [SqlConns -> {NobodyHolds, "main", "worker"}]
    /\ conns \subseteq SqlConns
    /\ worker \in {"start", "loop", "waiting", "woken", "query", "relock", "done"}
    /\ main \in {"idle", "rehash", "unload", "unlocked", "waking", "join", "stopped"}
    /\ unloaded \subseteq SqlModules
    /\ calls \in [Query -> {"unused", "open", "error", "own", "foreign", "twice"}]

(* A module was unloaded while its query was at the front of the queue, and *)
(* the lock of that query's connection was not given back.                  *)
LockKept == \E c \in SqlConns : connLock[c] = "main"

(* The thread waits and the flag that tells it to stop was set after it was woken *)
WakeupLost == main = "join" /\ worker = "waiting"

(* A query is in one queue, once, until it is called back, which happens once *)
(* and with the result of its own statement or with an error, whatever unload *)
(* or rehash did while it ran.  Only if the address of a deleted query was    *)
(* used again while that one ran may a query get the result of another.       *)
CalledBackOnce ==
    LET all == qq \o rq
    IN  /\ \A q \in Query :
            /\ calls[q] \in {"unused", "open", "error", "own"} \/ (reused /\ calls[q] = "foreign")
            /\ calls[q] = "open" <=> \E e \in Range(all) : e.query = q
        /\ IsInjective([n \in DOMAIN all |-> all[n].query])

(* The dispatcher uses a connection only while it exists, and only the thread *)
(* that holds a query's connection runs it: a rehash that drops a database    *)
(* waits for the query that runs on it.                                       *)
ConnectionExists ==
    worker = "query" => OnConn[item.query] \in conns /\ connLock[OnConn[item.query]] = "worker"

(* No query of an unloaded module is left in a queue: its code could not be *)
(* called any more.                                                         *)
UnloadedIsGone == \A e \in Range(qq) \cup Range(rq) : SqlCreator[e.query] \notin unloaded

(* Queries end once, run on connections that exist, and are gone with the  *)
(* module that asked.                                                      *)
QueriesSafe == SqlTypeOK /\ CalledBackOnce /\ ConnectionExists /\ UnloadedIsGone

(* The main thread never hangs: each of its operations ends, unless a module *)
(* was unloaded while its query was at the front of the queue or the wake-up *)
(* of Thread::Stop was lost.                                                 *)
MainReturns == (main \notin {"idle", "stopped"}) ~> (main \in {"idle", "stopped"} \/ LockKept \/ WakeupLost)

(* A submitted query is called back, unless the module that runs it is *)
(* destroyed first or one of the two hangs happens.                    *)
QueryAnswered ==
    \A q \in Query :
        (calls[q] = "open") ~> (calls[q] # "open" \/ main \in {"waking", "join", "stopped"} \/ LockKept)
=============================================================================
