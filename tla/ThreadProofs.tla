---------------------------- MODULE ThreadProofs ----------------------------
(***************************************************************************)
(* Proofs about the two worker threads: the requests of LdapThread and the *)
(* queries of SqlThread are answered at most once, by their own results,   *)
(* and never for a module that is gone.                                    *)
(***************************************************************************)
EXTENDS LdapThread, SqlThread, ErasingProofs

(* The provers of every step, in their order *)
USE ZenonT(3), SMTT(20)

(* LdapThread *)

(* Where a request may be *)
Held(r) == Holds(queries, r) \/ Holds(batch, r) \/ Holds(results, r)

LdapQueues ==
    /\ queries \in Seq(Request) /\ batch \in Seq(Request) /\ results \in Seq(Request)
    /\ Distinct(queries) /\ Distinct(batch) /\ Distinct(results)
    /\ \A r \in Request :
         /\ ~(Holds(queries, r) /\ Holds(batch, r))
         /\ ~(Holds(queries, r) /\ Holds(results, r))
         /\ ~(Holds(batch, r) /\ Holds(results, r))

(* The service's thread holds process_mutex while it has a batch. *)
BatchGuarded ==
    /\ processMutex = (IF service \in {"swap", "send"} THEN "service" ELSE "nobody")
    /\ service # "send" => batch = <<>>
    /\ caller = "stopped" => service = "done" /\ queries = <<>> /\ results = <<>>

OpenIsHeld ==
    \A r \in Request :
        /\ outcome[r] # "twice" /\ (outcome[r] = "open" <=> Held(r))
        /\ Held(r) => Interface[r] \notin absent

LdapFields ==
    /\ service \in {"loop", "look", "asleep", "notified", "process", "swap", "send", "done"}
    /\ caller \in {"idle", "unload", "waking", "join", "stopped"}
    /\ absent \subseteq LdapModules /\ (caller = "unload" => leaving \in LdapModules)
    /\ outcome \in [Request -> {"unused", "open", "called", "deleted", "twice"}]

(* The inductive invariant *)
LdapInv == LdapFields /\ LdapQueues /\ BatchGuarded /\ OpenIsHeld

(* Steps that leave the requests where they are *)
LEMMA SameQueues ==
    ASSUME LdapInv, UNCHANGED <<queries, results, batch, outcome, absent>>
    PROVE  LdapQueues' /\ OpenIsHeld'
BY DEF LdapInv, LdapQueues, OpenIsHeld, Held

(* Every step of the LDAP thread keeps the invariant. *)
LEMMA ServiceKeeps ==
    ASSUME LdapInv, ServiceStep
    PROVE  LdapInv'
<1>1. CASE ServiceLoop \/ ServiceLooks \/ ServiceLocks
  <2>1. UNCHANGED <<queries, results, batch, outcome, absent, caller, leaving>>
    BY <1>1 DEF ServiceLoop, ServiceLooks, ServiceLocks
  <2>2. LdapFields'
    BY <1>1, <2>1 DEF LdapInv, LdapFields, ServiceLoop, ServiceLooks, ServiceLocks
  <2>3. BatchGuarded'
    BY <1>1, <2>1 DEF LdapInv, BatchGuarded, LdapFields, ServiceLoop, ServiceLooks, ServiceLocks
  <2> QED
    BY <2>1, <2>2, <2>3, SameQueues DEF LdapInv
<1>2. CASE ServiceSwaps
  <2>1. batch' = queries /\ queries' = <<>> /\ results' = results /\ batch = <<>> /\ service = "swap"
        /\ UNCHANGED <<caller, leaving, absent, outcome>>
    BY <1>2 DEF ServiceSwaps, LdapInv, BatchGuarded
  <2>2. LdapFields'
    BY <1>2, <2>1 DEF LdapInv, LdapFields, ServiceSwaps
  <2>3. BatchGuarded'
    BY <1>2, <2>1 DEF LdapInv, BatchGuarded, ServiceSwaps
  <2>4. LdapQueues'
    BY <2>1, HoldsNone DEF LdapInv, LdapQueues
  <2>5. \A r \in Request : Held(r)' <=> Held(r)
    BY <2>1, HoldsNone DEF Held
  <2>6. OpenIsHeld'
    BY <2>1, <2>5 DEF LdapInv, OpenIsHeld
  <2> QED
    BY <2>2, <2>3, <2>4, <2>6 DEF LdapInv
<1>3. CASE ServiceRuns
  <2> DEFINE x == Head(batch)
  <2>1. results' = Append(results, x) /\ batch' = Tail(batch) /\ batch # <<>> /\ service = "send"
        /\ UNCHANGED <<queries, processMutex, service, caller, leaving, absent, outcome>>
    BY <1>3 DEF ServiceRuns
  <2>2. batch \in Seq(Request) /\ results \in Seq(Request) /\ Distinct(batch) /\ Distinct(results)
    BY DEF LdapInv, LdapQueues
  <2>3. /\ \A r : Holds(batch', r) <=> Holds(batch, r) /\ r # x
        /\ Distinct(batch') /\ batch' \in Seq(Request) /\ x \in Request /\ Holds(batch, x)
    BY <2>1, <2>2, HoldsTail
  <2> HIDE DEF x
  <2>4. ~Holds(results, x)
    BY <2>3 DEF LdapInv, LdapQueues
  <2>5. /\ \A r : Holds(results', r) <=> Holds(results, r) \/ r = x
        /\ Distinct(results') /\ results' \in Seq(Request)
    BY <2>1, <2>2, <2>3, <2>4, HoldsAppend
  <2>6. LdapFields' /\ BatchGuarded'
    BY <2>1 DEF LdapInv, LdapFields, BatchGuarded
  <2>7. LdapQueues'
    BY <2>1, <2>3, <2>5 DEF LdapInv, LdapQueues
  <2>8. \A r \in Request : Held(r)' <=> Held(r)
    BY <2>1, <2>3, <2>5 DEF Held
  <2>9. OpenIsHeld'
    BY <2>1, <2>8 DEF LdapInv, OpenIsHeld
  <2> QED
    BY <2>6, <2>7, <2>9 DEF LdapInv
<1>4. CASE ServiceNotifies
  <2>1. UNCHANGED <<queries, results, batch, outcome, absent, caller, leaving>>
    BY <1>4 DEF ServiceNotifies
  <2>2. LdapFields' /\ BatchGuarded'
    BY <1>4, <2>1 DEF LdapInv, LdapFields, BatchGuarded, ServiceNotifies
  <2> QED
    BY <2>1, <2>2, SameQueues DEF LdapInv
<1> QED
  BY <1>1, <1>2, <1>3, <1>4 DEF ServiceStep

(* Requests that are called back or deleted leave the queues in the same step. *)
LEMMA EndedKeeps ==
    ASSUME LdapInv, NEW S \in SUBSET Request, NEW how \in {"called", "deleted"},
           \A r \in S : Held(r), outcome' = Ended(S, how),
           \A r \in Request : Held(r)' <=> Held(r) /\ r \notin S,
           \A r \in Request : Held(r)' => Interface[r] \notin absent'
    PROVE  OpenIsHeld' /\ outcome' \in [Request -> {"unused", "open", "called", "deleted", "twice"}]
<1>1. \A r \in Request : outcome'[r] = IF r \notin S THEN outcome[r] ELSE how
  BY DEF Ended, LdapInv, OpenIsHeld
<1>2. outcome' \in [Request -> {"unused", "open", "called", "deleted", "twice"}]
  BY DEF Ended, LdapInv, LdapFields
<1> QED
  BY <1>1, <1>2 DEF LdapInv, OpenIsHeld

(* A signal only wakes a thread that sleeps. *)
LEMMA WakesType ==
    ASSUME LdapFields
    PROVE  /\ Wakes \in {"loop", "look", "notified", "process", "swap", "send", "done"}
           /\ \A x \in {"swap", "send", "done"} : Wakes = x <=> service = x
BY DEF Wakes, LdapFields

(* QueueRequest: a request that no queue held is at the end of queries. *)
LEMMA QueueRequestKeeps ==
    ASSUME LdapInv, NEW r \in Request, QueueRequest(r)
    PROVE  LdapInv'
<1>1. queries' = Append(queries, r) /\ outcome' = [outcome EXCEPT ![r] = "open"] /\ service' = Wakes
      /\ caller = "idle" /\ outcome[r] = "unused" /\ Interface[r] \notin absent
      /\ UNCHANGED <<results, batch, processMutex, caller, leaving, absent>>
  BY DEF QueueRequest
<1>2. LdapFields' /\ BatchGuarded'
  BY <1>1, WakesType DEF LdapInv, LdapFields, BatchGuarded
<1>3. ~Held(r)
  BY <1>1 DEF LdapInv, OpenIsHeld
<1>4. queries \in Seq(Request) /\ Distinct(queries) /\ ~Holds(queries, r)
  BY <1>3 DEF LdapInv, LdapQueues, Held
<1>5. queries' \in Seq(Request) /\ Distinct(queries') /\ \A x : Holds(queries', x) <=> Holds(queries, x) \/ x = r
  BY <1>1, <1>4, HoldsAppend
<1>6. LdapQueues'
  BY <1>1, <1>3, <1>5 DEF LdapInv, LdapQueues, Held
<1>7. \A x \in Request : Held(x)' <=> Held(x) \/ x = r
  BY <1>1, <1>5 DEF Held
<1>8. \A x \in Request : outcome'[x] = IF x = r THEN "open" ELSE outcome[x]
  BY <1>1 DEF LdapInv, LdapFields
<1>9. OpenIsHeld'
  BY <1>1, <1>7, <1>8 DEF LdapInv, OpenIsHeld
<1> QED
  BY <1>2, <1>6, <1>9 DEF LdapInv

(* DeliverResults: every request of results is called, and results is empty. *)
LEMMA DeliverResultsKeeps ==
    ASSUME LdapInv, DeliverResults
    PROVE  LdapInv'
<1>1. results' = <<>> /\ outcome' = Ended(Range(results), "called")
      /\ caller = "idle" /\ UNCHANGED <<queries, batch, processMutex, service, caller, leaving, absent>>
  BY DEF DeliverResults
<1>2. results \in Seq(Request)
  BY DEF LdapInv, LdapQueues
<1> DEFINE S == Range(results)
<1>3. \A x : x \in S <=> Holds(results, x) /\ x \in Request
  BY <1>2, HoldsRange
<1>4. outcome' = Ended(S, "called")
  BY <1>1
<1> HIDE DEF S
<1>5. LdapQueues'
  BY <1>1, HoldsNone DEF LdapInv, LdapQueues
<1>6. \A x \in Request : Held(x)' <=> Held(x) /\ x \notin S
  BY <1>1, <1>3, HoldsNone DEF LdapInv, LdapQueues, Held
<1>7. \A x \in S : Held(x)
  BY <1>3 DEF Held
<1>8. \A x \in Request : Held(x)' => Interface[x] \notin absent'
  BY <1>1, <1>6 DEF LdapInv, OpenIsHeld
<1>9. OpenIsHeld' /\ outcome' \in [Request -> {"unused", "open", "called", "deleted", "twice"}]
  BY <1>3, <1>4, <1>6, <1>7, <1>8, EndedKeeps
<1>10. LdapFields' /\ BatchGuarded'
  BY <1>1, <1>9 DEF LdapInv, LdapFields, BatchGuarded
<1> QED
  BY <1>5, <1>9, <1>10 DEF LdapInv

(* OnUnloadModule has process_mutex, so there is no batch: the two queues it *)
(* goes through hold every request of the module.                            *)
LEMMA LdapUnloadKeeps ==
    ASSUME LdapInv, LdapUnload
    PROVE  LdapInv'
<1> DEFINE S == {r \in Range(queries) \cup Range(results) : Interface[r] = leaving}
<1>1. queries' = Erased(queries, S) /\ results' = Erased(results, S) /\ outcome' = Ended(S, "deleted")
      /\ caller = "unload" /\ caller' = "idle" /\ absent' = absent \cup {leaving}
      /\ MayPurge /\ UNCHANGED <<batch, processMutex, service>>
  BY DEF LdapUnload
<1>2. /\ queries \in Seq(Request) /\ results \in Seq(Request)
      /\ Distinct(queries) /\ Distinct(results)
  BY DEF LdapInv, LdapQueues
<1>3. batch = <<>> /\ batch' = <<>>
  BY <1>1 DEF LdapInv, BatchGuarded, MayPurge
<1>4. \A x : x \in S <=> (Holds(queries, x) \/ Holds(results, x)) /\ x \in Request /\ Interface[x] = leaving
  BY <1>2, HoldsRange
<1> HIDE DEF S
<1>5. /\ queries' \in Seq(Request) /\ Distinct(queries')
      /\ \A x : Holds(queries', x) <=> Holds(queries, x) /\ x \notin S
  BY <1>1, <1>2, HoldsErased
<1>6. /\ results' \in Seq(Request) /\ Distinct(results')
      /\ \A x : Holds(results', x) <=> Holds(results, x) /\ x \notin S
  BY <1>1, <1>2, HoldsErased
<1>7. LdapQueues'
  BY <1>3, <1>5, <1>6, HoldsNone DEF LdapInv, LdapQueues
<1>8. \A x \in Request : Held(x)' <=> Held(x) /\ x \notin S
  BY <1>3, <1>5, <1>6, HoldsNone DEF Held
<1>9. \A x \in S : Held(x)
  BY <1>4 DEF Held
<1>10. \A x \in Request : Held(x) /\ x \notin S => Interface[x] # leaving
  BY <1>3, <1>4, HoldsNone DEF Held
<1>11. \A x \in Request : Held(x)' => Interface[x] \notin absent'
  BY <1>1, <1>8, <1>10 DEF LdapInv, OpenIsHeld
<1>12. OpenIsHeld' /\ outcome' \in [Request -> {"unused", "open", "called", "deleted", "twice"}]
  BY <1>1, <1>4, <1>8, <1>9, <1>11, EndedKeeps
<1>13. LdapFields' /\ BatchGuarded'
  BY <1>1, <1>3, <1>12 DEF LdapInv, LdapFields, BatchGuarded
<1> QED
  BY <1>7, <1>12, <1>13 DEF LdapInv

(* ~LDAPService: the thread is done and has no batch. *)
LEMMA LdapStopJoinsKeeps ==
    ASSUME LdapInv, LdapStopJoins
    PROVE  LdapInv'
<1> DEFINE S == LeftOver
<1>1. queries' = <<>> /\ results' = <<>> /\ outcome' = Ended(S, "called")
      /\ caller' = "stopped" /\ service = "done"
      /\ UNCHANGED <<batch, processMutex, service, leaving, absent>>
  BY DEF LdapStopJoins
<1>2. queries \in Seq(Request) /\ results \in Seq(Request)
  BY DEF LdapInv, LdapQueues
<1>3. batch = <<>> /\ batch' = <<>>
  BY <1>1 DEF LdapInv, BatchGuarded
<1>4. \A x : x \in S <=> (Holds(queries, x) \/ Holds(results, x)) /\ x \in Request
  BY <1>2, HoldsRange DEF LeftOver
<1> HIDE DEF S
<1>5. LdapQueues'
  BY <1>1, <1>3, HoldsNone DEF LdapInv, LdapQueues
<1>6. \A x \in Request : ~Held(x)'
  BY <1>1, <1>3, HoldsNone DEF Held
<1>7. \A x \in Request : Held(x) <=> x \in S
  BY <1>3, <1>4, HoldsNone DEF Held
<1>8. OpenIsHeld' /\ outcome' \in [Request -> {"unused", "open", "called", "deleted", "twice"}]
  BY <1>1, <1>4, <1>6, <1>7, EndedKeeps
<1>9. LdapFields' /\ BatchGuarded'
  BY <1>1, <1>8 DEF LdapInv, LdapFields, BatchGuarded
<1> QED
  BY <1>5, <1>8, <1>9 DEF LdapInv

(* There are no requests at first. *)
LEMMA LdapInvInit == LdapInit => LdapInv
<1> SUFFICES ASSUME LdapInit PROVE LdapInv
  OBVIOUS
<1>1. queries = <<>> /\ results = <<>> /\ batch = <<>> /\ absent = {}
      /\ outcome = [r \in Request |-> "unused"]
  BY DEF LdapInit
<1>2. \A r \in Request : ~Held(r)
  BY <1>1, HoldsNone DEF Held
<1>3. LdapQueues
  BY <1>1, HoldsNone DEF LdapQueues
<1>4. OpenIsHeld
  BY <1>1, <1>2 DEF OpenIsHeld
<1>5. LdapFields /\ BatchGuarded
  BY DEF LdapInit, LdapFields, BatchGuarded
<1> QED
  BY <1>3, <1>4, <1>5 DEF LdapInv

(* Every step of either thread keeps the invariant. *)
LEMMA LdapInvNext == LdapInv /\ [LdapNext]_ldapVars => LdapInv'
<1> SUFFICES ASSUME LdapInv, [LdapNext]_ldapVars PROVE LdapInv'
  OBVIOUS
<1>1. ASSUME NEW m \in LdapModules, LdapUnloadStarts(m)
      PROVE  LdapInv'
  <2>1. UNCHANGED <<queries, results, batch, outcome, absent, service, processMutex>>
        /\ caller' = "unload" /\ leaving' = m /\ caller = "idle"
    BY <1>1 DEF LdapUnloadStarts
  <2>2. LdapFields' /\ BatchGuarded'
    BY <2>1 DEF LdapInv, LdapFields, BatchGuarded
  <2> QED
    BY <2>1, <2>2, SameQueues DEF LdapInv
<1>2. CASE LdapStopWakes
  <2>1. UNCHANGED <<queries, results, batch, outcome, absent, processMutex>>
        /\ caller' = "waking" /\ service' = Wakes
    BY <1>2 DEF LdapStopWakes
  <2>2. LdapFields' /\ BatchGuarded'
    BY <2>1, WakesType DEF LdapInv, LdapFields, BatchGuarded
  <2> QED
    BY <2>1, <2>2, SameQueues DEF LdapInv
<1>3. CASE LdapStopFlags
  <2>1. UNCHANGED <<queries, results, batch, outcome, absent, service, processMutex>>
        /\ caller' = "join"
    BY <1>3 DEF LdapStopFlags
  <2>2. LdapFields' /\ BatchGuarded'
    BY <2>1 DEF LdapInv, LdapFields, BatchGuarded
  <2> QED
    BY <2>1, <2>2, SameQueues DEF LdapInv
<1>4. CASE UNCHANGED ldapVars
  <2>1. UNCHANGED <<queries, results, batch, outcome, absent, service, processMutex, caller, leaving>>
    BY <1>4 DEF ldapVars
  <2>2. LdapFields' /\ BatchGuarded'
    BY <2>1 DEF LdapInv, LdapFields, BatchGuarded
  <2> QED
    BY <2>1, <2>2, SameQueues DEF LdapInv
<1> QED
  BY <1>1, <1>2, <1>3, <1>4, ServiceKeeps, QueueRequestKeeps, DeliverResultsKeeps, LdapUnloadKeeps,
     LdapStopJoinsKeeps DEF LdapNext, CallerStep

(* The invariant gives what is promised of requests. *)
LEMMA LdapInvSafe == LdapInv => RequestsSafe
<1> SUFFICES ASSUME LdapInv PROVE RequestsSafe
  OBVIOUS
<1> DEFINE two == queries \o batch
           all == two \o results
<1>1. /\ queries \in Seq(Request) /\ batch \in Seq(Request) /\ results \in Seq(Request)
      /\ Distinct(queries) /\ Distinct(batch) /\ Distinct(results)
  BY DEF LdapInv, LdapQueues
<1>2. \A s \in Seq(Request) : \A r : Holds(s, r) => r \in Request
  BY DEF Holds
<1>3. /\ two \in Seq(Request) /\ Distinct(two)
      /\ \A r : Holds(two, r) <=> Holds(queries, r) \/ Holds(batch, r)
  <2>1. \A r : ~(Holds(queries, r) /\ Holds(batch, r))
    BY <1>1, <1>2 DEF LdapInv, LdapQueues
  <2> QED
    BY <1>1, <2>1, HoldsConcat
<1> HIDE DEF two
<1>4. /\ all \in Seq(Request) /\ Distinct(all)
      /\ \A r : Holds(all, r) <=> Holds(two, r) \/ Holds(results, r)
  <2>1. \A r : ~(Holds(two, r) /\ Holds(results, r))
    BY <1>1, <1>2, <1>3 DEF LdapInv, LdapQueues
  <2> QED
    BY <1>1, <1>3, <2>1, HoldsConcat
<1> HIDE DEF all
<1>5. \A r : r \in Range(all) <=> r \in Request /\ Held(r)
  BY <1>3, <1>4, HoldsRange DEF Held
<1>6. IsInjective(all)
  <2>1. DOMAIN all = 1..Len(all)
    BY <1>4
  <2> QED
    BY <1>4, <2>1 DEF IsInjective, Distinct
<1>7. all = queries \o batch \o results
  BY DEF all, two
<1>8. RequestsEndOnce
  <2>1. caller = "stopped" => \A r \in Request : ~Held(r)
    BY HoldsNone DEF LdapInv, BatchGuarded, Held
  <2> QED
    BY <1>5, <1>6, <1>7, <2>1 DEF LdapInv, OpenIsHeld, RequestsEndOnce
<1>9. AbsentIsGone
  BY <1>5, <1>7 DEF LdapInv, OpenIsHeld, AbsentIsGone
<1>10. Range(queries) \cup Range(results) \cup Range(batch) \subseteq Request
  BY <1>1, HoldsRange
<1>11. LdapTypeOK
  BY <1>10 DEF LdapInv, LdapFields, BatchGuarded, LdapTypeOK
<1> QED
  BY <1>8, <1>9, <1>11 DEF RequestsSafe

(* The LDAP module, for any requests and modules: a request is in one of the *)
(* queues and the batch until it is called back or deleted, once; nothing of *)
(* an unloaded module is left; the destructor leaves no request open.        *)
THEOREM RequestsAreSafe == LdapSpec => []RequestsSafe
<1>1. LdapInit => LdapInv
  BY LdapInvInit
<1>2. LdapInv /\ [LdapNext]_ldapVars => LdapInv'
  BY LdapInvNext
<1>3. LdapInv => RequestsSafe
  BY LdapInvSafe
<1> QED
  BY <1>1, <1>2, <1>3, PTL DEF LdapSpec

-----------------------------------------------------------------------------
(* The MySQL module *)

SqlEntry == [query : Query, addr : Addr]

SqlResult == [query : Query, addr : Addr, of : Query]

SqlFields ==
    /\ qq \in Seq(SqlEntry) /\ rq \in Seq(SqlResult)
    /\ conns \subseteq SqlConns /\ unloaded \subseteq SqlModules
    /\ worker \in {"start", "loop", "waiting", "woken", "query", "relock", "done"}
    /\ main \in {"idle", "rehash", "unload", "unlocked", "waking", "join", "stopped"}
    /\ main \in {"unload", "unlocked"} => target \in SqlModules
    /\ connLock \in [SqlConns -> {NobodyHolds, "main", "worker"}]
    /\ calls \in [Query -> {"unused", "open", "error", "own", "foreign", "twice"}]

(* Who holds which mutex follows from what the threads do next. *)
SqlLocks ==
    /\ queueLock = (IF worker = "loop" THEN "worker"
                    ELSE IF main \in {"rehash", "unload"} THEN "main" ELSE NobodyHolds)
    /\ worker = "loop" => main \notin {"rehash", "unload"}
    /\ \A c \in SqlConns : connLock[c] = "worker" <=> worker = "query" /\ OnConn[item.query] = c
    /\ Executing => item \in SqlEntry

(* No query is in the queues twice, and no two waiting queries share an address. *)
SqlQueues ==
    /\ Distinct(qq) /\ Distinct(rq)
    /\ \A e, f : Holds(qq, e) /\ Holds(qq, f) /\ (e.query = f.query \/ e.addr = f.addr) => e = f
    /\ \A e, f : Holds(rq, e) /\ Holds(rq, f) /\ e.query = f.query => e = f
    /\ \A e, f : Holds(qq, e) /\ Holds(rq, f) => e.query # f.query

(* Whatever has the address of the query that runs is that query, and so its *)
(* result is its own, as long as no address was used again.                  *)
OwnResults ==
    /\ Executing => \A e : Holds(qq, e) /\ e.addr = item.addr => reused \/ e.query = item.query
    /\ \A e : Holds(rq, e) => reused \/ e.of = e.query

(* A query waits for a connection that exists, and so does the one that runs. *)
OnLiveConns ==
    /\ \A e : Holds(qq, e) => OnConn[e.query] \in conns
    /\ worker = "query" => OnConn[item.query] \in conns

(* A query that is in a queue is open and its module is there; a module that *)
(* is about to go has none that waits.                                       *)
Queued(q) == (\E e : Holds(qq, e) /\ e.query = q) \/ (\E e : Holds(rq, e) /\ e.query = q)

OpenIsQueued ==
    \A q \in Query :
        /\ calls[q] # "twice" /\ (calls[q] = "foreign" => reused)
        /\ calls[q] = "open" <=> Queued(q)
        /\ Queued(q) => SqlCreator[q] \notin unloaded

NoneOfTarget == main = "unlocked" => \A e : Holds(qq, e) => SqlCreator[e.query] # target

(* The inductive invariant *)
SqlInv == SqlFields /\ SqlLocks /\ SqlQueues /\ OwnResults /\ OnLiveConns /\ OpenIsQueued /\ NoneOfTarget

(* What the queues hold is typed. *)
LEMMA EntryTypes ==
    ASSUME SqlFields
    PROVE  /\ \A e : Holds(qq, e) => e \in SqlEntry /\ e.query \in Query
           /\ \A e : Holds(rq, e) => e \in SqlResult /\ e.query \in Query
<1>1. qq \in Seq(SqlEntry) /\ rq \in Seq(SqlResult)
  BY DEF SqlFields
<1>2. \A e : Holds(qq, e) => e \in SqlEntry
  BY <1>1 DEF Holds
<1>3. \A e : Holds(rq, e) => e \in SqlResult
  BY <1>1 DEF Holds
<1> QED
  BY <1>2, <1>3 DEF SqlEntry, SqlResult

(* Steps that leave the queries where they are *)
LEMMA SameSql ==
    ASSUME SqlInv, UNCHANGED <<qq, rq, calls, reused, unloaded>>
    PROVE  SqlQueues' /\ OpenIsQueued'
<1>1. \A q : Queued(q)' <=> Queued(q)
  BY DEF Queued
<1> QED
  BY <1>1 DEF SqlInv, SqlQueues, OpenIsQueued

(* The dispatcher locks and unlocks the queue's mutex around its look at the *)
(* queue and takes the front with its connection's mutex.                    *)
LEMMA WorkerLooksKeeps ==
    ASSUME SqlInv, WorkerLocks \/ WorkerStops \/ WaitForQueue
    PROVE  SqlInv'
<1>1. UNCHANGED <<qq, rq, calls, reused, unloaded, conns, connLock, main, target, item>>
      /\ ~Executing /\ ~Executing'
  BY DEF WorkerLocks, WorkerStops, WaitForQueue, Executing
<1>2. SqlFields'
  BY <1>1 DEF SqlInv, SqlFields, WorkerLocks, WorkerStops, WaitForQueue
<1>3. SqlLocks'
  BY <1>1 DEF SqlInv, SqlFields, SqlLocks, Executing, WorkerLocks, WorkerStops, WaitForQueue, NobodyHolds
<1>4. OwnResults' /\ OnLiveConns' /\ NoneOfTarget'
  BY <1>1 DEF SqlInv, OwnResults, OnLiveConns, NoneOfTarget, Executing
<1> QED
  BY <1>1, <1>2, <1>3, <1>4, SameSql DEF SqlInv

(* The SQL thread takes the first query, which stays in the queue. *)
LEMMA WorkerTakesKeeps ==
    ASSUME SqlInv, WorkerTakes
    PROVE  SqlInv'
<1>1. item' = Head(qq) /\ worker = "loop" /\ worker' = "query" /\ qq # <<>> /\ queueLock' = NobodyHolds
      /\ connLock' = [connLock EXCEPT ![OnConn[Head(qq).query]] = "worker"]
      /\ UNCHANGED <<qq, rq, calls, reused, unloaded, conns, main, target>>
  BY DEF WorkerTakes
<1>2. qq \in Seq(SqlEntry) /\ Distinct(qq)
  BY DEF SqlInv, SqlFields, SqlQueues
<1>3. PICK h \in SqlEntry : h = Head(qq) /\ Holds(qq, h)
  BY <1>1, <1>2, HoldsTail
<1>4. PICK k \in SqlConns : k = OnConn[h.query]
  BY <1>3 DEF SqlEntry, SqlConns
<1>5. item' = h /\ connLock' = [connLock EXCEPT ![k] = "worker"]
  BY <1>1, <1>3, <1>4
<1>6. SqlFields'
  BY <1>1, <1>5 DEF SqlInv, SqlFields
<1>7. \A c \in SqlConns : connLock[c] # "worker"
  BY <1>1 DEF SqlInv, SqlLocks
<1>8. \A c \in SqlConns : connLock'[c] = "worker" <=> c = k
  BY <1>5, <1>7 DEF SqlInv, SqlFields
<1>9. SqlLocks'
  BY <1>1, <1>4, <1>5, <1>8 DEF SqlInv, SqlLocks, Executing, NobodyHolds
<1>10. OwnResults'
  BY <1>1, <1>3, <1>5 DEF SqlInv, SqlQueues, OwnResults
<1>11. OnLiveConns' /\ NoneOfTarget'
  BY <1>1, <1>3, <1>5 DEF SqlInv, OnLiveConns, NoneOfTarget
<1> QED
  BY <1>1, <1>6, <1>9, <1>10, <1>11, SameSql DEF SqlInv

(* The SQL thread runs the query with no lock on the queue. *)
LEMMA DoBlockingQueryKeeps ==
    ASSUME SqlInv, DoBlockingQuery
    PROVE  SqlInv'
<1>1. worker = "query" /\ worker' = "relock" /\ Executing /\ Executing'
      /\ connLock' = [connLock EXCEPT ![OnConn[item.query]] = NobodyHolds]
      /\ UNCHANGED <<qq, rq, calls, reused, unloaded, conns, main, target, item, queueLock>>
  BY DEF DoBlockingQuery, Executing
<1>2. PICK k \in SqlConns : k = OnConn[item.query]
  BY <1>1 DEF SqlInv, SqlLocks, SqlEntry, SqlConns
<1>3. connLock' = [connLock EXCEPT ![k] = NobodyHolds]
  BY <1>1, <1>2
<1>4. SqlFields'
  BY <1>1, <1>3 DEF SqlInv, SqlFields
<1>5. \A c \in SqlConns : connLock'[c] # "worker"
  BY <1>1, <1>2, <1>3 DEF SqlInv, SqlFields, SqlLocks, NobodyHolds
<1>6. SqlLocks'
  BY <1>1, <1>5 DEF SqlInv, SqlLocks
<1>7. OwnResults' /\ OnLiveConns' /\ NoneOfTarget'
  BY <1>1 DEF SqlInv, OwnResults, OnLiveConns, NoneOfTarget
<1> QED
  BY <1>1, <1>4, <1>6, <1>7, SameSql DEF SqlInv

(* WorkerReports moves the front of qq to rq if it still is the query that ran. *)
LEMMA WorkerReportsKeeps ==
    ASSUME SqlInv, WorkerReports
    PROVE  SqlInv'
<1>1. worker = "relock" /\ worker' = "loop" /\ Executing /\ ~Executing'
      /\ queueLock = NobodyHolds /\ queueLock' = "worker"
      /\ UNCHANGED <<calls, reused, unloaded, conns, connLock, main, target>>
  BY DEF WorkerReports, Executing
<1>2. SqlLocks' /\ main \notin {"rehash", "unload"}
  BY <1>1 DEF SqlInv, SqlLocks, NobodyHolds
<1>3. CASE ~StillThere
  <2>1. UNCHANGED <<qq, rq>>
    BY <1>3 DEF WorkerReports
  <2>2. SqlFields' /\ OwnResults' /\ OnLiveConns' /\ NoneOfTarget'
    BY <1>1, <2>1 DEF SqlInv, SqlFields, OwnResults, OnLiveConns, NoneOfTarget
  <2> QED
    BY <1>1, <1>2, <2>1, <2>2, SameSql DEF SqlInv
<1>4. CASE StillThere
  <2>1. qq # <<>> /\ Head(qq).addr = item.addr /\ qq' = Tail(qq)
        /\ rq' = Append(rq, [query |-> Head(qq).query, addr |-> Head(qq).addr, of |-> item.query])
    BY <1>4 DEF WorkerReports, StillThere
  <2>2. qq \in Seq(SqlEntry) /\ rq \in Seq(SqlResult) /\ Distinct(qq) /\ Distinct(rq) /\ item \in SqlEntry
    BY <1>1 DEF SqlInv, SqlFields, SqlQueues, SqlLocks
  <2>3. PICK h \in SqlEntry : h = Head(qq) /\ Holds(qq, h)
    BY <2>1, <2>2, HoldsTail
  <2>4. /\ \A e : Holds(qq', e) <=> Holds(qq, e) /\ e # h
        /\ Distinct(qq') /\ qq' \in Seq(SqlEntry)
    BY <2>1, <2>2, <2>3, HoldsTail
  <2>5. PICK n \in SqlResult : n = [query |-> h.query, addr |-> h.addr, of |-> item.query]
    BY <2>2 DEF SqlEntry, SqlResult
  <2>6. rq' = Append(rq, n) /\ n.query = h.query /\ n.of = item.query
    BY <2>1, <2>3, <2>5
  <2>7. ~Holds(rq, n)
    BY <2>3, <2>6 DEF SqlInv, SqlQueues
  <2>8. /\ \A e : Holds(rq', e) <=> Holds(rq, e) \/ e = n
        /\ Distinct(rq') /\ rq' \in Seq(SqlResult)
    BY <2>2, <2>6, <2>7, HoldsAppend
  <2>9. SqlFields'
    BY <1>1, <2>4, <2>8 DEF SqlInv, SqlFields
  <2>10. SqlQueues'
    <3>1. \A e, f : Holds(qq', e) /\ Holds(qq', f) /\ (e.query = f.query \/ e.addr = f.addr) => e = f
      BY <2>4 DEF SqlInv, SqlQueues
    <3>2. \A e, f : Holds(rq', e) /\ Holds(rq', f) /\ e.query = f.query => e = f
      BY <2>3, <2>6, <2>8 DEF SqlInv, SqlQueues
    <3>3. \A e, f : Holds(qq', e) /\ Holds(rq', f) => e.query # f.query
      BY <2>3, <2>4, <2>6, <2>8 DEF SqlInv, SqlQueues
    <3> QED
      BY <2>4, <2>8, <3>1, <3>2, <3>3 DEF SqlQueues
  <2>11. reused \/ n.of = n.query
    BY <1>1, <2>1, <2>3, <2>6 DEF SqlInv, OwnResults
  <2>12. OwnResults'
    BY <1>1, <2>8, <2>11 DEF SqlInv, OwnResults
  <2>13. OnLiveConns' /\ NoneOfTarget'
    BY <1>1, <2>4 DEF SqlInv, OnLiveConns, NoneOfTarget
  <2>14. \A q : Queued(q)' <=> Queued(q)
    <3>1. ASSUME NEW q, Queued(q) PROVE Queued(q)'
      <4>1. CASE \E e : Holds(qq, e) /\ e.query = q
        BY <4>1, <2>4, <2>6, <2>8 DEF Queued
      <4>2. CASE \E e : Holds(rq, e) /\ e.query = q
        BY <4>2, <2>8 DEF Queued
      <4> QED
        BY <3>1, <4>1, <4>2 DEF Queued
    <3>2. ASSUME NEW q, Queued(q)' PROVE Queued(q)
      <4>1. CASE \E e : Holds(qq', e) /\ e.query = q
        BY <4>1, <2>4 DEF Queued
      <4>2. CASE \E e : Holds(rq', e) /\ e.query = q
        BY <4>2, <2>3, <2>6, <2>8 DEF Queued
      <4> QED
        BY <3>2, <4>1, <4>2 DEF Queued
    <3> QED
      BY <3>1, <3>2
  <2>15. OpenIsQueued'
    BY <1>1, <2>14 DEF SqlInv, OpenIsQueued
  <2> QED
    BY <1>2, <2>9, <2>10, <2>12, <2>13, <2>15 DEF SqlInv
<1> QED
  BY <1>3, <1>4

(* A signal only wakes a thread that sleeps. *)
LEMMA NotifyAllType ==
    ASSUME SqlFields
    PROVE  /\ NotifyAll \in {"start", "loop", "woken", "query", "relock", "done"}
           /\ \A x \in {"loop", "query", "relock"} : NotifyAll = x <=> worker = x
BY DEF NotifyAll, SqlFields

(* Submit puts a new query at the end of the queue. *)
LEMMA SubmitKeeps ==
    ASSUME SqlInv, NEW q \in Query, NEW a \in Addr, Submit(q, a)
    PROVE  SqlInv'
<1>1. /\ main = "idle" /\ queueLock = NobodyHolds /\ calls[q] = "unused" /\ SqlCreator[q] \notin unloaded
      /\ OnConn[q] \in conns /\ a \notin InUse /\ calls' = [calls EXCEPT ![q] = "open"]
      /\ qq' = Append(qq, [query |-> q, addr |-> a]) /\ worker' = NotifyAll
      /\ UNCHANGED <<rq, queueLock, connLock, conns, item, main, target, unloaded>>
  BY DEF Submit
<1>2. PICK n \in SqlEntry : n = [query |-> q, addr |-> a]
  BY DEF SqlEntry
<1>3. qq' = Append(qq, n) /\ n.query = q /\ n.addr = a
  BY <1>1, <1>2
<1>4. qq \in Seq(SqlEntry) /\ Distinct(qq)
  BY DEF SqlInv, SqlFields, SqlQueues
<1>5. \A e : Holds(qq, e) => e.addr # a
  <2>1. DOMAIN qq = 1..Len(qq)
    BY <1>4
  <2> QED
    BY <1>1, <2>1 DEF InUse, Holds
<1>6. ~Queued(q)
  BY <1>1 DEF SqlInv, OpenIsQueued
<1>7. ~Holds(qq, n)
  BY <1>3, <1>5
<1>8. /\ \A e : Holds(qq', e) <=> Holds(qq, e) \/ e = n
      /\ Distinct(qq') /\ qq' \in Seq(SqlEntry)
  BY <1>3, <1>4, <1>7, HoldsAppend
<1>9. Executing' <=> Executing
  BY <1>1, NotifyAllType DEF SqlInv, Executing
<1>10. SqlFields' /\ SqlLocks'
  BY <1>1, <1>8, <1>9, NotifyAllType DEF SqlInv, SqlFields, SqlLocks
<1>11. SqlQueues'
  BY <1>1, <1>3, <1>5, <1>6, <1>8 DEF SqlInv, SqlQueues, Queued
<1>12. (reused => reused') /\ (Executing /\ a = item.addr => reused')
  BY DEF Submit
<1>13. OwnResults'
  BY <1>1, <1>3, <1>8, <1>9, <1>12 DEF SqlInv, OwnResults
<1>14. OnLiveConns' /\ NoneOfTarget'
  BY <1>1, <1>3, <1>8, NotifyAllType DEF SqlInv, OnLiveConns, NoneOfTarget
<1>15. \A x : Queued(x)' <=> Queued(x) \/ x = q
  BY <1>1, <1>3, <1>8 DEF Queued
<1>16. \A x \in Query : calls'[x] = IF x = q THEN "open" ELSE calls[x]
  BY <1>1 DEF SqlInv, SqlFields
<1>17. OpenIsQueued'
  BY <1>1, <1>12, <1>15, <1>16 DEF SqlInv, OpenIsQueued
<1> QED
  BY <1>10, <1>11, <1>13, <1>14, <1>17 DEF SqlInv

(* OnNotify calls every query of rq back, each with the one result it has. *)
LEMMA Delivered ==
    ASSUME SqlInv, calls' = WithResults(calls), rq' = <<>>, UNCHANGED <<qq, reused>>
    PROVE  /\ calls' \in [Query -> {"unused", "open", "error", "own", "foreign", "twice"}]
           /\ rq' \in Seq(SqlResult) /\ SqlQueues'
           /\ \A q : Queued(q)' => Queued(q)
           /\ \A q \in Query : /\ calls'[q] # "twice" /\ (calls'[q] = "foreign" => reused)
                               /\ calls'[q] = "open" <=> Queued(q)'
<1>1. rq \in Seq(SqlResult)
  BY DEF SqlInv, SqlFields
<1>2. \A e : e \in Range(rq) <=> Holds(rq, e) /\ e \in SqlResult
  BY <1>1, HoldsRange
<1>3. \A e : Holds(rq, e) => e \in SqlResult
  BY <1>1 DEF Holds
<1>4. \A q, e : e \in ResultsOf(q) <=> Holds(rq, e) /\ e.query = q
  BY <1>2, <1>3 DEF ResultsOf
<1>5. \A q \in Query : calls'[q] = IF ResultsOf(q) = {} THEN calls[q]
                                   ELSE IF calls[q] # "open" THEN "twice"
                                   ELSE IF \A e \in ResultsOf(q) : e.of = q THEN "own" ELSE "foreign"
  BY DEF WithResults
<1>6. calls' \in [Query -> {"unused", "open", "error", "own", "foreign", "twice"}]
  BY DEF WithResults, SqlInv, SqlFields
<1>7. SqlQueues' /\ rq' \in Seq(SqlResult)
  BY HoldsNone DEF SqlInv, SqlQueues
<1>8. \A q : Queued(q)' <=> \E e : Holds(qq, e) /\ e.query = q
  BY HoldsNone DEF Queued
<1>9. \A q : Queued(q)' => Queued(q)
  BY <1>8 DEF Queued
<1>10. ASSUME NEW q \in Query
       PROVE  /\ calls'[q] # "twice" /\ (calls'[q] = "foreign" => reused)
              /\ calls'[q] = "open" <=> Queued(q)'
  <2>1. CASE ResultsOf(q) = {}
    <3>1. calls'[q] = calls[q]
      BY <1>5, <2>1
    <3>2. ~\E e : Holds(rq, e) /\ e.query = q
      BY <1>4, <2>1
    <3>3. Queued(q)' <=> Queued(q)
      BY <1>8, <3>2 DEF Queued
    <3> QED
      BY <3>1, <3>3 DEF SqlInv, OpenIsQueued
  <2>2. CASE ResultsOf(q) # {}
    <3>1. PICK e : Holds(rq, e) /\ e.query = q
      BY <1>4, <2>2
    <3>2. calls[q] = "open"
      BY <3>1 DEF SqlInv, OpenIsQueued, Queued
    <3>3. ~Queued(q)'
      BY <1>8, <3>1 DEF SqlInv, SqlQueues
    <3>4. ~reused => \A f \in ResultsOf(q) : f.of = q
      BY <1>4 DEF SqlInv, OwnResults
    <3>5. calls'[q] = IF \A f \in ResultsOf(q) : f.of = q THEN "own" ELSE "foreign"
      BY <1>5, <2>2, <3>2
    <3> QED
      BY <3>3, <3>4, <3>5
  <2> QED
    BY <2>1, <2>2
<1> QED
  BY <1>6, <1>7, <1>9, <1>10

(* The three callers of OnNotify: the signal socket, the end of OnUnloadModule *)
(* and the destructor.                                                         *)
LEMMA OnNotifyKeeps ==
    ASSUME SqlInv, OnNotify \/ UnloadEnds \/ StopJoins
    PROVE  SqlInv'
<1>1. calls' = WithResults(calls) /\ rq' = <<>>
      /\ UNCHANGED <<qq, reused, queueLock, connLock, conns, worker, item>>
  BY DEF OnNotify, UnloadEnds, StopJoins
<1>2. /\ main' \in {"idle", "stopped"} /\ main \notin {"rehash", "unload"}
      /\ unloaded' = unloaded \/ (main = "unlocked" /\ unloaded' = unloaded \cup {target})
  BY DEF OnNotify, UnloadEnds, StopJoins
<1>3. SqlFields'
  BY <1>1, <1>2, Delivered DEF SqlInv, SqlFields
<1>4. Executing' <=> Executing
  BY <1>1 DEF Executing
<1>5. SqlLocks'
  BY <1>1, <1>2, <1>4 DEF SqlInv, SqlLocks
<1>6. OwnResults' /\ OnLiveConns' /\ NoneOfTarget'
  BY <1>1, <1>2, <1>4, HoldsNone DEF SqlInv, OwnResults, OnLiveConns, NoneOfTarget
<1>7. \A q \in Query : Queued(q)' => SqlCreator[q] \notin unloaded'
  <2> SUFFICES ASSUME NEW q \in Query, Queued(q)' PROVE SqlCreator[q] \notin unloaded'
    OBVIOUS
  <2>1. SqlCreator[q] \notin unloaded
    BY <1>1, Delivered DEF SqlInv, OpenIsQueued
  <2>2. main = "unlocked" => SqlCreator[q] # target
    BY <1>1, HoldsNone DEF SqlInv, NoneOfTarget, Queued
  <2> QED
    BY <1>2, <2>1, <2>2
<1>8. OpenIsQueued'
  BY <1>1, <1>7, Delivered DEF OpenIsQueued
<1> QED
  BY <1>1, <1>3, <1>5, <1>6, <1>8, Delivered DEF SqlInv

(* Queries that wait get an error and leave qq. *)
LEMMA Dropped ==
    ASSUME SqlInv, NEW S \in SUBSET Query, calls' = WithErrors(calls, Waiting(S)),
           qq' = Without(Waiting(S)), UNCHANGED <<rq, reused, unloaded>>
    PROVE  /\ calls' \in [Query -> {"unused", "open", "error", "own", "foreign", "twice"}]
           /\ qq' \in Seq(SqlEntry) /\ SqlQueues' /\ OpenIsQueued'
           /\ \A e : Holds(qq', e) <=> Holds(qq, e) /\ e.query \notin S
<1>1. qq \in Seq(SqlEntry) /\ Distinct(qq)
  BY DEF SqlInv, SqlFields, SqlQueues
<1>2. \A e : e \in Range(qq) <=> Holds(qq, e) /\ e \in SqlEntry
  BY <1>1, HoldsRange
<1>3. \A e : Holds(qq, e) => e \in SqlEntry
  BY <1>1 DEF Holds
<1> DEFINE D == {e \in Range(qq) : e.query \in Waiting(S)}
<1>4. \A q : q \in Waiting(S) <=> q \in S /\ \E e : Holds(qq, e) /\ e.query = q
  BY <1>2, <1>3 DEF Waiting
<1>5. \A e : Holds(qq, e) => (e \in D <=> e.query \in S)
  BY <1>2, <1>3, <1>4
<1>6. qq' = Erased(qq, D)
  BY DEF Without
<1> HIDE DEF D
<1>7. /\ qq' \in Seq(SqlEntry) /\ Distinct(qq')
      /\ \A e : Holds(qq', e) <=> Holds(qq, e) /\ e \notin D
  BY <1>1, <1>6, HoldsErased
<1>8. \A e : Holds(qq', e) <=> Holds(qq, e) /\ e.query \notin S
  BY <1>5, <1>7
<1>9. SqlQueues'
  BY <1>7, <1>8 DEF SqlInv, SqlQueues
<1>10. calls' \in [Query -> {"unused", "open", "error", "own", "foreign", "twice"}]
  BY DEF WithErrors, SqlInv, SqlFields
<1>11. \A q \in Query : calls'[q] = IF q \notin Waiting(S) THEN calls[q]
                                    ELSE IF calls[q] = "open" THEN "error" ELSE "twice"
  BY DEF WithErrors
<1>12. ASSUME NEW q \in Query
       PROVE  /\ calls'[q] # "twice" /\ (calls'[q] = "foreign" => reused')
              /\ calls'[q] = "open" <=> Queued(q)'
              /\ Queued(q)' => SqlCreator[q] \notin unloaded'
  <2>1. CASE q \in Waiting(S)
    <3>1. PICK e : Holds(qq, e) /\ e.query = q
      BY <1>4, <2>1
    <3>2. calls[q] = "open"
      BY <3>1 DEF SqlInv, OpenIsQueued, Queued
    <3>3. \A f : Holds(rq, f) => f.query # q
      BY <3>1 DEF SqlInv, SqlQueues
    <3>4. ~Queued(q)'
      BY <1>4, <1>8, <2>1, <3>3 DEF Queued
    <3> QED
      BY <1>11, <2>1, <3>2, <3>4
  <2>2. CASE q \notin Waiting(S)
    <3>1. \A e : e.query = q => (Holds(qq', e) <=> Holds(qq, e))
      BY <1>4, <1>8, <2>2
    <3>2. Queued(q)' <=> Queued(q)
      BY <3>1 DEF Queued
    <3>3. calls'[q] = calls[q]
      BY <1>11, <2>2
    <3> QED
      BY <3>2, <3>3 DEF SqlInv, OpenIsQueued
  <2> QED
    BY <2>1, <2>2
<1>13. OpenIsQueued'
  BY <1>12 DEF OpenIsQueued
<1> QED
  BY <1>7, <1>8, <1>9, <1>10, <1>13

(* ReadConfig has the queue's mutex and has waited for the connection's: no *)
(* query runs on the connection that goes.                                  *)
LEMMA ReadConfigKeeps ==
    ASSUME SqlInv, ReadConfig
    PROVE  SqlInv'
<1> DEFINE S == {q \in Query : OnConn[q] = target}
<1>1. /\ main = "rehash" /\ main' = "idle" /\ MayRemove(target) /\ conns' = conns \ {target}
      /\ queueLock' = NobodyHolds /\ calls' = WithErrors(calls, Waiting(S)) /\ qq' = Without(Waiting(S))
      /\ UNCHANGED <<rq, connLock, worker, item, unloaded, reused>>
  BY DEF ReadConfig
<1>2. S \in SUBSET Query /\ \A q \in Query : q \in S <=> OnConn[q] = target
  OBVIOUS
<1> HIDE DEF S
<1>3. /\ calls' \in [Query -> {"unused", "open", "error", "own", "foreign", "twice"}]
      /\ qq' \in Seq(SqlEntry) /\ SqlQueues' /\ OpenIsQueued'
      /\ \A e : Holds(qq', e) <=> Holds(qq, e) /\ e.query \notin S
  BY <1>1, <1>2, Dropped
<1>4. SqlFields'
  BY <1>1, <1>3 DEF SqlInv, SqlFields
<1>5. Executing' <=> Executing
  BY <1>1 DEF Executing
<1>6. SqlLocks'
  BY <1>1, <1>5 DEF SqlInv, SqlLocks, NobodyHolds
<1>7. OwnResults' /\ NoneOfTarget'
  BY <1>1, <1>3, <1>5 DEF SqlInv, OwnResults, NoneOfTarget
<1>8. \A e : Holds(qq, e) => e.query \in Query
  BY EntryTypes DEF SqlInv
<1>9. \A e : Holds(qq', e) => OnConn[e.query] \in conns'
  BY <1>1, <1>2, <1>3, <1>8 DEF SqlInv, OnLiveConns
<1>10. worker = "query" => OnConn[item.query] \in conns'
  <2>1. worker = "query" => item.query \in Query
    BY DEF SqlInv, SqlLocks, Executing, SqlEntry
  <2>2. worker = "query" => connLock[OnConn[item.query]] = "worker"
    BY <2>1 DEF SqlInv, SqlLocks, SqlConns
  <2> QED
    BY <1>1, <2>2 DEF MayRemove, NobodyHolds, SqlInv, OnLiveConns
<1>11. OnLiveConns'
  BY <1>1, <1>9, <1>10 DEF OnLiveConns
<1> QED
  BY <1>3, <1>4, <1>6, <1>7, <1>11 DEF SqlInv

(* OnUnloadModule up to UnlockQueue *)
LEMMA SqlUnloadKeeps ==
    ASSUME SqlInv, SqlUnload
    PROVE  SqlInv'
<1> DEFINE S == {q \in Query : SqlCreator[q] = target}
<1>1. /\ main = "unload" /\ main' = "unlocked"
      /\ queueLock' = NobodyHolds /\ calls' = WithErrors(calls, Waiting(S)) /\ qq' = Without(Waiting(S))
      /\ UNCHANGED <<rq, conns, worker, item, target, unloaded, reused>>
  BY DEF SqlUnload
<1>2. S \in SUBSET Query /\ \A q \in Query : q \in S <=> SqlCreator[q] = target
  OBVIOUS
<1>3. connLock' = connLock \/ \E k \in SqlConns : /\ connLock[k] = NobodyHolds
                                                  /\ connLock' = [connLock EXCEPT ![k] = "main"]
  <2>1. ASSUME qq # <<>>, Head(qq).query \in Waiting(S)
        PROVE  OnConn[Head(qq).query] \in SqlConns
    BY <2>1 DEF Waiting, SqlConns
  <2> QED
    BY <2>1 DEF SqlUnload
<1> HIDE DEF S
<1>4. /\ calls' \in [Query -> {"unused", "open", "error", "own", "foreign", "twice"}]
      /\ qq' \in Seq(SqlEntry) /\ SqlQueues' /\ OpenIsQueued'
      /\ \A e : Holds(qq', e) <=> Holds(qq, e) /\ e.query \notin S
  BY <1>1, <1>2, Dropped
<1>5. connLock \in [SqlConns -> {NobodyHolds, "main", "worker"}]
  BY DEF SqlInv, SqlFields
<1>6. /\ connLock' \in [SqlConns -> {NobodyHolds, "main", "worker"}]
      /\ \A c \in SqlConns : connLock'[c] = "worker" <=> connLock[c] = "worker"
  BY <1>3, <1>5 DEF NobodyHolds
<1>7. SqlFields'
  BY <1>1, <1>4, <1>6 DEF SqlInv, SqlFields
<1>8. Executing' <=> Executing
  BY <1>1 DEF Executing
<1>9. SqlLocks'
  BY <1>1, <1>6, <1>8 DEF SqlInv, SqlLocks, NobodyHolds
<1>10. OwnResults' /\ OnLiveConns'
  BY <1>1, <1>4, <1>8 DEF SqlInv, OwnResults, OnLiveConns
<1>11. \A e : Holds(qq, e) => e.query \in Query
  BY EntryTypes DEF SqlInv
<1>12. NoneOfTarget'
  BY <1>1, <1>2, <1>4, <1>11 DEF NoneOfTarget
<1> QED
  BY <1>4, <1>7, <1>9, <1>10, <1>12 DEF SqlInv

(* The main thread's steps that only take the queue's mutex or tell the *)
(* dispatcher to stop                                                   *)
LEMMA MainBeginsKeeps ==
    ASSUME SqlInv, \/ \E c \in SqlConns : ReadConfigStarts(c)
                   \/ \E m \in SqlModules : UnloadStarts(m)
                   \/ StopWakes
                   \/ StopFlags
    PROVE  SqlInv'
<1>1. UNCHANGED <<qq, rq, calls, reused, unloaded, conns, connLock, item>>
  BY DEF ReadConfigStarts, UnloadStarts, MainLocks, StopWakes, StopFlags
<1>2. worker' = worker \/ worker' = NotifyAll
  BY DEF ReadConfigStarts, UnloadStarts, MainLocks, StopWakes, StopFlags
<1>3. /\ worker' \in {"start", "loop", "waiting", "woken", "query", "relock", "done"}
      /\ \A x \in {"loop", "query", "relock"} : worker' = x <=> worker = x
      /\ Executing' <=> Executing
  BY <1>2, NotifyAllType DEF SqlInv, SqlFields, Executing
<1>4. SqlFields'
  BY <1>1, <1>3 DEF SqlInv, SqlFields, ReadConfigStarts, UnloadStarts, MainLocks, StopWakes, StopFlags
<1>5. SqlLocks'
  BY <1>1, <1>3 DEF SqlInv, SqlLocks, ReadConfigStarts, UnloadStarts, MainLocks, StopWakes, StopFlags,
                    NobodyHolds
<1>6. OwnResults' /\ OnLiveConns'
  BY <1>1, <1>3 DEF SqlInv, OwnResults, OnLiveConns
<1>7. main' # "unlocked"
  BY DEF ReadConfigStarts, UnloadStarts, MainLocks, StopWakes, StopFlags
<1> QED
  BY <1>1, <1>4, <1>5, <1>6, <1>7, SameSql DEF SqlInv, NoneOfTarget

(* There are no queries at first. *)
LEMMA SqlInvInit == SqlInit => SqlInv
<1> SUFFICES ASSUME SqlInit PROVE SqlInv
  OBVIOUS
<1>1. SqlFields /\ SqlLocks
  BY DEF SqlInit, SqlFields, SqlLocks, Executing, NobodyHolds
<1>2. \A e : ~Holds(qq, e) /\ ~Holds(rq, e)
  BY HoldsNone DEF SqlInit
<1>3. SqlQueues
  BY <1>2, HoldsNone DEF SqlInit, SqlQueues
<1>4. OwnResults /\ OnLiveConns /\ NoneOfTarget
  BY <1>2 DEF SqlInit, OwnResults, OnLiveConns, NoneOfTarget
<1>5. OpenIsQueued
  BY <1>2 DEF SqlInit, OpenIsQueued, Queued
<1> QED
  BY <1>1, <1>3, <1>4, <1>5 DEF SqlInv

(* Every step of either thread keeps the invariant. *)
LEMMA SqlInvNext == SqlInv /\ [SqlNext]_sqlVars => SqlInv'
<1> SUFFICES ASSUME SqlInv, [SqlNext]_sqlVars PROVE SqlInv'
  OBVIOUS
<1>1. CASE UNCHANGED sqlVars
  <2>1. UNCHANGED <<qq, rq, queueLock, connLock, conns, worker, item, main, target, unloaded, calls, reused>>
    BY <1>1 DEF sqlVars
  <2>2. SqlFields' /\ SqlLocks'
    BY <2>1 DEF SqlInv, SqlFields, SqlLocks, Executing
  <2>3. OwnResults' /\ OnLiveConns' /\ NoneOfTarget'
    BY <2>1 DEF SqlInv, OwnResults, OnLiveConns, NoneOfTarget, Executing
  <2> QED
    BY <2>1, <2>2, <2>3, SameSql DEF SqlInv
<1>2. CASE WorkerStep
  BY <1>2, WorkerLooksKeeps, WorkerTakesKeeps, DoBlockingQueryKeeps, WorkerReportsKeeps DEF WorkerStep
<1>3. CASE MainStep
  BY <1>3, ReadConfigKeeps, SqlUnloadKeeps, OnNotifyKeeps, MainBeginsKeeps DEF MainStep
<1> QED
  BY <1>1, <1>2, <1>3, SubmitKeeps, OnNotifyKeeps, MainBeginsKeeps DEF SqlNext

(* The invariant gives what is promised of queries. *)
LEMMA SqlInvSafe == SqlInv => QueriesSafe
<1> SUFFICES ASSUME SqlInv PROVE QueriesSafe
  OBVIOUS
<1> DEFINE T == SqlEntry \cup SqlResult
           all == qq \o rq
           names == [n \in DOMAIN all |-> all[n].query]
<1>1. /\ qq \in Seq(SqlEntry) /\ rq \in Seq(SqlResult) /\ qq \in Seq(T) /\ rq \in Seq(T)
      /\ Distinct(qq) /\ Distinct(rq)
  BY DEF SqlInv, SqlFields, SqlQueues
<1> HIDE DEF T
<1>2. \A e : ~(Holds(qq, e) /\ Holds(rq, e))
  BY DEF SqlInv, SqlQueues
<1>3. /\ all \in Seq(T) /\ Distinct(all)
      /\ \A e : Holds(all, e) <=> Holds(qq, e) \/ Holds(rq, e)
  BY <1>1, <1>2, HoldsConcat
<1> HIDE DEF all
<1>4. \A e, f : Holds(all, e) /\ Holds(all, f) /\ e.query = f.query => e = f
  BY <1>3 DEF SqlInv, SqlQueues
<1>5. IsInjective(names)
  <2>1. DOMAIN all = 1..Len(all) /\ DOMAIN names = DOMAIN all
    BY <1>3
  <2>2. ASSUME NEW i \in DOMAIN names, NEW j \in DOMAIN names, names[i] = names[j]
        PROVE  i = j
    <3>1. i \in 1..Len(all) /\ j \in 1..Len(all) /\ all[i].query = all[j].query
      BY <2>1, <2>2
    <3>2. Holds(all, all[i]) /\ Holds(all, all[j])
      BY <3>1 DEF Holds
    <3>3. all[i] = all[j]
      BY <1>4, <3>1, <3>2
    <3> QED
      BY <1>3, <3>1, <3>3 DEF Distinct
  <2> QED
    BY <2>2 DEF IsInjective
<1>6. \A e : e \in Range(all) <=> Holds(all, e) /\ e \in T
  BY <1>3, HoldsRange
<1>7. \A e : Holds(all, e) => e \in T
  BY <1>3 DEF Holds
<1>8. \A q : Queued(q) <=> \E e \in Range(all) : e.query = q
  BY <1>3, <1>6, <1>7 DEF Queued
<1>9. CalledBackOnce
  <2>1. \A q \in Query : calls[q] \in {"unused", "open", "error", "own"} \/ (reused /\ calls[q] = "foreign")
    BY DEF SqlInv, SqlFields, OpenIsQueued
  <2>2. \A q \in Query : calls[q] = "open" <=> \E e \in Range(all) : e.query = q
    BY <1>8 DEF SqlInv, OpenIsQueued
  <2> QED
    BY <1>5, <2>1, <2>2 DEF CalledBackOnce, all
<1>10. /\ \A e : e \in Range(qq) <=> Holds(qq, e) /\ e \in SqlEntry
       /\ \A e : e \in Range(rq) <=> Holds(rq, e) /\ e \in SqlResult
  BY <1>1, HoldsRange
<1>11. UnloadedIsGone
  <2>1. \A e \in Range(qq) \cup Range(rq) : e.query \in Query /\ Queued(e.query)
    BY <1>10, EntryTypes DEF SqlInv, Queued
  <2> QED
    BY <2>1 DEF SqlInv, OpenIsQueued, UnloadedIsGone
<1>12. ConnectionExists
  <2> SUFFICES ASSUME worker = "query"
               PROVE  OnConn[item.query] \in conns /\ connLock[OnConn[item.query]] = "worker"
    BY DEF ConnectionExists
  <2>1. OnConn[item.query] \in conns
    BY DEF SqlInv, OnLiveConns
  <2> QED
    BY <2>1 DEF SqlInv, SqlLocks, SqlFields
<1>13. SqlTypeOK
  <2>1. Range(qq) \subseteq [query : Query, addr : Addr] /\ Range(rq) \subseteq [query : Query, addr : Addr, of : Query]
    BY <1>10 DEF SqlEntry, SqlResult
  <2> QED
    BY <2>1 DEF SqlInv, SqlFields, SqlLocks, SqlTypeOK
<1> QED
  BY <1>9, <1>11, <1>12, <1>13 DEF QueriesSafe

(* The MySQL module, for any queries, modules, connections and addresses: a   *)
(* query is in one queue until it is called back, once, and with its own      *)
(* result unless an address was used again while its old owner ran; the       *)
(* dispatcher only uses connections that exist; no unloaded module has a      *)
(* query left.                                                                *)
THEOREM QueriesAreSafe == SqlSpec => []QueriesSafe
<1>1. SqlInit => SqlInv
  BY SqlInvInit
<1>2. SqlInv /\ [SqlNext]_sqlVars => SqlInv'
  BY SqlInvNext
<1>3. SqlInv => QueriesSafe
  BY SqlInvSafe
<1> QED
  BY <1>1, <1>2, <1>3, PTL DEF SqlSpec
=============================================================================
