----------------------------- MODULE LdapThread -----------------------------
(***************************************************************************)
(* One LDAP service (modules/extra/ldap.cpp): the main thread queues       *)
(* requests, the service's thread takes them in batches and runs them.     *)
(* The queue's mutex is held only over straight pieces of code, each a     *)
(* step here; process_mutex is held over a whole batch.  External: the     *)
(* LDAP server, which answers every request or fails it.                   *)
(***************************************************************************)
EXTENDS Naturals, Sequences, Functions, Erasing

CONSTANTS
    Request,    \* requests that modules make, each once
    Interface   \* [Request -> module whose interface is called back]

ASSUME LdapAssumption == Request # {}

VARIABLES
    queries,        \* LDAPService::queries
    results,        \* LDAPService::results
    batch,          \* q of SendRequests: requests in neither queue
    processMutex,   \* the thread that holds process_mutex
    service,        \* what the service's thread does next
    caller,         \* what the main thread does next
    leaving,        \* the module OnUnloadModule is about
    signalled,      \* NotifyParent() was called
    ending,         \* Thread::stopping
    absent,         \* modules that were unloaded
    outcome         \* history: [request -> what became of it]

ldapVars == <<queries, results, batch, processMutex, service, caller, leaving, signalled, ending,
              absent, outcome>>

LdapModules == {Interface[r] : r \in Request}

LdapInit ==
    /\ queries = <<>> /\ results = <<>> /\ batch = <<>>
    /\ processMutex = "nobody"
    /\ service = "loop"
    /\ caller = "idle" /\ leaving = "none"
    /\ signalled = FALSE /\ ending = FALSE /\ absent = {}
    /\ outcome = [r \in Request |-> "unused"]

-----------------------------------------------------------------------------
(* The service's thread *)

(* OnStart: while (!IsStopping()) *)
ServiceLoop ==
    /\ service = "loop"
    /\ service' = IF ending THEN "done" ELSE "look"
    /\ UNCHANGED <<queries, results, batch, processMutex, caller, leaving, signalled, ending, absent, outcome>>

(* ... the rest of its body, up to SendRequests *)
ServiceLooks ==
    /\ service \in {"look", "notified"}
    /\ service' = IF service = "look" /\ queries = <<>> THEN "asleep" ELSE "process"
    /\ UNCHANGED <<queries, results, batch, processMutex, caller, leaving, signalled, ending, absent, outcome>>

(* SendRequests, which takes all the queries *)
ServiceLocks ==
    /\ service = "process" /\ processMutex = "nobody"
    /\ processMutex' = "service"
    /\ service' = "swap"
    /\ UNCHANGED <<queries, results, batch, caller, leaving, signalled, ending, absent, outcome>>

ServiceSwaps ==
    /\ service = "swap"
    /\ batch' = queries
    /\ queries' = <<>>
    /\ IF queries = <<>>
       THEN processMutex' = "nobody" /\ service' = "loop"
       ELSE UNCHANGED processMutex /\ service' = "send"
    /\ UNCHANGED <<results, caller, leaving, signalled, ending, absent, outcome>>

(* One request is run, and once more after Reconnect() if the server is down *)
ServiceRuns ==
    /\ service = "send" /\ batch # <<>>
    /\ results' = Append(results, Head(batch))
    /\ batch' = Tail(batch)
    /\ UNCHANGED <<queries, processMutex, service, caller, leaving, signalled, ending, absent, outcome>>

ServiceNotifies ==
    /\ service = "send" /\ batch = <<>>
    /\ signalled' = TRUE
    /\ processMutex' = "nobody"
    /\ service' = "loop"
    /\ UNCHANGED <<queries, results, batch, caller, leaving, ending, absent, outcome>>

-----------------------------------------------------------------------------
(* The main thread *)

Wakes == IF service = "asleep" THEN "notified" ELSE service

(* Bind, Search, Compare and the others: QueueRequest *)
QueueRequest(r) ==
    /\ caller = "idle" /\ outcome[r] = "unused" /\ Interface[r] \notin absent
    /\ queries' = Append(queries, r)
    /\ outcome' = [outcome EXCEPT ![r] = "open"]
    /\ service' = Wakes
    /\ UNCHANGED <<results, batch, processMutex, caller, leaving, signalled, ending, absent>>

(* Every request of S is called back and deleted, or just deleted *)
Ended(S, how) == [r \in Request |->
    IF r \notin S THEN outcome[r] ELSE IF outcome[r] = "open" THEN how ELSE "twice"]

DeliverResults ==
    /\ caller = "idle" /\ signalled
    /\ signalled' = FALSE
    /\ outcome' = Ended(Range(results), "called")
    /\ results' = <<>>
    /\ UNCHANGED <<queries, batch, processMutex, service, caller, leaving, ending, absent>>

LdapUnloadStarts(m) ==
    /\ caller = "idle" /\ m \notin absent
    /\ caller' = "unload" /\ leaving' = m
    /\ UNCHANGED <<queries, results, batch, processMutex, service, signalled, ending, absent, outcome>>

(* process_mutex is got: no request is outside the two queues *)
MayPurgeMutant == caller = "unload"

MayPurge == processMutex = "nobody"

(* OnUnloadModule: the module's requests are deleted and not called *)
LdapUnload ==
    LET theirs == {r \in Range(queries) \cup Range(results) : Interface[r] = leaving}
        Others(s) == Erased(s, theirs)
    IN  /\ caller = "unload"
        /\ MayPurge
        /\ queries' = Others(queries) /\ results' = Others(results)
        /\ outcome' = Ended(theirs, "deleted")
        /\ absent' = absent \cup {leaving}
        /\ caller' = "idle" /\ leaving' = "none"
        /\ UNCHANGED <<batch, processMutex, service, signalled, ending>>

(* ReadConfig without this database, or ~ModuleLDAP: Thread::Stop ... *)
LdapStopWakes ==
    /\ caller = "idle"
    /\ service' = Wakes
    /\ caller' = "waking"
    /\ UNCHANGED <<queries, results, batch, processMutex, leaving, signalled, ending, absent, outcome>>

LdapStopFlags ==
    /\ caller = "waking"
    /\ ending' = TRUE
    /\ caller' = "join"
    /\ UNCHANGED <<queries, results, batch, processMutex, service, leaving, signalled, absent, outcome>>

(* ... then OnNotify, and ~LDAPService fails the requests that are left *)
LeftOver == Range(results) \cup Range(queries)

LdapStopJoins ==
    /\ caller = "join" /\ service = "done"
    /\ outcome' = Ended(LeftOver, "called")
    /\ results' = <<>> /\ queries' = <<>>
    /\ caller' = "stopped"
    /\ UNCHANGED <<batch, processMutex, service, leaving, signalled, ending, absent>>

-----------------------------------------------------------------------------

ServiceStep ==
    \/ ServiceLoop
    \/ ServiceLooks
    \/ ServiceLocks
    \/ ServiceSwaps
    \/ ServiceRuns
    \/ ServiceNotifies

CallerStep ==
    \/ LdapUnload
    \/ LdapStopFlags
    \/ LdapStopJoins

LdapNext ==
    \/ ServiceStep
    \/ CallerStep
    \/ \E r \in Request : QueueRequest(r)
    \/ DeliverResults
    \/ \E m \in LdapModules : LdapUnloadStarts(m)
    \/ LdapStopWakes

(* Both threads are scheduled, a mutex that is free again and again is got, *)
(* and the main thread reads the socket that NotifyParent wrote to.         *)
LdapFairness ==
    /\ SF_ldapVars(ServiceStep)
    /\ SF_ldapVars(CallerStep)
    /\ SF_ldapVars(DeliverResults)

LdapSpec == LdapInit /\ [][LdapNext]_ldapVars /\ LdapFairness

-----------------------------------------------------------------------------

LdapTypeOK ==
    /\ Range(queries) \cup Range(results) \cup Range(batch) \subseteq Request
    /\ processMutex \in {"nobody", "service"}
    /\ service \in {"loop", "look", "asleep", "notified", "process", "swap", "send", "done"}
    /\ caller \in {"idle", "unload", "waking", "join", "stopped"}
    /\ absent \subseteq LdapModules
    /\ outcome \in [Request -> {"unused", "open", "called", "deleted", "twice"}]

(* A request is in exactly one of the queues and the batch until it is called *)
(* or deleted, which happens once; when the service is gone it has happened   *)
(* to every request (~LDAPService).                                           *)
RequestsEndOnce ==
    LET all == queries \o batch \o results
    IN  /\ \A r \in Request : /\ outcome[r] # "twice"
                              /\ (outcome[r] = "open") <=> (r \in Range(all))
        /\ IsInjective(all)
        /\ caller = "stopped" => \A r \in Request : outcome[r] # "open"

(* Nothing of an unloaded module is left anywhere, the running batch included: *)
(* OnUnloadModule holds process_mutex.                                         *)
AbsentIsGone == \A r \in Range(queries \o batch \o results) : Interface[r] \notin absent

(* Requests end once and are gone with the module that asked. *)
RequestsSafe == LdapTypeOK /\ RequestsEndOnce /\ AbsentIsGone

(* The thread sleeps and the flag that tells it to stop was set after it was woken *)
LdapWakeupLost == caller = "join" /\ service = "asleep"

(* A request is called back, or its module is unloaded, or the service is *)
(* being stopped.                                                         *)
RequestAnswered ==
    \A r \in Request : (outcome[r] = "open") ~> (outcome[r] # "open" \/ caller \in {"waking", "join"})

(* Unloading a module and removing a database end: the main thread does not *)
(* hang on process_mutex or in join(), unless the wake-up of Thread::Stop   *)
(* was lost.                                                                *)
CallerReturns == (caller \notin {"idle", "stopped"}) ~> (caller \in {"idle", "stopped"} \/ LdapWakeupLost)

=============================================================================
