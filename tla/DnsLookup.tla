------------------------------ MODULE DnsLookup ------------------------------
(***************************************************************************)
(* The DNS manager of src/modules/core/dns.cpp: the table of requests by   *)
(* id, their timeouts, the cache, the UDP socket, and the modules that     *)
(* create requests and may be unloaded.  A nameserver answers any query    *)
(* that was sent to it, late, more than once, or never.  A callback may    *)
(* create and process further requests before the manager deletes the      *)
(* request it called: level orders the callbacks that are running.         *)
(***************************************************************************)
EXTENDS Integers, FiniteSets, Sequences

CONSTANTS
    Req,            \* DNS::Request objects, each used once
    Asks,           \* Asks[r]: the question of r after Packet::Pack
    Creator,        \* Creator[r]: the module that made r
    Question,
    Id,             \* request ids, 0..MAX_REQUEST_ID
    Timeout,        \* <dns:timeout> in seconds
    Ttl,            \* the lowest TTL of an answer, at most five minutes
    MaxCache,       \* MAX_CACHE_SIZE
    MaxServer       \* bound: rehashes that change the nameserver or the socket

ASSUME DnsAssumption ==
    /\ Asks \in [Req -> Question]
    /\ 0 \in Id
    /\ \A R \in SUBSET Req : Cardinality(R) \in Nat    \* finitely many requests
    /\ Timeout \in Nat /\ Ttl \in Nat /\ MaxCache \in Nat /\ MaxServer \in Nat

None == "none"

ASSUME NoneAssumption == None \notin Req \cup Question

Module == {Creator[r] : r \in Req}

VARIABLES
    life,       \* "new", "waiting", "calling", "kept" or "gone" (deleted)
    reqId,      \* Request::id, 0 until Process chooses one and when r is deleted
    requests,   \* the table: requests[i] is a request or None
    timer,      \* seconds until the request's timeout, -1 without a timer
    level,      \* 0, or how deep in the stack the callback of r is running
    after,      \* what the caller does when the callback returns
    sent,       \* queries a nameserver may answer
    server,     \* which nameserver and socket are in use
    fd,         \* HasFd()
    cache,      \* seconds the entry is valid, -1 when expired, -2 without entry
    dying,      \* modules that are unloaded
    unloading,  \* the manager is being destroyed
    called,     \* history: the callbacks of r, "complete" or "error"
    refused,    \* history: requests for which Process threw
    got         \* history: the question the answer given to r was about

dnsVars == <<life, reqId, requests, timer, level, after, sent, server, fd, cache,
             dying, unloading, called, refused, got>>

NoEntry == -2

Expired == -1

DnsInit ==
    /\ life = [r \in Req |-> "new"]
    /\ reqId = [r \in Req |-> 0]
    /\ requests = [i \in Id |-> None]
    /\ timer = [r \in Req |-> -1]
    /\ level = [r \in Req |-> 0]
    /\ after = [r \in Req |-> "delete"]
    /\ sent = {}
    /\ server = 0
    /\ fd = TRUE
    /\ cache = [q \in Question |-> NoEntry]
    /\ dying = {}
    /\ unloading = FALSE
    /\ called = [r \in Req |-> <<>>]
    /\ refused = {}
    /\ got = [r \in Req |-> None]

Running == {r \in Req : level[r] > 0}

Idle == Running = {}

-----------------------------------------------------------------------------
(* RemoveRequest: the slot of the request's id, when the request owns it. *)
(* A request that was never given an id has id 0.                         *)
RemoveRequestMutant(tab, i, r) == [tab EXCEPT ![i] = None]

RemoveRequest(tab, i, r) ==
    [tab EXCEPT ![i] = IF tab[i] = r THEN None ELSE tab[i]]

(* Process throws: the manager or the creator is being unloaded, or no id *)
(* is free.  Every caller then deletes the request.                       *)
Process_Throws(r) ==
    /\ life[r] = "new"
    /\ \/ unloading
       \/ Creator[r] \in dying
       \/ fd /\ \A i \in Id : requests[i] # None
    /\ life' = [life EXCEPT ![r] = "gone"]
    /\ requests' = RemoveRequest(requests, reqId[r], r)
    /\ refused' = refused \cup {r}
    /\ UNCHANGED <<reqId, timer, level, after, sent, server, fd, cache, dying, unloading, called, got>>

MayAsk(r) == life[r] = "new" /\ ~unloading /\ Creator[r] \notin dying

(* A callback of r begins; its caller resumes, as w says, when it returns *)
Call(r, what, w) ==
    /\ life' = [life EXCEPT ![r] = "calling"]
    /\ level' = [level EXCEPT ![r] = Cardinality(Running) + 1]
    /\ after' = [after EXCEPT ![r] = w]
    /\ called' = [called EXCEPT ![r] = Append(@, what)]

(* Process without a socket: ERROR_DISABLED, and nothing deletes the request *)
Process_Disabled(r) ==
    /\ MayAsk(r)
    /\ ~fd
    /\ Call(r, "error", "keep")
    /\ UNCHANGED <<reqId, requests, timer, sent, server, fd, cache, dying, unloading, refused, got>>

(* The free id that Process finds at random or by its sequential scan *)
FreeId(i) == fd /\ requests[i] = None

(* CheckCache erases an entry that has expired *)
CheckCache(q) == [cache EXCEPT ![q] = IF @ = Expired THEN NoEntry ELSE @]

(* Process finds the answer in the cache: the callback runs at once, while *)
(* the request holds its id and has no timer.                              *)
Process_Cached(r, i) ==
    /\ MayAsk(r)
    /\ FreeId(i)
    /\ cache[Asks[r]] >= 0
    /\ reqId' = [reqId EXCEPT ![r] = i]
    /\ requests' = [requests EXCEPT ![i] = r]
    /\ Call(r, "complete", "delete")
    /\ got' = [got EXCEPT ![r] = Asks[r]]
    /\ UNCHANGED <<timer, sent, server, fd, cache, dying, unloading, refused>>

(* Process sends the query and starts the timer *)
Process_Sent(r, i) ==
    /\ MayAsk(r)
    /\ FreeId(i)
    /\ cache[Asks[r]] < 0
    /\ reqId' = [reqId EXCEPT ![r] = i]
    /\ requests' = [requests EXCEPT ![i] = r]
    /\ cache' = CheckCache(Asks[r])
    /\ sent' = sent \cup {[id |-> i, question |-> Asks[r], server |-> server]}
    /\ timer' = [timer EXCEPT ![r] = Timeout]
    /\ life' = [life EXCEPT ![r] = "waiting"]
    /\ UNCHANGED <<level, after, server, fd, dying, unloading, called, refused, got>>

(* Process cannot send the query: it throws after it has stored the request *)
(* in the table, and the caller's delete takes the request out again.       *)
Process_Unsent(r, i) ==
    /\ MayAsk(r)
    /\ FreeId(i)
    /\ cache[Asks[r]] < 0
    /\ cache' = CheckCache(Asks[r])
    /\ requests' = RemoveRequest([requests EXCEPT ![i] = r], i, r)
    /\ life' = [life EXCEPT ![r] = "gone"]
    /\ refused' = refused \cup {r}
    /\ UNCHANGED <<reqId, timer, level, after, sent, server, fd, dying, unloading, called, got>>

-----------------------------------------------------------------------------
(* A packet from the nameserver in use, for an id in use and the question *)
(* that was asked.  Any other packet is dropped.                          *)
MatchesMutant(p, r) == p.server = server /\ requests[p.id] = r

Matches(p, r) ==
    /\ p.server = server
    /\ requests[p.id] = r
    /\ Asks[r] = p.question

(* good: a valid reply with records.  Otherwise the reply is malformed, has *)
(* an error code or no records, and OnError is called.                      *)
OnEventHandlerRead(p, r, good) ==
    /\ Idle
    /\ fd
    /\ p \in sent
    /\ Matches(p, r)
    /\ IF good THEN Call(r, "complete", "store") ELSE Call(r, "error", "delete")
    /\ got' = [got EXCEPT ![r] = IF good THEN p.question ELSE None]
    /\ UNCHANGED <<reqId, requests, timer, sent, server, fd, cache, dying, unloading, refused>>

(* Without a socket the timer is started again instead of the callback *)
RequestTickMutant(r) ==
    /\ Idle
    /\ timer[r] = 0
    /\ IF fd
       THEN timer' = [timer EXCEPT ![r] = -1] /\ Call(r, "error", "delete")
       ELSE timer' = [timer EXCEPT ![r] = Timeout] /\ UNCHANGED <<life, level, after, called>>
    /\ UNCHANGED <<reqId, requests, sent, server, fd, cache, dying, unloading, refused, got>>

(* Request::Tick, the timeout *)
RequestTick(r) ==
    /\ Idle
    /\ timer[r] = 0
    /\ timer' = [timer EXCEPT ![r] = -1]
    /\ Call(r, "error", "delete")
    /\ UNCHANGED <<reqId, requests, sent, server, fd, cache, dying, unloading, refused, got>>

(* AddCache empties a full cache before it stores the answer *)
AddCache(q) ==
    LET kept == IF Cardinality({p \in Question : cache[p] # NoEntry}) >= MaxCache
                THEN [p \in Question |-> NoEntry]
                ELSE cache
    IN  [kept EXCEPT ![q] = Ttl]

(* The innermost callback returns; its caller stores the answer when the *)
(* callback was OnLookupComplete for a packet, and deletes the request:  *)
(* the destructors of Request and Timer free the id and the timer.       *)
Return(r) ==
    /\ level[r] > 0
    /\ level[r] = Cardinality(Running)
    /\ level' = [level EXCEPT ![r] = 0]
    /\ cache' = IF after[r] = "store" THEN AddCache(Asks[r]) ELSE cache
    /\ IF after[r] = "keep"
       THEN /\ life' = [life EXCEPT ![r] = "kept"]
            /\ UNCHANGED <<reqId, requests, timer>>
       ELSE /\ life' = [life EXCEPT ![r] = "gone"]
            /\ requests' = RemoveRequest(requests, reqId[r], r)
            /\ timer' = [timer EXCEPT ![r] = -1]
            /\ reqId' = [reqId EXCEPT ![r] = 0]
    /\ UNCHANGED <<after, sent, server, fd, dying, unloading, called, refused, got>>

(* MyManager::Tick purges expired entries every five minutes *)
PurgeCache ==
    /\ Idle
    /\ ~unloading
    /\ cache' = [q \in Question |-> IF cache[q] = Expired THEN NoEntry ELSE cache[q]]
    /\ UNCHANGED <<life, reqId, requests, timer, level, after, sent, server, fd, dying, unloading, called, refused, got>>

(* A second passes.  TickTimers runs every timer that is due before the *)
(* clock is read again.                                                 *)
DnsSecond ==
    /\ Idle
    /\ \A r \in Req : timer[r] # 0
    /\ timer' = [r \in Req |-> IF timer[r] > 0 THEN timer[r] - 1 ELSE timer[r]]
    /\ cache' = [q \in Question |-> IF cache[q] >= 0 THEN cache[q] - 1 ELSE cache[q]]
    /\ UNCHANGED <<life, reqId, requests, level, after, sent, server, fd, dying, unloading, called, refused, got>>

(* ReadConfig and Rehash: the socket is closed and, unless DNS is disabled  *)
(* or the new socket fails, replaced.  Requests in the table stay there.    *)
DnsReadConfig ==
    /\ Idle
    /\ ~unloading
    /\ server < MaxServer
    /\ server' = server + 1
    /\ fd' \in BOOLEAN
    /\ cache' = [q \in Question |-> NoEntry]
    /\ UNCHANGED <<life, reqId, requests, timer, level, after, sent, dying, unloading, called, refused, got>>

(* The requests S are called with OnError and deleted, one after another.  *)
(* Their creators cannot start another: Process throws (dns.cpp:506, 512). *)
EndRequests(S) ==
    /\ called' = [r \in Req |-> IF r \in S THEN Append(called[r], "error") ELSE called[r]]
    /\ life' = [r \in Req |-> IF r \in S THEN "gone" ELSE life[r]]
    /\ requests' = [i \in Id |-> IF requests[i] \in S THEN None ELSE requests[i]]
    /\ timer' = [r \in Req |-> IF r \in S THEN -1 ELSE timer[r]]
    /\ reqId' = [r \in Req |-> IF r \in S THEN 0 ELSE reqId[r]]

InTable == {r \in Req : \E i \in Id : requests[i] = r}

(* A module is unloaded: ModuleDNS::OnUnloadModule ends its requests *)
OnUnloadModule(m) ==
    /\ Idle
    /\ ~unloading
    /\ m \notin dying
    /\ dying' = dying \cup {m}
    /\ EndRequests({r \in InTable : Creator[r] = m})
    /\ UNCHANGED <<level, after, sent, server, fd, cache, unloading, refused, got>>

(* The manager is destroyed with its module *)
DestroyManager ==
    /\ Idle
    /\ ~unloading
    /\ unloading' = TRUE
    /\ fd' = FALSE
    /\ cache' = [q \in Question |-> NoEntry]
    /\ EndRequests(InTable)
    /\ UNCHANGED <<level, after, sent, server, dying, refused, got>>

Packet == [id : Id, question : Question, server : 0..MaxServer]

DnsNext ==
    \/ \E r \in Req : Process_Throws(r) \/ Process_Disabled(r) \/ RequestTick(r) \/ Return(r)
    \/ \E r \in Req, i \in Id : Process_Cached(r, i) \/ Process_Sent(r, i) \/ Process_Unsent(r, i)
    \/ \E p \in Packet, r \in Req, good \in BOOLEAN : OnEventHandlerRead(p, r, good)
    \/ \E m \in Module : OnUnloadModule(m)
    \/ PurgeCache \/ DnsSecond \/ DnsReadConfig \/ DestroyManager

(* Time passes, timers that are due run, and callbacks return *)
DnsFairness ==
    /\ SF_dnsVars(DnsSecond)
    /\ \A r \in Req : SF_dnsVars(RequestTick(r)) /\ WF_dnsVars(Return(r))

DnsSafe == DnsInit /\ [][DnsNext]_dnsVars

DnsSpec == DnsSafe /\ DnsFairness

-----------------------------------------------------------------------------
DnsTypeOK ==
    /\ life \in [Req -> {"new", "waiting", "calling", "kept", "gone"}]
    /\ reqId \in [Req -> Id]
    /\ requests \in [Id -> Req \cup {None}]
    /\ timer \in [Req -> Int] /\ \A r \in Req : timer[r] >= -1 /\ timer[r] <= Timeout
    /\ level \in [Req -> Nat]
    /\ after \in [Req -> {"delete", "store", "keep"}]
    /\ sent \subseteq Packet
    /\ server \in 0..MaxServer
    /\ fd \in BOOLEAN
    /\ cache \in [Question -> NoEntry..Ttl]
    /\ dying \subseteq Module
    /\ unloading \in BOOLEAN
    /\ refused \subseteq Req
    /\ got \in [Req -> Question \cup {None}]

(* The table holds exactly the live requests, each under its own id: a     *)
(* request that waits for a packet can be found by it, no id is leaked or  *)
(* taken from its owner, and no slot or timer keeps a deleted request.     *)
TableExact ==
    /\ DnsTypeOK
    /\ \A i \in Id : requests[i] # None =>
           /\ reqId[requests[i]] = i
           /\ life[requests[i]] \in {"waiting", "calling"}
    /\ \A r \in Req :
           /\ life[r] = "waiting" => requests[reqId[r]] = r /\ timer[r] >= 0
           /\ life[r] \in {"gone", "kept", "new"} => timer[r] = -1

(* The manager keeps its promise to the creator of a request: refused, or  *)
(* called back exactly once with an answer to its own question or an       *)
(* error, whatever packets arrive, modules unload and callbacks ask.       *)
Outcome(r) ==
    IF r \in refused THEN IF called[r] = <<>> THEN "refused" ELSE "called although refused"
    ELSE IF called[r] = <<>> THEN IF life[r] = "new" THEN "new" ELSE "asked"
    ELSE IF Len(called[r]) = 1 THEN called[r][1] ELSE "called twice"

Promise == INSTANCE DnsPromise WITH
    state <- [r \in Req |-> Outcome(r)],
    answer <- [r \in Req |-> IF got[r] = None THEN "no answer" ELSE got[r]]

(* Every request obeys DnsPromise at each step *)
PromiseKept == Promise!PromiseSafe

(* Every accepted request is called back in the end, by its timeout if by *)
(* nothing else.                                                          *)
AlwaysAnswered == Promise!PromiseLive
==============================================================================
