----------------------------- MODULE DnsProofs ------------------------------
(***************************************************************************)
(* Proofs about what a server waits for before it connects: the chain of   *)
(* attempts of an autoconnect block always has one that goes on            *)
(* (Autoconnect), the DNS manager's table of requests is exact, and it     *)
(* keeps what it promises the modules that ask (DnsPromise).               *)
(***************************************************************************)
EXTENDS Autoconnect, DnsLookup, TLAPS

(* The provers of every step, in their order *)
USE ZenonT(3), SMTT(20)

-----------------------------------------------------------------------------
(* For any requests, ids, modules, timeouts and cache: the table of        *)
(* requests of the DNS manager is exact.                                   *)

(* The callbacks that a request may have had *)
NoCalls == <<>>

Completed == <<"complete">>

Failed == <<"error">>

(* What the life of a request says about its other fields *)
RequestOK(r) ==
    /\ level[r] > 0 <=> life[r] = "calling"
    /\ life[r] = "new" => called[r] = NoCalls /\ r \notin refused /\ timer[r] = -1
    /\ life[r] = "waiting" => /\ called[r] = NoCalls /\ r \notin refused
                              /\ requests[reqId[r]] = r /\ timer[r] >= 0
    /\ life[r] \in {"calling", "kept"} => called[r] # NoCalls /\ r \notin refused
    /\ life[r] = "calling" /\ after[r] = "keep" => timer[r] = -1
    /\ life[r] \in {"gone", "kept"} => timer[r] = -1
    /\ life[r] = "gone" => (called[r] = NoCalls <=> r \in refused)
    /\ got[r] = IF called[r] = Completed THEN Asks[r] ELSE None

(* An occupied slot belongs to a request that has its id; one that was called  *)
(* with ERROR_DISABLED has none.                                               *)
SlotOK(i) ==
    requests[i] # None =>
        /\ reqId[requests[i]] = i
        /\ \/ life[requests[i]] = "waiting"
           \/ life[requests[i]] = "calling" /\ after[requests[i]] # "keep"

(* The part of the type invariant that the steps below use *)
Shapes ==
    /\ life \in [Req -> {"new", "waiting", "calling", "kept", "gone"}]
    /\ reqId \in [Req -> Id]
    /\ requests \in [Id -> Req \cup {None}]
    /\ timer \in [Req -> Int]
    /\ level \in [Req -> Nat]
    /\ after \in [Req -> {"delete", "store", "keep"}]
    /\ called \in [Req -> {NoCalls, Completed, Failed}]
    /\ got \in [Req -> Question \cup {None}]

DnsInv ==
    /\ Shapes
    /\ \A r \in Req : RequestOK(r)
    /\ \A i \in Id : SlotOK(i)

(* The constants of DnsLookup, as the steps below use them *)
LEMMA Constants ==
    /\ Asks \in [Req -> Question] /\ 0 \in Id
    /\ Timeout \in Nat /\ Ttl \in Nat /\ MaxCache \in Nat /\ MaxServer \in Nat
    /\ None \notin Req /\ None \notin Question
BY DnsAssumption, NoneAssumption

(* The three histories of callbacks differ, and one callback leads from the *)
(* first to the others.                                                     *)
LEMMA Histories ==
    /\ NoCalls # Completed /\ NoCalls # Failed /\ Completed # Failed
    /\ Append(NoCalls, "complete") = Completed /\ Append(NoCalls, "error") = Failed
    /\ Len(Completed) = 1 /\ Completed[1] = "complete"
    /\ Len(Failed) = 1 /\ Failed[1] = "error"
    /\ NoCalls = <<>>
BY DEF NoCalls, Completed, Failed

(* The manager starts with an empty table. *)
LEMMA DnsInitInv == DnsInit => DnsInv
<1> SUFFICES ASSUME DnsInit PROVE DnsInv
  OBVIOUS
<1>1. Shapes
  BY Constants, Histories DEF DnsInit, Shapes
<1>2. ASSUME NEW r \in Req PROVE RequestOK(r)
  BY Histories DEF DnsInit, RequestOK
<1>3. ASSUME NEW i \in Id PROVE SlotOK(i)
  BY DEF DnsInit, SlotOK
<1> QED
  BY <1>1, <1>2, <1>3 DEF DnsInv, DnsInit

(* A request that a step leaves alone. *)
LEMMA Untouched ==
    ASSUME NEW q \in Req, RequestOK(q),
           life'[q] = life[q], level'[q] = level[q], timer'[q] = timer[q], after'[q] = after[q],
           called'[q] = called[q], got'[q] = got[q], q \in refused' <=> q \in refused,
           life[q] = "waiting" => reqId'[q] = reqId[q] /\ requests'[reqId[q]] = requests[reqId[q]]
    PROVE  RequestOK(q)'
BY DEF RequestOK

(* A callback begins one level above those that are running. *)
LEMMA NewLevel == Cardinality(Running) + 1 \in Nat /\ Cardinality(Running) + 1 > 0
<1>1. Running \in SUBSET Req
  BY DEF Running
<1>2. Cardinality(Running) \in Nat
  BY <1>1, DnsAssumption
<1> QED
  BY <1>2

(* Refusing a request: its slot, if it had one, is free afterwards. *)
LEMMA RefuseInv ==
    ASSUME DnsInv, NEW r \in Req, Process_Throws(r)
    PROVE  DnsInv'
<1> USE Constants DEF DnsInv
<1>1. /\ life[r] = "new" /\ RequestOK(r) /\ Shapes
      /\ life' = [life EXCEPT ![r] = "gone"]
      /\ \A i \in Id : requests[i] # r
  BY DEF Process_Throws, SlotOK, Shapes
<1>2. requests' = requests
  BY <1>1 DEF Process_Throws, RemoveRequest, Shapes
<1>3. Shapes'
  BY <1>1, <1>2 DEF Process_Throws, Shapes
<1>4. ASSUME NEW q \in Req PROVE RequestOK(q)'
  BY <1>1, <1>2 DEF Process_Throws, RequestOK, Shapes
<1>5. ASSUME NEW i \in Id PROVE SlotOK(i)'
  BY <1>1, <1>2 DEF Process_Throws, SlotOK, Shapes
<1> QED
  BY <1>3, <1>4, <1>5

(* What a callback changes, when the request had none before. *)
LEMMA CallEffect ==
    ASSUME DnsInv, NEW r \in Req, called[r] = NoCalls,
           NEW what \in {"complete", "error"}, NEW w \in {"delete", "store", "keep"},
           Call(r, what, w)
    PROVE  /\ called' = [called EXCEPT ![r] = IF what = "complete" THEN Completed ELSE Failed]
           /\ called' \in [Req -> {NoCalls, Completed, Failed}]
           /\ life' = [life EXCEPT ![r] = "calling"]
           /\ life' \in [Req -> {"new", "waiting", "calling", "kept", "gone"}]
           /\ after' = [after EXCEPT ![r] = w]
           /\ after' \in [Req -> {"delete", "store", "keep"}]
           /\ level' \in [Req -> Nat]
           /\ level'[r] > 0
           /\ \A q \in Req \ {r} : level'[q] = level[q]
<1>1. Shapes
  BY DEF DnsInv
<1>2. called' = [called EXCEPT ![r] = IF what = "complete" THEN Completed ELSE Failed]
  BY <1>1, Histories DEF Call, Shapes
<1>3. level' = [level EXCEPT ![r] = Cardinality(Running) + 1]
  BY DEF Call
<1>4. level' \in [Req -> Nat] /\ level'[r] > 0 /\ \A q \in Req \ {r} : level'[q] = level[q]
  BY <1>1, <1>3, NewLevel DEF Shapes
<1> QED
  BY <1>1, <1>2, <1>4 DEF Call, Shapes

(* Without a socket the request is called at once and holds no slot. *)
LEMMA DisabledInv ==
    ASSUME DnsInv, NEW r \in Req, Process_Disabled(r)
    PROVE  DnsInv'
<1> USE Constants DEF DnsInv
<1>1. /\ life[r] = "new" /\ called[r] = NoCalls /\ Shapes
      /\ \A i \in Id : requests[i] # r
  BY DEF Process_Disabled, MayAsk, RequestOK, SlotOK, Shapes
<1>2. /\ called' = [called EXCEPT ![r] = Failed]
      /\ called' \in [Req -> {NoCalls, Completed, Failed}]
      /\ life' = [life EXCEPT ![r] = "calling"]
      /\ life' \in [Req -> {"new", "waiting", "calling", "kept", "gone"}]
      /\ after' = [after EXCEPT ![r] = "keep"]
      /\ after' \in [Req -> {"delete", "store", "keep"}]
      /\ level' \in [Req -> Nat] /\ level'[r] > 0
      /\ \A q \in Req \ {r} : level'[q] = level[q]
  BY <1>1, CallEffect DEF Process_Disabled
<1>3. Shapes'
  BY <1>1, <1>2 DEF Process_Disabled, Shapes
<1>4. ASSUME NEW q \in Req PROVE RequestOK(q)'
  BY <1>1, <1>2, Histories DEF Process_Disabled, RequestOK, SlotOK, Shapes
<1>5. ASSUME NEW j \in Id PROVE SlotOK(j)'
  BY <1>1, <1>2 DEF Process_Disabled, SlotOK, Shapes
<1> QED
  BY <1>3, <1>4, <1>5

(* An answer from the cache: the request is called while it holds the slot. *)
LEMMA CachedInv ==
    ASSUME DnsInv, NEW r \in Req, NEW i \in Id, Process_Cached(r, i)
    PROVE  DnsInv'
<1> USE Constants DEF DnsInv
<1>1. /\ life[r] = "new" /\ called[r] = NoCalls /\ requests[i] = None /\ Shapes
      /\ \A j \in Id : requests[j] # r
  BY DEF Process_Cached, MayAsk, FreeId, RequestOK, SlotOK, Shapes
<1>2. /\ called' = [called EXCEPT ![r] = Completed]
      /\ called' \in [Req -> {NoCalls, Completed, Failed}]
      /\ life' = [life EXCEPT ![r] = "calling"]
      /\ life' \in [Req -> {"new", "waiting", "calling", "kept", "gone"}]
      /\ after' = [after EXCEPT ![r] = "delete"]
      /\ after' \in [Req -> {"delete", "store", "keep"}]
      /\ level' \in [Req -> Nat] /\ level'[r] > 0
      /\ \A q \in Req \ {r} : level'[q] = level[q]
  BY <1>1, CallEffect DEF Process_Cached
<1>3. Shapes'
  BY <1>1, <1>2 DEF Process_Cached, Shapes
<1>4. /\ reqId' = [reqId EXCEPT ![r] = i] /\ requests' = [requests EXCEPT ![i] = r]
      /\ got' = [got EXCEPT ![r] = Asks[r]] /\ UNCHANGED <<timer, refused>>
  BY DEF Process_Cached
<1>5. ASSUME NEW q \in Req PROVE RequestOK(q)'
  <2>1. CASE q = r
    <3>1. /\ life'[r] = "calling" /\ level'[r] > 0 /\ r \notin refused' /\ after'[r] = "delete"
          /\ called'[r] = Completed /\ got'[r] = Asks[r]
      BY <1>1, <1>2, <1>4 DEF RequestOK, Shapes
    <3> QED
      BY <2>1, <3>1, Histories DEF RequestOK
  <2>2. CASE q # r
    <3>1. /\ life'[q] = life[q] /\ level'[q] = level[q] /\ after'[q] = after[q]
          /\ called'[q] = called[q] /\ got'[q] = got[q] /\ reqId'[q] = reqId[q]
      BY <1>1, <1>2, <1>4, <2>2 DEF Shapes
    <3>2. life[q] = "waiting" => requests'[reqId[q]] = requests[reqId[q]]
      BY <1>1, <1>4 DEF RequestOK, Shapes
    <3> QED
      BY <1>4, <3>1, <3>2, Untouched
  <2> QED
    BY <2>1, <2>2
<1>6. ASSUME NEW j \in Id PROVE SlotOK(j)'
  BY <1>1, <1>2, <1>4 DEF SlotOK, Shapes
<1> QED
  BY <1>3, <1>5, <1>6

(* A query is sent: the request owns a free slot and has a timer. *)
LEMMA SentInv ==
    ASSUME DnsInv, NEW r \in Req, NEW i \in Id, Process_Sent(r, i)
    PROVE  DnsInv'
<1> USE DEF DnsInv
<1>1. life[r] = "new" /\ requests[i] = None /\ Shapes
  BY DEF Process_Sent, MayAsk, FreeId
<1>2. called[r] = NoCalls /\ r \notin refused /\ ~(level[r] > 0)
  BY <1>1 DEF RequestOK
<1>3. \A j \in Id : requests[j] # r
  BY <1>1, Constants DEF SlotOK
<1>4. /\ reqId' = [reqId EXCEPT ![r] = i] /\ requests' = [requests EXCEPT ![i] = r]
      /\ timer' = [timer EXCEPT ![r] = Timeout] /\ life' = [life EXCEPT ![r] = "waiting"]
      /\ UNCHANGED <<level, after, called, refused, got>>
  BY DEF Process_Sent
<1>5. Timeout \in Int /\ Timeout >= 0
  BY Constants
<1>6. Shapes'
  BY <1>1, <1>4, <1>5 DEF Shapes
<1>7. ASSUME NEW q \in Req PROVE RequestOK(q)'
  <2>1. CASE q = r
    <3>1. /\ life'[r] = "waiting" /\ timer'[r] >= 0 /\ requests'[reqId'[r]] = r
      BY <1>1, <1>4, <1>5 DEF Shapes
    <3>2. got'[r] = IF called'[r] = Completed THEN Asks[r] ELSE None
      BY <1>4 DEF RequestOK
    <3> QED
      BY <1>2, <1>4, <2>1, <3>1, <3>2 DEF RequestOK
  <2>2. CASE q # r
    <3>1. life'[q] = life[q] /\ timer'[q] = timer[q] /\ reqId'[q] = reqId[q]
      BY <1>1, <1>4, <2>2 DEF Shapes
    <3>2. life[q] = "waiting" => requests'[reqId[q]] = requests[reqId[q]]
      BY <1>1, <1>4, Constants DEF RequestOK, Shapes
    <3> QED
      BY <1>4, <3>1, <3>2, Untouched
  <2> QED
    BY <2>1, <2>2
<1>8. ASSUME NEW j \in Id PROVE SlotOK(j)'
  <2>1. CASE j = i
    <3>1. requests'[j] = r /\ reqId'[r] = j /\ life'[r] = "waiting"
      BY <1>1, <1>4, <2>1 DEF Shapes
    <3> QED
      BY <3>1 DEF SlotOK
  <2>2. CASE j # i
    <3>1. requests'[j] = requests[j] /\ requests[j] # r /\ requests[j] \in Req \cup {None}
      BY <1>1, <1>3, <1>4, <2>2 DEF Shapes
    <3>2. CASE requests[j] # None
      <4>1. /\ life'[requests[j]] = life[requests[j]] /\ reqId'[requests[j]] = reqId[requests[j]]
        BY <1>1, <1>4, <3>1, <3>2 DEF Shapes
      <4> QED
        BY <1>4, <3>1, <4>1 DEF SlotOK
    <3> QED
      BY <3>1, <3>2 DEF SlotOK
  <2> QED
    BY <2>1, <2>2
<1> QED
  BY <1>6, <1>7, <1>8

(* A query that cannot be sent: the slot it took is free again. *)
LEMMA UnsentInv ==
    ASSUME DnsInv, NEW r \in Req, NEW i \in Id, Process_Unsent(r, i)
    PROVE  DnsInv'
<1> USE Constants DEF DnsInv
<1>1. /\ life[r] = "new" /\ called[r] = NoCalls /\ requests[i] = None /\ Shapes
      /\ \A j \in Id : requests[j] # r
  BY DEF Process_Unsent, MayAsk, FreeId, RequestOK, SlotOK, Shapes
<1>2. requests' = requests
  BY <1>1 DEF Process_Unsent, RemoveRequest, Shapes
<1>3. Shapes'
  BY <1>1, <1>2 DEF Process_Unsent, Shapes
<1>4. ASSUME NEW q \in Req PROVE RequestOK(q)'
  BY <1>1, <1>2, Histories DEF Process_Unsent, RequestOK, SlotOK, Shapes
<1>5. ASSUME NEW j \in Id PROVE SlotOK(j)'
  BY <1>1, <1>2 DEF Process_Unsent, SlotOK, Shapes
<1> QED
  BY <1>3, <1>4, <1>5

(* While no callback runs, the requests of the table wait for a packet. *)
LEMMA IdleWaits ==
    ASSUME DnsInv, Idle
    PROVE  /\ \A r \in Req : life[r] # "calling"
           /\ \A i \in Id : requests[i] # None =>
                  /\ requests[i] \in Req /\ reqId[requests[i]] = i
                  /\ life[requests[i]] = "waiting" /\ called[requests[i]] = NoCalls
<1>1. \A r \in Req : life[r] # "calling"
  BY DEF DnsInv, Idle, Running, RequestOK, Shapes
<1> QED
  BY <1>1, Constants DEF DnsInv, RequestOK, SlotOK, Shapes

(* A packet: only a request that waits is called. *)
LEMMA ReadInv ==
    ASSUME DnsInv, NEW p \in Packet, NEW r \in Req, NEW good \in BOOLEAN,
           OnEventHandlerRead(p, r, good)
    PROVE  DnsInv'
<1> USE Constants DEF DnsInv
<1>1. life[r] = "waiting" /\ called[r] = NoCalls /\ got[r] = None /\ Asks[r] = p.question /\ Shapes
  <2>1. p.id \in Id /\ requests[p.id] = r /\ Asks[r] = p.question
    BY DEF OnEventHandlerRead, Matches, Packet
  <2>2. life[r] = "waiting" /\ called[r] = NoCalls
    BY <2>1, IdleWaits DEF OnEventHandlerRead
  <2> QED
    BY <2>1, <2>2, Histories DEF RequestOK
<1>2. /\ called' = [called EXCEPT ![r] = IF good THEN Completed ELSE Failed]
      /\ called' \in [Req -> {NoCalls, Completed, Failed}]
      /\ life' = [life EXCEPT ![r] = "calling"]
      /\ life' \in [Req -> {"new", "waiting", "calling", "kept", "gone"}]
      /\ after' = [after EXCEPT ![r] = IF good THEN "store" ELSE "delete"]
      /\ after' \in [Req -> {"delete", "store", "keep"}]
      /\ level' \in [Req -> Nat] /\ level'[r] > 0
      /\ \A q \in Req \ {r} : level'[q] = level[q]
  <2>1. CASE good
    BY <2>1, <1>1, CallEffect DEF OnEventHandlerRead
  <2>2. CASE ~good
    BY <2>2, <1>1, CallEffect DEF OnEventHandlerRead
  <2> QED
    BY <2>1, <2>2
<1>3. Shapes'
  BY <1>1, <1>2 DEF OnEventHandlerRead, Shapes
<1>4. ASSUME NEW q \in Req PROVE RequestOK(q)'
  <2>1. /\ UNCHANGED <<reqId, requests, timer, refused>>
        /\ got' = [got EXCEPT ![r] = IF good THEN p.question ELSE None]
    BY DEF OnEventHandlerRead
  <2>2. CASE q = r
    <3>1. /\ life'[r] = "calling" /\ level'[r] > 0 /\ r \notin refused' /\ after'[r] # "keep"
          /\ called'[r] = IF good THEN Completed ELSE Failed
          /\ got'[r] = IF good THEN Asks[r] ELSE None
      BY <1>1, <1>2, <2>1 DEF RequestOK, Shapes
    <3> QED
      BY <2>2, <3>1, Histories DEF RequestOK
  <2>3. CASE q # r
    <3>1. /\ life'[q] = life[q] /\ level'[q] = level[q] /\ after'[q] = after[q]
          /\ called'[q] = called[q] /\ got'[q] = got[q]
      BY <1>1, <1>2, <2>1, <2>3 DEF Shapes
    <3> QED
      BY <2>1, <3>1, Untouched
  <2> QED
    BY <2>2, <2>3
<1>5. ASSUME NEW j \in Id PROVE SlotOK(j)'
  <2>1. UNCHANGED <<reqId, requests>> /\ requests[j] \in Req \cup {None}
    BY <1>1 DEF OnEventHandlerRead, Shapes
  <2>2. CASE requests[j] = r
    <3>1. life'[r] = "calling" /\ after'[r] # "keep"
      BY <1>1, <1>2 DEF Shapes
    <3> QED
      BY <2>1, <2>2, <3>1 DEF SlotOK
  <2>3. CASE requests[j] # r /\ requests[j] # None
    <3>1. life'[requests[j]] = life[requests[j]] /\ after'[requests[j]] = after[requests[j]]
      BY <1>1, <1>2, <2>1, <2>3 DEF Shapes
    <3> QED
      BY <2>1, <3>1 DEF SlotOK
  <2> QED
    BY <2>1, <2>2, <2>3 DEF SlotOK
<1> QED
  BY <1>3, <1>4, <1>5

(* A timeout: only a request that waits has a timer that runs out while no
   callback runs. *)
LEMMA TickInv ==
    ASSUME DnsInv, NEW r \in Req, RequestTick(r)
    PROVE  DnsInv'
<1> USE Constants DEF DnsInv
<1>1. life[r] = "waiting" /\ called[r] = NoCalls /\ got[r] = None /\ Shapes
  BY IdleWaits, Histories DEF RequestTick, RequestOK, Shapes
<1>2. /\ called' = [called EXCEPT ![r] = Failed]
      /\ called' \in [Req -> {NoCalls, Completed, Failed}]
      /\ life' = [life EXCEPT ![r] = "calling"]
      /\ life' \in [Req -> {"new", "waiting", "calling", "kept", "gone"}]
      /\ after' = [after EXCEPT ![r] = "delete"]
      /\ after' \in [Req -> {"delete", "store", "keep"}]
      /\ level' \in [Req -> Nat] /\ level'[r] > 0
      /\ \A q \in Req \ {r} : level'[q] = level[q]
  BY <1>1, CallEffect DEF RequestTick
<1>3. Shapes'
  BY <1>1, <1>2 DEF RequestTick, Shapes
<1>4. ASSUME NEW q \in Req PROVE RequestOK(q)'
  BY <1>1, <1>2, Histories DEF RequestTick, RequestOK, SlotOK, Shapes
<1>5. ASSUME NEW j \in Id PROVE SlotOK(j)'
  BY <1>1, <1>2 DEF RequestTick, SlotOK, Shapes
<1> QED
  BY <1>3, <1>4, <1>5

(* A callback returns: the request is deleted, with its slot and its timer, *)
(* or kept without either.                                                  *)
LEMMA ReturnInv ==
    ASSUME DnsInv, NEW r \in Req, Return(r)
    PROVE  DnsInv'
<1> USE Constants DEF DnsInv
<1>1. /\ life[r] = "calling" /\ called[r] # NoCalls /\ r \notin refused /\ Shapes
      /\ level' = [level EXCEPT ![r] = 0]
      /\ UNCHANGED <<after, called, refused, got>>
      /\ \A j \in Id : requests[j] = r => reqId[r] = j /\ after[r] # "keep"
  BY DEF Return, RequestOK, SlotOK, Shapes
<1>2. CASE after[r] = "keep"
  <2>1. life' = [life EXCEPT ![r] = "kept"] /\ UNCHANGED <<reqId, requests, timer>>
    BY <1>2 DEF Return
  <2>2. Shapes'
    BY <1>1, <2>1 DEF Shapes
  <2>3. ASSUME NEW q \in Req PROVE RequestOK(q)'
    BY <1>1, <1>2, <2>1 DEF RequestOK, Shapes
  <2>4. ASSUME NEW j \in Id PROVE SlotOK(j)'
    BY <1>1, <1>2, <2>1 DEF SlotOK, Shapes
  <2> QED
    BY <2>2, <2>3, <2>4
<1>3. CASE after[r] # "keep"
  <2>1. /\ life' = [life EXCEPT ![r] = "gone"]
        /\ timer' = [timer EXCEPT ![r] = -1]
        /\ reqId' = [reqId EXCEPT ![r] = 0]
        /\ requests' = [j \in Id |-> IF requests[j] = r THEN None ELSE requests[j]]
    <3>1. requests' = RemoveRequest(requests, reqId[r], r)
      BY <1>3 DEF Return
    <3>2. requests \in [Id -> Req \cup {None}] /\ reqId[r] \in Id
      BY <1>1 DEF Shapes
    <3>3. requests' = [j \in Id |-> IF requests[j] = r THEN None ELSE requests[j]]
      BY <1>1, <3>1, <3>2 DEF RemoveRequest
    <3> QED
      BY <1>3, <3>3 DEF Return
  <2>2. Shapes'
    BY <1>1, <2>1 DEF Shapes
  <2>3. ASSUME NEW q \in Req PROVE RequestOK(q)'
    <3>1. CASE q = r
      <4>1. life'[r] = "gone" /\ timer'[r] = -1 /\ level'[r] = 0
        BY <1>1, <2>1 DEF Shapes
      <4>2. /\ ~(level'[r] > 0)
            /\ called'[r] # NoCalls /\ r \notin refused'
        BY <1>1, <4>1 DEF RequestOK
      <4>3. got'[r] = IF called'[r] = Completed THEN Asks[r] ELSE None
        BY <1>1 DEF RequestOK
      <4> QED
        BY <3>1, <4>1, <4>2, <4>3 DEF RequestOK
    <3>2. CASE q # r
      <4>1. /\ life'[q] = life[q] /\ level'[q] = level[q] /\ timer'[q] = timer[q]
            /\ reqId'[q] = reqId[q]
        BY <1>1, <2>1, <3>2 DEF Shapes
      <4>2. life[q] = "waiting" => requests'[reqId[q]] = requests[reqId[q]]
        BY <1>1, <2>1, <3>2 DEF RequestOK, Shapes
      <4> QED
        BY <1>1, <4>1, <4>2, Untouched
    <3> QED
      BY <3>1, <3>2
  <2>4. ASSUME NEW j \in Id PROVE SlotOK(j)'
    BY <1>1, <1>3, <2>1 DEF SlotOK, Shapes
  <2> QED
    BY <2>2, <2>3, <2>4
<1> QED
  BY <1>2, <1>3

(* A module or the manager is unloaded: the requests S of the table end. *)
LEMMA EndInv ==
    ASSUME DnsInv, Idle, NEW S \in SUBSET InTable, EndRequests(S),
           UNCHANGED <<level, after, refused, got>>
    PROVE  DnsInv'
<1> USE Constants DEF DnsInv
<1>1. Shapes /\ S \subseteq Req /\ \A q \in S : life[q] = "waiting" /\ called[q] = NoCalls
  BY IdleWaits DEF InTable
<1>2. /\ called' = [q \in Req |-> IF q \in S THEN Failed ELSE called[q]]
      /\ life' = [q \in Req |-> IF q \in S THEN "gone" ELSE life[q]]
      /\ requests' = [i \in Id |-> IF requests[i] \in S THEN None ELSE requests[i]]
      /\ timer' = [q \in Req |-> IF q \in S THEN -1 ELSE timer[q]]
      /\ reqId' = [q \in Req |-> IF q \in S THEN 0 ELSE reqId[q]]
      /\ UNCHANGED <<level, after, refused, got>>
  BY <1>1, Histories DEF EndRequests
<1>3. Shapes'
  BY <1>1, <1>2 DEF Shapes
<1>4. ASSUME NEW q \in Req PROVE RequestOK(q)'
  <2>1. CASE q \in S
    <3>1. life'[q] = "gone" /\ timer'[q] = -1 /\ called'[q] = Failed /\ level'[q] = level[q]
      BY <1>2, <2>1
    <3>2. got'[q] = None /\ q \notin refused' /\ ~(level'[q] > 0)
      BY <1>1, <1>2, <2>1, Histories DEF RequestOK
    <3> QED
      BY <3>1, <3>2, Histories DEF RequestOK
  <2>2. CASE q \notin S
    <3>1. /\ life'[q] = life[q] /\ called'[q] = called[q] /\ timer'[q] = timer[q]
          /\ reqId'[q] = reqId[q]
      BY <1>2, <2>2
    <3>2. life[q] = "waiting" => requests'[reqId[q]] = requests[reqId[q]]
      BY <1>1, <1>2, <2>2 DEF RequestOK, Shapes
    <3> QED
      BY <1>2, <3>1, <3>2, Untouched
  <2> QED
    BY <2>1, <2>2
<1>5. ASSUME NEW j \in Id PROVE SlotOK(j)'
  BY <1>1, <1>2 DEF SlotOK, Shapes
<1> QED
  BY <1>3, <1>4, <1>5

(* A second passes: no timer goes below 0. *)
LEMMA SecondInv ==
    ASSUME DnsInv, DnsSecond
    PROVE  DnsInv'
<1> USE DEF DnsInv
<1>1. /\ Shapes /\ UNCHANGED <<life, reqId, requests, level, after, called, refused, got>>
      /\ timer' = [r \in Req |-> IF timer[r] > 0 THEN timer[r] - 1 ELSE timer[r]]
  BY DEF DnsSecond
<1>2. Shapes'
  BY <1>1 DEF Shapes
<1>3. ASSUME NEW q \in Req PROVE RequestOK(q)'
  BY <1>1 DEF RequestOK, Shapes
<1>4. ASSUME NEW j \in Id PROVE SlotOK(j)'
  BY <1>1 DEF SlotOK
<1> QED
  BY <1>2, <1>3, <1>4

(* The state that the invariant is about *)
tableVars == <<life, reqId, requests, timer, level, after, called, refused, got>>

(* A step that leaves the requests alone. *)
LEMMA UnchangedInv ==
    ASSUME DnsInv, UNCHANGED tableVars
    PROVE  DnsInv'
<1>1. Shapes'
  BY DEF DnsInv, Shapes, tableVars
<1>2. ASSUME NEW q \in Req PROVE RequestOK(q)'
  BY DEF DnsInv, RequestOK, tableVars
<1>3. ASSUME NEW j \in Id PROVE SlotOK(j)'
  BY DEF DnsInv, SlotOK, tableVars
<1> QED
  BY <1>1, <1>2, <1>3 DEF DnsInv

(* Every step of the manager preserves the invariant. *)
LEMMA DnsStep == DnsInv /\ [DnsNext]_dnsVars => DnsInv'
<1> SUFFICES ASSUME DnsInv, [DnsNext]_dnsVars PROVE DnsInv'
  OBVIOUS
<1>1. ASSUME NEW r \in Req, Process_Throws(r) \/ Process_Disabled(r) \/ RequestTick(r) \/ Return(r)
      PROVE  DnsInv'
  BY <1>1, RefuseInv, DisabledInv, TickInv, ReturnInv
<1>2. ASSUME NEW r \in Req, NEW i \in Id,
             Process_Cached(r, i) \/ Process_Sent(r, i) \/ Process_Unsent(r, i)
      PROVE  DnsInv'
  BY <1>2, CachedInv, SentInv, UnsentInv
<1>3. ASSUME NEW p \in Packet, NEW r \in Req, NEW good \in BOOLEAN, OnEventHandlerRead(p, r, good)
      PROVE  DnsInv'
  BY <1>3, ReadInv
<1>4. ASSUME NEW m \in Module, OnUnloadModule(m)
      PROVE  DnsInv'
  <2>1. {r \in InTable : Creator[r] = m} \in SUBSET InTable
    OBVIOUS
  <2> QED
    BY <1>4, <2>1, EndInv DEF OnUnloadModule
<1>5. CASE DestroyManager
  <2>1. InTable \in SUBSET InTable
    OBVIOUS
  <2> QED
    BY <1>5, <2>1, EndInv DEF DestroyManager
<1>6. CASE DnsSecond
  BY <1>6, SecondInv
<1>7. CASE PurgeCache \/ DnsReadConfig \/ UNCHANGED dnsVars
  BY <1>7, UnchangedInv DEF PurgeCache, DnsReadConfig, dnsVars, tableVars
<1> QED
  BY <1>1, <1>2, <1>3, <1>4, <1>5, <1>6, <1>7 DEF DnsNext

(* The rest of the type invariant: what DnsInv does not speak of *)
DnsBounds ==
    /\ \A r \in Req : timer[r] >= -1 /\ timer[r] <= Timeout
    /\ sent \subseteq Packet /\ server \in 0..MaxServer
    /\ fd \in BOOLEAN /\ unloading \in BOOLEAN
    /\ cache \in [Question -> NoEntry..Ttl]
    /\ dying \subseteq Module /\ refused \subseteq Req

(* The cache of names stays in its bounds, whoever reads or empties it. *)
LEMMA CacheBounds ==
    ASSUME cache \in [Question -> NoEntry..Ttl], NEW q \in Question
    PROVE  /\ CheckCache(q) \in [Question -> NoEntry..Ttl]
           /\ AddCache(q) \in [Question -> NoEntry..Ttl]
           /\ [p \in Question |-> NoEntry] \in [Question -> NoEntry..Ttl]
<1>1. NoEntry \in NoEntry..Ttl /\ Ttl \in NoEntry..Ttl
  BY Constants DEF NoEntry
<1>2. CheckCache(q) \in [Question -> NoEntry..Ttl]
  BY <1>1 DEF CheckCache
<1>3. ASSUME NEW kept \in [Question -> NoEntry..Ttl]
      PROVE  [kept EXCEPT ![q] = Ttl] \in [Question -> NoEntry..Ttl]
  BY <1>1
<1>4. [p \in Question |-> NoEntry] \in [Question -> NoEntry..Ttl]
  BY <1>1
<1>5. (IF Cardinality({p \in Question : cache[p] # NoEntry}) >= MaxCache
       THEN [p \in Question |-> NoEntry] ELSE cache) \in [Question -> NoEntry..Ttl]
  BY <1>4
<1> QED
  BY <1>2, <1>3, <1>4, <1>5 DEF AddCache

(* Ending requests takes their timers away and leaves the others. *)
LEMMA EndBounds ==
    ASSUME NEW S, EndRequests(S), \A r \in Req : timer[r] >= -1 /\ timer[r] <= Timeout
    PROVE  \A r \in Req : timer'[r] >= -1 /\ timer'[r] <= Timeout
BY Constants DEF EndRequests

(* Every step of the manager keeps the bounds. *)
LEMMA DnsBoundsStep == DnsInv /\ DnsBounds /\ [DnsNext]_dnsVars => DnsBounds'
<1> SUFFICES ASSUME DnsInv, DnsBounds, [DnsNext]_dnsVars PROVE DnsBounds'
  OBVIOUS
<1> USE Constants
<1>0. timer \in [Req -> Int]
  BY DEF DnsInv, Shapes
<1>1. ASSUME NEW r \in Req, Process_Throws(r) \/ Process_Disabled(r) PROVE DnsBounds'
  BY <1>1 DEF Process_Throws, Process_Disabled, DnsBounds
<1>2. ASSUME NEW r \in Req, RequestTick(r) PROVE DnsBounds'
  BY <1>0, <1>2 DEF RequestTick, DnsBounds
<1>3. ASSUME NEW r \in Req, Return(r) PROVE DnsBounds'
  <2>1. cache' \in [Question -> NoEntry..Ttl]
    BY <1>3, CacheBounds DEF Return, DnsBounds
  <2>2. \A q \in Req : timer'[q] >= -1 /\ timer'[q] <= Timeout
    BY <1>0, <1>3 DEF Return, DnsBounds
  <2> QED
    BY <1>3, <2>1, <2>2 DEF Return, DnsBounds
<1>4. ASSUME NEW r \in Req, NEW i \in Id, Process_Cached(r, i) PROVE DnsBounds'
  BY <1>4 DEF Process_Cached, DnsBounds
<1>5. ASSUME NEW r \in Req, NEW i \in Id, Process_Sent(r, i) PROVE DnsBounds'
  <2>1. cache' \in [Question -> NoEntry..Ttl]
    BY <1>5, CacheBounds DEF Process_Sent, DnsBounds
  <2>2. \A q \in Req : timer'[q] >= -1 /\ timer'[q] <= Timeout
    BY <1>0, <1>5 DEF Process_Sent, DnsBounds
  <2>3. sent' \subseteq Packet
    BY <1>5 DEF Process_Sent, DnsBounds, Packet
  <2> QED
    BY <1>5, <2>1, <2>2, <2>3 DEF Process_Sent, DnsBounds
<1>6. ASSUME NEW r \in Req, NEW i \in Id, Process_Unsent(r, i) PROVE DnsBounds'
  <2>1. cache' \in [Question -> NoEntry..Ttl]
    BY <1>6, CacheBounds DEF Process_Unsent, DnsBounds
  <2> QED
    BY <1>6, <2>1 DEF Process_Unsent, DnsBounds
<1>7. ASSUME NEW p \in Packet, NEW r \in Req, NEW good \in BOOLEAN, OnEventHandlerRead(p, r, good)
      PROVE  DnsBounds'
  BY <1>7 DEF OnEventHandlerRead, DnsBounds
<1>8. ASSUME NEW m \in Module, OnUnloadModule(m) PROVE DnsBounds'
  BY <1>8, EndBounds DEF OnUnloadModule, DnsBounds
<1>9. CASE DestroyManager
  <2>1. cache' \in [Question -> NoEntry..Ttl]
    BY <1>9 DEF DestroyManager, NoEntry
  <2> QED
    BY <1>9, <2>1, EndBounds DEF DestroyManager, DnsBounds
<1>10. CASE DnsSecond
  <2>1. cache' \in [Question -> NoEntry..Ttl]
    BY <1>10 DEF DnsSecond, DnsBounds, NoEntry
  <2>2. \A q \in Req : timer'[q] >= -1 /\ timer'[q] <= Timeout
    BY <1>0, <1>10 DEF DnsSecond, DnsBounds
  <2> QED
    BY <1>10, <2>1, <2>2 DEF DnsSecond, DnsBounds
<1>11. CASE PurgeCache
  <2>1. cache' \in [Question -> NoEntry..Ttl]
    BY <1>11 DEF PurgeCache, DnsBounds, NoEntry
  <2> QED
    BY <1>11, <2>1 DEF PurgeCache, DnsBounds
<1>12. CASE DnsReadConfig
  <2>1. cache' \in [Question -> NoEntry..Ttl]
    BY <1>12 DEF DnsReadConfig, NoEntry
  <2>2. server' \in 0..MaxServer
    BY <1>12 DEF DnsReadConfig, DnsBounds
  <2> QED
    BY <1>12, <2>1, <2>2 DEF DnsReadConfig, DnsBounds
<1>13. CASE UNCHANGED dnsVars
  BY <1>13 DEF dnsVars, DnsBounds
<1> QED
  BY <1>1, <1>2, <1>3, <1>4, <1>5, <1>6, <1>7, <1>8, <1>9, <1>10, <1>11, <1>12, <1>13 DEF DnsNext

(* dns.cpp keeps its table exact: whatever packets, timeouts, callbacks,    *)
(* rehashes and unloads do, a slot holds a live request under its own id,   *)
(* a request that waits is in its slot with a timer, and one that was       *)
(* deleted has neither.                                                     *)
THEOREM TableIsExact == DnsSafe => []TableExact
<1>1. DnsInit => DnsBounds
  <2> SUFFICES ASSUME DnsInit PROVE DnsBounds
    OBVIOUS
  <2>1. cache \in [Question -> NoEntry..Ttl] /\ server \in 0..MaxServer
    BY Constants DEF DnsInit, NoEntry
  <2>2. ASSUME NEW r \in Req PROVE timer[r] >= -1 /\ timer[r] <= Timeout
    BY Constants DEF DnsInit
  <2> QED
    BY <2>1, <2>2 DEF DnsInit, DnsBounds
<1>2. DnsInv /\ DnsBounds => TableExact
  <2> SUFFICES ASSUME DnsInv, DnsBounds PROVE TableExact
    OBVIOUS
  <2>1. DnsTypeOK
    BY DEF DnsInv, Shapes, DnsBounds, DnsTypeOK
  <2> QED
    BY <2>1, Constants DEF DnsInv, RequestOK, SlotOK, Shapes, TableExact
<1> QED
  BY <1>1, <1>2, DnsInitInv, DnsStep, DnsBoundsStep, PTL DEF DnsSafe

-----------------------------------------------------------------------------
(* For any requests, ids, modules, timeouts and cache: the DNS manager     *)
(* implements DnsPromise.  The invariant DnsInv decides what each step of  *)
(* the manager looks like to the creators of requests.                     *)

(* The state and the answer of a request, as DnsPromise sees them *)
Answer(r) == IF got[r] = None THEN "no answer" ELSE got[r]

(* What a request looks like to its creator, by its callbacks and its life *)
Seen(r) ==
    /\ Outcome(r) = IF r \in refused THEN "refused"
                    ELSE IF called[r] = NoCalls THEN IF life[r] = "new" THEN "new" ELSE "asked"
                    ELSE IF called[r] = Completed THEN "complete" ELSE "error"
    /\ Answer(r) = IF called[r] = Completed THEN Asks[r] ELSE "no answer"

(* The invariant decides what a request looks like. *)
LEMMA SeenHolds == DnsInv => \A r \in Req : Seen(r)
<1> SUFFICES ASSUME DnsInv, NEW r \in Req PROVE Seen(r)
  OBVIOUS
<1>1. RequestOK(r) /\ Shapes
  BY DEF DnsInv
<1>2. r \in refused => called[r] = NoCalls
  BY <1>1 DEF RequestOK, Shapes
<1>3. called[r] \in {NoCalls, Completed, Failed}
  BY <1>1 DEF Shapes
<1>4. Answer(r) = IF called[r] = Completed THEN Asks[r] ELSE "no answer"
  <2>1. Asks[r] # None
    BY Constants
  <2>2. got[r] = IF called[r] = Completed THEN Asks[r] ELSE None
    BY <1>1 DEF RequestOK
  <2>3. CASE called[r] = Completed
    BY <2>1, <2>2, <2>3 DEF Answer
  <2>4. CASE called[r] # Completed
    BY <2>2, <2>4 DEF Answer
  <2> QED
    BY <2>3, <2>4
<1> QED
  BY <1>2, <1>3, <1>4, Histories DEF Outcome, Seen

(* The same of the next state. *)
LEMMA SeenNext == DnsInv' => (\A r \in Req : Seen(r))'
BY SeenHolds, PTL

(* Before and after a step. *)
LEMMA Outcomes ==
    ASSUME DnsInv, DnsInv', NEW r \in Req
    PROVE  Seen(r) /\ Seen(r)'
BY SeenHolds, SeenNext

(* What one request may do in a step of DnsPromise, and the others not *)
Advances(r) ==
    /\ \A q \in Req \ {r} : Outcome(q)' = Outcome(q) /\ Answer(q)' = Answer(q)
    /\ \/ /\ Outcome(r) = "new" /\ Outcome(r)' \in {"refused", "asked"}
          /\ Answer(r)' = Answer(r)
       \/ /\ Outcome(r) \in {"new", "asked"} /\ Outcome(r)' = "complete"
          /\ Answer(r)' = Asks[r]
       \/ /\ Outcome(r) \in {"new", "asked"} /\ Outcome(r)' = "error"
          /\ Answer(r)' = Answer(r)

(* A request that had no callback is refused, asked, or called. *)
LEMMA Advancing ==
    ASSUME DnsInv, DnsInv', NEW r \in Req, called[r] = NoCalls, r \notin refused,
           \A q \in Req \ {r} : /\ life'[q] = life[q] /\ called'[q] = called[q]
                                /\ q \in refused' <=> q \in refused,
           \/ life[r] = "new" /\ called'[r] = NoCalls /\ (r \in refused' \/ life'[r] # "new")
           \/ called'[r] \in {Completed, Failed} /\ r \notin refused'
    PROVE  Advances(r)
<1>1. ASSUME NEW q \in Req \ {r} PROVE Outcome(q)' = Outcome(q) /\ Answer(q)' = Answer(q)
  <2>1. Seen(q) /\ Seen(q)'
    BY Outcomes
  <2>2. life'[q] = life[q] /\ called'[q] = called[q]
    OBVIOUS
  <2>3. q \in refused' <=> q \in refused
    OBVIOUS
  <2>4. Answer(q)' = Answer(q)
    BY <2>1, <2>2 DEF Seen
  <2>5. CASE q \in refused
    BY <2>1, <2>3, <2>4, <2>5 DEF Seen
  <2>6. CASE q \notin refused
    BY <2>1, <2>2, <2>3, <2>4, <2>6 DEF Seen
  <2> QED
    BY <2>5, <2>6
<1>2. Seen(r) /\ Seen(r)'
  BY Outcomes
<1>3. Outcome(r) = IF life[r] = "new" THEN "new" ELSE "asked"
  BY <1>2 DEF Seen
<1>4. Answer(r) = "no answer"
  BY <1>2, Histories DEF Seen
<1>5. CASE life[r] = "new" /\ called'[r] = NoCalls /\ (r \in refused' \/ life'[r] # "new")
  <2>1. Outcome(r)' \in {"refused", "asked"} /\ Answer(r)' = "no answer"
    BY <1>2, <1>5, Histories DEF Seen
  <2> QED
    BY <1>1, <1>3, <1>4, <1>5, <2>1 DEF Advances
<1>6. CASE called'[r] = Completed /\ r \notin refused'
  <2>1. Outcome(r)' = "complete" /\ Answer(r)' = Asks[r]
    BY <1>2, <1>6, Histories DEF Seen
  <2> QED
    BY <1>1, <1>3, <2>1 DEF Advances
<1>7. CASE called'[r] = Failed /\ r \notin refused'
  <2>1. Outcome(r)' = "error" /\ Answer(r)' = "no answer"
    BY <1>2, <1>7, Histories DEF Seen
  <2> QED
    BY <1>1, <1>3, <1>4, <2>1 DEF Advances
<1> QED
  BY <1>5, <1>6, <1>7

(* Such a step is one of DnsPromise. *)
LEMMA AdvanceRefines ==
    ASSUME NEW r \in Req, Advances(r)
    PROVE  Promise!PromiseNext
<1> DEFINE state == [q \in Req |-> Outcome(q)]
           answer == [q \in Req |-> Answer(q)]
<1>1. state'[r] # state[r] /\ \A q \in Req : state'[q] # state[q] => q = r
  BY DEF Advances
<1>2. Promise!Changed = {r}
  BY <1>1 DEF Promise!Changed
<1>3. state' # state
  BY <1>1
<1>4. Promise!Refuse(r) \/ Promise!Ask(r) \/ Promise!Complete(r) \/ Promise!Fail({r})
  BY DEF Advances, Answer, Promise!Refuse, Promise!Ask, Promise!Complete, Promise!Fail
<1> QED
  BY <1>2, <1>3, <1>4 DEF Promise!PromiseNext

(* A step without callback, refusal or new request is a stutter. *)
LEMMA StutterRefines ==
    ASSUME DnsInv, DnsInv', UNCHANGED <<called, refused>>,
           \A q \in Req : life'[q] = "new" <=> life[q] = "new"
    PROVE  UNCHANGED Promise!promiseVars
<1>1. ASSUME NEW q \in Req PROVE Outcome(q)' = Outcome(q) /\ Answer(q)' = Answer(q)
  BY Outcomes DEF Seen
<1> QED
  BY <1>1 DEF Promise!promiseVars, Answer

(* Requests that end together fail together. *)
LEMMA EndRefines ==
    ASSUME DnsInv, DnsInv', Idle, NEW S \in SUBSET InTable, EndRequests(S), UNCHANGED refused
    PROVE  Promise!PromiseNext \/ UNCHANGED Promise!promiseVars
<1> DEFINE state == [q \in Req |-> Outcome(q)]
<1>1. /\ S \subseteq Req /\ \A q \in S : life[q] = "waiting" /\ called[q] = NoCalls
      /\ called' = [q \in Req |-> IF q \in S THEN Failed ELSE called[q]]
      /\ life' = [q \in Req |-> IF q \in S THEN "gone" ELSE life[q]]
  <2>1. S \subseteq Req /\ \A q \in S : life[q] = "waiting" /\ called[q] = NoCalls
    BY IdleWaits, Constants DEF InTable
  <2> QED
    BY <2>1, Histories DEF EndRequests
<1>2. ASSUME NEW q \in S
      PROVE  Outcome(q) = "asked" /\ Outcome(q)' = "error" /\ Answer(q)' = Answer(q)
  <2>1. q \notin refused /\ called'[q] = Failed
    BY <1>1 DEF DnsInv, RequestOK
  <2> QED
    BY <1>1, <2>1, Outcomes, Histories DEF Seen
<1>3. ASSUME NEW q \in Req \ S
      PROVE  Outcome(q)' = Outcome(q) /\ Answer(q)' = Answer(q)
  BY <1>1, Outcomes DEF Seen
<1>4. CASE S = {}
  BY <1>3, <1>4 DEF Promise!promiseVars, Answer
<1>5. CASE S # {}
  <2>1. Promise!Changed = S
    BY <1>1, <1>2, <1>3 DEF Promise!Changed
  <2>2. Promise!Fail(S)
    BY <1>1, <1>2, <1>3 DEF Promise!Fail, Answer
  <2>3. PICK q \in S : TRUE
    BY <1>5
  <2>4. q \in Req /\ state[q] = "asked" /\ state'[q] = "error"
    BY <1>1, <1>2
  <2>5. state' # state
    BY <2>4
  <2> QED
    BY <2>1, <2>2, <2>5 DEF Promise!PromiseNext
<1> QED
  BY <1>4, <1>5

(* Every step of the manager is a step or a stutter of DnsPromise. *)
LEMMA DnsRefines ==
    ASSUME DnsInv, DnsInv', [DnsNext]_dnsVars
    PROVE  [Promise!PromiseNext]_Promise!promiseVars
<1>0. Shapes /\ \A r \in Req : RequestOK(r)
  BY DEF DnsInv
<1>1. ASSUME NEW r \in Req, Process_Throws(r) PROVE Advances(r)
  <2>1. life[r] = "new" /\ called[r] = NoCalls /\ r \notin refused
    BY <1>0, <1>1 DEF Process_Throws, RequestOK
  <2>2. /\ life' = [life EXCEPT ![r] = "gone"] /\ called' = called
        /\ refused' = refused \cup {r}
    BY <1>1 DEF Process_Throws
  <2> QED
    BY <1>0, <2>1, <2>2, Advancing DEF Shapes
<1>2. ASSUME NEW r \in Req, Process_Disabled(r) PROVE Advances(r)
  <2>1. life[r] = "new" /\ called[r] = NoCalls /\ r \notin refused
    BY <1>0, <1>2 DEF Process_Disabled, MayAsk, RequestOK
  <2>2. /\ called' = [called EXCEPT ![r] = Failed] /\ life' = [life EXCEPT ![r] = "calling"]
        /\ refused' = refused
    BY <1>2, <2>1, CallEffect DEF Process_Disabled
  <2> QED
    BY <1>0, <2>1, <2>2, Advancing DEF Shapes
<1>3. ASSUME NEW r \in Req, NEW i \in Id, Process_Cached(r, i) PROVE Advances(r)
  <2>1. life[r] = "new" /\ called[r] = NoCalls /\ r \notin refused
    BY <1>0, <1>3 DEF Process_Cached, MayAsk, RequestOK
  <2>2. /\ called' = [called EXCEPT ![r] = Completed] /\ life' = [life EXCEPT ![r] = "calling"]
        /\ refused' = refused
    BY <1>3, <2>1, CallEffect DEF Process_Cached
  <2> QED
    BY <1>0, <2>1, <2>2, Advancing DEF Shapes
<1>4. ASSUME NEW r \in Req, NEW i \in Id, Process_Sent(r, i) PROVE Advances(r)
  <2>1. life[r] = "new" /\ called[r] = NoCalls /\ r \notin refused
    BY <1>0, <1>4 DEF Process_Sent, MayAsk, RequestOK
  <2>2. life' = [life EXCEPT ![r] = "waiting"] /\ UNCHANGED <<called, refused>>
    BY <1>4 DEF Process_Sent
  <2> QED
    BY <1>0, <2>1, <2>2, Advancing DEF Shapes
<1>5. ASSUME NEW r \in Req, NEW i \in Id, Process_Unsent(r, i) PROVE Advances(r)
  <2>1. life[r] = "new" /\ called[r] = NoCalls /\ r \notin refused
    BY <1>0, <1>5 DEF Process_Unsent, MayAsk, RequestOK
  <2>2. /\ life' = [life EXCEPT ![r] = "gone"] /\ called' = called
        /\ refused' = refused \cup {r}
    BY <1>5 DEF Process_Unsent
  <2> QED
    BY <1>0, <2>1, <2>2, Advancing DEF Shapes
<1>6. ASSUME NEW p \in Packet, NEW r \in Req, NEW good \in BOOLEAN, OnEventHandlerRead(p, r, good)
      PROVE  Advances(r)
  <2>1. life[r] = "waiting" /\ called[r] = NoCalls /\ r \notin refused
    <3>1. p.id \in Id /\ requests[p.id] = r /\ Idle
      BY <1>6 DEF OnEventHandlerRead, Matches, Packet
    <3>2. life[r] = "waiting" /\ called[r] = NoCalls
      BY <3>1, IdleWaits, Constants
    <3> QED
      BY <1>0, <3>2 DEF RequestOK
  <2>2. /\ called' = [called EXCEPT ![r] = IF good THEN Completed ELSE Failed]
        /\ life' = [life EXCEPT ![r] = "calling"] /\ refused' = refused
    <3>1. CASE good
      BY <3>1, <1>6, <2>1, CallEffect DEF OnEventHandlerRead
    <3>2. CASE ~good
      BY <3>2, <1>6, <2>1, CallEffect DEF OnEventHandlerRead
    <3> QED
      BY <3>1, <3>2
  <2> QED
    BY <1>0, <2>1, <2>2, Advancing DEF Shapes
<1>7. ASSUME NEW r \in Req, RequestTick(r) PROVE Advances(r)
  <2>1. life[r] = "waiting" /\ called[r] = NoCalls /\ r \notin refused
    <3>1. timer[r] = 0 /\ life[r] # "calling" /\ RequestOK(r) /\ Shapes
      BY <1>0, <1>7, IdleWaits DEF RequestTick
    <3>2. life[r] \in {"new", "waiting", "calling", "kept", "gone"}
      BY <3>1 DEF Shapes
    <3>3. life[r] = "waiting"
      BY <3>1, <3>2 DEF RequestOK
    <3> QED
      BY <3>1, <3>3 DEF RequestOK
  <2>2. /\ called' = [called EXCEPT ![r] = Failed] /\ life' = [life EXCEPT ![r] = "calling"]
        /\ refused' = refused
    BY <1>7, <2>1, CallEffect DEF RequestTick
  <2> QED
    BY <1>0, <2>1, <2>2, Advancing DEF Shapes
<1>8. ASSUME NEW r \in Req, Return(r) PROVE UNCHANGED Promise!promiseVars
  <2>1. life[r] = "calling" /\ UNCHANGED <<called, refused>>
    BY <1>0, <1>8 DEF Return, RequestOK, Shapes
  <2>2. life' = [life EXCEPT ![r] = IF after[r] = "keep" THEN "kept" ELSE "gone"]
    BY <1>8 DEF Return
  <2> QED
    BY <1>0, <2>1, <2>2, StutterRefines DEF Shapes
<1>9. ASSUME NEW m \in Module, OnUnloadModule(m)
      PROVE  Promise!PromiseNext \/ UNCHANGED Promise!promiseVars
  <2>1. {r \in InTable : Creator[r] = m} \in SUBSET InTable
    OBVIOUS
  <2> QED
    BY <1>9, <2>1, EndRefines DEF OnUnloadModule
<1>10. CASE DestroyManager
  <2>1. InTable \in SUBSET InTable
    OBVIOUS
  <2> QED
    BY <1>10, <2>1, EndRefines DEF DestroyManager
<1>11. CASE DnsSecond \/ PurgeCache \/ DnsReadConfig \/ UNCHANGED dnsVars
  BY <1>11, StutterRefines DEF DnsSecond, PurgeCache, DnsReadConfig, dnsVars
<1> QED
  BY <1>1, <1>2, <1>3, <1>4, <1>5, <1>6, <1>7, <1>8, <1>9, <1>10, <1>11, AdvanceRefines DEF DnsNext

(* The manager of dns.cpp implements DnsPromise: Process refuses a request  *)
(* or it is called back at most once, with an answer to its own question or *)
(* with an error, and an unload fails exactly the requests that wait.       *)
THEOREM DnsKeepsPromise == DnsSafe => PromiseKept
<1>1. DnsInit => Promise!PromiseInit
  <2> SUFFICES ASSUME DnsInit PROVE Promise!PromiseInit
    OBVIOUS
  <2>1. ASSUME NEW r \in Req PROVE Outcome(r) = "new" /\ Answer(r) = "no answer"
    BY DnsInitInv, SeenHolds, Histories DEF DnsInit, Seen
  <2> QED
    BY <2>1 DEF Promise!PromiseInit, Promise!NoAnswer, Answer
<1>2. DnsInv /\ DnsInv' /\ [DnsNext]_dnsVars => [Promise!PromiseNext]_Promise!promiseVars
  BY DnsRefines
<1> QED
  BY <1>1, <1>2, DnsInitInv, DnsStep, PTL DEF DnsSafe, PromiseKept, Promise!PromiseSafe

-----------------------------------------------------------------------------
(* Autoconnect: a block in its chain has an attempt *)

(* The block of an attempt that is taken is one of the configurations. *)
LEMMA DropType ==
    ASSUME AutoconnectTypeOK, NEW i \in Slot
    PROVE  /\ Drop(i) \in [Slot -> [st : AttemptState, name : Name, ac : Config \cup {NoBlock}]]
           /\ Drop(i) = [attempt EXCEPT ![i] = Blank]
           /\ \A j \in Slot \ {i} : Drop(i)[j] = attempt[j]
BY AutoconnectAssumption DEF AutoconnectTypeOK, Drop, Blank, NoAttempt, AttemptState

(* Starting an attempt leaves those that are taken alone, and what it adds *)
(* is an attempt of the block it was started for.                          *)
LEMMA StartedKeeps ==
    ASSUME NEW att \in [Slot -> [st : AttemptState, name : Name, ac : Config \cup {NoBlock}]],
           NEW g \in Config \cup {NoBlock}, NEW n \in Name,
           kind[n] \in {"ip", "host", "undialable", "nolink"}, kind[n] # "nolink",
           NEW out \in Started(att, g, n)
    PROVE  /\ out \in [Slot -> [st : AttemptState, name : Name, ac : Config \cup {NoBlock}]]
           /\ \A j \in Slot : att[j].st # "FREE" => out[j] = att[j]
           /\ out = att \/ \E j \in Slot : out[j].ac = g /\ out[j].st # "FREE"
<1>1. CASE out = att
  BY <1>1
<1>2. CASE out # att
  <2>1. PICK st \in {"SOCKET", "CULLED", "QUERY_AAAA", "QUERY_A"} :
            Free(att) # {} /\ out = Put(att, st, n, g)
    BY <1>2 DEF Started
  <2>2. PICK j \in Free(att) : out = [att EXCEPT ![j] = [st |-> st, name |-> n, ac |-> g]]
    BY <2>1 DEF Put
  <2>3. j \in Slot /\ att[j].st = "FREE"
    BY DEF Free
  <2> QED
    BY <2>2, <2>3 DEF AttemptState
<1> QED
  BY <1>1, <1>2

(* The links of the configuration are of the four kinds there are. *)
KindsOK == kind \in [Name -> {"ip", "host", "undialable", "nolink"}]

(* The attempts of a block: at least one while it is in its chain *)
AliveIn(att, h) ==
    position[h] > 0 /\ h \notin lost => \E i \in Slot : att[i].ac = h /\ att[i].st # "FREE"

(* The inductive invariant: BlockAlive, over links of the four kinds *)
AutoconnectInv == KindsOK /\ BlockAlive

(* ConnectServer() leaves no block of a chain without an attempt, although *)
(* the attempt that called it is gone already.                             *)
LEMMA ConnectServerKeeps ==
    ASSUME KindsOK, AutoconnectTypeOK,
           NEW att \in [Slot -> [st : AttemptState, name : Name, ac : Config \cup {NoBlock}]],
           NEW g \in Config \cup {NoBlock}, NEW t \in BOOLEAN,
           \A h \in Config \ {g} : AliveIn(att, h),
           t => g # NoBlock /\ AliveIn(att, g),
           ConnectServer(att, g, t),
           UNCHANGED <<kind, linked, config>>
    PROVE  KindsOK' /\ BlockAlive'
<1> USE AutoconnectAssumption DEF AutoconnectTypeOK, Config
<1>a. NoBlock \notin Config
  BY DEF NoBlock
<1>k. KindsOK' /\ linked' \subseteq Name /\ config' \in Config
  BY DEF KindsOK
<1>1. CASE attempt' = att /\ UNCHANGED <<position, lost>> /\ (g = NoBlock \/ t = (position[g] > 0))
  <2>1. \A h \in Config : AliveIn(att, h)
    BY <1>1, <1>a DEF AliveIn
  <2> QED
    BY <1>1, <1>k, <2>1 DEF BlockAlive, Dialling, AliveIn
<1>2. CASE g # NoBlock /\ position' = [position EXCEPT ![g] = 0] /\ lost' = lost \ {g} /\ attempt' = att
  <2>1. \A h \in Config : position'[h] > 0 /\ h \notin lost' => Dialling(h)'
    BY <1>2 DEF Dialling, AliveIn
  <2>2. position' \in [Config -> 0..Len(Chain)] /\ lost' \subseteq Config
    BY <1>2
  <2> QED
    BY <1>2, <1>k, <2>1, <2>2 DEF BlockAlive
<1>3. ASSUME g # NoBlock, NEW q \in Reach(position[g]), q <= Len(Chain),
             position' = [position EXCEPT ![g] = q],
             NEW out \in Started(att, g, Chain[q]),
             attempt' = out, lost' = IF out = att THEN lost \cup {g} ELSE lost \ {g}
      PROVE  KindsOK' /\ BlockAlive'
  <2>1. q \in 1..Len(Chain) /\ Chain[q] \in Name /\ kind[Chain[q]] # "nolink"
    BY <1>3 DEF Reach
  <2>2. kind[Chain[q]] \in {"ip", "host", "undialable", "nolink"}
    BY <2>1 DEF KindsOK
  <2>3. /\ out \in [Slot -> [st : AttemptState, name : Name, ac : Config \cup {NoBlock}]]
        /\ \A j \in Slot : att[j].st # "FREE" => out[j] = att[j]
        /\ out = att \/ \E j \in Slot : out[j].ac = g /\ out[j].st # "FREE"
    BY <2>1, <2>2, <1>3, StartedKeeps
  <2>4. position' \in [Config -> 0..Len(Chain)] /\ lost' \subseteq Config
    BY <1>3, <2>1
  <2>5. ASSUME NEW h \in Config, position'[h] > 0, h \notin lost'
        PROVE  Dialling(h)'
    <3>1. CASE h = g
      BY <3>1, <2>5, <2>3, <1>3 DEF Dialling
    <3>2. CASE h # g
      <4>1. AliveIn(att, h) /\ position[h] > 0 /\ h \notin lost
        BY <3>2, <2>5, <1>3
      <4> QED
        BY <4>1, <2>3, <1>3 DEF Dialling, AliveIn
    <3> QED
      BY <3>1, <3>2
  <2> QED
    BY <1>3, <1>k, <2>3, <2>4, <2>5 DEF BlockAlive
<1>4. CASE g # NoBlock /\ \E q \in Reach(position[g]) :
             IF q > Len(Chain)
             THEN position' = [position EXCEPT ![g] = 0] /\ lost' = lost \ {g} /\ attempt' = att
             ELSE /\ position' = [position EXCEPT ![g] = q]
                  /\ \E out \in Started(att, g, Chain[q]) :
                        /\ attempt' = out
                        /\ lost' = IF out = att THEN lost \cup {g} ELSE lost \ {g}
  <2>1. PICK q \in Reach(position[g]) :
             IF q > Len(Chain)
             THEN position' = [position EXCEPT ![g] = 0] /\ lost' = lost \ {g} /\ attempt' = att
             ELSE /\ position' = [position EXCEPT ![g] = q]
                  /\ \E out \in Started(att, g, Chain[q]) :
                        /\ attempt' = out
                        /\ lost' = IF out = att THEN lost \cup {g} ELSE lost \ {g}
    BY <1>4
  <2>2. CASE q > Len(Chain)
    BY <2>1, <2>2, <1>2, <1>4
  <2>3. CASE ~(q > Len(Chain))
    <3>1. position[g] \in Nat /\ q \in Int /\ Len(Chain) \in Nat
      BY <1>4 DEF Reach
    <3>2. q <= Len(Chain)
      BY <3>1, <2>3
    <3> QED
      BY <2>1, <2>3, <3>2, <1>3, <1>4
  <2> QED
    BY <2>2, <2>3
<1> QED
  <2>1. CASE g = NoBlock
    BY <2>1, <1>1 DEF ConnectServer
  <2>2. CASE g # NoBlock /\ ChainNames \cap linked # {}
    BY <2>2, <1>2 DEF ConnectServer
  <2>3. CASE g # NoBlock /\ ChainNames \cap linked = {} /\ t = (position[g] > 0)
    BY <2>3, <1>1 DEF ConnectServer
  <2>4. CASE g # NoBlock /\ ChainNames \cap linked = {} /\ t # (position[g] > 0)
    BY <2>4, <1>4 DEF ConnectServer
  <2> QED
    BY <2>1, <2>2, <2>3, <2>4

(* Every attempt of a block that is not attempt i is still there after i *)
(* was dropped.                                                          *)
LEMMA DropKeeps ==
    ASSUME AutoconnectInv, NEW i \in Slot, NEW h \in Config, h # attempt[i].ac
    PROVE  AliveIn(Drop(i), h)
BY DropType DEF AutoconnectInv, BlockAlive, Dialling, AliveIn

(* The steps of an attempt keep every block alive: an attempt that ends    *)
(* has the block move on, ends it or is recorded as lost.                  *)
LEMMA AttemptStepKeeps ==
    ASSUME AutoconnectInv, NEW i \in Slot, AttemptStep(i)
    PROVE  AutoconnectInv'
<1> USE AutoconnectAssumption DEF AutoconnectInv, BlockAlive
<1>a. /\ Drop(i) \in [Slot -> [st : AttemptState, name : Name, ac : Config \cup {NoBlock}]]
      /\ attempt[i].ac \in Config \cup {NoBlock} /\ attempt[i].name \in Name
      /\ \A j \in Slot \ {i} : Drop(i)[j] = attempt[j]
  BY DropType DEF AutoconnectTypeOK
<1>b. \A h \in Config \ {attempt[i].ac} : AliveIn(Drop(i), h)
  BY DropKeeps
<1>m. ASSUME ConnectServer(Drop(i), attempt[i].ac, FALSE), UNCHANGED <<kind, linked, config>>
      PROVE  AutoconnectInv'
  BY <1>a, <1>b, <1>m, ConnectServerKeeps
<1>s. ASSUME NEW st \in AttemptState \ {"FREE"}, attempt[i].st # "FREE",
             attempt' = [attempt EXCEPT ![i].st = st],
             UNCHANGED <<kind, linked, config, position, lost>>
      PROVE  AutoconnectInv'
  <2>1. /\ attempt' \in [Slot -> [st : AttemptState, name : Name, ac : Config \cup {NoBlock}]]
        /\ \A j \in Slot : attempt'[j].ac = attempt[j].ac
                          /\ (attempt[j].st # "FREE" => attempt'[j].st # "FREE")
    BY <1>s DEF AutoconnectTypeOK
  <2>2. AutoconnectTypeOK' /\ KindsOK'
    BY <1>s, <2>1 DEF AutoconnectTypeOK, KindsOK
  <2>3. \A h \in Config : position'[h] > 0 /\ h \notin lost' => Dialling(h)'
    BY <1>s, <2>1 DEF Dialling
  <2> QED
    BY <2>2, <2>3
<1>1. CASE OnLookupComplete(i)
  <2>1. CASE attempt[i].name \in linked
    <3>1. attempt' = Drop(i) /\ lost' = lost \cup ({attempt[i].ac} \ {NoBlock})
             /\ UNCHANGED <<kind, linked, config, position>>
      BY <1>1, <2>1 DEF OnLookupComplete
    <3>2. AutoconnectTypeOK' /\ KindsOK'
      BY <3>1, <1>a DEF AutoconnectTypeOK, KindsOK
    <3>3. \A h \in Config : position'[h] > 0 /\ h \notin lost' => Dialling(h)'
      BY <3>1, <1>b DEF AliveIn, Dialling, NoBlock, Config
    <3> QED
      BY <3>2, <3>3
  <2>2. CASE attempt[i].name \notin linked
    BY <1>1, <2>2, <1>s DEF OnLookupComplete, AttemptState
  <2> QED
    BY <2>1, <2>2
<1>2. CASE OnLookupError(i)
  BY <1>2, <1>m, <1>s DEF OnLookupError, AttemptState
<1>3. CASE FinishAuth(i)
  <2>1. /\ attempt' = Drop(i) /\ linked' \subseteq Name /\ UNCHANGED <<kind, config>>
    BY <1>3, <1>a DEF FinishAuth, AutoconnectTypeOK
  <2>2. /\ position' \in [Config -> 0..Len(Chain)] /\ lost' \subseteq Config
        /\ \A h \in Config : h # attempt[i].ac /\ position'[h] > 0 /\ h \notin lost'
                             => position[h] > 0 /\ h \notin lost
        /\ attempt[i].ac \in Config => position'[attempt[i].ac] = 0
    <3>1. CASE attempt[i].ac = NoBlock
      <4>1. position' = position /\ lost' = lost
        BY <1>3, <3>1 DEF FinishAuth
      <4>2. attempt[i].ac \notin Config
        BY <3>1 DEF Config, NoBlock
      <4> QED
        BY <4>1, <4>2 DEF AutoconnectTypeOK
    <3>2. CASE attempt[i].ac # NoBlock
      <4>1. PICK g \in Config : g = attempt[i].ac
        BY <3>2, <1>a
      <4>2. position' = [position EXCEPT ![g] = 0] /\ lost' = lost \ {g}
        BY <1>3, <3>2, <4>1 DEF FinishAuth
      <4>3. position \in [Config -> 0..Len(Chain)] /\ lost \subseteq Config /\ Len(Chain) \in Nat
        BY DEF AutoconnectTypeOK
      <4> QED
        BY <4>1, <4>2, <4>3
    <3> QED
      BY <3>1, <3>2
  <2>3. AutoconnectTypeOK' /\ KindsOK'
    BY <2>1, <2>2, <1>a DEF AutoconnectTypeOK, KindsOK
  <2>4. \A h \in Config : position'[h] > 0 /\ h \notin lost' => Dialling(h)'
    BY <2>1, <2>2, <1>b DEF AliveIn, Dialling
  <2> QED
    BY <2>3, <2>4
<1>4. CASE CloseSocket(i)
  BY <1>4, <1>s DEF CloseSocket, AttemptState
<1>5. CASE Cull(i)
  BY <1>5, <1>m DEF Cull
<1> QED
  BY <1>1, <1>2, <1>3, <1>4, <1>5 DEF AttemptStep

(* For any names, chain, kinds of link and number of attempts, a block in  *)
(* the middle of its chain always has a lookup, a socket or a culled       *)
(* socket that will move it on, unless it is one of those that the two     *)
(* silent ends of an attempt have lost (ConnectServer, Cull, OnError).     *)
THEOREM BlocksStayAlive == AutoconnectSpec => []BlockAlive
<1> USE AutoconnectAssumption DEF AutoconnectInv, BlockAlive
<1>1. AutoconnectInit => AutoconnectInv
  <2> SUFFICES ASSUME AutoconnectInit PROVE AutoconnectInv
    OBVIOUS
  <2>1. KindsOK
    BY DEF AutoconnectInit, KindsOK
  <2>2. AutoconnectTypeOK
    BY DEF AutoconnectInit, AutoconnectTypeOK, Blank, NoAttempt, AttemptState, Config
  <2> QED
    BY <2>1, <2>2 DEF AutoconnectInit, Config
<1>2. AutoconnectInv /\ [AutoconnectNext]_autoconnectVars => AutoconnectInv'
  <2> SUFFICES ASSUME AutoconnectInv, [AutoconnectNext]_autoconnectVars PROVE AutoconnectInv'
    OBVIOUS
  <2>1. CASE AutoConnectServers
    <3>1. \A h \in Config : AliveIn(attempt, h)
      BY DEF AliveIn, Dialling
    <3>2. config \in Config /\ config # NoBlock
          /\ attempt \in [Slot -> [st : AttemptState, name : Name, ac : Config \cup {NoBlock}]]
      BY DEF AutoconnectTypeOK, Config, NoBlock
    <3>3. ConnectServer(attempt, config, TRUE) /\ UNCHANGED <<kind, linked, config>>
      BY <2>1 DEF AutoConnectServers
    <3> QED
      BY <3>1, <3>2, <3>3, ConnectServerKeeps
  <2>2. ASSUME NEW n \in Name, HandleConnect(n) PROVE AutoconnectInv'
    <3>1. /\ attempt' \in [Slot -> [st : AttemptState, name : Name, ac : Config \cup {NoBlock}]]
          /\ \A j \in Slot : attempt[j].st # "FREE" => attempt'[j] = attempt[j]
      <4>1. kind[n] \in {"ip", "host", "undialable", "nolink"} /\ kind[n] # "nolink"
        BY <2>2 DEF HandleConnect, KindsOK
      <4>2. attempt \in [Slot -> [st : AttemptState, name : Name, ac : Config \cup {NoBlock}]]
        BY DEF AutoconnectTypeOK
      <4>3. NoBlock \in Config \cup {NoBlock} /\ attempt' \in Started(attempt, NoBlock, n)
        BY <2>2 DEF HandleConnect
      <4> QED
        BY <4>1, <4>2, <4>3, StartedKeeps
    <3> QED
      BY <2>2, <3>1 DEF HandleConnect, AutoconnectTypeOK, KindsOK, Dialling
  <2>3. ASSUME NEW n \in Name, Introduced(n) \/ Split(n) PROVE AutoconnectInv'
    BY <2>3 DEF Introduced, Split, AutoconnectTypeOK, KindsOK, Dialling
  <2>4. ASSUME NEW i \in Slot, AttemptStep(i) PROVE AutoconnectInv'
    BY <2>4, AttemptStepKeeps
  <2>5. CASE ReadConfiguration
    BY <2>5 DEF ReadConfiguration, AutoconnectTypeOK, KindsOK, Dialling, Config
  <2>6. CASE UNCHANGED autoconnectVars
    BY <2>6 DEF autoconnectVars, AutoconnectTypeOK, KindsOK, Dialling
  <2> QED
    BY <2>1, <2>2, <2>3, <2>4, <2>5, <2>6 DEF AutoconnectNext
<1> QED
  BY <1>1, <1>2, PTL DEF AutoconnectSpec


=============================================================================
