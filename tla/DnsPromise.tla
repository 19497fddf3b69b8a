----------------------------- MODULE DnsPromise -----------------------------
(***************************************************************************)
(* What the DNS manager promises to the code that creates requests         *)
(* (include/modules/dns.h): Process either refuses a request with an       *)
(* exception or calls it back exactly once, with OnLookupComplete and an   *)
(* answer to the question it asked, or with OnError.                       *)
(***************************************************************************)
CONSTANTS
    Req,        \* the requests, each used once
    Asks        \* Asks[r]: the question of request r

VARIABLES
    state,      \* "new", "asked", "complete", "error" or "refused"
    answer      \* the question the answer of r is about

promiseVars == <<state, answer>>

NoAnswer == "no answer"

PromiseInit ==
    /\ state = [r \in Req |-> "new"]
    /\ answer = [r \in Req |-> NoAnswer]

(* Process throws; the creator deletes the request and is never called *)
Refuse(r) ==
    /\ state[r] = "new"
    /\ state' = [state EXCEPT ![r] = "refused"]
    /\ UNCHANGED answer

Ask(r) ==
    /\ state[r] = "new"
    /\ state' = [state EXCEPT ![r] = "asked"]
    /\ UNCHANGED answer

(* From the cache, or from the nameserver *)
Complete(r) ==
    /\ state[r] \in {"new", "asked"}
    /\ state' = [state EXCEPT ![r] = "complete"]
    /\ answer' = [answer EXCEPT ![r] = Asks[r]]

(* One request, or all those of a module that is unloaded *)
Fail(S) ==
    /\ \A r \in S : state[r] \in {"new", "asked"}
    /\ state' = [r \in Req |-> IF r \in S THEN "error" ELSE state[r]]
    /\ UNCHANGED answer

Changed == {r \in Req : state'[r] # state[r]}

PromiseNext ==
    /\ state' # state
    /\ \/ \E r \in Changed : Refuse(r) \/ Ask(r) \/ Complete(r)
       \/ Fail(Changed)

PromiseSafe == PromiseInit /\ [][PromiseNext]_promiseVars

(* A request that was accepted is called back in the end *)
PromiseLive == \A r \in Req : state[r] = "asked" ~> state[r] \in {"complete", "error"}

PromiseSpec == PromiseSafe /\ PromiseLive
=============================================================================
