---------------------------- MODULE ConnectHolds ----------------------------
(***************************************************************************)
(* One local client between its connection and FullConnect: the modules    *)
(* that hold it back in OnCheckReady while they wait for something         *)
(* (core_hostname_lookup, dnsbl, ident, sqlauth, cap, conn_waitpong), and  *)
(* DoBackgroundUserStuff, which asks them once a second.  The address of   *)
(* the client may change meanwhile (WEBIRC, a gateway, a WebSocket proxy), *)
(* which starts the lookups again while the answers to the earlier ones    *)
(* are still to come.  DNS requests keep the promise of DnsPromise.        *)
(***************************************************************************)
EXTENDS Integers, Sequences, FiniteSets

CONSTANTS
    Address,        \* addresses the client may have
    ClassOf,        \* ClassOf[a]: the connect class settings for address a
    BlockList,      \* <dnsbl> tags
    Setup,          \* sets of loaded modules, see order
    IdentTimeout,   \* <ident:timeout>
    ConnectTimeout  \* <connect:timeout>

ASSUME HoldsAssumption ==
    \A a \in Address : ClassOf[a] \in [ip : BOOLEAN, resolve : BOOLEAN, usednsbl : BOOLEAN, useident : BOOLEAN]

ASSUME BoundsAssumption ==
    /\ IdentTimeout \in Nat /\ ConnectTimeout \in Nat
    /\ \A s \in Setup : s.moves \in Nat

(* A lookup is told apart by what it is for: the host or a list *)
ASSUME ListsAssumption == IsFiniteSet(BlockList) /\ BlockList \cap {"ptr", "forward"} = {}

VARIABLES
    setup,      \* [order, moves]: the loaded modules, in the order in which
                \* OnCheckReady asks them; bound: changes of address
    stage,      \* "none" (no NICK and USER yet), "nickuser", "full" or "quit"
    addr,       \* client_sa
    host,       \* the real host: <<"ip", a>> or <<"name", a>>, a name that resolves to a
    moves,      \* how often the address was set
    dl,         \* the dns-lookup flag
    blCount,    \* dnsbl-pending
    lookups,    \* DNS requests not yet called back: [what, addr, move]
    isock,      \* the ident socket: [st, fd, left, found]
    istate,     \* ident-state
    username,   \* "given", "prefixed" or "found"
    sql,        \* sqlauth-wait: "none", "busy" or "fail"
    sqlPending, \* a query is being answered
    capHold,    \* cap-hold
    cookie,     \* a ping cookie was sent and not returned
    waited,     \* seconds since signon
    passed,     \* history: the checks the client passed: "sql", "pong"
    gap         \* history: races the code does not repair (see GapKinds)

holdsVars == <<setup, stage, addr, host, moves, dl, blCount, lookups, isock, istate, username,
               sql, sqlPending, capHold, cookie, waited, passed, gap>>

(* flag: the address moved to one that is not looked up while dl was set.   *)
(* name: a name of an earlier address was kept when no lookup was started.  *)
(* count: a DNSBL request was refused, or the address moved to one that is  *)
(* not checked, while blCount was set.  revisit: the client went back to an *)
(* address whose first lookups were still pending.                          *)
GapKinds == {"flag", "name", "count", "revisit"}

NoSocket == [st |-> "none", fd |-> FALSE, left |-> 0, found |-> FALSE]

(* The callback of a request for a client that has quit does nothing: the *)
(* client is no longer found by its uuid.                                 *)
Alive == stage # "quit"

(* Requests for the client's present address; their callbacks compare it *)
Current(l) == l.addr = addr

Loaded(mod) == \E i \in DOMAIN setup.order : setup.order[i] = mod

(* The lookups that a connection from a asks for *)
Resolves(a) == Loaded("host") /\ ClassOf[a].resolve /\ ClassOf[a].ip

Lists(a) == IF Loaded("dnsbl") /\ ClassOf[a].usednsbl THEN BlockList ELSE {}

Queries(a) == Loaded("ident") /\ ClassOf[a].ip

(* What Process does with a request: it throws, reports an error at once,   *)
(* or accepts it (an answer from the cache is an answer that comes at once) *)
Outcomes == {"throw", "error", "sent"}

HostRequests(a, n, out) ==
    IF Resolves(a) /\ out = "sent"
    THEN {[what |-> "ptr", addr |-> a, move |-> n]}
    ELSE {}

ListRequests(a, n, bl) ==
    {[what |-> b, addr |-> a, move |-> n] : b \in {b \in Lists(a) : bl[b] = "sent"}}

(* User::ChangeRemoteAddress: the host follows the address when it was the *)
(* address; then core_hostname_lookup: HandleError sets it to the address. *)
NewHost(a, out) ==
    IF \/ host = <<"ip", addr>>
       \/ Resolves(a) /\ out = "error"
    THEN <<"ip", a>>
    ELSE host

(* The dns-lookup flag is set before Process and cleared by its failure, *)
(* and not touched for an address that is not looked up.                 *)
NewFlag(a, out) == IF Resolves(a) THEN out = "sent" ELSE dl

(* The count is set to the number of lists, and an error reported at once  *)
(* takes one off; a refused request does not.                              *)
NewCount(a, bl) ==
    IF Lists(a) # {} THEN Cardinality({b \in Lists(a) : bl[b] # "error"}) ELSE blCount

(* ident: a lookup in progress is dropped, and a new one is started when *)
(* the class asks for it and the socket can be opened.                   *)
NewSocket(a, opens) ==
    IF Queries(a) /\ ClassOf[a].useident /\ opens
    THEN [st |-> "open", fd |-> TRUE, left |-> IdentTimeout, found |-> FALSE]
    ELSE NoSocket

NewIdentState(a, opens) ==
    IF ~Queries(a) THEN istate
    ELSE IF ~ClassOf[a].useident THEN "skipped"
    ELSE IF opens THEN "none" ELSE "error"

Gaps(a, out, bl) ==
    {g \in GapKinds :
        \/ g = "flag" /\ dl /\ ~Resolves(a)
        \/ g = "name" /\ HostRequests(a, 0, out) = {} /\ NewHost(a, out)[2] # a
        \/ g = "count" /\ \/ \E b \in Lists(a) : bl[b] = "throw"
                          \/ Lists(a) = {} /\ blCount > 0
        \/ g = "revisit" /\ \E l \in lookups : l.addr = a}

(* User::ChangeRemoteAddress and then the OnChangeRemoteAddress handlers of *)
(* the three modules.  out and bl: what Process does with each request.      *)
OnChangeRemoteAddress(a, out, bl, opens) ==
    /\ stage \in {"none", "nickuser"}
    /\ a # addr
    /\ moves < setup.moves
    /\ moves' = moves + 1
    /\ addr' = a
    /\ host' = NewHost(a, out)
    /\ dl' = NewFlag(a, out)
    /\ blCount' = NewCount(a, bl)
    /\ lookups' = lookups \cup HostRequests(a, moves + 1, out) \cup ListRequests(a, moves + 1, bl)
    /\ isock' = NewSocket(a, opens)
    /\ istate' = NewIdentState(a, opens)
    /\ gap' = gap \cup Gaps(a, out, bl)
    /\ UNCHANGED <<setup, stage, username, sql, sqlPending, capHold, cookie, waited, passed>>

(* UserManager::AddUser calls the same handlers for the first address *)
HoldsInit ==
    /\ setup \in Setup
    /\ stage = "none"
    /\ moves = 0
    /\ \E a \in Address, out \in Outcomes, bl \in [BlockList -> Outcomes], opens \in BOOLEAN :
          /\ addr = a
          /\ host = <<"ip", a>>
          /\ dl = (Resolves(a) /\ out = "sent")
          /\ blCount = Cardinality({b \in Lists(a) : bl[b] # "error"})
          /\ lookups = HostRequests(a, 0, out) \cup ListRequests(a, 0, bl)
          /\ isock = NewSocket(a, opens)
          /\ istate = IF ~Queries(a) THEN "none"
                      ELSE IF ~ClassOf[a].useident THEN "skipped"
                      ELSE IF opens THEN "none" ELSE "error"
          /\ gap = IF \E b \in Lists(a) : bl[b] = "throw" THEN {"count"} ELSE {}
    /\ username = "given"
    /\ sql = "none"
    /\ sqlPending = FALSE
    /\ capHold = FALSE
    /\ cookie = FALSE
    /\ waited = 0
    /\ passed = {}

-----------------------------------------------------------------------------
(* HandleError: the address becomes the host and the hold ends *)
UseAddressMutant == host' = <<"ip", addr>> /\ dl' = dl

UseAddress ==
    /\ host' = <<"ip", addr>>
    /\ dl' = FALSE

KeepHost == UNCHANGED <<host, dl>>

(* The PTR record of the address: a forward lookup is started, or refused. *)
(* forward: what Process does with it.                                     *)
PtrComplete(l, forward) ==
    /\ Alive
    /\ l \in lookups
    /\ l.what = "ptr"
    /\ IF Current(l)
       THEN IF forward = "sent"
            THEN lookups' = (lookups \ {l}) \cup {[l EXCEPT !.what = "forward"]} /\ KeepHost
            ELSE lookups' = lookups \ {l} /\ UseAddress
       ELSE lookups' = lookups \ {l} /\ KeepHost
    /\ UNCHANGED <<setup, stage, addr, moves, blCount, isock, istate, username, sql, sqlPending, capHold, cookie, waited, passed, gap>>

(* The address records of the name: they contain the client's address or not *)
ForwardComplete(l, matches) ==
    /\ Alive
    /\ l \in lookups
    /\ l.what = "forward"
    /\ lookups' = lookups \ {l}
    /\ IF ~Current(l) THEN KeepHost
       ELSE IF matches THEN host' = <<"name", l.addr>> /\ dl' = FALSE
       ELSE UseAddress
    /\ UNCHANGED <<setup, stage, addr, moves, blCount, isock, istate, username, sql, sqlPending, capHold, cookie, waited, passed, gap>>

(* UserResolver::OnError *)
HostLookupError(l) ==
    /\ Alive
    /\ l \in lookups
    /\ l.what \in {"ptr", "forward"}
    /\ lookups' = lookups \ {l}
    /\ IF Current(l) THEN UseAddress ELSE KeepHost
    /\ UNCHANGED <<setup, stage, addr, moves, blCount, isock, istate, username, sql, sqlPending, capHold, cookie, waited, passed, gap>>

(* DNSBLResolver: a miss, an error or a mark takes one off the count; a hit *)
(* with the action KILL also quits the client.                              *)
ListAnswerMutant(l, kill) ==
    /\ Alive
    /\ l \in lookups
    /\ l.what \in BlockList
    /\ lookups' = lookups \ {l}
    /\ blCount' = IF blCount > 0 THEN blCount - 1 ELSE blCount
    /\ stage' = IF Current(l) /\ kill THEN "quit" ELSE stage
    /\ UNCHANGED <<setup, addr, host, moves, dl, isock, istate, username, sql, sqlPending, capHold, cookie, waited, passed, gap>>

ListAnswer(l, kill) ==
    /\ Alive
    /\ l \in lookups
    /\ l.what \in BlockList
    /\ lookups' = lookups \ {l}
    /\ blCount' = IF Current(l) /\ blCount > 0 THEN blCount - 1 ELSE blCount
    /\ stage' = IF Current(l) /\ kill THEN "quit" ELSE stage
    /\ UNCHANGED <<setup, addr, host, moves, dl, isock, istate, username, sql, sqlPending, capHold, cookie, waited, passed, gap>>

-----------------------------------------------------------------------------
(* The ident socket is ready to write but the request cannot be sent: done, *)
(* although the socket stays open and may still deliver a reply.            *)
IdentSendFails ==
    /\ Alive
    /\ isock.st = "open"
    /\ isock' = [isock EXCEPT !.st = "done"]
    /\ UNCHANGED <<setup, stage, addr, host, moves, dl, blCount, lookups, istate, username, sql, sqlPending, capHold, cookie, waited, passed, gap>>

(* A reply with a valid username or without one, or a socket error *)
IdentReply(found) ==
    /\ Alive
    /\ isock.fd
    /\ isock' = [isock EXCEPT !.st = "done", !.fd = FALSE, !.found = found]
    /\ UNCHANGED <<setup, stage, addr, host, moves, dl, blCount, lookups, istate, username, sql, sqlPending, capHold, cookie, waited, passed, gap>>

(* NICK and USER are complete: OnUserRegister of sqlauth and conn_waitpong. *)
(* provider: the SQL service is there; without it the client is quit.       *)
OnUserRegister(provider) ==
    /\ stage = "none"
    /\ stage' = IF Loaded("sql") /\ ~provider THEN "quit" ELSE "nickuser"
    /\ sql' = IF Loaded("sql") /\ provider THEN "busy" ELSE sql
    /\ sqlPending' = (Loaded("sql") /\ provider)
    /\ cookie' = Loaded("pong")
    /\ UNCHANGED <<setup, addr, host, moves, dl, blCount, lookups, isock, istate, username, capHold, waited, passed, gap>>

(* AuthQuery::OnResult and OnError *)
SqlResult(ok) ==
    /\ Alive
    /\ sqlPending
    /\ sqlPending' = FALSE
    /\ sql' = IF ok THEN "none" ELSE "fail"
    /\ passed' = IF ok THEN passed \cup {"sql"} ELSE passed
    /\ UNCHANGED <<setup, stage, addr, host, moves, dl, blCount, lookups, isock, istate, username, capHold, cookie, waited, gap>>

(* Any CAP subcommand but END holds a client that is not connected *)
CapCommand ==
    /\ Loaded("cap")
    /\ stage \in {"none", "nickuser"}
    /\ ~capHold
    /\ capHold' = TRUE
    /\ UNCHANGED <<setup, stage, addr, host, moves, dl, blCount, lookups, isock, istate, username, sql, sqlPending, cookie, waited, passed, gap>>

CapEnd ==
    /\ Alive
    /\ capHold
    /\ capHold' = FALSE
    /\ UNCHANGED <<setup, stage, addr, host, moves, dl, blCount, lookups, isock, istate, username, sql, sqlPending, cookie, waited, passed, gap>>

(* conn_waitpong's OnPreCommand: the cookie, or another string with *)
(* killonbadreply.                                                  *)
WaitPong(right) ==
    /\ Alive
    /\ cookie
    /\ IF right
       THEN cookie' = FALSE /\ passed' = passed \cup {"pong"} /\ UNCHANGED stage
       ELSE stage' = "quit" /\ UNCHANGED <<cookie, passed>>
    /\ UNCHANGED <<setup, addr, host, moves, dl, blCount, lookups, isock, istate, username, sql, sqlPending, capHold, waited, gap>>

-----------------------------------------------------------------------------
(* HasTimeout compares the deadline with the time of the result, if any *)
IdentTimedOut == isock.left <= 0

(* The answer of each module's OnCheckReady *)
Denies(mod) ==
    \/ mod = "host" /\ dl
    \/ mod = "dnsbl" /\ blCount > 0
    \/ mod = "ident" /\ isock.st = "open" /\ ~IdentTimedOut
    \/ mod = "sql" /\ sql \in {"busy", "fail"}
    \/ mod = "cap" /\ capHold
    \/ mod = "pong" /\ cookie

Denied == \E i \in DOMAIN setup.order : Denies(setup.order[i])

(* Modules are asked in order until one denies *)
Asked(mod) ==
    \E i \in DOMAIN setup.order :
        setup.order[i] = mod /\ \A j \in 1..(i - 1) : ~Denies(setup.order[j])

(* ident's OnCheckReady: a result or a timeout is copied to the client, and *)
(* a client that was not queried gets a prefix (<ident:prefixunqueried>).   *)
IdentCheckReady ==
    IF ~Asked("ident") \/ Denies("ident")
    THEN UNCHANGED <<isock, istate, username>>
    ELSE IF isock.st = "none"
    THEN /\ istate' = IF istate \in {"skipped", "error"} THEN "prefixed" ELSE istate
         /\ username' = IF istate \in {"skipped", "error"} THEN "prefixed" ELSE username
         /\ UNCHANGED isock
    ELSE /\ isock' = NoSocket
         /\ LET found == isock.found /\ ~IdentTimedOut
            IN  /\ istate' = IF found THEN "found" ELSE "missing"
                /\ username' = IF found THEN "found" ELSE "prefixed"

(* CheckModulesReady for a client with NICK and USER: it connects when no *)
(* module denies, sqlauth quits a client that failed, and otherwise the   *)
(* connection timeout is checked.                                         *)
CheckModulesReady ==
    /\ stage = "nickuser"
    /\ IdentCheckReady
    /\ stage' = IF ~Denied THEN "full"
                ELSE IF Asked("sql") /\ sql = "fail" THEN "quit"
                ELSE IF waited > ConnectTimeout THEN "quit" ELSE stage
    /\ UNCHANGED <<setup, addr, host, moves, dl, blCount, lookups, sql, sqlPending, capHold, cookie, waited, passed, gap>>

(* CheckConnectionTimeout for a client that has not sent NICK and USER *)
CheckConnectionTimeout ==
    /\ stage = "none"
    /\ waited > ConnectTimeout
    /\ stage' = "quit"
    /\ UNCHANGED <<setup, addr, host, moves, dl, blCount, lookups, isock, istate, username, sql, sqlPending, capHold, cookie, waited, passed, gap>>

(* A second passes.  The ident deadline no longer moves once there is a *)
(* result; the time of the connection is counted just past its timeout. *)
HoldsSecond ==
    /\ stage \in {"none", "nickuser"}
    /\ waited <= ConnectTimeout
    /\ waited' = waited + 1
    /\ isock' = IF isock.st = "open" /\ isock.left > 0 THEN [isock EXCEPT !.left = @ - 1] ELSE isock
    /\ UNCHANGED <<setup, stage, addr, host, moves, dl, blCount, lookups, istate, username, sql, sqlPending, capHold, cookie, passed, gap>>

Lookup == [what : {"ptr", "forward"} \cup BlockList, addr : Address, move : Nat]

HoldsNext ==
    \/ \E a \in Address, out \in Outcomes, bl \in [BlockList -> Outcomes], opens \in BOOLEAN :
           OnChangeRemoteAddress(a, out, bl, opens)
    \/ \E l \in lookups, out \in Outcomes : PtrComplete(l, out)
    \/ \E l \in lookups, b \in BOOLEAN : ForwardComplete(l, b) \/ ListAnswer(l, b)
    \/ \E l \in lookups : HostLookupError(l)
    \/ \E b \in BOOLEAN : IdentReply(b) \/ OnUserRegister(b) \/ SqlResult(b) \/ WaitPong(b)
    \/ IdentSendFails \/ CapCommand \/ CapEnd
    \/ CheckModulesReady \/ CheckConnectionTimeout \/ HoldsSecond

(* The clock and the main loop: DoBackgroundUserStuff runs every second *)
HoldsFairness ==
    WF_holdsVars(CheckModulesReady) /\ WF_holdsVars(CheckConnectionTimeout) /\ WF_holdsVars(HoldsSecond)

HoldsSafe == HoldsInit /\ [][HoldsNext]_holdsVars

HoldsSpec == HoldsInit /\ [][HoldsNext]_holdsVars /\ HoldsFairness

-----------------------------------------------------------------------------
HoldsTypeOK ==
    /\ stage \in {"none", "nickuser", "full", "quit"}
    /\ addr \in Address
    /\ host \in {"ip", "name"} \X Address
    /\ moves \in 0..setup.moves
    /\ dl \in BOOLEAN /\ sqlPending \in BOOLEAN /\ capHold \in BOOLEAN /\ cookie \in BOOLEAN
    /\ blCount \in 0..Cardinality(BlockList)
    /\ lookups \subseteq Lookup
    /\ isock \in [st : {"none", "open", "done"}, fd : BOOLEAN, left : 0..IdentTimeout, found : BOOLEAN]
    /\ istate \in {"none", "skipped", "error", "found", "missing", "prefixed"}
    /\ username \in {"given", "prefixed", "found"}
    /\ sql \in {"none", "busy", "fail"}
    /\ waited \in 0..(ConnectTimeout + 1)
    /\ passed \subseteq {"sql", "pong"}
    /\ gap \subseteq GapKinds

Pending(S) == {l \in lookups : l.what \in S /\ Current(l)}

(* A client is never held for an answer that will not come: while a module *)
(* denies, the request that will release the client is pending for the     *)
(* address the client has now.                                             *)
HeldForAReason ==
    HoldsTypeOK /\ (stage \in {"none", "nickuser"} =>
        /\ dl => "flag" \in gap \/ Pending({"ptr", "forward"}) # {}
        /\ blCount > 0 => "count" \in gap \/ Cardinality(Pending(BlockList)) >= blCount
        /\ sql = "busy" => sqlPending)

(* A client is connected only after every check of its address was answered *)
(* and its database password and ping cookie were accepted.                 *)
ConnectedMeansChecked ==
    stage = "full" =>
        /\ {mod \in {"sql", "pong"} : Loaded(mod)} \subseteq passed
        /\ "revisit" \notin gap => \A l \in lookups : ~Current(l)

(* The host of a connected client is its address or a name that resolves *)
(* to that address, not to one it had before.                            *)
HostVerified == stage = "full" /\ "name" \notin gap => host[2] = addr

(* What is known of a connected client was checked against the address it  *)
(* is connected with.                                                      *)
ConnectedSound == HostVerified /\ ConnectedMeansChecked

(* No client stays unregistered: it is connected, or quit by a check or *)
(* its connection timeout.                                              *)
RegistrationEnds == stage \in {"none", "nickuser"} ~> stage \in {"full", "quit"}
=============================================================================
