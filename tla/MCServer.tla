------------------------------ MODULE MCServer ------------------------------
(***************************************************************************)
(* Small instances of the parts of one server that share no state in the   *)
(* models.  A behaviour is one of a single part; the others keep their     *)
(* first state.  Configurations a part starts with that the others do not  *)
(* need are pinned for them.                                               *)
(***************************************************************************)
EXTENDS Autoconnect, ServerPing, LinkAuth, DnsLookup, StreamSocket, ConnectHolds, Clients,
        SqlThread, LdapThread, Invites, XLineDb, Sasl, Timers, Whowas, Wildcard,
        ModuleManager, CommandQueue, Capabilities

CONSTANT Parts      \* the parts that a run is about

VARIABLE part

serverRunVars == <<part, autoconnectVars, pingVars, authVars, dnsVars, socketVars, holdsVars,
                   clientsVars, sqlVars, ldapVars, inviteVars, dbVars, saslVars, timerVars,
                   whowasVars, wildcardVars, moduleVars, queueVars, capVars>>

-----------------------------------------------------------------------------
(* Values of the constants *)

MCName == {"hub", "leaf"}

MCChain == <<"hub", "leaf">>

MCKind == [hub |-> {"host"}, leaf |-> {"ip", "undialable", "nolink"}]

MCLiveKind == [hub |-> {"host"}, leaf |-> {"ip"}]

MCPingSetting == {<<3, 1>>, <<2, 0>>, <<2, 3>>}

Always(b) == [e \in Ends |-> b]

Plain ==
    [ sha256 |-> Always(TRUE), knows |-> Always(TRUE), allowmismatch |-> Always(FALSE),
      differ |-> {}, offset |-> 0, slow |-> FALSE ]

MCAuthConfig ==
    {[Plain EXCEPT !.sha256 = s, !.knows = k] : s, k \in [Ends -> BOOLEAN]}
    \cup {[Plain EXCEPT !.allowmismatch = a, !.differ = {f}] :
            a \in [Ends -> BOOLEAN], f \in FatalFeature \cup OptionalFeature}
    \cup {[Plain EXCEPT !.offset = o, !.slow = s] : o \in -4..4, s \in BOOLEAN}

MCLiveAuthConfig ==
    {Plain, [Plain EXCEPT !.sha256 = Always(FALSE)]}
    \cup {[Plain EXCEPT !.offset = 2, !.slow = TRUE]}

MCAsks == [r \in Req |-> IF r = "r3" THEN "q2" ELSE "q1"]

MCCreator == [r \in Req |-> IF r = "r2" THEN "m2" ELSE "m1"]

Load(b, i) == [bytes |-> b, inbound |-> i]

MCLoads == {Load(3, 0), Load(1, 3)}

MCLiveLoads == {Load(2, 0), Load(0, 3)}

Class(t, h, l, p, m) == [type |-> t, hosts |-> h, limit |-> l, password |-> p, maxlocal |-> m]

MCClasses == << Class("ALLOW", {"a"}, 2, FALSE, 0), Class("ALLOW", {"a", "b"}, 1, TRUE, 2),
                Class("DENY", {"b"}, 0, FALSE, 0), Class("NAMED", {}, 0, FALSE, 1) >>

Settings(i, r, d, u) == [ip |-> i, resolve |-> r, usednsbl |-> d, useident |-> u]

MCClassOf == [a |-> Settings(TRUE, TRUE, TRUE, TRUE), b |-> Settings(TRUE, TRUE, FALSE, FALSE),
              u |-> Settings(FALSE, TRUE, TRUE, TRUE)]

MCSetup == { [order |-> <<"host", "dnsbl">>, moves |-> 2],
             [order |-> <<"sql", "ident", "cap", "host">>, moves |-> 1],
             [order |-> <<"pong", "ident", "sql">>, moves |-> 0] }

MCLiveSetup == { [order |-> <<"cap", "ident", "host">>, moves |-> 1],
                 [order |-> <<"pong", "sql", "dnsbl">>, moves |-> 0] }

MCSqlCreator == [q \in Query |-> IF q = "q1" THEN "m1" ELSE "m2"]

MCOnConn == [q \in Query |-> IF q = "q3" THEN "c2" ELSE "c1"]

MCInterface == [r \in Request |-> IF r = "r2" THEN "m2" ELSE "m1"]

Keeps(size, groups, keep) == [GroupSize |-> size, MaxGroups |-> groups, MaxKeep |-> keep]

MCWhowasTag == {Keeps(2, 2, 1), Keeps(1, 1, 1), Keeps(0, 1, 2), Keeps(2, 1, 2)}

MCCaseMap == [a |-> "a", A |-> "a", b |-> "b"]

MCOffers == [f |-> <<"s", "cmd", "e1">>, g |-> <<"e2", "m", "s">>]

MCExtOrder == <<"e1", "e2">>

Want(m) == [cap |-> m, remove |-> FALSE]

Unwanted(m) == [cap |-> m, remove |-> TRUE]

MCCapRequests ==
    { <<Want("echo")>>, <<Want("away"), Unwanted("notify")>>, <<Want("notify"), Unwanted("echo")>>,
      <<Unwanted("echo"), Want("echo"), Unwanted("away")>> }

MCPenalty == [cheap |-> 0, unknown |-> 2]

MCReplySize == [cheap |-> 2, unknown |-> 1]

Tag(f, e) == [fakelag |-> f, exempt |-> e]

MCConnectTag == {Tag(TRUE, FALSE), Tag(FALSE, FALSE), Tag(TRUE, TRUE)}

MCLiveTag == {Tag(TRUE, FALSE)}

-----------------------------------------------------------------------------

(* A part that the behaviour is not about has only its first configuration *)
Pin(p, holds) == part # p => holds

ServerRunInit ==
    /\ part \in Parts
    /\ AutoconnectInit /\ Pin("autoconnect", kind = [hub |-> "host", leaf |-> "ip"])
    /\ PingInit /\ Pin("ping", setting = <<2, 0>>)
    /\ AuthInit /\ Pin("auth", conf = Plain)
    /\ DnsInit
    /\ SocketInit /\ Pin("socket", engine = "poll" /\ conn = "CONNECTED" /\ load = CHOOSE l \in Loads : TRUE)
    /\ ClientsInit
    /\ SqlInit
    /\ LdapInit
    /\ InviteInit
    /\ DbInit
    /\ SaslInit /\ Pin("sasl", legacy = FALSE /\ agent = CHOOSE a \in Agent : TRUE)
    /\ TimerInit
    /\ WhowasInit /\ Pin("whowas", settings = CHOOSE c \in WhowasTag : TRUE)
    /\ ModulesInit
    /\ CapInit
    /\ QueueInit /\ Pin("queue", tag = Tag(TRUE, FALSE))
    /\ HoldsInit
    /\ Pin("holds", /\ setup = CHOOSE s \in Setup : TRUE
                    /\ addr = CHOOSE a \in Address : TRUE
                    /\ ~dl /\ blCount = 0 /\ lookups = {} /\ ~isock.fd /\ gap = {})
    /\ IF part = "wildcard" THEN WildcardInit ELSE WildcardInit /\ text = <<>> /\ mask_ = <<>>

(* A step of the part p, in which the other parts do not change *)
In(p) ==
    /\ part = p /\ part' = part
    /\ p # "autoconnect" => UNCHANGED autoconnectVars
    /\ p # "ping" => UNCHANGED pingVars
    /\ p # "auth" => UNCHANGED authVars
    /\ p # "dns" => UNCHANGED dnsVars
    /\ p # "socket" => UNCHANGED socketVars
    /\ p # "holds" => UNCHANGED holdsVars
    /\ p # "clients" => UNCHANGED clientsVars
    /\ p # "sql" => UNCHANGED sqlVars
    /\ p # "ldap" => UNCHANGED ldapVars
    /\ p # "invites" => UNCHANGED inviteVars
    /\ p # "xlinedb" => UNCHANGED dbVars
    /\ p # "sasl" => UNCHANGED saslVars
    /\ p # "timers" => UNCHANGED timerVars
    /\ p # "whowas" => UNCHANGED whowasVars
    /\ p # "wildcard" => UNCHANGED wildcardVars
    /\ p # "modules" => UNCHANGED moduleVars
    /\ p # "queue" => UNCHANGED queueVars
    /\ p # "caps" => UNCHANGED capVars

ServerRunNext ==
    \/ In("autoconnect") /\ AutoconnectNext
    \/ In("ping") /\ PingNext
    \/ In("auth") /\ AuthNext
    \/ In("dns") /\ DnsNext
    \/ In("socket") /\ SocketNext
    \/ In("holds") /\ HoldsNext
    \/ In("clients") /\ ClientsNext
    \/ In("sql") /\ SqlNext
    \/ In("ldap") /\ LdapNext
    \/ In("invites") /\ InviteNext
    \/ In("xlinedb") /\ DbNext
    \/ In("sasl") /\ SaslNext
    \/ In("timers") /\ TimerNext
    \/ In("whowas") /\ WhowasNext
    \/ In("wildcard") /\ WildcardNext
    \/ In("modules") /\ ModulesNext
    \/ In("queue") /\ QueueNext
    \/ In("caps") /\ CapNext

ServerRun == ServerRunInit /\ [][ServerRunNext]_serverRunVars

(* The fairness of each part in its own behaviours.  A behaviour is of one *)
(* part, so a condition of one part can share its formula with those of    *)
(* others: TLC examines every combination of strong conditions.            *)
At(p) == part = p /\ part' = part

partVars ==
    CASE part = "autoconnect" -> autoconnectVars
      [] part = "auth" -> authVars
      [] part = "dns" -> dnsVars
      [] part = "socket" -> socketVars
      [] part = "holds" -> holdsVars
      [] part = "sql" -> sqlVars
      [] part = "ldap" -> ldapVars
      [] part = "sasl" -> saslVars
      [] part = "wildcard" -> wildcardVars
      [] part = "queue" -> queueVars

StrongStep(n) ==
    \/ n = 1 /\ At("autoconnect") /\ AutoConnectServers
    \/ n = 1 /\ At("dns") /\ (DnsSecond \/ \E r \in Req : RequestTick(r))
    \/ n = 1 /\ At("socket") /\ EngineStep
    \/ n = 2 /\ At("socket") /\ error /\ Close
    \/ n = 1 /\ At("sql") /\ WorkerStep
    \/ n = 2 /\ At("sql") /\ MainStep
    \/ n = 3 /\ At("sql") /\ OnNotify
    \/ n = 1 /\ At("ldap") /\ ServiceStep
    \/ n = 2 /\ At("ldap") /\ CallerStep
    \/ n = 3 /\ At("ldap") /\ DeliverResults
    \/ n = 1 /\ At("queue") /\ DoBackgroundUserStuff

WeakStep(n) ==
    \/ At("autoconnect") /\ \E i \in Slot : i = n /\ AttemptStep(i)
    \/ At("auth") /\ \E e \in Ends : n = (IF e = "out" THEN 1 ELSE 2) /\ ReadLine(e)
    \/ At("dns") /\ \E r \in Req : n = (IF r = "r1" THEN 1 ELSE 2) /\ Return(r)
    \/ n = 1 /\ At("socket") /\ HandlerStep
    \/ n = 2 /\ At("socket") /\ DispatchTrialWrites
    \/ n = 3 /\ At("socket") /\ SocketTimeoutTick
    \/ n = 4 /\ At("socket") /\ PeerTakes
    \/ n = 1 /\ At("holds") /\ CheckModulesReady
    \/ n = 2 /\ At("holds") /\ CheckConnectionTimeout
    \/ n = 3 /\ At("holds") /\ HoldsSecond
    \/ n = 1 /\ At("sasl") /\ CommandSASL
    \/ n = 2 /\ At("sasl") /\ \E k \in Replies : ServicesAnswer(k)
    \/ n = 3 /\ At("sasl") /\ ServicesAbort
    \/ n = 1 /\ At("wildcard") /\ WildcardNext
    \/ n = 1 /\ At("queue") /\ ServerStep

ServerRunFairness ==
    /\ \A n \in 1..3 : SF_partVars(StrongStep(n))
    /\ \A n \in 1..4 : WF_partVars(WeakStep(n))

ServerRunFair == ServerRun /\ ServerRunFairness

-----------------------------------------------------------------------------
(* What the server remembers of nicks that are gone is consistent and      *)
(* bounded (WhowasConsistent), and its lines of bans are well formed.      *)
HistoryKept == DbTypeOK /\ WhowasConsistent

(* An autoconnect block that is not lost goes on dialling its servers until *)
(* one is linked, the attempts of a block that a rehash replaced end, and   *)
(* compatible servers link (KeepsDialling and OldBlockRetires of            *)
(* Autoconnect, CompatibleServersLink of LinkAuth).                         *)
LinksAreMade ==
    /\ part = "autoconnect" => KeepsDialling
    /\ part = "autoconnect" => OldBlockRetires
    /\ part = "auth" => CompatibleServersLink

(* Whoever waits for an answer gets one, and the main thread never hangs on *)
(* a thread that works for it: DNS requests, SQL queries and LDAP requests  *)
(* are called back, the services' answers reach a SASL client and no        *)
(* session stays behind, and matching a mask ends.                          *)
AnswersCome ==
    /\ part = "dns" => AlwaysAnswered
    /\ part = "sql" => MainReturns
    /\ part = "sql" => QueryAnswered
    /\ part = "ldap" => CallerReturns
    /\ part = "ldap" => RequestAnswered
    /\ part = "sasl" => SessionsEnd
    /\ part = "sasl" => AlwaysAnAnswer
    /\ part = "wildcard" => MatchEnds

(* A connection moves on: what is queued is sent, what the peer sends is   *)
(* read, its end is noticed (StreamAdvances, InboundRead and EofNoticed of *)
(* StreamSocket), lines that were held reach the parser (LinesMoveOn of    *)
(* CommandQueue), and no client stays unregistered (RegistrationEnds of    *)
(* ConnectHolds).                                                          *)
ConnectionsMoveOn ==
    /\ part = "socket" => StreamAdvances
    /\ part = "socket" => InboundRead
    /\ part = "socket" => EofNoticed
    /\ part = "queue" => LinesMoveOn
    /\ part = "holds" => RegistrationEnds
=============================================================================
