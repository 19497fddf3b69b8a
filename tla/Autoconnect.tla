---------------------------- MODULE Autoconnect ----------------------------
(***************************************************************************)
(* The autoconnect block of one server: a chain of server names that are   *)
(* dialled one after the other until one links.  An attempt is a name      *)
(* lookup or a socket; it holds the block it was made for, and the block   *)
(* moves on when the attempt ends.  A rehash replaces the block, but the   *)
(* attempts of the old one live on with it.                                *)
(***************************************************************************)
EXTENDS Integers, Sequences, FiniteSets

CONSTANTS
    Name,       \* server names with a <link> block
    Chain,      \* Autoconnect::servers
    Kind,       \* what each <link> can be: "ip", "host", "undialable", "nolink"
    Slot,       \* bound: attempts that can exist at once
    MaxConfig   \* bound: configurations read

ASSUME AutoconnectAssumption ==
    /\ Chain \in Seq(Name)
    /\ Len(Chain) > 0
    /\ Kind \in [Name -> SUBSET {"ip", "host", "undialable", "nolink"}]
    /\ MaxConfig \in Nat \ {0}
    /\ IsFiniteSet(Slot)

VARIABLES
    kind,       \* the <link> blocks of this behaviour
    linked,     \* names that FindServer() finds
    config,     \* the current configuration
    position,   \* position[c]: position of the block of c, counted from 1; 0: inactive
    attempt,    \* attempt[i]: [st, name, ac], the lookup or socket in slot i
    lost        \* history: blocks whose last attempt ended without telling them

autoconnectVars == <<kind, linked, config, position, attempt, lost>>

Config == 1..MaxConfig

NoBlock == 0   \* the attempt of an operator's CONNECT

AttemptState == {"FREE", "QUERY_AAAA", "QUERY_A", "SOCKET", "CULLED"}

NoAttempt(n) == [st |-> "FREE", name |-> n, ac |-> NoBlock]

Blank == NoAttempt(Chain[1])

Free(att) == {i \in Slot : att[i].st = "FREE"}

Put(att, st, n, g) ==
    [att EXCEPT ![CHOOSE i \in Free(att) : TRUE] = [st |-> st, name |-> n, ac |-> g]]

Drop(i) == [attempt EXCEPT ![i] = Blank]

ChainNames == {Chain[k] : k \in 1..Len(Chain)}

-----------------------------------------------------------------------------
(* Dialling *)

(* ConnectServer(Link): the attempts there can be after starting one to n   *)
(* for block g.  A socket that fails at once goes to the cull list; our own *)
(* name, a bad UNIX path or a missing DNS module make no attempt at all.    *)
Started(att, g, n) ==
    IF Free(att) = {} THEN {}
    ELSE CASE kind[n] = "ip" -> {Put(att, st, n, g) : st \in {"SOCKET", "CULLED"}}
           [] kind[n] = "host" -> {Put(att, st, n, g) : st \in {"QUERY_AAAA", "QUERY_A"}}
           [] kind[n] = "undialable" -> {att}

(* Where the loop over the chain stops: names without a <link> are skipped, *)
(* and a lookup that DNS refuses at once moves on like a failed attempt.    *)
ReachMutant(p) ==
    {q \in (p + 1)..(Len(Chain) + 1) :
        /\ \A r \in (p + 1)..(q - 1) : kind[Chain[r]] \in {"nolink", "host"}
        /\ q # Len(Chain)
        /\ q <= Len(Chain) => kind[Chain[q]] # "nolink"}

Reach(p) ==
    {q \in (p + 1)..(Len(Chain) + 1) :
        /\ \A r \in (p + 1)..(q - 1) : kind[Chain[r]] \in {"nolink", "host"}
        /\ q <= Len(Chain) => kind[Chain[q]] # "nolink"}

(* ConnectServer(Autoconnect, on_timer); att are the attempts so far *)
ConnectServer(att, g, on_timer) ==
    IF g = NoBlock
    THEN attempt' = att /\ UNCHANGED <<position, lost>>
    ELSE IF ChainNames \cap linked # {}
    THEN /\ position' = [position EXCEPT ![g] = 0]
         /\ lost' = lost \ {g}
         /\ attempt' = att
    ELSE IF on_timer = (position[g] > 0)
    THEN attempt' = att /\ UNCHANGED <<position, lost>>
    ELSE \E q \in Reach(position[g]) :
         IF q > Len(Chain)
         THEN /\ position' = [position EXCEPT ![g] = 0]
              /\ lost' = lost \ {g}
              /\ attempt' = att
         ELSE /\ position' = [position EXCEPT ![g] = q]
              /\ \E out \in Started(att, g, Chain[q]) :
                    /\ attempt' = out
                    /\ lost' = IF out = att THEN lost \cup {g} ELSE lost \ {g}

(* The cull list is empty whenever timers run: it is applied at the end of *)
(* every turn of the main loop.                                            *)
AutoConnectServers ==
    /\ \A i \in Slot : attempt[i].st # "CULLED"
    /\ ConnectServer(attempt, config, TRUE)
    /\ UNCHANGED <<kind, linked, config>>

(* An operator's CONNECT or RCONNECT *)
HandleConnect(n) ==
    /\ n \notin linked
    /\ kind[n] # "nolink"
    /\ \A i \in Slot : attempt[i].ac # NoBlock \/ attempt[i].st = "FREE"
    /\ attempt' \in Started(attempt, NoBlock, n)
    /\ UNCHANGED <<kind, linked, config, position, lost>>

-----------------------------------------------------------------------------
(* How attempts end *)

(* ServerNameResolver::OnLookupComplete: nothing more happens when the name *)
(* was linked while it was being resolved.                                  *)
OnLookupComplete(i) ==
    /\ attempt[i].st \in {"QUERY_AAAA", "QUERY_A"}
    /\ IF attempt[i].name \in linked
       THEN /\ attempt' = Drop(i)
            /\ lost' = lost \cup ({attempt[i].ac} \ {NoBlock})
       ELSE /\ \E st \in {"SOCKET", "CULLED"} : attempt' = [attempt EXCEPT ![i].st = st]
            /\ UNCHANGED lost
    /\ UNCHANGED <<kind, linked, config, position>>

(* ServerNameResolver::OnError: IPv4 after IPv6, then the next server *)
OnLookupError(i) ==
    /\ \/ /\ attempt[i].st = "QUERY_AAAA"
          /\ attempt' = [attempt EXCEPT ![i].st = "QUERY_A"]
          /\ UNCHANGED <<position, lost>>
       \/ /\ attempt[i].st \in {"QUERY_AAAA", "QUERY_A"}
          /\ ConnectServer(Drop(i), attempt[i].ac, FALSE)
    /\ UNCHANGED <<kind, linked, config>>

(* FinishAuth: the server is linked and CleanNegotiationInfo() resets the *)
(* block of the attempt.                                                  *)
FinishAuth(i) ==
    /\ attempt[i].st = "SOCKET"
    /\ attempt[i].name \notin linked
    /\ linked' = linked \cup {attempt[i].name}
    /\ attempt' = Drop(i)
    /\ IF attempt[i].ac = NoBlock
       THEN UNCHANGED <<position, lost>>
       ELSE /\ position' = [position EXCEPT ![attempt[i].ac] = 0]
            /\ lost' = lost \ {attempt[i].ac}
    /\ UNCHANGED <<kind, config>>

(* An error, a refusal or DoConnectTimeout() closes the socket. *)
CloseSocket(i) ==
    /\ attempt[i].st = "SOCKET"
    /\ attempt' = [attempt EXCEPT ![i].st = "CULLED"]
    /\ UNCHANGED <<kind, linked, config, position, lost>>

(* TreeSocket::Cull *)
CullMutant(i) ==
    /\ attempt[i].st = "CULLED"
    /\ attempt' = Drop(i)
    /\ UNCHANGED <<kind, linked, config, position, lost>>

Cull(i) ==
    /\ attempt[i].st = "CULLED"
    /\ ConnectServer(Drop(i), attempt[i].ac, FALSE)
    /\ UNCHANGED <<kind, linked, config>>

-----------------------------------------------------------------------------
(* The rest of the network *)

(* The server links to us, or another server introduces it. *)
Introduced(n) ==
    /\ n \notin linked
    /\ linked' = linked \cup {n}
    /\ UNCHANGED <<kind, config, position, attempt, lost>>

Split(n) ==
    /\ n \in linked
    /\ linked' = linked \ {n}
    /\ UNCHANGED <<kind, config, position, attempt, lost>>

(* ReadConfiguration makes a new block; open sockets keep the old one. *)
ReadConfiguration ==
    /\ config < MaxConfig
    /\ config' = config + 1
    /\ UNCHANGED <<kind, linked, position, attempt, lost>>

-----------------------------------------------------------------------------
AutoconnectInit ==
    /\ kind \in {f \in [Name -> UNION {Kind[n] : n \in Name}] : \A n \in Name : f[n] \in Kind[n]}
    /\ linked = {}
    /\ config = 1
    /\ position = [c \in Config |-> 0]
    /\ attempt = [i \in Slot |-> Blank]
    /\ lost = {}

AttemptStep(i) ==
    \/ OnLookupComplete(i)
    \/ OnLookupError(i)
    \/ FinishAuth(i)
    \/ CloseSocket(i)
    \/ Cull(i)

AutoconnectNext ==
    \/ AutoConnectServers
    \/ \E n \in Name : HandleConnect(n) \/ Introduced(n) \/ Split(n)
    \/ \E i \in Slot : AttemptStep(i)
    \/ ReadConfiguration

(* The timer runs every five seconds, and as the cull list was applied     *)
(* just before, what is only sometimes possible in the model is possible   *)
(* at each of its runs (SF).  A lookup and a connection time out.          *)
AutoconnectFairness ==
    /\ SF_autoconnectVars(AutoConnectServers)
    /\ \A i \in Slot : WF_autoconnectVars(AttemptStep(i))

AutoconnectSpec == AutoconnectInit /\ [][AutoconnectNext]_autoconnectVars /\ AutoconnectFairness

-----------------------------------------------------------------------------
AutoconnectTypeOK ==
    /\ linked \subseteq Name
    /\ config \in Config
    /\ position \in [Config -> 0..Len(Chain)]
    /\ attempt \in [Slot -> [st : AttemptState, name : Name, ac : Config \cup {NoBlock}]]
    /\ lost \subseteq Config

Dialling(g) == \E i \in Slot : attempt[i].ac = g /\ attempt[i].st # "FREE"

(* A block in the middle of its chain always has a lookup, a socket or a   *)
(* culled socket that will move it on.  Only two ends of an attempt leave  *)
(* it alone: a link that cannot be dialled, and a lookup that completes    *)
(* when the server is already linked; those are recorded in lost.          *)
BlockAlive ==
    /\ AutoconnectTypeOK
    /\ \A g \in Config : position[g] > 0 /\ g \notin lost => Dialling(g)

(* As long as no server of the chain is linked and the block is not lost,  *)
(* each of its servers is dialled again and again.                         *)
KeepsDialling ==
    \/ []<>(ChainNames \cap linked # {})
    \/ <>[](config \in lost)
    \/ \A n \in {m \in ChainNames : "ip" \in Kind[m]} :
        kind[n] = "ip" => []<>(\E i \in Slot : attempt[i].name = n /\ attempt[i].st # "FREE")

(* The attempts a rehash leaves behind finish: the block they hold is not  *)
(* restarted by the timer, so its chain ends.                              *)
OldBlockRetires == <>[](\A g \in Config : Dialling(g) => g = config)
=============================================================================
