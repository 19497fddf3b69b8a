------------------------------- MODULE Clients -------------------------------
(***************************************************************************)
(* The local clients of a server: UserManager's list and counters, connect *)
(* classes with their limits, and the cull list through which a client     *)
(* that has quit is destroyed at the end of the main loop.  Several        *)
(* handlers run within others (QuitUser in FindConnectClass in FullConnect *)
(* in DoBackgroundUserStuff): they are operators on a record of the whole  *)
(* state.                                                                  *)
(***************************************************************************)
EXTENDS Integers, Sequences, FiniteSets, FiniteSetsExt

CONSTANTS
    Client,         \* LocalUser objects; one is used again after it was culled
    Place,          \* addresses, each a CIDR range of its own
    Classes,        \* ServerConfig::Classes, a sequence of records
    OperClass,      \* the class of <oper:class>, an index of Classes
    HasPassword,    \* the clients that send the password of a class
    SoftLimit,      \* <performance:softlimit>
    Wrap            \* use_count is an unsigned long: how many values it has

(* type is ALLOW, DENY or NAMED; limit and maxlocal are 0 for no limit *)
ASSUME ClassesAssumption ==
    /\ Classes \in Seq([type : {"ALLOW", "DENY", "NAMED"}, hosts : SUBSET Place,
                        limit : Nat, password : BOOLEAN, maxlocal : Nat])
    /\ OperClass \in DOMAIN Classes

ASSUME ClientsAssumption ==
    Wrap \in Nat /\ IsFiniteSet(Client) /\ Cardinality(Client) < Wrap /\ Place # {}

VARIABLES
    reg,        \* the state of UserManager, see ClientsInit
    twice       \* history: a client lost its class in FindConnectClass after
                \* QuitUser had already taken it off the class's use_count

clientsVars == <<reg, twice>>

NoClass == 0

ClassId == DOMAIN Classes

(* conn: "free" (no object), "none", "nickuser" or "full" *)
ClientsInit ==
    /\ reg = [ conn |-> [u \in Client |-> "free"],
               quitting |-> [u \in Client |-> FALSE],
               class |-> [u \in Client |-> NoClass],
               place |-> [u \in Client |-> CHOOSE a \in Place : TRUE],
               oper |-> [u \in Client |-> FALSE],     \* hasoperclass
               unknown |-> 0,                         \* unknown_count
               use |-> [c \in ClassId |-> 0],         \* ConnectClass::use_count
               clones |-> [a \in Place |-> 0],        \* CloneCounts::local
               culls |-> {},                          \* CullList::list
               sendq |-> {} ]                         \* CullList::SQlist
    /\ twice = FALSE

Exists(s, u) == s.conn[u] # "free"

(* In local_users, clientlist and uuidlist *)
Listed(s, u) == Exists(s, u) /\ ~s.quitting[u]

-----------------------------------------------------------------------------
(* use_count-- *)
Leave(s, c) == IF c = NoClass THEN s ELSE [s EXCEPT !.use[c] = (@ - 1) % Wrap]

QuitUserMutant(s, u) ==
    IF s.quitting[u] THEN s
    ELSE [Leave(s, s.class[u]) EXCEPT
             !.quitting[u] = TRUE,
             !.culls = @ \cup {u},
             !.unknown = IF s.conn[u] = "nickuser" THEN @ - 1 ELSE @]

QuitUser(s, u) ==
    IF s.quitting[u] THEN s
    ELSE [Leave(s, s.class[u]) EXCEPT
             !.quitting[u] = TRUE,
             !.culls = @ \cup {u},
             !.unknown = IF s.conn[u] = "full" THEN @ ELSE @ - 1]

(* OnPreChangeConnectClass of core_user *)
Suitable(s, u, c) ==
    LET k == Classes[c] IN
    /\ k.type # "NAMED"
    /\ s.place[u] \in k.hosts
    /\ k.limit = 0 \/ s.use[c] < k.limit
    /\ s.conn[u] # "none" /\ k.password => u \in HasPassword

(* OnChangeConnectClass of core_user: a DENY class or too many clones *)
Restricted(s, u, c, force) ==
    LET k == Classes[c] IN
    \/ k.type = "DENY"
    \/ ~force /\ k.maxlocal > 0 /\ s.clones[s.place[u]] > k.maxlocal

ChangeConnectClass(s, u, c, force) ==
    LET q == IF Restricted(s, u, c, force) THEN QuitUser(s, u) ELSE s IN
    IF q.quitting[u] THEN q
    ELSE [Leave(q, q.class[u]) EXCEPT !.class[u] = c, !.use[c] = (@ + 1) % Wrap]

(* The first suitable class, or none: then the client leaves its class *)
(* and is quit, unless it may keep the class (an operator's logout).   *)
FindConnectClass(s, u, keepexisting) ==
    LET fit == {c \in ClassId : Suitable(s, u, c)} IN
    IF fit # {} THEN ChangeConnectClass(s, u, Min(fit), FALSE)
    ELSE IF s.class[u] # NoClass /\ keepexisting THEN s
    ELSE QuitUser([Leave(s, s.class[u]) EXCEPT !.class[u] = NoClass], u)

(* banned: CheckLines finds a G-line or Z-line *)
FullConnect(s, u, banned) ==
    LET f == FindConnectClass(s, u, FALSE) IN
    IF f.quitting[u] THEN f
    ELSE IF banned THEN QuitUser(f, u)
    ELSE [f EXCEPT !.conn[u] = "full", !.unknown = IF @ > 0 THEN @ - 1 ELSE @]

AddClone(s, u) == [s EXCEPT !.clones[s.place[u]] = @ + 1]

(* An address without clients has no entry in the map *)
RemoveCloneCounts(s, u) ==
    [s EXCEPT !.clones[s.place[u]] = IF @ > 0 THEN @ - 1 ELSE @]

-----------------------------------------------------------------------------
(* A connection is accepted.  banned: the ban cache or a Z-line. *)
AddUser(u, a, banned) ==
    /\ ~Exists(reg, u)
    /\ LET new == AddClone([reg EXCEPT !.conn[u] = "none", !.place[u] = a, !.unknown = @ + 1], u)
           full == Cardinality({v \in Client : Listed(new, v)}) > SoftLimit
           f == FindConnectClass(new, u, FALSE)
       IN  reg' = IF full THEN QuitUser(new, u)
                  ELSE IF banned THEN QuitUser(f, u) ELSE f
    /\ UNCHANGED twice

(* NICK and USER have been sent *)
NickUser(u) ==
    /\ Listed(reg, u)
    /\ reg.conn[u] = "none"
    /\ reg' = [reg EXCEPT !.conn[u] = "nickuser"]
    /\ UNCHANGED twice

(* QUIT, KILL, a ban, a socket error, a flood *)
Disconnect(u) ==
    /\ Listed(reg, u)
    /\ reg' = QuitUser(reg, u)
    /\ UNCHANGED twice

(* One client's turn in DoBackgroundUserStuff.  leaves: io->Process runs a  *)
(* command that quits the client, and the switch on its state still runs.   *)
(* what: nothing more happens, the ping or connection timeout has passed, or *)
(* no module denies OnCheckReady and the client connects or is banned.       *)
Background(u, leaves, what) ==
    /\ Listed(reg, u)
    /\ what \in {"connects", "banned"} => reg.conn[u] = "nickuser"
    /\ leaves => ~twice      \* bound: at most one client is taken off twice
    /\ LET s == IF leaves THEN QuitUser(reg, u) ELSE reg
       IN  /\ reg' = CASE what = "nothing" -> s
                       [] what = "expired" -> QuitUser(s, u)
                       [] OTHER -> FullConnect(s, u, what = "banned")
           /\ twice' = (twice \/ (leaves /\ reg'.class[u] # s.class[u]))

(* The address of a client that is not connected changes *)
ChangeRemoteAddress(u, a) ==
    /\ Listed(reg, u)
    /\ reg.conn[u] \in {"none", "nickuser"}
    /\ a # reg.place[u]
    /\ reg' = FindConnectClass(AddClone([RemoveCloneCounts(reg, u) EXCEPT !.place[u] = a], u), u, FALSE)
    /\ UNCHANGED twice

(* OPER with a class, and the end of the operator's login *)
OperLogin(u) ==
    /\ Listed(reg, u)
    /\ reg.conn[u] = "full"
    /\ ~reg.oper[u]
    /\ reg' = [ChangeConnectClass(reg, u, OperClass, TRUE) EXCEPT !.oper[u] = TRUE]
    /\ UNCHANGED twice

OperLogout(u) ==
    /\ Listed(reg, u)
    /\ reg.oper[u]
    /\ reg' = [FindConnectClass(reg, u, TRUE) EXCEPT !.oper[u] = FALSE]
    /\ UNCHANGED twice

(* CheckMaxSendQ: the client is quit when the cull list is applied *)
SendQExceeded(u) ==
    /\ Listed(reg, u)
    /\ u \notin reg.sendq
    /\ reg' = [reg EXCEPT !.sendq = @ \cup {u}]
    /\ UNCHANGED twice

(* CullList::Apply: the clients with too much unsent data are quit, then    *)
(* every client on the list is culled and deleted.                          *)
ApplyCulls ==
    /\ reg.culls \cup reg.sendq # {}
    /\ reg' = LET quit == FoldSet(LAMBDA u, s : QuitUser(s, u), reg, reg.sendq)
                  gone == FoldSet(LAMBDA u, s : RemoveCloneCounts(s, u), quit, quit.culls)
              IN  [gone EXCEPT
                     !.conn = [u \in Client |-> IF u \in quit.culls THEN "free" ELSE @[u]],
                     !.quitting = [u \in Client |-> IF u \in quit.culls THEN FALSE ELSE @[u]],
                     !.class = [u \in Client |-> IF u \in quit.culls THEN NoClass ELSE @[u]],
                     !.oper = [u \in Client |-> IF u \in quit.culls THEN FALSE ELSE @[u]],
                     !.culls = {}, !.sendq = {}]
    /\ UNCHANGED twice

(* A rehash counts the clones again from the clients in the list.  It is  *)
(* applied at the start of the main loop, when nothing waits to be culled. *)
RehashCloneCounts ==
    /\ reg.culls = {}
    /\ reg' = [reg EXCEPT !.clones = [a \in Place |->
                  Cardinality({u \in Client : Listed(reg, u) /\ reg.place[u] = a})]]
    /\ UNCHANGED twice

ClientsNext ==
    \/ \E u \in Client, a \in Place, b \in BOOLEAN : AddUser(u, a, b)
    \/ \E u \in Client, leaves \in BOOLEAN, what \in {"nothing", "expired", "connects", "banned"} :
           Background(u, leaves, what)
    \/ \E u \in Client, a \in Place : ChangeRemoteAddress(u, a)
    \/ \E u \in Client : NickUser(u) \/ Disconnect(u) \/ OperLogin(u) \/ OperLogout(u) \/ SendQExceeded(u)
    \/ ApplyCulls
    \/ RehashCloneCounts

ClientsSpec == ClientsInit /\ [][ClientsNext]_clientsVars

-----------------------------------------------------------------------------
ClientsTypeOK ==
    /\ reg.conn \in [Client -> {"free", "none", "nickuser", "full"}]
    /\ reg.quitting \in [Client -> BOOLEAN]
    /\ reg.class \in [Client -> ClassId \cup {NoClass}]
    /\ reg.place \in [Client -> Place]
    /\ reg.oper \in [Client -> BOOLEAN]
    /\ reg.use \in [ClassId -> 0..(Wrap - 1)]
    /\ reg.unknown \in 0..Cardinality(Client)
    /\ reg.clones \in [Place -> 0..Cardinality(Client)]
    /\ reg.culls = {u \in Client : reg.quitting[u]}
    /\ reg.sendq \subseteq Client
    /\ twice \in BOOLEAN

(* A class's use_count is the number of clients in the list that have the  *)
(* class, however they came to it and left it.  The exception is a client  *)
(* that its own queued command quits in DoBackgroundUserStuff and that     *)
(* then fits no class: it is taken off twice.                              *)
UseCountExact ==
    ~twice => \A c \in ClassId :
        reg.use[c] = Cardinality({u \in Client : Listed(reg, u) /\ reg.class[u] = c})

(* unknown_count is the number of clients that are not fully connected *)
UnknownExact ==
    reg.unknown = Cardinality({u \in Client : Listed(reg, u) /\ reg.conn[u] # "full"})

(* The clone count of an address is the number of client objects with the *)
(* address, counting those that wait to be culled.                        *)
ClonesExact ==
    \A a \in Place : reg.clones[a] = Cardinality({u \in Client : Exists(reg, u) /\ reg.place[u] = a})

(* A class has no more members than its limit, apart from the class that   *)
(* operators are put into: whoever fits no class when the login ends stays *)
(* in it.                                                                  *)
LimitKept ==
    ~twice => \A c \in ClassId :
        \/ c = OperClass
        \/ Classes[c].limit = 0
        \/ Cardinality({u \in Client : Listed(reg, u) /\ reg.class[u] = c}) <= Classes[c].limit

(* The counters of clients are exact and the limits that are computed from *)
(* them are kept, however clients come, change class and leave.            *)
CountersExact == ClientsTypeOK /\ UseCountExact /\ UnknownExact /\ ClonesExact /\ LimitKept

(* A class that u could use has fewer other members than its limit *)
HasRoom(s, u) ==
    \E c \in ClassId :
        /\ Classes[c].type = "ALLOW"
        /\ s.place[u] \in Classes[c].hosts
        /\ Classes[c].password => u \in HasPassword
        /\ \/ Classes[c].limit = 0
           \/ Cardinality({v \in Client \ {u} : Listed(s, v) /\ s.class[v] = c}) < Classes[c].limit

(* A client that has a class is not turned away for want of one while a    *)
(* class it fits has fewer other members than its limit (FindConnectClass  *)
(* at the end of the registration).                                        *)
RoomIsUsed ==
    [][\A u \in Client :
          /\ Listed(reg, u)
          /\ reg.class[u] # NoClass
          /\ reg'.quitting[u]
          /\ reg'.class[u] = NoClass
          /\ reg'.place[u] = reg.place[u]
          /\ ~twice'
          => ~HasRoom(reg, u)]_clientsVars
==============================================================================
