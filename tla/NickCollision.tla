---------------------------- MODULE NickCollision ----------------------------
(***************************************************************************)
(* Nicknames on a network of linked servers: the client list of every      *)
(* server (uuidlist and clientlist), registration and NICK by local users, *)
(* the UID, NICK, SAVE and QUIT messages of the server-to-server protocol, *)
(* the netburst of a new link, and the collision rules of DoCollision().   *)
(*                                                                         *)
(* A link is a pair of FIFO byte streams, one in each direction.  Each end *)
(* starts its burst when it finishes authentication, at its own time; an   *)
(* exception thrown by a handler closes the link for its reader.           *)
(***************************************************************************)
EXTENDS Naturals, Sequences, Functions, FiniteSets

CONSTANTS
    Server,     \* the servers
    Neighbor,   \* Neighbor[s]: the servers s has a configured link to
    User,       \* the UUIDs that users may be given
    Home,       \* Home[u]: the server that allocates UUID u
    Person,     \* Person[u]: the user@ip of u
    Nick,       \* the nicknames users ask for
    NoUser,     \* "not in the table"
    Offset,     \* Offset[s]: how far the clock of s runs ahead of the slowest
    MaxNow,     \* bound: seconds that pass
    MaxNicks    \* bound: NICK commands a user issues

SavedTimestamp == 100
Epoch == SavedTimestamp + 1     \* every clock reads well past SavedTimestamp

(* A UUID is also a valid nickname, but only for its own user. *)
AnyNick == Nick \cup User

ASSUME NickAssumption ==
    /\ Neighbor \in [Server -> SUBSET Server]
    /\ \A s, t \in Server : t \in Neighbor[s] => s \in Neighbor[t]
    /\ \A U \in SUBSET User : Cardinality(U) \in Nat    \* finitely many users
    /\ Home \in [User -> Server]
    /\ Nick \cap User = {}
    /\ NoUser \notin User
    /\ NoUser \notin AnyNick
    /\ Offset \in [Server -> Nat]
    /\ MaxNow \in Nat
    /\ MaxNicks \in Nat

VARIABLES
    nick,           \* nick[s][u]: User::nick of u on s, NoUser when unknown
    nickchanged,    \* nickchanged[s][u]: User::nickchanged
    connected,      \* connected[s][u]: User::connected
    clientlist,     \* clientlist[s][n]: UserManager::clientlist
    link,           \* link[s][t]: what s makes of its link to t
    wire,           \* wire[s][t]: lines sent by s and not yet read by t
    now,            \* the slowest clock
    asked,          \* asked[u]: NICK commands issued by u
    gone,           \* UUIDs that quit; UUIDs are not reused
    claims          \* history: every nick a user announced to the network

db == <<nick, nickchanged, connected, clientlist>>
vars == <<nick, nickchanged, connected, clientlist, link, wire, now, asked, gone, claims>>

Time(s) == Epoch + now + Offset[s]

(* What is known of users at one server, as one value that the helper      *)
(* operators below transform.                                              *)
View(s) == [nick |-> nick[s], ts |-> nickchanged[s],
            conn |-> connected[s], list |-> clientlist[s]]

Become(s, v) ==
    /\ nick' = [nick EXCEPT ![s] = v.nick]
    /\ nickchanged' = [nickchanged EXCEPT ![s] = v.ts]
    /\ connected' = [connected EXCEPT ![s] = v.conn]
    /\ clientlist' = [clientlist EXCEPT ![s] = v.list]

(* CONN_NONE or CONN_USER; CONN_NICK or CONN_NICKUSER; CONN_FULL *)
Conn == {"none", "unreg", "nick", "full"}

Known(v) == {u \in User : v.conn[u] # "none"}
FullyConnected(v) == {u \in User : v.conn[u] = "full"}

-----------------------------------------------------------------------------
(* Sending *)

Peers(s) == {t \in Neighbor[s] : link[s][t] = "up"}

(* wire after s sends the lines ms, in order, to every server in D. *)
SendAll(w, s, D, ms) ==
    [w EXCEPT ![s] = [t \in Server |-> IF t \in D THEN @[t] \o ms ELSE @[t]]]

ForwardMutant(w, s, t, m) == SendAll(w, s, Peers(s), <<m>>)

(* Pass a line from t on to every other neighbour. *)
Forward(w, s, t, m) == SendAll(w, s, Peers(s) \ {t}, <<m>>)

UID(u, n, ts)  == [cmd |-> "UID", uuid |-> u, nick |-> n, ts |-> ts]
NICK(u, n, ts) == [cmd |-> "NICK", uuid |-> u, nick |-> n, ts |-> ts]
SAVE(u, ts)    == [cmd |-> "SAVE", uuid |-> u, nick |-> NoUser, ts |-> ts]
QUIT(u)        == [cmd |-> "QUIT", uuid |-> u, nick |-> NoUser, ts |-> 0]

(* A UID or a NICK names its own user's UUID or no UUID at all. *)
Message ==
    {m \in [cmd : {"UID", "NICK", "SAVE", "QUIT"}, uuid : User,
            nick : AnyNick \cup {NoUser}, ts : Nat] :
        m.cmd \in {"UID", "NICK"} => m.nick \in Nick \cup {m.uuid}}

-----------------------------------------------------------------------------
(* User::ChangeNick and the operations on the client list *)

RenameMutant(v, u, n, ts) ==
    [nick |-> [v.nick EXCEPT ![u] = n], ts |-> [v.ts EXCEPT ![u] = ts],
     conn |-> v.conn, list |-> [v.list EXCEPT ![n] = u]]

(* The successful tail of ChangeNick: the old entry is erased before the   *)
(* new one is written.                                                     *)
Rename(v, u, n, ts) ==
    [nick |-> [v.nick EXCEPT ![u] = n], ts |-> [v.ts EXCEPT ![u] = ts],
     conn |-> v.conn,
     list |-> [v.list EXCEPT ![v.nick[u]] = NoUser, ![n] = u]]

SetConn(v, u, c) ==
    [nick |-> v.nick, ts |-> v.ts, conn |-> [v.conn EXCEPT ![u] = c], list |-> v.list]

(* LocalUser::OverruleNick: a user who is still registering loses the nick *)
(* and has to choose another.                                              *)
OverruleNick(v, u, ts) == Rename(SetConn(v, u, "unreg"), u, u, ts)

NickInUse(v, u, n) == v.list[n] \in FullyConnected(v) \ {u}

ChangeNick(v, u, n, ts, time) ==
    IF v.list[n] = u \/ NickInUse(v, u, n) THEN v
    ELSE Rename(IF v.list[n] = NoUser THEN v ELSE OverruleNick(v, v.list[n], time),
                u, n, ts)

PostNickMutant(s, v, u, n, ts) ==
    IF Home[u] = s /\ v.conn[u] = "full" /\ v.list[n] # u /\ n # u
    THEN <<NICK(u, n, ts)>> ELSE <<>>

(* The lines ChangeNick makes the linking module broadcast: a NICK when    *)
(* the user is a fully connected user of this server (OnUserPostNick).     *)
PostNick(s, v, u, n, ts) ==
    IF Home[u] = s /\ v.conn[u] = "full" /\ v.list[n] # u
    THEN <<NICK(u, n, ts)>> ELSE <<>>

AddUser(v, u, n, ts, conn) ==
    [nick |-> [v.nick EXCEPT ![u] = n], ts |-> [v.ts EXCEPT ![u] = ts],
     conn |-> [v.conn EXCEPT ![u] = conn], list |-> [v.list EXCEPT ![n] = u]]

QuitUser(v, u) ==
    [nick |-> [v.nick EXCEPT ![u] = NoUser], ts |-> [v.ts EXCEPT ![u] = 0],
     conn |-> [v.conn EXCEPT ![u] = "none"],
     list |-> [v.list EXCEPT ![v.nick[u]] = NoUser]]

-----------------------------------------------------------------------------
(* SpanningTreeUtilities::DoCollision.  u is the user that holds the nick  *)
(* here; the remote user r claims it with timestamp remotets.              *)

SamePersonMutant(u, r) == TRUE
SamePerson(u, r) == Person[u] = Person[r]

ChangeLocal(localts, remotets, same) ==
    \/ remotets = localts
    \/ ~(\/ same /\ remotets < localts
         \/ ~same /\ remotets > localts)

ChangeRemote(localts, remotets, same) ==
    \/ remotets = localts
    \/ same /\ remotets < localts
    \/ ~same /\ remotets > localts

LocalLoses(v, u, r, remotets) == ChangeLocal(v.ts[u], remotets, SamePerson(u, r))
RemoteLoses(v, u, r, remotets) == ChangeRemote(v.ts[u], remotets, SamePerson(u, r))

(* The view after the collision, and the lines it sends to every neighbour *)
(* (about u) and to the server of r (about r).                             *)
CollisionView(s, v, u, r, remotets) ==
    IF LocalLoses(v, u, r, remotets)
    THEN ChangeNick(v, u, u, SavedTimestamp, Time(s)) ELSE v

CollisionLines(s, v, u, r, remotets) ==
    IF LocalLoses(v, u, r, remotets)
    THEN <<SAVE(u, v.ts[u])>> \o PostNick(s, v, u, u, SavedTimestamp)
    ELSE <<>>

CollisionReply(v, u, r, remotets) ==
    IF RemoteLoses(v, u, r, remotets) THEN <<SAVE(r, remotets)>> ELSE <<>>

-----------------------------------------------------------------------------
(* Users of this server *)

(* A client is accepted: its nick is its UUID until it picks one. *)
NewUser(u) ==
    LET s == Home[u] IN
    /\ u \notin gone
    /\ connected[s][u] = "none"
    /\ Become(s, AddUser(View(s), u, u, Time(s), "unreg"))
    /\ UNCHANGED <<link, wire, now, asked, gone, claims>>

(* NICK n by a local user; "NICK 0" asks for the user's own UUID. *)
UserNick(u, n) ==
    LET s == Home[u]
        v == View(s)
        w == ChangeNick(v, u, n, Time(s), Time(s))
    IN
    /\ connected[s][u] # "none"
    /\ asked[u] < MaxNicks
    /\ ~NickInUse(v, u, n)
    /\ Become(s, IF v.conn[u] = "unreg" THEN SetConn(w, u, "nick") ELSE w)
    /\ wire' = SendAll(wire, s, Peers(s), PostNick(s, v, u, n, Time(s)))
    /\ asked' = [asked EXCEPT ![u] = @ + 1]
    /\ claims' = claims \cup Range(PostNick(s, v, u, n, Time(s)))
    /\ UNCHANGED <<link, now, gone>>

(* Registration completes: LocalUser::FullConnect and the UID that         *)
(* OnUserConnect broadcasts.                                               *)
FullConnect(u) ==
    LET s == Home[u] IN
    /\ connected[s][u] = "nick"
    /\ connected' = [connected EXCEPT ![s][u] = "full"]
    /\ wire' = SendAll(wire, s, Peers(s), <<UID(u, nick[s][u], nickchanged[s][u])>>)
    /\ claims' = claims \cup {NICK(u, nick[s][u], nickchanged[s][u])}
    /\ UNCHANGED <<nick, nickchanged, clientlist, link, now, asked, gone>>

UserQuit(u) ==
    LET s == Home[u] IN
    /\ connected[s][u] # "none"
    /\ Become(s, QuitUser(View(s), u))
    /\ wire' = SendAll(wire, s, Peers(s),
                       IF connected[s][u] = "full" THEN <<QUIT(u)>> ELSE <<>>)
    /\ gone' = gone \cup {u}
    /\ UNCHANGED <<link, now, asked, claims>>

-----------------------------------------------------------------------------
(* Links *)

(* The orders a hash map of the fully connected clients can be walked in *)
ClientOrders(v) == Bijection(1..Cardinality(FullyConnected(v)), FullyConnected(v))

(* s finishes authentication of its link to t and sends its burst: the     *)
(* users it knows, in the order of the client list.                        *)
StartBurst(s, t) ==
    /\ t \in Neighbor[s]
    /\ link[s][t] = "down"
    /\ link' = [link EXCEPT ![s][t] = "up"]
    /\ \E order \in ClientOrders(View(s)) :
         wire' = SendAll(wire, s, {t},
                    [i \in DOMAIN order |->
                        UID(order[i], nick[s][order[i]], nickchanged[s][order[i]])])
    /\ UNCHANGED <<db, now, asked, gone, claims>>

(* s reads a line that t sent: what is left on the wire to s. *)
Take(s, t) == [wire EXCEPT ![t][s] = Tail(@)]

Arrived(s, t, cmd) ==
    /\ link[s][t] = "up"
    /\ wire[t][s] # <<>>
    /\ Head(wire[t][s]).cmd = cmd

(* CommandUID::HandleServer *)
HandleUID(s, t) ==
    /\ Arrived(s, t, "UID")
    /\ LET m == Head(wire[t][s])
           v == View(s)
           x == v.list[m.nick]
           collide == x \in FullyConnected(v)
           theychange == collide /\ RemoteLoses(v, x, m.uuid, m.ts)
           w == IF x = NoUser THEN v
                ELSE IF collide THEN CollisionView(s, v, x, m.uuid, m.ts)
                ELSE OverruleNick(v, x, Time(s))
           told == IF collide
                   THEN SendAll(SendAll(Take(s, t), s, Peers(s),
                                        CollisionLines(s, v, x, m.uuid, m.ts)),
                                s, {t}, CollisionReply(v, x, m.uuid, m.ts))
                   ELSE Take(s, t)
           n  == IF theychange THEN m.uuid ELSE m.nick
           ts == IF theychange THEN SavedTimestamp ELSE m.ts
       IN IF m.uuid \in Known(v)
          THEN /\ Become(s, w)                      \* duplicate UUID: link closed
               /\ wire' = told
               /\ link' = [link EXCEPT ![s][t] = "error"]
          ELSE /\ Become(s, AddUser(w, m.uuid, n, ts, "full"))
               /\ wire' = Forward(told, s, t, UID(m.uuid, n, ts))
               /\ UNCHANGED link
    /\ UNCHANGED <<now, asked, gone, claims>>

(* CommandNick::HandleRemote *)
HandleNICK(s, t) ==
    /\ Arrived(s, t, "NICK")
    /\ LET m == Head(wire[t][s])
           v == View(s)
           x == v.list[m.nick]
           collide == x \in FullyConnected(v) \ {m.uuid}
           theychange == collide /\ RemoteLoses(v, x, m.uuid, m.ts)
           w == IF collide THEN CollisionView(s, v, x, m.uuid, m.ts) ELSE v
           told == IF collide
                   THEN SendAll(SendAll(Take(s, t), s, Peers(s),
                                        CollisionLines(s, v, x, m.uuid, m.ts)),
                                s, {t}, CollisionReply(v, x, m.uuid, m.ts))
                   ELSE Take(s, t)
           n  == IF theychange THEN m.uuid ELSE m.nick
           ts == IF theychange THEN SavedTimestamp ELSE m.ts
       IN IF m.uuid \notin Known(v)
          THEN /\ wire' = Take(s, t)                \* unknown source: ignored
               /\ UNCHANGED db
          ELSE /\ Become(s, ChangeNick(w, m.uuid, n, ts, Time(s)))
               /\ wire' = Forward(told, s, t, NICK(m.uuid, n, ts))
    /\ UNCHANGED <<link, now, asked, gone, claims>>

(* CommandSave::Handle *)
HandleSAVE(s, t) ==
    /\ Arrived(s, t, "SAVE")
    /\ LET m == Head(wire[t][s])
           v == View(s)
           hit == v.ts[m.uuid] = m.ts
       IN IF m.uuid \notin Known(v)
          THEN /\ wire' = Take(s, t)
               /\ UNCHANGED db
          ELSE /\ Become(s, IF hit THEN ChangeNick(v, m.uuid, m.uuid, SavedTimestamp, Time(s))
                                   ELSE v)
               /\ wire' = Forward(SendAll(Take(s, t), s, Peers(s),
                                          IF hit THEN PostNick(s, v, m.uuid, m.uuid, SavedTimestamp)
                                                 ELSE <<>>),
                                  s, t, m)
    /\ UNCHANGED <<link, now, asked, gone, claims>>

(* QUIT of a remote user *)
HandleQUIT(s, t) ==
    /\ Arrived(s, t, "QUIT")
    /\ LET m == Head(wire[t][s])
       IN IF m.uuid \notin Known(View(s))
          THEN /\ wire' = Take(s, t)
               /\ UNCHANGED db
          ELSE /\ Become(s, QuitUser(View(s), m.uuid))
               /\ wire' = Forward(Take(s, t), s, t, m)
    /\ UNCHANGED <<link, now, asked, gone, claims>>

(* A second passes. *)
Tick ==
    /\ now < MaxNow
    /\ now' = now + 1
    /\ UNCHANGED <<db, link, wire, asked, gone, claims>>

Init ==
    /\ nick = [s \in Server |-> [u \in User |-> NoUser]]
    /\ nickchanged = [s \in Server |-> [u \in User |-> 0]]
    /\ connected = [s \in Server |-> [u \in User |-> "none"]]
    /\ clientlist = [s \in Server |-> [n \in AnyNick |-> NoUser]]
    /\ link = [s \in Server |-> [t \in Server |-> "down"]]
    /\ wire = [s \in Server |-> [t \in Server |-> <<>>]]
    /\ now = 0
    /\ asked = [u \in User |-> 0]
    /\ gone = {}
    /\ claims = {}

Read(s, t) ==
    \/ HandleUID(s, t)
    \/ HandleNICK(s, t)
    \/ HandleSAVE(s, t)
    \/ HandleQUIT(s, t)

Next ==
    \/ \E u \in User : NewUser(u) \/ FullConnect(u) \/ UserQuit(u)
    \/ \E u \in User, n \in AnyNick : n \in Nick \cup {u} /\ UserNick(u, n)
    \/ \E s, t \in Server : StartBurst(s, t) \/ Read(s, t)
    \/ Tick

Spec == Init /\ [][Next]_vars

(* Sockets that hold data are eventually read. *)
FairSpec == Spec /\ \A s, t \in Server : WF_vars(Read(s, t))

-----------------------------------------------------------------------------
(* Properties *)

TypeOK ==
    /\ nick \in [Server -> [User -> AnyNick \cup {NoUser}]]
    /\ nickchanged \in [Server -> [User -> Nat]]
    /\ connected \in [Server -> [User -> Conn]]
    /\ clientlist \in [Server -> [AnyNick -> User \cup {NoUser}]]
    /\ link \in [Server -> [Server -> {"down", "up", "error"}]]
    /\ wire \in [Server -> [Server -> Seq(Message)]]
    /\ now \in 0..MaxNow
    /\ asked \in [User -> 0..MaxNicks]
    /\ gone \in SUBSET User
    /\ claims \in SUBSET Message

(* On every server the nick index and the users agree: every known user is *)
(* found under its nick and every entry names a user who has that nick.    *)
(* So two users never hold one nick on one server, whatever UID overwrote  *)
(* or ChangeNick erased.                                                   *)
ClientListExact ==
    \A s \in Server, u \in User, n \in AnyNick :
        clientlist[s][n] = u <=> (connected[s][u] # "none" /\ nick[s][u] = n)

(* No UID is ever received for a UUID that is already in uuidlist, so the  *)
(* constructor of User does not throw and no link is lost to a collision.  *)
NoDuplicateUUID ==
    \A s, t \in Server : link[s][t] # "error"

Quiet ==
    /\ \A s \in Server : \A t \in Neighbor[s] : link[s][t] = "up"
    /\ \A s, t \in Server : wire[s][t] = <<>>

(* When every link is up and nothing is in flight, every server knows      *)
(* exactly the fully connected users, under the nick that their own server *)
(* has, and with its timestamp.  A user sitting on its UUID is the         *)
(* exception: ChangeNick leaves the timestamp alone when the nick is       *)
(* unchanged, so servers that had saved the user keep SavedTimestamp.      *)
Agreement ==
    Quiet => \A s \in Server, u \in User :
        LET h == Home[u] IN
        /\ s # h => ((connected[s][u] = "full") <=> (connected[h][u] = "full"))
        /\ connected[h][u] = "full" =>
             /\ nick[s][u] = nick[h][u]
             /\ nickchanged[s][u] = nickchanged[h][u] \/ nick[h][u] = u

(* The servers agree at rest, and on the way no collision is taken for a   *)
(* duplicate UUID, which would close a link, and no line puts a nick where *)
(* a UUID belongs.                                                         *)
NetworkAgrees == TypeOK /\ NoDuplicateUUID /\ Agreement

(* A user is forced off a nick only by a rival with a better or equal      *)
(* claim.  When u's own server renames u without u asking, some other user *)
(* had announced the same nick as u had at that timestamp, and the rules   *)
(* rank that claim no worse: the older one between different people, the   *)
(* newer one between two connections of the same person.                   *)
Rivals(u, ts) ==
    {r \in claims : r.uuid # u /\ \E c \in claims :
        /\ c.uuid = u /\ c.ts = ts /\ c.nick = r.nick
        /\ IF Person[u] = Person[r.uuid] THEN r.ts >= ts ELSE r.ts <= ts}

SaveJustified ==
    [][\A u \in User :
         LET h == Home[u] IN
         (/\ connected[h][u] = "full" /\ connected'[h][u] = "full"
          /\ asked'[u] = asked[u]
          /\ nick'[h][u] # nick[h][u])
         => Rivals(u, nickchanged[h][u]) # {}]_vars

AllRead == \A s, t \in Server : link[t][s] = "up" => wire[s][t] = <<>>

(* The collision traffic dies out: the SAVE and NICK lines of a collision  *)
(* do not provoke each other for ever, and what is sent to a server that   *)
(* reads its socket is eventually all read.                                *)
TrafficDiesOut == <>[]AllRead

=============================================================================
