------------------------------ MODULE UserProofs ------------------------------
(***************************************************************************)
(* Proofs about what users have.                                           *)
(*                                                                         *)
(* Nicknames, for any number of servers, users and nicks, and any          *)
(* topology: the nick index of every server is exact, so no nick has two   *)
(* owners.  The invariant is local to a server: each handler turns one     *)
(* consistent view into another.  It is made inductive by two facts about  *)
(* UUIDs used as nicks (only their own user has them, on a server and on   *)
(* the wire) and by every known user having a nick.                        *)
(*                                                                         *)
(* Capabilities: the bits of the manager have one owner each, and a client *)
(* knows what it has.  What the loop of CAP REQ computes is proved by      *)
(* induction over its tokens.                                              *)
(***************************************************************************)
EXTENDS NickCollision, Capabilities, WellFoundedInduction, TLAPS

(* The provers of every step, in their order *)
USE ZenonT(3), SMTT(20)

ViewType == [nick : [User -> AnyNick \cup {NoUser}], ts : [User -> Nat],
             conn : [User -> Conn], list : [AnyNick -> User \cup {NoUser}]]

Exact(v) == \A u \in User, n \in AnyNick :
                v.list[n] = u <=> (v.conn[u] # "none" /\ v.nick[u] = n)
Own(v) == \A u, o \in User : v.nick[u] = o => u = o
Named(v) == \A u \in User : v.conn[u] # "none" => v.nick[u] \in AnyNick

ViewOK(v) == v \in ViewType /\ Exact(v) /\ Own(v) /\ Named(v)

(* n is a nick that u may be given, and that nobody else has. *)
MayHold(u, n) == n \in Nick \cup {u}
FreeFor(v, u, n) == v.list[n] = NoUser \/ v.list[n] = u

(* Whoever is in the index is a known user. *)
LEMMA ListedKnown ==
    ASSUME NEW v, ViewOK(v), NEW n \in AnyNick, v.list[n] # NoUser
    PROVE  v.list[n] \in User /\ v.list[n] \in Known(v)
<1>1. v.list[n] \in User
  BY DEF ViewOK, ViewType
<1> QED BY <1>1 DEF ViewOK, Exact, Known

(* Renaming a known user to a nick that is free, or already its own. *)
LEMMA RenameOK ==
    ASSUME NEW v, ViewOK(v), NEW u \in User, u \in Known(v),
           NEW n \in AnyNick, MayHold(u, n), NEW ts \in Nat,
           FreeFor(v, u, n)
    PROVE  /\ ViewOK(Rename(v, u, n, ts))
           /\ Known(Rename(v, u, n, ts)) = Known(v)
           /\ \A m \in AnyNick : m # n /\ (m = v.nick[u] \/ v.list[m] = NoUser)
                => Rename(v, u, n, ts).list[m] = NoUser
<1> DEFINE w == Rename(v, u, n, ts)
<1>1. /\ w.nick = [v.nick EXCEPT ![u] = n]
      /\ w.ts = [v.ts EXCEPT ![u] = ts]
      /\ w.conn = v.conn
      /\ w.list = [v.list EXCEPT ![v.nick[u]] = NoUser, ![n] = u]
  BY DEF Rename
<1>2. w.list = [m \in AnyNick |-> IF m = n THEN u
                                  ELSE IF m = v.nick[u] THEN NoUser ELSE v.list[m]]
  BY <1>1 DEF ViewOK, ViewType
<1>3. w \in ViewType
  BY <1>1, NickAssumption DEF ViewOK, ViewType, Rename
<1>4. Exact(w)
  BY <1>1, <1>2, NickAssumption DEF ViewOK, ViewType, Exact, Named, Known, FreeFor
<1>5. Own(w)
  BY <1>1, NickAssumption DEF ViewOK, ViewType, Own, AnyNick, MayHold
<1>6. Named(w)
  BY <1>1 DEF ViewOK, ViewType, Named
<1>7. Known(w) = Known(v)
  BY <1>1 DEF Known
<1>8. \A m \in AnyNick : m # n /\ (m = v.nick[u] \/ v.list[m] = NoUser)
        => w.list[m] = NoUser
  BY <1>2
<1> QED BY <1>3, <1>4, <1>5, <1>6, <1>7, <1>8 DEF ViewOK

(* A UUID that nobody known holds is free as a nick. *)
LEMMA UuidFree ==
    ASSUME NEW v, ViewOK(v), NEW u \in User
    PROVE  /\ u \in AnyNick
           /\ MayHold(u, u) /\ FreeFor(v, u, u)
           /\ u \notin Known(v) => v.list[u] = NoUser
  BY DEF ViewOK, ViewType, Exact, Own, Known, AnyNick, MayHold, FreeFor

(* Another state of registration leaves the index as it is. *)
LEMMA SetConnOK ==
    ASSUME NEW v, ViewOK(v), NEW u \in User, u \in Known(v),
           NEW c \in Conn \ {"none"}
    PROVE  /\ ViewOK(SetConn(v, u, c))
           /\ Known(SetConn(v, u, c)) = Known(v)
<1> DEFINE w == SetConn(v, u, c)
<1>1. /\ w.nick = v.nick /\ w.ts = v.ts /\ w.list = v.list
      /\ w.conn = [v.conn EXCEPT ![u] = c]
  BY DEF SetConn
<1>2. w \in ViewType
  BY DEF ViewOK, ViewType, SetConn
<1>3. Exact(w) /\ Own(w) /\ Named(w)
  BY <1>1 DEF ViewOK, ViewType, Exact, Own, Named, Known
<1>4. Known(w) = Known(v)
  BY <1>1 DEF ViewOK, ViewType, Known
<1> QED BY <1>2, <1>3, <1>4 DEF ViewOK

(* A registering user is moved to its UUID; the nick it held is free. *)
LEMMA OverruleNickOK ==
    ASSUME NEW v, ViewOK(v), NEW u \in User, u \in Known(v), NEW ts \in Nat
    PROVE  /\ ViewOK(OverruleNick(v, u, ts))
           /\ Known(OverruleNick(v, u, ts)) = Known(v)
           /\ \A n \in AnyNick : n # u /\ (v.list[n] = u \/ v.list[n] = NoUser)
                => OverruleNick(v, u, ts).list[n] = NoUser
<1> DEFINE w == SetConn(v, u, "unreg")
<1>1. ViewOK(w) /\ Known(w) = Known(v)
  BY SetConnOK DEF Conn
<1>2. w.list = v.list /\ w.nick = v.nick
  BY DEF SetConn
<1>3. u \in AnyNick /\ MayHold(u, u) /\ FreeFor(w, u, u)
  BY <1>1, UuidFree
<1>4. /\ ViewOK(Rename(w, u, u, ts))
      /\ Known(Rename(w, u, u, ts)) = Known(w)
      /\ \A m \in AnyNick : m # u /\ (m = w.nick[u] \/ w.list[m] = NoUser)
            => Rename(w, u, u, ts).list[m] = NoUser
  <2> HIDE DEF w
  <2> QED BY <1>1, <1>3, RenameOK
<1>5. \A n \in AnyNick : v.list[n] = u => v.nick[u] = n
  BY DEF ViewOK, Exact
<1>6. OverruleNick(v, u, ts) = Rename(w, u, u, ts)
  BY DEF OverruleNick
<1> HIDE DEF w
<1> QED BY <1>1, <1>2, <1>4, <1>5, <1>6

(* ChangeNick keeps the view consistent whatever the nick's state. *)
LEMMA ChangeNickOK ==
    ASSUME NEW v, ViewOK(v), NEW u \in User, u \in Known(v),
           NEW n \in AnyNick, MayHold(u, n),
           NEW ts \in Nat, NEW time \in Nat
    PROVE  /\ ViewOK(ChangeNick(v, u, n, ts, time))
           /\ Known(ChangeNick(v, u, n, ts, time)) = Known(v)
<1>1. CASE v.list[n] = u \/ NickInUse(v, u, n)
  BY <1>1 DEF ChangeNick
<1>2. CASE v.list[n] # u /\ ~NickInUse(v, u, n) /\ v.list[n] = NoUser
  <2>1. FreeFor(v, u, n)
    BY <1>2 DEF FreeFor
  <2>2. ViewOK(Rename(v, u, n, ts)) /\ Known(Rename(v, u, n, ts)) = Known(v)
    BY <2>1, RenameOK
  <2> QED BY <1>2, <2>2 DEF ChangeNick
<1>3. CASE v.list[n] # u /\ ~NickInUse(v, u, n) /\ v.list[n] # NoUser
  <2> DEFINE x == v.list[n]
             w == OverruleNick(v, x, time)
  <2>1. x \in User /\ x \in Known(v) /\ n # x
    BY <1>3, NickAssumption DEF ViewOK, ViewType, Exact, Own, Known, AnyNick, MayHold
  <2>2. ViewOK(w) /\ Known(w) = Known(v) /\ w.list[n] = NoUser
    BY <2>1, OverruleNickOK
  <2>3. ChangeNick(v, u, n, ts, time) = Rename(w, u, n, ts)
    BY <1>3 DEF ChangeNick
  <2>4. ViewOK(Rename(w, u, n, ts)) /\ Known(Rename(w, u, n, ts)) = Known(w)
    <3>1. FreeFor(w, u, n) /\ u \in Known(w)
      BY <2>2 DEF FreeFor
    <3> HIDE DEF w
    <3> QED BY <2>2, <3>1, RenameOK
  <2> QED BY <2>2, <2>3, <2>4
<1> QED BY <1>1, <1>2, <1>3

(* A user who gives up a nick for its UUID leaves the nick free. *)
LEMMA ChangeToUuid ==
    ASSUME NEW v, ViewOK(v), NEW u \in User, u \in Known(v),
           NEW ts \in Nat, NEW time \in Nat,
           NEW n \in AnyNick, n # u, v.list[n] = u
    PROVE  ChangeNick(v, u, u, ts, time).list[n] = NoUser
<1>1. v.nick[u] = n
  BY DEF ViewOK, Exact
<1>2. v.list[u] = NoUser
  BY <1>1, UuidFree DEF ViewOK, Exact, FreeFor
<1>3. ChangeNick(v, u, u, ts, time) = Rename(v, u, u, ts)
  BY <1>2, NickAssumption DEF ChangeNick, NickInUse, FullyConnected
<1>4. FreeFor(v, u, u) /\ u \in AnyNick /\ MayHold(u, u)
  BY UuidFree
<1>5. Rename(v, u, u, ts).list[n] = NoUser
  BY <1>1, <1>4, RenameOK
<1> QED BY <1>3, <1>5

(* A user who is added under a free nick keeps the index exact. *)
LEMMA AddUserOK ==
    ASSUME NEW v, ViewOK(v), NEW u \in User, u \notin Known(v),
           NEW n \in AnyNick, MayHold(u, n), v.list[n] = NoUser,
           NEW ts \in Nat, NEW c \in Conn \ {"none"}
    PROVE  ViewOK(AddUser(v, u, n, ts, c))
<1> DEFINE w == AddUser(v, u, n, ts, c)
<1>1. /\ w.nick = [v.nick EXCEPT ![u] = n]
      /\ w.ts = [v.ts EXCEPT ![u] = ts]
      /\ w.conn = [v.conn EXCEPT ![u] = c]
      /\ w.list = [v.list EXCEPT ![n] = u]
  BY DEF AddUser
<1>2. w \in ViewType
  BY DEF ViewOK, ViewType, AddUser
<1>3. Exact(w)
  BY <1>1, NickAssumption DEF ViewOK, ViewType, Exact, Known
<1>4. Own(w) /\ Named(w)
  BY <1>1, NickAssumption DEF ViewOK, ViewType, Own, Named, AnyNick, MayHold
<1> QED BY <1>2, <1>3, <1>4 DEF ViewOK

(* A user who quits leaves the index with its nick. *)
LEMMA QuitUserOK ==
    ASSUME NEW v, ViewOK(v), NEW u \in User, u \in Known(v)
    PROVE  ViewOK(QuitUser(v, u))
<1> DEFINE w == QuitUser(v, u)
<1>1. /\ w.nick = [v.nick EXCEPT ![u] = NoUser]
      /\ w.ts = [v.ts EXCEPT ![u] = 0]
      /\ w.conn = [v.conn EXCEPT ![u] = "none"]
      /\ w.list = [v.list EXCEPT ![v.nick[u]] = NoUser]
  BY DEF QuitUser
<1>2. w \in ViewType
  BY DEF ViewOK, ViewType, QuitUser, Conn
<1>3. Exact(w)
  BY <1>1, NickAssumption DEF ViewOK, ViewType, Exact, Named, Known
<1>4. Own(w) /\ Named(w)
  BY <1>1, NickAssumption DEF ViewOK, ViewType, Own, Named
<1> QED BY <1>2, <1>3, <1>4 DEF ViewOK

-----------------------------------------------------------------------------
(* Lines and wires *)

WireType == [Server -> [Server -> Seq(Message)]]

(* Lines about a user with a nick it may hold *)
LEMMA LineTypes ==
    ASSUME NEW u \in User, NEW n \in AnyNick, MayHold(u, n), NEW ts \in Nat
    PROVE  /\ UID(u, n, ts) \in Message
           /\ NICK(u, n, ts) \in Message
           /\ SAVE(u, ts) \in Message
           /\ QUIT(u) \in Message
  BY DEF UID, NICK, SAVE, QUIT, Message, MayHold

(* Lines that are sent are on the wires. *)
LEMMA SendAllType ==
    ASSUME NEW w \in WireType, NEW s \in Server, NEW D, NEW ms \in Seq(Message)
    PROVE  SendAll(w, s, D, ms) \in WireType
  BY DEF SendAll, WireType

(* The NICK that follows a change of nick *)
LEMMA PostNickType ==
    ASSUME NEW s, NEW v, NEW u \in User, NEW n \in AnyNick, MayHold(u, n),
           NEW ts \in Nat
    PROVE  PostNick(s, v, u, n, ts) \in Seq(Message)
<1>1. NICK(u, n, ts) \in Message
  BY LineTypes
<1> QED BY <1>1 DEF PostNick

(* A line that is read leaves its wire. *)
LEMMA TakeType ==
    ASSUME wire \in WireType, NEW s \in Server, NEW t \in Server, wire[t][s] # <<>>
    PROVE  /\ Take(s, t) \in WireType
           /\ Head(wire[t][s]) \in Message
  BY DEF Take, WireType

(* The time of a server is a timestamp. *)
LEMMA TimeType ==
    ASSUME now \in 0..MaxNow, NEW s \in Server
    PROVE  Time(s) \in Nat
  BY NickAssumption DEF Time, Epoch, SavedTimestamp

-----------------------------------------------------------------------------
(* The inductive invariant *)

DbOK ==
    /\ nick \in [Server -> [User -> AnyNick \cup {NoUser}]]
    /\ nickchanged \in [Server -> [User -> Nat]]
    /\ connected \in [Server -> [User -> Conn]]
    /\ clientlist \in [Server -> [AnyNick -> User \cup {NoUser}]]
    /\ \A s \in Server : ViewOK(View(s))

RestOK ==
    /\ link \in [Server -> [Server -> {"down", "up", "error"}]]
    /\ wire \in WireType
    /\ now \in 0..MaxNow
    /\ asked \in [User -> 0..MaxNicks]
    /\ gone \in SUBSET User
    /\ claims \in SUBSET Message

NickInv == DbOK /\ RestOK

(* A server's users become a consistent view. *)
LEMMA BecomeOK ==
    ASSUME DbOK, NEW s \in Server, NEW v, ViewOK(v), Become(s, v)
    PROVE  DbOK'
<1>1. /\ nick' \in [Server -> [User -> AnyNick \cup {NoUser}]]
      /\ nickchanged' \in [Server -> [User -> Nat]]
      /\ connected' \in [Server -> [User -> Conn]]
      /\ clientlist' \in [Server -> [AnyNick -> User \cup {NoUser}]]
  BY DEF DbOK, Become, ViewOK, ViewType
<1>2. ASSUME NEW t \in Server PROVE ViewOK(View(t)')
  <2>1. CASE t = s
    <3>1. View(t)' = v
      BY <2>1 DEF View, Become, DbOK, ViewOK, ViewType
    <3> QED BY <3>1
  <2>2. CASE t # s
    <3>1. View(t)' = View(t)
      BY <2>2 DEF View, Become, DbOK
    <3> QED BY <3>1 DEF DbOK
  <2> QED BY <2>1, <2>2
<1>3. (\A t \in Server : ViewOK(View(t)))'
  BY <1>2 DEF ViewOK, ViewType, Exact, Own, Named
<1> QED BY <1>1, <1>3 DEF DbOK

(* What does not touch the users keeps them consistent. *)
LEMMA SameDb ==
    ASSUME DbOK, UNCHANGED db
    PROVE  DbOK'
  BY DEF DbOK, db, View, ViewOK, ViewType, Exact, Own, Named

(* A nick that a known user has may be put in a UID or a NICK about it. *)
LEMMA KnownNick ==
    ASSUME NEW v, ViewOK(v), NEW u \in User, u \in Known(v)
    PROVE  v.nick[u] \in AnyNick /\ MayHold(u, v.nick[u]) /\ v.ts[u] \in Nat
  BY DEF ViewOK, ViewType, Named, Own, Known, AnyNick, MayHold

-----------------------------------------------------------------------------
(* One lemma per action *)

(* A client that is accepted has its UUID as nick. *)
LEMMA NewUserStep ==
    ASSUME NickInv, NEW u \in User, NewUser(u)
    PROVE  NickInv'
<1> DEFINE s == Home[u]
<1>1. s \in Server /\ ViewOK(View(s)) /\ Time(s) \in Nat
  BY NickAssumption, TimeType DEF NickInv, DbOK, RestOK
<1>2. u \notin Known(View(s))
  BY DEF NewUser, Known, View
<1>3. u \in AnyNick /\ MayHold(u, u) /\ View(s).list[u] = NoUser
  BY <1>1, <1>2, UuidFree
<1>4. ViewOK(AddUser(View(s), u, u, Time(s), "unreg"))
  BY <1>1, <1>2, <1>3, AddUserOK DEF Conn
<1>5. DbOK'
  BY <1>1, <1>4, BecomeOK DEF NickInv, NewUser
<1>6. RestOK'
  BY DEF NickInv, RestOK, NewUser
<1> QED BY <1>5, <1>6 DEF NickInv

(* NICK of a client keeps the invariant. *)
LEMMA UserNickStep ==
    ASSUME NickInv, NEW u \in User, NEW n \in AnyNick, n \in Nick \cup {u},
           UserNick(u, n)
    PROVE  NickInv'
<1> DEFINE s == Home[u]
           v == View(s)
           w == ChangeNick(v, u, n, Time(s), Time(s))
<1>1. s \in Server /\ ViewOK(v) /\ Time(s) \in Nat
  BY NickAssumption, TimeType DEF NickInv, DbOK, RestOK
<1>2. u \in Known(v)
  BY DEF UserNick, Known, View
<1>3. MayHold(u, n)
  BY DEF MayHold
<1>4. ViewOK(w) /\ Known(w) = Known(v)
  BY <1>1, <1>2, <1>3, ChangeNickOK
<1>5. ViewOK(SetConn(w, u, "nick"))
  BY <1>2, <1>4, SetConnOK DEF Conn
<1>6. Become(s, IF v.conn[u] = "unreg" THEN SetConn(w, u, "nick") ELSE w)
  BY DEF UserNick
<1>7. DbOK'
  <2> HIDE DEF w, v
  <2>1. CASE v.conn[u] = "unreg"
    BY <2>1, <1>1, <1>5, <1>6, BecomeOK DEF NickInv
  <2>2. CASE v.conn[u] # "unreg"
    BY <2>2, <1>1, <1>4, <1>6, BecomeOK DEF NickInv
  <2> QED BY <2>1, <2>2
<1>8. PostNick(s, v, u, n, Time(s)) \in Seq(Message)
  BY <1>1, <1>3, PostNickType
<1>9. wire' \in WireType
  BY <1>1, <1>8, SendAllType DEF UserNick, NickInv, RestOK
<1>10. claims' \in SUBSET Message
  <2>1. claims' = claims \cup Range(PostNick(s, v, u, n, Time(s)))
    BY DEF UserNick
  <2>2. claims \in SUBSET Message
    BY DEF NickInv, RestOK
  <2>3. Range(PostNick(s, v, u, n, Time(s))) \in SUBSET Message
    <3> HIDE DEF s, v
    <3> QED BY <1>8 DEF Range
  <2> HIDE DEF s, v
  <2> QED BY <2>1, <2>2, <2>3
<1>11. asked' \in [User -> 0..MaxNicks]
  <2>1. asked[u] < MaxNicks /\ asked' = [asked EXCEPT ![u] = @ + 1]
    BY DEF UserNick
  <2>2. asked \in [User -> 0..MaxNicks] /\ MaxNicks \in Nat
    BY NickAssumption DEF NickInv, RestOK
  <2> QED BY <2>1, <2>2
<1>12. RestOK'
  BY <1>9, <1>10, <1>11 DEF NickInv, RestOK, UserNick
<1> QED BY <1>7, <1>12 DEF NickInv

(* The end of a registration keeps the invariant: a UID is sent. *)
LEMMA FullConnectStep ==
    ASSUME NickInv, NEW u \in User, FullConnect(u)
    PROVE  NickInv'
<1> DEFINE s == Home[u]
           v == View(s)
<1>1. s \in Server /\ ViewOK(v)
  BY NickAssumption DEF NickInv, DbOK
<1>2. u \in Known(v)
  BY DEF FullConnect, Known, View
<1>3. ViewOK(SetConn(v, u, "full"))
  BY <1>1, <1>2, SetConnOK DEF Conn
<1>4. Become(s, SetConn(v, u, "full"))
  BY <1>1 DEF FullConnect, Become, SetConn, View, NickInv, DbOK
<1>5. DbOK'
  BY <1>1, <1>3, <1>4, BecomeOK DEF NickInv
<1>6. /\ UID(u, nick[s][u], nickchanged[s][u]) \in Message
      /\ NICK(u, nick[s][u], nickchanged[s][u]) \in Message
  BY <1>1, <1>2, KnownNick, LineTypes DEF View
<1>7. wire' \in WireType
  <2>1. <<UID(u, nick[s][u], nickchanged[s][u])>> \in Seq(Message)
    BY <1>6
  <2> QED BY <1>1, <2>1, SendAllType DEF FullConnect, NickInv, RestOK
<1>8. RestOK'
  BY <1>6, <1>7 DEF FullConnect, NickInv, RestOK
<1> QED BY <1>5, <1>8 DEF NickInv

(* QUIT of a client keeps the invariant. *)
LEMMA UserQuitStep ==
    ASSUME NickInv, NEW u \in User, UserQuit(u)
    PROVE  NickInv'
<1> DEFINE s == Home[u]
<1>1. s \in Server /\ ViewOK(View(s)) /\ u \in Known(View(s))
  BY NickAssumption DEF NickInv, DbOK, UserQuit, Known, View
<1>2. DbOK'
  BY <1>1, QuitUserOK, BecomeOK DEF NickInv, UserQuit
<1>3. QUIT(u) \in Message
  BY <1>1, KnownNick, LineTypes
<1>4. wire' \in WireType
  <2>1. (IF connected[s][u] = "full" THEN <<QUIT(u)>> ELSE <<>>) \in Seq(Message)
    BY <1>3
  <2> QED BY <1>1, <2>1, SendAllType DEF UserQuit, NickInv, RestOK
<1>5. RestOK'
  BY <1>4 DEF UserQuit, NickInv, RestOK
<1> QED BY <1>2, <1>5 DEF NickInv

(* A burst keeps the invariant: a UID for every user. *)
LEMMA StartBurstStep ==
    ASSUME NickInv, NEW s \in Server, NEW t \in Server, StartBurst(s, t)
    PROVE  NickInv'
<1> DEFINE v == View(s)
           Line(u) == UID(u, nick[s][u], nickchanged[s][u])
<1>1. ViewOK(v)
  BY DEF NickInv, DbOK
<1>2. ASSUME NEW u \in FullyConnected(v) PROVE Line(u) \in Message
  <2>1. u \in User /\ u \in Known(v)
    BY <1>2 DEF FullyConnected, Known
  <2> QED BY <1>1, <2>1, KnownNick, LineTypes DEF View
<1>3. PICK order \in ClientOrders(v) :
        wire' = SendAll(wire, s, {t}, [i \in DOMAIN order |-> Line(order[i])])
  BY DEF StartBurst
<1>4. Cardinality(FullyConnected(v)) \in Nat
  <2>1. FullyConnected(v) \in SUBSET User
    BY DEF FullyConnected
  <2> QED BY <2>1, NickAssumption
<1>5. order \in [1..Cardinality(FullyConnected(v)) -> FullyConnected(v)]
  BY <1>3 DEF ClientOrders, Bijection, Injection
<1>6. [i \in DOMAIN order |-> Line(order[i])] \in Seq(Message)
  <2>1. \A i \in 1..Cardinality(FullyConnected(v)) : Line(order[i]) \in Message
    BY <1>2, <1>5
  <2> HIDE DEF Line, v
  <2> QED BY <1>4, <1>5, <2>1
<1>7. wire' \in WireType
  <2> HIDE DEF Line
  <2> QED BY <1>3, <1>6, SendAllType DEF NickInv, RestOK
<1>8. DbOK'
  BY SameDb DEF NickInv, StartBurst
<1>9. RestOK'
  BY <1>7 DEF StartBurst, NickInv, RestOK
<1> QED BY <1>8, <1>9 DEF NickInv

(* A line that is passed on is on the wires. *)
LEMMA ForwardType ==
    ASSUME NEW w \in WireType, NEW s \in Server, NEW t, NEW m \in Message
    PROVE  Forward(w, s, t, m) \in WireType
<1>1. <<m>> \in Seq(Message)
  OBVIOUS
<1> QED BY <1>1, SendAllType DEF Forward

(* A collision with a fully connected user x who holds n.  If the remote   *)
(* user r keeps the nick then x has left it.                               *)
LEMMA CollisionOK ==
    ASSUME now \in 0..MaxNow, NEW s \in Server, NEW v, ViewOK(v),
           NEW n \in AnyNick, NEW x \in User, v.list[n] = x,
           NEW r \in User, NEW ts \in Nat
    PROVE  /\ ViewOK(CollisionView(s, v, x, r, ts))
           /\ Known(CollisionView(s, v, x, r, ts)) = Known(v)
           /\ n # x /\ ~RemoteLoses(v, x, r, ts) =>
                CollisionView(s, v, x, r, ts).list[n] = NoUser
           /\ CollisionLines(s, v, x, r, ts) \in Seq(Message)
           /\ CollisionReply(v, x, r, ts) \in Seq(Message)
<1>1. x \in Known(v) /\ v.ts[x] \in Nat
  BY DEF ViewOK, ViewType, Exact, Known
<1>2. x \in AnyNick /\ MayHold(x, x) /\ MayHold(r, r) /\ r \in AnyNick
      /\ Time(s) \in Nat /\ SavedTimestamp \in Nat
  BY TimeType DEF AnyNick, MayHold, SavedTimestamp
<1>3. /\ ViewOK(ChangeNick(v, x, x, SavedTimestamp, Time(s)))
      /\ Known(ChangeNick(v, x, x, SavedTimestamp, Time(s))) = Known(v)
  BY <1>1, <1>2, ChangeNickOK, SMTT(30)
<1>4. n # x => ChangeNick(v, x, x, SavedTimestamp, Time(s)).list[n] = NoUser
  BY <1>1, <1>2, ChangeToUuid
<1>5. ~RemoteLoses(v, x, r, ts) => LocalLoses(v, x, r, ts)
  BY <1>1 DEF RemoteLoses, LocalLoses, ChangeRemote, ChangeLocal
<1>6. /\ ViewOK(CollisionView(s, v, x, r, ts))
      /\ Known(CollisionView(s, v, x, r, ts)) = Known(v)
      /\ n # x /\ ~RemoteLoses(v, x, r, ts) =>
                CollisionView(s, v, x, r, ts).list[n] = NoUser
  BY <1>3, <1>4, <1>5 DEF CollisionView
<1>7. CollisionLines(s, v, x, r, ts) \in Seq(Message)
  <2>1. SAVE(x, v.ts[x]) \in Message
    BY <1>1, <1>2, LineTypes
  <2>2. <<SAVE(x, v.ts[x])>> \in Seq(Message)
    BY <2>1
  <2>3. PostNick(s, v, x, x, SavedTimestamp) \in Seq(Message)
    BY <1>2, PostNickType
  <2> QED BY <2>2, <2>3 DEF CollisionLines
<1>8. CollisionReply(v, x, r, ts) \in Seq(Message)
  <2>1. SAVE(r, ts) \in Message
    BY <1>2, LineTypes
  <2> QED BY <2>1 DEF CollisionReply
<1> QED BY <1>6, <1>7, <1>8

(* What the readers of a line know about it. *)
LEMMA ArrivedFacts ==
    ASSUME NickInv, NEW s \in Server, NEW t \in Server, NEW c, Arrived(s, t, c)
    PROVE  /\ Take(s, t) \in WireType
           /\ Head(wire[t][s]) \in Message
           /\ Head(wire[t][s]).cmd = c
           /\ Head(wire[t][s]).uuid \in User
           /\ Head(wire[t][s]).ts \in Nat
           /\ c \in {"UID", "NICK"} =>
                /\ Head(wire[t][s]).nick \in AnyNick
                /\ MayHold(Head(wire[t][s]).uuid, Head(wire[t][s]).nick)
<1>1. Take(s, t) \in WireType /\ Head(wire[t][s]) \in Message
  BY TakeType DEF NickInv, RestOK, Arrived
<1>2. Head(wire[t][s]).cmd = c
  BY DEF Arrived
<1> QED BY <1>1, <1>2 DEF Message, MayHold, AnyNick

(* Reading QUIT keeps the invariant. *)
LEMMA HandleQUITStep ==
    ASSUME NickInv, NEW s \in Server, NEW t \in Server, HandleQUIT(s, t)
    PROVE  NickInv'
<1> DEFINE m == Head(wire[t][s])
<1>1. Take(s, t) \in WireType /\ m \in Message /\ m.uuid \in User
  BY ArrivedFacts DEF HandleQUIT
<1>2. ViewOK(View(s))
  BY DEF NickInv, DbOK
<1>3. CASE m.uuid \notin Known(View(s))
  <2>1. DbOK'
    BY <1>3, SameDb DEF HandleQUIT, NickInv
  <2>2. RestOK'
    BY <1>1, <1>3 DEF HandleQUIT, NickInv, RestOK
  <2> QED BY <2>1, <2>2 DEF NickInv
<1>4. CASE m.uuid \in Known(View(s))
  <2>1. DbOK'
    BY <1>1, <1>2, <1>4, QuitUserOK, BecomeOK DEF HandleQUIT, NickInv
  <2>2. wire' = Forward(Take(s, t), s, t, m)
    BY <1>4 DEF HandleQUIT
  <2>3. wire' \in WireType
    <3> HIDE DEF m
    <3> QED BY <1>1, <2>2, ForwardType
  <2>4. RestOK'
    BY <2>3 DEF HandleQUIT, NickInv, RestOK
  <2> QED BY <2>1, <2>4 DEF NickInv
<1> QED BY <1>3, <1>4

(* Reading SAVE keeps the invariant: the user gets its UUID. *)
LEMMA HandleSAVEStep ==
    ASSUME NickInv, NEW s \in Server, NEW t \in Server, HandleSAVE(s, t)
    PROVE  NickInv'
<1> DEFINE m == Head(wire[t][s])
           v == View(s)
           hit == v.ts[m.uuid] = m.ts
           w == ChangeNick(v, m.uuid, m.uuid, SavedTimestamp, Time(s))
           post == IF hit THEN PostNick(s, v, m.uuid, m.uuid, SavedTimestamp) ELSE <<>>
<1>1. Take(s, t) \in WireType /\ m \in Message /\ m.uuid \in User
  BY ArrivedFacts DEF HandleSAVE
<1>2. ViewOK(v) /\ Time(s) \in Nat /\ SavedTimestamp \in Nat
  BY TimeType DEF NickInv, DbOK, RestOK, SavedTimestamp
<1>3. m.uuid \in AnyNick /\ MayHold(m.uuid, m.uuid)
  BY <1>1 DEF AnyNick, MayHold
<1>4. CASE m.uuid \notin Known(v)
  <2>1. DbOK'
    BY <1>4, SameDb DEF HandleSAVE, NickInv
  <2>2. RestOK'
    BY <1>1, <1>4 DEF HandleSAVE, NickInv, RestOK
  <2> QED BY <2>1, <2>2 DEF NickInv
<1>5. CASE m.uuid \in Known(v)
  <2>1. ViewOK(w)
    BY <1>1, <1>2, <1>3, <1>5, ChangeNickOK
  <2>2. Become(s, IF hit THEN w ELSE v)
    BY <1>5 DEF HandleSAVE
  <2>3. wire' = Forward(SendAll(Take(s, t), s, Peers(s), post), s, t, m)
    BY <1>5 DEF HandleSAVE
  <2>4. post \in Seq(Message)
    <3>1. <<>> \in Seq(Message)
      OBVIOUS
    <3>2. PostNick(s, v, m.uuid, m.uuid, SavedTimestamp) \in Seq(Message)
      <4> HIDE DEF v, m
      <4> QED BY <1>1, <1>2, <1>3, PostNickType
    <3> HIDE DEF v, m, hit
    <3> QED BY <3>1, <3>2
  <2> HIDE DEF w, v, post, hit, m
  <2>5. DbOK'
    BY <1>2, <2>1, <2>2, BecomeOK DEF NickInv
  <2>6. wire' \in WireType
    BY <1>1, <2>3, <2>4, SendAllType, ForwardType
  <2>7. RestOK'
    BY <2>6 DEF HandleSAVE, NickInv, RestOK
  <2> QED BY <2>5, <2>7 DEF NickInv
<1> QED BY <1>4, <1>5

(* The lines a collision adds to the wire. *)
LEMMA ToldType ==
    ASSUME NEW w \in WireType, NEW s \in Server, NEW t,
           NEW a \in Seq(Message), NEW b \in Seq(Message)
    PROVE  SendAll(SendAll(w, s, Peers(s), a), s, {t}, b) \in WireType
  BY SendAllType

(* Reading NICK keeps the invariant, whoever loses the collision. *)
LEMMA HandleNICKStep ==
    ASSUME NickInv, NEW s \in Server, NEW t \in Server, HandleNICK(s, t)
    PROVE  NickInv'
<1> DEFINE m == Head(wire[t][s])
           v == View(s)
           x == v.list[m.nick]
           collide == x \in FullyConnected(v) \ {m.uuid}
           theychange == collide /\ RemoteLoses(v, x, m.uuid, m.ts)
           w == IF collide THEN CollisionView(s, v, x, m.uuid, m.ts) ELSE v
           told == IF collide
                   THEN SendAll(SendAll(Take(s, t), s, Peers(s),
                                        CollisionLines(s, v, x, m.uuid, m.ts)),
                                s, {t}, CollisionReply(v, x, m.uuid, m.ts))
                   ELSE Take(s, t)
           n  == IF theychange THEN m.uuid ELSE m.nick
           ts == IF theychange THEN SavedTimestamp ELSE m.ts
<1>1. /\ Take(s, t) \in WireType /\ m \in Message /\ m.uuid \in User /\ m.ts \in Nat
      /\ m.nick \in AnyNick /\ MayHold(m.uuid, m.nick)
  BY ArrivedFacts DEF HandleNICK
<1>2. ViewOK(v) /\ Time(s) \in Nat /\ now \in 0..MaxNow
  BY TimeType DEF NickInv, DbOK, RestOK
<1>3. CASE m.uuid \notin Known(v)
  <2>1. DbOK'
    BY <1>3, SameDb DEF HandleNICK, NickInv
  <2>2. RestOK'
    BY <1>1, <1>3 DEF HandleNICK, NickInv, RestOK
  <2> QED BY <2>1, <2>2 DEF NickInv
<1>4. CASE m.uuid \in Known(v)
  <2>1. /\ Become(s, ChangeNick(w, m.uuid, n, ts, Time(s)))
        /\ wire' = Forward(told, s, t, NICK(m.uuid, n, ts))
        /\ UNCHANGED <<link, now, asked, gone, claims>>
    BY <1>4 DEF HandleNICK
  <2>2. n \in AnyNick /\ MayHold(m.uuid, n) /\ ts \in Nat
    BY <1>1 DEF AnyNick, MayHold, SavedTimestamp
  <2>3. ViewOK(w) /\ Known(w) = Known(v) /\ told \in WireType
    <3>1. x # NoUser => x \in User
      BY <1>1, <1>2 DEF ViewOK, ViewType
    <3>2. collide => x # NoUser
      BY NickAssumption DEF FullyConnected
    <3>3. x # NoUser /\ collide =>
           /\ ViewOK(CollisionView(s, v, x, m.uuid, m.ts))
           /\ Known(CollisionView(s, v, x, m.uuid, m.ts)) = Known(v)
           /\ m.nick # x /\ ~RemoteLoses(v, x, m.uuid, m.ts) =>
                CollisionView(s, v, x, m.uuid, m.ts).list[m.nick] = NoUser
           /\ CollisionLines(s, v, x, m.uuid, m.ts) \in Seq(Message)
           /\ CollisionReply(v, x, m.uuid, m.ts) \in Seq(Message)
      BY <1>1, <1>2, <3>1, CollisionOK
    <3>4. ViewOK(w) /\ Known(w) = Known(v)
      BY <1>2, <3>2, <3>3
    <3>5. told \in WireType
      BY <1>1, <3>2, <3>3, ToldType
    <3> QED BY <3>4, <3>5
  <2> HIDE DEF w, n, ts, told, v
  <2>4. ViewOK(ChangeNick(w, m.uuid, n, ts, Time(s)))
    BY <1>1, <1>2, <1>4, <2>2, <2>3, ChangeNickOK
  <2>5. DbOK'
    BY <2>1, <2>4, BecomeOK DEF NickInv
  <2>6. NICK(m.uuid, n, ts) \in Message
    BY <1>1, <2>2, LineTypes
  <2>7. wire' \in WireType
    BY <2>1, <2>3, <2>6, ForwardType
  <2>8. RestOK'
    BY <2>1, <2>7 DEF NickInv, RestOK
  <2> QED BY <2>5, <2>8 DEF NickInv
<1> QED BY <1>3, <1>4

(* Reading UID keeps the invariant, whoever loses the collision. *)
LEMMA HandleUIDStep ==
    ASSUME NickInv, NEW s \in Server, NEW t \in Server, HandleUID(s, t)
    PROVE  NickInv'
<1> DEFINE m == Head(wire[t][s])
           v == View(s)
           x == v.list[m.nick]
           collide == x \in FullyConnected(v)
           theychange == collide /\ RemoteLoses(v, x, m.uuid, m.ts)
           w == IF x = NoUser THEN v
                ELSE IF collide THEN CollisionView(s, v, x, m.uuid, m.ts)
                ELSE OverruleNick(v, x, Time(s))
           told == IF collide
                   THEN SendAll(SendAll(Take(s, t), s, Peers(s),
                                        CollisionLines(s, v, x, m.uuid, m.ts)),
                                s, {t}, CollisionReply(v, x, m.uuid, m.ts))
                   ELSE Take(s, t)
           n  == IF theychange THEN m.uuid ELSE m.nick
           ts == IF theychange THEN SavedTimestamp ELSE m.ts
<1>1. /\ Take(s, t) \in WireType /\ m \in Message /\ m.uuid \in User /\ m.ts \in Nat
      /\ m.nick \in AnyNick /\ MayHold(m.uuid, m.nick)
  BY ArrivedFacts DEF HandleUID
<1>2. ViewOK(v) /\ Time(s) \in Nat /\ now \in 0..MaxNow
  BY TimeType DEF NickInv, DbOK, RestOK
<1>3. x # NoUser => x \in User /\ x \in Known(v)
  <2> HIDE DEF v, m
  <2> QED BY <1>1, <1>2, ListedKnown
<1>4. collide => x # NoUser
  BY NickAssumption DEF FullyConnected
<1>5. /\ x # NoUser /\ collide =>
           /\ ViewOK(CollisionView(s, v, x, m.uuid, m.ts))
           /\ Known(CollisionView(s, v, x, m.uuid, m.ts)) = Known(v)
           /\ m.nick # x /\ ~RemoteLoses(v, x, m.uuid, m.ts) =>
                CollisionView(s, v, x, m.uuid, m.ts).list[m.nick] = NoUser
           /\ CollisionLines(s, v, x, m.uuid, m.ts) \in Seq(Message)
           /\ CollisionReply(v, x, m.uuid, m.ts) \in Seq(Message)
  BY <1>1, <1>2, <1>3, CollisionOK
<1>6. /\ x # NoUser =>
           /\ ViewOK(OverruleNick(v, x, Time(s)))
           /\ Known(OverruleNick(v, x, Time(s))) = Known(v)
           /\ m.nick # x => OverruleNick(v, x, Time(s)).list[m.nick] = NoUser
  BY <1>1, <1>2, <1>3, OverruleNickOK
<1>7. ViewOK(w) /\ Known(w) = Known(v)
  BY <1>2, <1>5, <1>6
<1>8. told \in WireType
  BY <1>1, <1>4, <1>5, ToldType
<1>9. CASE m.uuid \in Known(v)
  <2>1. /\ Become(s, w) /\ wire' = told
        /\ link' = [link EXCEPT ![s][t] = "error"]
        /\ UNCHANGED <<now, asked, gone, claims>>
    BY <1>9 DEF HandleUID
  <2> HIDE DEF w, told
  <2>2. DbOK'
    BY <1>7, <2>1, BecomeOK DEF NickInv
  <2>3. RestOK'
    BY <1>8, <2>1 DEF NickInv, RestOK
  <2> QED BY <2>2, <2>3 DEF NickInv
<1>10. CASE m.uuid \notin Known(v)
  <2>1. /\ Become(s, AddUser(w, m.uuid, n, ts, "full"))
        /\ wire' = Forward(told, s, t, UID(m.uuid, n, ts))
        /\ UNCHANGED <<link, now, asked, gone, claims>>
    BY <1>10 DEF HandleUID
  <2>2. n \in AnyNick /\ MayHold(m.uuid, n) /\ ts \in Nat
    BY <1>1 DEF AnyNick, MayHold, SavedTimestamp
  <2>3. x # NoUser => m.nick # x
    BY <1>1, <1>3, <1>10, NickAssumption DEF MayHold
  <2>4. w.list[m.nick] = NoUser \/ theychange
    BY <1>4, <1>5, <1>6, <2>3
  <2>5. w.list[m.uuid] = NoUser
    <3> HIDE DEF w
    <3> QED BY <1>1, <1>7, <1>10, UuidFree
  <2>6. w.list[n] = NoUser
    <3> HIDE DEF w
    <3> QED BY <2>4, <2>5
  <2> HIDE DEF w, told, n, ts, v
  <2>7. ViewOK(AddUser(w, m.uuid, n, ts, "full"))
    BY <1>1, <1>7, <1>10, <2>2, <2>6, AddUserOK DEF Conn
  <2>8. DbOK'
    BY <2>1, <2>7, BecomeOK DEF NickInv
  <2>9. UID(m.uuid, n, ts) \in Message
    BY <1>1, <2>2, LineTypes
  <2>10. wire' \in WireType
    BY <1>8, <2>1, <2>9, ForwardType
  <2>11. RestOK'
    BY <2>1, <2>10 DEF NickInv, RestOK
  <2> QED BY <2>8, <2>11 DEF NickInv
<1> QED BY <1>9, <1>10

-----------------------------------------------------------------------------
(* Nobody is known at first. *)
LEMMA NickInvInit == Init => NickInv
<1> SUFFICES ASSUME Init PROVE NickInv
  OBVIOUS
<1>1. ASSUME NEW s \in Server PROVE ViewOK(View(s))
  <2>1. View(s) \in ViewType
    BY DEF Init, View, ViewType, Conn
  <2>2. Exact(View(s)) /\ Own(View(s)) /\ Named(View(s))
    BY NickAssumption DEF Init, View, Exact, Own, Named
  <2> QED BY <2>1, <2>2 DEF ViewOK
<1>2. DbOK
  BY <1>1 DEF Init, DbOK, Conn
<1>3. RestOK
  BY NickAssumption DEF Init, RestOK, WireType
<1> QED BY <1>2, <1>3 DEF NickInv

(* Every step keeps the invariant. *)
LEMMA NickInvStep == NickInv /\ [Next]_vars => NickInv'
<1> SUFFICES ASSUME NickInv, [Next]_vars PROVE NickInv'
  OBVIOUS
<1>1. CASE \E u \in User : NewUser(u) \/ FullConnect(u) \/ UserQuit(u)
  BY <1>1, NewUserStep, FullConnectStep, UserQuitStep
<1>2. CASE \E u \in User, n \in AnyNick : n \in Nick \cup {u} /\ UserNick(u, n)
  BY <1>2, UserNickStep
<1>3. CASE \E s, t \in Server : StartBurst(s, t) \/ Read(s, t)
  BY <1>3, StartBurstStep, HandleUIDStep, HandleNICKStep, HandleSAVEStep,
     HandleQUITStep DEF Read
<1>4. CASE Tick
  <2>1. DbOK'
    BY <1>4, SameDb DEF Tick, NickInv
  <2>2. RestOK'
    BY <1>4, NickAssumption DEF Tick, NickInv, RestOK
  <2> QED BY <2>1, <2>2 DEF NickInv
<1>5. CASE UNCHANGED vars
  <2>1. DbOK'
    BY <1>5, SameDb DEF vars, db, NickInv
  <2>2. RestOK'
    BY <1>5 DEF vars, NickInv, RestOK
  <2> QED BY <2>1, <2>2 DEF NickInv
<1> QED BY <1>1, <1>2, <1>3, <1>4, <1>5 DEF Next

(* The invariant holds always. *)
THEOREM NickInvariant == Spec => []NickInv
  BY NickInvInit, NickInvStep, PTL DEF Spec

(* Every variable of the network keeps its type: in particular a UID or    *)
(* NICK on the wire never puts one user's UUID in another user's nick.     *)
THEOREM TypeCorrect == Spec => []TypeOK
<1>1. NickInv => TypeOK
  BY DEF NickInv, DbOK, RestOK, TypeOK, WireType
<1> QED BY <1>1, NickInvariant, PTL

(* On every server, after any interleaving of registrations, NICKs,        *)
(* bursts, collisions and quits, clientlist holds exactly the known users  *)
(* under exactly their nicks; two users never share one.                   *)
THEOREM NickIndexExact == Spec => []ClientListExact
<1>1. NickInv => ClientListExact
  <2> SUFFICES ASSUME NickInv, NEW s \in Server, NEW u \in User, NEW n \in AnyNick
               PROVE  clientlist[s][n] = u <=> (connected[s][u] # "none" /\ nick[s][u] = n)
    BY DEF ClientListExact
  <2>1. Exact(View(s))
    BY DEF NickInv, DbOK, ViewOK
  <2>2. /\ View(s).list = clientlist[s] /\ View(s).conn = connected[s]
        /\ View(s).nick = nick[s]
    BY DEF View
  <2> QED BY <2>1, <2>2 DEF Exact
<1> QED BY <1>1, NickInvariant, PTL

-----------------------------------------------------------------------------
(* Induction over the natural numbers *)

(* A set of natural numbers that is not empty has a least element. *)
LEMMA HasMinimum ==
    ASSUME NEW S, S \subseteq Nat, S # {}
    PROVE  \E n \in S : \A k \in S : n <= k
<1> DEFINE R == {ss \in Nat \X Nat : ss[1] < ss[2]}
<1>1. IsWellFoundedOn(R, Nat)
  BY NatLessThanWellFounded DEF OpToRel
<1> HIDE DEF R
<1>2. PICK n \in S : \A k \in S : ~ (<<k, n>> \in R)
  BY <1>1, WFMin
<1>3. ASSUME NEW k \in S PROVE n <= k
  <2>1. <<k, n>> \notin R /\ k \in Nat /\ n \in Nat
    BY <1>2
  <2> QED BY <2>1 DEF R
<1> QED BY <1>3

(* Induction over a set: what is true of 0 and of the successor of every   *)
(* number it is true of is true of every number.                           *)
LEMMA SetInduction ==
    ASSUME NEW S, 0 \in S, \A n \in Nat : n \in S => n + 1 \in S
    PROVE  Nat \subseteq S
<1> DEFINE T == {n \in Nat : n \notin S}
<1> SUFFICES ASSUME T # {} PROVE FALSE
  OBVIOUS
<1>1. PICK n \in T : \A k \in T : n <= k
  BY HasMinimum
<1>2. n \in Nat /\ n # 0 /\ n - 1 \in Nat /\ n - 1 \in S
  BY <1>1
<1> QED BY <1>1, <1>2

-----------------------------------------------------------------------------
(* The mask that HandleReq computes *)

BitOf(c) == capObj[caps[c]].bit

MaskStep(req, k, before) ==
    IF req[k].remove THEN before \ {BitOf(req[k].cap)} ELSE before \cup {BitOf(req[k].cap)}

IsMask(g, u, req, n) ==
    g = [k \in 0..n |-> IF k = 0 THEN usercaps[u] ELSE MaskStep(req, k, g[k - 1])]

(* The loop of HandleReq has a mask after every number of tokens. *)
LEMMA MasksExist ==
    ASSUME NEW u, NEW req, NEW n \in Nat
    PROVE  \E g : IsMask(g, u, req, n)
<1> DEFINE S == {x \in Nat : \E g : IsMask(g, u, req, x)}
<1>1. 0 \in S
  <2> DEFINE g == [k \in 0..0 |-> usercaps[u]]
  <2>1. IsMask(g, u, req, 0)
    BY DEF IsMask
  <2> QED BY <2>1
<1>2. ASSUME NEW x \in Nat, x \in S PROVE x + 1 \in S
  <2>1. PICK g : IsMask(g, u, req, x)
    BY <1>2
  <2> DEFINE h == [k \in 0..(x + 1) |-> IF k = x + 1 THEN MaskStep(req, k, g[x]) ELSE g[k]]
  <2>2. ASSUME NEW k \in 0..(x + 1)
        PROVE  h[k] = IF k = 0 THEN usercaps[u] ELSE MaskStep(req, k, h[k - 1])
    <3>1. CASE k = 0
      BY <3>1, <2>1 DEF IsMask
    <3>2. CASE k = x + 1
      <4>1. k # 0 /\ k - 1 = x /\ x \in 0..(x + 1) /\ x # x + 1
        BY <3>2
      <4>2. h[x] = g[x]
        BY <4>1
      <4>3. h[k] = MaskStep(req, k, g[x])
        BY <3>2
      <4> QED BY <4>1, <4>2, <4>3
    <3>3. CASE k # 0 /\ k # x + 1
      <4>1. k \in 0..x /\ k - 1 \in 0..x /\ k - 1 \in 0..(x + 1) /\ k - 1 # x + 1
        BY <3>3
      <4>2. h[k] = g[k] /\ h[k - 1] = g[k - 1]
        BY <4>1, <3>3
      <4>3. g[k] = MaskStep(req, k, g[k - 1])
        BY <4>1, <3>3, <2>1 DEF IsMask
      <4> QED BY <4>2, <4>3, <3>3
    <3> QED BY <3>1, <3>2, <3>3
  <2>3. h = [k \in 0..(x + 1) |-> IF k = 0 THEN usercaps[u] ELSE MaskStep(req, k, h[k - 1])]
    <3> HIDE DEF h
    <3>1. h = [k \in 0..(x + 1) |-> h[k]]
      BY DEF h
    <3> QED BY <3>1, <2>2
  <2>4. IsMask(h, u, req, x + 1)
    BY <2>3 DEF IsMask
  <2> QED BY <2>4
<1> HIDE DEF S
<1>3. Nat \subseteq S
  BY <1>1, <1>2, SetInduction
<1> QED BY <1>3 DEF S

(* The masks of HandleReq are those of its loop. *)
LEMMA ReqMasksAre ==
    ASSUME NEW u, NEW req, Len(req) \in Nat
    PROVE  IsMask(ReqMasks(u, req), u, req, Len(req))
<1>1. \E g : IsMask(g, u, req, Len(req))
  BY MasksExist
<1>2. ReqMasks(u, req) = CHOOSE g : IsMask(g, u, req, Len(req))
  BY DEF ReqMasks, IsMask, MaskStep, BitOf
<1> QED BY <1>1, <1>2

(* The token j is the last of the first n that is about the bit b *)
LastOf(req, n, j, b) ==
    /\ j \in 1..n /\ BitOf(req[j].cap) = b
    /\ \A i \in 1..n : j < i => BitOf(req[i].cap) # b

(* b is in the mask of the first n tokens: the last token about it adds it, *)
(* or there is none and the user had it.                                    *)
InMask(u, req, n, b) ==
    \/ \E j \in 1..n : LastOf(req, n, j, b) /\ ~req[j].remove
    \/ b \in usercaps[u] /\ \A i \in 1..n : BitOf(req[i].cap) # b

(* HandleReq's loop: for each bit the last token about it decides. *)
LEMMA MaskMeaning ==
    ASSUME NEW u, NEW req, Len(req) \in Nat, NEW b
    PROVE  \A k \in 0..Len(req) : b \in ReqMasks(u, req)[k] <=> InMask(u, req, k, b)
<1> DEFINE f == ReqMasks(u, req)
           S == {x \in Nat : x <= Len(req) => (b \in f[x] <=> InMask(u, req, x, b))}
<1>f. IsMask(f, u, req, Len(req))
  BY ReqMasksAre
<1> HIDE DEF f
<1>1. 0 \in S
  <2>1. f[0] = usercaps[u]
    BY <1>f DEF IsMask
  <2>2. 1..0 = {}
    OBVIOUS
  <2>3. b \in f[0] <=> InMask(u, req, 0, b)
    BY <2>1, <2>2 DEF InMask
  <2> QED BY <2>3
<1>2. ASSUME NEW x \in Nat, x \in S PROVE x + 1 \in S
  <2> SUFFICES ASSUME x + 1 <= Len(req)
               PROVE  b \in f[x + 1] <=> InMask(u, req, x + 1, b)
    OBVIOUS
  <2> DEFINE y == x + 1
  <2>1. /\ x \in 0..Len(req) /\ y \in 0..Len(req) /\ y # 0 /\ y - 1 = x /\ y \in 1..y
        /\ \A i \in 1..x : i \in 1..y /\ i < y
        /\ \A i \in 1..y : i = y \/ i \in 1..x
    OBVIOUS
  <2>2. f[y] = MaskStep(req, y, f[x])
    BY <1>f, <2>1 DEF IsMask
  <2>3. b \in f[x] <=> InMask(u, req, x, b)
    BY <1>2
  <2>4. CASE BitOf(req[y].cap) = b
    <3>1. LastOf(req, y, y, b)
      BY <2>4, <2>1 DEF LastOf
    <3>2. ASSUME NEW j \in 1..y, LastOf(req, y, j, b) PROVE j = y
      BY <3>2, <2>4, <2>1 DEF LastOf
    <3>3. InMask(u, req, y, b) <=> ~req[y].remove
      BY <3>1, <3>2, <2>1, <2>4 DEF InMask
    <3> QED BY <3>3, <2>2, <2>4 DEF MaskStep
  <2>5. CASE BitOf(req[y].cap) # b
    <3>1. \A j \in 1..x : LastOf(req, x, j, b) <=> LastOf(req, y, j, b)
      <4> SUFFICES ASSUME NEW j \in 1..x PROVE LastOf(req, x, j, b) <=> LastOf(req, y, j, b)
        OBVIOUS
      <4>1. (\A i \in 1..x : j < i => BitOf(req[i].cap) # b) <=> (\A i \in 1..y : j < i => BitOf(req[i].cap) # b)
        BY <2>1, <2>5
      <4> QED BY <4>1, <2>1 DEF LastOf
    <3>2. ~LastOf(req, y, y, b)
      BY <2>5 DEF LastOf
    <3>3. InMask(u, req, x, b) <=> InMask(u, req, y, b)
      <4>1. (\A i \in 1..x : BitOf(req[i].cap) # b) <=> (\A i \in 1..y : BitOf(req[i].cap) # b)
        BY <2>1, <2>5
      <4>2. (\E j \in 1..x : LastOf(req, x, j, b) /\ ~req[j].remove)
            <=> (\E j \in 1..y : LastOf(req, y, j, b) /\ ~req[j].remove)
        BY <3>1, <3>2, <2>1
      <4> QED BY <4>1, <4>2 DEF InMask
    <3>4. b \in f[y] <=> b \in f[x]
      BY <2>2, <2>5 DEF MaskStep
    <3> QED BY <3>3, <3>4, <2>3
  <2> QED BY <2>4, <2>5
<1> HIDE DEF S
<1>3. Nat \subseteq S
  BY <1>1, <1>2, SetInduction
<1> QED BY <1>3 DEF S, f

(* A capability that is named has a last token that names it. *)
LEMMA LastToken ==
    ASSUME NEW req, Len(req) \in Nat, NEW m, NEW i \in 1..Len(req), req[i].cap = m
    PROVE  \E k \in 1..Len(req) : req[k].cap = m /\ \A j \in 1..Len(req) : req[j].cap = m => j <= k
<1> DEFINE S == {n \in Nat : n <= Len(req) /\ Len(req) - n \in 1..Len(req) /\ req[Len(req) - n].cap = m}
<1>1. Len(req) - i \in Nat /\ Len(req) - (Len(req) - i) = i
  OBVIOUS
<1>2. Len(req) - i \in S
  BY <1>1
<1>3. PICK n \in S : \A k \in S : n <= k
  BY <1>2, HasMinimum
<1>4. ASSUME NEW j \in 1..Len(req), req[j].cap = m PROVE j <= Len(req) - n
  <2>1. Len(req) - j \in Nat /\ Len(req) - (Len(req) - j) = j
    OBVIOUS
  <2>2. Len(req) - j \in S
    BY <2>1, <1>4
  <2> QED BY <2>2, <1>3
<1> QED BY <1>3, <1>4

-----------------------------------------------------------------------------
(* The invariant of the manager *)

CapRec == [mod : CapMod, life : {"loaded", "unloaded", "dead"}, bit : 0..MaxCaps]

CapTypes ==
    /\ usercaps \in [CapUser -> SUBSET Bits]
    /\ cap302 \in [CapUser -> BOOLEAN]
    /\ localUsers \subseteq CapUser
    /\ capTold \in [CapUser -> SUBSET CapMod]
    /\ capMissed \in [CapUser -> SUBSET CapMod]
    /\ \A u \in CapUser \ localUsers : usercaps[u] = {} /\ ~cap302[u]

(* What the map has for a name is an object of that name that is registered *)
MapSound ==
    \A m \in CapMod : caps[m] # 0 =>
        /\ capObj[caps[m]].mod = m
        /\ capObj[caps[m]].bit # 0
        /\ capObj[caps[m]].life # "dead"

MapTypes ==
    /\ capObj \in Seq(CapRec)
    /\ caps \in [CapMod -> 0..Len(capObj)]
    /\ displaced \subseteq CapMod
    /\ ~crashed => MapSound

(* An object that is registered is the one that the map has *)
Found == \A o \in Objects : capObj[o].bit # 0 => caps[capObj[o].mod] = o

CapSound == displaced = {} /\ ~crashed => Found /\ BitsKept /\ ClientToldRight

(* CapsKept is not inductive: a bit is taken from the object that the map  *)
(* has for its name only because every object with a bit is in the map.    *)
CapInv == CapTypes /\ MapTypes /\ CapSound

(* The bit that AllocateBit finds is free. *)
LEMMA FreeBit ==
    ASSUME FreeBits # {}
    PROVE  AllocateBit \in FreeBits
<1>1. FreeBits \subseteq Nat
  BY CapAssumption DEF FreeBits, Bits
<1>2. \E b \in FreeBits : \A c \in FreeBits : b <= c
  BY <1>1, HasMinimum
<1> QED BY <1>2 DEF AllocateBit

(* A new set of objects that has the same registrations as the old one *)
SameObjects(objs, o) ==
    /\ objs \in Seq(CapRec)
    /\ Len(capObj) <= Len(objs)
    /\ \A k \in Objects : /\ objs[k].mod = capObj[k].mod /\ objs[k].bit = capObj[k].bit
                          /\ capObj[k].life # "dead" => objs[k].life # "dead"
    /\ o \in 1..Len(objs) /\ \A k \in 1..Len(objs) : k \notin Objects => k = o
    /\ objs[o].bit = 0 /\ objs[o].life # "dead"

(* AddCap: what becomes of the objects. *)
LEMMA AddCapObjects ==
    ASSUME MapTypes, FreeBits # {}, NEW objs, NEW o, SameObjects(objs, o), AddCap(objs, o)
    PROVE  /\ capObj' \in Seq(CapRec) /\ Objects' = 1..Len(objs) /\ Objects \subseteq Objects' /\ o \in Objects'
           /\ Len(capObj') = Len(objs) /\ Len(objs) \in Nat
           /\ capObj'[o].bit = AllocateBit /\ capObj'[o].mod = objs[o].mod /\ capObj'[o].mod \in CapMod
           /\ capObj'[o].life # "dead"
           /\ AllocateBit \in Bits /\ AllocateBit \notin UsedBits /\ AllocateBit # 0
           /\ \A k \in Objects' : k # o =>
                  /\ k \in Objects /\ capObj'[k].mod = capObj[k].mod /\ capObj'[k].bit = capObj[k].bit
                  /\ capObj[k].life # "dead" => capObj'[k].life # "dead"
<1>1. AllocateBit \in Bits /\ AllocateBit \notin UsedBits /\ AllocateBit # 0 /\ AllocateBit \in 0..MaxCaps
  BY FreeBit, CapAssumption DEF FreeBits, Bits
<1>2. /\ objs \in Seq(CapRec) /\ DOMAIN objs = 1..Len(objs) /\ Len(objs) \in Nat
      /\ \A k \in 1..Len(objs) : objs[k] \in CapRec
      /\ o \in 1..Len(objs)
  BY DEF SameObjects
<1>3. Objects = 1..Len(capObj) /\ Len(capObj) \in Nat /\ Objects \subseteq 1..Len(objs)
  BY <1>2 DEF MapTypes, Objects, SameObjects
<1>4. capObj' = [objs EXCEPT ![o].bit = AllocateBit]
  BY DEF AddCap
<1>5. /\ DOMAIN capObj' = 1..Len(objs)
      /\ \A k \in 1..Len(objs) : k # o => capObj'[k] = objs[k]
      /\ capObj'[o] = [objs[o] EXCEPT !.bit = AllocateBit]
  BY <1>4, <1>2
<1>6. /\ capObj'[o].bit = AllocateBit /\ capObj'[o].mod = objs[o].mod /\ capObj'[o].life = objs[o].life
      /\ capObj'[o] \in CapRec
  BY <1>5, <1>2, <1>1 DEF CapRec
<1>7. capObj' \in Seq(CapRec) /\ Len(capObj') = Len(objs)
  <2>1. \A k \in 1..Len(objs) : capObj'[k] \in CapRec
    BY <1>5, <1>6, <1>2
  <2> HIDE DEF CapRec
  <2>2. capObj' = [k \in 1..Len(objs) |-> capObj'[k]]
    BY <1>4, <1>2
  <2> QED BY <2>1, <2>2, <1>2
<1>8. capObj'[o].life # "dead" /\ objs[o].mod \in CapMod
  BY <1>6, <1>2 DEF SameObjects, CapRec
<1>9. ASSUME NEW k \in 1..Len(objs), k # o
      PROVE  /\ k \in Objects /\ capObj'[k].mod = capObj[k].mod /\ capObj'[k].bit = capObj[k].bit
             /\ capObj[k].life # "dead" => capObj'[k].life # "dead"
  BY <1>9, <1>5 DEF SameObjects
<1> QED BY <1>1, <1>2, <1>3, <1>5, <1>6, <1>7, <1>8, <1>9 DEF Objects

(* AddCap keeps the map sound. *)
LEMMA AddCapMap ==
    ASSUME MapTypes, ~crashed, FreeBits # {}, NEW objs, NEW o, SameObjects(objs, o), AddCap(objs, o)
    PROVE  MapTypes'
<1> DEFINE m == objs[o].mod
<1>1. caps' = [caps EXCEPT ![m] = IF @ = 0 THEN o ELSE @] /\ displaced' \subseteq displaced \cup {m}
  BY DEF AddCap
<1>2. m \in CapMod /\ o \in 1..Len(capObj') /\ Len(capObj) <= Len(capObj') /\ Len(capObj') \in Nat
  BY AddCapObjects DEF SameObjects, Objects
<1>3. caps \in [CapMod -> 0..Len(capObj)] /\ Len(capObj) \in Nat /\ displaced \subseteq CapMod /\ MapSound
  BY DEF MapTypes
<1>4. caps' \in [CapMod -> 0..Len(capObj')]
  BY <1>1, <1>2, <1>3
<1>5. \A n \in CapMod : caps'[n] = IF n = m /\ caps[n] = 0 THEN o ELSE caps[n]
  BY <1>1, <1>2, <1>3
<1>6. MapSound'
  <2> SUFFICES ASSUME NEW n \in CapMod, caps'[n] # 0
               PROVE  capObj'[caps'[n]].mod = n /\ capObj'[caps'[n]].bit # 0 /\ capObj'[caps'[n]].life # "dead"
    BY DEF MapSound
  <2>1. CASE n = m /\ caps[n] = 0
    BY <2>1, <1>5, AddCapObjects
  <2>2. CASE ~(n = m /\ caps[n] = 0)
    <3>1. caps'[n] = caps[n] /\ caps[n] \in Objects
      BY <2>2, <1>5, <1>3 DEF MapTypes, Objects
    <3>2. capObj[caps[n]].mod = n /\ capObj[caps[n]].bit # 0 /\ capObj[caps[n]].life # "dead"
      BY <3>1, <1>3 DEF MapSound
    <3>3. caps[n] # o
      BY <3>1, <3>2 DEF SameObjects
    <3>4. caps[n] \in Objects'
      BY <3>1, AddCapObjects
    <3> QED BY <3>1, <3>2, <3>3, <3>4, AddCapObjects
  <2> QED BY <2>1, <2>2
<1>7. capObj' \in Seq(CapRec)
  BY AddCapObjects
<1>8. displaced' \subseteq CapMod
  BY <1>1, <1>2, <1>3
<1> QED BY <1>4, <1>6, <1>7, <1>8 DEF MapTypes

(* AddCap: the object has no users, because its bit belonged to nobody. *)
LEMMA AddCapSound ==
    ASSUME CapInv, ~crashed, FreeBits # {}, NEW objs, NEW o, SameObjects(objs, o), AddCap(objs, o),
           caps[objs[o].mod] = 0 => usercaps' = usercaps, UNCHANGED <<capTold, capMissed>>
    PROVE  CapSound'
<1> DEFINE m == objs[o].mod
           b == AllocateBit
<1> SUFFICES ASSUME displaced' = {} PROVE Found' /\ BitsKept' /\ ClientToldRight'
  BY DEF CapSound
<1>1. displaced = {} /\ caps[m] = 0 /\ caps' = [caps EXCEPT ![m] = o]
  BY DEF AddCap
<1>2. /\ Found /\ BitsKept /\ ClientToldRight /\ usercaps' = usercaps
      /\ capTold' = capTold /\ capMissed' = capMissed
  BY <1>1 DEF CapInv, CapSound
<1>3. /\ m \in CapMod /\ o \in Objects' /\ caps \in [CapMod -> 0..Len(capObj)] /\ Len(capObj) \in Nat
      /\ capObj'[o].bit = b /\ capObj'[o].mod = m /\ capObj'[o].life # "dead" /\ b # 0 /\ b \notin UsedBits
      /\ MapTypes /\ MapSound
  BY AddCapObjects DEF CapInv, MapTypes
<1>4. caps'[m] = o /\ \A n \in CapMod : n # m => caps'[n] = caps[n]
  BY <1>1, <1>3
<1>5. ASSUME NEW n \in CapMod, n # m, caps[n] # 0
      PROVE  /\ caps[n] \in Objects /\ caps[n] \in Objects' /\ caps[n] # o
             /\ capObj'[caps[n]].bit = capObj[caps[n]].bit /\ capObj'[caps[n]].mod = n
             /\ capObj[caps[n]].bit \in UsedBits /\ capObj[caps[n]].bit # 0
             /\ capObj'[caps[n]].life # "dead"
  <2>1. caps[n] \in Objects
    BY <1>5, <1>3 DEF MapTypes, Objects
  <2>2. capObj[caps[n]].mod = n /\ capObj[caps[n]].bit # 0 /\ capObj[caps[n]].life # "dead"
    BY <1>5, <1>3 DEF MapSound
  <2>3. caps[n] # o
    BY <2>1, <2>2 DEF SameObjects
  <2>4. caps[n] \in Objects'
    BY <2>1, <1>3, AddCapObjects
  <2>5. capObj[caps[n]].bit \in UsedBits
    BY <1>5 DEF UsedBits
  <2> QED BY <2>1, <2>2, <2>3, <2>4, <2>5, <1>3, AddCapObjects
<1>6. Found'
  <2> SUFFICES ASSUME NEW k \in Objects', capObj'[k].bit # 0 PROVE caps'[capObj'[k].mod] = k
    BY DEF Found
  <2>1. CASE k = o
    BY <2>1, <1>3, <1>4
  <2>2. CASE k # o
    <3>1. k \in Objects /\ capObj'[k].mod = capObj[k].mod /\ capObj[k].bit # 0
      BY <2>2, <1>3, AddCapObjects
    <3>4. capObj[k] \in CapRec /\ k # 0
      BY <3>1, <1>3 DEF MapTypes, Objects
    <3>2. caps[capObj[k].mod] = k /\ capObj[k].mod \in CapMod /\ k # 0
      BY <3>1, <3>4, <1>2 DEF Found, CapRec
    <3>3. capObj[k].mod # m
      BY <3>2, <1>1
    <3> QED BY <3>1, <3>2, <3>3, <1>4
  <2> QED BY <2>1, <2>2
<1>7. BitsKept'
  <2>1. \A n \in CapMod : caps'[n] # 0 => capObj'[caps'[n]].life # "dead" /\ capObj'[caps'[n]].bit # 0
    BY <1>3, <1>4, <1>5
  <2>2. ASSUME NEW n \in CapMod, NEW p \in CapMod, caps'[n] # 0, caps'[p] # 0, n # p
        PROVE  capObj'[caps'[n]].bit # capObj'[caps'[p]].bit
    <3>1. CASE n = m
      BY <3>1, <2>2, <1>3, <1>4, <1>5
    <3>2. CASE p = m
      BY <3>2, <2>2, <1>3, <1>4, <1>5
    <3>3. CASE n # m /\ p # m
      BY <3>3, <2>2, <1>2, <1>4, <1>5 DEF BitsKept
    <3> QED BY <3>1, <3>2, <3>3
  <2>3. UsedBits \subseteq UsedBits'
    <3> SUFFICES ASSUME NEW c \in UsedBits PROVE c \in UsedBits'
      OBVIOUS
    <3>1. PICK n \in CapMod : caps[n] # 0 /\ c = capObj[caps[n]].bit
      BY DEF UsedBits
    <3>2. n # m
      BY <3>1, <1>1
    <3>3. caps'[n] # 0 /\ c = capObj'[caps'[n]].bit
      BY <3>1, <3>2, <1>4, <1>5
    <3> QED BY <3>3 DEF UsedBits
  <2>4. \A u \in CapUser : usercaps'[u] \subseteq UsedBits'
    BY <2>3, <1>2 DEF BitsKept
  <2> QED BY <2>1, <2>2, <2>4 DEF BitsKept
<1>8. ASSUME NEW u \in CapUser PROVE Enabled(u)' = Enabled(u)
  <2>1. b \notin usercaps[u] /\ usercaps'[u] = usercaps[u]
    BY <1>2, <1>3 DEF BitsKept
  <2>2. ASSUME NEW n \in CapMod
        PROVE  (caps'[n] # 0 /\ capObj'[caps'[n]].bit \in usercaps'[u]) <=> (caps[n] # 0 /\ capObj[caps[n]].bit \in usercaps[u])
    <3>1. CASE n = m
      BY <3>1, <2>1, <1>1, <1>3, <1>4
    <3>2. CASE n # m
      BY <3>2, <2>1, <1>4, <1>5
    <3> QED BY <3>1, <3>2
  <2> QED BY <2>2 DEF Enabled, CapIsEnabled
<1>9. ClientToldRight'
  BY <1>2, <1>8 DEF ClientToldRight
<1> QED BY <1>6, <1>7, <1>9

(* AddCap keeps the invariant when the users keep what they have. *)
LEMMA AddCapInv ==
    ASSUME CapInv, ~crashed, FreeBits # {}, NEW objs, NEW o, SameObjects(objs, o), AddCap(objs, o),
           UNCHANGED <<usercaps, cap302, localUsers, capTold, capMissed, crashed>>
    PROVE  CapInv'
<1>1. CapTypes'
  BY DEF CapInv, CapTypes, Bits
<1>2. MapTypes'
  BY AddCapMap DEF CapInv
<1>3. CapSound'
  BY AddCapSound
<1> QED BY <1>1, <1>2, <1>3 DEF CapInv

(* The new object of a module comes after the others. *)
LEMMA NewObjectSame ==
    ASSUME MapTypes, NEW m \in CapMod
    PROVE  /\ SameObjects(NewObject(m), Len(capObj) + 1) /\ Len(NewObject(m)) = Len(capObj) + 1
           /\ Len(capObj) \in Nat /\ Objects = 1..Len(capObj)
           /\ \A k \in Objects : NewObject(m)[k] = capObj[k] /\ capObj[k] \in CapRec
           /\ NewObject(m)[Len(capObj) + 1] = [mod |-> m, life |-> "loaded", bit |-> 0]
<1> DEFINE r == [mod |-> m, life |-> "loaded", bit |-> 0]
<1>1. r \in CapRec /\ r.mod = m /\ r.bit = 0 /\ r.life = "loaded"
  BY CapAssumption DEF CapRec
<1> HIDE DEF r
<1>2. capObj \in Seq(CapRec)
  BY DEF MapTypes
<1>3. NewObject(m) = Append(capObj, r)
  BY DEF NewObject, r
<1>4. /\ NewObject(m) \in Seq(CapRec) /\ Len(NewObject(m)) = Len(capObj) + 1 /\ Len(capObj) \in Nat
      /\ NewObject(m)[Len(capObj) + 1] = r
      /\ \A k \in 1..Len(capObj) : NewObject(m)[k] = capObj[k] /\ capObj[k] \in CapRec
      /\ Objects = 1..Len(capObj)
  BY <1>1, <1>2, <1>3 DEF Objects
<1>5. SameObjects(NewObject(m), Len(capObj) + 1)
  BY <1>1, <1>4 DEF SameObjects
<1> QED BY <1>4, <1>5 DEF r

(* Loading a module adds a capability object. *)
LEMMA LoadInv ==
    ASSUME CapInv, NEW m \in CapMod, LoadCapModule(m)
    PROVE  CapInv'
<1>1. SameObjects(NewObject(m), Len(capObj) + 1)
  BY NewObjectSame DEF CapInv
<1> QED BY <1>1, AddCapInv DEF LoadCapModule

(* A capability that is switched on is registered. *)
LEMMA SetActiveOnInv ==
    ASSUME CapInv, NEW o \in Objects, SetActiveOn(o)
    PROVE  CapInv'
<1>1. SameObjects(capObj, o)
  BY DEF CapInv, MapTypes, SetActiveOn, SameObjects, Objects
<1> QED BY <1>1, AddCapInv DEF SetActiveOn

(* Reloading: the users of the old object have its bit already. *)
LEMMA ReloadInv ==
    ASSUME CapInv, NEW o \in Objects, ReloadCapModule(o)
    PROVE  CapInv'
<1> DEFINE m == capObj[o].mod
           new == NewObject(m)
           objs == [new EXCEPT ![o].life = "unloaded"]
           users == {u \in localUsers : caps[m] = o /\ CapIsEnabled(o, u)}
           p == Len(capObj) + 1
<1>1. capObj[o] \in CapRec /\ m \in CapMod /\ o \in 1..Len(capObj) /\ Len(capObj) \in Nat /\ o # p /\ o # 0
      /\ capObj[o].life = "loaded" /\ MapTypes
  <2>1. capObj[o] \in CapRec /\ o \in 1..Len(capObj) /\ Len(capObj) \in Nat /\ MapTypes
    BY DEF CapInv, MapTypes, Objects
  <2> QED BY <2>1 DEF CapRec, ReloadCapModule
<1>2. /\ SameObjects(new, p) /\ Len(new) = p /\ new \in Seq(CapRec) /\ new[o] = capObj[o]
      /\ new[p].bit = 0 /\ new[p].life # "dead" /\ new[p].mod = m /\ DOMAIN new = 1..p
      /\ \A k \in 1..p : new[k] \in CapRec
  <2>1. /\ SameObjects(new, p) /\ Len(new) = p /\ Objects = 1..Len(capObj)
        /\ \A k \in Objects : new[k] = capObj[k]
        /\ new[p] = [mod |-> m, life |-> "loaded", bit |-> 0]
    BY <1>1, NewObjectSame
  <2>2. new[p].bit = 0 /\ new[p].life # "dead" /\ new[p].mod = m
    BY <2>1
  <2>3. new \in Seq(CapRec)
    BY <2>1 DEF SameObjects
  <2> HIDE DEF new, m
  <2>4. DOMAIN new = 1..p /\ \A k \in 1..p : new[k] \in CapRec
    BY <2>1, <2>3
  <2> QED BY <1>1, <2>1, <2>2, <2>3, <2>4
<1> HIDE DEF new
<1>3. /\ DOMAIN objs = 1..p /\ \A k \in 1..p : k # o => objs[k] = new[k]
      /\ objs[o] = [new[o] EXCEPT !.life = "unloaded"] /\ o \in 1..p
  BY <1>1, <1>2
<1>4. objs[o] \in CapRec /\ objs[o].mod = new[o].mod /\ objs[o].bit = new[o].bit /\ objs[o].life # "dead"
  BY <1>1, <1>2, <1>3 DEF CapRec
<1>5. objs \in Seq(CapRec) /\ Len(objs) = p
  <2>1. \A k \in 1..p : objs[k] \in CapRec
    BY <1>2, <1>3, <1>4
  <2>2. objs = [k \in 1..p |-> objs[k]]
    BY <1>2
  <2>3. p \in Nat
    BY <1>1
  <2> HIDE DEF objs, p
  <2> QED BY <2>1, <2>2, <2>3
<1> HIDE DEF objs
<1>6. SameObjects(objs, p)
  <2>1. Objects = 1..Len(capObj)
    BY <1>1 DEF MapTypes, Objects
  <2>2. \A k \in Objects : /\ objs[k].mod = capObj[k].mod /\ objs[k].bit = capObj[k].bit
                           /\ capObj[k].life # "dead" => objs[k].life # "dead"
    <3> SUFFICES ASSUME NEW k \in Objects
                 PROVE  /\ objs[k].mod = capObj[k].mod /\ objs[k].bit = capObj[k].bit
                        /\ capObj[k].life # "dead" => objs[k].life # "dead"
      OBVIOUS
    <3>1. CASE k = o
      BY <3>1, <1>2, <1>4
    <3>2. CASE k # o
      <4>1. k \in 1..p
        BY <2>1, <1>1
      <4>2. objs[k] = new[k]
        BY <4>1, <3>2, <1>3
      <4> QED BY <4>2, <1>2 DEF SameObjects
    <3> QED BY <3>1, <3>2
  <2>3. \A k \in 1..p : k \notin Objects => k = p
    BY <2>1, <1>1
  <2>4. p \in 1..p /\ Len(capObj) <= p
    BY <1>1
  <2>5. objs[p] = new[p]
    BY <2>4, <1>1, <1>3
  <2> HIDE DEF p, m
  <2> QED BY <2>2, <2>3, <2>4, <2>5, <1>2, <1>5 DEF SameObjects
<1>7. /\ ~crashed /\ FreeBits # {} /\ AddCap(objs, p)
      /\ usercaps' = [u \in CapUser |-> IF u \in users THEN usercaps[u] \cup {capObj'[caps'[m]].bit} ELSE usercaps[u]]
      /\ UNCHANGED <<cap302, localUsers, capTold, capMissed, crashed>>
  BY <1>5 DEF ReloadCapModule, objs, new
<1>8. objs[p].mod = m
  BY <1>1, <1>2, <1>3
<1>9. MapTypes'
  BY <1>1, <1>6, <1>7, AddCapMap
<1>10. usercaps' = usercaps
  <2>1. ASSUME NEW u \in CapUser, u \in users PROVE capObj'[caps'[m]].bit \in usercaps[u]
    <3>1. caps[m] = o /\ capObj[o].bit \in usercaps[u]
      BY <2>1 DEF CapIsEnabled
    <3>2. caps'[m] = o
      BY <3>1, <1>1, <1>7, <1>8 DEF AddCap, MapTypes
    <3>3. capObj'[o].bit = capObj[o].bit
      BY <1>1, <1>6, <1>7, AddCapObjects DEF Objects
    <3> QED BY <3>1, <3>2, <3>3
  <2>2. \A u \in CapUser : (IF u \in users THEN usercaps[u] \cup {capObj'[caps'[m]].bit} ELSE usercaps[u]) = usercaps[u]
    BY <2>1
  <2>3. usercaps = [u \in CapUser |-> usercaps[u]]
    BY DEF CapInv, CapTypes
  <2> HIDE DEF users
  <2> QED BY <2>2, <2>3, <1>7
<1> QED BY <1>6, <1>7, <1>10, AddCapInv

(* Unloading: nothing that the invariant speaks of. *)
LEMMA UnloadInv ==
    ASSUME CapInv, NEW o \in Objects, UnloadCapModule(o)
    PROVE  CapInv'
<1>1. /\ capObj \in Seq(CapRec) /\ Objects = 1..Len(capObj) /\ Len(capObj) \in Nat /\ DOMAIN capObj = Objects
      /\ \A k \in Objects : capObj[k] \in CapRec
  BY DEF CapInv, MapTypes, Objects
<1>2. capObj' = [capObj EXCEPT ![o].life = "unloaded"] /\ capObj[o].life = "loaded" /\ ~crashed
  BY DEF UnloadCapModule
<1>3. /\ DOMAIN capObj' = Objects /\ \A k \in Objects : k # o => capObj'[k] = capObj[k]
      /\ capObj'[o] = [capObj[o] EXCEPT !.life = "unloaded"]
  BY <1>1, <1>2
<1>4. capObj'[o] \in CapRec /\ capObj'[o].mod = capObj[o].mod /\ capObj'[o].bit = capObj[o].bit /\ capObj'[o].life # "dead"
  BY <1>1, <1>3 DEF CapRec
<1>5. capObj' \in Seq(CapRec) /\ Len(capObj') = Len(capObj) /\ Objects' = Objects
  <2>1. \A k \in Objects : capObj'[k] \in CapRec
    BY <1>1, <1>3, <1>4
  <2>2. capObj' = [k \in Objects |-> capObj'[k]]
    BY <1>1, <1>2
  <2>3. capObj' \in Seq(CapRec) /\ Len(capObj') = Len(capObj)
    BY <2>1, <2>2, <1>1
  <2> QED BY <2>3, <1>3 DEF Objects
<1>6. \A k \in Objects : /\ capObj'[k].mod = capObj[k].mod /\ capObj'[k].bit = capObj[k].bit
                         /\ capObj[k].life # "dead" => capObj'[k].life # "dead"
  BY <1>3, <1>4
<1>7. UNCHANGED <<caps, usercaps, cap302, localUsers, capTold, capMissed, displaced, crashed>>
  BY DEF UnloadCapModule
<1>8. \A m \in CapMod : caps[m] # 0 => caps[m] \in Objects
  BY <1>1 DEF CapInv, MapTypes
<1>9. CapTypes'
  BY <1>7 DEF CapInv, CapTypes, Bits
<1>10. MapTypes'
  <2>1. MapSound'
    BY <1>2, <1>6, <1>7, <1>8 DEF CapInv, MapTypes, MapSound
  <2> QED BY <2>1, <1>5, <1>7 DEF CapInv, MapTypes
<1>11. CapSound'
  <2> SUFFICES ASSUME displaced = {} PROVE Found' /\ BitsKept' /\ ClientToldRight'
    BY <1>7 DEF CapSound
  <2>1. Found /\ BitsKept /\ ClientToldRight
    BY <1>2 DEF CapInv, CapSound
  <2>2. Found'
    BY <2>1, <1>5, <1>6, <1>7 DEF Found
  <2>3. UsedBits' = UsedBits
    BY <1>6, <1>7, <1>8 DEF UsedBits
  <2>4. BitsKept'
    BY <2>1, <2>3, <1>6, <1>7, <1>8 DEF BitsKept
  <2>5. \A u \in CapUser : Enabled(u)' = Enabled(u)
    BY <1>6, <1>7, <1>8 DEF Enabled, CapIsEnabled
  <2>6. ClientToldRight'
    BY <2>1, <2>5, <1>7 DEF ClientToldRight
  <2> QED BY <2>2, <2>4, <2>6
<1> QED BY <1>9, <1>10, <1>11 DEF CapInv

(* The object o loses its bit, the others stay as they are *)
BitCleared(o) ==
    /\ capObj' \in Seq(CapRec) /\ Len(capObj') = Len(capObj) /\ Objects' = Objects
    /\ capObj'[o].bit = 0 /\ capObj'[o].mod = capObj[o].mod
    /\ \A k \in Objects : k # o => capObj'[k] = capObj[k]

(* DelCap: nobody keeps the bit, and the name leaves the map. *)
LEMMA DelCapInv ==
    ASSUME CapInv, ~crashed, NEW o \in Objects, capObj[o].bit # 0, BitCleared(o), DelCap(o),
           UNCHANGED <<cap302, localUsers, displaced>>
    PROVE  CapInv'
<1> DEFINE m == capObj[o].mod
           b == capObj[o].bit
           hears == {u \in localUsers : Notifies(o) /\ Notified(u)}
<1>1. capObj[o] \in CapRec /\ o # 0 /\ Len(capObj) \in Nat /\ Objects = 1..Len(capObj)
  BY DEF CapInv, MapTypes, Objects
<1>2. m \in CapMod
  BY <1>1 DEF CapRec
<1>3. /\ usercaps' = [u \in CapUser |-> IF u \in localUsers THEN usercaps[u] \ {b} ELSE usercaps[u]]
      /\ caps' = [caps EXCEPT ![m] = 0]
      /\ capTold' = [u \in CapUser |-> IF u \in hears THEN capTold[u] \ {m} ELSE capTold[u]]
      /\ capMissed' = [u \in CapUser |-> IF u \in hears THEN capMissed[u] \ {m}
                                        ELSE capMissed[u] \cup (capTold[u] \cap {m})]
  BY DEF DelCap, TurnedOff
<1>4. caps \in [CapMod -> 0..Len(capObj)] /\ MapSound
  BY DEF CapInv, MapTypes
<1>5. caps'[m] = 0 /\ \A n \in CapMod : n # m => caps'[n] = caps[n]
  BY <1>2, <1>3, <1>4
<1>6. ASSUME NEW n \in CapMod, n # m, caps[n] # 0
      PROVE  caps[n] \in Objects /\ caps[n] # o /\ capObj'[caps[n]] = capObj[caps[n]]
  <2>1. caps[n] \in Objects
    BY <1>6, <1>1, <1>4
  <2>2. caps[n] # o
    BY <1>6, <1>4 DEF MapSound
  <2> QED BY <2>1, <2>2 DEF BitCleared
<1>7. CapTypes'
  <2> HIDE DEF hears, b, m
  <2>1. usercaps' \in [CapUser -> SUBSET Bits]
    BY <1>3 DEF CapInv, CapTypes, Bits
  <2>2. capTold' \in [CapUser -> SUBSET CapMod] /\ capMissed' \in [CapUser -> SUBSET CapMod]
    BY <1>2, <1>3 DEF CapInv, CapTypes
  <2>3. \A u \in CapUser \ localUsers : usercaps'[u] = {}
    BY <1>3 DEF CapInv, CapTypes
  <2> QED BY <2>1, <2>2, <2>3 DEF CapInv, CapTypes, Bits
<1>8. MapTypes'
  <2>1. caps' \in [CapMod -> 0..Len(capObj')]
    BY <1>1, <1>2, <1>3, <1>4 DEF BitCleared
  <2>2. MapSound'
    BY <1>4, <1>5, <1>6 DEF MapSound
  <2> QED BY <2>1, <2>2 DEF CapInv, MapTypes, BitCleared
<1>9. CapSound'
  <2> SUFFICES ASSUME displaced = {} PROVE Found' /\ BitsKept' /\ ClientToldRight'
    BY DEF CapSound
  <2>1. Found /\ BitsKept /\ ClientToldRight
    BY DEF CapInv, CapSound
  <2>2. caps[m] = o
    BY <2>1 DEF Found
  <2>3. Found'
    <3> SUFFICES ASSUME NEW k \in Objects, capObj'[k].bit # 0 PROVE caps'[capObj'[k].mod] = k
      BY DEF Found, BitCleared
    <3>1. k # o /\ capObj'[k] = capObj[k]
      BY DEF BitCleared
    <3>2. capObj[k] \in CapRec
      BY DEF CapInv, MapTypes, Objects
    <3>3. caps[capObj[k].mod] = k /\ capObj[k].mod \in CapMod
      BY <3>1, <3>2, <2>1 DEF Found, CapRec
    <3>4. capObj[k].mod # m
      BY <3>1, <3>3, <2>2
    <3> QED BY <3>1, <3>3, <3>4, <1>5
  <2>4. ASSUME NEW n \in CapMod, n # m, caps[n] # 0 PROVE capObj[caps[n]].bit # b
    BY <2>4, <2>1, <2>2, <1>1, <1>2 DEF BitsKept
  <2>5. ASSUME NEW u \in CapUser
        PROVE  b \notin usercaps'[u] /\ \A c : c # b => (c \in usercaps'[u] <=> c \in usercaps[u])
    <3>1. CASE u \in localUsers
      BY <3>1, <1>3
    <3>2. CASE u \notin localUsers
      BY <3>2, <1>3 DEF CapInv, CapTypes
    <3> QED BY <3>1, <3>2
  <2>6. BitsKept'
    <3>1. \A n \in CapMod : caps'[n] # 0 => capObj'[caps'[n]].life # "dead" /\ capObj'[caps'[n]].bit # 0
      BY <1>5, <1>6, <2>1 DEF BitsKept
    <3>2. \A n, p \in CapMod : caps'[n] # 0 /\ caps'[p] # 0 /\ n # p => capObj'[caps'[n]].bit # capObj'[caps'[p]].bit
      BY <1>5, <1>6, <2>1 DEF BitsKept
    <3>3. ASSUME NEW u \in CapUser, NEW c \in usercaps'[u] PROVE c \in UsedBits'
      <4>1. c # b /\ c \in UsedBits
        BY <3>3, <2>1, <2>5 DEF BitsKept
      <4>2. PICK n \in CapMod : caps[n] # 0 /\ c = capObj[caps[n]].bit
        BY <4>1 DEF UsedBits
      <4>3. n # m
        BY <4>1, <4>2, <2>2
      <4>4. caps'[n] # 0 /\ c = capObj'[caps'[n]].bit
        BY <4>2, <4>3, <1>5, <1>6
      <4> QED BY <4>4 DEF UsedBits
    <3> QED BY <3>1, <3>2, <3>3 DEF BitsKept
  <2>7. ASSUME NEW u \in CapUser PROVE Enabled(u)' = Enabled(u) \ {m}
    <3>1. ASSUME NEW n \in CapMod
          PROVE  (caps'[n] # 0 /\ capObj'[caps'[n]].bit \in usercaps'[u])
                 <=> (n # m /\ caps[n] # 0 /\ capObj[caps[n]].bit \in usercaps[u])
      <4>1. CASE n = m
        BY <4>1, <1>5
      <4>2. CASE n # m
        BY <4>2, <1>5, <1>6, <2>4, <2>5
      <4> QED BY <4>1, <4>2
    <3> HIDE DEF m
    <3> QED BY <3>1 DEF Enabled, CapIsEnabled
  <2>8. ASSUME NEW u \in CapUser PROVE capTold'[u] \ capMissed'[u] = (capTold[u] \ capMissed[u]) \ {m}
    <3> HIDE DEF m, hears
    <3>1. CASE u \in hears
      BY <3>1, <1>3
    <3>2. CASE u \notin hears
      BY <3>2, <1>3
    <3> QED BY <3>1, <3>2
  <2>9. ClientToldRight'
    BY <2>1, <2>7, <2>8 DEF ClientToldRight
  <2> QED BY <2>3, <2>6, <2>9
<1> QED BY <1>7, <1>8, <1>9 DEF CapInv

(* A capability that is switched off is taken from its users. *)
LEMMA SetActiveOffInv ==
    ASSUME CapInv, NEW o \in Objects, SetActiveOff(o)
    PROVE  CapInv'
<1>1. /\ capObj \in Seq(CapRec) /\ Objects = 1..Len(capObj) /\ Len(capObj) \in Nat
      /\ \A k \in Objects : capObj[k] \in CapRec
  BY DEF CapInv, MapTypes, Objects
<1>2. capObj' = [capObj EXCEPT ![o].bit = 0]
  BY DEF SetActiveOff
<1>3. /\ DOMAIN capObj' = Objects /\ \A k \in Objects : k # o => capObj'[k] = capObj[k]
      /\ capObj'[o] = [capObj[o] EXCEPT !.bit = 0]
  BY <1>1, <1>2 DEF Objects
<1>4. capObj'[o] \in CapRec /\ capObj'[o].mod = capObj[o].mod /\ capObj'[o].bit = 0
  <2>1. 0 \in 0..MaxCaps
    BY CapAssumption
  <2>2. capObj[o] \in CapRec
    BY <1>1
  <2> QED BY <2>1, <2>2, <1>3 DEF CapRec
<1>5. capObj' \in Seq(CapRec) /\ Len(capObj') = Len(capObj)
  <2>1. \A k \in Objects : capObj'[k] \in CapRec
    BY <1>1, <1>3, <1>4
  <2>2. capObj' = [k \in Objects |-> capObj'[k]]
    BY <1>2 DEF Objects
  <2> QED BY <2>1, <2>2, <1>1
<1>6. BitCleared(o)
  BY <1>3, <1>4, <1>5 DEF BitCleared, Objects
<1> QED BY <1>6, DelCapInv DEF SetActiveOff

(* The destruction of a module: it was not registered, or it is taken out. *)
LEMMA DestroyInv ==
    ASSUME CapInv, NEW o \in Objects, DestroyCapModule(o)
    PROVE  CapInv'
<1>1. /\ capObj \in Seq(CapRec) /\ Objects = 1..Len(capObj) /\ Len(capObj) \in Nat
      /\ \A k \in Objects : capObj[k] \in CapRec
  BY DEF CapInv, MapTypes, Objects
<1>2. capObj' = [capObj EXCEPT ![o].life = "dead", ![o].bit = 0] /\ ~crashed
  BY DEF DestroyCapModule
<1>3. /\ DOMAIN capObj' = Objects /\ \A k \in Objects : k # o => capObj'[k] = capObj[k]
      /\ capObj'[o] = [capObj[o] EXCEPT !.life = "dead", !.bit = 0]
  BY <1>1, <1>2 DEF Objects
<1>4. capObj'[o] \in CapRec /\ capObj'[o].mod = capObj[o].mod /\ capObj'[o].bit = 0
  <2>1. 0 \in 0..MaxCaps
    BY CapAssumption
  <2>2. capObj[o] \in CapRec
    BY <1>1
  <2> QED BY <2>1, <2>2, <1>3 DEF CapRec
<1>5. capObj' \in Seq(CapRec) /\ Len(capObj') = Len(capObj)
  <2>1. \A k \in Objects : capObj'[k] \in CapRec
    BY <1>1, <1>3, <1>4
  <2>2. capObj' = [k \in Objects |-> capObj'[k]]
    BY <1>2 DEF Objects
  <2> QED BY <2>1, <2>2, <1>1
<1>6. BitCleared(o)
  BY <1>3, <1>4, <1>5 DEF BitCleared, Objects
<1>7. CASE capObj[o].bit # 0 /\ ~crashed'
  <2>1. DelCap(o) /\ UNCHANGED <<cap302, localUsers, displaced>>
    BY <1>7 DEF DestroyCapModule
  <2> QED BY <2>1, <1>2, <1>6, <1>7, DelCapInv
<1>8. CASE capObj[o].bit = 0 \/ crashed'
  <2>1. UNCHANGED <<caps, usercaps, capTold, capMissed, cap302, localUsers, displaced>>
    BY <1>8 DEF DestroyCapModule
  <2>2. CapTypes'
    BY <2>1 DEF CapInv, CapTypes, Bits
  <2>3. CASE crashed'
    <3>1. MapTypes'
      BY <2>1, <2>3, <1>5 DEF CapInv, MapTypes
    <3> QED BY <3>1, <2>2, <2>3 DEF CapInv, CapSound
  <2>4. CASE ~crashed' /\ capObj[o].bit = 0
    <3>1. \A n \in CapMod : caps[n] # 0 => caps[n] \in Objects /\ capObj'[caps[n]] = capObj[caps[n]]
      BY <2>4, <1>1, <1>2, <1>3 DEF CapInv, MapTypes, MapSound
    <3>2. MapTypes'
      <4>1. MapSound /\ caps' = caps
        BY <2>1, <1>2 DEF CapInv, MapTypes
      <4>2. MapSound'
        BY <4>1, <3>1 DEF MapSound
      <4> QED BY <4>2, <2>1, <1>5 DEF CapInv, MapTypes
    <3>3. CapSound'
      <4> SUFFICES ASSUME displaced = {} PROVE Found' /\ BitsKept' /\ ClientToldRight'
        BY <2>1 DEF CapSound
      <4>1. Found /\ BitsKept /\ ClientToldRight
        BY <1>2 DEF CapInv, CapSound
      <4>2. Found'
        BY <4>1, <2>1, <1>6 DEF Found, BitCleared
      <4>3. UsedBits' = UsedBits
        BY <2>1, <3>1 DEF UsedBits
      <4>4. BitsKept'
        BY <4>1, <4>3, <2>1, <3>1 DEF BitsKept
      <4>5. \A u \in CapUser : Enabled(u)' = Enabled(u)
        BY <2>1, <3>1 DEF Enabled, CapIsEnabled
      <4>6. ClientToldRight'
        BY <4>1, <4>5, <2>1 DEF ClientToldRight
      <4> QED BY <4>2, <4>4, <4>6
    <3> QED BY <2>2, <3>2, <3>3 DEF CapInv
  <2> QED BY <1>8, <2>3, <2>4
<1> QED BY <1>7, <1>8

(* A step of a client: the manager and its map stay as they are. *)
LEMMA ClientStep ==
    ASSUME CapInv, ~crashed, UNCHANGED <<capObj, caps, displaced, crashed>>, CapTypes',
           displaced = {} /\ Found /\ BitsKept /\ ClientToldRight
           => /\ \A u \in CapUser : usercaps'[u] \subseteq UsedBits
              /\ ClientToldRight'
    PROVE  CapInv'
<1>1. MapTypes'
  BY DEF CapInv, MapTypes, MapSound
<1>2. CapSound'
  <2> SUFFICES ASSUME displaced = {} PROVE Found' /\ BitsKept' /\ ClientToldRight'
    BY DEF CapSound
  <2>1. Found /\ BitsKept /\ ClientToldRight
    BY DEF CapInv, CapSound
  <2>2. UsedBits' = UsedBits
    BY DEF UsedBits
  <2>3. Found'
    BY <2>1 DEF Found, Objects
  <2>4. BitsKept'
    BY <2>1, <2>2 DEF BitsKept
  <2> QED BY <2>1, <2>3, <2>4
<1> QED BY <1>1, <1>2 DEF CapInv

(* A registered capability has a bit of its own. *)
LEMMA BitOfRegistered ==
    ASSUME CapInv, ~crashed, NEW m \in CapMod, caps[m] # 0
    PROVE  BitOf(m) \in Bits /\ BitOf(m) \in UsedBits
<1>1. caps[m] \in 1..Len(capObj) /\ capObj \in Seq(CapRec) /\ BitOf(m) # 0
  BY DEF CapInv, MapTypes, MapSound, BitOf
<1>2. capObj[caps[m]] \in CapRec
  BY <1>1
<1>3. BitOf(m) \in 0..MaxCaps
  BY <1>2 DEF CapRec, BitOf
<1>4. BitOf(m) \in Bits
  BY <1>1, <1>3, CapAssumption DEF Bits
<1> QED BY <1>4 DEF UsedBits, BitOf

(* A new client has no capabilities. *)
LEMMA ConnectsInv ==
    ASSUME CapInv, NEW u \in CapUser, Connects(u)
    PROVE  CapInv'
<1>1. CapTypes'
  BY DEF CapInv, CapTypes, Connects, Bits
<1>2. \A v \in CapUser : Enabled(v)' = Enabled(v)
  BY DEF Connects, Enabled, CapIsEnabled
<1> QED BY <1>1, <1>2, ClientStep DEF Connects, ClientToldRight, BitsKept

(* A client that leaves has none left. *)
LEMMA QuitsInv ==
    ASSUME CapInv, NEW u \in CapUser, Quits(u)
    PROVE  CapInv'
<1>1. CapTypes
  BY DEF CapInv
<1>2. /\ usercaps'[u] = {} /\ capTold'[u] = {} /\ capMissed'[u] = {} /\ cap302'[u] = FALSE
      /\ \A v \in CapUser : v # u => /\ usercaps'[v] = usercaps[v] /\ capTold'[v] = capTold[v]
                                     /\ capMissed'[v] = capMissed[v] /\ cap302'[v] = cap302[v]
      /\ localUsers' = localUsers \ {u}
  BY <1>1 DEF CapTypes, Quits
<1>3. CapTypes'
  <2>1. usercaps' \in [CapUser -> SUBSET Bits] /\ capTold' \in [CapUser -> SUBSET CapMod] /\ capMissed' \in [CapUser -> SUBSET CapMod]
    BY <1>1 DEF CapTypes, Quits, Bits
  <2>2. cap302' \in [CapUser -> BOOLEAN] /\ localUsers' \subseteq CapUser
    BY <1>1 DEF CapTypes, Quits
  <2> QED BY <2>1, <2>2, <1>1, <1>2 DEF CapTypes, Bits
<1>4. \A v \in CapUser : v # u => Enabled(v)' = Enabled(v)
  BY <1>2 DEF Quits, Enabled, CapIsEnabled
<1>5. Enabled(u)' = {}
  BY <1>2 DEF Enabled, CapIsEnabled
<1>6. ASSUME ClientToldRight PROVE ClientToldRight'
  BY <1>2, <1>4, <1>5, <1>6 DEF ClientToldRight
<1>7. ASSUME BitsKept, NEW v \in CapUser PROVE usercaps'[v] \subseteq UsedBits
  BY <1>2, <1>7 DEF BitsKept
<1> QED BY <1>3, <1>6, <1>7, ClientStep DEF Quits

(* CAP LIST tells what the client has. *)
LEMMA CapListInv ==
    ASSUME CapInv, NEW u \in CapUser, CapList(u)
    PROVE  CapInv'
<1>1. CapTypes
  BY DEF CapInv
<1>2. Enabled(u) \subseteq CapMod
  BY DEF Enabled
<1>3. CapTypes'
  BY <1>1, <1>2 DEF CapTypes, CapList, Bits
<1>4. \A v \in CapUser : Enabled(v)' = Enabled(v)
  BY DEF CapList, Enabled, CapIsEnabled
<1>5. /\ capTold'[u] = Enabled(u) /\ capMissed'[u] = {}
      /\ \A v \in CapUser : v # u => capTold'[v] = capTold[v] /\ capMissed'[v] = capMissed[v]
  BY <1>1 DEF CapTypes, CapList
<1>6. ASSUME ClientToldRight PROVE ClientToldRight'
  BY <1>4, <1>5, <1>6 DEF ClientToldRight
<1> QED BY <1>3, <1>6, ClientStep DEF CapList, BitsKept

(* CAP CLEAR takes everything from a client of the first version. *)
LEMMA CapClearInv ==
    ASSUME CapInv, NEW u \in CapUser, CapClear(u)
    PROVE  CapInv'
<1>1. CapTypes /\ ~crashed /\ UNCHANGED <<capObj, caps, cap302, localUsers, capMissed, displaced, crashed>>
  BY DEF CapInv, CapClear
<1>2. CASE UNCHANGED <<usercaps, capTold>>
  <2>1. CapTypes'
    BY <1>1, <1>2 DEF CapTypes, Bits
  <2>2. \A v \in CapUser : Enabled(v)' = Enabled(v)
    BY <1>1, <1>2 DEF Enabled, CapIsEnabled
  <2> QED BY <1>1, <1>2, <2>1, <2>2, ClientStep DEF ClientToldRight, BitsKept
<1>3. CASE /\ usercaps' = [usercaps EXCEPT ![u] = {}]
           /\ capTold' = [capTold EXCEPT ![u] = @ \ Enabled(u)]
  <2>1. /\ usercaps'[u] = {} /\ capTold'[u] = capTold[u] \ Enabled(u)
        /\ \A v \in CapUser : v # u => usercaps'[v] = usercaps[v] /\ capTold'[v] = capTold[v]
    BY <1>1, <1>3 DEF CapTypes
  <2>2. CapTypes'
    <3>1. usercaps' \in [CapUser -> SUBSET Bits] /\ capTold' \in [CapUser -> SUBSET CapMod]
      BY <1>1, <1>3 DEF CapTypes
    <3> QED BY <3>1, <2>1, <1>1 DEF CapTypes, Bits
  <2>3. Enabled(u)' = {}
    BY <2>1 DEF Enabled, CapIsEnabled
  <2>4. \A v \in CapUser : v # u => Enabled(v)' = Enabled(v)
    BY <2>1, <1>1 DEF Enabled, CapIsEnabled
  <2>5. ASSUME ClientToldRight PROVE ClientToldRight'
    <3>1. \A v \in CapUser : v # u => Enabled(v)' = capTold'[v] \ capMissed'[v]
      BY <2>1, <2>4, <2>5, <1>1 DEF ClientToldRight
    <3>2. capTold'[u] \ capMissed'[u] = {}
      BY <2>1, <2>5, <1>1 DEF ClientToldRight
    <3> QED BY <3>1, <3>2, <2>3 DEF ClientToldRight
  <2>6. ASSUME BitsKept, NEW v \in CapUser PROVE usercaps'[v] \subseteq UsedBits
    BY <2>1, <2>6 DEF BitsKept
  <2> QED BY <1>1, <2>2, <2>5, <2>6, ClientStep
<1> QED BY <1>2, <1>3 DEF CapClear

(* CAP LS turns cap-notify on, and nothing else. *)
LEMMA CapLsInv ==
    ASSUME CapInv, NEW u \in CapUser, NEW w \in BOOLEAN, CapLs(u, w)
    PROVE  CapInv'
<1> DEFINE is302 == cap302[u] \/ w
           implied == IF is302 /\ caps[Notify] # 0 THEN {Notify} ELSE {}
           bits == {capObj[caps[m]].bit : m \in implied}
<1>1. /\ CapTypes /\ ~crashed /\ u \in localUsers
      /\ UNCHANGED <<capObj, caps, localUsers, displaced, crashed>>
      /\ cap302' = [cap302 EXCEPT ![u] = is302]
      /\ usercaps' = [usercaps EXCEPT ![u] = @ \cup bits]
      /\ capTold' = [capTold EXCEPT ![u] = @ \cup implied]
      /\ capMissed' = [capMissed EXCEPT ![u] = @ \ implied]
  BY DEF CapInv, CapLs
<1>2. implied \subseteq CapMod /\ \A m \in implied : m = Notify /\ caps[m] # 0
  BY CapAssumption
<1>3. bits \subseteq Bits /\ bits \subseteq UsedBits
  BY <1>1, <1>2, BitOfRegistered DEF BitOf
<1> HIDE DEF implied, is302
<1>4. \A c : c \in bits <=> \E m \in implied : c = BitOf(m)
  BY DEF BitOf
<1> HIDE DEF bits
<1>5. /\ usercaps'[u] = usercaps[u] \cup bits /\ capTold'[u] = capTold[u] \cup implied
      /\ capMissed'[u] = capMissed[u] \ implied
      /\ \A v \in CapUser : v # u => /\ usercaps'[v] = usercaps[v] /\ capTold'[v] = capTold[v]
                                     /\ capMissed'[v] = capMissed[v]
  BY <1>1 DEF CapTypes
<1>6. CapTypes'
  <2>1. usercaps' \in [CapUser -> SUBSET Bits] /\ capTold' \in [CapUser -> SUBSET CapMod] /\ capMissed' \in [CapUser -> SUBSET CapMod]
    BY <1>1, <1>2, <1>3 DEF CapTypes, Bits
  <2>2. cap302' \in [CapUser -> BOOLEAN] /\ \A v \in CapUser : v # u => cap302'[v] = cap302[v]
    BY <1>1 DEF CapTypes, is302
  <2> QED BY <2>1, <2>2, <1>1, <1>5 DEF CapTypes, Bits
<1>7. ASSUME BitsKept PROVE Enabled(u)' = Enabled(u) \cup implied
  <2>1. ASSUME NEW n \in CapMod, caps[n] # 0
        PROVE  BitOf(n) \in bits <=> n \in implied
    BY <2>1, <1>2, <1>4, <1>7 DEF BitsKept, BitOf
  <2>2. ASSUME NEW n \in CapMod
        PROVE  (caps[n] # 0 /\ BitOf(n) \in usercaps'[u]) <=> ((caps[n] # 0 /\ BitOf(n) \in usercaps[u]) \/ n \in implied)
    BY <2>1, <1>2, <1>5
  <2> QED BY <2>2, <1>1, <1>2 DEF Enabled, CapIsEnabled, BitOf
<1>8. \A v \in CapUser : v # u => Enabled(v)' = Enabled(v)
  BY <1>1, <1>5 DEF Enabled, CapIsEnabled
<1>9. ASSUME BitsKept, ClientToldRight PROVE ClientToldRight'
  <2>1. \A v \in CapUser : v # u => Enabled(v)' = capTold'[v] \ capMissed'[v]
    BY <1>5, <1>8, <1>9 DEF ClientToldRight
  <2>2. Enabled(u) \cup implied = capTold'[u] \ capMissed'[u]
    <3>1. Enabled(u) = capTold[u] \ capMissed[u]
      BY <1>9 DEF ClientToldRight
    <3> QED BY <3>1, <1>5
  <2>3. Enabled(u)' = capTold'[u] \ capMissed'[u]
    BY <2>2, <1>7, <1>9
  <2> QED BY <2>1, <2>3 DEF ClientToldRight
<1>10. ASSUME BitsKept, NEW v \in CapUser PROVE usercaps'[v] \subseteq UsedBits
  BY <1>3, <1>5, <1>10 DEF BitsKept
<1> QED BY <1>1, <1>6, <1>9, <1>10, ClientStep

(* CAP REQ: what the loop over the tokens leaves in the mask is what the   *)
(* client concludes from the acknowledged request.                         *)
LEMMA CapReqInv ==
    ASSUME CapInv, NEW u \in CapUser, NEW req \in CapRequests, CapReq(u, req)
    PROVE  CapInv'
<1> DEFINE last(m) == CHOOSE k \in DOMAIN req :
                          req[k].cap = m /\ \A j \in DOMAIN req : req[j].cap = m => j <= k
           named == {req[k].cap : k \in DOMAIN req}
           added == {m \in named : ~req[last(m)].remove}
           mask == ReqMasks(u, req)[Len(req)]
<1>1. CapTypes /\ ~crashed /\ UNCHANGED <<capObj, caps, cap302, localUsers, displaced, crashed>> /\ u \in localUsers
  BY DEF CapInv, CapReq
<1>2. CASE UNCHANGED <<usercaps, capTold, capMissed>>
  <2>1. CapTypes'
    BY <1>1, <1>2 DEF CapTypes, Bits
  <2>2. \A v \in CapUser : Enabled(v)' = Enabled(v)
    BY <1>1, <1>2 DEF Enabled, CapIsEnabled
  <2> QED BY <1>1, <1>2, <2>1, <2>2, ClientStep DEF ClientToldRight, BitsKept
<1>3. CASE /\ \A k \in DOMAIN req : caps[req[k].cap] # 0
           /\ usercaps' = [usercaps EXCEPT ![u] = mask]
           /\ capTold' = [capTold EXCEPT ![u] = (@ \ named) \cup added]
           /\ capMissed' = [capMissed EXCEPT ![u] = @ \ named]
  <2>1. /\ Len(req) \in Nat /\ DOMAIN req = 1..Len(req)
        /\ \A k \in 1..Len(req) : req[k] \in [cap : CapMod, remove : BOOLEAN]
    <3> DEFINE T == [cap : CapMod, remove : BOOLEAN]
    <3>1. req \in Seq(T)
      BY CapAssumption
    <3> HIDE DEF T
    <3>2. Len(req) \in Nat /\ DOMAIN req = 1..Len(req) /\ \A k \in 1..Len(req) : req[k] \in T
      BY <3>1
    <3> QED BY <3>2 DEF T
  <2>2. \A k \in 1..Len(req) : req[k].cap \in CapMod /\ caps[req[k].cap] # 0
    BY <2>1, <1>3
  <2>3. \A b : b \in mask <=> InMask(u, req, Len(req), b)
    <3>1. Len(req) \in 0..Len(req)
      BY <2>1
    <3> QED BY <3>1, <2>1, MaskMeaning
  <2>4. \A k \in 1..Len(req) : BitOf(req[k].cap) \in Bits /\ BitOf(req[k].cap) \in UsedBits
    BY <2>2, <1>1, BitOfRegistered
  <2>5. ASSUME NEW b \in mask
        PROVE  b \in usercaps[u] \/ (b \in Bits /\ b \in UsedBits)
    BY <2>3, <2>4, <2>5 DEF InMask, LastOf
  <2>6. named \subseteq CapMod /\ added \subseteq named /\ \A m \in CapMod : m \in named <=> \E k \in 1..Len(req) : req[k].cap = m
    BY <2>1, <2>2
  <2>7. ASSUME NEW m \in named
        PROVE  /\ last(m) \in 1..Len(req) /\ req[last(m)].cap = m
               /\ \A j \in 1..Len(req) : req[j].cap = m => j <= last(m)
    <3>1. PICK i \in 1..Len(req) : req[i].cap = m
      BY <2>1, <2>7
    <3>2. \E k \in 1..Len(req) : req[k].cap = m /\ \A j \in 1..Len(req) : req[j].cap = m => j <= k
      BY <2>1, <3>1, LastToken
    <3> QED BY <3>2, <2>1
  <2>8. \A m \in named : m \in added <=> ~req[last(m)].remove
    OBVIOUS
  <2> HIDE DEF mask, named, added, last
  <2>9. /\ usercaps'[u] = mask /\ capTold'[u] = (capTold[u] \ named) \cup added
        /\ capMissed'[u] = capMissed[u] \ named
        /\ \A v \in CapUser : v # u => /\ usercaps'[v] = usercaps[v] /\ capTold'[v] = capTold[v]
                                       /\ capMissed'[v] = capMissed[v]
    BY <1>1, <1>3 DEF CapTypes
  <2>10. CapTypes'
    <3>1. mask \subseteq Bits
      BY <2>5, <1>1 DEF CapTypes
    <3>2. usercaps' \in [CapUser -> SUBSET Bits]
      BY <3>1, <1>1, <1>3 DEF CapTypes
    <3>3. capTold' \in [CapUser -> SUBSET CapMod] /\ capMissed' \in [CapUser -> SUBSET CapMod]
      BY <2>6, <1>1, <1>3 DEF CapTypes
    <3> QED BY <3>2, <3>3, <2>9, <1>1 DEF CapTypes, Bits
  <2>11. ASSUME BitsKept, NEW v \in CapUser PROVE usercaps'[v] \subseteq UsedBits
    BY <2>5, <2>9, <2>11 DEF BitsKept
  <2>12. \A v \in CapUser : v # u => Enabled(v)' = Enabled(v)
    BY <1>1, <2>9 DEF Enabled, CapIsEnabled
  <2>13. ASSUME BitsKept, ClientToldRight, NEW n \in CapMod
         PROVE  (caps[n] # 0 /\ BitOf(n) \in mask) <=> n \in capTold'[u] \ capMissed'[u]
    <3>1. ASSUME NEW k \in 1..Len(req), caps[n] # 0
          PROVE  BitOf(req[k].cap) = BitOf(n) <=> req[k].cap = n
      BY <3>1, <2>2, <2>13 DEF BitsKept, BitOf
    <3>2. CASE n \notin named
      <4>1. \A k \in 1..Len(req) : req[k].cap # n
        BY <3>2, <2>6
      <4>2. caps[n] # 0 => (BitOf(n) \in mask <=> BitOf(n) \in usercaps[u])
        BY <4>1, <3>1, <2>3 DEF InMask, LastOf
      <4>3. (caps[n] # 0 /\ BitOf(n) \in usercaps[u]) <=> n \in capTold[u] \ capMissed[u]
        BY <2>13 DEF ClientToldRight, Enabled, CapIsEnabled, BitOf
      <4>4. n \in capTold'[u] \ capMissed'[u] <=> n \in capTold[u] \ capMissed[u]
        BY <3>2, <2>6, <2>9
      <4> QED BY <4>2, <4>3, <4>4
    <3>3. CASE n \in named
      <4>1. caps[n] # 0
        BY <3>3, <2>2, <2>6
      <4>2. n \in capTold'[u] \ capMissed'[u] <=> ~req[last(n)].remove
        BY <3>3, <2>8, <2>9
      <4>3. LastOf(req, Len(req), last(n), BitOf(n))
        <5>1. /\ last(n) \in 1..Len(req) /\ req[last(n)].cap = n
              /\ \A j \in 1..Len(req) : req[j].cap = n => j <= last(n)
          BY <3>3, <2>7
        <5>2. \A i \in 1..Len(req) : last(n) < i => req[i].cap # n
          BY <5>1, <2>1
        <5> QED BY <5>1, <5>2, <4>1, <3>1 DEF LastOf
      <4>4. ASSUME NEW j \in 1..Len(req), LastOf(req, Len(req), j, BitOf(n)) PROVE j = last(n)
        BY <4>3, <4>4, <2>1 DEF LastOf
      <4>5. BitOf(n) \in mask <=> ~req[last(n)].remove
        <5>1. last(n) \in 1..Len(req) /\ BitOf(req[last(n)].cap) = BitOf(n)
          BY <4>3 DEF LastOf
        <5>2. InMask(u, req, Len(req), BitOf(n)) <=> ~req[last(n)].remove
          BY <5>1, <4>3, <4>4 DEF InMask
        <5> QED BY <5>2, <2>3
      <4> QED BY <4>1, <4>2, <4>5
    <3> QED BY <3>2, <3>3
  <2>14. ASSUME BitsKept, ClientToldRight PROVE ClientToldRight'
    <3>1. \A v \in CapUser : v # u => Enabled(v)' = capTold'[v] \ capMissed'[v]
      BY <2>9, <2>12, <2>14 DEF ClientToldRight
    <3>2. Enabled(u)' = {n \in CapMod : caps[n] # 0 /\ BitOf(n) \in mask}
      BY <1>1, <2>9 DEF Enabled, CapIsEnabled, BitOf
    <3>3. capTold'[u] \subseteq CapMod
      BY <2>10 DEF CapTypes
    <3>4. Enabled(u)' = capTold'[u] \ capMissed'[u]
      BY <3>2, <3>3, <2>13, <2>14
    <3> QED BY <3>1, <3>4 DEF ClientToldRight
  <2> QED BY <1>1, <2>10, <2>11, <2>14, ClientStep
<1> QED BY <1>2, <1>3 DEF CapReq

(* There are no capabilities at first. *)
LEMMA CapInvInit == CapInit => CapInv
<1> SUFFICES ASSUME CapInit PROVE CapInv
  OBVIOUS
<1>1. CapTypes
  BY DEF CapInit, CapTypes
<1>2. capObj = <<>> /\ Objects = {} /\ Len(capObj) = 0 /\ \A m \in CapMod : caps[m] = 0
  BY DEF CapInit, Objects
<1>3. MapTypes
  <2>1. MapSound
    BY <1>2 DEF MapSound
  <2>2. caps \in [CapMod -> 0..Len(capObj)] /\ capObj \in Seq(CapRec)
    BY <1>2 DEF CapInit
  <2> QED BY <2>1, <2>2 DEF CapInit, MapTypes
<1>4. Found
  BY <1>2 DEF Found
<1>5. BitsKept
  BY <1>2 DEF CapInit, BitsKept
<1>6. \A u \in CapUser : Enabled(u) = {}
  BY <1>2 DEF Enabled
<1>7. ClientToldRight
  BY <1>6 DEF CapInit, ClientToldRight
<1> QED BY <1>1, <1>3, <1>4, <1>5, <1>7 DEF CapInv, CapSound

(* Every step keeps the invariant. *)
LEMMA CapInvStep == CapInv /\ [CapNext]_capVars => CapInv'
<1> SUFFICES ASSUME CapInv, [CapNext]_capVars PROVE CapInv'
  OBVIOUS
<1>1. ASSUME NEW m \in CapMod, LoadCapModule(m) PROVE CapInv'
  BY <1>1, LoadInv
<1>2. ASSUME NEW o \in Objects,
             \/ UnloadCapModule(o) \/ DestroyCapModule(o) \/ ReloadCapModule(o)
             \/ SetActiveOn(o) \/ SetActiveOff(o)
      PROVE  CapInv'
  BY <1>2, UnloadInv, DestroyInv, ReloadInv, SetActiveOnInv, SetActiveOffInv
<1>3. ASSUME NEW u \in CapUser, Connects(u) \/ Quits(u) \/ CapList(u) \/ CapClear(u) PROVE CapInv'
  BY <1>3, ConnectsInv, QuitsInv, CapListInv, CapClearInv
<1>4. ASSUME NEW u \in CapUser, NEW w \in BOOLEAN, CapLs(u, w) PROVE CapInv'
  BY <1>4, CapLsInv
<1>5. ASSUME NEW u \in CapUser, NEW req \in CapRequests, CapReq(u, req) PROVE CapInv'
  BY <1>5, CapReqInv
<1>6. CASE UNCHANGED capVars
  <2>1. UNCHANGED <<capObj, caps, usercaps, cap302, localUsers, capTold, capMissed, displaced, crashed>>
    BY <1>6 DEF capVars
  <2>2. CapTypes'
    BY <2>1 DEF CapInv, CapTypes, Bits
  <2>3. MapTypes'
    BY <2>1 DEF CapInv, MapTypes, MapSound
  <2>4. CapSound'
    BY <2>1 DEF CapInv, CapSound, Found, Objects, BitsKept, UsedBits, ClientToldRight, Enabled, CapIsEnabled
  <2> QED BY <2>2, <2>3, <2>4 DEF CapInv
<1> QED BY <1>1, <1>2, <1>3, <1>4, <1>5, <1>6 DEF CapNext

(* CapsKept for any number of modules, users, bits and objects: a bit has  *)
(* one owner, users have no bit without an owner, and the clients know     *)
(* what they have, up to the reload that displaces an object and the crash *)
(* of capnotify.                                                           *)
THEOREM CapabilitiesAreKept == CapSpec => []CapsKept
<1>1. CapInv => CapsKept
  <2> SUFFICES ASSUME CapInv PROVE CapsKept
    OBVIOUS
  <2>1. \A o \in Objects : capObj[o] \in CapRec
    BY DEF CapInv, MapTypes, Objects
  <2>2. CapTypeOK
    BY <2>1 DEF CapInv, CapTypes, CapTypeOK, CapRec
  <2> QED BY <2>2 DEF CapInv, CapSound, CapsKept
<1> QED BY <1>1, CapInvInit, CapInvStep, PTL DEF CapSpec
=============================================================================
