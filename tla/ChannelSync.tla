----------------------------- MODULE ChannelSync -----------------------------
(***************************************************************************)
(* One channel on a network of linked servers: its timestamp, members,     *)
(* operators, one simple mode and topic on every server; JOIN, PART, KICK, *)
(* MODE, TOPIC and KILL by users, the server-to-server messages they cause *)
(* (FJOIN, IJOIN, RESYNC, PART, KICK, FMODE, FTOPIC, KILL, QUIT), and the  *)
(* burst of a link that comes up while both sides have the channel.        *)
(*                                                                         *)
(* Links are FIFO and are not lost here.  UID lines of a burst travel as   *)
(* one message.                                                            *)
(***************************************************************************)
EXTENDS Naturals, Sequences, SequencesExt, FiniteSets

CONSTANTS
    Server,
    Path,        \* Path[s][o]: the servers on the way from s to o, o included
    User,
    Home,        \* Home[u]: the server u is connected to
    Topic,       \* topic texts: positive numbers in the order of strings; no setters
    Offset,      \* Offset[s]: how far the clock of s is ahead
    Scenario     \* what a behaviour starts from: linked and linking, the <<s, t>> pairs
                 \* whose link is up or about to come up; users, the users there are;
                 \* bound[op], how often op is done

Op == {"tick", "create", "join", "part", "kick", "mode", "grant", "topic", "kill"}

ASSUME ChannelAssumption ==
    /\ Path \in [Server -> [Server -> SUBSET Server]]
    /\ Home \in [User -> Server]
    /\ IsFiniteSet(User)
    /\ Topic \subseteq Nat \ {0}
    /\ Offset \in [Server -> Nat]
    /\ \A sc \in Scenario :
          /\ \A pairs \in {sc.linked, sc.linking} :
                /\ pairs \subseteq Server \X Server
                /\ \A p \in pairs : <<p[2], p[1]>> \in pairs
          /\ sc.linked \cap sc.linking = {}
          /\ sc.users \subseteq User
          /\ sc.bound \in [Op -> Nat]

VARIABLES
    chan,       \* chan[s]: the channel on s, NoChan when there is none
    known,      \* known[s]: uuidlist of s
    linking,    \* linking[s]: the servers that s is authenticating with
    link,       \* link[s]: the servers that s finished authentication with
    bursting,   \* bursting[s]: servers whose ENDBURST s waits for
    wire,       \* wire[s][t]: lines sent by s and not yet read by t
    currmembid, \* currmembid[s]: the next membership id of s
    now,
    left,       \* left[op]: how often op may still be done
    ages,       \* history: timestamps the channel was created with
    granted,    \* history: <<u, ts>> when u got op under timestamp ts
    races       \* history: which of Race happened

vars == <<chan, known, linking, link, bursting, wire, currmembid, now, left, ages,
          granted, races>>

Time(s) == 1 + now + Offset[s]

-----------------------------------------------------------------------------
(* Channels *)

NotOn == 0      \* no membership; ids start at 1

NoTopic == [ts |-> 0, text |-> 0]

New(ts) == [age |-> ts, memb |-> [u \in User |-> NotOn], op |-> {},
            mode |-> FALSE, topic |-> NoTopic]

NoChan == New(0)

Exists(c) == c.age # 0

Members(c) == {u \in User : c.memb[u] # NotOn}

(* DelUser() and CheckDestroy() *)
RemoveMember(c, u) ==
    IF Members(c) \subseteq {u}
    THEN NoChan
    ELSE [c EXCEPT !.memb[u] = NotOn, !.op = @ \ {u}]

(* QuitUser() and PurgeEmptyChannels(): a channel u is not on stays. *)
Forget(c, u) == IF u \in Members(c) THEN RemoveMember(c, u) ELSE c

(* CommandFJoin::LowerTS: members stay, status, modes and topic go. *)
LowerTSMutant(c, ts) == [c EXCEPT !.age = ts, !.mode = FALSE, !.topic = NoTopic]

LowerTS(c, ts) == [c EXCEPT !.age = ts, !.op = {}, !.mode = FALSE, !.topic = NoTopic]

-----------------------------------------------------------------------------
(* Messages; src is the user or server in the prefix *)

FJOIN(s, c, entries) ==
    [cmd |-> "FJOIN", src |-> s, ts |-> c.age, mode |-> c.mode, entries |-> entries]

Entry(c, u) == [uuid |-> u, op |-> u \in c.op, id |-> c.memb[u]]

FTOPIC(src, c) == [cmd |-> "FTOPIC", src |-> src, cts |-> c.age, topic |-> c.topic]

(* TreeSocket::SyncChannel *)
Sync(s, c) ==
    IF ~Exists(c) THEN <<>>
    ELSE <<FJOIN(s, c, {Entry(c, u) : u \in Members(c)})>>
         \o (IF c.topic.ts # 0 THEN <<FTOPIC(s, c)>> ELSE <<>>)

(* TreeSocket::DoBurst, for users and this channel *)
Burst(s) ==
    <<[cmd |-> "UID", src |-> s, users |-> known[s]]>>
    \o Sync(s, chan[s])
    \o <<[cmd |-> "ENDBURST", src |-> s]>>

SendTo(w, s, T, lines) ==
    [w EXCEPT ![s] = [t \in Server |-> IF t \in T THEN @[t] \o lines ELSE @[t]]]

Broadcast(s, lines) == wire' = SendTo(wire, s, link[s], lines)

Take(s, t) == [wire EXCEPT ![t][s] = Tail(@)]

(* RouteCommand(): on to every neighbour but the one it came from *)
Forward(s, t, m) == wire' = SendTo(Take(s, t), s, link[s] \ {t}, <<m>>)

Drop(s, t) == wire' = Take(s, t)

(* TreeServer::IsBursting of o itself, as seen by s *)
IsBursting(s, o) == o \in bursting[s]

-----------------------------------------------------------------------------
(* What users do *)

Spend(o) == left[o] > 0 /\ left' = [left EXCEPT ![o] = @ - 1]

(* What the timestamps cannot repair, for the properties only: "tie", two  *)
(* creations share a timestamp; "early", a server empties the channel while *)
(* an FJOIN or FMODE of it is in flight; "kick", a KICK crosses a resync;   *)
(* "op", an op given to a membership reaches the user's next one.          *)
Race == {"tie", "early", "kick", "op"}

InFlight(cmds) ==
    \E s, t \in Server : \E i \in 1..Len(wire[s][t]) : wire[s][t][i].cmd \in cmds

Put(s, c) ==
    /\ chan' = [chan EXCEPT ![s] = c]
    /\ races' = IF Exists(chan[s]) /\ ~Exists(c) /\ InFlight({"FJOIN", "FMODE"})
                THEN races \cup {"early"} ELSE races

(* Channel::JoinUser and OnUserJoin; the creator of a channel gets op. *)
CreateChannel(u) ==
    LET s == Home[u]
        c == [New(Time(s)) EXCEPT !.memb[u] = currmembid[s], !.op = {u}]
    IN /\ Spend("create")
       /\ u \in known[s] /\ ~Exists(chan[s])
       /\ races' = IF Time(s) \in ages THEN races \cup {"tie"} ELSE races
       /\ ages' = ages \cup {Time(s)}
       /\ granted' = granted \cup {<<u, Time(s)>>}
       /\ currmembid' = [currmembid EXCEPT ![s] = @ + 1]
       /\ chan' = [chan EXCEPT ![s] = c]
       /\ Broadcast(s, <<FJOIN(s, c, {Entry(c, u)})>>)
       /\ UNCHANGED <<known, linking, link, bursting, now>>

Join(u) ==
    LET s == Home[u]
    IN /\ Spend("join")
       /\ u \in known[s] /\ Exists(chan[s]) /\ u \notin Members(chan[s])
       /\ Put(s, [chan[s] EXCEPT !.memb[u] = currmembid[s]])
       /\ currmembid' = [currmembid EXCEPT ![s] = @ + 1]
       /\ Broadcast(s, <<[cmd |-> "IJOIN", src |-> u, id |-> currmembid[s]]>>)
       /\ UNCHANGED <<known, linking, link, bursting, now, ages, granted>>

Part(u) ==
    LET s == Home[u]
    IN /\ Spend("part")
       /\ u \in Members(chan[s])
       /\ Put(s, RemoveMember(chan[s], u))
       /\ Broadcast(s, <<[cmd |-> "PART", src |-> u]>>)
       /\ UNCHANGED <<known, linking, link, bursting, currmembid, now, ages, granted>>

(* A KICK of a remote user carries the id of the membership it is for; aim, *)
(* for the properties only, is that membership in every case.             *)
Kick(k, u) ==
    LET s == Home[k]
        c == chan[s]
        id == IF Home[u] = s THEN NotOn ELSE c.memb[u]
    IN /\ Spend("kick")
       /\ k \in c.op /\ u \in Members(c) \ {k}
       /\ chan' = [chan EXCEPT ![s] = RemoveMember(c, u)]
       /\ races' = IF InFlight({"FJOIN", "RESYNC"}) THEN races \cup {"kick"} ELSE races
       /\ Broadcast(s, <<[cmd |-> "KICK", src |-> k, uuid |-> u, id |-> id, aim |-> c.memb[u]]>>)
       /\ UNCHANGED <<known, linking, link, bursting, currmembid, now, ages, granted>>

(* MODE: the simple mode is turned on or off, or a member is opped. *)
Mode(k) ==
    LET s == Home[k]
        c == chan[s]
    IN /\ Spend("mode")
       /\ k \in c.op
       /\ Put(s, [c EXCEPT !.mode = ~@])
       /\ Broadcast(s, <<[cmd |-> "FMODE", src |-> k, ts |-> c.age, on |-> ~c.mode]>>)
       /\ UNCHANGED <<known, linking, link, bursting, currmembid, now, ages, granted>>

GrantOp(k, u) ==
    LET s == Home[k]
        c == chan[s]
    IN /\ Spend("grant")
       /\ k \in c.op /\ u \in Members(c) \ c.op
       /\ Put(s, [c EXCEPT !.op = @ \cup {u}])
       /\ granted' = granted \cup {<<u, c.age>>}
       /\ Broadcast(s, <<[cmd |-> "FMODE+o", src |-> k, ts |-> c.age, uuid |-> u, aim |-> c.memb[u]]>>)
       /\ UNCHANGED <<known, linking, link, bursting, currmembid, now, ages>>

(* TOPIC, with the refusal of OnPreTopicChange when servers are linked *)
SetTopic(k, text) ==
    LET s == Home[k]
        c == [chan[s] EXCEPT !.topic = [ts |-> Time(s), text |-> text]]
    IN /\ Spend("topic")
       /\ k \in Members(chan[s])
       /\ chan[s].topic.ts < Time(s) \/ link[s] = {}
       /\ text # chan[s].topic.text
       /\ Put(s, c)
       /\ Broadcast(s, <<FTOPIC(k, c)>>)
       /\ UNCHANGED <<known, linking, link, bursting, currmembid, now, ages, granted>>

(* KILL by an operator on s; a local victim leaves with a QUIT. *)
Kill(s, u) ==
    /\ Spend("kill")
    /\ u \in known[s]
    /\ known' = [known EXCEPT ![s] = @ \ {u}]
    /\ Put(s, Forget(chan[s], u))
    /\ Broadcast(s, IF Home[u] = s
                    THEN <<[cmd |-> "QUIT", src |-> u]>>
                    ELSE <<[cmd |-> "KILL", src |-> s, uuid |-> u]>>)
    /\ UNCHANGED <<linking, link, bursting, currmembid, now, ages, granted>>

-----------------------------------------------------------------------------
(* What servers do.  s reads the line m that t sent. *)

(* FinishAuth(): burst, then tell the others about the new server. *)
StartBurst(s, t) ==
    /\ t \in linking[s]
    /\ linking' = [linking EXCEPT ![s] = @ \ {t}]
    /\ link' = [link EXCEPT ![s] = @ \cup {t}]
    /\ bursting' = [bursting EXCEPT ![s] = @ \cup {t}]
    /\ wire' = SendTo(SendTo(wire, s, {t}, Burst(s)), s, link[s],
                      <<[cmd |-> "SERVER", src |-> s, sid |-> t]>>)
    /\ UNCHANGED <<chan, known, currmembid, now, left, ages, granted, races>>

Reading(s, t, cmd) ==
    /\ t \in link[s]
    /\ wire[t][s] # <<>>
    /\ Head(wire[t][s]).cmd = cmd

Line(s, t) == Head(wire[t][s])

HandleSERVER(s, t) ==
    LET m == Line(s, t)
    IN /\ Reading(s, t, "SERVER")
       /\ bursting' = [bursting EXCEPT ![s] = @ \cup {m.sid}]
       /\ Forward(s, t, m)
       /\ UNCHANGED <<chan, known, linking, link, currmembid, now, left, ages, granted, races>>

HandleUID(s, t) ==
    LET m == Line(s, t)
    IN /\ Reading(s, t, "UID")
       /\ known' = [known EXCEPT ![s] = @ \cup m.users]
       /\ Forward(s, t, m)
       /\ UNCHANGED <<chan, linking, link, bursting, currmembid, now, left, ages, granted, races>>

HandleENDBURST(s, t) ==
    LET m == Line(s, t)
    IN /\ Reading(s, t, "ENDBURST")
       /\ bursting' = [bursting EXCEPT ![s] = @ \ {m.src}]
       /\ Forward(s, t, m)
       /\ UNCHANGED <<chan, known, linking, link, currmembid, now, left, ages, granted, races>>

AcceptedMutant(s, t, entries) == {e \in entries : t \in Path[s][Home[e.uuid]]}

(* ProcessModeUUIDPair(): only users that s knows and that are behind t *)
Accepted(s, t, entries) == {e \in entries : e.uuid \in known[s] /\ t \in Path[s][Home[e.uuid]]}

EntryOf(E, u) == CHOOSE e \in E : e.uuid = u

(* The channel after an FJOIN; wins: their modes and status are applied. *)
Merge(c, E, mode, wins) ==
    [c EXCEPT !.memb = [u \in User |->
                  IF c.memb[u] = NotOn /\ \E e \in E : e.uuid = u
                  THEN EntryOf(E, u).id ELSE c.memb[u]],
              !.op = IF wins THEN @ \cup {e.uuid : e \in {f \in E : f.op}} ELSE @,
              !.mode = @ \/ (wins /\ mode)]

ForwardedFJoinMutant(m, c, E, wins) == FJOIN(m.src, c, E)

(* The FJOIN that is passed on has the timestamp and modes of s. *)
ForwardedFJoin(m, c, E, wins) ==
    FJOIN(m.src, c, {[uuid |-> e.uuid, op |-> wins /\ e.op, id |-> c.memb[e.uuid]] : e \in E})

HandleFJOIN(s, t) ==
    LET m == Line(s, t)
        ours == chan[s]
        wins == ~Exists(ours) \/ m.ts <= ours.age
        base == IF ~Exists(ours) THEN New(m.ts)
                ELSE IF m.ts < ours.age THEN LowerTS(ours, m.ts)
                ELSE ours
        E == Accepted(s, t, m.entries)
        c == Merge(base, E, m.mode, wins)
        resync == IF wins \/ IsBursting(s, m.src) THEN <<>> ELSE Sync(s, ours)
    IN /\ Reading(s, t, "FJOIN")
       /\ Put(s, c)
       /\ wire' = SendTo(SendTo(Take(s, t), s, {t}, resync), s, link[s] \ {t},
                         <<ForwardedFJoin(m, c, E, wins)>>)
       /\ UNCHANGED <<known, linking, link, bursting, currmembid, now, left, ages, granted>>

(* A line from a user that s does not know is dropped, except for the      *)
(* commands FindSource() lists; FTOPIC is not among them.                  *)
HandleUnknownSource(s, t) ==
    /\ \E cmd \in {"IJOIN", "PART", "FTOPIC", "QUIT"} : Reading(s, t, cmd)
    /\ Line(s, t).src \in User \ known[s]
    /\ Drop(s, t)
    /\ UNCHANGED <<chan, known, linking, link, bursting, currmembid, now, left, ages, granted, races>>

SourceKnown(s, t) == Line(s, t).src \in Server \cup known[s]

HandleIJOIN(s, t) ==
    LET m == Line(s, t)
        joins == Exists(chan[s]) /\ m.src \notin Members(chan[s])
    IN /\ Reading(s, t, "IJOIN") /\ SourceKnown(s, t)
       /\ Put(s, IF joins THEN [chan[s] EXCEPT !.memb[m.src] = m.id] ELSE chan[s])
       /\ IF joins THEN Forward(s, t, m)
          ELSE wire' = SendTo(Take(s, t), s, {t},
                              IF Exists(chan[s]) THEN <<>>
                              ELSE <<[cmd |-> "RESYNC", src |-> s]>>)
       /\ UNCHANGED <<known, linking, link, bursting, currmembid, now, left, ages, granted>>

HandleRESYNC(s, t) ==
    /\ Reading(s, t, "RESYNC")
    /\ wire' = SendTo(Take(s, t), s, {t}, Sync(s, chan[s]))
    /\ UNCHANGED <<chan, known, linking, link, bursting, currmembid, now, left, ages, granted, races>>

HandlePART(s, t) ==
    LET m == Line(s, t)
    IN /\ Reading(s, t, "PART") /\ SourceKnown(s, t)
       /\ Put(s, Forget(chan[s], m.src))
       /\ IF m.src \in Members(chan[s]) THEN Forward(s, t, m) ELSE Drop(s, t)
       /\ UNCHANGED <<known, linking, link, bursting, currmembid, now, left, ages, granted>>

KickHitsMutant(s, m) == m.uuid \in known[s] /\ m.uuid \in Members(chan[s])

KickHits(s, m) ==
    /\ m.uuid \in known[s] /\ m.uuid \in Members(chan[s])
    /\ m.id # NotOn => chan[s].memb[m.uuid] = m.id

HandleKICK(s, t) ==
    LET m == Line(s, t)
        hits == KickHits(s, m)
    IN /\ Reading(s, t, "KICK")
       /\ Put(s, IF hits THEN RemoveMember(chan[s], m.uuid) ELSE chan[s])
       /\ IF hits THEN Forward(s, t, m) ELSE Drop(s, t)
       /\ UNCHANGED <<known, linking, link, bursting, currmembid, now, left, ages, granted>>

TimestampWins(s, m) == Exists(chan[s]) /\ m.ts <= chan[s].age

HandleFMODE(s, t) ==
    LET m == Line(s, t)
        takes == TimestampWins(s, m)
    IN /\ Reading(s, t, "FMODE")
       /\ Put(s, IF takes THEN [chan[s] EXCEPT !.mode = m.on] ELSE chan[s])
       /\ IF takes THEN Forward(s, t, m) ELSE Drop(s, t)
       /\ UNCHANGED <<known, linking, link, bursting, currmembid, now, left, ages, granted>>

HandleFMODEop(s, t) ==
    LET m == Line(s, t)
        takes == TimestampWins(s, m)
    IN /\ Reading(s, t, "FMODE+o")
       /\ chan' = IF takes
                  THEN [chan EXCEPT ![s].op = @ \cup ({m.uuid} \cap Members(chan[s]))]
                  ELSE chan
       /\ races' = IF takes /\ chan[s].memb[m.uuid] # m.aim THEN races \cup {"op"} ELSE races
       /\ IF takes THEN Forward(s, t, m) ELSE Drop(s, t)
       /\ UNCHANGED <<known, linking, link, bursting, currmembid, now, left, ages, granted>>

TopicWins(s, m) ==
    LET c == chan[s]
    IN /\ Exists(c)
       /\ c.age >= m.cts
       /\ \/ m.topic.ts > c.topic.ts
          \/ m.topic.ts = c.topic.ts /\ m.topic.text > c.topic.text

HandleFTOPIC(s, t) ==
    LET m == Line(s, t)
        takes == TopicWins(s, m)
    IN /\ Reading(s, t, "FTOPIC") /\ SourceKnown(s, t)
       /\ Put(s, IF takes THEN [chan[s] EXCEPT !.topic = m.topic] ELSE chan[s])
       /\ IF takes THEN Forward(s, t, m) ELSE Drop(s, t)
       /\ UNCHANGED <<known, linking, link, bursting, currmembid, now, left, ages, granted>>

HandleKILL(s, t) ==
    LET m == Line(s, t)
        there == m.uuid \in known[s]
    IN /\ Reading(s, t, "KILL")
       /\ known' = [known EXCEPT ![s] = @ \ {m.uuid}]
       /\ Put(s, Forget(chan[s], m.uuid))
       /\ IF ~there THEN Drop(s, t)
          ELSE IF Home[m.uuid] = s
          THEN wire' = SendTo(Take(s, t), s, link[s], <<[cmd |-> "QUIT", src |-> m.uuid]>>)
          ELSE Forward(s, t, m)
       /\ UNCHANGED <<linking, link, bursting, currmembid, now, left, ages, granted>>

HandleQUIT(s, t) ==
    LET m == Line(s, t)
    IN /\ Reading(s, t, "QUIT") /\ SourceKnown(s, t)
       /\ known' = [known EXCEPT ![s] = @ \ {m.src}]
       /\ Put(s, Forget(chan[s], m.src))
       /\ Forward(s, t, m)
       /\ UNCHANGED <<linking, link, bursting, currmembid, now, left, ages, granted>>

Tick ==
    /\ Spend("tick")
    /\ now' = now + 1
    /\ UNCHANGED <<chan, known, linking, link, bursting, wire, currmembid, ages, granted, races>>

-----------------------------------------------------------------------------
(* The servers that are connected at the start know each other's users. *)
Init ==
    /\ chan = [s \in Server |-> NoChan]
    /\ \E sc \in Scenario :
          /\ known = [s \in Server |->
                         {u \in sc.users : Home[u] = s \/ <<s, Home[u]>> \in sc.linked}]
          /\ linking = [s \in Server |-> {t \in Server : <<s, t>> \in sc.linking}]
          /\ link = [s \in Server |-> {t \in Server : <<s, t>> \in sc.linked}]
          /\ left = sc.bound
    /\ bursting = [s \in Server |-> {}]
    /\ wire = [s \in Server |-> [t \in Server |-> <<>>]]
    /\ currmembid = [s \in Server |-> 1]
    /\ now = 0
    /\ ages = {}
    /\ granted = {}
    /\ races = {}

Read(s, t) ==
    \/ HandleSERVER(s, t)
    \/ HandleUID(s, t)
    \/ HandleENDBURST(s, t)
    \/ HandleFJOIN(s, t)
    \/ HandleUnknownSource(s, t)
    \/ HandleIJOIN(s, t)
    \/ HandleRESYNC(s, t)
    \/ HandlePART(s, t)
    \/ HandleKICK(s, t)
    \/ HandleFMODE(s, t)
    \/ HandleFMODEop(s, t)
    \/ HandleFTOPIC(s, t)
    \/ HandleKILL(s, t)
    \/ HandleQUIT(s, t)

Next ==
    \/ \E u \in User :
          \/ CreateChannel(u)
          \/ Join(u)
          \/ Part(u)
          \/ Mode(u)
          \/ \E v \in User : Kick(u, v) \/ GrantOp(u, v)
          \/ \E text \in Topic : SetTopic(u, text)
          \/ \E s \in Server : Kill(s, u)
    \/ \E s, t \in Server : StartBurst(s, t) \/ Read(s, t)
    \/ Tick

Spec == Init /\ [][Next]_vars

(* A server that stays up reads the lines that arrive. *)
FairSpec == Spec /\ \A s, t \in Server : WF_vars(Read(s, t))

-----------------------------------------------------------------------------
(* Properties *)

(* Type correctness of the channel and of what each server knows of users. *)
TypeOK ==
    /\ chan \in [Server -> [age : Nat, memb : [User -> Nat], op : SUBSET User,
                            mode : BOOLEAN, topic : [ts : Nat, text : Nat]]]
    /\ known \in [Server -> SUBSET User]
    /\ linking \in [Server -> SUBSET Server]
    /\ link \in [Server -> SUBSET Server]
    /\ bursting \in [Server -> SUBSET Server]
    /\ currmembid \in [Server -> Nat \ {0}]
    /\ \A s \in Server : chan[s].op \subseteq Members(chan[s])
    /\ races \subseteq Race

Quiet == \A s, t \in Server : wire[s][t] = <<>>

(* The channel as users see it: an empty one is not there. *)
Shown(c) == IF Members(c) = {} THEN NoChan ELSE c

(* Servers that are linked, hence all servers of one network. *)
Agree(Aspect(_)) ==
    \A s \in Server : \A t \in link[s] : Aspect(Shown(chan[s])) = Aspect(Shown(chan[t]))

Memberships(c) == c.memb
Status(c) == <<c.age, c.mode, c.op>>
ShownTopic(c) == c.topic

(* When no line is in flight linked servers have the same members, each    *)
(* with the same membership id: FJOIN, IJOIN, PART, KICK and RESYNC repair *)
(* channels that were emptied, re-created or merged meanwhile.  Only a     *)
(* KICK that crosses an FJOIN or a RESYNC may leave a stale member.        *)
MembershipAgreement == Quiet /\ "kick" \notin races => Agree(Memberships)

(* When no line is in flight linked servers have the same timestamp, modes *)
(* and channel operators: the FJOIN of the older channel wins everywhere   *)
(* and the loser keeps nothing.  Checked with at most one MODE, since      *)
(* concurrent mode changes carry no order, and without the races that a    *)
(* timestamp of one second and a message without an order cannot repair.   *)
StatusAgreement == Quiet /\ races = {} => Agree(Status)

(* When no line is in flight linked servers have the same topic: FTOPIC    *)
(* picks the later, then the larger text, whatever the order of arrival. A *)
(* topic "committed already on a part of the network" is not dropped.      *)
TopicAgreement == Quiet /\ races = {} => Agree(ShownTopic)

(* Members, status and topic of linked servers agree when no line is in    *)
(* flight, whether or not more links are to come up, and on the way no     *)
(* server has a member or an operator that it does not know.               *)
ChannelAgreement == TypeOK /\ MembershipAgreement /\ StatusAgreement /\ TopicAgreement

(* A user is channel operator on a server only if somebody gave them op    *)
(* under the timestamp the channel has there or an older one: op gained by *)
(* re-creating the channel on the far side of a split does not survive the *)
(* merge.                                                                  *)
OpsEarned ==
    \A s \in Server : \A u \in chan[s].op :
        \E g \in granted : g[1] = u /\ g[2] <= chan[s].age

(* A KICK removes only the membership the kicker saw: a user who left and  *)
(* rejoined while it was on its way stays, also where the message carries  *)
(* no membership id.                                                       *)
KickHitsItsTarget ==
    \A s \in Server : \A t \in link[s] :
        Reading(s, t, "KICK") /\ KickHits(s, Line(s, t)) =>
            chan[s].memb[Line(s, t).uuid] = Line(s, t).aim

AllRead == \A s, t \in Server : t \in link[s] => wire[t][s] = <<>>

(* Resynchronisation ends: once users stop acting every line is read and   *)
(* nothing more is sent.                                                   *)
TrafficDiesOut == <>[]AllRead
=============================================================================
