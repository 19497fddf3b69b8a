------------------------------ MODULE ServerTree ------------------------------
(***************************************************************************)
(* The tree of servers each server keeps: links are opened, authenticated, *)
(* burst, and lost; SERVER and SQUIT spread the news.  A link that would   *)
(* close a loop, or a second link between two servers, is refused by the   *)
(* duplicate checks.                                                       *)
(*                                                                         *)
(* A connection is named by the pair of its initiator and its responder,   *)
(* so two servers that connect to each other at once have two of them.     *)
(* Lines written but not yet sent may be lost when an end closes.          *)
(***************************************************************************)
EXTENDS Integers, Sequences, SequencesExt, FiniteSets

CONSTANTS
    Server,
    Conn,      \* the <<initiator, responder>> pairs with a link block
    Scenario   \* bounds of a behaviour: from, the connections that are attempted;
               \* connect and close, how often they are opened and lost; lost, how
               \* many unsent lines an end that closes may lose

ASSUME TreeAssumption ==
    /\ IsFiniteSet(Server)
    /\ Conn \subseteq {n \in Server \X Server : n[1] # n[2]}
    /\ Scenario \subseteq [from : SUBSET Conn, connect : Nat, close : Nat, lost : Nat]

VARIABLES
    path,       \* path[s][o]: the servers from below s down to o; {} if unknown
    startburst, \* startburst[s]: servers with StartBurst set on s
    behind,     \* behind[s][o]: behind_bursting of o on s
    state,      \* state[n][e]: LinkState of the socket that e has for n
    wire,       \* wire[n][e]: lines on their way to e
    bound       \* what is left of the scenario

vars == <<path, startburst, behind, state, wire, bound>>

End(n) == {n[1], n[2]}

Peer(n, e) == IF e = n[1] THEN n[2] ELSE n[1]

LinkState == {"NONE", "CONNECTING", "WAIT_AUTH_1", "WAIT_AUTH_2", "CONNECTED"}

-----------------------------------------------------------------------------
(* The tree of one server *)

(* Utils->FindServer *)
Known(P, s, o) == o = s \/ P[o] # {}

(* GetTreeParent() of o is p *)
IsChild(P, o, p) == P[o] = P[p] \cup {o} /\ o \notin P[p]

Below(P, o) == {q \in Server : o \in P[q]}

(* TreeServer::TreeServer: o appears under p. *)
Attach(P, p, o) == [P EXCEPT ![o] = P[p] \cup {o}]

(* SQuitInternal(): o and everything behind it goes. *)
Detach(P, o) == [q \in Server |-> IF o \in P[q] THEN {} ELSE P[q]]

(* behind_bursting of a new server: its parent's, plus one if it bursts *)
NewBehind(B, p, o, bursts) == [B EXCEPT ![o] = B[p] + (IF bursts THEN 1 ELSE 0)]

(* FinishBurstInternal() *)
FinishBurstInternal(B, P, o) ==
    [q \in Server |-> IF q \in Below(P, o) /\ B[q] > 0 THEN B[q] - 1 ELSE B[q]]

-----------------------------------------------------------------------------
(* Lines *)

SERVER(p, o, bursts) == [cmd |-> "SERVER", src |-> p, sid |-> o, burst |-> bursts]
Line(c) == [cmd |-> c]
ENDBURST(o) == [cmd |-> "ENDBURST", src |-> o]
SQUIT(p, o) == [cmd |-> "SQUIT", src |-> p, sid |-> o]

Connected(s) == {n \in Conn : s \in End(n) /\ state[n][s] = "CONNECTED"}

(* The socket of s towards o *)
Towards(P, s, o, n) == Peer(n, s) \in P[o]

ParentOf(P, s, o) == CHOOSE p \in Server : Known(P, s, p) /\ IsChild(P, o, p)

(* SendServers(): parents before their children *)
SendServers(s, t) ==
    LET others == {o \in Server : path[s][o] # {}}
        order == SetToSortSeq(others,
                     LAMBDA x, y : Cardinality(path[s][x]) < Cardinality(path[s][y]))
    IN [i \in 1..Len(order) |->
            SERVER(ParentOf(path[s], s, order[i]), order[i], order[i] \in startburst[s])]

(* TreeSocket::DoBurst *)
DoBurst(s, t) == <<Line("BURST")>> \o SendServers(s, t) \o <<ENDBURST(s)>>

Append1(w, N, s, line) ==
    [n \in Conn |-> IF n \in N THEN [w[n] EXCEPT ![Peer(n, s)] = Append(@, line)] ELSE w[n]]

Take(n, s) == [wire EXCEPT ![n][s] = Tail(@)]

-----------------------------------------------------------------------------
(* Closing *)

(* What the wires of n become when s closes it: the peer reads a prefix of *)
(* what s wrote and then the end; when the peer has closed too all is gone. *)
CloseWires(w, n, s, k) ==
    LET t == Peer(n, s)
    IN [w EXCEPT ![n] = IF state[n][t] = "NONE"
                        THEN [e \in End(n) |-> <<>>]
                        ELSE [e \in End(n) |-> IF e = t
                                               THEN SubSeq(@[t], 1, k) \o <<Line("EOF")>>
                                               ELSE <<>>]]

(* How many of the lines q were sent before the close *)
Sent(q) == {k \in 0..Len(q) : k + bound.lost >= Len(q)}

(* TreeSocket::Close and, when the link was up, SQuit of the peer *)
CloseMutant(w, n, s) ==
    \E k \in Sent(w[n][Peer(n, s)]) :
        LET t == Peer(n, s)
            up == state[n][s] = "CONNECTED"
        IN /\ state' = [state EXCEPT ![n][s] = "NONE"]
           /\ wire' = CloseWires(w, n, s, k)
           /\ path' = IF up THEN [path EXCEPT ![s] = Detach(@, t)] ELSE path
           /\ startburst' = IF up THEN [startburst EXCEPT ![s] = @ \ Below(path[s], t)]
                            ELSE startburst
           /\ behind' = IF up THEN [behind EXCEPT ![s] = [o \in Server |->
                                        IF o \in Below(path[s], t) THEN 0 ELSE @[o]]]
                        ELSE behind

Close(w, n, s) ==
    \E k \in Sent(w[n][Peer(n, s)]) :
        LET t == Peer(n, s)
            up == state[n][s] = "CONNECTED"
            others == IF up THEN Connected(s) \ {n} ELSE {}
        IN /\ state' = [state EXCEPT ![n][s] = "NONE"]
           /\ wire' = Append1(CloseWires(w, n, s, k), others, s, SQUIT(s, t))
           /\ path' = IF up THEN [path EXCEPT ![s] = Detach(@, t)] ELSE path
           /\ startburst' = IF up THEN [startburst EXCEPT ![s] = @ \ Below(path[s], t)]
                            ELSE startburst
           /\ behind' = IF up THEN [behind EXCEPT ![s] = [o \in Server |->
                                        IF o \in Below(path[s], t) THEN 0 ELSE @[o]]]
                        ELSE behind

(* An operator's SQUIT, a ping timeout, a connect timeout or a lost connection *)
LoseLink(n, s) ==
    /\ bound.close > 0
    /\ bound' = [bound EXCEPT !.close = @ - 1]
    /\ state[n][s] # "NONE"
    /\ Close(wire, n, s)

-----------------------------------------------------------------------------
(* Handshake *)

(* The two constructors of TreeSocket: outgoing and incoming *)
Opened(n) == [e \in End(n) |-> IF e = n[1] THEN "CONNECTING" ELSE "WAIT_AUTH_1"]

(* HandleConnect(): refused when the server is on the network already.  The *)
(* AUTH line stands for the CAPAB exchange and the SERVER line that ends it. *)
Connect(n) ==
    /\ n \in bound.from /\ bound.connect > 0
    /\ bound' = [bound EXCEPT !.connect = @ - 1]
    /\ \A e \in End(n) : state[n][e] = "NONE" /\ wire[n][e] = <<>>
    /\ ~Known(path[n[1]], n[1], n[2])
    /\ state' = [state EXCEPT ![n] = Opened(n)]
    /\ wire' = [wire EXCEPT ![n][n[2]] = <<Line("AUTH")>>]
    /\ UNCHANGED <<path, startburst, behind>>

Reading(n, s, c) == state[n][s] # "NONE" /\ wire[n][s] # <<>> /\ Head(wire[n][s]).cmd = c

CheckDuplicateMutant(s, t) == path[s][t] # {t}

(* TreeSocket::CheckDuplicate *)
CheckDuplicate(s, t) == ~Known(path[s], s, t)

(* TreeSocket::FinishAuth *)
FinishAuth(n, s) ==
    LET t == Peer(n, s)
    IN /\ state' = [state EXCEPT ![n][s] = "CONNECTED"]
       /\ path' = [path EXCEPT ![s] = Attach(@, s, t)]
       /\ startburst' = [startburst EXCEPT ![s] = @ \cup {t}]
       /\ behind' = [behind EXCEPT ![s] = NewBehind(@, s, t, TRUE)]
       /\ wire' = Append1([Take(n, s) EXCEPT ![n][t] = @ \o DoBurst(s, t)],
                          Connected(s), s, SERVER(s, t, TRUE))
       /\ UNCHANGED bound

Refuse(n, s) == Close(Take(n, s), n, s) /\ UNCHANGED bound

(* Inbound_Server() *)
HandleInbound(n, s) ==
    /\ Reading(n, s, "AUTH") /\ state[n][s] = "WAIT_AUTH_1"
    /\ IF CheckDuplicate(s, Peer(n, s))
       THEN /\ state' = [state EXCEPT ![n][s] = "WAIT_AUTH_2"]
            /\ wire' = Append1(Take(n, s), {n}, s, Line("AUTH"))
            /\ UNCHANGED <<path, startburst, behind, bound>>
       ELSE Refuse(n, s)

(* Outbound_Reply_Server() *)
HandleOutboundReply(n, s) ==
    /\ Reading(n, s, "AUTH") /\ state[n][s] = "CONNECTING"
    /\ IF CheckDuplicate(s, Peer(n, s)) THEN FinishAuth(n, s) ELSE Refuse(n, s)

(* BURST: the duplicate check is made again. *)
HandleBURSTMutant(n, s) ==
    /\ Reading(n, s, "BURST")
    /\ IF state[n][s] = "WAIT_AUTH_2" THEN FinishAuth(n, s)
       ELSE /\ wire' = Take(n, s)
            /\ UNCHANGED <<path, startburst, behind, state, bound>>

HandleBURST(n, s) ==
    /\ Reading(n, s, "BURST")
    /\ IF state[n][s] = "WAIT_AUTH_2"
       THEN IF CheckDuplicate(s, Peer(n, s)) THEN FinishAuth(n, s) ELSE Refuse(n, s)
       ELSE /\ wire' = Take(n, s)
            /\ UNCHANGED <<path, startburst, behind, state, bound>>

HandleEOF(n, s) ==
    /\ Reading(n, s, "EOF")
    /\ Close(Take(n, s), n, s)
    /\ UNCHANGED bound

-----------------------------------------------------------------------------
(* Lines of connected servers.  The code drops a line whose source is      *)
(* unknown or not behind this socket (fake direction); NoFakeDirection says *)
(* that this does not happen, so there is no action for it.                *)

SourceOk(n, s, m) == path[s][m.src] # {} /\ Towards(path[s], s, m.src, n)

Genuine(n, s, c) ==
    Reading(n, s, c) /\ state[n][s] = "CONNECTED" /\ SourceOk(n, s, Head(wire[n][s]))

(* RouteCommand(): on to every neighbour but the one it came from *)
Forward(n, s, m) == wire' = Append1(Take(n, s), Connected(s) \ {n}, s, m)

(* CommandServer::HandleServer: a server already known closes the link the *)
(* line came from.                                                         *)
HandleSERVER(n, s) ==
    LET m == Head(wire[n][s])
    IN /\ Genuine(n, s, "SERVER")
       /\ IF Known(path[s], s, m.sid)
          THEN Close(Take(n, s), n, s)
          ELSE /\ path' = [path EXCEPT ![s] = Attach(@, m.src, m.sid)]
               /\ startburst' = IF m.burst THEN [startburst EXCEPT ![s] = @ \cup {m.sid}]
                                ELSE startburst
               /\ behind' = [behind EXCEPT ![s] = NewBehind(@, m.src, m.sid, m.burst)]
               /\ Forward(n, s, m)
               /\ UNCHANGED state
       /\ UNCHANGED bound

(* TreeServer::FinishBurst *)
HandleENDBURST(n, s) ==
    LET m == Head(wire[n][s])
    IN /\ Genuine(n, s, "ENDBURST")
       /\ startburst' = [startburst EXCEPT ![s] = @ \ {m.src}]
       /\ behind' = [behind EXCEPT ![s] = FinishBurstInternal(@, path[s], m.src)]
       /\ Forward(n, s, m)
       /\ UNCHANGED <<path, state, bound>>

(* CommandSQuit::HandleServer: only a child of the source may be named,    *)
(* anything else is a protocol error that closes the link.                 *)
HandleSQUIT(n, s) ==
    LET m == Head(wire[n][s])
    IN /\ Genuine(n, s, "SQUIT")
       /\ IF ~Known(path[s], s, m.sid)
          THEN wire' = Take(n, s) /\ UNCHANGED <<path, startburst, behind, state>>
          ELSE IF ~IsChild(path[s], m.sid, m.src)
          THEN Close(Take(n, s), n, s)
          ELSE /\ path' = [path EXCEPT ![s] = Detach(@, m.sid)]
               /\ startburst' = [startburst EXCEPT ![s] = @ \ Below(path[s], m.sid)]
               /\ behind' = [behind EXCEPT ![s] = [o \in Server |->
                                 IF o \in Below(path[s], m.sid) THEN 0 ELSE @[o]]]
               /\ Forward(n, s, m)
               /\ UNCHANGED state
       /\ UNCHANGED bound

-----------------------------------------------------------------------------
Init ==
    /\ path = [s \in Server |-> [o \in Server |-> {}]]
    /\ startburst = [s \in Server |-> {}]
    /\ behind = [s \in Server |-> [o \in Server |-> 0]]
    /\ state = [n \in Conn |-> [e \in End(n) |-> "NONE"]]
    /\ wire = [n \in Conn |-> [e \in End(n) |-> <<>>]]
    /\ bound \in Scenario

Read(n, s) ==
    \/ HandleInbound(n, s)
    \/ HandleOutboundReply(n, s)
    \/ HandleBURST(n, s)
    \/ HandleEOF(n, s)
    \/ HandleSERVER(n, s)
    \/ HandleENDBURST(n, s)
    \/ HandleSQUIT(n, s)

Next ==
    \E n \in Conn :
        \/ Connect(n)
        \/ \E s \in End(n) : LoseLink(n, s) \/ Read(n, s)

Spec == Init /\ [][Next]_vars

-----------------------------------------------------------------------------
(* Properties *)

(* Type correctness of the tree, the burst counters and the sockets. *)
TypeOK ==
    /\ path \in [Server -> [Server -> SUBSET Server]]
    /\ startburst \in [Server -> SUBSET Server]
    /\ behind \in [Server -> [Server -> Nat]]
    /\ \A n \in Conn : state[n] \in [End(n) -> LinkState]

Settled == \A n \in Conn : \A e \in End(n) : wire[n][e] = <<>>

(* Two servers share at most one established link, and a direct neighbour  *)
(* in the tree is one an established link leads to, also when both connect *)
(* to each other at once (CheckDuplicate before and after BURST).          *)
OneLinkPerNeighbor ==
    \A s, t \in Server :
        LET N == {n \in Connected(s) : Peer(n, s) = t}
        IN IF path[s][t] = {t} THEN Cardinality(N) = 1 ELSE N = {}

(* behind_bursting "counting how many servers are bursting in front of     *)
(* this server, including this server": through bursts inside bursts,      *)
(* introductions and splits the counter is that number.                    *)
BehindCounts ==
    \A s, o \in Server : behind[s][o] = Cardinality(path[s][o] \cap startburst[s])

(* The tree of a server is exact about its own links and about who is      *)
(* bursting, at every step of linking, bursting and splitting.             *)
TreeExact == TypeOK /\ OneLinkPerNeighbor /\ BehindCounts

Linked(s, t) ==
    \E n \in Conn : s \in End(n) /\ t = Peer(n, s) /\ \A e \in End(n) : state[n][e] = "CONNECTED"

(* When no line is in flight the tree of every server is the network:      *)
(* neighbours in the tree are linked, nobody is still bursting, and who is *)
(* linked knows the same servers.                                          *)
TreeMatchesNetwork ==
    Settled => \A s, t \in Server :
        /\ path[s][t] = {t} <=> Linked(s, t)
        /\ Linked(s, t) => \A o \in Server : Known(path[s], s, o) <=> Known(path[t], t, o)
        /\ startburst[s] = {}

(* "When would this be seen?  Well, hopefully never" (the fake direction   *)
(* check of ProcessConnectedLine): whatever links, splits and relinks are  *)
(* under way, the source of a line that is read is known and behind the    *)
(* socket it came from, so no line is lost to that check.                  *)
NoFakeDirection ==
    \A n \in Conn : \A s \in End(n) : \A c \in {"SERVER", "ENDBURST", "SQUIT"} :
        Reading(n, s, c) /\ state[n][s] = "CONNECTED" => SourceOk(n, s, Head(wire[n][s]))

(* A SQUIT is never taken for a protocol error: the server it names is a   *)
(* child of its source wherever it is known at all.                        *)
SquitNamesChild ==
    \A n \in Conn : \A s \in End(n) :
        Genuine(n, s, "SQUIT") =>
            LET m == Head(wire[n][s])
            IN Known(path[s], s, m.sid) => IsChild(path[s], m.sid, m.src)

(* No line of a server that follows the protocol is refused or dropped:    *)
(* its source is where the tree expects it and a SQUIT names a child.      *)
LinesAccepted == NoFakeDirection /\ SquitNamesChild

(* No socket that is open has a line to read *)
AtRest ==
    \A n \in Conn : \A e \in End(n) : state[n][e] # "NONE" => wire[n][e] = <<>>
=============================================================================
