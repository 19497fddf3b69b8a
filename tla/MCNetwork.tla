------------------------------ MODULE MCNetwork ------------------------------
(***************************************************************************)
(* A line of servers on which either the channel of ChannelSync or the     *)
(* nicknames of NickCollision change, until the users have done what their *)
(* scenario lets them do; and servers that link in a loop (ServerTree).    *)
(* The three share no state, and a behaviour is about one of them.         *)
(***************************************************************************)
EXTENDS MCChannelSync

CONSTANTS n1, NickUser, NickName, NoUser, MaxNow, MaxNicks

VARIABLES
    about,      \* what the behaviour is about
    nick, nickchanged, connected, clientlist, nickLink, nickWire, nickNow, asked, gone, claims,
    scenario,
    path, startburst, behind, state, treeWire, treeBound

NickNeighbor == s1 :> {s2} @@ s2 :> {s1, s3} @@ s3 :> {s2}
NickOffset == s1 :> 0 @@ s2 :> 0 @@ s3 :> 1
NickHome == u1 :> s1 @@ u2 :> s3 @@ u3 :> s2
NickPerson == u1 :> 1 @@ u2 :> 2 @@ u3 :> 1

N == INSTANCE MCNickCollision WITH
        User <- NickUser, Nick <- NickName, Home <- NickHome, Person <- NickPerson,
        Neighbor <- NickNeighbor, Offset <- NickOffset, Scenario <- {"ends"},
        link <- nickLink, wire <- nickWire, now <- nickNow

nickVars == <<nick, nickchanged, connected, clientlist, nickLink, nickWire, nickNow, asked, gone,
              claims, scenario>>

T == INSTANCE MCServerTree WITH
        a <- s1, b <- s2, c <- s3, Conn <- {<<s1, s2>>, <<s2, s1>>, <<s2, s3>>, <<s3, s1>>},
        Scenario <- {[ from |-> {<<s1, s2>>, <<s2, s3>>, <<s3, s1>>},
                       connect |-> 3, close |-> 0, lost |-> 0 ]},
        wire <- treeWire, bound <- treeBound

treeVars == <<path, startburst, behind, state, treeWire, treeBound>>

networkVars == <<about, vars, nickVars, treeVars>>

NetworkInit ==
    /\ about \in {"channel", "nicks", "tree"}
    /\ Init
    /\ N!ScenarioInit
    /\ T!Init
    /\ about # "channel" => left = Joining.bound

NetworkNext ==
    /\ UNCHANGED about
    /\ \/ about = "channel" /\ Next /\ UNCHANGED <<nickVars, treeVars>>
       \/ about = "nicks" /\ N!ScenarioNext /\ UNCHANGED <<vars, treeVars>>
       \/ about = "tree" /\ T!Next /\ UNCHANGED <<vars, nickVars>>

(* Servers read the lines that arrive.  Which one of them reads does not   *)
(* matter for ComesToRest: every line that is sent is read once.           *)
ReadLine(s, t) ==
    /\ UNCHANGED about
    /\ \/ about = "channel" /\ Read(s, t) /\ UNCHANGED <<nickVars, treeVars>>
       \/ about = "nicks" /\ N!Read(s, t) /\ UNCHANGED <<vars, scenario, treeVars>>
       \/ /\ about = "tree"
          /\ \E n \in {<<s, t>>, <<t, s>>} : n \in treeBound.from /\ T!Read(n, s)
          /\ UNCHANGED <<vars, nickVars>>

NetworkSpec ==
    /\ NetworkInit
    /\ [][NetworkNext]_networkVars
    /\ WF_networkVars(\E s, t \in Server : s # t /\ ReadLine(s, t))

(* Servers do not answer each other for ever: once users stop acting, the  *)
(* resynchronisation of a channel ends, the SAVE and NICK lines of a       *)
(* collision do not provoke each other, and every line that is sent is     *)
(* read (TrafficDiesOut of ChannelSync or of NickCollision); and servers   *)
(* that introduce a server twice, because their links close a loop, do not *)
(* close and refuse links without end.                                     *)
ComesToRest ==
    <>[](CASE about = "channel" -> AllRead
           [] about = "nicks" -> N!AllRead
           [] about = "tree" -> T!AtRest)
=============================================================================
