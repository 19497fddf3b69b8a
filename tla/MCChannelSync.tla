---------------------------- MODULE MCChannelSync ----------------------------
(* Small instances of ChannelSync for TLC: a line of three servers, two of *)
(* which are linked or about to link.                                      *)
EXTENDS ChannelSync, TLC

CONSTANTS s1, s2, s3, u1, u2, u3

NoOps == [o \in Op |-> 0]

(* The line s1 - s2 - s3 *)
LinePath ==
    (s1 :> (s1 :> {} @@ s2 :> {s2} @@ s3 :> {s2, s3})) @@
    (s2 :> (s1 :> {s1} @@ s2 :> {} @@ s3 :> {s3})) @@
    (s3 :> (s1 :> {s1, s2} @@ s2 :> {s2} @@ s3 :> {}))
LineOffset == [s \in {s1, s2, s3} |-> 0]

Pair == {<<s1, s2>>, <<s2, s1>>}
Third == {<<s2, s3>>, <<s3, s2>>}

(* Users of s1 and s2.  s3 stays alone while a split heals, over members   *)
(* and modes or over topics, or while users of linked servers hop, kick    *)
(* and are killed; or it bursts into the pair.                             *)
PairHome == (u1 :> s1) @@ (u2 :> s2) @@ (u3 :> s2)
Split(bound) == [linked |-> {}, linking |-> Pair, users |-> {u1, u2}, bound |-> bound]
Linked(users, bound) == [linked |-> Pair, linking |-> {}, users |-> users, bound |-> bound]
Bursting(bound) == [linked |-> Pair, linking |-> Third, users |-> {u1, u2}, bound |-> bound]

Merging == Split([NoOps EXCEPT !["tick"] = 2, !["create"] = 3, !["join"] = 2,
                               !["part"] = 2, !["mode"] = 1])
Topics == Split([NoOps EXCEPT !["tick"] = 2, !["create"] = 2, !["join"] = 1, !["topic"] = 3])
Kicking == Linked(User, [NoOps EXCEPT !["tick"] = 1, !["create"] = 2, !["join"] = 3,
                                      !["part"] = 1, !["kick"] = 2])
Hopping == [Kicking EXCEPT !.bound["join"] = 2, !.bound["part"] = 2, !.bound["kick"] = 1]
Killing == Linked(User, [NoOps EXCEPT !["tick"] = 1, !["create"] = 2, !["join"] = 2,
                                      !["kick"] = 1, !["grant"] = 1, !["kill"] = 1])
Arriving == Bursting([NoOps EXCEPT !["create"] = 1, !["join"] = 1, !["kick"] = 1])
PairScenarios == {Merging, Topics, Kicking, Hopping, Killing, Arriving}

(* Users of the ends, where s3 bursts into the pair *)
EndsHome == (u1 :> s1) @@ (u2 :> s3)
Joining == Bursting([NoOps EXCEPT !["tick"] = 1, !["create"] = 2, !["join"] = 2, !["mode"] = 1])
Leaving == Bursting([NoOps EXCEPT !["tick"] = 1, !["create"] = 2, !["join"] = 1, !["part"] = 2])
LineScenarios == {Joining, Leaving}
=============================================================================
