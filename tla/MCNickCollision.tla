--------------------------- MODULE MCNickCollision ---------------------------
(***************************************************************************)
(* Instances of NickCollision for TLC: a line of servers, s1 - s2 - s3,    *)
(* whose last clock is a second ahead.  A behaviour keeps to one of two    *)
(* scenarios, which bound it differently.                                  *)
(***************************************************************************)
EXTENDS NickCollision, TLC

CONSTANTS s1, s2, s3, u1, u2, u3, n1

LineNeighbor == s1 :> {s2} @@ s2 :> {s1, s3} @@ s3 :> {s2}
LineOffset == s1 :> 0 @@ s2 :> 0 @@ s3 :> 1

(* Two strangers at the ends of the line, and a user in the middle who is *)
(* the same person as the first.                                          *)
AllHome == u1 :> s1 @@ u2 :> s3 @@ u3 :> s2
TwoAlike == u1 :> 1 @@ u2 :> 2 @@ u3 :> 1

CONSTANT Scenario
VARIABLE scenario

(* "ends": the strangers alone, with time to pass and up to three NICKs.   *)
(* "three": everyone, in one second, with a NICK each and two QUITs.        *)
Within ==
    \/ /\ scenario = "ends"
       /\ connected[s2][u3] = "none" /\ u3 \notin gone
       /\ asked[u1] + asked[u2] <= 3
    \/ /\ scenario = "three"
       /\ now = 0 /\ Cardinality(gone) <= 2
       /\ \A u \in User : asked[u] <= 1

ScenarioInit == Init /\ scenario \in Scenario
ScenarioNext == Next /\ UNCHANGED scenario /\ Within'
ScenarioSpec == ScenarioInit /\ [][ScenarioNext]_<<vars, scenario>>
=============================================================================
