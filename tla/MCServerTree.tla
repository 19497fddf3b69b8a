---------------------------- MODULE MCServerTree ----------------------------
(* Small instances of ServerTree for TLC: three servers. *)
EXTENDS ServerTree

CONSTANTS a, b, c

Triangle == {<<a, b>>, <<b, c>>, <<c, a>>}
BothWays == {<<a, b>>, <<b, a>>, <<b, c>>}
LineConn == {<<a, b>>, <<b, c>>}
AllConn == Triangle \cup BothWays

(* A loop of links, one of which is lost *)
Loop == [from |-> Triangle, connect |-> 3, close |-> 1, lost |-> 0]

(* Two servers that connect to each other at once *)
Crossing == [from |-> BothWays, connect |-> 3, close |-> 1, lost |-> 9]

(* A line that splits and links again, with lines lost *)
Relinking == [from |-> LineConn, connect |-> 6, close |-> 3, lost |-> 9]

AllScenarios == {Loop, Crossing, Relinking}
=============================================================================
