------------------------------ MODULE MCXLines ------------------------------
(***************************************************************************)
(* Small instances of XLines for TLC: two clients that share an address,   *)
(* or one, and a few lines over them.                                      *)
(***************************************************************************)
EXTENDS XLines

CONSTANTS c1, c2, ip1, bare, resolved

SharedAddress == [c \in {c1, c2} |-> ip1]

Z1 == <<"Z", 1>>
G1 == <<"G", 1>>
E1 == <<"E", 1>>
E2 == <<"E", 2>>

(* A Z-line on the address; a G-line and an E-line on the first host of c1 *)
(* and on the later host name of c2; an E-line on c2 whatever their host.  *)
MCKeys == {Z1, G1, E1, E2}
MCCovers ==
    Z1 :> {c1, c2} \X {bare, resolved} @@
    G1 :> {<<c1, bare>>, <<c2, resolved>>} @@
    E1 :> {<<c1, bare>>, <<c2, resolved>>} @@
    E2 :> {c2} \X {bare, resolved}
MCStar == {G1}

(* Both clients before their host names are known, under bans and an       *)
(* exemption, with the Z-line in the configuration.                        *)
Mixed == [client |-> {c1, c2}, host |-> {bare}, key |-> {Z1, G1, E1}, config |-> {Z1}]

(* One client whose host name comes later, under two exemptions, the other *)
(* in the configuration, and a ban.                                        *)
Exempt == [client |-> {c2}, host |-> {bare, resolved}, key |-> {E1, G1}, config |-> {E2}]

BothScopes == {Mixed, Exempt}
OnlyExempt == {Exempt}
=============================================================================
