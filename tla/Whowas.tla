------------------------------- MODULE Whowas -------------------------------
(***************************************************************************)
(* The WHOWAS database (modules/core/whowas.cpp): for each nick a list of  *)
(* entries, the newest last, and the nicks in the order in which they came *)
(* in.  An entry is the time its user signed on, which is all that the     *)
(* database looks at.                                                      *)
(***************************************************************************)
EXTENDS Integers, Sequences, SequencesExt

CONSTANTS
    OldNick,    \* nicks
    WhowasTag,  \* configurations: [GroupSize, MaxGroups, MaxKeep]
    MaxHour     \* bound on the time

ASSUME WhowasAssumption == MaxHour \in Nat

VARIABLES
    whowas,     \* whowas: [nick -> its entries, oldest first], <<>> for a nick not in the map
    fifo,       \* whowas_fifo
    addtime,    \* [nick -> Nick::addtime]
    settings,   \* GroupSize, MaxGroups and MaxKeep
    hour        \* ServerInstance->Time()

whowasVars == <<whowas, fifo, addtime, settings, hour>>

WhowasInit ==
    /\ whowas = [n \in OldNick |-> <<>>]
    /\ fifo = <<>>
    /\ addtime = [n \in OldNick |-> 0]
    /\ settings \in WhowasTag
    /\ hour = 0

-----------------------------------------------------------------------------

IsEnabled == settings.GroupSize # 0 /\ settings.MaxGroups # 0

(* The last k elements *)
Newest(s, k) == IF Len(s) <= k THEN s ELSE SubSeq(s, Len(s) - k + 1, Len(s))

(* Manager::Add for a user that quits or changes nick, and signed on at s *)
WhowasAdd(n, s) ==
    /\ IsEnabled
    /\ IF whowas[n] = <<>>
       THEN LET grown == Append(fifo, n)
                out == IF Len(grown) > settings.MaxGroups THEN Head(grown) ELSE "none"
            IN  /\ fifo' = SelectSeq(grown, LAMBDA m : m # out)
                /\ whowas' = [m \in OldNick |-> IF m = out THEN <<>> ELSE IF m = n THEN <<s>> ELSE whowas[m]]
                /\ addtime' = [m \in OldNick |-> IF m = out THEN 0 ELSE IF m = n THEN hour ELSE addtime[m]]
       ELSE /\ whowas' = [whowas EXCEPT ![n] = Newest(Append(@, s), settings.GroupSize)]
            /\ UNCHANGED <<fifo, addtime>>
    /\ UNCHANGED <<settings, hour>>

(* PurgeNick for every nick whose list in w is empty *)
PurgedMutant(w) == fifo

Purged(w) == SelectSeq(fifo, LAMBDA n : w[n] # <<>>)

(* The addtime of the nicks that are left in f *)
Remembered(f) == [n \in OldNick |-> IF n \in ToSet(f) THEN addtime[n] ELSE 0]

(* Prune: from the front of the fifo, then the lists *)
Cut(c) ==
    LET min == hour - c.MaxKeep
        Goes(k) == Len(fifo) - k + 1 > c.MaxGroups \/ addtime[fifo[k]] < min
        first == SelectInSeq([k \in DOMAIN fifo |-> Goes(k)], LAMBDA b : ~b)
        kept == IF first = 0 THEN {} ELSE {fifo[k] : k \in first .. Len(fifo)}
    IN  [n \in OldNick |-> IF n \in kept THEN Newest(whowas[n], c.GroupSize) ELSE <<>>]

UpdateConfig(c) ==
    /\ c # settings
    /\ settings' = c
    /\ whowas' = Cut(c)
    /\ fifo' = Purged(whowas')
    /\ addtime' = Remembered(fifo')
    /\ UNCHANGED hour

(* The entries without those at the front that signed on before min *)
RECURSIVE Fresh(_, _)
Fresh(s, min) == IF s # <<>> /\ Head(s) < min THEN Fresh(Tail(s), min) ELSE s

(* OnGarbageCollect: Maintain *)
Maintain ==
    /\ whowas' = [n \in OldNick |-> Fresh(whowas[n], hour - settings.MaxKeep)]
    /\ fifo' = Purged(whowas')
    /\ addtime' = Remembered(fifo')
    /\ UNCHANGED <<settings, hour>>

WhowasHour ==
    /\ hour < MaxHour
    /\ hour' = hour + 1
    /\ UNCHANGED <<whowas, fifo, addtime, settings>>

WhowasNext ==
    \/ \E n \in OldNick, s \in 0 .. hour : WhowasAdd(n, s)
    \/ \E c \in WhowasTag : UpdateConfig(c)
    \/ Maintain
    \/ WhowasHour

WhowasSpec == WhowasInit /\ [][WhowasNext]_whowasVars

-----------------------------------------------------------------------------

WhowasTypeOK ==
    /\ \A n \in OldNick : ToSet(whowas[n]) \subseteq 0 .. MaxHour
    /\ ToSet(fifo) \subseteq OldNick
    /\ addtime \in [OldNick -> 0 .. MaxHour]
    /\ settings \in WhowasTag

(* The map and the fifo hold the same nicks, each with an entry, in the order  *)
(* of their addtime ("BUG: Inconsistency detected in whowas database" is never *)
(* logged), and neither is larger than the configuration allows, whatever it   *)
(* was before.                                                                 *)
WhowasConsistent ==
    /\ WhowasTypeOK
    /\ ToSet(fifo) = {n \in OldNick : whowas[n] # <<>>}
    /\ \A i, j \in DOMAIN fifo : i < j => fifo[i] # fifo[j] /\ addtime[fifo[i]] <= addtime[fifo[j]]
    /\ Len(fifo) <= settings.MaxGroups
    /\ \A n \in OldNick : Len(whowas[n]) <= settings.GroupSize
=============================================================================
