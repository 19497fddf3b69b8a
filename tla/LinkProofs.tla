----------------------------- MODULE LinkProofs -----------------------------
(***************************************************************************)
(* Proofs about the links of a server: how they are negotiated (LinkAuth)  *)
(* and kept alive (ServerPing).                                            *)
(***************************************************************************)
EXTENDS ServerPing, LinkAuth, TLAPS

(* The provers of every step, in their order *)
USE ZenonT(3), SMTT(20)

-----------------------------------------------------------------------------
(* Sequences *)

(* An element appended: where the others and the new one are. *)
LEMMA AppendFacts ==
    ASSUME NEW T, NEW s \in Seq(T), NEW e \in T
    PROVE  /\ Append(s, e) \in Seq(T) /\ Append(s, e) # <<>> /\ Len(Append(s, e)) = Len(s) + 1
           /\ Append(s, e)[Len(s) + 1] = e /\ \A i \in 1..Len(s) : Append(s, e)[i] = s[i]
OBVIOUS

(* One sequence after another: where each element is. *)
LEMMA ConcatFacts ==
    ASSUME NEW T, NEW s \in Seq(T), NEW t \in Seq(T)
    PROVE  /\ s \o t \in Seq(T) /\ Len(s \o t) = Len(s) + Len(t)
           /\ \A i \in 1..Len(s) + Len(t) : (s \o t)[i] = IF i <= Len(s) THEN s[i] ELSE t[i - Len(s)]
OBVIOUS

(* Nothing is added by the empty sequence. *)
LEMMA ConcatNothing == ASSUME NEW T, NEW s \in Seq(T) PROVE s \o <<>> = s /\ <<>> \o s = s
OBVIOUS

(* A sequence that is not empty has a length above 0. *)
LEMMA NothingFacts ==
    ASSUME NEW T
    PROVE  <<>> \in Seq(T) /\ Len(<<>>) = 0 /\ \A s \in Seq(T) : s # <<>> => Len(s) \in Nat \ {0}
OBVIOUS

-----------------------------------------------------------------------------
(* ServerPing: one PING at a time, given up in time *)

SaneSetting == {Sane(s) : s \in PingSetting}

(* The paths without a PONG: empty, or an ENDBURST *)
NoPong == {a \in Seq({"PONG", "ENDBURST"}) : Len(a) <= 1 /\ \A k \in 1..Len(a) : a[k] = "ENDBURST"}

(* The paths with one: a PONG, alone or behind an ENDBURST *)
OnePong ==
    {a \in Seq({"PONG", "ENDBURST"}) :
        /\ Len(a) \in {1, 2} /\ a[Len(a)] = "PONG"
        /\ Len(a) = 2 => a[1] = "ENDBURST"}

EndBurstFirst(a) == Len(a) > 0 /\ a[1] = "ENDBURST"

(* What is on the path of a peer, and what its timer makes of it: a PING or *)
(* a PONG while the timer waits for one, behind the ENDBURST of a burst.    *)
PathOK(p) ==
    /\ answers[p] \in NoPong \cup OnePong
    /\ pings[p] = 0 \/ (pings[p] = 1 /\ answers[p] \in NoPong)
    /\ (pings[p] = 1 \/ answers[p] \in OnePong) <=> pstate[p] \in {"WARN", "TIMEOUT", "IDLE"}
    /\ pstate[p] = "DEAD" => answers[p] = <<>>
    /\ bursting[p] /\ pstate[p] # "DEAD" => EndBurstFirst(answers[p])

(* How long a timer has waited and will wait: the settings it was set with *)
(* bound the two together.                                                 *)
WaitOK(p) ==
    /\ pstate[p] \in {"SENDPING", "DEAD"} => age[p] = 0
    /\ pstate[p] \in {"SENDPING", "WARN", "TIMEOUT"} => due[p] >= 0
    /\ pstate[p] = "WARN" => \E a \in SaneSetting : age[p] + due[p] <= a[2]
    /\ pstate[p] = "TIMEOUT" => \E a, b \in SaneSetting : age[p] + due[p] <= a[2] + b[1] - b[2]
    /\ p \in LocalPeer => pstate[p] # "IDLE"

PingFunctions ==
    /\ setting \in SaneSetting
    /\ pstate \in [Peer -> {"SENDPING", "WARN", "TIMEOUT", "IDLE", "DEAD"}]
    /\ due \in [Peer -> Int] /\ \A p \in Peer : due[p] >= -1
    /\ pings \in [Peer -> Nat]
    /\ answers \in [Peer -> NoPong \cup OnePong]
    /\ bursting \in [Peer -> BOOLEAN]
    /\ age \in [Peer -> 0..MaxAge]

(* The inductive invariant *)
PingInv == PingFunctions /\ forced = FALSE /\ \A p \in Peer : PathOK(p) /\ WaitOK(p)

(* ReadConfiguration leaves the warning time below the frequency. *)
LEMMA SaneIsSane ==
    ASSUME NEW s \in SaneSetting
    PROVE  s[1] \in Nat \ {0} /\ s[2] \in Nat /\ s[2] < s[1]
<1>1. PICK r \in PingSetting : s = Sane(r)
  BY DEF SaneSetting
<1>2. r[1] \in Nat \ {0} /\ r[2] \in Nat
  BY ServerPingAssumption
<1> QED
  BY <1>1, <1>2 DEF Sane

(* The intervals of a timer that is in the list are not negative. *)
LEMMA IntervalType ==
    ASSUME setting \in SaneSetting
    PROVE  /\ Interval("SENDPING") = setting[1] /\ setting[1] \in Nat
           /\ Interval("WARN") = setting[2] /\ setting[2] \in Nat
           /\ Interval("TIMEOUT") = setting[1] - setting[2] /\ setting[1] - setting[2] \in Nat
           /\ Interval("IDLE") = -1
BY SaneIsSane DEF Interval, PingFreq, PingWarnTime

(* What reading and writing does to the lines of a path *)
LEMMA PathLines ==
    ASSUME NEW a \in NoPong \cup OnePong
    PROVE  /\ a \in NoPong => Append(a, "PONG") \in OnePong
           /\ EndBurstFirst(a) => EndBurstFirst(Append(a, "PONG"))
           /\ a # <<>> /\ Head(a) = "PONG" => a \in OnePong /\ Tail(a) = <<>> /\ ~EndBurstFirst(a)
           /\ a # <<>> /\ Head(a) = "ENDBURST" =>
                 /\ Tail(a) \in NoPong \cup OnePong
                 /\ Tail(a) \in OnePong <=> a \in OnePong
           /\ (\E k \in 1..Len(a) : a[k] = "PONG") <=> a \in OnePong
           /\ \A j, k \in 1..Len(a) : a[j] = "PONG" /\ a[k] = "PONG" => j = k
           /\ a \in Seq({"PONG", "ENDBURST"})
           /\ a \in NoPong <=> a \notin OnePong
<1>1. a \in Seq({"PONG", "ENDBURST"})
  BY DEF NoPong, OnePong
<1>2. (\E k \in 1..Len(a) : a[k] = "PONG") <=> a \in OnePong
  BY <1>1 DEF NoPong, OnePong
<1>3. a \in NoPong <=> a \notin OnePong
  BY <1>1, <1>2 DEF NoPong, OnePong
<1>4. \A j, k \in 1..Len(a) : a[j] = "PONG" /\ a[k] = "PONG" => j = k
  BY <1>1 DEF NoPong, OnePong
<1>5. ASSUME a \in NoPong PROVE Append(a, "PONG") \in OnePong
  <2> DEFINE b == Append(a, "PONG")
  <2>1. /\ b \in Seq({"PONG", "ENDBURST"}) /\ Len(b) = Len(a) + 1
        /\ b[Len(a) + 1] = "PONG" /\ \A k \in 1..Len(a) : b[k] = a[k]
    BY <1>1, AppendFacts
  <2>2. Len(a) <= 1 /\ \A k \in 1..Len(a) : a[k] = "ENDBURST"
    BY <1>5 DEF NoPong
  <2> HIDE DEF b
  <2>b. PICK n \in Nat : n = Len(a)
    BY <1>1
  <2>a. Len(a) = 0 \/ Len(a) = 1
    BY <2>b, <2>2
  <2>3. Len(b) \in {1, 2} /\ b[Len(b)] = "PONG" /\ (Len(b) = 2 => b[1] = "ENDBURST")
    BY <2>1, <2>2, <2>a
  <2>4. b \in OnePong
    BY <2>1, <2>3 DEF OnePong
  <2> QED
    BY <2>4 DEF b
<1>6. EndBurstFirst(a) => EndBurstFirst(Append(a, "PONG"))
  BY <1>1 DEF EndBurstFirst
<1>7. ASSUME a # <<>>, Head(a) = "PONG"
      PROVE  a \in OnePong /\ Tail(a) = <<>> /\ ~EndBurstFirst(a)
  <2>1. Len(a) > 0 /\ a[1] = "PONG"
    BY <1>1, <1>7
  <2>2. a \in OnePong /\ ~EndBurstFirst(a)
    BY <1>1, <1>2, <2>1 DEF EndBurstFirst
  <2>3. Len(a) = 1
    BY <2>1, <2>2 DEF OnePong
  <2>4. Tail(a) = <<>>
    <3>1. Tail(a) \in Seq({"PONG", "ENDBURST"}) /\ Len(Tail(a)) = 0
      BY <1>1, <1>7, <2>3
    <3> QED
      BY <3>1, NothingFacts
  <2> QED
    BY <2>2, <2>4
<1>8. ASSUME a # <<>>, Head(a) = "ENDBURST"
      PROVE  Tail(a) \in NoPong \cup OnePong /\ (Tail(a) \in OnePong <=> a \in OnePong)
  <2> DEFINE b == Tail(a)
  <2>1. /\ Len(a) > 0 /\ a[1] = "ENDBURST" /\ b \in Seq({"PONG", "ENDBURST"})
        /\ Len(b) = Len(a) - 1 /\ \A k \in 1..(Len(a) - 1) : b[k] = a[k + 1]
    BY <1>1, <1>8
  <2> HIDE DEF b
  <2>2. CASE a \in NoPong
    <3>1. Len(b) = 0
      BY <1>1, <2>1, <2>2 DEF NoPong
    <3>2. b \in NoPong /\ b \notin OnePong
      BY <2>1, <3>1 DEF NoPong, OnePong
    <3> QED
      BY <3>2, <2>2, <1>3 DEF b
  <2>3. CASE a \in OnePong
    <3>1. Len(a) = 2 /\ a[2] = "PONG"
      BY <1>1, <2>1, <2>3 DEF OnePong
    <3>2. Len(b) = 1 /\ b[1] = "PONG"
      BY <2>1, <3>1
    <3>3. b \in OnePong
      <4>1. Len(b) \in {1, 2} /\ b[Len(b)] = "PONG" /\ Len(b) # 2
        BY <3>2
      <4> QED
        BY <2>1, <4>1 DEF OnePong
    <3> QED
      BY <3>3, <2>3 DEF b
  <2> QED
    BY <2>2, <2>3
<1> QED
  BY <1>1, <1>2, <1>3, <1>4, <1>5, <1>6, <1>7, <1>8

(* A new path: the ENDBURST of the burst, or nothing *)
LEMMA NewPaths ==
    /\ <<>> \in NoPong /\ <<>> \notin OnePong
    /\ <<"ENDBURST">> \in NoPong /\ <<"ENDBURST">> \notin OnePong /\ EndBurstFirst(<<"ENDBURST">>)
BY DEF NoPong, OnePong, EndBurstFirst

(* A step of one peer leaves the others alone. *)
LEMMA PeerChange ==
    ASSUME PingInv, NEW p \in Peer, PingFunctions', forced' = FALSE,
           \A q \in Peer \ {p} :
               /\ pstate'[q] = pstate[q] /\ due'[q] = due[q] /\ pings'[q] = pings[q]
               /\ answers'[q] = answers[q] /\ bursting'[q] = bursting[q] /\ age'[q] = age[q],
           PathOK(p)', WaitOK(p)'
    PROVE  PingInv'
<1>1. ASSUME NEW q \in Peer, q # p PROVE PathOK(q)'
  BY <1>1 DEF PingInv, PathOK
<1>2. ASSUME NEW q \in Peer, q # p PROVE WaitOK(q)'
  BY <1>2 DEF PingInv, WaitOK
<1> QED
  BY <1>1, <1>2 DEF PingInv

(* The path and the timer of a server that is gone, and of a new one *)
LEMMA GoneKeeps ==
    ASSUME PingInv, NEW p \in Peer,
           pstate' = [pstate EXCEPT ![p] = "DEAD"], due' = [due EXCEPT ![p] = -1],
           pings' = [pings EXCEPT ![p] = 0], answers' = [answers EXCEPT ![p] = <<>>],
           age' = [age EXCEPT ![p] = 0], UNCHANGED <<setting, bursting, forced>>
    PROVE  PingInv'
<1> USE DEF PingInv, PingFunctions
<1>1. PingFunctions' /\ forced' = FALSE
  BY ServerPingAssumption, NewPaths
<1>2. PathOK(p)' /\ WaitOK(p)'
  BY NewPaths DEF PathOK, WaitOK
<1> QED
  BY <1>1, <1>2, PeerChange

(* Every step of a peer keeps the invariant. *)
LEMMA PeerStepKeeps ==
    ASSUME PingInv, NEW p \in Peer, PeerStep(p)
    PROVE  PingInv'
<1> USE DEF PingInv, PingFunctions
<1>a. PathOK(p) /\ WaitOK(p) /\ setting \in SaneSetting
  OBVIOUS
<1>b. answers[p] \in NoPong \cup OnePong
  OBVIOUS
<1>1. CASE SendPing(p)
  <2>1. /\ due[p] = 0 /\ pstate[p] = "SENDPING" /\ pings' = [pings EXCEPT ![p] = pings[p] + 1]
        /\ UNCHANGED <<setting, answers, bursting, forced, age>>
    BY <1>1 DEF SendPing
  <2>2. \/ pstate' = [pstate EXCEPT ![p] = "WARN"] /\ due' = [due EXCEPT ![p] = setting[2]]
        \/ /\ setting[2] = 0
           /\ pstate' = [pstate EXCEPT ![p] = "TIMEOUT"]
           /\ due' = [due EXCEPT ![p] = setting[1] - setting[2]]
    BY <1>1, IntervalType DEF SendPing, SetState, PingWarnTime
  <2>3. PingFunctions' /\ forced' = FALSE
    BY <2>1, <2>2, IntervalType
  <2>4. pings[p] = 0 /\ answers[p] \in NoPong /\ answers[p] \notin OnePong
    BY <1>a, <1>b, <2>1, PathLines DEF PathOK
  <2>5. PathOK(p)'
    BY <2>1, <2>2, <2>4, <1>a DEF PathOK
  <2>6. age[p] = 0
    BY <1>a, <2>1 DEF WaitOK
  <2>7. WaitOK(p)'
    <3>1. CASE pstate' = [pstate EXCEPT ![p] = "WARN"] /\ due' = [due EXCEPT ![p] = setting[2]]
      BY <3>1, <2>1, <2>6, IntervalType DEF WaitOK
    <3>2. CASE /\ setting[2] = 0
               /\ pstate' = [pstate EXCEPT ![p] = "TIMEOUT"]
               /\ due' = [due EXCEPT ![p] = setting[1] - setting[2]]
      BY <3>2, <2>1, <2>6, IntervalType DEF WaitOK
    <3> QED
      BY <2>2, <3>1, <3>2
  <2> QED
    BY <2>1, <2>2, <2>3, <2>5, <2>7, PeerChange
<1>2. CASE Warn(p)
  <2>1. /\ due[p] = 0 /\ pstate[p] = "WARN" /\ pstate' = [pstate EXCEPT ![p] = "TIMEOUT"]
        /\ due' = [due EXCEPT ![p] = setting[1] - setting[2]]
        /\ UNCHANGED <<setting, pings, answers, bursting, forced, age>>
    BY <1>2, IntervalType DEF Warn, SetState
  <2>2. PingFunctions' /\ forced' = FALSE
    BY <2>1, IntervalType
  <2>3. PathOK(p)'
    BY <2>1, <1>a DEF PathOK
  <2>4. PICK a \in SaneSetting : age[p] + due[p] <= a[2]
    BY <1>a, <2>1 DEF WaitOK
  <2>5. age'[p] + due'[p] <= a[2] + setting[1] - setting[2]
    BY <2>1, <2>4, IntervalType, SaneIsSane
  <2>6. WaitOK(p)'
    BY <2>1, <2>5, <1>a, IntervalType DEF WaitOK
  <2> QED
    BY <2>1, <2>2, <2>3, <2>6, PeerChange
<1>3. CASE TimedOut(p)
  <2>1. CASE p \in LocalPeer
    BY <1>3, <2>1, GoneKeeps DEF TimedOut
  <2>2. CASE p \notin LocalPeer
    <3>1. /\ pstate[p] = "TIMEOUT" /\ pstate' = [pstate EXCEPT ![p] = "IDLE"]
          /\ due' = [due EXCEPT ![p] = -1]
          /\ UNCHANGED <<setting, pings, answers, bursting, forced, age>>
      BY <1>3, <2>2, IntervalType DEF TimedOut, SetState
    <3>2. PingFunctions' /\ forced' = FALSE
      BY <3>1
    <3>3. PathOK(p)' /\ WaitOK(p)'
      BY <3>1, <1>a, <2>2 DEF PathOK, WaitOK
    <3> QED
      BY <3>1, <3>2, <3>3, PeerChange
  <2> QED
    BY <2>1, <2>2
<1>4. CASE Answer(p)
  <2>1. /\ pings[p] > 0 /\ pings' = [pings EXCEPT ![p] = pings[p] - 1]
        /\ answers' = [answers EXCEPT ![p] = Append(answers[p], "PONG")]
        /\ UNCHANGED <<setting, pstate, due, bursting, forced, age>>
    BY <1>4 DEF Answer
  <2>2. pings[p] = 1 /\ answers[p] \in NoPong
    BY <2>1, <1>a DEF PathOK
  <2>3. answers'[p] \in OnePong /\ pings'[p] = 0 /\ answers'[p] \in NoPong \cup OnePong
    BY <2>1, <2>2, PathLines
  <2>4. PingFunctions' /\ forced' = FALSE
    BY <2>1, <2>2, <2>3
  <2>5. EndBurstFirst(answers[p]) => EndBurstFirst(answers'[p])
    BY <2>1, <1>b, PathLines
  <2>6. PathOK(p)'
    <3>1. pstate[p] \in {"WARN", "TIMEOUT", "IDLE"}
      BY <1>a, <2>2 DEF PathOK
    <3>2. bursting[p] => EndBurstFirst(answers[p])
      BY <1>a, <3>1 DEF PathOK
    <3> QED
      BY <2>1, <2>3, <2>5, <3>1, <3>2 DEF PathOK
  <2>7. WaitOK(p)'
    BY <2>1, <1>a DEF WaitOK
  <2> QED
    BY <2>1, <2>4, <2>6, <2>7, PeerChange
<1>5. CASE Pong(p)
  <2>1. /\ answers[p] # <<>> /\ Head(answers[p]) = "PONG"
        /\ answers' = [answers EXCEPT ![p] = Tail(answers[p])]
        /\ bursting' = [bursting EXCEPT ![p] = FALSE]
        /\ forced' = (forced \/ bursting[p]) /\ age' = [age EXCEPT ![p] = 0]
        /\ pstate' = [pstate EXCEPT ![p] = "SENDPING"] /\ due' = [due EXCEPT ![p] = setting[1]]
        /\ UNCHANGED <<setting, pings>>
    BY <1>5, IntervalType DEF Pong, SetState
  <2>2. answers[p] \in OnePong /\ Tail(answers[p]) = <<>> /\ ~EndBurstFirst(answers[p])
    BY <2>1, <1>b, PathLines
  <2>3. pstate[p] # "DEAD"
    BY <2>2, <1>a DEF PathOK
  <2>4. ~bursting[p] /\ pings[p] = 0
    <3>1. answers[p] \notin NoPong
      BY <2>2, <1>b, PathLines
    <3> QED
      BY <2>2, <2>3, <3>1, <1>a DEF PathOK
  <2>5. PingFunctions' /\ forced' = FALSE
    <3>1. answers' = [answers EXCEPT ![p] = <<>>] /\ (forced \/ bursting[p]) = FALSE
      BY <2>1, <2>2, <2>4
    <3>2. forced' = FALSE
      BY <2>1, <3>1
    <3>3. /\ bursting' = [bursting EXCEPT ![p] = FALSE] /\ age' = [age EXCEPT ![p] = 0]
          /\ pstate' = [pstate EXCEPT ![p] = "SENDPING"] /\ due' = [due EXCEPT ![p] = setting[1]]
          /\ answers' = [answers EXCEPT ![p] = <<>>] /\ UNCHANGED <<setting, pings>>
      BY <2>1, <3>1
    <3>4. PingFunctions'
      BY <3>3, IntervalType, ServerPingAssumption, NewPaths
    <3> QED
      BY <3>2, <3>4
  <2>6. PathOK(p)'
    <3>1. answers'[p] = <<>> /\ ~bursting'[p] /\ pings'[p] = 0 /\ pstate'[p] = "SENDPING"
      BY <2>1, <2>2, <2>4
    <3> QED
      BY <3>1, NewPaths DEF PathOK
  <2>7. WaitOK(p)'
    BY <2>1, IntervalType DEF WaitOK
  <2> QED
    BY <2>1, <2>5, <2>6, <2>7, PeerChange
<1>6. CASE EndBurst(p)
  <2>1. /\ answers[p] # <<>> /\ Head(answers[p]) = "ENDBURST"
        /\ answers' = [answers EXCEPT ![p] = Tail(answers[p])]
        /\ bursting' = [bursting EXCEPT ![p] = FALSE]
        /\ UNCHANGED <<setting, pstate, due, pings, forced, age>>
    BY <1>6 DEF EndBurst
  <2>2. /\ answers'[p] \in NoPong \cup OnePong
        /\ answers'[p] \in OnePong <=> answers[p] \in OnePong
        /\ answers'[p] \in NoPong <=> answers[p] \in NoPong
    <3>1. answers[p] \in NoPong \cup OnePong /\ answers'[p] = Tail(answers[p])
      BY <2>1, <1>b
    <3>2. /\ Tail(answers[p]) \in NoPong \cup OnePong
          /\ Tail(answers[p]) \in OnePong <=> answers[p] \in OnePong
      BY <3>1, <2>1, PathLines
    <3>3. answers[p] \in NoPong <=> answers[p] \notin OnePong
      BY <3>1, PathLines
    <3>4. Tail(answers[p]) \in NoPong <=> Tail(answers[p]) \notin OnePong
      BY <3>2, PathLines
    <3> QED
      BY <3>1, <3>2, <3>3, <3>4
  <2>3. PingFunctions' /\ forced' = FALSE
    BY <2>1, <2>2
  <2>4. PathOK(p)'
    <3>1. pstate[p] # "DEAD"
      BY <2>1, <1>a DEF PathOK
    <3> QED
      BY <2>1, <2>2, <3>1, <1>a DEF PathOK
  <2>5. WaitOK(p)'
    BY <2>1, <1>a DEF WaitOK
  <2> QED
    BY <2>1, <2>3, <2>4, <2>5, PeerChange
<1>7. CASE Lose(p)
  BY <1>7, GoneKeeps DEF Lose
<1>8. CASE NewServer(p)
  <2>1. /\ pstate[p] = "DEAD" /\ bursting' = [bursting EXCEPT ![p] = TRUE]
        /\ answers' = [answers EXCEPT ![p] = <<"ENDBURST">>]
        /\ pstate' = [pstate EXCEPT ![p] = "SENDPING"] /\ due' = [due EXCEPT ![p] = setting[1]]
        /\ UNCHANGED <<setting, pings, forced, age>>
    BY <1>8, IntervalType DEF NewServer, SetState
  <2>2. pings[p] = 0 /\ age[p] = 0
    BY <2>1, <1>a DEF PathOK, WaitOK
  <2>3. <<"ENDBURST">> \in NoPong /\ <<"ENDBURST">> \notin OnePong /\ EndBurstFirst(<<"ENDBURST">>)
    BY NewPaths
  <2>4. PingFunctions' /\ forced' = FALSE
    BY <2>1, <2>3, IntervalType
  <2>5. PathOK(p)' /\ WaitOK(p)'
    BY <2>1, <2>2, <2>3, IntervalType DEF PathOK, WaitOK
  <2> QED
    BY <2>1, <2>4, <2>5, PeerChange
<1> QED
  BY <1>1, <1>2, <1>3, <1>4, <1>5, <1>6, <1>7, <1>8 DEF PeerStep

(* A second passes: what a timer has waited and will wait stays the same. *)
LEMMA SecondKeeps ==
    ASSUME PingInv, Second
    PROVE  PingInv'
<1> USE DEF PingInv, PingFunctions
<1>1. PingFunctions' /\ forced' = FALSE
  BY ServerPingAssumption DEF Second, Older
<1>2. ASSUME NEW p \in Peer PROVE PathOK(p)'
  BY <1>1 DEF Second, PathOK
<1>3. ASSUME NEW p \in Peer PROVE WaitOK(p)'
  <2>1. /\ WaitOK(p) /\ PathOK(p) /\ due[p] \in Int /\ due[p] # 0 /\ age[p] \in 0..MaxAge /\ MaxAge \in Nat
        /\ pstate'[p] = pstate[p]
        /\ due'[p] = IF due[p] > 0 THEN due[p] - 1 ELSE due[p]
        /\ age'[p] = IF Unanswered(p) THEN Older(age[p]) ELSE age[p]
    BY ServerPingAssumption DEF Second
  <2>2. Unanswered(p) <=> pstate[p] \in {"WARN", "TIMEOUT", "IDLE"}
    <3>1. (\E k \in 1..Len(answers[p]) : answers[p][k] = "PONG") <=> answers[p] \in OnePong
      BY PathLines
    <3>2. pings[p] > 0 <=> pings[p] = 1
      BY <2>1 DEF PathOK
    <3>3. Unanswered(p) <=> (pings[p] = 1 \/ answers[p] \in OnePong)
      BY <3>1, <3>2 DEF Unanswered
    <3> QED
      BY <2>1, <3>3 DEF PathOK
  <2>3. CASE pstate[p] \in {"WARN", "TIMEOUT"}
    <3>1. due[p] > 0 /\ due'[p] = due[p] - 1 /\ due'[p] >= 0 /\ age'[p] <= age[p] + 1 /\ age'[p] \in Nat
      BY <2>1, <2>2, <2>3 DEF WaitOK, Older
    <3>2. age'[p] + due'[p] <= age[p] + due[p]
      BY <3>1, <2>1
    <3>3. pstate[p] = "WARN" => \E a \in SaneSetting : age'[p] + due'[p] <= a[2]
      <4> SUFFICES ASSUME pstate[p] = "WARN" PROVE \E a \in SaneSetting : age'[p] + due'[p] <= a[2]
        OBVIOUS
      <4>1. PICK a \in SaneSetting : age[p] + due[p] <= a[2]
        BY <2>1 DEF WaitOK
      <4> QED
        BY <4>1, <3>1, <3>2, <2>1, SaneIsSane
    <3>4. pstate[p] = "TIMEOUT" => \E a, b \in SaneSetting : age'[p] + due'[p] <= a[2] + b[1] - b[2]
      <4> SUFFICES ASSUME pstate[p] = "TIMEOUT"
                   PROVE \E a, b \in SaneSetting : age'[p] + due'[p] <= a[2] + b[1] - b[2]
        OBVIOUS
      <4>1. PICK a, b \in SaneSetting : age[p] + due[p] <= a[2] + b[1] - b[2]
        BY <2>1 DEF WaitOK
      <4>2. age'[p] + due'[p] <= a[2] + b[1] - b[2]
        BY <4>1, <3>1, <3>2, <2>1, SaneIsSane
      <4> QED
        BY <4>2
    <3> QED
      BY <2>1, <2>3, <3>1, <3>3, <3>4 DEF WaitOK
  <2>4. CASE pstate[p] \notin {"WARN", "TIMEOUT"}
    BY <2>1, <2>2, <2>4 DEF WaitOK
  <2> QED
    BY <2>3, <2>4
<1> QED
  BY <1>1, <1>2, <1>3

(* What the invariant says of the ages and of the PINGs on their way *)
LEMMA PingInvImplies ==
    ASSUME PingInv
    PROVE  PingsKept
<1> USE DEF PingInv, PingFunctions
<1>1. PingTypeOK
  BY PathLines DEF PingTypeOK, SaneSetting
<1>2. OnePingOutstanding
  <2> SUFFICES ASSUME NEW p \in Peer
               PROVE  /\ pings[p] <= 1
                      /\ \A j, k \in 1..Len(answers[p]) :
                           answers[p][j] = "PONG" /\ answers[p][k] = "PONG" => j = k /\ pings[p] = 0
                      /\ Unanswered(p) <=> pstate[p] \in {"WARN", "TIMEOUT", "IDLE"}
    BY DEF OnePingOutstanding
  <2> QED
    BY PathLines DEF PathOK, Unanswered
<1>3. DroppedInTime
  <2> SUFFICES ASSUME NEW p \in LocalPeer, NEW s \in 0..MaxAge, Patience(s)
               PROVE  age[p] <= s
    BY DEF DroppedInTime
  <2>1. p \in Peer /\ WaitOK(p) /\ age[p] \in Nat /\ due[p] \in Int /\ s \in Nat
    BY ServerPingAssumption
  <2>2. \A a, b \in SaneSetting : s >= a[2] + b[1] - b[2]
    BY DEF Patience, SaneSetting
  <2>3. CASE pstate[p] = "WARN"
    <3>1. PICK a \in SaneSetting : age[p] + due[p] <= a[2]
      BY <2>1, <2>3 DEF WaitOK
    <3>2. due[p] >= 0 /\ a[2] <= a[2] + a[1] - a[2] /\ a[2] \in Nat /\ a[1] \in Nat
      BY <2>1, <2>3, SaneIsSane DEF WaitOK
    <3>3. s >= a[2] + a[1] - a[2]
      BY <2>2
    <3> QED
      BY <3>1, <3>2, <3>3, <2>1
  <2>4. CASE pstate[p] = "TIMEOUT"
    <3>1. PICK a, b \in SaneSetting : age[p] + due[p] <= a[2] + b[1] - b[2]
      BY <2>1, <2>4 DEF WaitOK
    <3>2. due[p] >= 0 /\ a[2] \in Nat /\ b[1] \in Nat /\ b[2] \in Nat
      BY <2>1, <2>4, SaneIsSane DEF WaitOK
    <3>3. s >= a[2] + b[1] - b[2]
      BY <2>2
    <3> QED
      BY <3>1, <3>2, <3>3, <2>1
  <2>5. CASE pstate[p] \notin {"WARN", "TIMEOUT"}
    BY <2>1, <2>5 DEF WaitOK
  <2> QED
    BY <2>3, <2>4, <2>5
<1> QED
  BY <1>1, <1>2, <1>3 DEF PingsKept, PongNeverEndsBurst

(* For any peers, settings and rehashes between any two steps of a timer,  *)
(* at most one PING to a server is on its way, and exactly while its timer *)
(* waits for it; a directly linked server that does not answer is dropped  *)
(* within the longest wait of two settings, and a PONG never cuts a burst  *)
(* short (PingTimer::Tick, SetState, CommandPong).                         *)
THEOREM PingsAreKept == PingSpec => []PingsKept
<1>1. PingInit => PingInv
  BY ServerPingAssumption, NewPaths DEF PingInit, PingInv, PingFunctions, PathOK, WaitOK, SaneSetting
<1>2. PingInv /\ [PingNext]_pingVars => PingInv'
  <2> SUFFICES ASSUME PingInv, [PingNext]_pingVars PROVE PingInv'
    OBVIOUS
  <2>1. ASSUME NEW p \in Peer, PeerStep(p) PROVE PingInv'
    BY <2>1, PeerStepKeeps
  <2>2. ASSUME NEW s \in PingSetting, Rehash(s) PROVE PingInv'
    BY <2>2 DEF Rehash, PingInv, PingFunctions, PathOK, WaitOK, SaneSetting
  <2>3. CASE Second
    BY <2>3, SecondKeeps
  <2>4. CASE UNCHANGED pingVars
    BY <2>4 DEF pingVars, PingInv, PingFunctions, PathOK, WaitOK
  <2> QED
    BY <2>1, <2>2, <2>3, <2>4 DEF PingNext
<1> QED
  BY <1>1, <1>2, PingInvImplies, PTL DEF PingSpec

-----------------------------------------------------------------------------
(* LinkAuth: servers that are connected agree *)

AuthCmd ==
    {"START", "CHALLENGE", "CAPABILITIES", "MODULES", "MODSUPPORT", "CHANMODES", "USERMODES",
     "EXTBANS", "END", "SERVER", "BURST", "ERROR"}

AuthLine == [cmd : AuthCmd, arg : {"none", "plain", "hmac"}, ts : Int]

(* The lines an end sends in a negotiation without errors, in their order *)
Cmd(k) ==
    CASE k = 1 -> "START"
      [] k = 2 -> "CHALLENGE"
      [] k = 3 -> "CAPABILITIES"
      [] k = 4 -> "MODULES"
      [] k = 5 -> "MODSUPPORT"
      [] k = 6 -> "CHANMODES"
      [] k = 7 -> "USERMODES"
      [] k = 8 -> "EXTBANS"
      [] k = 9 -> "END"
      [] k = 10 -> "SERVER"
      [] k = 11 -> "BURST"

(* How many of them it has sent, and its state, when it has read r lines *)
Sent(e, r) ==
    IF r = 0 THEN 1
    ELSE IF r <= (IF e = "out" THEN 8 ELSE 9) THEN 9
    ELSE IF r <= (IF e = "out" THEN 9 ELSE 10) THEN 10
    ELSE 11

StateAt(e, r) ==
    IF e = "out" THEN IF r <= 9 THEN "CONNECTING" ELSE "CONNECTED"
    ELSE IF r <= 9 THEN "WAIT_AUTH_1" ELSE IF r = 10 THEN "WAIT_AUTH_2" ELSE "CONNECTED"

(* What is on the way to e: the lines that the other end sent and e has not read *)
PipeAt(e, r) ==
    /\ r[e] <= Sent(Other(e), r[Other(e)])
    /\ Len(pipe[e]) = Sent(Other(e), r[Other(e)]) - r[e]
    /\ \A k \in 1..Len(pipe[e]) : pipe[e][k].cmd = Cmd(r[e] + k)

(* What e has found out from the r lines that it has read *)
KnownAt(e, r) ==
    /\ linkState[e] = StateAt(e, r)
    /\ phase[e] = (IF r = 0 THEN 1 ELSE 2)
    /\ lists[e] = {Cmd(k) : k \in {j \in 3..8 : j <= r}}
    /\ r >= 9 => /\ conf.differ \cap FatalFeature = {}
                 /\ conf.differ \cap OptionalFeature = {} \/ conf.allowmismatch[e]
    /\ r >= 10 => conf.knows[Other(e)]
    /\ e = "in" /\ r = 11 => conf.offset <= MaxDelta /\ -conf.offset <= MaxDelta + MaxClock

(* The BURST of "out" carries a time between the start and now. *)
BurstTimed ==
    \A k \in 1..Len(pipe["in"]) : pipe["in"][k].cmd = "BURST" => pipe["in"][k].ts \in 0..clock

Progress(r) == BurstTimed /\ \A e \in Ends : PipeAt(e, r) /\ KnownAt(e, r[e])

(* The inductive invariant: while no end gives up, the state of both is    *)
(* that of having read so many lines of the negotiation.                   *)
AuthInv ==
    /\ AuthTypeOK
    /\ pipe \in [Ends -> Seq(AuthLine)]
    /\ (\A e \in Ends : linkState[e] # "DYING") => \E r \in [Ends -> 0..11] : Progress(r)

(* The lines of a negotiation are all different. *)
LEMMA CmdOf ==
    ASSUME NEW k \in 1..11
    PROVE  /\ Cmd(k) = "START" <=> k = 1
           /\ Cmd(k) = "CHALLENGE" <=> k = 2
           /\ Cmd(k) = "CAPABILITIES" <=> k = 3
           /\ Cmd(k) = "MODULES" <=> k = 4
           /\ Cmd(k) = "MODSUPPORT" <=> k = 5
           /\ Cmd(k) = "CHANMODES" <=> k = 6
           /\ Cmd(k) = "USERMODES" <=> k = 7
           /\ Cmd(k) = "EXTBANS" <=> k = 8
           /\ Cmd(k) = "END" <=> k = 9
           /\ Cmd(k) = "SERVER" <=> k = 10
           /\ Cmd(k) = "BURST" <=> k = 11
           /\ Cmd(k) # "ERROR"
<1>1. k = 1 \/ k = 2 \/ k = 3 \/ k = 4 \/ k = 5 \/ k = 6 \/ k = 7 \/ k = 8 \/ k = 9 \/ k = 10 \/ k = 11
  OBVIOUS
<1>2. /\ Cmd(1) = "START" /\ Cmd(2) = "CHALLENGE" /\ Cmd(3) = "CAPABILITIES" /\ Cmd(4) = "MODULES"
      /\ Cmd(5) = "MODSUPPORT" /\ Cmd(6) = "CHANMODES" /\ Cmd(7) = "USERMODES"
      /\ Cmd(8) = "EXTBANS" /\ Cmd(9) = "END" /\ Cmd(10) = "SERVER" /\ Cmd(11) = "BURST"
  BY DEF Cmd
<1> QED
  BY <1>1, <1>2

(* An end sends no fewer lines the more it has read. *)
LEMMA SentBounds ==
    ASSUME NEW e \in Ends, NEW n \in 0..11
    PROVE  Sent(e, n) \in 1..11 /\ (n < 11 => Sent(e, n + 1) >= Sent(e, n))
BY DEF Sent, Ends

(* A link has two ends. *)
LEMMA OtherEnd ==
    ASSUME NEW e \in Ends
    PROVE  Other(e) \in Ends /\ Other(e) # e /\ Other(Other(e)) = e /\ Ends = {e, Other(e)}
BY DEF Other, Ends

(* A reply takes one line from the pipe and adds to the other one. *)
LEMMA ReplyType ==
    ASSUME pipe \in [Ends -> Seq(AuthLine)], NEW e \in Ends, pipe[e] # <<>>,
           NEW out \in Seq(AuthLine), Reply(e, out)
    PROVE  /\ pipe' \in [Ends -> Seq(AuthLine)]
           /\ pipe'[e] = Tail(pipe[e]) /\ pipe'[Other(e)] = pipe[Other(e)] \o out
<1>1. /\ pipe' = [pipe EXCEPT ![e] = Tail(pipe[e]), ![Other(e)] = pipe[Other(e)] \o out]
  BY OtherEnd DEF Reply
<1>2. Tail(pipe[e]) \in Seq(AuthLine)
  OBVIOUS
<1>3. pipe[Other(e)] \o out \in Seq(AuthLine)
  BY OtherEnd
<1> QED
  BY <1>1, <1>2, <1>3, OtherEnd

(* The lines that e sends when it reads one more than r, with the time in *)
(* the BURST of "out".                                                    *)
NextLines(e, r, out) ==
    /\ Len(out) = Sent(e, r + 1) - Sent(e, r)
    /\ \A k \in 1..Len(out) :
         /\ out[k].cmd = Cmd(Sent(e, r) + k)
         /\ e = "out" /\ out[k].cmd = "BURST" => out[k].ts \in 0..clock

(* A reply that is the next of the lines keeps both pipes in step with *)
(* what the ends have read.                                            *)
LEMMA ReplyKeeps ==
    ASSUME pipe \in [Ends -> Seq(AuthLine)], NEW r \in [Ends -> 0..11], NEW e \in Ends,
           \A o \in Ends : PipeAt(o, r), BurstTimed, pipe[e] # <<>>,
           NEW out \in Seq(AuthLine), Reply(e, out), clock' = clock,
           NEW q \in [Ends -> 0..11], q = [r EXCEPT ![e] = r[e] + 1],
           NextLines(e, r[e], out)
    PROVE  BurstTimed' /\ \A o \in Ends : PipeAt(o, q)'
<1> DEFINE o == Other(e)
           old == pipe[o]
           new == pipe'[o]
           rest == pipe'[e]
           first == pipe[e]
<1>a. o \in Ends /\ o # e /\ Other(o) = e /\ Ends = {e, o}
  BY OtherEnd
<1>b. rest = Tail(first) /\ new = old \o out /\ pipe' \in [Ends -> Seq(AuthLine)]
  BY ReplyType
<1>c. PICK a \in 0..10, b \in 0..11 : a = r[e] /\ b = r[o] /\ q[e] = a + 1 /\ q[o] = b
  <2>1. q[e] = r[e] + 1 /\ q[o] = r[o] /\ q[e] \in 0..11 /\ r[e] \in 0..11 /\ r[o] \in 0..11
    BY <1>a
  <2>2. r[e] \in 0..10
    BY <2>1
  <2> QED
    BY <2>1, <2>2
<1>s. PICK s \in 1..11, t \in 1..11, u \in 1..11 : s = Sent(e, a) /\ t = Sent(e, a + 1) /\ u = Sent(o, b)
  BY <1>a, <1>c, SentBounds
<1>l. old \in Seq(AuthLine) /\ new \in Seq(AuthLine) /\ rest \in Seq(AuthLine) /\ first \in Seq(AuthLine)
  BY <1>a, <1>b
<1>n. PICK n \in Nat, m \in Nat, l \in Nat : n = Len(first) /\ m = Len(old) /\ l = Len(out)
  BY <1>l
<1>d. /\ a <= u /\ n = u - a /\ \A k \in 1..n : first[k].cmd = Cmd(a + k)
      /\ b <= s /\ m = s - b /\ \A k \in 1..m : old[k].cmd = Cmd(b + k)
      /\ l = t - s /\ \A k \in 1..l : out[k].cmd = Cmd(s + k)
  BY <1>a, <1>c, <1>s, <1>n DEF PipeAt, NextLines
<1>e. Len(rest) = n - 1 /\ n > 0 /\ \A k \in 1..(n - 1) : rest[k] = first[k + 1]
  BY <1>b, <1>l, <1>n
<1>f. Len(new) = m + l /\ \A k \in 1..(m + l) : new[k] = IF k <= m THEN old[k] ELSE out[k - m]
  <2>1. /\ Len(old \o out) = Len(old) + Len(out)
        /\ \A k \in 1..(Len(old) + Len(out)) :
              (old \o out)[k] = IF k <= Len(old) THEN old[k] ELSE out[k - Len(old)]
    BY <1>l, ConcatFacts
  <2> QED
    BY <2>1, <1>b, <1>n
<1> HIDE DEF o, old, new, rest, first
<1>1. PipeAt(e, q)'
  <2>1. Len(rest) = u - (a + 1) /\ a + 1 <= u
    BY <1>d, <1>e
  <2>2. \A k \in 1..(n - 1) : rest[k].cmd = Cmd(a + 1 + k)
    <3> TAKE k \in 1..(n - 1)
    <3>1. k + 1 \in 1..n /\ rest[k] = first[k + 1] /\ a + (k + 1) = a + 1 + k
      BY <1>e
    <3> QED
      BY <3>1, <1>d
  <2>3. u = Sent(o, q[o]) /\ q[e] = a + 1
    BY <1>c, <1>s
  <2> QED
    BY <2>1, <2>2, <2>3, <1>e, <1>d DEF PipeAt, o, rest
<1>2. PipeAt(o, q)'
  <2>1. Len(new) = t - b /\ b <= t
    BY <1>d, <1>f
  <2>2. \A k \in 1..(m + l) : new[k].cmd = Cmd(b + k)
    <3> TAKE k \in 1..(m + l)
    <3>1. CASE k <= m
      <4>1. k \in 1..m /\ new[k] = old[k]
        BY <3>1, <1>f
      <4> QED
        BY <4>1, <1>d
    <3>2. CASE k > m
      <4>1. k - m \in 1..l /\ new[k] = out[k - m] /\ s + (k - m) = b + k
        BY <3>2, <1>f, <1>d
      <4> QED
        BY <4>1, <1>d
    <3> QED
      BY <3>1, <3>2
  <2>3. t = Sent(e, q[e]) /\ q[o] = b
    BY <1>c, <1>s
  <2>4. \A k \in 1..Len(new) : new[k].cmd = Cmd(q[o] + k)
    BY <2>2, <2>3, <1>f
  <2> QED
    BY <1>a, <2>1, <2>3, <2>4 DEF PipeAt, new
<1>3. BurstTimed'
  <2>1. CASE e = "in"
    <3>1. \A k \in 1..n : first[k].cmd = "BURST" => first[k].ts \in 0..clock
      BY <2>1, <1>n DEF BurstTimed, first
    <3>2. \A k \in 1..(n - 1) : rest[k].cmd = "BURST" => rest[k].ts \in 0..clock
      <4> TAKE k \in 1..(n - 1)
      <4>1. k + 1 \in 1..n /\ rest[k] = first[k + 1]
        BY <1>e
      <4> QED
        BY <4>1, <3>1
    <3> QED
      BY <2>1, <3>2, <1>e DEF BurstTimed, rest
  <2>2. CASE e = "out"
    <3>1. o = "in"
      BY <2>2 DEF Other, o
    <3>2. /\ \A k \in 1..m : old[k].cmd = "BURST" => old[k].ts \in 0..clock
          /\ \A k \in 1..l : out[k].cmd = "BURST" => out[k].ts \in 0..clock
      BY <2>2, <3>1, <1>n DEF BurstTimed, NextLines, old
    <3>3. \A k \in 1..(m + l) : new[k].cmd = "BURST" => new[k].ts \in 0..clock
      <4> TAKE k \in 1..(m + l)
      <4>1. CASE k <= m
        <5>1. k \in 1..m /\ new[k] = old[k]
          BY <4>1, <1>f
        <5> QED
          BY <5>1, <3>2
      <4>2. CASE k > m
        <5>1. k - m \in 1..l /\ new[k] = out[k - m]
          BY <4>2, <1>f
        <5> QED
          BY <5>1, <3>2
      <4> QED
        BY <4>1, <4>2
    <3> QED
      BY <3>1, <3>3, <1>f DEF BurstTimed, new
  <2> QED
    BY <2>1, <2>2 DEF Ends
<1> QED
  BY <1>1, <1>2, <1>3, <1>a

(* One end reads a line and answers with the next of its own. *)
LEMMA ReadKeeps ==
    ASSUME AuthInv, NEW r \in [Ends -> 0..11], Progress(r), NEW e \in Ends, pipe[e] # <<>>, r[e] < 11,
           NEW out \in Seq(AuthLine), Reply(e, out), NextLines(e, r[e], out),
           UNCHANGED <<conf, clock>>,
           linkState'[Other(e)] = linkState[Other(e)], phase'[Other(e)] = phase[Other(e)],
           lists'[Other(e)] = lists[Other(e)],
           KnownAt(e, r[e] + 1)'
    PROVE  \E q \in [Ends -> 0..11] : Progress(q)'
<1> DEFINE o == Other(e)
           q == [r EXCEPT ![e] = r[e] + 1]
<1>a. o \in Ends /\ o # e /\ Ends = {e, o}
  BY OtherEnd
<1>1. q \in [Ends -> 0..11] /\ q[e] = r[e] + 1 /\ q[o] = r[o]
  BY <1>a
<1>2. BurstTimed' /\ \A x \in Ends : PipeAt(x, q)'
  <2>1. (\A x \in Ends : PipeAt(x, r)) /\ BurstTimed /\ pipe \in [Ends -> Seq(AuthLine)]
    BY DEF Progress, AuthInv
  <2> QED
    BY <1>1, <2>1, ReplyKeeps
<1>3. KnownAt(o, q[o])'
  <2>1. KnownAt(o, r[o])
    BY <1>a DEF Progress
  <2> QED
    BY <2>1, <1>1 DEF KnownAt
<1>4. KnownAt(e, q[e])'
  BY <1>1
<1> QED
  BY <1>1, <1>2, <1>3, <1>4, <1>a DEF Progress

(* What an end reads while nobody has given up is the line it waits for. *)
LEMMA NextRead ==
    ASSUME AuthInv, NEW r \in [Ends -> 0..11], Progress(r), NEW e \in Ends, NEW cmd, Reads(e, cmd)
    PROVE  /\ r[e] \in 0..10 /\ Cmd(r[e] + 1) = cmd /\ KnownAt(e, r[e]) /\ pipe[e] # <<>>
           /\ pipe[e] \in Seq(AuthLine) /\ Head(pipe[e]) = pipe[e][1] /\ 1 \in 1..Len(pipe[e])
<1>1. pipe[e] # <<>> /\ Head(pipe[e]).cmd = cmd /\ pipe[e] \in Seq(AuthLine)
  BY DEF Reads, AuthInv
<1>2. 1 \in 1..Len(pipe[e]) /\ Head(pipe[e]) = pipe[e][1]
  BY <1>1
<1>3. PipeAt(e, r) /\ KnownAt(e, r[e])
  BY DEF Progress
<1>4. PICK n \in 1..11, a \in 0..11, l \in Nat \ {0} :
        n = Sent(Other(e), r[Other(e)]) /\ a = r[e] /\ l = Len(pipe[e])
  BY <1>2, OtherEnd, SentBounds
<1>5. l = n - a /\ pipe[e][1].cmd = Cmd(a + 1)
  BY <1>2, <1>3, <1>4 DEF PipeAt
<1>6. a \in 0..10
  BY <1>5
<1> QED
  BY <1>1, <1>2, <1>3, <1>4, <1>5, <1>6

(* The lines that SendCapabilities(2) adds *)
LEMMA Phase2Lines ==
    ASSUME NEW e \in Ends
    PROVE  /\ Phase2(e) \in Seq(AuthLine)
           /\ phase[e] = 2 => Phase2(e) = <<>>
           /\ phase[e] = 1 => /\ Len(Phase2(e)) = 8
                              /\ \A k \in 1..8 : Phase2(e)[k] = Line(Cmd(1 + k))
<1>a. \A c \in AuthCmd : Line(c) \in AuthLine
  BY DEF Line, AuthLine
<1>1. FeatureLines \in Seq(AuthLine) /\ Len(FeatureLines) = 6
      /\ \A k \in 1..6 : FeatureLines[k] = Line(Cmd(2 + k))
  <2>1. FeatureLines \in Seq(AuthLine) /\ Len(FeatureLines) = 6
    BY <1>a DEF FeatureLines, AuthCmd
  <2>2. /\ FeatureLines[1] = Line(Cmd(3)) /\ FeatureLines[2] = Line(Cmd(4))
        /\ FeatureLines[3] = Line(Cmd(5)) /\ FeatureLines[4] = Line(Cmd(6))
        /\ FeatureLines[5] = Line(Cmd(7)) /\ FeatureLines[6] = Line(Cmd(8))
    BY DEF FeatureLines, Cmd
  <2> QED
    BY <2>1, <2>2
<1>2. CASE phase[e] >= 2
  BY <1>2 DEF Phase2
<1>3. CASE ~(phase[e] >= 2)
  <2> DEFINE h == <<Line("CHALLENGE")>>
             t == <<Line("END")>>
             u == h \o FeatureLines
  <2>1. h \in Seq(AuthLine) /\ Len(h) = 1 /\ h[1] = Line(Cmd(2))
    BY <1>a DEF Cmd, AuthCmd
  <2>2. t \in Seq(AuthLine) /\ Len(t) = 1 /\ t[1] = Line(Cmd(9))
    BY <1>a DEF Cmd, AuthCmd
  <2>3. Phase2(e) = u \o t
    BY <1>3 DEF Phase2
  <2> HIDE DEF h, t
  <2>4. u \in Seq(AuthLine) /\ Len(u) = 7 /\ \A k \in 1..7 : u[k] = Line(Cmd(1 + k))
    <3>1. /\ u \in Seq(AuthLine) /\ Len(u) = Len(h) + Len(FeatureLines)
          /\ \A k \in 1..(Len(h) + Len(FeatureLines)) :
                u[k] = IF k <= Len(h) THEN h[k] ELSE FeatureLines[k - Len(h)]
      BY <2>1, <1>1, ConcatFacts
    <3> HIDE DEF u
    <3>2. /\ Len(u) = 7 /\ \A k \in 1..7 : u[k] = IF k <= 1 THEN h[k] ELSE FeatureLines[k - 1]
      BY <3>1, <2>1, <1>1
    <3>3. \A k \in 1..7 : u[k] = Line(Cmd(1 + k))
      <4> TAKE k \in 1..7
      <4>1. CASE k = 1
        BY <4>1, <3>2, <2>1
      <4>2. CASE k # 1
        <5>1. k - 1 \in 1..6 /\ 2 + (k - 1) = 1 + k /\ ~(k <= 1)
          BY <4>2
        <5>2. FeatureLines[k - 1] = Line(Cmd(2 + (k - 1)))
          BY <5>1, <1>1
        <5> QED
          BY <5>1, <5>2, <3>2
      <4> QED
        BY <4>1, <4>2
    <3> QED
      BY <3>1, <3>2, <3>3
  <2> HIDE DEF u
  <2>5. /\ u \o t \in Seq(AuthLine) /\ Len(u \o t) = Len(u) + Len(t)
        /\ \A k \in 1..(Len(u) + Len(t)) :
              (u \o t)[k] = IF k <= Len(u) THEN u[k] ELSE t[k - Len(u)]
    BY <2>2, <2>4, ConcatFacts
  <2> DEFINE v == u \o t
  <2>6. v \in Seq(AuthLine) /\ Len(v) = 8 /\ \A k \in 1..8 : v[k] = IF k <= 7 THEN u[k] ELSE t[k - 7]
    BY <2>5, <2>2, <2>4
  <2>7. Phase2(e) = v
    BY <2>3
  <2> HIDE DEF v
  <2>8. \A k \in 1..8 : v[k] = Line(Cmd(1 + k))
    BY <2>2, <2>4, <2>6
  <2>9. phase[e] # 2
    BY <1>3
  <2> QED
    BY <2>6, <2>7, <2>8, <2>9
<1> QED
  BY <1>2, <1>3

(* What SendCapabilities(2) and a line after it write *)
LEMMA WithPhase2Lines ==
    ASSUME NEW e \in Ends
    PROVE  /\ Phase2(e) \o <<>> = Phase2(e)
           /\ \A x \in AuthLine : Phase2(e) \o <<x>> \in Seq(AuthLine)
           /\ phase[e] = 2 => \A x \in AuthLine : /\ Len(Phase2(e) \o <<x>>) = 1
                                                  /\ (Phase2(e) \o <<x>>)[1] = x
<1>1. Phase2(e) \in Seq(AuthLine)
  BY Phase2Lines
<1>2. Phase2(e) \o <<>> = Phase2(e)
  BY <1>1, ConcatNothing
<1>3. \A x \in AuthLine : <<x>> \in Seq(AuthLine) /\ <<>> \o <<x>> = <<x>>
  BY ConcatNothing
<1>4. \A x \in AuthLine : Phase2(e) \o <<x>> \in Seq(AuthLine)
  BY <1>1, <1>3, ConcatFacts
<1>5. phase[e] = 2 => \A x \in AuthLine : Phase2(e) \o <<x>> = <<x>>
  BY <1>3, Phase2Lines
<1> QED
  BY <1>2, <1>4, <1>5

(* The lines that an end sends, and the numbers in them *)
LEMMA LineTypes ==
    ASSUME AuthTypeOK, NEW e \in Ends
    PROVE  /\ ServerLine(e) \in AuthLine /\ ServerLine(e).cmd = "SERVER"
           /\ BurstLine(e) \in AuthLine /\ BurstLine(e).cmd = "BURST"
           /\ BurstLine("out").ts = clock /\ BurstLine(e).ts = Time(e)
           /\ Line("ERROR") \in AuthLine
           /\ clock \in Nat /\ Time(e) \in Int /\ conf.offset \in Int /\ MaxDelta \in Nat /\ MaxClock \in Nat
<1>1. clock \in Nat /\ conf.offset \in Int /\ MaxDelta \in Nat /\ MaxClock \in Nat
  BY LinkAuthAssumption DEF AuthTypeOK
<1>2. Time(e) \in Int /\ Time("out") = clock
  BY <1>1 DEF Time
<1>3. MakePass(e, theirs[e]) \in {"plain", "hmac"}
  BY DEF MakePass
<1> QED
  BY <1>1, <1>2, <1>3 DEF ServerLine, BurstLine, Line, AuthLine, AuthCmd

(* Giving up is for good, and a step keeps the types. *)
LEMMA SendErrorType ==
    ASSUME AuthInv, NEW e \in Ends, pipe[e] # <<>>, SendError(e)
    PROVE  /\ pipe' \in [Ends -> Seq(AuthLine)]
           /\ linkState' = [linkState EXCEPT ![e] = "DYING"] /\ UNCHANGED <<phase, challenge>>
<1>1. <<Line("ERROR")>> \in Seq(AuthLine)
  BY LineTypes DEF AuthInv
<1> QED
  BY <1>1, ReplyType DEF SendError, AuthInv

(* SendCapabilities(2) leaves lines in the pipes. *)
LEMMA WithPhase2Type ==
    ASSUME AuthInv, NEW e \in Ends, pipe[e] # <<>>, NEW x \in AuthLine,
           WithPhase2(e, <<x>>) \/ WithPhase2(e, <<>>)
    PROVE  /\ pipe' \in [Ends -> Seq(AuthLine)]
           /\ phase' \in [Ends -> {1, 2}] /\ challenge' \in [Ends -> BOOLEAN]
<1>1. Phase2(e) \o <<x>> \in Seq(AuthLine) /\ Phase2(e) \o <<>> \in Seq(AuthLine)
  BY WithPhase2Lines, Phase2Lines
<1>2. pipe' \in [Ends -> Seq(AuthLine)]
  BY <1>1, ReplyType DEF WithPhase2, AuthInv
<1> QED
  BY <1>2 DEF WithPhase2, AuthInv, AuthTypeOK

(* A step of an end keeps the types, and an end that is dying stays so. *)
LEMMA AuthStepTypes ==
    ASSUME AuthInv, NEW e \in Ends, ReadLine(e) \/ DoConnectTimeout(e)
    PROVE  /\ AuthTypeOK' /\ pipe' \in [Ends -> Seq(AuthLine)]
           /\ \A x \in Ends : linkState[x] = "DYING" => linkState'[x] = "DYING"
<1> USE DEF AuthInv
<1>a. pipe \in [Ends -> Seq(AuthLine)] /\ <<>> \in Seq(AuthLine) /\ AuthTypeOK
  OBVIOUS
<1>b. ServerLine(e) \in AuthLine /\ BurstLine(e) \in AuthLine /\ Line("ERROR") \in AuthLine
  BY LineTypes
<1>1. CASE CapabStart(e)
  BY <1>1, <1>b, WithPhase2Type DEF CapabStart, Reads, AuthTypeOK
<1>2. CASE CapabChallenge(e)
  BY <1>2, <1>a, ReplyType DEF CapabChallenge, Reads, AuthTypeOK
<1>3. ASSUME NEW f \in FatalFeature \cup OptionalFeature, CapabList(e, f)
      PROVE  AuthTypeOK' /\ pipe' \in [Ends -> Seq(AuthLine)] /\ linkState' = linkState
  BY <1>3, <1>a, ReplyType DEF CapabList, Reads, AuthTypeOK
<1>4. CASE CapabEnd(e)
  <2>0. pipe[e] # <<>> /\ UNCHANGED <<conf, theirs, lists, clock>>
        /\ linkState[e] # "DYING"
    BY <1>4 DEF CapabEnd, Reads
  <2>1. CASE SendError(e)
    BY <2>0, <2>1, SendErrorType DEF AuthTypeOK
  <2>2. CASE WithPhase2(e, <<ServerLine(e)>>) /\ UNCHANGED linkState
    BY <2>0, <2>2, <1>b, WithPhase2Type DEF AuthTypeOK
  <2>3. CASE Reply(e, <<>>) /\ UNCHANGED <<linkState, phase, challenge>>
    BY <2>0, <2>3, <1>a, ReplyType DEF AuthTypeOK
  <2> QED
    BY <1>4, <2>1, <2>2, <2>3 DEF CapabEnd
<1>5. CASE InboundServer(e)
  <2>0. pipe[e] # <<>> /\ UNCHANGED <<conf, theirs, lists, clock>>
    BY <1>5 DEF InboundServer, Reads
  <2>1. CASE SendError(e)
    BY <2>0, <2>1, SendErrorType DEF AuthTypeOK
  <2>2. CASE WithPhase2(e, <<ServerLine(e)>>) /\ linkState' = [linkState EXCEPT ![e] = "WAIT_AUTH_2"]
    BY <2>0, <2>2, <1>5, <1>b, WithPhase2Type DEF InboundServer, Reads, AuthTypeOK
  <2> QED
    BY <1>5, <2>1, <2>2 DEF InboundServer
<1>6. CASE OutboundReplyServer(e)
  <2>0. pipe[e] # <<>> /\ UNCHANGED <<conf, theirs, lists, clock>>
    BY <1>6 DEF OutboundReplyServer, Reads
  <2>1. CASE SendError(e)
    BY <2>0, <2>1, SendErrorType DEF AuthTypeOK
  <2>2. CASE WithPhase2(e, <<BurstLine(e)>>) /\ linkState' = [linkState EXCEPT ![e] = "CONNECTED"]
    BY <2>0, <2>2, <1>6, <1>b, WithPhase2Type DEF OutboundReplyServer, Reads, AuthTypeOK
  <2> QED
    BY <1>6, <2>1, <2>2 DEF OutboundReplyServer
<1>7. CASE InboundBurst(e)
  <2>0. pipe[e] # <<>> /\ UNCHANGED <<conf, theirs, lists, clock>>
    BY <1>7 DEF InboundBurst, Reads
  <2>1. CASE SendError(e)
    BY <2>0, <2>1, SendErrorType DEF AuthTypeOK
  <2>2. CASE Reply(e, <<BurstLine(e)>>) /\ linkState' = [linkState EXCEPT ![e] = "CONNECTED"]
             /\ UNCHANGED <<phase, challenge>>
    <3>1. <<BurstLine(e)>> \in Seq(AuthLine)
      BY <1>b
    <3> QED
      BY <2>0, <2>2, <3>1, <1>7, ReplyType DEF InboundBurst, Reads, AuthTypeOK
  <2> QED
    BY <1>7, <2>1, <2>2 DEF InboundBurst
<1>8. CASE ConnectedBurst(e)
  BY <1>8, <1>a, ReplyType DEF ConnectedBurst, Reads, AuthTypeOK
<1>9. CASE PeerGone(e)
  BY <1>9, <1>a, ReplyType DEF PeerGone, Reads, AuthTypeOK
<1>10. CASE DoConnectTimeout(e)
  <2>1. pipe' \in [Ends -> Seq(AuthLine)]
    BY <1>10, <1>b, OtherEnd, AppendFacts DEF DoConnectTimeout
  <2> QED
    BY <1>10, <2>1 DEF DoConnectTimeout, AuthTypeOK
<1> QED
  BY <1>1, <1>2, <1>3, <1>4, <1>5, <1>6, <1>7, <1>8, <1>9, <1>10 DEF ReadLine

(* A line that needs no answer, read with n lines before it *)
LEMMA SilentLines ==
    ASSUME NEW e \in Ends, NEW n \in 0..10,
           n \in 1..7 \/ (e = "in" /\ n = 8) \/ (e = "out" /\ n = 10)
    PROVE  NextLines(e, n, <<>>) /\ <<>> \in Seq(AuthLine)
BY DEF NextLines, Sent, Ends

(* Nobody gives up in the step: the reader is one line further, and has *)
(* answered as the negotiation wants.                                   *)
LEMMA CapabStartProgress ==
    ASSUME AuthInv, NEW r \in [Ends -> 0..11], Progress(r), NEW e \in Ends, CapabStart(e)
    PROVE  \E q \in [Ends -> 0..11] : Progress(q)'
<1>1. /\ r[e] \in 0..10 /\ Cmd(r[e] + 1) = "START" /\ KnownAt(e, r[e]) /\ pipe[e] # <<>>
  BY NextRead DEF CapabStart
<1>2. r[e] = 0
  BY <1>1, CmdOf
<1>3. phase[e] = 1 /\ Phase2(e) \in Seq(AuthLine) /\ Len(Phase2(e)) = 8
      /\ \A k \in 1..8 : Phase2(e)[k] = Line(Cmd(1 + k))
  BY <1>1, <1>2, Phase2Lines DEF KnownAt
<1>4. Reply(e, Phase2(e))
  BY WithPhase2Lines DEF CapabStart, WithPhase2
<1>5. NextLines(e, 0, Phase2(e))
  <2>1. Sent(e, 0 + 1) - Sent(e, 0) = 8 /\ Sent(e, 0) = 1
    BY DEF Sent
  <2>2. \A k \in 1..8 : Phase2(e)[k].cmd = Cmd(1 + k) /\ Phase2(e)[k].cmd # "BURST"
    <3> TAKE k \in 1..8
    <3>1. Phase2(e)[k].cmd = Cmd(1 + k)
      BY <1>3 DEF Line
    <3>2. 1 + k \in 1..11 /\ 1 + k # 11
      OBVIOUS
    <3> QED
      BY <3>1, <3>2, CmdOf
  <2> QED
    BY <2>1, <2>2, <1>3 DEF NextLines
<1>6. KnownAt(e, 0 + 1)'
  <2>1. linkState'[e] = StateAt(e, 0 + 1)
    BY <1>1, <1>2 DEF KnownAt, StateAt, CapabStart
  <2>2. phase'[e] = 2
    BY DEF CapabStart, WithPhase2, AuthInv, AuthTypeOK
  <2>3. lists'[e] = {} /\ {Cmd(k) : k \in {j \in 3..8 : j <= 0 + 1}} = {}
    BY DEF CapabStart, AuthInv, AuthTypeOK
  <2> QED
    BY <2>1, <2>2, <2>3 DEF KnownAt
<1>7. /\ UNCHANGED <<conf, clock>>
      /\ linkState'[Other(e)] = linkState[Other(e)] /\ phase'[Other(e)] = phase[Other(e)]
      /\ lists'[Other(e)] = lists[Other(e)]
  BY OtherEnd DEF CapabStart, WithPhase2, AuthInv, AuthTypeOK
<1>8. r[e] < 11 /\ NextLines(e, r[e], Phase2(e)) /\ KnownAt(e, r[e] + 1)'
  BY <1>2, <1>5, <1>6
<1> QED
  BY <1>1, <1>3, <1>4, <1>7, <1>8, ReadKeeps

(* Reading the challenge is one line of progress. *)
LEMMA CapabChallengeProgress ==
    ASSUME AuthInv, NEW r \in [Ends -> 0..11], Progress(r), NEW e \in Ends, CapabChallenge(e)
    PROVE  \E q \in [Ends -> 0..11] : Progress(q)'
<1>1. /\ r[e] \in 0..10 /\ Cmd(r[e] + 1) = "CHALLENGE" /\ KnownAt(e, r[e]) /\ pipe[e] # <<>>
  BY NextRead DEF CapabChallenge
<1>2. r[e] = 1
  BY <1>1, CmdOf
<1>3. NextLines(e, 1, <<>>) /\ <<>> \in Seq(AuthLine)
  BY SilentLines
<1>4. KnownAt(e, 1 + 1)'
  <2>1. linkState'[e] = StateAt(e, 1 + 1) /\ phase'[e] = 2
    BY <1>1, <1>2 DEF KnownAt, StateAt, CapabChallenge
  <2>2. {j \in 3..8 : j <= 1 + 1} = {j \in 3..8 : j <= 1}
    OBVIOUS
  <2>3. lists'[e] = {Cmd(k) : k \in {j \in 3..8 : j <= 1 + 1}}
    BY <1>1, <1>2, <2>2 DEF KnownAt, CapabChallenge
  <2> QED
    BY <2>1, <2>3 DEF KnownAt
<1>5. /\ UNCHANGED <<conf, clock, linkState, phase, lists>> /\ Reply(e, <<>>)
  BY DEF CapabChallenge
<1>6. r[e] < 11 /\ NextLines(e, r[e], <<>>) /\ KnownAt(e, r[e] + 1)'
  BY <1>2, <1>3, <1>4
<1> QED
  BY <1>1, <1>3, <1>5, <1>6, ReadKeeps

(* Reading a list of features is one line of progress. *)
LEMMA CapabListProgress ==
    ASSUME AuthInv, NEW r \in [Ends -> 0..11], Progress(r), NEW e \in Ends,
           NEW f \in FatalFeature \cup OptionalFeature, CapabList(e, f)
    PROVE  \E q \in [Ends -> 0..11] : Progress(q)'
<1>1. /\ r[e] \in 0..10 /\ Cmd(r[e] + 1) = f /\ KnownAt(e, r[e]) /\ pipe[e] # <<>>
  BY NextRead DEF CapabList
<1>2. PICK n \in 0..10 : n = r[e]
  BY <1>1
<1>3. n + 1 \in 3..8
  <2>1. f \notin {"START", "CHALLENGE", "END", "SERVER", "BURST"}
    BY DEF FatalFeature, OptionalFeature
  <2>2. n + 1 \in 1..11 /\ n + 1 # 1 /\ n + 1 # 2 /\ n + 1 # 9 /\ n + 1 # 10 /\ n + 1 # 11
    BY <2>1, <1>1, <1>2, CmdOf
  <2> QED
    BY <2>2
<1>4. NextLines(e, n, <<>>) /\ <<>> \in Seq(AuthLine)
  BY <1>3, SilentLines
<1>5. KnownAt(e, n + 1)'
  <2>1. linkState'[e] = StateAt(e, n + 1) /\ phase'[e] = 2
    BY <1>1, <1>2, <1>3 DEF KnownAt, StateAt, CapabList
  <2>2. {j \in 3..8 : j <= n + 1} = {j \in 3..8 : j <= n} \cup {n + 1}
    BY <1>3
  <2>3. lists'[e] = lists[e] \cup {Cmd(n + 1)}
    BY <1>1, <1>2 DEF CapabList, AuthInv, AuthTypeOK
  <2>4. lists[e] = {Cmd(k) : k \in {j \in 3..8 : j <= n}}
    BY <1>1, <1>2 DEF KnownAt
  <2>5. lists'[e] = {Cmd(k) : k \in {j \in 3..8 : j <= n + 1}}
    BY <2>2, <2>3, <2>4
  <2>6. ~(n + 1 >= 9) /\ ~(n + 1 >= 10) /\ n + 1 # 11 /\ n + 1 # 0
    BY <1>3
  <2> QED
    BY <2>1, <2>5, <2>6 DEF KnownAt
<1>6. /\ UNCHANGED <<conf, clock, linkState, phase>> /\ Reply(e, <<>>)
      /\ lists'[Other(e)] = lists[Other(e)]
  BY OtherEnd DEF CapabList, AuthInv, AuthTypeOK
<1>7. r[e] < 11
  BY <1>1
<1> QED
  BY <1>1, <1>2, <1>4, <1>5, <1>6, <1>7, ReadKeeps

(* SendError is not taken in a step after which the end is alive. *)
LEMMA NotDying ==
    ASSUME AuthInv, NEW e \in Ends, linkState'[e] # "DYING"
    PROVE  ~SendError(e)
BY DEF SendError, AuthInv, AuthTypeOK

(* Reading CAPAB END is one line of progress: the lists were compared. *)
LEMMA CapabEndProgress ==
    ASSUME AuthInv, NEW r \in [Ends -> 0..11], Progress(r), NEW e \in Ends, CapabEnd(e),
           linkState'[e] # "DYING"
    PROVE  \E q \in [Ends -> 0..11] : Progress(q)'
<1>1. /\ r[e] \in 0..10 /\ Cmd(r[e] + 1) = "END" /\ KnownAt(e, r[e]) /\ pipe[e] # <<>>
  BY NextRead DEF CapabEnd
<1>2. r[e] = 8
  BY <1>1, CmdOf
<1>3. Accepts(e)
  BY NotDying DEF CapabEnd
<1>4. /\ linkState[e] = StateAt(e, 8) /\ phase[e] = 2
      /\ lists[e] = {Cmd(k) : k \in {j \in 3..8 : j <= 8}}
  BY <1>1, <1>2 DEF KnownAt
<1>5. lists[e] = FatalFeature \cup OptionalFeature
  <2>1. {j \in 3..8 : j <= 8} = {3, 4, 5, 6, 7, 8}
    OBVIOUS
  <2>2. lists[e] = {Cmd(k) : k \in {3, 4, 5, 6, 7, 8}}
    BY <1>4, <2>1
  <2>3. /\ Cmd(3) = "CAPABILITIES" /\ Cmd(4) = "MODULES" /\ Cmd(5) = "MODSUPPORT"
        /\ Cmd(6) = "CHANMODES" /\ Cmd(7) = "USERMODES" /\ Cmd(8) = "EXTBANS"
    BY DEF Cmd
  <2>4. lists[e] = {Cmd(3), Cmd(4), Cmd(5), Cmd(6), Cmd(7), Cmd(8)}
    BY <2>2
  <2> QED
    BY <2>3, <2>4 DEF FatalFeature, OptionalFeature
<1>6. conf.differ \cap FatalFeature = {}
      /\ (conf.differ \cap OptionalFeature = {} \/ conf.allowmismatch[e])
  BY <1>3, <1>5 DEF Accepts, FatalMismatch, OptionalMismatch
<1>7. /\ UNCHANGED <<conf, clock, lists, linkState>>
  BY <1>3 DEF CapabEnd
<1>8. phase'[e] = 2 /\ phase'[Other(e)] = phase[Other(e)]
  BY <1>3, <1>4, OtherEnd DEF CapabEnd, WithPhase2, AuthInv, AuthTypeOK
<1>9. KnownAt(e, 8 + 1)'
  <2>1. linkState'[e] = StateAt(e, 8 + 1)
    BY <1>4, <1>7 DEF StateAt
  <2>2. {j \in 3..8 : j <= 8 + 1} = {j \in 3..8 : j <= 8}
    OBVIOUS
  <2>3. lists'[e] = {Cmd(k) : k \in {j \in 3..8 : j <= 8 + 1}}
    BY <1>4, <1>7, <2>2
  <2> QED
    BY <2>1, <2>3, <1>6, <1>7, <1>8 DEF KnownAt
<1>10. r[e] < 11 /\ KnownAt(e, r[e] + 1)'
  BY <1>2, <1>9
<1>11. CASE e = "in"
  <2>1. NextLines(e, 8, <<>>) /\ <<>> \in Seq(AuthLine)
    BY <1>11, SilentLines
  <2>2. linkState[e] # "CONNECTING"
    BY <1>4, <1>11 DEF StateAt
  <2>3. Reply(e, <<>>)
    BY <2>2, <1>3 DEF CapabEnd
  <2>4. NextLines(e, r[e], <<>>)
    BY <2>1, <1>2
  <2> QED
    BY <2>1, <2>3, <2>4, <1>1, <1>7, <1>8, <1>10, ReadKeeps
<1>12. CASE e = "out"
  <2> DEFINE out == Phase2(e) \o <<ServerLine(e)>>
  <2>1. ServerLine(e) \in AuthLine /\ ServerLine(e).cmd = "SERVER"
    BY LineTypes DEF AuthInv
  <2>2. out \in Seq(AuthLine) /\ Len(out) = 1 /\ out[1] = ServerLine(e)
    BY <2>1, <1>4, WithPhase2Lines
  <2>3. Reply(e, out)
    BY <1>3, <1>4, <1>12 DEF CapabEnd, WithPhase2, StateAt
  <2> HIDE DEF out
  <2>4. Sent("out", 8 + 1) - Sent("out", 8) = 1 /\ Sent("out", 8) = 9 /\ Cmd(9 + 1) = "SERVER"
    BY DEF Sent, Cmd
  <2>5. NextLines(e, 8, out)
    BY <2>1, <2>2, <2>4, <1>12 DEF NextLines
  <2>6. NextLines(e, r[e], out)
    BY <2>5, <1>2
  <2> QED
    BY <2>2, <2>3, <2>6, <1>1, <1>7, <1>8, <1>10, ReadKeeps
<1> QED
  BY <1>11, <1>12 DEF Ends

(* Reading SERVER at the inbound end is one line of progress: the password was right. *)
LEMMA InboundServerProgress ==
    ASSUME AuthInv, NEW r \in [Ends -> 0..11], Progress(r), NEW e \in Ends, InboundServer(e),
           linkState'[e] # "DYING"
    PROVE  \E q \in [Ends -> 0..11] : Progress(q)'
<1>1. /\ r[e] \in 0..10 /\ Cmd(r[e] + 1) = "SERVER" /\ KnownAt(e, r[e]) /\ pipe[e] # <<>>
  BY NextRead DEF InboundServer
<1>2. r[e] = 9
  BY <1>1, CmdOf
<1>3. ComparePass(e, Head(pipe[e]).arg)
  BY NotDying DEF InboundServer
<1>4. /\ linkState[e] = StateAt(e, 9) /\ phase[e] = 2
      /\ lists[e] = {Cmd(k) : k \in {j \in 3..8 : j <= 9}}
      /\ conf.differ \cap FatalFeature = {}
      /\ (conf.differ \cap OptionalFeature = {} \/ conf.allowmismatch[e])
  BY <1>1, <1>2 DEF KnownAt
<1>5. e = "in"
  BY <1>4 DEF InboundServer, StateAt, Ends
<1>6. /\ UNCHANGED <<conf, clock, lists>> /\ conf.knows[Other(e)]
      /\ linkState'[e] = "WAIT_AUTH_2" /\ linkState'[Other(e)] = linkState[Other(e)]
      /\ phase'[e] = 2 /\ phase'[Other(e)] = phase[Other(e)]
  BY <1>3, OtherEnd DEF InboundServer, WithPhase2, AuthInv, AuthTypeOK, ComparePass
<1>7. KnownAt(e, 9 + 1)'
  <2>1. linkState'[e] = StateAt(e, 9 + 1)
    BY <1>5, <1>6 DEF StateAt
  <2>2. {j \in 3..8 : j <= 9 + 1} = {j \in 3..8 : j <= 9}
    OBVIOUS
  <2>3. lists'[e] = {Cmd(k) : k \in {j \in 3..8 : j <= 9 + 1}}
    BY <1>4, <1>6, <2>2
  <2> QED
    BY <2>1, <2>3, <1>4, <1>6 DEF KnownAt
<1> DEFINE out == Phase2(e) \o <<ServerLine(e)>>
<1>8. ServerLine(e) \in AuthLine /\ ServerLine(e).cmd = "SERVER"
  BY LineTypes DEF AuthInv
<1>9. out \in Seq(AuthLine) /\ Len(out) = 1 /\ out[1] = ServerLine(e)
  BY <1>8, <1>4, WithPhase2Lines
<1>10. Reply(e, out)
  BY <1>3 DEF InboundServer, WithPhase2
<1> HIDE DEF out
<1>11. Sent("in", 9 + 1) - Sent("in", 9) = 1 /\ Sent("in", 9) = 9 /\ Cmd(9 + 1) = "SERVER"
  BY DEF Sent, Cmd
<1>12. NextLines(e, 9, out)
  BY <1>5, <1>8, <1>9, <1>11 DEF NextLines
<1>13. r[e] < 11 /\ KnownAt(e, r[e] + 1)' /\ NextLines(e, r[e], out)
  BY <1>2, <1>7, <1>12
<1> QED
  BY <1>1, <1>6, <1>9, <1>10, <1>13, ReadKeeps

(* Reading the SERVER that answers is one line of progress: the password was right. *)
LEMMA OutboundReplyProgress ==
    ASSUME AuthInv, NEW r \in [Ends -> 0..11], Progress(r), NEW e \in Ends, OutboundReplyServer(e),
           linkState'[e] # "DYING"
    PROVE  \E q \in [Ends -> 0..11] : Progress(q)'
<1>1. /\ r[e] \in 0..10 /\ Cmd(r[e] + 1) = "SERVER" /\ KnownAt(e, r[e]) /\ pipe[e] # <<>>
  BY NextRead DEF OutboundReplyServer
<1>2. r[e] = 9
  BY <1>1, CmdOf
<1>3. ComparePass(e, Head(pipe[e]).arg)
  BY NotDying DEF OutboundReplyServer
<1>4. /\ linkState[e] = StateAt(e, 9) /\ phase[e] = 2
      /\ lists[e] = {Cmd(k) : k \in {j \in 3..8 : j <= 9}}
      /\ conf.differ \cap FatalFeature = {}
      /\ (conf.differ \cap OptionalFeature = {} \/ conf.allowmismatch[e])
  BY <1>1, <1>2 DEF KnownAt
<1>5. e = "out"
  BY <1>4 DEF OutboundReplyServer, StateAt, Ends
<1>6. /\ UNCHANGED <<conf, clock, lists>> /\ conf.knows[Other(e)]
      /\ linkState'[e] = "CONNECTED" /\ linkState'[Other(e)] = linkState[Other(e)]
      /\ phase'[e] = 2 /\ phase'[Other(e)] = phase[Other(e)]
  BY <1>3, OtherEnd DEF OutboundReplyServer, WithPhase2, AuthInv, AuthTypeOK, ComparePass
<1>7. KnownAt(e, 9 + 1)'
  <2>1. linkState'[e] = StateAt(e, 9 + 1)
    BY <1>5, <1>6 DEF StateAt
  <2>2. {j \in 3..8 : j <= 9 + 1} = {j \in 3..8 : j <= 9}
    OBVIOUS
  <2>3. lists'[e] = {Cmd(k) : k \in {j \in 3..8 : j <= 9 + 1}}
    BY <1>4, <1>6, <2>2
  <2> QED
    BY <2>1, <2>3, <1>4, <1>6 DEF KnownAt
<1> DEFINE out == Phase2(e) \o <<BurstLine(e)>>
<1>8. BurstLine(e) \in AuthLine /\ BurstLine(e).cmd = "BURST" /\ BurstLine(e).ts \in 0..clock
  BY <1>5, LineTypes DEF AuthInv
<1>9. out \in Seq(AuthLine) /\ Len(out) = 1 /\ out[1] = BurstLine(e)
  BY <1>8, <1>4, WithPhase2Lines
<1>10. Reply(e, out)
  BY <1>3 DEF OutboundReplyServer, WithPhase2
<1> HIDE DEF out
<1>11. Sent("out", 9 + 1) - Sent("out", 9) = 1 /\ Sent("out", 9) = 10 /\ Cmd(10 + 1) = "BURST"
  BY DEF Sent, Cmd
<1>12. NextLines(e, 9, out)
  BY <1>5, <1>8, <1>9, <1>11 DEF NextLines
<1>13. r[e] < 11 /\ KnownAt(e, r[e] + 1)' /\ NextLines(e, r[e], out)
  BY <1>2, <1>7, <1>12
<1> QED
  BY <1>1, <1>6, <1>9, <1>10, <1>13, ReadKeeps

(* The accepting end compares its clock with the time in the BURST. *)
LEMMA InboundBurstProgress ==
    ASSUME AuthInv, NEW r \in [Ends -> 0..11], Progress(r), NEW e \in Ends, InboundBurst(e),
           linkState'[e] # "DYING"
    PROVE  \E q \in [Ends -> 0..11] : Progress(q)'
<1>1. /\ r[e] \in 0..10 /\ Cmd(r[e] + 1) = "BURST" /\ KnownAt(e, r[e]) /\ pipe[e] # <<>>
      /\ Head(pipe[e]) = pipe[e][1] /\ 1 \in 1..Len(pipe[e]) /\ Head(pipe[e]).cmd = "BURST"
  BY NextRead DEF InboundBurst, Reads
<1>2. r[e] = 10
  BY <1>1, CmdOf
<1>3. ~(Delta(e) > MaxDelta)
  BY NotDying DEF InboundBurst
<1>4. /\ linkState[e] = StateAt(e, 10) /\ phase[e] = 2
      /\ lists[e] = {Cmd(k) : k \in {j \in 3..8 : j <= 10}}
      /\ conf.differ \cap FatalFeature = {} /\ conf.knows[Other(e)]
      /\ (conf.differ \cap OptionalFeature = {} \/ conf.allowmismatch[e])
  BY <1>1, <1>2 DEF KnownAt
<1>5. e = "in"
  BY <1>4 DEF InboundBurst, StateAt, Ends
<1>6. /\ UNCHANGED <<conf, clock, lists, phase>>
      /\ linkState'[e] = "CONNECTED" /\ linkState'[Other(e)] = linkState[Other(e)]
      /\ Reply(e, <<BurstLine(e)>>)
  BY <1>3, OtherEnd DEF InboundBurst, AuthInv, AuthTypeOK
<1>t. conf.offset <= MaxDelta /\ -conf.offset <= MaxDelta + MaxClock
  <2>1. Head(pipe[e]).ts \in 0..clock
    BY <1>1, <1>5 DEF Progress, BurstTimed
  <2>2. clock \in 0..MaxClock /\ conf.offset \in Int /\ MaxDelta \in Nat /\ MaxClock \in Nat
    BY LineTypes DEF AuthInv, AuthTypeOK
  <2>3. PICK t \in 0..clock, o \in Int, c \in 0..MaxClock :
          t = Head(pipe[e]).ts /\ o = conf.offset /\ c = clock
    BY <2>1, <2>2
  <2>4. Delta(e) = IF t - (c + o) < 0 THEN -(t - (c + o)) ELSE t - (c + o)
    BY <2>3, <1>5 DEF Delta, Time
  <2>5. o <= MaxDelta /\ -o <= MaxDelta + MaxClock
    BY <2>2, <2>3, <2>4, <1>3
  <2> QED
    BY <2>3, <2>5
<1>7. KnownAt(e, 10 + 1)'
  <2>1. linkState'[e] = StateAt(e, 10 + 1)
    BY <1>5, <1>6 DEF StateAt
  <2>2. {j \in 3..8 : j <= 10 + 1} = {j \in 3..8 : j <= 10}
    OBVIOUS
  <2>3. lists'[e] = {Cmd(k) : k \in {j \in 3..8 : j <= 10 + 1}}
    BY <1>4, <1>6, <2>2
  <2> QED
    BY <2>1, <2>3, <1>4, <1>6, <1>t DEF KnownAt
<1> DEFINE out == <<BurstLine(e)>>
<1>8. BurstLine(e) \in AuthLine /\ BurstLine(e).cmd = "BURST"
  BY LineTypes DEF AuthInv
<1>9. out \in Seq(AuthLine) /\ Len(out) = 1 /\ out[1] = BurstLine(e) /\ Reply(e, out)
  BY <1>8, <1>6
<1> HIDE DEF out
<1>11. Sent("in", 10 + 1) - Sent("in", 10) = 1 /\ Sent("in", 10) = 10 /\ Cmd(10 + 1) = "BURST"
  BY DEF Sent, Cmd
<1>12. NextLines(e, 10, out)
  BY <1>5, <1>8, <1>9, <1>11 DEF NextLines
<1>13. r[e] < 11 /\ KnownAt(e, r[e] + 1)' /\ NextLines(e, r[e], out)
  BY <1>2, <1>7, <1>12
<1> QED
  BY <1>1, <1>6, <1>9, <1>13, ReadKeeps

(* Reading BURST is one line of progress: the clocks were compared. *)
LEMMA ConnectedBurstProgress ==
    ASSUME AuthInv, NEW r \in [Ends -> 0..11], Progress(r), NEW e \in Ends, ConnectedBurst(e)
    PROVE  \E q \in [Ends -> 0..11] : Progress(q)'
<1>1. /\ r[e] \in 0..10 /\ Cmd(r[e] + 1) = "BURST" /\ KnownAt(e, r[e]) /\ pipe[e] # <<>>
  BY NextRead DEF ConnectedBurst
<1>2. r[e] = 10
  BY <1>1, CmdOf
<1>3. KnownAt(e, 10)
  BY <1>1, <1>2
<1>4. e = "out"
  BY <1>3 DEF ConnectedBurst, KnownAt, StateAt, Ends
<1>5. NextLines(e, 10, <<>>) /\ <<>> \in Seq(AuthLine)
  BY <1>4, SilentLines
<1>6. UNCHANGED <<conf, clock, lists, phase, linkState>> /\ Reply(e, <<>>)
  BY DEF ConnectedBurst
<1>7. KnownAt(e, 10 + 1)'
  <2>1. StateAt(e, 10) = StateAt(e, 10 + 1)
    BY <1>4 DEF StateAt
  <2>2. {j \in 3..8 : j <= 10 + 1} = {j \in 3..8 : j <= 10}
    OBVIOUS
  <2>3. lists'[e] = {Cmd(k) : k \in {j \in 3..8 : j <= 10 + 1}}
    BY <1>3, <1>6, <2>2 DEF KnownAt
  <2> QED
    BY <2>1, <2>3, <1>3, <1>4, <1>6 DEF KnownAt
<1>8. r[e] < 11 /\ KnownAt(e, r[e] + 1)' /\ NextLines(e, r[e], <<>>)
  BY <1>2, <1>5, <1>7
<1> QED
  BY <1>1, <1>5, <1>6, <1>8, ReadKeeps

(* Time may pass during a negotiation. *)
LEMMA ClockTickKeeps ==
    ASSUME AuthInv, ClockTick
    PROVE  AuthInv'
<1>1. AuthTypeOK' /\ pipe' \in [Ends -> Seq(AuthLine)]
  BY LinkAuthAssumption DEF AuthInv, AuthTypeOK, ClockTick
<1>2. ASSUME \A e \in Ends : linkState'[e] # "DYING"
      PROVE  \E r \in [Ends -> 0..11] : Progress(r)'
  <2>1. PICK r \in [Ends -> 0..11] : Progress(r)
    BY <1>2 DEF AuthInv, ClockTick
  <2>2. BurstTimed'
    <3>1. 0..clock \subseteq 0..clock'
      BY LinkAuthAssumption DEF ClockTick, AuthInv, AuthTypeOK
    <3> QED
      BY <2>1, <3>1 DEF BurstTimed, ClockTick, Progress
  <2>3. \A e \in Ends : PipeAt(e, r)' /\ KnownAt(e, r[e])'
    BY <2>1 DEF Progress, PipeAt, KnownAt, ClockTick
  <2> QED
    BY <2>2, <2>3 DEF Progress
<1> QED
  BY <1>1, <1>2 DEF AuthInv

(* Every step of an end keeps the invariant. *)
LEMMA AuthStepKeeps ==
    ASSUME AuthInv, NEW e \in Ends, ReadLine(e) \/ DoConnectTimeout(e)
    PROVE  AuthInv'
<1>1. /\ AuthTypeOK' /\ pipe' \in [Ends -> Seq(AuthLine)]
      /\ \A x \in Ends : linkState[x] = "DYING" => linkState'[x] = "DYING"
  BY AuthStepTypes
<1>2. ASSUME \A x \in Ends : linkState'[x] # "DYING"
      PROVE  \E q \in [Ends -> 0..11] : Progress(q)'
  <2>1. PICK r \in [Ends -> 0..11] : Progress(r)
    BY <1>1, <1>2 DEF AuthInv
  <2>2. ~DoConnectTimeout(e)
    BY <1>2 DEF DoConnectTimeout, AuthInv, AuthTypeOK
  <2>3. ~PeerGone(e)
    BY <1>2 DEF PeerGone, AuthInv, AuthTypeOK
  <2>4. linkState'[e] # "DYING"
    BY <1>2
  <2>5. CASE CapabStart(e)
    BY <2>1, <2>5, CapabStartProgress
  <2>6. CASE CapabChallenge(e)
    BY <2>1, <2>6, CapabChallengeProgress
  <2>7. CASE \E f \in FatalFeature \cup OptionalFeature : CapabList(e, f)
    BY <2>1, <2>7, CapabListProgress
  <2>8. CASE CapabEnd(e)
    BY <2>1, <2>4, <2>8, CapabEndProgress
  <2>9. CASE InboundServer(e)
    BY <2>1, <2>4, <2>9, InboundServerProgress
  <2>10. CASE OutboundReplyServer(e)
    BY <2>1, <2>4, <2>10, OutboundReplyProgress
  <2>11. CASE InboundBurst(e)
    BY <2>1, <2>4, <2>11, InboundBurstProgress
  <2>12. CASE ConnectedBurst(e)
    BY <2>1, <2>12, ConnectedBurstProgress
  <2> QED
    BY <2>2, <2>3, <2>5, <2>6, <2>7, <2>8, <2>9, <2>10, <2>11, <2>12 DEF ReadLine
<1> QED
  BY <1>1, <1>2 DEF AuthInv

(* A negotiation starts with nothing read. *)
LEMMA AuthInitInv == AuthInit => AuthInv
<1> SUFFICES ASSUME AuthInit PROVE AuthInv
  OBVIOUS
<1> DEFINE r == [e \in Ends |-> 0]
<1>1. Line("START") \in AuthLine /\ Line("START").cmd = "START"
  BY DEF Line, AuthLine, AuthCmd
<1>2. pipe \in [Ends -> Seq(AuthLine)]
  BY <1>1 DEF AuthInit
<1>3. AuthTypeOK
  BY LinkAuthAssumption DEF AuthInit, AuthTypeOK, Ends
<1>4. \A e \in Ends : Len(pipe[e]) = 1 /\ pipe[e][1] = Line("START")
  BY DEF AuthInit
<1>5. r \in [Ends -> 0..11] /\ \A e \in Ends : r[e] = 0
  OBVIOUS
<1> HIDE DEF r
<1>6. BurstTimed
  BY <1>1, <1>4 DEF BurstTimed, Ends
<1>7. \A e \in Ends : PipeAt(e, r)
  <2>1. Sent("out", 0) = 1 /\ Sent("in", 0) = 1 /\ Cmd(0 + 1) = "START"
    BY DEF Sent, Cmd
  <2>2. \A e \in Ends : Sent(Other(e), r[Other(e)]) = 1 /\ r[e] = 0
    BY <1>5, <2>1 DEF Ends, Other
  <2> TAKE e \in Ends
  <2>3. PICK l \in {1}, n \in {0} : l = Len(pipe[e]) /\ n = r[e]
    BY <1>4, <1>5
  <2>4. \A k \in 1..l : pipe[e][k].cmd = Cmd(n + k)
    <3> TAKE k \in 1..l
    <3>1. k = 1 /\ n = 0
      OBVIOUS
    <3> QED
      BY <3>1, <1>1, <1>4, <2>1
  <2>5. Sent(Other(e), r[Other(e)]) = 1 /\ n <= 1 /\ l = 1 - n
    BY <2>2
  <2> QED
    BY <2>3, <2>4, <2>5 DEF PipeAt
<1>8. \A e \in Ends : KnownAt(e, 0)
  <2>1. {Cmd(k) : k \in {j \in 3..8 : j <= 0}} = {}
    OBVIOUS
  <2>2. \A e \in Ends : linkState[e] = StateAt(e, 0) /\ phase[e] = 1 /\ lists[e] = {}
    BY DEF AuthInit, StateAt, Ends
  <2> QED
    BY <2>1, <2>2 DEF KnownAt
<1>9. Progress(r)
  BY <1>5, <1>6, <1>7, <1>8 DEF Progress
<1> QED
  BY <1>2, <1>3, <1>5, <1>9 DEF AuthInv

(* Two connected ends have read everything, hence agree. *)
LEMMA AuthInvImplies == AuthInv => LinkedMeansAgreed
<1> SUFFICES ASSUME AuthInv, BothConnected
             PROVE  LinkedMeansCompatible /\ LinkedMeansClocksAgree
  BY DEF AuthInv, LinkedMeansAgreed, LinkedMeansCompatible, LinkedMeansClocksAgree
<1>1. PICK r \in [Ends -> 0..11] : Progress(r)
  BY DEF AuthInv, BothConnected
<1>2. PICK a \in 0..11, b \in 0..11 : a = r["out"] /\ b = r["in"]
  BY DEF Ends
<1>3. KnownAt("out", a) /\ KnownAt("in", b) /\ linkState["out"] = "CONNECTED" /\ linkState["in"] = "CONNECTED"
  BY <1>1, <1>2 DEF Progress, Ends, BothConnected
<1>4. a >= 10 /\ b = 11
  <2>1. StateAt("out", a) = "CONNECTED" /\ StateAt("in", b) = "CONNECTED"
    BY <1>3 DEF KnownAt
  <2> QED
    BY <2>1 DEF StateAt
<1>5. a >= 9 /\ b >= 9 /\ b >= 10
  BY <1>4
<1>6. /\ conf.differ \cap FatalFeature = {}
      /\ conf.differ \cap OptionalFeature = {} \/ conf.allowmismatch["out"]
      /\ conf.differ \cap OptionalFeature = {} \/ conf.allowmismatch["in"]
      /\ conf.knows["in"] /\ conf.knows["out"]
      /\ conf.offset <= MaxDelta /\ -conf.offset <= MaxDelta + MaxClock
  BY <1>3, <1>4, <1>5 DEF KnownAt, Other
<1>7. conf.differ \subseteq FatalFeature \cup OptionalFeature
  BY LinkAuthAssumption DEF AuthInv, AuthTypeOK
<1> QED
  BY <1>6, <1>7 DEF LinkedMeansCompatible, LinkedMeansClocksAgree, Ends

(* Whatever the order in which the two ends read their lines, and whatever *)
(* the time the lines take: two servers that end up CONNECTED agree on     *)
(* what CAPAB compares, know each other's password, and their clocks are   *)
(* as close as BURST demands, up to the delay of the BURST itself.         *)
THEOREM LinkedServersAgree == AuthSpec => []LinkedMeansAgreed
<1>1. AuthInit => AuthInv
  BY AuthInitInv
<1>2. AuthInv /\ [AuthNext]_authVars => AuthInv'
  <2> SUFFICES ASSUME AuthInv, [AuthNext]_authVars PROVE AuthInv'
    OBVIOUS
  <2>1. ASSUME NEW e \in Ends, ReadLine(e) \/ DoConnectTimeout(e) PROVE AuthInv'
    BY <2>1, AuthStepKeeps
  <2>2. CASE ClockTick
    BY <2>2, ClockTickKeeps
  <2>3. CASE UNCHANGED authVars
    <3>1. AuthTypeOK' /\ pipe' \in [Ends -> Seq(AuthLine)]
      BY <2>3 DEF authVars, AuthInv, AuthTypeOK
    <3>2. ASSUME NEW r \in [Ends -> 0..11], Progress(r) PROVE Progress(r)'
      <4>1. BurstTimed'
        BY <2>3, <3>2 DEF authVars, Progress, BurstTimed
      <4>2. ASSUME NEW e \in Ends PROVE PipeAt(e, r)' /\ KnownAt(e, r[e])'
        BY <2>3, <3>2, <4>2 DEF authVars, Progress, PipeAt, KnownAt
      <4> QED
        BY <4>1, <4>2 DEF Progress
    <3>3. linkState' = linkState
      BY <2>3 DEF authVars
    <3> QED
      BY <3>1, <3>2, <3>3 DEF AuthInv
  <2> QED
    BY <2>1, <2>2, <2>3 DEF AuthNext
<1>3. AuthInv => LinkedMeansAgreed
  BY AuthInvImplies
<1> QED
  BY <1>1, <1>2, <1>3, PTL DEF AuthSpec
=============================================================================
