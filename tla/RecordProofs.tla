---------------------------- MODULE RecordProofs ----------------------------
(***************************************************************************)
(* Proofs about records that two parties keep of one thing: an exchange as *)
(* the client's server and the services see it (Sasl), the lines in memory *)
(* and on disk (XLineDb), and the invitations of users and channels        *)
(* (Invites).                                                              *)
(***************************************************************************)
EXTENDS Invites, XLineDb, Sasl, TLAPS

(* The provers of every step, in their order *)
USE ZenonT(3), SMTT(20)

-----------------------------------------------------------------------------
(* Sequences *)

(* An element appended: where the others and the new one are. *)
LEMMA AppendFacts ==
    ASSUME NEW T, NEW s \in Seq(T), NEW e \in T
    PROVE  /\ Append(s, e) \in Seq(T) /\ Append(s, e) # <<>> /\ Len(Append(s, e)) = Len(s) + 1
           /\ Append(s, e)[Len(s) + 1] = e /\ \A i \in 1..Len(s) : Append(s, e)[i] = s[i]
OBVIOUS

(* Two sequences: where the elements of both are. *)
LEMMA ConcatFacts ==
    ASSUME NEW T, NEW s \in Seq(T), NEW t \in Seq(T)
    PROVE  /\ s \o t \in Seq(T) /\ Len(s \o t) = Len(s) + Len(t)
           /\ \A i \in 1..Len(s) : (s \o t)[i] = s[i]
           /\ \A i \in 1..Len(t) : (s \o t)[Len(s) + i] = t[i]
OBVIOUS

-----------------------------------------------------------------------------
(* For any exchanges: what the client's server relays and what the services *)
(* answer.                                                                 *)

UpMessage == [kind : {"S", "C", "*", "D"}, exchange : 1..MaxExchange]

DownMessage == [kind : {"C", "M", "D"}, exchange : 1..MaxExchange, agent : Agent \cup {"none"}]

SaslTypes ==
    /\ SaslTypeOK
    /\ auth \in [exchange : 0..MaxExchange, state : {"NONE", "INIT", "COMM"}, agent : Agent \cup {"none"}]
    /\ numerics \in [0..MaxExchange -> Seq(0..MaxExchange)] /\ rejected \in [0..MaxExchange -> Nat]
    /\ up \in Seq(UpMessage) /\ down \in Seq(DownMessage)

(* A message of the exchange is on its way, or the services work on it *)
Asked(e) == \E i \in 1..Len(up) : up[i].kind = "S" /\ up[i].exchange = e

Coming(e) == \E i \in 1..Len(down) : down[i].exchange = e

(* Only exchanges that were begun are under way. *)
Begun ==
    /\ \A i \in 1..Len(up) : up[i].exchange <= exchanges
    /\ \A i \in 1..Len(down) : down[i].exchange <= exchanges
    /\ session <= exchanges

(* The services begin a session for an exchange once, and end it once: its *)
(* result is their last message about it.                                  *)
StartedOnce ==
    /\ \A i, j \in 1..Len(up) : up[i].kind = "S" /\ up[j] = up[i] => i = j
    /\ \A e \in 1..MaxExchange : Asked(e) => session # e /\ ~Coming(e)

ResultLast ==
    \A i \in 1..Len(down) : down[i].kind = "D" =>
        /\ ~Asked(down[i].exchange) /\ session # down[i].exchange
        /\ \A j \in 1..Len(down) : down[j].exchange = down[i].exchange => j <= i

(* The exchange of the authenticator is the last one. *)
Exchanges ==
    /\ auth.exchange \in {0, exchanges}
    /\ auth.exchange = 0 <=> auth = NoAuth
    /\ auth.state = "NONE" <=> auth = NoAuth
    /\ client = "gone" => auth = NoAuth

Over(e) == e <= exchanges /\ e # auth.exchange

(* After an exchange has its own result, nothing is under way for it. *)
Concluded ==
    \A e \in 1..MaxExchange : Over(e) => EndedEarly(e) \/ (~Asked(e) /\ ~Coming(e) /\ session # e)

(* What the client was told for an exchange: as often as it should be, and *)
(* each time for a reason.                                                 *)
Rightly(e, n) ==
    \/ numerics[e][n] = 0
    \/ /\ n = rejected[e] + 1
       /\ numerics[e][n] = e \/ (numerics[e][n] < e /\ EndedEarly(numerics[e][n]))

Told(e) ==
    /\ e > exchanges => numerics[e] = <<>> /\ rejected[e] = 0
    /\ e <= exchanges => Len(numerics[e]) \in Owed(e)
    /\ \A n \in 1..Len(numerics[e]) : Rightly(e, n)

Verdicts == \A e \in 0..MaxExchange : Told(e)

Links == Begun /\ StartedOnce /\ ResultLast

(* The inductive invariant *)
SaslInv == SaslTypes /\ Links /\ Exchanges /\ Concluded /\ Verdicts
-----------------------------------------------------------------------------
(* What a message more or less on the links changes *)

Sends(kind, e) ==
    /\ Len(up') = Len(up) + 1 /\ up'[Len(up) + 1] = [kind |-> kind, exchange |-> e]
    /\ \A i \in 1..Len(up) : up'[i] = up[i]

(* A message to the services is put at the end of the link, or dropped without an agent. *)
LEMMA SendType ==
    ASSUME up \in Seq(UpMessage), NEW kind \in {"S", "C", "*", "D"}, NEW e \in 1..MaxExchange,
           SendSASL(kind, e)
    PROVE  up' \in Seq(UpMessage) /\ (up' = up \/ Sends(kind, e))
<1> DEFINE m == [kind |-> kind, exchange |-> e]
<1>1. m \in UpMessage
  BY DEF UpMessage
<1>2. CASE agent = "none"
  BY <1>2 DEF SendSASL
<1>3. CASE agent # "none"
  <2>1. up' = Append(up, m)
    BY <1>3 DEF SendSASL
  <2> HIDE DEF m
  <2>2. /\ Append(up, m) \in Seq(UpMessage) /\ Len(Append(up, m)) = Len(up) + 1
        /\ Append(up, m)[Len(up) + 1] = m /\ \A i \in 1..Len(up) : Append(up, m)[i] = up[i]
    BY <1>1, AppendFacts
  <2> QED
    BY <2>1, <2>2 DEF Sends, m
<1> QED
  BY <1>2, <1>3

(* Only "S" makes the services begin a session. *)
LEMMA SendKeeps ==
    ASSUME SaslTypes, Begun, StartedOnce, NEW kind \in {"S", "C", "*", "D"}, NEW e \in 1..MaxExchange,
           SendSASL(kind, e), NEW n \in Nat, e <= n, exchanges <= n, kind = "S" => e > exchanges
    PROVE  /\ up' \in Seq(UpMessage)
           /\ \A i \in 1..Len(up') : up'[i].exchange <= n
           /\ \A i, j \in 1..Len(up') : up'[i].kind = "S" /\ up'[j] = up'[i] => i = j
           /\ \A x \in 1..MaxExchange : Asked(x)' => Asked(x) \/ (kind = "S" /\ x = e)
<1>1. up \in Seq(UpMessage)
  BY DEF SaslTypes
<1>2. up' \in Seq(UpMessage) /\ (up' = up \/ Sends(kind, e))
  BY <1>1, SendType
<1>3. PICK l \in Nat : l = Len(up)
  BY <1>1
<1>4. exchanges \in Nat /\ \A i \in 1..l : up[i].exchange <= exchanges /\ up[i].exchange \in Nat
  <2>1. exchanges \in Nat
    BY SaslAssumption DEF SaslTypes, SaslTypeOK
  <2>2. \A i \in 1..l : up[i] \in UpMessage
    BY <1>1, <1>3
  <2>3. \A i \in 1..l : up[i].exchange \in Nat
    BY <2>2, SaslAssumption DEF UpMessage
  <2> QED
    BY <2>1, <2>3, <1>3 DEF Begun
<1>5. CASE up' = up
  BY <1>1, <1>2, <1>3, <1>4, <1>5 DEF StartedOnce, Asked
<1>6. CASE Sends(kind, e)
  <2>1. /\ Len(up') = l + 1 /\ up'[l + 1].kind = kind /\ up'[l + 1].exchange = e
        /\ \A i \in 1..l : up'[i] = up[i]
    BY <1>3, <1>6 DEF Sends
  <2>2. \A i \in 1..(l + 1) : up'[i].exchange <= n
    <3> TAKE i \in 1..(l + 1)
    <3>1. CASE i \in 1..l
      BY <3>1, <2>1, <1>4
    <3>2. CASE i = l + 1
      BY <3>2, <2>1
    <3> QED
      BY <3>1, <3>2
  <2>3. ASSUME NEW i \in 1..(l + 1), NEW j \in 1..(l + 1), up'[i].kind = "S", up'[j] = up'[i]
        PROVE  i = j
    <3>1. CASE i \in 1..l /\ j \in 1..l
      BY <2>1, <2>3, <3>1, <1>3 DEF StartedOnce
    <3>2. CASE i = l + 1 /\ j \in 1..l
      BY <2>1, <2>3, <3>2, <1>4
    <3>3. CASE j = l + 1 /\ i \in 1..l
      BY <2>1, <2>3, <3>3, <1>4
    <3> QED
      BY <3>1, <3>2, <3>3
  <2>4. ASSUME NEW x \in 1..MaxExchange, Asked(x)'
        PROVE  Asked(x) \/ (kind = "S" /\ x = e)
    <3>1. PICK i \in 1..(l + 1) : up'[i].kind = "S" /\ up'[i].exchange = x
      BY <2>1, <2>4 DEF Asked
    <3>2. CASE i \in 1..l
      BY <3>1, <3>2, <2>1, <1>3 DEF Asked
    <3>3. CASE i = l + 1
      BY <3>1, <3>3, <2>1
    <3> QED
      BY <3>2, <3>3
  <2> QED
    BY <1>2, <2>1, <2>2, <2>3, <2>4
<1> QED
  BY <1>2, <1>5, <1>6

(* The services read a message; what it asked for is not asked any more. *)
LEMMA ReadUp ==
    ASSUME SaslTypes, Begun, StartedOnce, up # <<>>, up' = Tail(up)
    PROVE  /\ up' \in Seq(UpMessage) /\ Head(up) \in UpMessage /\ Head(up).exchange <= exchanges
           /\ \A i \in 1..Len(up') : up'[i].exchange <= exchanges
           /\ \A i, j \in 1..Len(up') : up'[i].kind = "S" /\ up'[j] = up'[i] => i = j
           /\ \A x \in 1..MaxExchange : Asked(x)' => Asked(x)
           /\ \A x \in 1..MaxExchange :
                Head(up).kind = "S" /\ Head(up).exchange = x => Asked(x) /\ ~Asked(x)'
<1>1. up \in Seq(UpMessage)
  BY DEF SaslTypes
<1>2. PICK l \in Nat \ {0} : l = Len(up)
  BY <1>1
<1>3. /\ up' \in Seq(UpMessage) /\ Head(up) = up[1] /\ Len(up') = l - 1
      /\ \A i \in 1..(l - 1) : up'[i] = up[i + 1]
  BY <1>1, <1>2
<1>4. up[1] \in UpMessage /\ up[1].exchange <= exchanges
  BY <1>1, <1>2 DEF Begun
<1>5. \A i \in 1..(l - 1) : i + 1 \in 1..l /\ up'[i] = up[i + 1] /\ i + 1 # 1
  BY <1>3
<1>6. \A i \in 1..(l - 1) : up'[i].exchange <= exchanges
  BY <1>2, <1>5 DEF Begun
<1>7. ASSUME NEW i \in 1..(l - 1), NEW j \in 1..(l - 1), up'[i].kind = "S", up'[j] = up'[i]
      PROVE  i = j
  <2>1. i + 1 = j + 1
    BY <1>2, <1>5, <1>7 DEF StartedOnce
  <2> QED
    BY <2>1
<1>8. \A x \in 1..MaxExchange : Asked(x)' => Asked(x)
  BY <1>2, <1>3, <1>5 DEF Asked
<1>9. ASSUME NEW x \in 1..MaxExchange, Head(up).kind = "S", Head(up).exchange = x
      PROVE  Asked(x) /\ ~Asked(x)'
  <2>1. Asked(x)
    BY <1>2, <1>3, <1>9 DEF Asked
  <2>2. ASSUME Asked(x)' PROVE FALSE
    <3>1. PICK i \in 1..(l - 1) : up'[i].kind = "S" /\ up'[i].exchange = x
      BY <2>2, <1>3 DEF Asked
    <3>a. i + 1 \in 1..l /\ 1 \in 1..l
      OBVIOUS
    <3>b. up'[i] = up[i + 1]
      BY <1>5
    <3>2. i + 1 \in 1..l /\ 1 \in 1..l /\ up[i + 1].kind = "S" /\ up[i + 1].exchange = x
      BY <3>1, <3>a, <3>b
    <3>3. up[i + 1] \in UpMessage /\ up[1] \in UpMessage
      BY <3>2, <1>1, <1>2
    <3>4. up[i + 1] = up[1]
      BY <3>2, <3>3, <1>3, <1>9 DEF UpMessage
    <3>5. i + 1 = 1
      BY <3>2, <3>4, <1>2 DEF StartedOnce
    <3> QED
      BY <3>5
  <2> QED
    BY <2>1, <2>2
<1> QED
  BY <1>3, <1>4, <1>6, <1>7, <1>8, <1>9

(* The services say something: it is their last word so far, and a result  *)
(* is the last of it.                                                      *)
LEMMA SayType ==
    ASSUME SaslTypes, NEW kinds \in Replies, NEW e \in 1..MaxExchange, down' = SaslReply(kinds, e),
           NEW l \in Nat, l = Len(down)
    PROVE  \E k \in {1, 2} :
             /\ down' \in Seq(DownMessage) /\ Len(down') = l + k
             /\ \A i \in 1..l : down'[i] = down[i]
             /\ \A i \in 1..(l + k) : i \notin 1..l =>
                  down'[i].exchange = e /\ (down'[i].kind = "D" => i = l + k /\ kinds # <<"C">>)
<1> DEFINE m(n) == [kind |-> kinds[n], exchange |-> e, agent |-> agent]
           t == [n \in 1..Len(kinds) |-> m(n)]
<1>1. PICK k \in {1, 2} : /\ k = Len(kinds) /\ \A n \in 1..k : kinds[n] \in {"C", "M", "D"}
                          /\ \A n \in 1..k : kinds[n] = "D" => n = k /\ kinds # <<"C">>
  <2>1. CASE kinds = <<"C">>
    BY <2>1
  <2>2. CASE kinds = <<"D">>
    BY <2>2
  <2>3. CASE kinds = <<"M", "D">>
    BY <2>3
  <2> QED
    BY <2>1, <2>2, <2>3 DEF Replies
<1>2. \A n \in 1..k : m(n) \in DownMessage /\ m(n).exchange = e /\ m(n).kind = kinds[n]
  BY <1>1 DEF DownMessage, SaslTypes, SaslTypeOK
<1>3. down \in Seq(DownMessage) /\ down' = down \o t
  BY DEF SaslTypes, SaslReply
<1> HIDE DEF m
<1>4. t \in Seq(DownMessage) /\ Len(t) = k /\ \A n \in 1..k : t[n] = m(n)
  BY <1>1, <1>2
<1> HIDE DEF t
<1>5. /\ down' \in Seq(DownMessage) /\ Len(down') = l + k
      /\ \A i \in 1..l : down'[i] = down[i]
      /\ \A i \in 1..k : down'[l + i] = t[i]
  BY <1>3, <1>4, ConcatFacts
<1>6. ASSUME NEW i \in 1..(l + k), i \notin 1..l
      PROVE  down'[i].exchange = e /\ (down'[i].kind = "D" => i = l + k /\ kinds # <<"C">>)
  <2>1. PICK n \in 1..k : i = l + n
    <3>1. i - l \in 1..k /\ i = l + (i - l)
      BY <1>6
    <3> QED
      BY <3>1
  <2>2. down'[i] = m(n)
    BY <2>1, <1>4, <1>5
  <2>3. kinds[n] = "D" => n = k /\ kinds # <<"C">>
    BY <1>1
  <2> QED
    BY <2>1, <2>2, <2>3, <1>2
<1> QED
  BY <1>5, <1>6

(* The server reads a message of the services. *)
LEMMA ReadDown ==
    ASSUME SaslTypes, Begun, ResultLast, StartedOnce, down # <<>>, down' = Tail(down),
           UNCHANGED <<up, session, exchanges>>
    PROVE  /\ down' \in Seq(DownMessage) /\ Head(down) \in DownMessage /\ Coming(Head(down).exchange)
           /\ Begun' /\ ResultLast' /\ StartedOnce'
           /\ \A x \in 1..MaxExchange : (Coming(x)' => Coming(x)) /\ (Asked(x)' <=> Asked(x))
           /\ \A x \in 1..MaxExchange : Head(down).kind = "D" /\ Head(down).exchange = x =>
                ~Coming(x)' /\ ~Asked(x) /\ session # x
<1>1. down \in Seq(DownMessage)
  BY DEF SaslTypes
<1>2. PICK l \in Nat \ {0} : l = Len(down)
  BY <1>1
<1>3. /\ down' \in Seq(DownMessage) /\ Head(down) = down[1] /\ Len(down') = l - 1
      /\ \A i \in 1..(l - 1) : down'[i] = down[i + 1]
  BY <1>1, <1>2
<1>4. \A i \in 1..(l - 1) : i + 1 \in 1..l
  BY <1>2
<1>5. 1 \in 1..l /\ down[1] \in DownMessage
  BY <1>1, <1>2
<1>6. Coming(Head(down).exchange)
  BY <1>2, <1>3, <1>5 DEF Coming
<1>7. \A x \in 1..MaxExchange : (Coming(x)' => Coming(x)) /\ (Asked(x)' <=> Asked(x))
  BY <1>2, <1>3, <1>4 DEF Coming, Asked
<1>8. Begun'
  BY <1>2, <1>3, <1>4 DEF Begun
<1>9. StartedOnce'
  <2>1. \A i, j \in 1..Len(up') : up'[i].kind = "S" /\ up'[j] = up'[i] => i = j
    BY DEF StartedOnce
  <2>2. \A e \in 1..MaxExchange : Asked(e)' => session' # e /\ ~Coming(e)'
    BY <1>7 DEF StartedOnce
  <2> QED
    BY <2>1, <2>2 DEF StartedOnce
<1>10. ResultLast'
  <2> SUFFICES ASSUME NEW i \in 1..(l - 1), down'[i].kind = "D"
               PROVE  /\ ~Asked(down[i].exchange)' /\ session' # down'[i].exchange
                      /\ \A j \in 1..(l - 1) : down'[j].exchange = down'[i].exchange => j <= i
    BY <1>3 DEF ResultLast
  <2>1. i + 1 \in 1..l /\ down'[i] = down[i + 1]
    BY <1>3
  <2>2. /\ ~Asked(down[i + 1].exchange) /\ session # down[i + 1].exchange
        /\ \A j \in 1..l : down[j].exchange = down[i + 1].exchange => j <= i + 1
    BY <2>1, <1>2 DEF ResultLast
  <2>3. ~Asked(down[i].exchange)'
    BY <2>1, <2>2 DEF Asked
  <2>4. ASSUME NEW j \in 1..(l - 1), down'[j].exchange = down'[i].exchange PROVE j <= i
    <3>1. j + 1 \in 1..l /\ down'[j] = down[j + 1]
      BY <1>3
    <3>2. j + 1 <= i + 1
      BY <3>1, <2>1, <2>2, <2>4
    <3> QED
      BY <3>2
  <2> QED
    BY <2>1, <2>2, <2>3, <2>4
<1>11. ASSUME NEW x \in 1..MaxExchange, Head(down).kind = "D", Head(down).exchange = x
       PROVE  ~Coming(x)' /\ ~Asked(x) /\ session # x
  <2>1. ~Asked(x) /\ session # x /\ \A j \in 1..l : down[j].exchange = x => j <= 1
    BY <1>2, <1>3, <1>5, <1>11 DEF ResultLast
  <2>2. ASSUME Coming(x)' PROVE FALSE
    <3>1. PICK i \in 1..(l - 1) : down'[i].exchange = x
      BY <2>2, <1>3 DEF Coming
    <3>2. i + 1 \in 1..l /\ down'[i] = down[i + 1]
      BY <1>3
    <3>3. i + 1 <= 1
      BY <3>1, <3>2, <2>1
    <3> QED
      BY <3>3
  <2> QED
    BY <2>1, <2>2
<1> QED
  BY <1>3, <1>5, <1>6, <1>7, <1>8, <1>9, <1>10, <1>11

-----------------------------------------------------------------------------
(* An exchange that ended early stays so. *)
LEMMA EarlyKeeps ==
    ASSUME NEW x, EndedEarly(x), numerics'[x] = numerics[x], auth'.exchange # x
    PROVE  EndedEarly(x)'
BY DEF EndedEarly

(* What was told for an exchange stays right while nothing more is told.   *)
LEMMA RightlyKeeps ==
    ASSUME SaslTypes, NEW e \in 0..MaxExchange, NEW n \in 1..Len(numerics[e]), Rightly(e, n),
           numerics'[e][n] = numerics[e][n], rejected'[e] = rejected[e] \/ numerics[e][n] = 0,
           \A x \in 1..MaxExchange : x < e /\ EndedEarly(x) => EndedEarly(x)'
    PROVE  Rightly(e, n)'
<1>1. numerics[e] \in Seq(0..MaxExchange) /\ MaxExchange \in Nat
  BY SaslAssumption DEF SaslTypes
<1>2. PICK f \in 0..MaxExchange : f = numerics[e][n]
  BY <1>1
<1>3. CASE f = 0
  BY <1>2, <1>3 DEF Rightly
<1>4. CASE f # 0
  <2>1. f \in 1..MaxExchange /\ rejected'[e] = rejected[e]
    BY <1>1, <1>2, <1>4
  <2>2. n = rejected[e] + 1 /\ (f = e \/ (f < e /\ EndedEarly(f)))
    BY <1>2, <1>4 DEF Rightly
  <2>3. f < e /\ EndedEarly(f) => EndedEarly(f)'
    BY <2>1
  <2>4. numerics'[e][n] = f
    BY <1>2
  <2>5. CASE f = e
    BY <2>1, <2>2, <2>4, <2>5 DEF Rightly
  <2>6. CASE f < e /\ EndedEarly(f)
    <3>1. EndedEarly(f)'
      BY <2>3, <2>6
    <3>2. EndedEarly(numerics[e][n])'
      BY <3>1, <2>4 DEF EndedEarly
    <3> QED
      BY <3>2, <2>1, <2>2, <2>4, <2>6 DEF Rightly
  <2> QED
    BY <2>2, <2>5, <2>6
<1> QED
  BY <1>3, <1>4

(* A result is added to those of the present exchange, which so far had    *)
(* only answers to rejected lines.                                         *)
LEMMA TellKeeps ==
    ASSUME SaslTypes, Exchanges, Verdicts, NEW e, e = auth.exchange, NEW f \in 0..MaxExchange, Tell(f),
           NEW l, l = rejected[e]
    PROVE  /\ e \in 0..MaxExchange /\ e <= exchanges /\ l \in Nat
           /\ numerics' \in [0..MaxExchange -> Seq(0..MaxExchange)]
           /\ numerics[e] \in Seq(0..MaxExchange) /\ Len(numerics[e]) = l
           /\ \A n \in 1..l : numerics[e][n] = 0 /\ numerics'[e][n] = 0
           /\ Len(numerics'[e]) = l + 1 /\ numerics'[e][l + 1] = f
           /\ \A x \in 0..MaxExchange : x # e => numerics'[x] = numerics[x]
<1>1. e \in 0..MaxExchange /\ e <= exchanges /\ exchanges \in Nat /\ l \in Nat
      /\ numerics \in [0..MaxExchange -> Seq(0..MaxExchange)] /\ numerics[e] \in Seq(0..MaxExchange)
  <2>1. e \in {0, exchanges} /\ exchanges \in 0..MaxExchange /\ MaxExchange \in Nat
    BY SaslAssumption DEF Exchanges, SaslTypes, SaslTypeOK
  <2>2. e \in 0..MaxExchange /\ e <= exchanges
    BY <2>1
  <2> QED
    BY <2>1, <2>2 DEF SaslTypes
<1>2. Told(e)
  BY <1>1 DEF Verdicts
<1>3. Len(numerics[e]) = l
  BY <1>1, <1>2 DEF Told, Owed
<1>4. \A n \in 1..l : numerics[e][n] = 0
  <2> TAKE n \in 1..l
  <2>1. Rightly(e, n) /\ n # l + 1
    BY <1>1, <1>2, <1>3 DEF Told
  <2> QED
    BY <2>1 DEF Rightly
<1>5. numerics' = [numerics EXCEPT ![e] = Append(numerics[e], f)]
  BY DEF Tell
<1>6. /\ Append(numerics[e], f) \in Seq(0..MaxExchange) /\ Len(Append(numerics[e], f)) = l + 1
      /\ Append(numerics[e], f)[l + 1] = f /\ \A i \in 1..l : Append(numerics[e], f)[i] = numerics[e][i]
  BY <1>1, <1>3, AppendFacts
<1>7. /\ numerics' \in [0..MaxExchange -> Seq(0..MaxExchange)] /\ numerics'[e] = Append(numerics[e], f)
      /\ \A x \in 0..MaxExchange : x # e => numerics'[x] = numerics[x]
  BY <1>1, <1>5, <1>6
<1> QED
  BY <1>1, <1>3, <1>4, <1>6, <1>7

(* The client is told how its exchange ended. *)
LEMMA AnnounceKeeps ==
    ASSUME SaslTypes, Exchanges, Verdicts, auth # NoAuth, NEW e, e = auth.exchange,
           NEW f \in 0..MaxExchange, Announce(f), f = 0 \/ f = e \/ (f < e /\ EndedEarly(f)),
           UNCHANGED <<exchanges, rejected>>, client' # "gone"
    PROVE  /\ e \in 1..MaxExchange /\ numerics' \in [0..MaxExchange -> Seq(0..MaxExchange)]
           /\ auth'.exchange = 0 /\ (f # e => EndedEarly(e)')
           /\ \A x \in 1..MaxExchange : x # e /\ EndedEarly(x) => EndedEarly(x)'
           /\ Exchanges' /\ Verdicts'
<1>0. Tell(f) /\ auth' = NoAuth /\ NoAuth.exchange = 0 /\ NoAuth.state = "NONE" /\ client # "gone"
  BY DEF Announce, NoAuth, Exchanges
<1>1. PICK l : l = rejected[e]
  OBVIOUS
<1>2. /\ e \in 0..MaxExchange /\ e <= exchanges /\ l \in Nat
      /\ numerics' \in [0..MaxExchange -> Seq(0..MaxExchange)]
      /\ numerics[e] \in Seq(0..MaxExchange) /\ Len(numerics[e]) = l
      /\ \A n \in 1..l : numerics[e][n] = 0 /\ numerics'[e][n] = 0
      /\ Len(numerics'[e]) = l + 1 /\ numerics'[e][l + 1] = f
      /\ \A x \in 0..MaxExchange : x # e => numerics'[x] = numerics[x]
  BY <1>0, <1>1, TellKeeps
<1>3. e # 0 /\ e \in 1..MaxExchange /\ MaxExchange \in Nat /\ exchanges \in Nat
  <2>1. e # 0
    BY DEF Exchanges
  <2> QED
    BY <2>1, <1>2, SaslAssumption DEF SaslTypes, SaslTypeOK
<1>4. \A x \in 1..MaxExchange : x # e /\ EndedEarly(x) => EndedEarly(x)'
  <2> TAKE x \in 1..MaxExchange
  <2>1. x \in 0..MaxExchange /\ x # 0
    BY <1>3
  <2> QED
    BY <2>1, <1>0, <1>2, EarlyKeeps
<1>5. ASSUME f # e PROVE EndedEarly(e)'
  <2>1. numerics'[e] \in Seq(0..MaxExchange)
    BY <1>2
  <2>2. ASSUME NEW n \in DOMAIN numerics'[e] PROVE numerics'[e][n] # e
    <3>1. n \in 1..(l + 1)
      BY <2>1, <1>2
    <3>2. CASE n \in 1..l
      BY <3>2, <1>2, <1>3
    <3>3. CASE n = l + 1
      BY <3>3, <1>2, <1>5
    <3> QED
      BY <3>1, <3>2, <3>3, <1>2
  <2>3. auth'.exchange # e
    BY <1>0, <1>3
  <2> QED
    BY <2>2, <2>3 DEF EndedEarly
<1>6. Exchanges'
  BY <1>0 DEF Exchanges
<1>7. Verdicts'
  <2> SUFFICES ASSUME NEW x \in 0..MaxExchange PROVE Told(x)'
    BY DEF Verdicts
  <2>1. CASE x = e
    <3>1. Len(numerics'[x]) \in Owed(x)'
      BY <2>1, <1>0, <1>1, <1>2, <1>3 DEF Owed
    <3>2. ASSUME NEW n \in 1..(l + 1) PROVE Rightly(e, n)'
      <4>1. CASE n \in 1..l
        BY <4>1, <1>2 DEF Rightly
      <4>2. CASE n = l + 1
        <5>1. f < e /\ EndedEarly(f) /\ f # 0 => EndedEarly(f)'
          <6>1. f # 0 => f \in 1..MaxExchange
            BY <1>3
          <6> QED
            BY <6>1, <1>3, <1>4
        <5>2. numerics'[e][n] = f /\ n = rejected'[e] + 1
          BY <4>2, <1>1, <1>2
        <5>3. EndedEarly(f)' => EndedEarly(numerics[e][n])'
          BY <5>2 DEF EndedEarly
        <5> QED
          BY <5>1, <5>2, <5>3 DEF Rightly
      <4> QED
        BY <4>1, <4>2, <1>2
    <3> QED
      BY <2>1, <3>1, <3>2, <1>2, <1>3 DEF Told
  <2>2. CASE x # e
    <3>1. Told(x) /\ numerics'[x] = numerics[x] /\ rejected'[x] = rejected[x]
      BY <2>2, <1>2 DEF Verdicts
    <3>2. x <= exchanges => Len(numerics'[x]) \in Owed(x)'
      BY <2>2, <3>1, <1>0 DEF Told, Owed
    <3>3. \A y \in 1..MaxExchange : y < x /\ EndedEarly(y) => EndedEarly(y)'
      <4>1. e = exchanges
        BY <1>3 DEF Exchanges
      <4> SUFFICES ASSUME NEW y \in 1..MaxExchange, y < x, EndedEarly(y) PROVE y # e
        BY <1>4
      <4> QED
        BY DEF EndedEarly
    <3>4. ASSUME NEW n \in 1..Len(numerics[x]) PROVE Rightly(x, n)'
      <4>1. Rightly(x, n)
        BY <3>1 DEF Told
      <4> QED
        BY <4>1, <3>1, <3>3, RightlyKeeps
    <3> QED
      BY <3>1, <3>2, <3>4 DEF Told
  <2> QED
    BY <2>1, <2>2
<1> QED
  BY <1>0, <1>2, <1>3, <1>4, <1>5, <1>6, <1>7

(* A message that begins no session leaves the links as they should be. *)
LEMMA SendLinks ==
    ASSUME SaslTypes, Links, NEW kind \in {"C", "*", "D"}, NEW e \in 1..MaxExchange, e <= exchanges,
           SendSASL(kind, e) \/ up' = up, UNCHANGED <<down, session, exchanges>>
    PROVE  /\ up' \in Seq(UpMessage) /\ Links'
           /\ \A x \in 1..MaxExchange : (Asked(x)' => Asked(x)) /\ (Coming(x)' <=> Coming(x))
<1>0. exchanges \in Nat /\ down \in Seq(DownMessage)
  BY SaslAssumption DEF SaslTypes, SaslTypeOK
<1>1. /\ up' \in Seq(UpMessage)
      /\ \A i \in 1..Len(up') : up'[i].exchange <= exchanges
      /\ \A i, j \in 1..Len(up') : up'[i].kind = "S" /\ up'[j] = up'[i] => i = j
      /\ \A x \in 1..MaxExchange : Asked(x)' => Asked(x)
  <2>1. CASE SendSASL(kind, e)
    <3>1. kind \in {"S", "C", "*", "D"} /\ kind # "S" /\ Begun /\ StartedOnce
      BY DEF Links
    <3>2. exchanges <= exchanges
      BY <1>0
    <3>3. /\ up' \in Seq(UpMessage)
          /\ \A i \in 1..Len(up') : up'[i].exchange <= exchanges
          /\ \A i, j \in 1..Len(up') : up'[i].kind = "S" /\ up'[j] = up'[i] => i = j
          /\ \A x \in 1..MaxExchange : Asked(x)' => Asked(x) \/ (kind = "S" /\ x = e)
      BY <2>1, <3>1, <3>2, <1>0, SendKeeps
    <3> QED
      BY <3>1, <3>3
  <2>2. CASE up' = up
    <3>1. up \in Seq(UpMessage)
      BY DEF SaslTypes
    <3> QED
      BY <2>2, <3>1 DEF Links, Begun, StartedOnce, Asked
  <2> QED
    BY <2>1, <2>2
<1>2. \A x \in 1..MaxExchange : Coming(x)' <=> Coming(x)
  BY DEF Coming
<1>3. Begun'
  BY <1>1 DEF Links, Begun
<1>4. StartedOnce'
  <2>1. \A x \in 1..MaxExchange : Asked(x)' => session' # x /\ ~Coming(x)'
    BY <1>1, <1>2 DEF Links, StartedOnce
  <2> QED
    BY <1>1, <2>1 DEF StartedOnce
<1>5. ResultLast'
  <2> SUFFICES ASSUME NEW i \in 1..Len(down), down[i].kind = "D"
               PROVE  /\ ~Asked(down[i].exchange)' /\ session' # down[i].exchange
                      /\ \A j \in 1..Len(down) : down[j].exchange = down[i].exchange => j <= i
    BY DEF ResultLast
  <2>1. /\ ~Asked(down[i].exchange) /\ session # down[i].exchange
        /\ \A j \in 1..Len(down) : down[j].exchange = down[i].exchange => j <= i
    BY DEF Links, ResultLast
  <2>2. PICK x \in 1..MaxExchange : x = down[i].exchange
    <3>1. down[i] \in DownMessage
      BY <1>0
    <3> QED
      BY <3>1 DEF DownMessage
  <2>3. ~Asked(x)'
    BY <1>1, <2>1, <2>2
  <2>4. ~Asked(down[i].exchange)'
    BY <2>2, <2>3 DEF Asked
  <2> QED
    BY <2>1, <2>4
<1> QED
  BY <1>1, <1>2, <1>3, <1>4, <1>5 DEF Links

(* Less under way, and nothing told: what was concluded still is. *)
LEMMA ConcludedKeeps ==
    ASSUME Concluded, UNCHANGED <<numerics, exchanges>>, auth'.exchange = auth.exchange,
           \A x \in 1..MaxExchange : Over(x) =>
              (Asked(x)' => Asked(x)) /\ (Coming(x)' => Coming(x) \/ Asked(x) \/ session = x)
              /\ (session' = x => session = x \/ Asked(x))
    PROVE  Concluded'
<1> SUFFICES ASSUME NEW x \in 1..MaxExchange, Over(x)'
             PROVE  EndedEarly(x)' \/ (~Asked(x)' /\ ~Coming(x)' /\ session' # x)
  BY DEF Concluded
<1>1. Over(x)
  BY DEF Over
<1>2. EndedEarly(x) => EndedEarly(x)'
  BY DEF EndedEarly
<1> QED
  BY <1>1, <1>2 DEF Concluded

(* Nothing told, and the same authenticator *)
LEMMA BooksKeep ==
    ASSUME SaslTypes, Exchanges, Verdicts, UNCHANGED <<numerics, rejected, exchanges>>,
           client' = client \/ (client # "gone" /\ client' # "gone"),
           auth' = auth \/ (auth # NoAuth /\ auth'.exchange = auth.exchange /\ auth'.state = "COMM")
    PROVE  Exchanges' /\ Verdicts' /\ auth'.exchange = auth.exchange
<1>1. auth'.exchange = auth.exchange /\ (auth' = NoAuth <=> auth = NoAuth)
      /\ (auth'.state = "NONE" <=> auth = NoAuth)
  BY DEF Exchanges, NoAuth
<1>2. Exchanges'
  BY <1>1 DEF Exchanges
<1>3. Verdicts'
  <2> SUFFICES ASSUME NEW e \in 0..MaxExchange PROVE Told(e)'
    BY DEF Verdicts
  <2>1. Told(e)
    BY DEF Verdicts
  <2>2. e <= exchanges => Len(numerics'[e]) \in Owed(e)'
    BY <1>1, <2>1 DEF Told, Owed
  <2>3. \A x \in 1..MaxExchange : x < e /\ EndedEarly(x) => EndedEarly(x)'
    BY <1>1 DEF EndedEarly
  <2>4. ASSUME NEW n \in 1..Len(numerics[e]) PROVE Rightly(e, n)'
    <3>1. Rightly(e, n)
      BY <2>1 DEF Told
    <3> QED
      BY <2>3, <3>1, RightlyKeeps
  <2> QED
    BY <2>1, <2>2, <2>4 DEF Told
<1> QED
  BY <1>1, <1>2, <1>3

(* AUTHENTICATE with a parameter that HandleLocal rejects leaves the       *)
(* exchange open.                                                          *)
LEMMA AuthenticateRejectedKeeps ==
    ASSUME SaslInv, AuthenticateRejected
    PROVE  SaslInv'
<1>e. PICK e : e = auth.exchange
  OBVIOUS
<1>0. Tell(0) /\ rejected' = [rejected EXCEPT ![e] = @ + 1] /\ client # "gone"
      /\ UNCHANGED <<client, legacy, auth, exchanges, up, down, agent, session, splits, turn>>
  BY <1>e DEF AuthenticateRejected
<1>1. PICK l : l = rejected[e]
  OBVIOUS
<1>m. MaxExchange \in Nat /\ 0 \in 0..MaxExchange
  BY SaslAssumption
<1>2. /\ e \in 0..MaxExchange /\ e <= exchanges /\ l \in Nat
      /\ numerics' \in [0..MaxExchange -> Seq(0..MaxExchange)]
      /\ numerics[e] \in Seq(0..MaxExchange) /\ Len(numerics[e]) = l
      /\ \A n \in 1..l : numerics[e][n] = 0 /\ numerics'[e][n] = 0
      /\ Len(numerics'[e]) = l + 1 /\ numerics'[e][l + 1] = 0
      /\ \A x \in 0..MaxExchange : x # e => numerics'[x] = numerics[x]
  <2>1. SaslTypes /\ Exchanges /\ Verdicts
    BY DEF SaslInv
  <2>2. PICK z \in 0..MaxExchange : z = 0 /\ Tell(z)
    BY <1>0, <1>m
  <2>3. /\ e \in 0..MaxExchange /\ e <= exchanges /\ l \in Nat
        /\ numerics' \in [0..MaxExchange -> Seq(0..MaxExchange)]
        /\ numerics[e] \in Seq(0..MaxExchange) /\ Len(numerics[e]) = l
        /\ \A n \in 1..l : numerics[e][n] = 0 /\ numerics'[e][n] = 0
        /\ Len(numerics'[e]) = l + 1 /\ numerics'[e][l + 1] = z
        /\ \A x \in 0..MaxExchange : x # e => numerics'[x] = numerics[x]
    BY <2>1, <2>2, <1>1, <1>e, TellKeeps
  <2> QED
    BY <2>2, <2>3
<1>3. /\ rejected' \in [0..MaxExchange -> Nat] /\ rejected'[e] = l + 1
      /\ \A x \in 0..MaxExchange : x # e => rejected'[x] = rejected[x]
  <2>1. rejected \in [0..MaxExchange -> Nat]
    BY DEF SaslInv, SaslTypes
  <2> QED
    BY <2>1, <1>0, <1>1, <1>2
<1>4. \A x \in 1..MaxExchange : EndedEarly(x) => EndedEarly(x)'
  <2> TAKE x \in 1..MaxExchange
  <2> HAVE EndedEarly(x)
  <2>1. x # e /\ x \in 0..MaxExchange
    BY <1>e, <1>m DEF EndedEarly
  <2> QED
    BY <2>1, <1>0, <1>2, <1>e, EarlyKeeps
<1>5. SaslTypes'
  BY <1>0, <1>2, <1>3 DEF SaslInv, SaslTypes, SaslTypeOK
<1>6. Links' /\ Exchanges'
  BY <1>0 DEF SaslInv, Links, Begun, StartedOnce, ResultLast, Asked, Coming, Exchanges
<1>7. Concluded'
  BY <1>0, <1>4 DEF SaslInv, Concluded, Over, Asked, Coming
<1>8. Verdicts'
  <2> SUFFICES ASSUME NEW x \in 0..MaxExchange PROVE Told(x)'
    BY DEF Verdicts
  <2>1. CASE x = e
    <3>1. Len(numerics'[x]) \in Owed(x)'
      BY <2>1, <1>0, <1>2, <1>3, <1>e DEF Owed
    <3>2. \A n \in 1..(l + 1) : Rightly(x, n)'
      BY <2>1, <1>2 DEF Rightly
    <3>3. ~(e > exchanges)
      BY <1>2 DEF SaslInv, SaslTypes, SaslTypeOK
    <3> QED
      BY <2>1, <3>1, <3>2, <3>3, <1>0, <1>2 DEF Told
  <2>2. CASE x # e
    <3>1. Told(x) /\ numerics'[x] = numerics[x] /\ rejected'[x] = rejected[x]
      BY <2>2, <1>2, <1>3 DEF SaslInv, Verdicts
    <3>2. x <= exchanges => Len(numerics'[x]) \in Owed(x)'
      BY <3>1, <1>0 DEF Told, Owed
    <3>3. ASSUME NEW n \in 1..Len(numerics[x]) PROVE Rightly(x, n)'
      <4>1. Rightly(x, n) /\ SaslTypes
        BY <3>1 DEF Told, SaslInv
      <4> QED
        BY <4>1, <3>1, <1>4, RightlyKeeps
    <3> QED
      BY <3>1, <3>2, <3>3, <1>0 DEF Told
  <2> QED
    BY <2>1, <2>2
<1> QED
  BY <1>5, <1>6, <1>7, <1>8 DEF SaslInv

(* AUTHENTICATE with a mechanism starts an exchange. *)
LEMMA AuthenticateStartKeeps ==
    ASSUME SaslInv, AuthenticateStart
    PROVE  SaslInv'
<1> DEFINE n == exchanges + 1
<1>0. exchanges \in Nat /\ n \in 1..MaxExchange /\ n > exchanges /\ MaxExchange \in Nat
      /\ exchanges' = n /\ auth' = [exchange |-> n, state |-> "INIT", agent |-> "none"] /\ auth = NoAuth
      /\ client # "gone" /\ UNCHANGED <<client, legacy, numerics, rejected, down, agent, session, splits>>
  BY SaslAssumption DEF SaslInv, SaslTypes, SaslTypeOK, AuthenticateStart
<1>s. SendSASL("S", n)
  BY DEF AuthenticateStart
<1> HIDE DEF n
<1>1. /\ up' \in Seq(UpMessage)
      /\ \A i \in 1..Len(up') : up'[i].exchange <= n
      /\ \A i, j \in 1..Len(up') : up'[i].kind = "S" /\ up'[j] = up'[i] => i = j
      /\ \A x \in 1..MaxExchange : Asked(x)' => Asked(x) \/ x = n
  BY <1>0, <1>s, SendKeeps DEF SaslInv, Links
<1>2. SaslTypes'
  <2>1. turn' \in {"nobody", "client", "services"}
    BY DEF AuthenticateStart
  <2>2. SaslTypeOK'
    BY <1>0, <2>1 DEF SaslInv, SaslTypes, SaslTypeOK
  <2> QED
    BY <1>0, <1>1, <2>2 DEF SaslInv, SaslTypes
<1>3. down \in Seq(DownMessage) /\ \A i \in 1..Len(down) :
        down[i].exchange \in 1..MaxExchange /\ down[i].exchange <= exchanges /\ down[i].exchange # n
  <2>1. down \in Seq(DownMessage)
    BY DEF SaslInv, SaslTypes
  <2>2. \A i \in 1..Len(down) : down[i] \in DownMessage
    BY <2>1
  <2>3. \A i \in 1..Len(down) : down[i].exchange \in 1..MaxExchange /\ down[i].exchange <= exchanges
    BY <2>2 DEF DownMessage, SaslInv, Links, Begun
  <2> QED
    BY <2>1, <2>3, <1>0
<1>4. session \in Nat /\ session <= exchanges /\ session # n
  BY <1>0 DEF SaslInv, SaslTypes, SaslTypeOK, Links, Begun
<1>5. Begun'
  <2>1. \A i \in 1..Len(down) : down[i].exchange <= n
    BY <1>0, <1>3
  <2>2. session <= n
    BY <1>0, <1>4
  <2> QED
    BY <1>0, <1>1, <2>1, <2>2 DEF Begun
<1>6. \A x \in 1..MaxExchange : Coming(x)' <=> Coming(x)
  BY <1>0 DEF Coming
<1>7. ~Coming(n)
  BY <1>3 DEF Coming
<1>8. StartedOnce'
  <2>1. \A x \in 1..MaxExchange : Asked(x)' => session' # x /\ ~Coming(x)'
    BY <1>0, <1>1, <1>4, <1>6, <1>7 DEF SaslInv, Links, StartedOnce
  <2> QED
    BY <1>1, <2>1 DEF StartedOnce
<1>9. ResultLast'
  <2> SUFFICES ASSUME NEW i \in 1..Len(down), down[i].kind = "D"
               PROVE  /\ ~Asked(down[i].exchange)' /\ session' # down[i].exchange
                      /\ \A j \in 1..Len(down) : down[j].exchange = down[i].exchange => j <= i
    BY <1>0 DEF ResultLast
  <2>1. /\ ~Asked(down[i].exchange) /\ session # down[i].exchange
        /\ \A j \in 1..Len(down) : down[j].exchange = down[i].exchange => j <= i
    BY DEF SaslInv, Links, ResultLast
  <2>2. PICK x \in 1..MaxExchange : x = down[i].exchange /\ x # n
    BY <1>3
  <2>3. ~Asked(x)'
    BY <1>1, <2>1, <2>2
  <2>4. ~Asked(down[i].exchange)'
    BY <1>0, <2>2, <2>3 DEF Asked
  <2> QED
    BY <1>0, <2>1, <2>4
<1>a. auth.exchange = 0 /\ auth'.exchange = n /\ auth'.state = "INIT" /\ auth' # NoAuth /\ n # 0
  BY <1>0 DEF NoAuth
<1>e. \A x \in 1..MaxExchange : x <= exchanges /\ EndedEarly(x) => EndedEarly(x)'
  <2> TAKE x \in 1..MaxExchange
  <2> HAVE x <= exchanges /\ EndedEarly(x)
  <2>1. auth'.exchange # x /\ numerics'[x] = numerics[x]
    BY <1>0, <1>a
  <2> QED
    BY <2>1, EarlyKeeps
<1>10. Exchanges'
  BY <1>a, <1>0 DEF Exchanges
<1>11. Concluded'
  <2> SUFFICES ASSUME NEW x \in 1..MaxExchange, Over(x)'
               PROVE  EndedEarly(x)' \/ (~Asked(x)' /\ ~Coming(x)' /\ session' # x)
    BY DEF Concluded
  <2>1. x # n /\ x <= exchanges /\ x # 0
    BY <1>0, <1>a DEF Over, n
  <2>2. EndedEarly(x) \/ (~Asked(x) /\ ~Coming(x) /\ session # x)
    BY <2>1, <1>a DEF SaslInv, Concluded, Over
  <2> QED
    BY <2>1, <2>2, <1>0, <1>1, <1>6, <1>e
<1>12. Verdicts'
  <2> SUFFICES ASSUME NEW x \in 0..MaxExchange PROVE Told(x)'
    BY DEF Verdicts
  <2>1. Told(x) /\ SaslTypes
    BY DEF SaslInv, Verdicts
  <2>2. x \in Nat /\ (x > n => x > exchanges) /\ (x <= n => x = n \/ x <= exchanges)
    BY <1>0 DEF n
  <2>3. x <= n => Len(numerics'[x]) \in Owed(x)'
    <3>1. CASE x = n
      <4>1. numerics[x] = <<>> /\ rejected[x] = 0
        BY <3>1, <2>1, <1>0 DEF Told
      <4>2. Len(numerics[x]) = 0
        BY <4>1
      <4> QED
        BY <3>1, <4>1, <4>2, <1>0, <1>a DEF Owed
    <3>2. CASE x <= exchanges
      <4>1. x # n
        BY <3>2, <1>0
      <4> QED
        BY <3>2, <4>1, <2>1, <1>0, <1>a DEF Told, Owed
    <3> QED
      BY <2>2, <3>1, <3>2
  <2>4. ASSUME NEW k \in 1..Len(numerics[x]) PROVE Rightly(x, k)'
    <3>1. Rightly(x, k) /\ x <= exchanges
      <4>1. Rightly(x, k)
        BY <2>1 DEF Told
      <4>2. Len(numerics[x]) # 0
        BY <2>1, SaslAssumption DEF SaslTypes
      <4>3. ~(x > exchanges)
        BY <4>2, <2>1 DEF Told
      <4> QED
        BY <4>1, <4>3, <2>2, <1>0
    <3>2. \A y \in 1..MaxExchange : y < x /\ EndedEarly(y) => EndedEarly(y)'
      BY <3>1, <2>2, <1>0, <1>e
    <3> QED
      BY <2>1, <3>1, <3>2, <1>0, RightlyKeeps
  <2> QED
    BY <2>1, <2>2, <2>3, <2>4, <1>0 DEF Told
<1> QED
  BY <1>2, <1>5, <1>8, <1>9, <1>10, <1>11, <1>12 DEF SaslInv, Links

(* The exchange of an authenticator *)
LEMMA AuthExchange ==
    ASSUME SaslInv, auth # NoAuth
    PROVE  auth.exchange \in 1..MaxExchange /\ auth.exchange = exchanges /\ client # "gone"
<1>1. auth.exchange \in {0, exchanges} /\ auth.exchange # 0 /\ exchanges \in 0..MaxExchange /\ client # "gone"
  BY DEF SaslInv, Exchanges, SaslTypes, SaslTypeOK
<1> QED
  BY <1>1, SaslAssumption

(* While an exchange is open, the client was told no result of it. *)
LEMMA OpenIsUntold ==
    ASSUME SaslInv, NEW x \in 1..MaxExchange, x = auth.exchange
    PROVE  \A n \in DOMAIN numerics[x] : numerics[x][n] # x
<1>1. x \in 0..MaxExchange /\ x <= exchanges /\ MaxExchange \in Nat
  BY SaslAssumption DEF SaslInv, SaslTypes, SaslTypeOK
<1>2. Told(x) /\ numerics[x] \in Seq(0..MaxExchange) /\ rejected[x] \in Nat
  BY <1>1 DEF SaslInv, SaslTypes, Verdicts
<1>3. Len(numerics[x]) = rejected[x]
  BY <1>1, <1>2 DEF Told, Owed
<1> TAKE n \in DOMAIN numerics[x]
<1>4. n \in 1..Len(numerics[x]) /\ n # rejected[x] + 1
  BY <1>2, <1>3
<1>5. Rightly(x, n)
  BY <1>2, <1>4 DEF Told
<1> QED
  BY <1>4, <1>5 DEF Rightly

(* AUTHENTICATE with data goes on with it. *)
LEMMA AuthenticateMoreKeeps ==
    ASSUME SaslInv, AuthenticateMore
    PROVE  SaslInv'
<1>0. auth # NoAuth /\ SendSASL("C", auth.exchange)
      /\ UNCHANGED <<client, legacy, auth, exchanges, numerics, rejected, down, agent, session, splits>>
  BY DEF AuthenticateMore, NoAuth
<1>1. PICK e \in 1..MaxExchange : e = auth.exchange /\ e = exchanges
  BY <1>0, AuthExchange
<1>2. e <= exchanges
  BY <1>1
<1>3. /\ up' \in Seq(UpMessage) /\ Links'
      /\ \A x \in 1..MaxExchange : (Asked(x)' => Asked(x)) /\ (Coming(x)' <=> Coming(x))
  BY <1>0, <1>1, <1>2, SendLinks DEF SaslInv
<1>4. SaslTypes'
  <2>1. turn' \in {"nobody", "client", "services"}
    BY DEF AuthenticateMore, SaslInv, SaslTypes, SaslTypeOK
  <2> QED
    BY <1>0, <1>3, <2>1 DEF SaslInv, SaslTypes, SaslTypeOK
<1>5. Exchanges' /\ Verdicts'
  BY <1>0, BooksKeep DEF SaslInv
<1>6. Concluded'
  BY <1>0, <1>3, ConcludedKeeps DEF SaslInv
<1> QED
  BY <1>3, <1>4, <1>5, <1>6 DEF SaslInv

(* An exchange that is aborted ends early. *)
LEMMA AbortKeeps ==
    ASSUME SaslInv, auth # NoAuth, NEW e, e = auth.exchange, Announce(0),
           SendSASL("*", e) \/ up' = up, client' \in {"registering", "connected"},
           UNCHANGED <<legacy, exchanges, rejected, down, agent, session, splits>>
    PROVE  SaslInv'
<1>1. e \in 1..MaxExchange /\ e = exchanges
  BY AuthExchange
<1>2. e <= exchanges
  BY <1>1
<1>3. /\ up' \in Seq(UpMessage) /\ Links'
      /\ \A x \in 1..MaxExchange : (Asked(x)' => Asked(x)) /\ (Coming(x)' <=> Coming(x))
  BY <1>1, <1>2, SendLinks DEF SaslInv
<1>4. /\ numerics' \in [0..MaxExchange -> Seq(0..MaxExchange)]
      /\ auth'.exchange = 0 /\ EndedEarly(e)'
      /\ \A x \in 1..MaxExchange : x # e /\ EndedEarly(x) => EndedEarly(x)'
      /\ Exchanges' /\ Verdicts'
  <2>1. SaslTypes /\ Exchanges /\ Verdicts
    BY DEF SaslInv
  <2>2. PICK f \in 0..MaxExchange : f = 0 /\ f # e /\ Announce(f)
    BY <1>1, SaslAssumption
  <2>3. client' # "gone"
    OBVIOUS
  <2> QED
    BY <2>1, <2>2, <2>3, AnnounceKeeps
<1>5. SaslTypes'
  <2>1. turn' = "nobody" /\ auth' = NoAuth
    BY DEF Announce
  <2> QED
    BY <1>3, <1>4, <2>1, SaslAssumption DEF SaslInv, SaslTypes, SaslTypeOK, NoAuth
<1>6. Concluded'
  <2> SUFFICES ASSUME NEW x \in 1..MaxExchange, Over(x)'
               PROVE  EndedEarly(x)' \/ (~Asked(x)' /\ ~Coming(x)' /\ session' # x)
    BY DEF Concluded
  <2>1. CASE x = e
    BY <2>1, <1>4
  <2>2. CASE x # e
    <3>1. Over(x)
      BY <2>2 DEF Over
    <3> QED
      BY <2>2, <3>1, <1>3, <1>4 DEF SaslInv, Concluded
  <2> QED
    BY <2>1, <2>2
<1> QED
  BY <1>3, <1>4, <1>5, <1>6 DEF SaslInv

(* AUTHENTICATE * ends it early. *)
LEMMA AuthenticateAbortKeeps ==
    ASSUME SaslInv, AuthenticateAbort
    PROVE  SaslInv'
<1>1. auth # NoAuth
  BY DEF AuthenticateAbort, NoAuth
<1>2. client' \in {"registering", "connected"}
  BY DEF AuthenticateAbort, SaslInv, SaslTypes, SaslTypeOK
<1>3. PICK e \in 1..MaxExchange : e = auth.exchange
  BY <1>1, AuthExchange
<1>4. Announce(0) /\ SendSASL("*", e)
      /\ UNCHANGED <<legacy, exchanges, rejected, down, agent, session, splits>>
  BY <1>3 DEF AuthenticateAbort
<1> QED
  BY <1>1, <1>2, <1>3, <1>4, AbortKeeps

(* OnUserConnect ends an exchange that is open. *)
LEMMA SaslUserConnectKeeps ==
    ASSUME SaslInv, SaslUserConnect
    PROVE  SaslInv'
<1>0. client = "registering" /\ client' = "connected"
      /\ UNCHANGED <<legacy, exchanges, rejected, up, down, agent, session, splits>>
  BY DEF SaslUserConnect
<1>1. CASE auth # NoAuth /\ legacy
  <2>1. PICK e \in 1..MaxExchange : e = auth.exchange
    BY <1>1, AuthExchange
  <2>2. Announce(0)
    BY <1>1, <2>1 DEF SaslUserConnect
  <2> QED
    BY <1>0, <1>1, <2>1, <2>2, AbortKeeps
<1>2. CASE ~(auth # NoAuth /\ legacy)
  <2>1. UNCHANGED <<numerics, auth, turn>>
    BY <1>2 DEF SaslUserConnect
  <2>2. SaslTypes'
    BY <1>0, <2>1 DEF SaslInv, SaslTypes, SaslTypeOK
  <2>3. Links'
    BY <1>0, <2>1 DEF SaslInv, Links, Begun, StartedOnce, ResultLast, Asked, Coming
  <2>4. Exchanges' /\ Verdicts'
    BY <1>0, <2>1, BooksKeep DEF SaslInv
  <2>5. Concluded'
    BY <1>0, <2>1 DEF SaslInv, Concluded, Over, EndedEarly, Asked, Coming
  <2> QED
    BY <2>2, <2>3, <2>4, <2>5 DEF SaslInv
<1> QED
  BY <1>1, <1>2

(* A client that leaves takes its exchange with it. *)
LEMMA SaslUserDisconnectKeeps ==
    ASSUME SaslInv, SaslUserDisconnect
    PROVE  SaslInv'
<1>0. client' = "gone" /\ auth' = NoAuth /\ turn' = "nobody"
      /\ UNCHANGED <<legacy, exchanges, numerics, rejected, down, agent, session, splits>>
  BY DEF SaslUserDisconnect
<1>1. /\ up' \in Seq(UpMessage) /\ Links'
      /\ \A x \in 1..MaxExchange : (Asked(x)' => Asked(x)) /\ (Coming(x)' <=> Coming(x))
  <2>1. CASE auth # NoAuth
    <3>1. PICK e \in 1..MaxExchange : e = auth.exchange /\ e = exchanges
      BY <2>1, AuthExchange
    <3>2. SendSASL("D", e) /\ e <= exchanges
      BY <2>1, <3>1 DEF SaslUserDisconnect, NotifyAbort
    <3> QED
      BY <1>0, <3>2, SendLinks DEF SaslInv
  <2>2. CASE auth = NoAuth
    <3>1. up' = up
      BY <2>2 DEF SaslUserDisconnect, NotifyAbort
    <3>2. \A x \in 1..MaxExchange : (Asked(x)' <=> Asked(x)) /\ (Coming(x)' <=> Coming(x))
      BY <1>0, <3>1 DEF Asked, Coming
    <3>3. Begun' /\ ResultLast'
      BY <1>0, <3>1 DEF SaslInv, Links, Begun, ResultLast, Asked
    <3>4. StartedOnce'
      BY <1>0, <3>1 DEF SaslInv, Links, StartedOnce, Asked, Coming
    <3> QED
      BY <3>1, <3>2, <3>3, <3>4 DEF SaslInv, SaslTypes, Links
  <2> QED
    BY <2>1, <2>2
<1>2. SaslTypes'
  BY <1>0, <1>1, SaslAssumption DEF SaslInv, SaslTypes, SaslTypeOK, NoAuth
<1>3. Exchanges' /\ auth'.exchange = 0
  <2>1. NoAuth.exchange = 0 /\ NoAuth.state = "NONE"
    BY DEF NoAuth
  <2> QED
    BY <1>0, <2>1 DEF Exchanges
<1>e. \A x \in 1..MaxExchange : EndedEarly(x) => EndedEarly(x)'
  BY <1>0, <1>3, EarlyKeeps
<1>4. Verdicts'
  <2> SUFFICES ASSUME NEW x \in 0..MaxExchange PROVE Told(x)'
    BY DEF Verdicts
  <2>1. Told(x) /\ SaslTypes
    BY DEF SaslInv, Verdicts
  <2>2. x <= exchanges => Len(numerics'[x]) \in Owed(x)'
    BY <2>1, <1>0, <1>3 DEF Told, Owed
  <2>3. ASSUME NEW n \in 1..Len(numerics[x]) PROVE Rightly(x, n)'
    <3>1. Rightly(x, n)
      BY <2>1 DEF Told
    <3> QED
      BY <2>1, <3>1, <1>0, <1>e, RightlyKeeps
  <2> QED
    BY <2>1, <2>2, <2>3, <1>0 DEF Told
<1>5. Concluded'
  <2> SUFFICES ASSUME NEW x \in 1..MaxExchange, Over(x)'
               PROVE  EndedEarly(x)' \/ (~Asked(x)' /\ ~Coming(x)' /\ session' # x)
    BY DEF Concluded
  <2>1. CASE x # auth.exchange
    <3>1. Over(x)
      BY <2>1, <1>0 DEF Over
    <3> QED
      BY <3>1, <1>0, <1>1, <1>e DEF SaslInv, Concluded
  <2>2. CASE x = auth.exchange
    <3>1. \A n \in DOMAIN numerics[x] : numerics[x][n] # x
      BY <2>2, OpenIsUntold
    <3> QED
      BY <3>1, <1>0, <1>3 DEF EndedEarly
  <2> QED
    BY <2>1, <2>2
<1> QED
  BY <1>1, <1>2, <1>3, <1>4, <1>5 DEF SaslInv

(* A message of the services meets the exchange that is open, or none. *)
LEMMA CommandSASLKeeps ==
    ASSUME SaslInv, CommandSASL
    PROVE  SaslInv'
<1> DEFINE m == Head(down)
<1>0. down # <<>> /\ down' = Tail(down)
      /\ UNCHANGED <<client, legacy, exchanges, rejected, up, agent, session, splits>>
  BY DEF CommandSASL
<1>1. /\ down' \in Seq(DownMessage) /\ m \in DownMessage /\ Coming(m.exchange) /\ Links'
      /\ \A x \in 1..MaxExchange : (Coming(x)' => Coming(x)) /\ (Asked(x)' <=> Asked(x))
      /\ \A x \in 1..MaxExchange : m.kind = "D" /\ m.exchange = x =>
           ~Coming(x)' /\ ~Asked(x) /\ session # x
  BY <1>0, ReadDown DEF SaslInv, Links
<1>2. CASE client = "gone" \/ auth = NoAuth \/ ~Heard(m)
  <2>1. UNCHANGED <<auth, numerics, turn>>
    BY <1>2 DEF CommandSASL
  <2>2. SaslTypes'
    BY <1>0, <1>1, <2>1 DEF SaslInv, SaslTypes, SaslTypeOK
  <2>3. Exchanges' /\ Verdicts'
    BY <1>0, <2>1, BooksKeep DEF SaslInv
  <2>4. Concluded'
    BY <1>0, <1>1, <2>1, ConcludedKeeps DEF SaslInv
  <2> QED
    BY <1>1, <2>2, <2>3, <2>4 DEF SaslInv
<1>3. CASE ~(client = "gone" \/ auth = NoAuth \/ ~Heard(m)) /\ m.kind \in {"C", "M"}
  <2>1. auth # NoAuth /\ auth' = [auth EXCEPT !.state = "COMM", !.agent = m.agent]
        /\ turn' \in {"client", turn} /\ numerics' = numerics
    BY <1>3 DEF CommandSASL
  <2>2. auth \in [exchange : 0..MaxExchange, state : {"NONE", "INIT", "COMM"}, agent : Agent \cup {"none"}]
        /\ m.agent \in Agent \cup {"none"}
    BY <1>1 DEF SaslInv, SaslTypes, DownMessage
  <2>3. /\ auth' \in [exchange : 0..MaxExchange, state : {"NONE", "INIT", "COMM"}, agent : Agent \cup {"none"}]
        /\ auth'.exchange = auth.exchange /\ auth'.state = "COMM"
    BY <2>1, <2>2
  <2>4. SaslTypes'
    BY <1>0, <1>1, <2>1, <2>3 DEF SaslInv, SaslTypes, SaslTypeOK
  <2>5. Exchanges' /\ Verdicts'
    BY <1>0, <2>1, <2>3, BooksKeep DEF SaslInv
  <2>6. Concluded'
    BY <1>0, <1>1, <2>1, <2>3, ConcludedKeeps DEF SaslInv
  <2> QED
    BY <1>1, <2>4, <2>5, <2>6 DEF SaslInv
<1>4. CASE ~(client = "gone" \/ auth = NoAuth \/ ~Heard(m)) /\ m.kind \notin {"C", "M"}
  <2>1. auth # NoAuth /\ Announce(m.exchange) /\ client # "gone"
    BY <1>4 DEF CommandSASL
  <2>2. PICK e \in 1..MaxExchange : e = auth.exchange /\ e = exchanges
    BY <2>1, AuthExchange
  <2>3. m.kind = "D" /\ m.exchange \in 1..MaxExchange
    BY <1>1, <1>4 DEF DownMessage
  <2>a. PICK f \in 1..MaxExchange : f = m.exchange
    BY <2>3
  <2>4. ~Coming(f)' /\ ~Asked(f) /\ session # f /\ Coming(f) /\ Announce(f)
    BY <1>1, <2>1, <2>3, <2>a
  <2>5. f = e \/ (f < e /\ EndedEarly(f))
    <3> SUFFICES ASSUME f # e PROVE f < e /\ EndedEarly(f)
      OBVIOUS
    <3>1. f <= exchanges
      BY <2>4 DEF Coming, SaslInv, Links, Begun
    <3>2. f < e /\ Over(f)
      BY <3>1, <2>2 DEF Over
    <3> QED
      BY <3>2, <2>4 DEF SaslInv, Concluded
  <2>6. /\ numerics' \in [0..MaxExchange -> Seq(0..MaxExchange)]
        /\ auth'.exchange = 0 /\ (f # e => EndedEarly(e)')
        /\ \A x \in 1..MaxExchange : x # e /\ EndedEarly(x) => EndedEarly(x)'
        /\ Exchanges' /\ Verdicts'
    <3>1. SaslTypes /\ Exchanges /\ Verdicts
      BY DEF SaslInv
    <3>2. f \in 0..MaxExchange /\ client' # "gone" /\ UNCHANGED <<exchanges, rejected>>
      BY <1>0, <2>1, SaslAssumption
    <3> QED
      BY <3>1, <3>2, <2>1, <2>2, <2>4, <2>5, AnnounceKeeps
  <2>7. SaslTypes'
    <3>1. turn' = "nobody" /\ auth' = NoAuth
      BY <2>1 DEF Announce
    <3> QED
      BY <1>0, <1>1, <2>6, <3>1, SaslAssumption DEF SaslInv, SaslTypes, SaslTypeOK, NoAuth
  <2>8. Concluded'
    <3> SUFFICES ASSUME NEW x \in 1..MaxExchange, Over(x)'
                 PROVE  EndedEarly(x)' \/ (~Asked(x)' /\ ~Coming(x)' /\ session' # x)
      BY DEF Concluded
    <3>1. CASE x # e
      <4>1. Over(x)
        BY <3>1, <1>0, <2>2 DEF Over
      <4> QED
        BY <3>1, <4>1, <1>0, <1>1, <2>6 DEF SaslInv, Concluded
    <3>2. CASE x = e /\ f # e
      BY <3>2, <2>6
    <3>3. CASE x = e /\ f = e
      BY <3>3, <1>0, <1>1, <2>4
    <3> QED
      BY <3>1, <3>2, <3>3
  <2> QED
    BY <1>1, <2>6, <2>7, <2>8 DEF SaslInv
<1> QED
  BY <1>2, <1>3, <1>4

(* A message that the services do not answer leaves the links in order, *)
(* whether it ends their session or not.                                *)
LEMMA UnansweredKeeps ==
    ASSUME SaslInv, up # <<>>, up' = Tail(up), session' \in {session, 0},
           UNCHANGED <<client, legacy, auth, exchanges, numerics, rejected, down, agent, splits, turn>>
    PROVE  SaslInv'
<1>1. /\ up' \in Seq(UpMessage)
      /\ \A i \in 1..Len(up') : up'[i].exchange <= exchanges
      /\ \A i, j \in 1..Len(up') : up'[i].kind = "S" /\ up'[j] = up'[i] => i = j
      /\ \A x \in 1..MaxExchange : Asked(x)' => Asked(x)
  BY ReadUp DEF SaslInv, Links
<1>2. \A x \in 1..MaxExchange : (Coming(x)' <=> Coming(x)) /\ (session' = x => session = x)
  BY DEF Coming
<1>3. exchanges \in Nat /\ session' <= exchanges /\ session' \in 0..MaxExchange
  BY SaslAssumption DEF SaslInv, SaslTypes, SaslTypeOK, Links, Begun
<1>4. Begun'
  BY <1>1, <1>3 DEF SaslInv, Links, Begun
<1>5. StartedOnce'
  <2>1. \A x \in 1..MaxExchange : Asked(x)' => session' # x /\ ~Coming(x)'
    BY <1>1, <1>2 DEF SaslInv, Links, StartedOnce
  <2> QED
    BY <1>1, <2>1 DEF StartedOnce
<1>6. ResultLast'
  <2> SUFFICES ASSUME NEW i \in 1..Len(down), down[i].kind = "D"
               PROVE  /\ ~Asked(down[i].exchange)' /\ session' # down[i].exchange
                      /\ \A j \in 1..Len(down) : down[j].exchange = down[i].exchange => j <= i
    BY DEF ResultLast
  <2>1. /\ ~Asked(down[i].exchange) /\ session # down[i].exchange
        /\ \A j \in 1..Len(down) : down[j].exchange = down[i].exchange => j <= i
    BY DEF SaslInv, Links, ResultLast
  <2>2. PICK x \in 1..MaxExchange : x = down[i].exchange
    <3>1. down[i] \in DownMessage
      BY DEF SaslInv, SaslTypes
    <3> QED
      BY <3>1 DEF DownMessage
  <2>3. ~Asked(x)' /\ session' # x
    BY <1>1, <1>2, <2>1, <2>2
  <2>4. ~Asked(down[i].exchange)'
    BY <2>2, <2>3 DEF Asked
  <2> QED
    BY <2>1, <2>2, <2>3, <2>4
<1>7. SaslTypes'
  BY <1>1, <1>3 DEF SaslInv, SaslTypes, SaslTypeOK
<1>8. Exchanges' /\ Verdicts'
  BY BooksKeep DEF SaslInv
<1>9. Concluded'
  BY <1>1, <1>2, ConcludedKeeps DEF SaslInv
<1> QED
  BY <1>4, <1>5, <1>6, <1>7, <1>8, <1>9 DEF SaslInv, Links

(* The services answer what has reached them. *)
LEMMA ServicesAnswerKeeps ==
    ASSUME SaslInv, NEW kinds \in Replies, ServicesAnswer(kinds)
    PROVE  SaslInv'
<1>0. up # <<>> /\ up' = Tail(up) /\ Head(up).kind \in {"S", "C"}
      /\ UNCHANGED <<client, legacy, auth, exchanges, numerics, rejected, agent, splits, turn>>
  BY DEF ServicesAnswer
<1>1. CASE Head(up).kind = "C" /\ Head(up).exchange # session
  <2>1. UNCHANGED <<down, session>>
    BY <1>1 DEF ServicesAnswer
  <2> QED
    BY <1>0, <2>1, UnansweredKeeps
<1>2. CASE ~(Head(up).kind = "C" /\ Head(up).exchange # session)
  <2>1. /\ up' \in Seq(UpMessage) /\ Head(up) \in UpMessage /\ Head(up).exchange <= exchanges
        /\ \A i \in 1..Len(up') : up'[i].exchange <= exchanges
        /\ \A i, j \in 1..Len(up') : up'[i].kind = "S" /\ up'[j] = up'[i] => i = j
        /\ \A x \in 1..MaxExchange : Asked(x)' => Asked(x)
        /\ \A x \in 1..MaxExchange :
             Head(up).kind = "S" /\ Head(up).exchange = x => Asked(x) /\ ~Asked(x)'
    BY <1>0, ReadUp DEF SaslInv, Links
  <2>2. PICK e \in 1..MaxExchange : e = Head(up).exchange /\ e <= exchanges
    BY <2>1 DEF UpMessage
  <2>3. down' = SaslReply(kinds, e) /\ session' = IF kinds = <<"C">> THEN e ELSE 0
    BY <1>2, <2>2 DEF ServicesAnswer
  <2>4. (Asked(e) \/ session = e) /\ ~Asked(e)'
    <3>1. CASE Head(up).kind = "S"
      BY <3>1, <2>1, <2>2
    <3>2. CASE Head(up).kind = "C"
      <4>1. session = e
        BY <3>2, <1>2, <2>2
      <4>2. ~Asked(e)
        BY <4>1 DEF SaslInv, Links, StartedOnce
      <4> QED
        BY <4>1, <4>2, <2>1
    <3> QED
      BY <3>1, <3>2, <1>0
  <2>5. PICK l \in Nat : l = Len(down)
    BY DEF SaslInv, SaslTypes
  <2>6. PICK k \in {1, 2} :
          /\ down' \in Seq(DownMessage) /\ Len(down') = l + k
          /\ \A i \in 1..l : down'[i] = down[i]
          /\ \A i \in 1..(l + k) : i \notin 1..l =>
               down'[i].exchange = e /\ (down'[i].kind = "D" => i = l + k /\ kinds # <<"C">>)
    BY <2>3, <2>5, SayType DEF SaslInv
  <2>c. \A x \in 1..MaxExchange : Coming(x)' => Coming(x) \/ x = e
    <3> TAKE x \in 1..MaxExchange
    <3> HAVE Coming(x)'
    <3>1. PICK i \in 1..(l + k) : down'[i].exchange = x
      BY <2>6 DEF Coming
    <3>2. CASE i \in 1..l
      BY <3>1, <3>2, <2>5, <2>6 DEF Coming
    <3>3. CASE i \notin 1..l
      BY <3>1, <3>3, <2>6
    <3> QED
      BY <3>2, <3>3
  <2>7. exchanges \in Nat /\ session' \in {e, 0} /\ session' <= exchanges /\ session' \in 0..MaxExchange
    <3>1. exchanges \in Nat /\ MaxExchange \in Nat
      BY SaslAssumption DEF SaslInv, SaslTypes, SaslTypeOK
    <3> QED
      BY <3>1, <2>2, <2>3
  <2>8. Begun'
    <3>1. \A i \in 1..(l + k) : down'[i].exchange <= exchanges
      <4> TAKE i \in 1..(l + k)
      <4>1. CASE i \in 1..l
        BY <4>1, <2>5, <2>6 DEF SaslInv, Links, Begun
      <4>2. CASE i \notin 1..l
        BY <4>2, <2>2, <2>6
      <4> QED
        BY <4>1, <4>2
    <3> QED
      BY <3>1, <2>1, <2>6, <2>7, <1>0 DEF Begun
  <2>9. StartedOnce'
    <3>1. \A x \in 1..MaxExchange : Asked(x)' => session' # x /\ ~Coming(x)'
      <4> TAKE x \in 1..MaxExchange
      <4> HAVE Asked(x)'
      <4>1. x # e /\ Asked(x)
        BY <2>1, <2>4
      <4> QED
        BY <4>1, <2>7, <2>c DEF SaslInv, Links, StartedOnce
    <3> QED
      BY <3>1, <2>1 DEF StartedOnce
  <2>10. ResultLast'
    <3> SUFFICES ASSUME NEW i \in 1..(l + k), down'[i].kind = "D"
                 PROVE  /\ ~Asked(down[i].exchange)' /\ session' # down'[i].exchange
                        /\ \A j \in 1..(l + k) : down'[j].exchange = down'[i].exchange => j <= i
      BY <2>6 DEF ResultLast
    <3>1. CASE i \in 1..l
      <4>1. /\ ~Asked(down[i].exchange) /\ session # down[i].exchange
            /\ \A j \in 1..l : down[j].exchange = down[i].exchange => j <= i
        BY <3>1, <2>5, <2>6 DEF SaslInv, Links, ResultLast
      <4>2. PICK x \in 1..MaxExchange : x = down[i].exchange /\ down'[i].exchange = x /\ Coming(x)
        <5>1. down[i] \in DownMessage
          BY <3>1, <2>5 DEF SaslInv, SaslTypes
        <5> QED
          BY <5>1, <3>1, <2>5, <2>6 DEF DownMessage, Coming
      <4>3. x # e
        BY <4>1, <4>2, <2>4 DEF SaslInv, Links, StartedOnce
      <4>4. ~Asked(x)' /\ session' # x
        BY <4>1, <4>2, <4>3, <2>1, <2>7
      <4>5. ~Asked(down[i].exchange)'
        BY <4>2, <4>4 DEF Asked
      <4>6. \A j \in 1..(l + k) : down'[j].exchange = x => j <= i
        <5> TAKE j \in 1..(l + k)
        <5>1. CASE j \in 1..l
          BY <5>1, <4>1, <4>2, <2>6
        <5>2. CASE j \notin 1..l
          BY <5>2, <4>3, <2>6
        <5> QED
          BY <5>1, <5>2
      <4> QED
        BY <4>2, <4>4, <4>5, <4>6
    <3>2. CASE i \notin 1..l
      <4>1. session' = 0 /\ down'[i].exchange = e /\ i = l + k
        BY <3>2, <2>3, <2>6
      <4>2. ~Asked(down[i].exchange)'
        BY <4>1, <2>4 DEF Asked
      <4> QED
        BY <3>2, <4>1, <4>2
    <3> QED
      BY <3>1, <3>2
  <2>11. SaslTypes'
    BY <1>0, <2>1, <2>6, <2>7 DEF SaslInv, SaslTypes, SaslTypeOK
  <2>12. Exchanges' /\ Verdicts'
    BY <1>0, BooksKeep DEF SaslInv
  <2>13. Concluded'
    BY <1>0, <2>1, <2>4, <2>c, <2>7, ConcludedKeeps DEF SaslInv
  <2> QED
    BY <2>8, <2>9, <2>10, <2>11, <2>12, <2>13 DEF SaslInv, Links
<1> QED
  BY <1>1, <1>2

(* The services are lost with what is under way. *)
LEMMA ServicesSplitKeeps ==
    ASSUME SaslInv, ServicesSplit
    PROVE  SaslInv'
<1>0. up' = <<>> /\ down' = <<>> /\ session' = 0 /\ agent' = "none" /\ splits' = splits + 1
      /\ splits < MaxSplit /\ turn' \in {turn, "nobody"}
      /\ UNCHANGED <<client, legacy, auth, exchanges, numerics, rejected>>
  BY DEF ServicesSplit
<1>1. Len(up') = 0 /\ Len(down') = 0 /\ up' \in Seq(UpMessage) /\ down' \in Seq(DownMessage)
  BY <1>0
<1>2. \A x \in 1..MaxExchange : ~Asked(x)' /\ ~Coming(x)' /\ session' # x
  BY <1>0, <1>1 DEF Asked, Coming
<1>3. exchanges \in Nat
  BY SaslAssumption DEF SaslInv, SaslTypes, SaslTypeOK
<1>4. Links'
  BY <1>0, <1>1, <1>2, <1>3 DEF Links, Begun, StartedOnce, ResultLast
<1>5. SaslTypes'
  BY <1>0, <1>1, SaslAssumption DEF SaslInv, SaslTypes, SaslTypeOK
<1>6. Exchanges' /\ Verdicts'
  BY <1>0, BooksKeep DEF SaslInv
<1>7. Concluded'
  BY <1>0, <1>2, ConcludedKeeps DEF SaslInv
<1> QED
  BY <1>4, <1>5, <1>6, <1>7 DEF SaslInv

(* Another agent changes nothing in the exchanges. *)
LEMMA SameSaslKeeps ==
    ASSUME SaslInv, agent' \in Agent \cup {"none"},
           UNCHANGED <<client, legacy, auth, exchanges, numerics, rejected, up, down, session, splits, turn>>
    PROVE  SaslInv'
<1>1. Links'
  BY DEF SaslInv, Links, Begun, StartedOnce, ResultLast, Asked, Coming
<1>2. SaslTypes'
  BY DEF SaslInv, SaslTypes, SaslTypeOK
<1>3. Exchanges' /\ Verdicts'
  BY BooksKeep DEF SaslInv
<1>4. Concluded'
  BY DEF SaslInv, Concluded, Over, EndedEarly, Asked, Coming
<1> QED
  BY <1>1, <1>2, <1>3, <1>4 DEF SaslInv

(* Nothing was asked at first. *)
LEMMA SaslInitInv == SaslInit => SaslInv
<1> SUFFICES ASSUME SaslInit PROVE SaslInv
  OBVIOUS
<1>1. Len(up) = 0 /\ Len(down) = 0 /\ up \in Seq(UpMessage) /\ down \in Seq(DownMessage)
  BY DEF SaslInit
<1>2. /\ numerics \in [0..MaxExchange -> Seq(0..MaxExchange)] /\ rejected \in [0..MaxExchange -> Nat]
      /\ \A e \in 0..MaxExchange : numerics[e] = <<>> /\ Len(numerics[e]) = 0 /\ rejected[e] = 0
  BY DEF SaslInit
<1>3. SaslTypes
  BY <1>1, <1>2, SaslAssumption DEF SaslInit, SaslTypes, SaslTypeOK, NoAuth
<1>4. Links
  BY <1>1 DEF SaslInit, Links, Begun, StartedOnce, ResultLast, Asked
<1>5. Exchanges
  BY <1>2 DEF SaslInit, Exchanges, NoAuth
<1>6. Concluded
  BY SaslAssumption DEF SaslInit, Concluded, Over
<1>7. Verdicts
  BY <1>2, SaslAssumption DEF SaslInit, Verdicts, Told, Owed, NoAuth
<1> QED
  BY <1>3, <1>4, <1>5, <1>6, <1>7 DEF SaslInv

(* The invariant gives one verdict, and whose it is. *)
LEMMA SaslInvImplies == SaslInv => OneOwnVerdict
<1> SUFFICES ASSUME SaslInv, NEW e \in 0..exchanges
             PROVE  /\ Len(numerics[e]) \in Owed(e)
                    /\ \A n \in DOMAIN numerics[e] : Rightly(e, n)
  BY DEF SaslInv, SaslTypes, OneOwnVerdict, Rightly
<1>1. e \in 0..MaxExchange /\ e <= exchanges
  BY SaslAssumption DEF SaslInv, SaslTypes, SaslTypeOK
<1>2. Told(e) /\ numerics[e] \in Seq(0..MaxExchange)
  BY <1>1 DEF SaslInv, SaslTypes, Verdicts
<1>3. DOMAIN numerics[e] = 1..Len(numerics[e])
  BY <1>2
<1> QED
  BY <1>1, <1>2, <1>3 DEF Told

(* However messages of the services cross what the client does, however    *)
(* many of its lines are rejected, and however often the services are lost *)
(* and come back: besides an answer to each rejected line, the client is   *)
(* told one result for an exchange, when it is over, and it is the         *)
(* exchange's own unless a result was under way for an earlier exchange    *)
(* that ended without it.                                                  *)
THEOREM VerdictsAreOwn == SaslSpec => []OneOwnVerdict
<1>1. SaslInv /\ [SaslNext]_saslVars => SaslInv'
  <2> SUFFICES ASSUME SaslInv, [SaslNext]_saslVars PROVE SaslInv'
    OBVIOUS
  <2>0. CASE AuthenticateRejected
    BY <2>0, AuthenticateRejectedKeeps
  <2>1. CASE AuthenticateStart
    BY <2>1, AuthenticateStartKeeps
  <2>2. CASE AuthenticateMore
    BY <2>2, AuthenticateMoreKeeps
  <2>3. CASE AuthenticateAbort
    BY <2>3, AuthenticateAbortKeeps
  <2>4. CASE SaslUserConnect
    BY <2>4, SaslUserConnectKeeps
  <2>5. CASE SaslUserDisconnect
    BY <2>5, SaslUserDisconnectKeeps
  <2>6. CASE CommandSASL
    BY <2>6, CommandSASLKeeps
  <2>7. ASSUME NEW k \in Replies, ServicesAnswer(k) PROVE SaslInv'
    BY <2>7, ServicesAnswerKeeps
  <2>8. CASE ServicesAbort
    BY <2>8, UnansweredKeeps DEF ServicesAbort
  <2>9. CASE ServicesSplit
    BY <2>9, ServicesSplitKeeps
  <2>10. ASSUME NEW a \in Agent, ServicesReturn(a) PROVE SaslInv'
    BY <2>10, SameSaslKeeps DEF ServicesReturn
  <2>11. CASE UNCHANGED saslVars
    <3>1. agent \in Agent \cup {"none"}
      BY DEF SaslInv, SaslTypes, SaslTypeOK
    <3> QED
      BY <2>11, <3>1, SameSaslKeeps DEF saslVars
  <2> QED
    BY <2>0, <2>1, <2>2, <2>3, <2>4, <2>5, <2>6, <2>7, <2>8, <2>9, <2>10, <2>11 DEF SaslNext
<1> QED
  BY <1>1, SaslInitInv, SaslInvImplies, PTL DEF SaslSpec

-----------------------------------------------------------------------------
(* For any masks, periods and times: a crash of the server loses no line   *)
(* that was not marked as unsaved, and the database is only ever replaced  *)
(* as a whole.                                                             *)

Line == [mask : LineMask, until : Nat, conf : BOOLEAN]

(* Lines that did not come from the configuration: those that are saved *)
Own(S) == {l \in S : ~l.conf}

(* The temporary file holds lines of the memory while it is written, and the *)
(* database holds none of the configuration.                                 *)
DbInv ==
    /\ xlines \subseteq Line /\ dbFile \subseteq Line /\ Own(dbFile) = dbFile
    /\ dirty \in BOOLEAN /\ today \in Nat
    /\ writing = "lines" => tempFile \subseteq Own(xlines)
    /\ CleanMeansSaved

(* A server starts for the first time with nothing in memory or on disk. *)
LEMMA DbInitInv == DbInit => DbInv
<1> SUFFICES ASSUME DbInit PROVE DbInv
  OBVIOUS
<1>1. xlines = {} /\ dbFile = {} /\ dirty = FALSE /\ today = 0 /\ writing = "no"
  BY DEF DbInit
<1>2. CleanMeansSaved
  BY <1>1 DEF CleanMeansSaved
<1> QED
  BY <1>1, <1>2 DEF DbInv, Own

(* When nothing is left to write the temporary file is the saved part of memory. *)
LEMMA NothingLeft ==
    ASSUME DbInv, writing = "lines", ToWrite = {}
    PROVE  tempFile = Own(xlines)
BY DEF DbInv, ToWrite, Own

(* A line stays expired. *)
LEMMA ExpiryLasts ==
    ASSUME today \in Nat, today' = today + 1, NEW l \in Line
    PROVE  LineExpired(l) => LineExpired(l)'
BY DEF Line, LineExpired

(* A line is added, which marks the lines as unsaved. *)
LEMMA AddInv ==
    ASSUME DbInv, NEW l \in NewLines, DbAddLine(l)
    PROVE  DbInv'
<1>1. l \in Line /\ ~l.conf
  <2>1. PICK m \in LineMask, t \in {0, today + 1} : l = [mask |-> m, until |-> t, conf |-> FALSE]
    BY DEF NewLines, XLine
  <2>2. t \in Nat
    BY DEF DbInv
  <2> QED
    BY <2>1, <2>2 DEF Line
<1>2. dirty' = TRUE
  BY <1>1 DEF DbAddLine, Marked, DbInv
<1>3. CleanMeansSaved'
  BY <1>2 DEF CleanMeansSaved
<1> QED
  BY <1>1, <1>2, <1>3 DEF DbInv, DbAddLine, Unlisted

(* A line is deleted: unless it is marked as unsaved it was from the configuration. *)
LEMMA DelInv ==
    ASSUME DbInv, NEW l \in xlines, DbDelLine(l)
    PROVE  DbInv'
<1>1. l \in Line /\ dirty' \in BOOLEAN
  BY DEF DbInv, DbDelLine, Marked, Line
<1>2. CASE l.conf
  <2>1. CleanMeansSaved'
    BY <1>1, <1>2 DEF DbInv, DbDelLine, Marked, CleanMeansSaved, LineExpired, Own, Line
  <2> QED
    BY <1>1, <2>1 DEF DbInv, DbDelLine, Unlisted
<1>3. CASE ~l.conf
  <2>1. CleanMeansSaved'
    BY <1>3 DEF DbDelLine, Marked, CleanMeansSaved
  <2> QED
    BY <1>1, <2>1 DEF DbInv, DbDelLine, Unlisted
<1> QED
  BY <1>2, <1>3

(* A line that has expired leaves the memory and stays in the file. *)
LEMMA ExpireInv ==
    ASSUME DbInv, NEW l \in xlines, DbExpireLine(l)
    PROVE  DbInv'
<1>1. CleanMeansSaved'
  BY DEF DbInv, DbExpireLine, CleanMeansSaved, LineExpired
<1> QED
  BY <1>1 DEF DbInv, DbExpireLine, Unlisted

(* The lines of the configuration hide saved ones and add no line to save. *)
LEMMA ConfigFacts ==
    ASSUME NEW S, S \subseteq Line, NEW C \in SUBSET LineMask
    PROVE  /\ WithConfig(S, C) \subseteq Line
           /\ Own(WithConfig(S, C)) \subseteq Own(S)
           /\ \A l \in Own(S) : l \in WithConfig(S, C) \/ l.mask \in Hidden(S, C)
<1>1. \A m \in C : XLine(m, 0, TRUE) \in Line /\ XLine(m, 0, TRUE).conf
  BY DEF XLine, Line
<1> QED
  BY <1>1 DEF WithConfig, Hidden, Own

(* A rehash. *)
LEMMA RehashInv ==
    ASSUME DbInv, NEW C \in SUBSET LineMask, DbRehash(C)
    PROVE  DbInv'
<1>1. /\ xlines' \subseteq Line /\ Own(xlines') \subseteq Own(xlines)
      /\ \A l \in Own(xlines) : l \in xlines' \/ l.mask \in shadowed'
  BY ConfigFacts DEF DbInv, DbRehash
<1>2. CleanMeansSaved'
  BY <1>1 DEF DbInv, DbRehash, CleanMeansSaved, LineExpired, Own
<1> QED
  BY <1>1, <1>2 DEF DbInv, DbRehash, Unlisted

(* Time passes. *)
LEMMA SecondInv ==
    ASSUME DbInv, DbSecond
    PROVE  DbInv'
<1>1. \A l \in Line : LineExpired(l) => LineExpired(l)'
  BY ExpiryLasts DEF DbInv, DbSecond
<1>2. CleanMeansSaved'
  BY <1>1 DEF DbInv, DbSecond, CleanMeansSaved
<1> QED
  BY <1>2 DEF DbInv, DbSecond, Unlisted

(* The database is written: after the rename it is the saved part of memory. *)
LEMMA WriteInv ==
    ASSUME DbInv, TickClean \/ TickOpens \/ (\E l \in ToWrite : WriteLine(l)) \/ Rename \/ WriteFails
    PROVE  DbInv'
<1>1. CASE TickClean
  BY <1>1 DEF DbInv, TickClean, CleanMeansSaved, LineExpired
<1>2. CASE TickOpens
  BY <1>2 DEF DbInv, TickOpens, CleanMeansSaved, Own
<1>3. CASE \E l \in ToWrite : WriteLine(l)
  BY <1>3 DEF DbInv, WriteLine, ToWrite, CleanMeansSaved, LineExpired, Own
<1>4. CASE Rename
  <2>1. dbFile' = Own(xlines) /\ UNCHANGED <<xlines, today>> /\ dirty' = FALSE /\ writing' = "no"
    BY <1>4, NothingLeft DEF Rename
  <2>2. CleanMeansSaved'
    BY <2>1 DEF CleanMeansSaved, Own
  <2> QED
    BY <2>1, <2>2 DEF DbInv, Own
<1>5. CASE WriteFails
  BY <1>5 DEF DbInv, WriteFails, CleanMeansSaved, LineExpired
<1> QED
  BY <1>1, <1>2, <1>3, <1>4, <1>5

(* The server ends, and starts again from the file. *)
LEMMA RestartInv ==
    ASSUME DbInv, NEW C \in SUBSET LineMask, NEW readable \in BOOLEAN,
           DbCrash \/ DbStart(readable, C)
    PROVE  DbInv'
<1>1. CASE DbCrash
  BY <1>1 DEF DbInv, DbCrash, CleanMeansSaved
<1>2. CASE DbStart(readable, C)
  <2> DEFINE loaded == IF readable THEN {l \in dbFile : ~LineExpired(l)} ELSE {}
  <2>1. /\ xlines' = WithConfig(loaded, C) /\ shadowed' = Hidden(loaded, C)
        /\ unread' = ~readable /\ dirty' = FALSE /\ writing' = "no"
        /\ UNCHANGED <<today, dbFile>>
    BY <1>2 DEF DbStart
  <2>2. loaded \subseteq dbFile /\ loaded \subseteq Line
    BY DEF DbInv
  <2>3. /\ xlines' \subseteq Line /\ Own(xlines') \subseteq Own(loaded)
        /\ \A l \in Own(loaded) : l \in xlines' \/ l.mask \in shadowed'
    BY <2>1, <2>2, ConfigFacts
  <2>4. \A l \in dbFile : unread' \/ LineExpired(l) \/ l \in Own(loaded)
    BY <2>1 DEF DbInv, Own
  <2>5. CleanMeansSaved'
    BY <2>1, <2>2, <2>3, <2>4 DEF CleanMeansSaved, LineExpired, Own
  <2> QED
    BY <2>1, <2>3, <2>5 DEF DbInv
<1> QED
  BY <1>1, <1>2

(* Every step preserves the invariant. *)
LEMMA DbStep == DbInv /\ [DbNext]_dbVars => DbInv'
<1> SUFFICES ASSUME DbInv, [DbNext]_dbVars PROVE DbInv'
  OBVIOUS
<1>1. CASE UNCHANGED dbVars
  BY <1>1 DEF DbInv, dbVars, CleanMeansSaved, LineExpired, Own
<1>2. CASE DbCrash
  <2>1. {} \in SUBSET LineMask
    OBVIOUS
  <2> QED
    BY <1>2, <2>1, RestartInv
<1> QED
  BY <1>1, <1>2, AddInv, DelInv, ExpireInv, RehashInv, SecondInv, WriteInv, RestartInv DEF DbNext

(* xline_db.cpp: while no line is marked as unsaved, the file agrees with the *)
(* memory, whatever lines are added, deleted and expire, whatever writes fail *)
(* and wherever the server crashes.                                           *)
THEOREM CleanIsSaved == DbSafe => []CleanMeansSaved
<1>1. DbInv => CleanMeansSaved
  BY DEF DbInv
<1> QED
  BY <1>1, DbInitInv, DbStep, PTL DEF DbSafe

(* WriteDatabase replaces the file by all the lines to save or leaves it alone. *)
THEOREM AlwaysReplacedAsAWhole == DbSafe => ReplacedAsAWhole
<1>1. DbInv /\ [DbNext]_dbVars => [dbFile' # dbFile => dbFile' = {l \in xlines : ~l.conf}]_dbVars
  <2> SUFFICES ASSUME DbInv, DbNext, dbFile' # dbFile
               PROVE  dbFile' = {l \in xlines : ~l.conf}
    OBVIOUS
  <2>1. Rename
    BY DEF DbNext, DbAddLine, DbDelLine, DbExpireLine, DbRehash, DbSecond, TickClean, TickOpens,
           WriteLine, WriteFails, DbCrash, DbStart
  <2> QED
    BY <2>1, NothingLeft DEF Rename, Own
<1> QED
  BY <1>1, DbInitInv, DbStep, PTL DEF DbSafe, ReplacedAsAWhole

-----------------------------------------------------------------------------
(* For any users, channels and durations: the two lists of invitations     *)
(* never disagree, and no invitation outlives what was asked for it.       *)

(* An invitation and its timer.  The conjunct on promised is what makes    *)
(* InviteExpires inductive: an invitation that exists was asked for.       *)
InviteInv ==
    /\ InviteTypeOK
    /\ DOMAIN expiretimer = Pairs /\ DOMAIN promised = Pairs
    /\ InviteListsAgree
    /\ InviteExpires
    /\ \A p \in Pairs : promised[p] # 0 <=> IsInvited(p[1], p[2])
    /\ \A p \in Pairs : promised[p] >= -1

(* A pair is in Pairs exactly when its components are a user and a channel. *)
LEMMA PairFacts ==
    /\ \A u \in Invitee, c \in Chan : <<u, c>> \in Pairs /\ <<u, c>>[1] = u /\ <<u, c>>[2] = c
    /\ \A p \in Pairs : p[1] \in Invitee /\ p[2] \in Chan /\ p = <<p[1], p[2]>>
BY DEF Pairs

(* InviteInv holds when the server starts. *)
LEMMA InviteInitInv == InviteInit => InviteInv
BY PairFacts, InviteAssumption
   DEF InviteInit, InviteInv, InviteTypeOK, InviteListsAgree, InviteExpires, IsInvited

(* Destruct leaves the two lists, the timers and the history in agreement. *)
LEMMA DestructKeeps ==
    ASSUME InviteInv, NEW S \in SUBSET Pairs, Destruct(S)
    PROVE  /\ userInvites' \in [Invitee -> SUBSET Chan]
           /\ chanInvites' \in [Chan -> SUBSET Invitee]
           /\ expiretimer' \in [Pairs -> Nat]
           /\ promised' \in [Pairs -> Int]
           /\ \A u \in Invitee, c \in Chan :
                /\ c \in userInvites'[u] <=> u \in chanInvites'[c]
                /\ c \in userInvites'[u] <=> c \in userInvites[u] /\ <<u, c>> \notin S
           /\ \A p \in Pairs :
                /\ expiretimer'[p] = IF p \in S THEN 0 ELSE expiretimer[p]
                /\ promised'[p] = IF p \in S THEN 0 ELSE promised[p]
BY PairFacts DEF InviteInv, InviteTypeOK, InviteListsAgree, Destruct

(* A step that only destroys invitations, and ends a membership or a channel *)
(* only together with its invitations.                                       *)
LEMMA DestructInv ==
    ASSUME InviteInv, NEW S \in SUBSET Pairs, Destruct(S),
           onChannel' \subseteq Pairs, chanExists' \subseteq Chan, inviteClock' \in Nat,
           \A u \in Invitee, c \in Chan :
               c \in userInvites[u] /\ <<u, c>> \notin S =>
                   c \in chanExists' /\ <<u, c>> \notin onChannel',
           \A p \in Pairs \ S : expiretimer[p] # 0 => inviteClock' < expiretimer[p]
    PROVE  InviteInv'
<1>1. InviteTypeOK' /\ (DOMAIN expiretimer = Pairs /\ DOMAIN promised = Pairs)'
  BY DestructKeeps DEF InviteTypeOK
<1>2. InviteListsAgree'
  BY DestructKeeps, PairFacts DEF InviteInv, InviteTypeOK, InviteListsAgree, IsInvited
<1>3. \A p \in Pairs : IsInvited(p[1], p[2])' <=> IsInvited(p[1], p[2]) /\ p \notin S
  BY DestructKeeps, PairFacts DEF IsInvited
<1>4. InviteExpires'
  BY <1>3, DestructKeeps, PairFacts DEF InviteInv, InviteTypeOK, InviteExpires
<1>5. /\ \A p \in Pairs : (promised[p] # 0 <=> IsInvited(p[1], p[2]))'
      /\ \A p \in Pairs : promised'[p] >= -1
  BY <1>3, DestructKeeps, PairFacts DEF InviteInv
<1> QED
  BY <1>1, <1>2, <1>4, <1>5 DEF InviteInv

(* Create, for a timeout that is not over *)
LEMMA CreateInv ==
    ASSUME InviteInv, NEW u \in Invitee, NEW c \in Chan, NEW timeout \in Nat,
           c \in chanExists, <<u, c>> \notin onChannel,
           timeout = Forever \/ inviteClock < timeout,
           Create(u, c, timeout), UNCHANGED <<onChannel, chanExists, inviteClock>>
    PROVE  InviteInv'
<1> DEFINE q == <<u, c>>
<1>1. /\ userInvites' \in [Invitee -> SUBSET Chan]
      /\ chanInvites' \in [Chan -> SUBSET Invitee]
      /\ \A v \in Invitee, d \in Chan :
            /\ d \in userInvites'[v] <=> (d \in userInvites[v] \/ <<v, d>> = q)
            /\ v \in chanInvites'[d] <=> (v \in chanInvites[d] \/ <<v, d>> = q)
  BY PairFacts DEF InviteInv, InviteTypeOK, Create
<1>2. /\ DOMAIN expiretimer' = Pairs
      /\ \A p \in Pairs : p # q => expiretimer'[p] = expiretimer[p]
      /\ expiretimer'[q] = IF ~IsInvited(u, c) THEN timeout
                           ELSE IF expiretimer[q] = 0 THEN 0
                           ELSE IF timeout = 0 THEN 0
                           ELSE IF expiretimer[q] >= inviteClock + timeout THEN timeout
                           ELSE expiretimer[q]
  BY PairFacts DEF InviteInv, Create, Extended, Forever
<1>3. /\ DOMAIN promised' = Pairs
      /\ \A p \in Pairs : p # q => promised'[p] = promised[p]
      /\ promised'[q] = IF timeout = 0 \/ promised[q] = -1 THEN -1
                        ELSE IF timeout > promised[q] THEN timeout ELSE promised[q]
  BY PairFacts DEF InviteInv, Create, Later, Forever
<1>4. q \in Pairs /\ q[1] = u /\ q[2] = c
  BY PairFacts
<1>5. expiretimer[q] \in Nat /\ promised[q] \in Int /\ promised[q] >= -1 /\ inviteClock \in Nat
  BY <1>4 DEF InviteInv, InviteTypeOK
<1>6. \A p \in Pairs : IsInvited(p[1], p[2])' <=> IsInvited(p[1], p[2]) \/ p = q
  BY <1>1, PairFacts DEF IsInvited
<1>7. InviteTypeOK'
  <2>1. \A p \in Pairs : expiretimer'[p] \in Nat /\ promised'[p] \in Int
    BY <1>2, <1>3, <1>5 DEF InviteInv, InviteTypeOK
  <2> QED
    BY <1>1, <2>1 DEF InviteInv, InviteTypeOK
<1>8. InviteListsAgree'
  <2>1. \A p \in Pairs : expiretimer'[p] # 0 => IsInvited(p[1], p[2])'
    BY <1>2, <1>6 DEF InviteInv, InviteListsAgree
  <2> QED
    BY <1>1, <2>1 DEF InviteInv, InviteListsAgree
<1>9. InviteExpires'
  <2>1. IF promised'[q] = -1 THEN expiretimer'[q] = 0
        ELSE inviteClock < expiretimer'[q] /\ expiretimer'[q] <= promised'[q]
    <3>1. CASE ~IsInvited(u, c)
      <4>1. promised[q] = 0
        BY <3>1, <1>4 DEF InviteInv
      <4> QED
        BY <3>1, <4>1, <1>2, <1>3, <1>5 DEF Forever
    <3>2. CASE IsInvited(u, c)
      <4>1. IF promised[q] = -1 THEN expiretimer[q] = 0
            ELSE inviteClock < expiretimer[q] /\ expiretimer[q] <= promised[q]
        BY <3>2, <1>4 DEF InviteInv, InviteExpires
      <4> QED
        BY <3>2, <4>1, <1>2, <1>3, <1>5 DEF Forever
    <3> QED
      BY <3>1, <3>2
  <2> QED
    BY <2>1, <1>2, <1>3, <1>6 DEF InviteInv, InviteExpires
<1>10. \A p \in Pairs : (promised[p] # 0 <=> IsInvited(p[1], p[2]))' /\ promised'[p] >= -1
  BY <1>3, <1>5, <1>6 DEF InviteInv
<1> QED
  BY <1>2, <1>3, <1>7, <1>8, <1>9, <1>10 DEF InviteInv

(* Every step keeps InviteInv: one case for each handler of invite.cpp and   *)
(* core_channel.cpp.                                                         *)
LEMMA InviteStep == InviteInv /\ [InviteNext]_inviteVars => InviteInv'
<1> SUFFICES ASSUME InviteInv, [InviteNext]_inviteVars
             PROVE  InviteInv'
  OBVIOUS
<1>t. /\ \A p \in Pairs : expiretimer[p] \in Nat
      /\ \A p \in Pairs : expiretimer[p] # 0 => inviteClock < expiretimer[p]
      /\ onChannel \subseteq Pairs /\ chanExists \subseteq Chan /\ inviteClock \in Nat
      /\ \A u \in Invitee, c \in Chan :
            c \in userInvites[u] => c \in chanExists /\ <<u, c>> \notin onChannel
  BY DEF InviteInv, InviteTypeOK, InviteListsAgree, InviteExpires
<1>1. CASE UNCHANGED inviteVars
  BY <1>1 DEF inviteVars, InviteInv, InviteTypeOK, InviteListsAgree, InviteExpires, IsInvited
<1>2. ASSUME NEW u \in Invitee, NEW c \in Chan, NEW t \in Timeouts, Invite(u, c, t)
      PROVE  InviteInv'
  <2>1. t \in Nat
    BY InviteAssumption, <1>t DEF Timeouts, Forever
  <2>2. CASE t # Forever /\ inviteClock >= t
    BY <2>2, <1>2 DEF Invite, InviteInv, InviteTypeOK, InviteListsAgree, InviteExpires, IsInvited
  <2>3. CASE ~(t # Forever /\ inviteClock >= t)
    <3>1. /\ c \in chanExists /\ <<u, c>> \notin onChannel
          /\ Create(u, c, t) /\ UNCHANGED <<onChannel, chanExists, inviteClock>>
      BY <2>3, <1>2 DEF Invite
    <3>2. t = Forever \/ inviteClock < t
      BY <2>1, <2>3, <1>t
    <3> QED
      BY <2>1, <3>1, <3>2, CreateInv
  <2> QED
    BY <2>2, <2>3
<1>3. ASSUME NEW u \in Invitee, NEW c \in Chan, OnPostJoin(u, c)
      PROVE  InviteInv'
  <2> DEFINE S == {<<u, c>>} \cap {p \in Pairs : IsInvited(p[1], p[2])}
  <2>1. Destruct(S) /\ onChannel' = onChannel \cup {<<u, c>>} /\ UNCHANGED <<chanExists, inviteClock>>
    BY <1>3 DEF OnPostJoin
  <2>2. \A v \in Invitee, d \in Chan :
            d \in userInvites[v] /\ <<v, d>> \notin S => d \in chanExists /\ <<v, d>> \notin onChannel'
    BY <2>1, <1>t, PairFacts DEF IsInvited
  <2> QED
    BY <2>1, <2>2, <1>t, PairFacts, DestructInv
<1>4. ASSUME NEW u \in Invitee, NEW c \in Chan, Part(u, c)
      PROVE  InviteInv'
  BY <1>4 DEF Part, InviteInv, InviteTypeOK, InviteListsAgree, InviteExpires, IsInvited
<1>5. ASSUME NEW u \in Invitee, OnUserDisconnect(u)
      PROVE  InviteInv'
  <2> DEFINE S == {<<u, c>> : c \in userInvites[u]}
  <2>1. S \in SUBSET Pairs
    BY PairFacts DEF InviteInv, InviteTypeOK
  <2>2. /\ Destruct(S) /\ onChannel' = {p \in onChannel : p[1] # u}
        /\ UNCHANGED <<chanExists, inviteClock>>
    BY <1>5 DEF OnUserDisconnect
  <2> QED
    BY <2>1, <2>2, <1>t, DestructInv
<1>6. ASSUME NEW c \in Chan, OnChannelDelete(c)
      PROVE  InviteInv'
  <2> DEFINE S == {<<u, c>> : u \in chanInvites[c]}
  <2>1. S \in SUBSET Pairs
    BY PairFacts DEF InviteInv, InviteTypeOK
  <2>2. /\ Destruct(S) /\ chanExists' = chanExists \ {c}
        /\ UNCHANGED <<onChannel, inviteClock>>
    BY <1>6 DEF OnChannelDelete
  <2>3. \A v \in Invitee, d \in Chan :
            d \in userInvites[v] /\ <<v, d>> \notin S => d \in chanExists' /\ <<v, d>> \notin onChannel'
    BY <2>2, <1>t DEF InviteInv, InviteListsAgree
  <2> QED
    BY <2>1, <2>2, <2>3, <1>t, DestructInv
<1>6b. ASSUME NEW u \in Invitee, NEW c \in Chan, Uninvite(u, c)
       PROVE  InviteInv'
  <2> DEFINE S == {<<u, c>>}
  <2>1. S \in SUBSET Pairs
    BY PairFacts
  <2>2. Destruct(S) /\ UNCHANGED <<onChannel, chanExists, inviteClock>>
    BY <1>6b DEF Uninvite
  <2>3. \A v \in Invitee, d \in Chan :
            d \in userInvites[v] /\ <<v, d>> \notin S => d \in chanExists' /\ <<v, d>> \notin onChannel'
    BY <2>2, <1>t DEF InviteInv, InviteListsAgree
  <2> QED
    BY <2>1, <2>2, <2>3, <1>t, DestructInv
<1>6a. ASSUME NEW c \in Chan, LowerTS(c)
       PROVE  InviteInv'
  <2> DEFINE S == {<<u, c>> : u \in chanInvites[c]}
  <2>1. S \in SUBSET Pairs
    BY PairFacts DEF InviteInv, InviteTypeOK
  <2>2. Destruct(S) /\ UNCHANGED <<onChannel, chanExists, inviteClock>>
    BY <1>6a DEF LowerTS
  <2>3. \A v \in Invitee, d \in Chan :
            d \in userInvites[v] /\ <<v, d>> \notin S => d \in chanExists' /\ <<v, d>> \notin onChannel'
    BY <2>2, <1>t DEF InviteInv, InviteListsAgree
  <2> QED
    BY <2>1, <2>2, <2>3, <1>t, DestructInv
<1>7. ASSUME NEW c \in Chan, ChannelCreated(c)
      PROVE  InviteInv'
  BY <1>7 DEF ChannelCreated, InviteInv, InviteTypeOK, InviteListsAgree, InviteExpires, IsInvited
<1>8. CASE InviteSecond
  <2> DEFINE S == Due(inviteClock + 1)
  <2>1. S \in SUBSET Pairs
    BY DEF Due
  <2>2. Destruct(S) /\ inviteClock' = inviteClock + 1 /\ UNCHANGED <<onChannel, chanExists>>
    BY <1>8 DEF InviteSecond
  <2>3. \A p \in Pairs \ S : expiretimer[p] # 0 => inviteClock' < expiretimer[p]
    BY <2>2, <1>t DEF Due
  <2>4. inviteClock' \in Nat
    BY <2>2, <1>t
  <2> QED
    BY <2>1, <2>2, <2>3, <2>4, <1>t, DestructInv
<1> QED
  BY <1>1, <1>2, <1>3, <1>4, <1>5, <1>6, <1>6a, <1>6b, <1>7, <1>8 DEF InviteNext

(* The list of a user and the list of a channel agree on every invitation,   *)
(* only an invitation that exists has a timer, no list names a channel that  *)
(* is gone, and no invitation outlives the latest expiry that was asked for  *)
(* it, for any number of users, channels and durations (Destruct and Create  *)
(* of invite.cpp).                                                           *)
THEOREM InvitesAreKept == InviteSpec => []InvitesKept
<1>1. InviteInv => InvitesKept
  BY DEF InviteInv, InvitesKept
<1> QED
  BY <1>1, InviteInitInv, InviteStep, PTL DEF InviteSpec
=============================================================================
