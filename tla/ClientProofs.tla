---------------------------- MODULE ClientProofs ----------------------------
(***************************************************************************)
(* Proofs about a client: its lines reach the parser whole, once and in    *)
(* order (CommandQueue), and it is connected only once every check of it   *)
(* has ended (ConnectHolds).                                               *)
(***************************************************************************)
EXTENDS CommandQueue, ConnectHolds, FiniteSetTheorems, TLAPS

(* The provers of every step, in their order *)
USE ZenonT(3), SMTT(20)

-----------------------------------------------------------------------------
(* Sequences *)

(* One sequence after another: where each element is. *)
LEMMA ConcatFacts ==
    ASSUME NEW T, NEW s \in Seq(T), NEW t \in Seq(T)
    PROVE  /\ s \o t \in Seq(T) /\ Len(s \o t) = Len(s) + Len(t)
           /\ \A i \in 1..Len(s) + Len(t) : (s \o t)[i] = IF i <= Len(s) THEN s[i] ELSE t[i - Len(s)]
OBVIOUS

(* A sequence is a function on the numbers up to its length. *)
LEMMA LenFacts ==
    ASSUME NEW T, NEW s \in Seq(T)
    PROVE  Len(s) \in Nat /\ s \in [1..Len(s) -> T] /\ DOMAIN s = 1..Len(s)
OBVIOUS

(* The elements of a sequence are of its type. *)
LEMMA ElementType == ASSUME NEW T, NEW s \in Seq(T), NEW i \in 1..Len(s) PROVE s[i] \in T
OBVIOUS

(* Concatenation is associative. *)
LEMMA ConcatOrder ==
    ASSUME NEW T, NEW s \in Seq(T), NEW t \in Seq(T), NEW r \in Seq(T)
    PROVE  (s \o t) \o r = s \o (t \o r)
OBVIOUS

(* A part of a sequence *)
LEMMA PartFacts ==
    ASSUME NEW T, NEW s, NEW a \in Int, NEW b \in Int, \A i \in a..b : s[i] \in T
    PROVE  /\ SubSeq(s, a, b) \in Seq(T) /\ Len(SubSeq(s, a, b)) = IF a <= b THEN b - a + 1 ELSE 0
           /\ \A i \in 1..(b - a + 1) : SubSeq(s, a, b)[i] = s[a + i - 1]
OBVIOUS

(* Sequences with the same elements are the same. *)
LEMMA SameElements ==
    ASSUME NEW T, NEW s \in Seq(T), NEW t \in Seq(T), Len(s) = Len(t), \A i \in 1..Len(s) : s[i] = t[i]
    PROVE  s = t
OBVIOUS

-----------------------------------------------------------------------------
(* For any commands, penalties and limits: the lines of a client reach the *)
(* parser whole, once and in order, however they arrive and are held, and  *)
(* the client stays within its limits.                                     *)

Piece == LineKind \cup {"PONG", "QUIT", End}

(* What was sent is lines: a piece of text and an end, over and over.  This *)
(* is what makes the first end in the queue the second piece.               *)
Lines(s) == Len(s) % 2 = 0 /\ \A k \in 1..Len(s) : s[k] = End <=> k % 2 = 0

QueueInv ==
    /\ QueueKept
    /\ recvq \in Seq(Piece) /\ inbound \in Seq(Piece) /\ owed \in Seq(Piece)
    /\ Lines(owed)
    /\ quota \in Nat

(* Text and end appended to lines give lines. *)
LEMMA LinesGrow ==
    ASSUME NEW s \in Seq(Piece), Lines(s), NEW k \in Piece \ {End}
    PROVE  s \o <<k, End>> \in Seq(Piece) /\ Lines(s \o <<k, End>>)
<1> DEFINE t == <<k, End>>
<1>1. t \in Seq(Piece) /\ Len(t) = 2 /\ t[1] = k /\ t[2] = End
  BY DEF Piece
<1>2. /\ s \o t \in Seq(Piece)
      /\ Len(s \o t) = Len(s) + 2
      /\ \A i \in 1..(Len(s) + 2) : (s \o t)[i] = IF i <= Len(s) THEN s[i] ELSE t[i - Len(s)]
  BY <1>1, ConcatFacts
<1> HIDE DEF t
<1>3. Len(s) \in Nat
  BY LenFacts
<1>4. Len(s \o t) % 2 = 0
  BY <1>2, <1>3 DEF Lines
<1>5. ASSUME NEW i \in 1..(Len(s) + 2) PROVE (s \o t)[i] = End <=> i % 2 = 0
  <2>1. CASE i <= Len(s)
    BY <2>1, <1>2, <1>3 DEF Lines
  <2>2. CASE i = Len(s) + 1
    <3>1. i - Len(s) = 1 /\ i % 2 = 1
      BY <2>2, <1>3 DEF Lines
    <3>2. (s \o t)[i] = k
      BY <2>2, <3>1, <1>1, <1>2, <1>3
    <3> QED BY <3>1, <3>2
  <2>3. CASE i = Len(s) + 2
    <3>1. i - Len(s) = 2 /\ i % 2 = 0
      BY <2>3, <1>3 DEF Lines
    <3>2. (s \o t)[i] = End
      BY <2>3, <3>1, <1>1, <1>2, <1>3
    <3> QED BY <3>1, <3>2
  <2>4. i <= Len(s) \/ i = Len(s) + 1 \/ i = Len(s) + 2
    BY <1>3
  <2> QED BY <2>1, <2>2, <2>3, <2>4
<1>6. Lines(s \o t)
  BY <1>2, <1>4, <1>5 DEF Lines
<1> QED BY <1>2, <1>6 DEF t

(* A sequence without its first n elements. *)
LEMMA Rest ==
    ASSUME NEW S, NEW s \in Seq(S), NEW n \in 0..Len(s)
    PROVE  /\ SubSeq(s, n + 1, Len(s)) \in Seq(S)
           /\ Len(SubSeq(s, n + 1, Len(s))) = Len(s) - n
           /\ \A i \in 1..(Len(s) - n) : SubSeq(s, n + 1, Len(s))[i] = s[n + i]
<1>1. Len(s) \in Nat
  BY LenFacts
<1>2. \A i \in (n + 1)..Len(s) : s[i] \in S
  BY ElementType, <1>1
<1>3. /\ SubSeq(s, n + 1, Len(s)) \in Seq(S)
      /\ Len(SubSeq(s, n + 1, Len(s))) = IF n + 1 <= Len(s) THEN Len(s) - (n + 1) + 1 ELSE 0
      /\ \A i \in 1..(Len(s) - (n + 1) + 1) : SubSeq(s, n + 1, Len(s))[i] = s[(n + 1) + i - 1]
  BY <1>1, <1>2, PartFacts
<1> QED BY <1>1, <1>3

(* Concatenation of pieces is associative. *)
LEMMA Regroup ==
    ASSUME NEW s \in Seq(Piece), NEW t \in Seq(Piece), NEW u \in Seq(Piece)
    PROVE  (s \o t) \o u = s \o (t \o u)
BY ConcatOrder

(* A sequence is its first n elements and the rest. *)
LEMMA TwoParts ==
    ASSUME NEW T, NEW s \in Seq(T), NEW n \in 0..Len(s)
    PROVE  SubSeq(s, 1, n) \o SubSeq(s, n + 1, Len(s)) = s
<1> DEFINE a == SubSeq(s, 1, n)
           b == SubSeq(s, n + 1, Len(s))
<1>1. Len(s) \in Nat /\ n \in Nat
  BY LenFacts
<1>2. \A i \in 1..n : s[i] \in T
  BY <1>1, ElementType
<1>3. a \in Seq(T) /\ Len(a) = n /\ \A i \in 1..n : a[i] = s[i]
  <2>1. /\ a \in Seq(T) /\ Len(a) = IF 1 <= n THEN n - 1 + 1 ELSE 0
        /\ \A i \in 1..(n - 1 + 1) : a[i] = s[1 + i - 1]
    BY <1>1, <1>2, PartFacts
  <2> HIDE DEF a
  <2>2. Len(a) = n /\ n - 1 + 1 = n /\ \A i \in 1..n : 1 + i - 1 = i
    BY <1>1, <2>1
  <2> QED
    BY <2>1, <2>2
<1>4. b \in Seq(T) /\ Len(b) = Len(s) - n /\ \A i \in 1..(Len(s) - n) : b[i] = s[n + i]
  BY Rest
<1> HIDE DEF a, b
<1>5. /\ a \o b \in Seq(T) /\ Len(a \o b) = Len(a) + Len(b)
      /\ \A i \in 1..(Len(a) + Len(b)) : (a \o b)[i] = IF i <= Len(a) THEN a[i] ELSE b[i - Len(a)]
  BY <1>3, <1>4, ConcatFacts
<1>6. Len(a \o b) = Len(s)
  BY <1>1, <1>3, <1>4, <1>5
<1>7. ASSUME NEW i \in 1..Len(s) PROVE (a \o b)[i] = s[i]
  <2>1. i \in 1..(Len(a) + Len(b))
    BY <1>1, <1>3, <1>4
  <2>2. CASE i <= n
    BY <1>1, <1>3, <1>5, <2>1, <2>2
  <2>3. CASE ~(i <= n)
    <3>1. i - n \in 1..(Len(s) - n) /\ n + (i - n) = i
      BY <1>1, <2>3
    <3>2. (a \o b)[i] = b[i - n]
      BY <1>3, <1>5, <2>1, <2>3
    <3> QED
      BY <1>4, <3>1, <3>2
  <2> QED
    BY <2>2, <2>3
<1>8. a \o b = s
  BY <1>5, <1>6, <1>7, SameElements
<1> QED
  BY <1>8 DEF a, b

(* Lines without their first are lines. *)
LEMMA LinesShrink ==
    ASSUME NEW s \in Seq(Piece), Lines(s), Len(s) >= 2
    PROVE  SubSeq(s, 3, Len(s)) \in Seq(Piece) /\ Lines(SubSeq(s, 3, Len(s)))
<1> DEFINE t == SubSeq(s, 3, Len(s))
<1>1. Len(s) \in Nat
  BY LenFacts
<1>2. t \in Seq(Piece) /\ Len(t) = Len(s) - 2 /\ \A i \in 1..(Len(s) - 2) : t[i] = s[2 + i]
  <2>1. PICK n \in 0..Len(s) : n = 2
    BY <1>1
  <2>2. n + 1 = 3
    BY <2>1
  <2>3. /\ SubSeq(s, n + 1, Len(s)) \in Seq(Piece)
        /\ Len(SubSeq(s, n + 1, Len(s))) = Len(s) - n
        /\ \A i \in 1..(Len(s) - n) : SubSeq(s, n + 1, Len(s))[i] = s[n + i]
    BY Rest
  <2> QED
    BY <2>1, <2>2, <2>3
<1> HIDE DEF t
<1>3. Lines(t)
  BY <1>1, <1>2 DEF Lines
<1> QED BY <1>2, <1>3 DEF t

(* Taking the first n of s away takes them away from s and what follows it. *)
LEMMA RestOfConcat ==
    ASSUME NEW S, NEW s \in Seq(S), NEW t \in Seq(S), NEW n \in 0..Len(s)
    PROVE  SubSeq(s, n + 1, Len(s)) \o t = SubSeq(s \o t, n + 1, Len(s \o t))
<1> DEFINE a == SubSeq(s, n + 1, Len(s))
           b == SubSeq(s \o t, n + 1, Len(s \o t))
<1>1. Len(s) \in Nat /\ Len(t) \in Nat
  BY LenFacts
<1>2. /\ s \o t \in Seq(S)
      /\ Len(s \o t) = Len(s) + Len(t)
      /\ \A i \in 1..(Len(s) + Len(t)) : (s \o t)[i] = IF i <= Len(s) THEN s[i] ELSE t[i - Len(s)]
  BY ConcatFacts
<1>3. a \in Seq(S) /\ Len(a) = Len(s) - n /\ \A i \in 1..(Len(s) - n) : a[i] = s[n + i]
  BY Rest
<1>4. n \in 0..Len(s \o t)
  BY <1>1, <1>2
<1>5. /\ b \in Seq(S)
      /\ Len(b) = Len(s) + Len(t) - n
      /\ \A i \in 1..(Len(s) + Len(t) - n) : b[i] = (s \o t)[n + i]
  BY <1>2, <1>4, Rest
<1>6. /\ a \o t \in Seq(S)
      /\ Len(a \o t) = Len(a) + Len(t)
      /\ \A i \in 1..(Len(a) + Len(t)) : (a \o t)[i] = IF i <= Len(a) THEN a[i] ELSE t[i - Len(a)]
  BY <1>3, ConcatFacts
<1> HIDE DEF a, b
<1>7. Len(a \o t) = Len(b)
  BY <1>1, <1>3, <1>5, <1>6
<1>8. ASSUME NEW i \in 1..Len(b) PROVE (a \o t)[i] = b[i]
  <2>1. i \in 1..(Len(a) + Len(t)) /\ n + i \in 1..(Len(s) + Len(t)) /\ b[i] = (s \o t)[n + i]
    BY <1>1, <1>3, <1>5
  <2>2. CASE i <= Len(a)
    BY <2>1, <2>2, <1>1, <1>2, <1>3, <1>6
  <2>3. CASE ~(i <= Len(a))
    <3>1. i - Len(a) = (n + i) - Len(s) /\ ~(n + i <= Len(s))
      BY <2>1, <2>3, <1>1, <1>3
    <3> QED BY <2>1, <2>3, <3>1, <1>2, <1>6
  <2> QED BY <2>2, <2>3
<1>9. a \o t = b
  BY <1>5, <1>6, <1>7, <1>8, SameElements
<1> QED BY <1>9 DEF a, b

-----------------------------------------------------------------------------
(* What has been received is the beginning of what is owed. *)
LEMMA ReceivedIsOwed ==
    ASSUME QueueInv
    PROVE  /\ Len(recvq) \in Nat /\ Len(owed) \in Nat /\ Len(recvq) <= Len(owed)
           /\ \A k \in 1..Len(recvq) : recvq[k] = owed[k]
<1>1. recvq \in Seq(Piece) /\ inbound \in Seq(Piece) /\ owed = recvq \o inbound
  BY DEF QueueInv, QueueKept, LinesInOrder
<1>2. Len(recvq) \in Nat /\ Len(inbound) \in Nat
  BY <1>1, LenFacts
<1>3. /\ Len(owed) = Len(recvq) + Len(inbound)
      /\ \A i \in 1..(Len(recvq) + Len(inbound)) :
             owed[i] = IF i <= Len(recvq) THEN recvq[i] ELSE inbound[i - Len(recvq)]
  BY <1>1, ConcatFacts
<1> QED BY <1>2, <1>3

(* The end that the search of OnDataReady finds is the first of the queue, *)
(* and that is the second piece: the line it takes is the first line.      *)
LEMMA FirstLineIsTaken ==
    ASSUME QueueInv, LineEnds # {}
    PROVE  /\ FirstEnd = 2
           /\ Len(recvq) \in Nat /\ Len(recvq) >= 2 /\ Len(owed) \in Nat /\ Len(owed) >= 2
           /\ recvq[1] \in Piece \ {End}
<1>1. /\ Len(recvq) \in Nat /\ Len(owed) \in Nat /\ Len(recvq) <= Len(owed)
      /\ \A k \in 1..Len(recvq) : recvq[k] = owed[k]
  BY ReceivedIsOwed
<1>2. DOMAIN recvq = 1..Len(recvq)
  BY LenFacts DEF QueueInv
<1>3. \A k \in 1..Len(recvq) : recvq[k] = End <=> k % 2 = 0
  <2>1. \A k \in 1..Len(owed) : owed[k] = End <=> k % 2 = 0
    BY DEF QueueInv, Lines
  <2>2. \A k \in 1..Len(recvq) : k \in 1..Len(owed)
    BY <1>1
  <2> QED
    BY <1>1, <2>1, <2>2
<1>4. ASSUME NEW k \in LineEnds PROVE k \in 1..Len(recvq) /\ k >= 2
  <2>1. k \in 1..Len(recvq) /\ k % 2 = 0
    BY <1>2, <1>3 DEF LineEnds
  <2> QED BY <2>1, <1>1
<1>5. Len(recvq) >= 2
  BY <1>1, <1>4
<1>6. recvq[2] = End /\ recvq[1] # End
  BY <1>1, <1>3, <1>5
<1>7. checkedUntil \in Int /\ checkedUntil < 2
  BY <1>1, <1>6 DEF QueueInv, QueueKept, QueueTypeOK, SearchedOnce
<1>8. 2 \in LineEnds
  BY <1>1, <1>2, <1>5, <1>6, <1>7 DEF LineEnds
<1>9. FirstEnd \in LineEnds /\ \A j \in LineEnds : FirstEnd <= j
  <2>1. \E k \in LineEnds : \A j \in LineEnds : k <= j
    <3>1. \A j \in LineEnds : 2 <= j
      BY <1>1, <1>4
    <3> QED BY <1>8, <3>1
  <2> QED BY <2>1 DEF FirstEnd
<1>10. FirstEnd = 2
  BY <1>1, <1>4, <1>8, <1>9
<1>11. recvq[1] \in Piece
  BY <1>1, <1>5, ElementType DEF QueueInv
<1> QED BY <1>1, <1>5, <1>6, <1>10, <1>11


-----------------------------------------------------------------------------
(* What QueueInv says of the stream *)
Stream ==
    /\ recvq \in Seq(Piece) /\ inbound \in Seq(Piece) /\ owed \in Seq(Piece)
    /\ Lines(owed)
    /\ LinesInOrder
    /\ checkedUntil \in 0..Len(recvq)
    /\ SearchedOnce

(* A line that is sent goes to the end of what is owed. *)
LEMMA SendKeepsStream ==
    ASSUME QueueInv, NEW k \in Piece \ {End},
           inbound' = inbound \o <<k, End>>, owed' = owed \o <<k, End>>,
           UNCHANGED <<recvq, checkedUntil>>
    PROVE  Stream'
<1>1. owed' \in Seq(Piece) /\ Lines(owed')
  BY LinesGrow DEF QueueInv
<1>2. <<k, End>> \in Seq(Piece)
  BY DEF Piece
<1>3. inbound' \in Seq(Piece)
  BY <1>2, ConcatFacts DEF QueueInv
<1>4. recvq' \o inbound' = owed'
  <2>1. PICK u : u \in Seq(Piece) /\ u = <<k, End>>
    BY <1>2
  <2>2. recvq \in Seq(Piece) /\ inbound \in Seq(Piece) /\ u \in Seq(Piece)
    BY <2>1 DEF QueueInv
  <2>3. (recvq \o inbound) \o u = recvq \o (inbound \o u)
    BY ONLY <2>2, Regroup
  <2> QED BY <2>1, <2>3 DEF QueueInv, QueueKept, LinesInOrder
<1> QED BY <1>1, <1>3, <1>4 DEF Stream, Lines, LinesInOrder, SearchedOnce, QueueInv, QueueKept, QueueTypeOK

(* Pieces that are read move from the network to the queue, and what was   *)
(* searched is still what it was.                                          *)
LEMMA ReadKeepsStream ==
    ASSUME QueueInv, NEW n \in 1..Len(inbound), SocketReads(n)
    PROVE  Stream'
<1> DEFINE r == SubSeq(inbound, 1, n)
           t == SubSeq(inbound, n + 1, Len(inbound))
<1>1. Len(inbound) \in Nat /\ Len(recvq) \in Nat
  BY LenFacts DEF QueueInv
<1>2. recvq' = recvq \o r /\ inbound' = t
  BY DEF SocketReads
<1>3. \A i \in 1..Len(inbound) : inbound[i] \in Piece
  BY ElementType DEF QueueInv
<1>4. r \in Seq(Piece)
  BY <1>1, <1>3, PartFacts
<1>5. t \in Seq(Piece)
  BY <1>1, Rest DEF QueueInv
<1>6. r \o t = inbound
  BY <1>1, TwoParts DEF QueueInv
<1> HIDE DEF r, t
<1>7. /\ recvq' \in Seq(Piece)
      /\ Len(recvq') = Len(recvq) + Len(r)
      /\ \A i \in 1..(Len(recvq) + Len(r)) :
             recvq'[i] = IF i <= Len(recvq) THEN recvq[i] ELSE r[i - Len(recvq)]
  BY <1>2, <1>4, ConcatFacts DEF QueueInv
<1>8. recvq' \o inbound' = owed'
  <2>1. (recvq \o r) \o t = recvq \o (r \o t)
    <3>1. recvq \in Seq(Piece) /\ r \in Seq(Piece) /\ t \in Seq(Piece)
      BY <1>4, <1>5 DEF QueueInv
    <3> QED
      BY ONLY <3>1, Regroup
  <2>2. owed' = recvq \o inbound
    BY DEF QueueInv, QueueKept, LinesInOrder, SocketReads, history
  <2> QED BY <1>2, <1>6, <2>1, <2>2
<1>9. Len(r) \in Nat
  BY <1>4, LenFacts
<1>10. checkedUntil' = checkedUntil /\ checkedUntil \in 0..Len(recvq)
  BY DEF SocketReads, QueueInv, QueueKept, QueueTypeOK
<1>11. checkedUntil' \in 0..Len(recvq')
  BY <1>1, <1>7, <1>9, <1>10
<1>12. SearchedOnce'
  BY <1>1, <1>7, <1>9, <1>10 DEF SearchedOnce, QueueInv, QueueKept
<1>13. owed' = owed
  BY DEF SocketReads, history
<1> QED BY <1>2, <1>5, <1>7, <1>8, <1>11, <1>12, <1>13 DEF Stream, Lines, LinesInOrder, QueueInv

(* The line that is taken is the one that was owed first. *)
LEMMA TakeKeepsStream ==
    ASSUME QueueInv, TakeLine
    PROVE  /\ Stream'
           /\ Len(recvq') <= Len(recvq) /\ Len(recvq) \in Nat /\ Len(recvq') \in Nat
<1>1. /\ FirstEnd = 2
      /\ Len(recvq) \in Nat /\ Len(recvq) >= 2 /\ Len(owed) \in Nat /\ Len(owed) >= 2
  BY FirstLineIsTaken DEF TakeLine
<1>2. recvq' = SubSeq(recvq, 3, Len(recvq)) /\ owed' = SubSeq(owed, 3, Len(owed))
  BY <1>1 DEF TakeLine
<1>3. inbound' = inbound /\ checkedUntil' = 0
  BY DEF TakeLine
<1>4. owed' \in Seq(Piece) /\ Lines(owed')
  BY <1>1, <1>2, LinesShrink DEF QueueInv
<1>5. recvq' \in Seq(Piece) /\ Len(recvq') = Len(recvq) - 2
  BY <1>1, <1>2, Rest, 2 \in 0..Len(recvq), 2 + 1 = 3 DEF QueueInv
<1>6. recvq' \o inbound' = owed'
  <2>1. SubSeq(recvq, 2 + 1, Len(recvq)) \o inbound
           = SubSeq(recvq \o inbound, 2 + 1, Len(recvq \o inbound))
    BY <1>1, RestOfConcat, 2 \in 0..Len(recvq) DEF QueueInv
  <2>2. recvq \o inbound = owed
    BY DEF QueueInv, QueueKept, LinesInOrder
  <2> QED BY <1>2, <1>3, <2>1, <2>2, 2 + 1 = 3
<1> QED BY <1>1, <1>3, <1>4, <1>5, <1>6 DEF Stream, Lines, LinesInOrder, SearchedOnce, QueueInv

(* When no line is there, the whole queue has been searched. *)
LEMMA SearchKeepsStream ==
    ASSUME QueueInv, NoLine
    PROVE  Stream'
<1>1. Len(recvq) \in Nat /\ DOMAIN recvq = 1..Len(recvq)
  BY LenFacts DEF QueueInv
<1>2. UNCHANGED <<recvq, inbound, owed>> /\ checkedUntil' = Len(recvq)
  BY DEF NoLine, history
<1>3. \A k \in 1..Len(recvq) : recvq[k] # End
  BY <1>1 DEF NoLine, LineEnds, QueueInv, QueueKept, QueueTypeOK, SearchedOnce
<1> QED BY <1>1, <1>2, <1>3 DEF Stream, Lines, LinesInOrder, SearchedOnce, QueueInv, QueueKept


-----------------------------------------------------------------------------
(* What QueueInv says of everything else *)
Control ==
    /\ tag \in ConnectTag
    /\ floodPenalty \in Nat /\ outq \in Nat
    /\ nextping \in 0..PingTime
    /\ lastping \in BOOLEAN /\ sqItem \in BOOLEAN /\ gone \in BOOLEAN
    /\ pinged \in {"no", "queued", "seen"}
    /\ doing \in Reading \cup {"events", "ping"}
    /\ quota \in Nat
    /\ WithinLimits

(* The two halves are the invariant. *)
LEMMA Halves == QueueInv <=> Stream /\ Control
BY DEF QueueInv, QueueKept, QueueTypeOK, Stream, Control

(* The privileges of a user are known. *)
LEMMA TagType == QueueInv => tag.exempt \in BOOLEAN /\ tag.fakelag \in BOOLEAN
BY QueueAssumption DEF QueueInv, QueueKept, QueueTypeOK

(* The queue to the user keeps its limit whatever is written. *)
LEMMA WriteKeepsLimit ==
    ASSUME QueueInv, NEW n \in Nat, WriteOut(n)
    PROVE  outq' \in Nat /\ sqItem' \in BOOLEAN /\ (~tag.exempt => outq' <= HardSendQ)
BY TagType, QueueAssumption DEF QueueInv, QueueKept, QueueTypeOK, WithinLimits, WriteOut, Fits

(* The client and the network *)
LEMMA ClientKeepsControl ==
    ASSUME QueueInv, \/ \E k \in ClientLine : ClientSends(k)
                     \/ ClientAnswers
                     \/ \E n \in 1..outq : SocketWrites(n)
    PROVE  Control'
<1>0. Control
  BY Halves
<1>1. CASE \E k \in ClientLine : ClientSends(k)
  BY <1>0, <1>1 DEF ClientSends, Control, WithinLimits
<1>2. CASE ClientAnswers
  BY <1>0, <1>2 DEF ClientAnswers, Control, WithinLimits
<1>3. CASE \E n \in 1..outq : SocketWrites(n)
  BY <1>0, <1>3, TagType, QueueAssumption DEF SocketWrites, Control, WithinLimits, history
<1> QED BY <1>1, <1>2, <1>3

(* Others write within the limit. *)
LEMMA OthersKeepControl ==
    ASSUME QueueInv, OthersWrite(1)
    PROVE  Control'
<1>0. Control
  BY Halves
<1>1. outq' \in Nat /\ sqItem' \in BOOLEAN /\ (~tag.exempt => outq' <= HardSendQ)
  BY WriteKeepsLimit DEF OthersWrite
<1> QED BY <1>0, <1>1 DEF OthersWrite, Control, WithinLimits, history

(* A queue that OnDataReady works on is within its limit. *)
LEMMA ReadKeepsControl ==
    ASSUME QueueInv, NEW n \in 1..Len(inbound), SocketReads(n)
    PROVE  Control'
<1>0. Control
  BY Halves
<1>1. Len(recvq') \in Nat
  BY ReadKeepsStream, LenFacts DEF Stream
<1> DEFINE over == ~tag.exempt /\ Len(recvq') > RecvQ
<1>2. over \in BOOLEAN /\ (~over /\ ~tag.exempt => Len(recvq') <= RecvQ)
  BY <1>1, QueueAssumption
<1>3. gone' = over
  BY Zenon DEF SocketReads, Overrun
<1> HIDE DEF over
<1>4. doing' \in {"events", "data"}
  BY <1>2, <1>3 DEF SocketReads
<1>5. UNCHANGED <<tag, floodPenalty, outq, nextping, lastping, pinged, sqItem, quota>>
  BY DEF SocketReads, history
<1>6. WithinLimits'
  BY <1>0, <1>2, <1>3, <1>5 DEF Control, WithinLimits
<1> QED BY <1>0, <1>2, <1>3, <1>4, <1>5, <1>6 DEF Control, Reading

(* A line is taken only below the threshold, so it passes it by no more    *)
(* than its own penalty.                                                   *)
LEMMA TakeKeepsControl ==
    ASSUME QueueInv, TakeLine
    PROVE  Control'
<1> DEFINE line == recvq[FirstEnd - 1]
<1>0. Control
  BY Halves
<1>1. line \in Piece \ {End}
  BY FirstLineIsTaken, 2 - 1 = 1 DEF TakeLine
<1>2. Len(recvq') <= Len(recvq) /\ Len(recvq) \in Nat /\ Len(recvq') \in Nat
  BY TakeKeepsStream
<1>3. UNCHANGED <<tag, pinged, quota>>
  BY DEF TakeLine
<1>4. nextping' = IF line \in UnknownKind THEN nextping ELSE PingTime
  BY DEF TakeLine
<1>5. nextping' \in 0..PingTime
  BY <1>0, <1>4, QueueAssumption DEF Control
<1>6. ~tag.exempt => floodPenalty < PenaltyMax
  BY DEF TakeLine, CanProcess
<1>7. doing \in Reading
  BY DEF TakeLine
<1>8. CASE /\ line = "PONG"
           /\ floodPenalty' = IF lastping THEN floodPenalty + 1 ELSE floodPenalty
           /\ lastping' = TRUE
           /\ UNCHANGED <<outq, sqItem, gone, doing>>
  <2>1. floodPenalty' \in Nat /\ (~tag.exempt => floodPenalty' <= PenaltyMax)
    BY <1>0, <1>6, <1>8, QueueAssumption DEF Control
  <2>2. WithinLimits'
    BY <1>0, <1>2, <1>3, <1>8, <2>1, QueueAssumption DEF Control, WithinLimits
  <2> QED BY <1>0, <1>3, <1>5, <1>8, <2>1, <2>2 DEF Control
<1>9. CASE /\ line = "QUIT"
           /\ gone' = TRUE
           /\ doing' = AfterData(doing)
           /\ UNCHANGED <<floodPenalty, lastping, outq, sqItem>>
  <2>1. doing' \in {"ping", "events"}
    BY <1>9 DEF AfterData
  <2>2. WithinLimits'
    BY <1>0, <1>3, <1>9 DEF Control, WithinLimits
  <2> QED BY <1>0, <1>3, <1>5, <1>9, <2>1, <2>2 DEF Control
<1>10. CASE /\ line \in LineKind
            /\ floodPenalty' = floodPenalty + Penalty[line]
            /\ WriteOut(ReplySize[line])
            /\ UNCHANGED <<lastping, gone, doing>>
  <2>1. Penalty[line] \in Nat /\ ReplySize[line] \in Nat
    BY <1>10, QueueAssumption
  <2>2. outq' \in Nat /\ sqItem' \in BOOLEAN /\ (~tag.exempt => outq' <= HardSendQ)
    BY <1>10, <2>1, WriteKeepsLimit
  <2>3. /\ floodPenalty' \in Nat
        /\ ~tag.exempt => floodPenalty' < PenaltyMax + Penalty[line]
    BY <1>0, <1>6, <1>10, <2>1, QueueAssumption DEF Control
  <2> HIDE DEF line
  <2>4. WithinLimits'
    BY <1>0, <1>2, <1>3, <1>10, <2>2, <2>3, QueueAssumption DEF Control, WithinLimits
  <2> QED BY <1>0, <1>3, <1>5, <1>10, <2>2, <2>3, <2>4 DEF Control
<1> QED BY <1>8, <1>9, <1>10 DEF TakeLine

(* The ends of OnDataReady, and quitting for the queue *)
LEMMA StopKeepsControl ==
    ASSUME QueueInv, NoLine \/ Held \/ ApplySendQ
    PROVE  Control'
<1>0. Control
  BY Halves
<1>1. AfterData(doing) \in {"ping", "events"}
  BY DEF AfterData
<1>2. CASE NoLine
  BY <1>0, <1>1, <1>2 DEF NoLine, Control, WithinLimits, history
<1>3. CASE Held
  <2>1. gone' \in BOOLEAN
    BY <1>0, <1>3, TagType, QueueAssumption DEF Held, Control
  <2> QED BY <1>0, <1>1, <1>3, <2>1 DEF Held, Control, WithinLimits, history
<1>4. CASE ApplySendQ
  BY <1>0, <1>4 DEF ApplySendQ, Control, WithinLimits, history
<1> QED BY <1>2, <1>3, <1>4

(* The work of every second takes penalty away and never adds any. *)
LEMMA SecondKeepsControl ==
    ASSUME QueueInv, DoBackgroundUserStuff
    PROVE  Control'
<1>0. Control
  BY Halves
<1>1. Len(recvq) \in Nat
  BY LenFacts DEF QueueInv
<1>2. floodPenalty' \in Nat /\ floodPenalty' <= floodPenalty
  BY <1>0, QueueAssumption DEF DoBackgroundUserStuff, Control
<1>3. gone' \in BOOLEAN
  BY <1>0, <1>1, TagType, QueueAssumption DEF DoBackgroundUserStuff, Overrun, Control
<1>4. doing' \in {"ping", "tickData"}
  BY <1>3 DEF DoBackgroundUserStuff
<1>5. nextping' \in 0..PingTime
  BY <1>0, QueueAssumption DEF DoBackgroundUserStuff, Control
<1>6. UNCHANGED <<tag, recvq, outq, lastping, pinged, sqItem, quota>>
  BY DEF DoBackgroundUserStuff, history
<1>7. ~tag.exempt => \/ floodPenalty' <= PenaltyMax
                     \/ \E k \in LineKind : floodPenalty' < PenaltyMax + Penalty[k]
  <2>1. \A k \in LineKind : Penalty[k] \in Nat
    BY QueueAssumption
  <2> QED BY <1>0, <1>2, <2>1, QueueAssumption DEF Control, WithinLimits
<1>8. WithinLimits'
  BY <1>0, <1>4, <1>6, <1>7 DEF Control, WithinLimits
<1> QED BY <1>0, <1>2, <1>3, <1>4, <1>5, <1>6, <1>8 DEF Control, Reading

(* PINGs count like anything else that is written. *)
LEMMA PingKeepsControl ==
    ASSUME QueueInv, CheckPingTimeout
    PROVE  Control'
<1>0. Control
  BY Halves
<1>1. /\ doing' = "events"
      /\ UNCHANGED <<tag, recvq, floodPenalty, quota>>
  BY DEF CheckPingTimeout, history
<1>2. CASE UNCHANGED <<outq, nextping, lastping, pinged, sqItem, gone>>
  BY <1>0, <1>1, <1>2 DEF Control, WithinLimits
<1>3. CASE gone' = TRUE /\ UNCHANGED <<outq, nextping, lastping, pinged, sqItem>>
  BY <1>0, <1>1, <1>3 DEF Control, WithinLimits
<1>4. CASE /\ lastping' = FALSE
           /\ nextping' = PingTime
           /\ WriteOut(1)
           /\ pinged' = IF sqItem' THEN pinged ELSE "queued"
           /\ UNCHANGED gone
  <2>1. outq' \in Nat /\ sqItem' \in BOOLEAN /\ (~tag.exempt => outq' <= HardSendQ)
    BY <1>4, WriteKeepsLimit
  <2>2. WithinLimits'
    BY <1>0, <1>1, <2>1 DEF Control, WithinLimits
  <2>3. nextping' \in 0..PingTime
    BY <1>4, QueueAssumption
  <2>4. pinged' \in {"no", "queued", "seen"}
    BY <1>0, <1>4, <2>1 DEF Control
  <2> QED BY <1>0, <1>1, <1>4, <2>1, <2>2, <2>3, <2>4 DEF Control
<1> QED BY <1>2, <1>3, <1>4 DEF CheckPingTimeout

-----------------------------------------------------------------------------
(* The queues are empty at first. *)
LEMMA InitKeeps == QueueInit => QueueInv
<1> SUFFICES ASSUME QueueInit PROVE QueueInv
  OBVIOUS
<1>1. <<>> \in Seq(Piece) /\ Len(<<>>) = 0 /\ <<>> \o <<>> = <<>>
  OBVIOUS
<1>2. Stream
  BY <1>1 DEF QueueInit, Stream, Lines, LinesInOrder, SearchedOnce
<1>3. 0 <= PenaltyMax /\ 0 <= HardSendQ /\ PingTime \in 0..PingTime /\ MaxLine \in Nat
  BY QueueAssumption
<1>4. WithinLimits
  BY <1>3 DEF QueueInit, WithinLimits
<1>5. Control
  BY <1>3, <1>4 DEF QueueInit, Control
<1> QED BY <1>2, <1>5, Halves

(* Every step keeps the invariant: the stream and the limits, action by    *)
(* action.                                                                 *)
LEMMA StepKeeps == QueueInv /\ [QueueNext]_queueVars => Stream' /\ Control'
<1> SUFFICES ASSUME QueueInv, [QueueNext]_queueVars PROVE Stream' /\ Control'
  OBVIOUS
<1>0. Stream /\ Control
  BY Halves
<1> DEFINE Same == UNCHANGED <<recvq, inbound, owed, checkedUntil>>
<1>1. ASSUME Same PROVE Stream'
  BY <1>0, <1>1 DEF Stream, Lines, LinesInOrder, SearchedOnce
<1>2. CASE \E k \in ClientLine : ClientSends(k)
  <2>1. PICK k \in ClientLine : ClientSends(k)
    BY <1>2
  <2>2. k \in Piece \ {End}
    BY QueueAssumption DEF Piece, End
  <2>3. Stream'
    BY <2>1, <2>2, SendKeepsStream DEF ClientSends
  <2> QED BY <1>2, <2>3, ClientKeepsControl
<1>3. CASE ClientAnswers
  <2>1. "PONG" \in Piece \ {End}
    BY DEF Piece, End
  <2>2. Stream'
    BY <1>3, <2>1, SendKeepsStream DEF ClientAnswers
  <2> QED BY <1>3, <2>2, ClientKeepsControl
<1>4. CASE \E n \in 1..outq : SocketWrites(n)
  <2>1. Same
    BY <1>4 DEF SocketWrites, history
  <2> QED BY <1>1, <1>4, <2>1, ClientKeepsControl
<1>5. CASE OthersWrite(1)
  <2>1. Same
    BY <1>5 DEF OthersWrite, history
  <2> QED BY <1>1, <1>5, <2>1, OthersKeepControl
<1>6. CASE \E n \in 1..Len(inbound) : SocketReads(n)
  BY <1>6, ReadKeepsStream, ReadKeepsControl
<1>7. CASE DoBackgroundUserStuff
  <2>1. Same
    BY <1>7 DEF DoBackgroundUserStuff, history
  <2> QED BY <1>1, <1>7, <2>1, SecondKeepsControl
<1>8. CASE NoLine
  BY <1>8, SearchKeepsStream, StopKeepsControl
<1>9. CASE TakeLine
  BY <1>9, TakeKeepsStream, TakeKeepsControl
<1>10. CASE Held \/ ApplySendQ
  <2>1. Same
    BY <1>10 DEF Held, ApplySendQ, history
  <2> QED BY <1>1, <1>10, <2>1, StopKeepsControl
<1>11. CASE CheckPingTimeout
  <2>1. Same
    BY <1>11 DEF CheckPingTimeout, history
  <2> QED BY <1>1, <1>11, <2>1, PingKeepsControl
<1>12. CASE UNCHANGED queueVars
  <2>1. Same
    BY <1>12 DEF queueVars
  <2>2. Control'
    BY <1>0, <1>12 DEF queueVars, Control, WithinLimits
  <2> QED BY <1>1, <2>1, <2>2
<1> QED BY <1>2, <1>3, <1>4, <1>5, <1>6, <1>7, <1>8, <1>9, <1>10, <1>11, <1>12
       DEF QueueNext, ServerStep

(* Whatever commands, penalties and limits there are, and however the data *)
(* is cut up and held back, OnDataReady hands the lines of a client to the *)
(* parser whole, once and in order, searches no piece of the queue twice,  *)
(* and keeps a client without privileges within its limits.                *)
THEOREM LinesAreKept == QueueSafe => []QueueKept
<1>1. QueueInit => QueueInv
  BY InitKeeps
<1>2. QueueInv <=> Stream /\ Control
  BY Halves
<1>3. QueueInv /\ [QueueNext]_queueVars => Stream' /\ Control'
  BY StepKeeps
<1>4. QueueInv => QueueKept
  BY DEF QueueInv
<1> QED BY <1>1, <1>2, <1>3, <1>4, PTL DEF QueueSafe

-----------------------------------------------------------------------------
(* For any addresses, classes, block lists and timeouts: a client connects *)
(* only after the checks of its present address were answered, and with a  *)
(* host that belongs to that address.                                      *)

HostKinds == {"ptr", "forward"}

(* The lookups of X, of the given kinds, for the address a *)
PendingIn(X, a, kinds) == {l \in X : l.what \in kinds /\ l.addr = a}

HostPending == PendingIn(lookups, addr, HostKinds)

ListPending == PendingIn(lookups, addr, BlockList)

(* The flag and the count of the modules cover what is pending for the *)
(* present address, unless the client went back to an earlier one.     *)
LookupsOK ==
    "revisit" \notin gap =>
        /\ HostPending # {} => dl /\ Loaded("host")
        /\ \A l, m \in HostPending : l = m
        /\ Cardinality(ListPending) <= blCount
        /\ ListPending # {} => Loaded("dnsbl")

(* A client that has not passed a check is still held for it *)
ChecksOK ==
    stage = "nickuser" =>
        /\ Loaded("sql") => sql \in {"busy", "fail"} \/ "sql" \in passed
        /\ Loaded("pong") => cookie \/ "pong" \in passed

(* A name of an earlier address is kept only while a lookup holds the client. *)
HostOK == "name" \notin gap => host[2] = addr \/ (dl /\ Loaded("host") /\ stage # "full")

HoldsInv ==
    /\ lookups \subseteq Lookup /\ IsFiniteSet(lookups)
    /\ moves \in Nat /\ blCount \in Nat /\ addr \in Address
    /\ LookupsOK /\ ChecksOK /\ HostOK /\ ConnectedMeansChecked

(* The lookup of its name that is started for an address. *)
LEMMA HostLookups ==
    ASSUME NEW a \in Address, NEW n \in Nat, NEW out \in Outcomes
    PROVE  /\ HostRequests(a, n, out) \subseteq Lookup /\ IsFiniteSet(HostRequests(a, n, out))
           /\ \A l, m \in HostRequests(a, n, out) : l = m
           /\ \A l \in HostRequests(a, n, out) : l.addr = a /\ l.what = "ptr"
           /\ HostRequests(a, n, out) # {} => Resolves(a) /\ out = "sent"
<1> DEFINE h == [what |-> "ptr", addr |-> a, move |-> n]
<1>1. h \in Lookup /\ h.addr = a /\ h.what = "ptr"
  BY DEF Lookup
<1>2. HostRequests(a, n, out) = {} \/ HostRequests(a, n, out) = {h}
  BY DEF HostRequests
<1>3. HostRequests(a, n, out) # {} => Resolves(a) /\ out = "sent"
  BY DEF HostRequests
<1>4. IsFiniteSet(HostRequests(a, n, out))
  BY <1>2, FS_EmptySet, FS_Singleton
<1> HIDE DEF h
<1> QED
  BY <1>1, <1>2, <1>3, <1>4

(* The lookups of the lists, and the count for them. *)
LEMMA ListLookups ==
    ASSUME NEW a \in Address, NEW n \in Nat, NEW bl \in [BlockList -> Outcomes]
    PROVE  /\ ListRequests(a, n, bl) \subseteq Lookup /\ IsFiniteSet(ListRequests(a, n, bl))
           /\ \A l \in ListRequests(a, n, bl) : l.addr = a /\ l.what \in BlockList
           /\ ListRequests(a, n, bl) # {} => Lists(a) # {}
           /\ Cardinality({b \in Lists(a) : bl[b] # "error"}) \in Nat
           /\ Cardinality(ListRequests(a, n, bl)) <= Cardinality({b \in Lists(a) : bl[b] # "error"})
<1> DEFINE L == ListRequests(a, n, bl)
           B == {b \in Lists(a) : bl[b] = "sent"}
           D == {b \in Lists(a) : bl[b] # "error"}
           f == [b \in B |-> [what |-> b, addr |-> a, move |-> n]]
<1>1. Lists(a) \subseteq BlockList
  BY DEF Lists
<1>2. IsFiniteSet(B) /\ IsFiniteSet(D) /\ Cardinality(B) <= Cardinality(D) /\ Cardinality(D) \in Nat
  <2>1. B \subseteq D /\ D \subseteq BlockList
    BY <1>1
  <2>2. IsFiniteSet(D)
    BY <2>1, ListsAssumption, FS_Subset
  <2> QED
    BY <2>1, <2>2, FS_Subset, FS_CardinalityType
<1>3. L = {[what |-> b, addr |-> a, move |-> n] : b \in B}
  BY DEF ListRequests
<1>4. /\ L \subseteq Lookup /\ \A l \in L : l.addr = a /\ l.what \in BlockList
      /\ L # {} => Lists(a) # {}
  BY <1>1, <1>3 DEF Lookup
<1>5. IsFiniteSet(L) /\ Cardinality(L) <= Cardinality(B)
  <2>1. f \in Surjection(B, L)
    BY <1>3 DEF Surjection
  <2> QED
    BY <1>2, <2>1, FS_Surjection
<1>6. Cardinality(L) \in Nat /\ Cardinality(B) \in Nat
  BY <1>2, <1>5, FS_CardinalityType
<1>7. Cardinality(L) <= Cardinality(D)
  BY <1>2, <1>5, <1>6
<1> QED
  BY <1>2, <1>4, <1>5, <1>7

(* For an address that nothing is pending for, only those lookups are pending. *)
LEMMA FreshPending ==
    ASSUME NEW a \in Address, NEW n \in Nat, NEW out \in Outcomes, NEW bl \in [BlockList -> Outcomes],
           NEW X, \A l \in X : l.addr # a
    PROVE  LET H == HostRequests(a, n, out)
               L == ListRequests(a, n, bl)
           IN  /\ PendingIn(X \cup H \cup L, a, HostKinds) = H
               /\ PendingIn(X \cup H \cup L, a, BlockList) = L
<1> DEFINE H == HostRequests(a, n, out)
           L == ListRequests(a, n, bl)
<1>1. \A l \in H : l.addr = a /\ l.what = "ptr"
  BY HostLookups
<1>2. \A l \in L : l.addr = a /\ l.what \in BlockList
  BY ListLookups
<1>3. "ptr" \in HostKinds /\ HostKinds \cap BlockList = {}
  BY ListsAssumption DEF HostKinds
<1> HIDE DEF H, L
<1>4. PendingIn(X \cup H \cup L, a, HostKinds) = H /\ PendingIn(X \cup H \cup L, a, BlockList) = L
  BY <1>1, <1>2, <1>3 DEF PendingIn
<1> QED
  BY <1>4 DEF H, L

(* The lookups X with those that are started for a, and the count of the lists *)
Started(X, a, n, out, bl) == X \cup HostRequests(a, n, out) \cup ListRequests(a, n, bl)

CountFor(a, bl, old) ==
    IF Lists(a) # {} THEN Cardinality({b \in Lists(a) : bl[b] # "error"}) ELSE old

(* What the modules hold a client for after its lookups were started. *)
LEMMA StartedOK ==
    ASSUME NEW a \in Address, NEW n \in Nat, NEW out \in Outcomes, NEW bl \in [BlockList -> Outcomes],
           NEW X, X \subseteq Lookup, IsFiniteSet(X), NEW old \in Nat
    PROVE  LET Y == Started(X, a, n, out, bl)
               C == CountFor(a, bl, old)
           IN  /\ Y \subseteq Lookup /\ IsFiniteSet(Y) /\ C \in Nat
               /\ (\A l \in X : l.addr # a) =>
                    /\ PendingIn(Y, a, HostKinds) # {} => Resolves(a) /\ out = "sent" /\ Loaded("host")
                    /\ \A l, m \in PendingIn(Y, a, HostKinds) : l = m
                    /\ Cardinality(PendingIn(Y, a, BlockList)) <= C
                    /\ PendingIn(Y, a, BlockList) # {} => Loaded("dnsbl")
<1> DEFINE H == HostRequests(a, n, out)
           L == ListRequests(a, n, bl)
           D == Cardinality({b \in Lists(a) : bl[b] # "error"})
           C == IF Lists(a) # {} THEN D ELSE old
<1>1. /\ H \subseteq Lookup /\ IsFiniteSet(H) /\ \A l, m \in H : l = m
      /\ H # {} => Resolves(a) /\ out = "sent"
      /\ L \subseteq Lookup /\ IsFiniteSet(L)
      /\ L # {} => Lists(a) # {}
      /\ D \in Nat /\ Cardinality(L) <= D
  <2>1. /\ H \subseteq Lookup /\ IsFiniteSet(H) /\ \A l, m \in H : l = m
        /\ H # {} => Resolves(a) /\ out = "sent"
    BY HostLookups
  <2>2. L \subseteq Lookup /\ IsFiniteSet(L) /\ (L # {} => Lists(a) # {})
    BY ListLookups
  <2>3. D \in Nat /\ Cardinality(L) <= D
    BY ListLookups
  <2> QED
    BY <2>1, <2>2, <2>3
<1>2. IsFiniteSet(X \cup H \cup L)
  BY <1>1, FS_Union
<1>3. Cardinality(L) <= C
  <2>1. CASE Lists(a) # {}
    BY <1>1, <2>1
  <2>2. CASE Lists(a) = {}
    <3>1. L = {}
      BY <1>1, <2>2
    <3> QED
      BY <2>2, <3>1, FS_EmptySet
  <2> QED
    BY <2>1, <2>2
<1>4. Resolves(a) => Loaded("host")
  BY DEF Resolves
<1>5. Lists(a) # {} => Loaded("dnsbl")
  BY DEF Lists
<1>6. (\A l \in X : l.addr # a) =>
        PendingIn(X \cup H \cup L, a, HostKinds) = H /\ PendingIn(X \cup H \cup L, a, BlockList) = L
  BY FreshPending
<1> HIDE DEF H, L, D
<1>7. C = CountFor(a, bl, old) /\ X \cup H \cup L = Started(X, a, n, out, bl)
  BY DEF CountFor, Started, H, L, D
<1> QED
  BY <1>1, <1>2, <1>3, <1>4, <1>5, <1>6, <1>7

(* UserManager::AddUser. *)
LEMMA HoldsInitInv == HoldsInit => HoldsInv
<1> SUFFICES ASSUME HoldsInit PROVE HoldsInv
  OBVIOUS
<1>1. PICK a \in Address, out \in Outcomes, bl \in [BlockList -> Outcomes], opens \in BOOLEAN :
          /\ addr = a
          /\ host = <<"ip", a>>
          /\ dl = (Resolves(a) /\ out = "sent")
          /\ blCount = Cardinality({b \in Lists(a) : bl[b] # "error"})
          /\ lookups = HostRequests(a, 0, out) \cup ListRequests(a, 0, bl)
  BY DEF HoldsInit
<1>2. Lists(a) = {} => blCount = 0
  BY <1>1, FS_EmptySet
<1>3. lookups = Started({}, a, 0, out, bl)
  BY <1>1 DEF Started
<1>4. blCount = CountFor(a, bl, 0)
  BY <1>1, <1>2 DEF CountFor
<1>5. /\ lookups \subseteq Lookup /\ IsFiniteSet(lookups) /\ blCount \in Nat
      /\ PendingIn(lookups, a, HostKinds) # {} => Resolves(a) /\ out = "sent" /\ Loaded("host")
      /\ \A l, m \in PendingIn(lookups, a, HostKinds) : l = m
      /\ Cardinality(PendingIn(lookups, a, BlockList)) <= blCount
      /\ PendingIn(lookups, a, BlockList) # {} => Loaded("dnsbl")
  <2>1. {} \subseteq Lookup /\ IsFiniteSet({}) /\ 0 \in Nat /\ \A l \in {} : l.addr # a
    BY FS_EmptySet
  <2> QED
    BY <1>3, <1>4, <2>1, StartedOK
<1>6. stage = "none" /\ moves \in Nat /\ host[2] = addr
  BY <1>1 DEF HoldsInit
<1> QED
  BY <1>1, <1>5, <1>6
     DEF HoldsInv, LookupsOK, HostPending, ListPending, ChecksOK, HostOK, ConnectedMeansChecked

(* The address changes: what was pending is for another address, and what is *)
(* started now is covered by the flag and the count.                          *)
LEMMA MoveInv ==
    ASSUME HoldsInv, NEW a \in Address, NEW out \in Outcomes, NEW bl \in [BlockList -> Outcomes],
           NEW opens \in BOOLEAN, OnChangeRemoteAddress(a, out, bl, opens)
    PROVE  HoldsInv'
<1>1. /\ lookups \subseteq Lookup /\ IsFiniteSet(lookups) /\ moves \in Nat /\ blCount \in Nat
      /\ ChecksOK
  BY DEF HoldsInv
<1>2. /\ addr' = a /\ moves' = moves + 1 /\ stage # "full" /\ host' = NewHost(a, out)
      /\ gap' = gap \cup Gaps(a, out, bl) /\ dl' = NewFlag(a, out)
      /\ UNCHANGED <<setup, stage, sql, cookie, passed>>
  BY DEF OnChangeRemoteAddress
<1>3. lookups' = Started(lookups, a, moves + 1, out, bl) /\ blCount' = CountFor(a, bl, blCount)
  BY DEF OnChangeRemoteAddress, NewCount, Started, CountFor
<1>4. /\ lookups' \subseteq Lookup /\ IsFiniteSet(lookups') /\ blCount' \in Nat
      /\ (\A l \in lookups : l.addr # a) =>
           /\ PendingIn(lookups', a, HostKinds) # {} => Resolves(a) /\ out = "sent" /\ Loaded("host")
           /\ \A l, m \in PendingIn(lookups', a, HostKinds) : l = m
           /\ Cardinality(PendingIn(lookups', a, BlockList)) <= blCount'
           /\ PendingIn(lookups', a, BlockList) # {} => Loaded("dnsbl")
  <2>1. moves + 1 \in Nat
    BY <1>1
  <2> QED
    BY <1>1, <1>3, <2>1, StartedOK
<1>5. "revisit" \notin gap' => \A l \in lookups : l.addr # a
  BY <1>2 DEF Gaps, GapKinds
<1>6. Loaded("host")' = Loaded("host") /\ Loaded("dnsbl")' = Loaded("dnsbl")
  BY <1>2 DEF Loaded
<1>7. Resolves(a) /\ out = "sent" => dl'
  BY <1>2 DEF NewFlag
<1>8. LookupsOK'
  BY <1>2, <1>4, <1>5, <1>6, <1>7 DEF LookupsOK, HostPending, ListPending
<1>9. HostOK'
  <2>1. HostRequests(a, 0, out) # {} => Resolves(a) /\ out = "sent"
    BY DEF HostRequests
  <2>2. Resolves(a) => Loaded("host")
    BY DEF Resolves
  <2>3. "name" \notin gap' => HostRequests(a, 0, out) # {} \/ host'[2] = a
    BY <1>2 DEF Gaps, GapKinds
  <2> QED
    BY <1>2, <1>6, <1>7, <2>1, <2>2, <2>3 DEF HostOK
<1>10. ChecksOK' /\ ConnectedMeansChecked'
  BY <1>1, <1>2 DEF ChecksOK, ConnectedMeansChecked, Loaded
<1> QED
  BY <1>1, <1>2, <1>4, <1>8, <1>9, <1>10 DEF HoldsInv

(* A lookup of the host is over: the hold ends with it when it is for the *)
(* present address.  l is the lookup; m, if any, the one that replaces it. *)
LEMMA HostLookupInv ==
    ASSUME HoldsInv, NEW l \in lookups, l.what \in HostKinds, NEW M, M \subseteq Lookup, IsFiniteSet(M),
           \A m \in M : m.addr = l.addr /\ m.what \in HostKinds,
           \A m, n \in M : m = n,
           lookups' = (lookups \ {l}) \cup M,
           l.addr # addr => M = {} /\ KeepHost,
           l.addr = addr => \/ M # {} /\ KeepHost
                            \/ M = {} /\ dl' = FALSE /\ host'[2] = addr,
           UNCHANGED <<setup, stage, addr, moves, blCount, sql, cookie, passed, gap>>
    PROVE  HoldsInv'
<1>1. /\ lookups \subseteq Lookup /\ IsFiniteSet(lookups) /\ moves \in Nat /\ blCount \in Nat
      /\ LookupsOK /\ ChecksOK /\ HostOK /\ ConnectedMeansChecked /\ addr \in Address
  BY DEF HoldsInv
<1>2. lookups' \subseteq Lookup /\ IsFiniteSet(lookups')
  BY <1>1, FS_Subset, FS_Union
<1>3. HostKinds \cap BlockList = {}
  BY ListsAssumption DEF HostKinds
<1>4. ListPending' = ListPending
  BY <1>3 DEF ListPending, PendingIn
<1>5. Loaded("host")' = Loaded("host") /\ Loaded("dnsbl")' = Loaded("dnsbl")
  BY DEF Loaded
<1>6. CASE l.addr # addr
  <2>1. HostPending' = HostPending
    BY <1>6 DEF HostPending, PendingIn
  <2>2. LookupsOK'
    BY <1>1, <1>4, <1>5, <1>6, <2>1 DEF LookupsOK, KeepHost
  <2>3. HostOK'
    BY <1>1, <1>5, <1>6 DEF HostOK, KeepHost
  <2>4. ChecksOK' /\ ConnectedMeansChecked'
    BY <1>1, <1>6 DEF ChecksOK, ConnectedMeansChecked, Loaded, Current
  <2> QED
    BY <1>1, <1>2, <2>2, <2>3, <2>4 DEF HoldsInv
<1>7. CASE l.addr = addr
  <2>1. l \in HostPending
    BY <1>7 DEF HostPending, PendingIn
  <2>2. HostPending' = (HostPending \ {l}) \cup M
    BY <1>7 DEF HostPending, PendingIn
  <2>3. LookupsOK'
    <3>1. SUFFICES ASSUME "revisit" \notin gap PROVE LookupsOK'
      BY DEF LookupsOK
    <3>2. HostPending = {l} /\ dl /\ Loaded("host")
      BY <1>1, <2>1, <3>1 DEF LookupsOK
    <3>3. HostPending' = M
      BY <2>2, <3>2
    <3>4. M # {} => dl'
      BY <1>7, <3>2 DEF KeepHost
    <3> QED
      BY <1>1, <1>4, <1>5, <3>2, <3>3, <3>4 DEF LookupsOK
  <2>4. HostOK'
    BY <1>1, <1>5, <1>7 DEF HostOK, KeepHost
  <2>5. ChecksOK'
    BY <1>1 DEF ChecksOK, Loaded
  <2>6. ConnectedMeansChecked'
    BY <1>1, <1>7 DEF ConnectedMeansChecked, Loaded, Current
  <2> QED
    BY <1>1, <1>2, <2>3, <2>4, <2>5, <2>6 DEF HoldsInv
<1> QED
  BY <1>6, <1>7

(* The callbacks of core_hostname_lookup. *)
LEMMA HostCallbacksInv ==
    ASSUME HoldsInv, NEW l \in lookups,
           \/ \E forward \in Outcomes : PtrComplete(l, forward)
           \/ \E matches \in BOOLEAN : ForwardComplete(l, matches)
           \/ HostLookupError(l)
    PROVE  HoldsInv'
<1>1. l \in Lookup
  BY DEF HoldsInv
<1>2. l.what \in HostKinds /\ UNCHANGED <<setup, stage, addr, moves, blCount, sql, cookie, passed, gap>>
  BY DEF PtrComplete, ForwardComplete, HostLookupError, HostKinds
<1>3. CASE /\ lookups' = lookups \ {l}
           /\ l.addr # addr => KeepHost
           /\ l.addr = addr => dl' = FALSE /\ host'[2] = addr
  <2>1. {} \subseteq Lookup /\ IsFiniteSet({}) /\ lookups' = (lookups \ {l}) \cup {}
    BY <1>3, FS_EmptySet
  <2> QED
    BY <1>2, <1>3, <2>1, HostLookupInv
<1>4. CASE /\ l.addr = addr /\ KeepHost
           /\ lookups' = (lookups \ {l}) \cup {[l EXCEPT !.what = "forward"]}
  <2> DEFINE m == [l EXCEPT !.what = "forward"]
             M == {m}
  <2>1. m \in Lookup /\ m.addr = l.addr /\ m.what = "forward"
    BY <1>1 DEF Lookup
  <2>2. /\ M \subseteq Lookup /\ IsFiniteSet(M) /\ M # {}
        /\ \A k \in M : k.addr = l.addr /\ k.what \in HostKinds
        /\ \A k, n \in M : k = n
    BY <2>1, FS_Singleton DEF HostKinds
  <2>3. lookups' = (lookups \ {l}) \cup M
    BY <1>4
  <2>4. l.addr = addr /\ KeepHost
    BY <1>4
  <2> HIDE DEF M
  <2> QED
    BY <1>2, <2>2, <2>3, <2>4, HostLookupInv
<1>5. UseAddress => dl' = FALSE /\ host'[2] = addr
  BY DEF UseAddress
<1>6. ASSUME NEW forward \in Outcomes, PtrComplete(l, forward) PROVE HoldsInv'
  <2>1. \/ l.addr = addr /\ KeepHost /\ lookups' = (lookups \ {l}) \cup {[l EXCEPT !.what = "forward"]}
        \/ l.addr = addr /\ UseAddress /\ lookups' = lookups \ {l}
        \/ l.addr # addr /\ KeepHost /\ lookups' = lookups \ {l}
    BY <1>6 DEF PtrComplete, Current
  <2> QED
    BY <1>3, <1>4, <1>5, <2>1
<1>7. ASSUME NEW matches \in BOOLEAN, ForwardComplete(l, matches) PROVE HoldsInv'
  <2>1. /\ lookups' = lookups \ {l}
        /\ \/ l.addr # addr /\ KeepHost
           \/ l.addr = addr /\ UseAddress
           \/ l.addr = addr /\ host' = <<"name", l.addr>> /\ dl' = FALSE
    BY <1>7 DEF ForwardComplete, Current
  <2>2. host' = <<"name", l.addr>> => host'[2] = l.addr
    OBVIOUS
  <2> QED
    BY <1>3, <1>5, <2>1, <2>2
<1>8. ASSUME HostLookupError(l) PROVE HoldsInv'
  <2>1. /\ lookups' = lookups \ {l}
        /\ \/ l.addr # addr /\ KeepHost
           \/ l.addr = addr /\ UseAddress
    BY <1>8 DEF HostLookupError, Current
  <2> QED
    BY <1>3, <1>5, <2>1
<1> QED
  BY <1>6, <1>7, <1>8

(* The answer of a block list: the count goes down only for the present address. *)
LEMMA ListAnswerInv ==
    ASSUME HoldsInv, NEW l \in lookups, NEW kill \in BOOLEAN, ListAnswer(l, kill)
    PROVE  HoldsInv'
<1>1. /\ lookups \subseteq Lookup /\ IsFiniteSet(lookups) /\ moves \in Nat /\ blCount \in Nat
      /\ LookupsOK /\ ChecksOK /\ HostOK /\ ConnectedMeansChecked /\ addr \in Address
  BY DEF HoldsInv
<1>2. /\ l.what \in BlockList /\ lookups' = lookups \ {l}
      /\ blCount' = IF l.addr = addr /\ blCount > 0 THEN blCount - 1 ELSE blCount
      /\ stage' = stage \/ stage' = "quit"
      /\ UNCHANGED <<setup, addr, host, moves, dl, sql, cookie, passed, gap>>
  BY DEF ListAnswer, Current
<1>3. lookups' \subseteq Lookup /\ IsFiniteSet(lookups') /\ blCount' \in Nat
  BY <1>1, <1>2, FS_Subset
<1>4. HostPending' = HostPending
  <2>1. l.what \notin HostKinds
    BY <1>2, ListsAssumption DEF HostKinds
  <2> QED
    BY <1>2, <2>1 DEF HostPending, PendingIn
<1>5. ListPending' = ListPending \ {l} /\ IsFiniteSet(ListPending)
  BY <1>1, <1>2, FS_Subset DEF ListPending, PendingIn
<1>6. Cardinality(ListPending) <= blCount => Cardinality(ListPending') <= blCount'
  <2>1. CASE l.addr = addr
    <3>1. l \in ListPending
      BY <1>2, <2>1 DEF ListPending, PendingIn
    <3>2. Cardinality(ListPending') = Cardinality(ListPending) - 1
      BY <1>5, <3>1, FS_RemoveElement
    <3>3. Cardinality(ListPending) \in Nat /\ Cardinality(ListPending') \in Nat
      BY <1>5, FS_CardinalityType, FS_Subset
    <3> QED
      BY <1>1, <1>2, <2>1, <3>2, <3>3
  <2>2. CASE l.addr # addr
    <3>1. ListPending' = ListPending
      BY <1>5, <2>2 DEF ListPending, PendingIn
    <3> QED
      BY <1>2, <2>2, <3>1
  <2> QED
    BY <2>1, <2>2
<1>7. LookupsOK'
  BY <1>1, <1>2, <1>4, <1>5, <1>6 DEF LookupsOK, Loaded
<1>8. ChecksOK' /\ HostOK' /\ ConnectedMeansChecked'
  BY <1>1, <1>2 DEF ChecksOK, HostOK, ConnectedMeansChecked, Loaded, Current
<1> QED
  BY <1>1, <1>2, <1>3, <1>7, <1>8 DEF HoldsInv

(* A client that no module denies: nothing is pending for its address. *)
LEMMA ReadyInv ==
    ASSUME HoldsInv, CheckModulesReady
    PROVE  HoldsInv'
<1>1. /\ lookups \subseteq Lookup /\ IsFiniteSet(lookups) /\ moves \in Nat /\ blCount \in Nat
      /\ LookupsOK /\ ChecksOK /\ HostOK /\ addr \in Address
  BY DEF HoldsInv
<1>2. /\ stage = "nickuser" /\ (stage' = "full" => ~Denied)
      /\ stage' \in {"nickuser", "full", "quit"}
      /\ UNCHANGED <<setup, addr, host, moves, dl, blCount, lookups, sql, cookie, passed, gap>>
  BY DEF CheckModulesReady
<1>3. \A mod : Loaded(mod) /\ ~Denied => ~Denies(mod)
  BY DEF Loaded, Denied
<1>4. LookupsOK' /\ HostOK'
  <2>1. LookupsOK'
    BY <1>1, <1>2 DEF LookupsOK, HostPending, ListPending, Loaded
  <2>2. stage' = "full" /\ Loaded("host") => ~dl
    BY <1>2, <1>3 DEF Denies
  <2>3. Loaded("host")' = Loaded("host")
    BY <1>2 DEF Loaded
  <2> QED
    BY <1>1, <1>2, <2>1, <2>2, <2>3 DEF HostOK
<1>5. ChecksOK'
  BY <1>1, <1>2 DEF ChecksOK, Loaded
<1>6. ASSUME ~Denied PROVE {mod \in {"sql", "pong"} : Loaded(mod)} \subseteq passed
  <2>1. Loaded("sql") => sql \notin {"busy", "fail"}
    BY <1>3, <1>6 DEF Denies
  <2>2. Loaded("pong") => ~cookie
    BY <1>3, <1>6 DEF Denies
  <2> QED
    BY <1>1, <1>2, <2>1, <2>2 DEF ChecksOK
<1>7. ASSUME ~Denied, "revisit" \notin gap PROVE \A l \in lookups : ~Current(l)
  <2>1. HostPending = {}
    BY <1>1, <1>3, <1>7 DEF LookupsOK, Denies
  <2>2. ListPending = {}
    <3>1. IsFiniteSet(ListPending)
      BY <1>1, FS_Subset DEF ListPending, PendingIn
    <3>2. Loaded("dnsbl") => ~(blCount > 0)
      BY <1>3, <1>7 DEF Denies
    <3>3. Loaded("dnsbl") => Cardinality(ListPending) = 0
      BY <1>1, <1>7, <3>1, <3>2, FS_CardinalityType DEF LookupsOK
    <3> QED
      BY <1>1, <1>7, <3>1, <3>3, FS_EmptySet DEF LookupsOK
  <2>3. \A l \in lookups : l.what \in HostKinds \/ l.what \in BlockList
    BY <1>1 DEF Lookup, HostKinds
  <2> QED
    BY <2>1, <2>2, <2>3 DEF HostPending, ListPending, PendingIn, Current
<1>8. ConnectedMeansChecked'
  BY <1>2, <1>6, <1>7 DEF ConnectedMeansChecked, Loaded, Current
<1> QED
  BY <1>1, <1>2, <1>4, <1>5, <1>8 DEF HoldsInv

(* A step that changes neither the address, the host nor the lookups, and ends *)
(* no check that was not passed.                                                *)
LEMMA OtherInv ==
    ASSUME HoldsInv, UNCHANGED <<setup, addr, host, moves, dl, blCount, lookups, gap>>,
           passed \subseteq passed', stage' = "full" => stage = "full", ChecksOK'
    PROVE  HoldsInv'
<1>1. /\ lookups \subseteq Lookup /\ IsFiniteSet(lookups) /\ moves \in Nat /\ blCount \in Nat
      /\ LookupsOK /\ HostOK /\ ConnectedMeansChecked /\ addr \in Address
  BY DEF HoldsInv
<1>2. LookupsOK' /\ HostOK'
  BY <1>1 DEF LookupsOK, HostOK, HostPending, ListPending, Loaded
<1>3. ConnectedMeansChecked'
  BY <1>1 DEF ConnectedMeansChecked, Loaded, Current
<1> QED
  BY <1>1, <1>2, <1>3 DEF HoldsInv

(* Every step preserves the invariant. *)
LEMMA HoldsStep == HoldsInv /\ [HoldsNext]_holdsVars => HoldsInv'
<1> SUFFICES ASSUME HoldsInv, [HoldsNext]_holdsVars PROVE HoldsInv'
  OBVIOUS
<1>0. ChecksOK
  BY DEF HoldsInv
<1>1. ASSUME NEW b \in BOOLEAN, OnUserRegister(b) PROVE HoldsInv'
  <2>1. ChecksOK'
    BY <1>1 DEF OnUserRegister, ChecksOK, Loaded
  <2> QED
    BY <1>1, <2>1, OtherInv DEF OnUserRegister
<1>2. ASSUME NEW b \in BOOLEAN, SqlResult(b) PROVE HoldsInv'
  <2>1. ChecksOK'
    BY <1>0, <1>2 DEF SqlResult, ChecksOK, Loaded
  <2> QED
    BY <1>2, <2>1, OtherInv DEF SqlResult
<1>3. ASSUME NEW b \in BOOLEAN, WaitPong(b) PROVE HoldsInv'
  <2>1. ChecksOK'
    BY <1>0, <1>3 DEF WaitPong, ChecksOK, Loaded
  <2> QED
    BY <1>3, <2>1, OtherInv DEF WaitPong
<1>4. ASSUME \/ \E b \in BOOLEAN : IdentReply(b)
             \/ IdentSendFails \/ CapCommand \/ CapEnd \/ HoldsSecond \/ UNCHANGED holdsVars
      PROVE  HoldsInv'
  <2>1. UNCHANGED <<setup, stage, addr, host, moves, dl, blCount, lookups, sql, cookie, passed, gap>>
    BY <1>4 DEF IdentReply, IdentSendFails, CapCommand, CapEnd, HoldsSecond, holdsVars
  <2>2. ChecksOK'
    BY <1>0, <2>1 DEF ChecksOK, Loaded
  <2> QED
    BY <2>1, <2>2, OtherInv
<1>5. ASSUME CheckConnectionTimeout PROVE HoldsInv'
  <2>1. ChecksOK'
    BY <1>5 DEF CheckConnectionTimeout, ChecksOK
  <2> QED
    BY <1>5, <2>1, OtherInv DEF CheckConnectionTimeout
<1> QED
  BY <1>1, <1>2, <1>3, <1>4, <1>5, MoveInv, HostCallbacksInv, ListAnswerInv, ReadyInv DEF HoldsNext

(* core_hostname_lookup verifies the name against the address the client has *)
(* when the answer comes, and a client connects only when sqlauth and        *)
(* conn_waitpong let it and every lookup of core_hostname_lookup and dnsbl   *)
(* for its address is over: whatever was still under way for earlier         *)
(* addresses, what is known of a connected client is about its address.      *)
THEOREM ConnectedIsSound == HoldsSafe => []ConnectedSound
<1>1. HoldsInv => ConnectedSound
  BY DEF HoldsInv, HostOK, HostVerified, ConnectedSound
<1> QED
  BY <1>1, HoldsInitInv, HoldsStep, PTL DEF HoldsSafe

-----------------------------------------------------------------------------
(* For any addresses, classes, block lists and timeouts: a client is held  *)
(* only while an answer that releases it is under way.                     *)

(* What a module waits for is pending for the present address *)
ReasonOK ==
    /\ dl => "flag" \in gap \/ HostPending # {}
    /\ blCount > 0 => "count" \in gap \/ Cardinality(ListPending) >= blCount
    /\ sql = "busy" => sqlPending /\ stage # "none"

HeldInv == HoldsTypeOK /\ setup.moves \in Nat /\ ReasonOK

(* What is pending is what HeldForAReason counts. *)
LEMMA SamePending == HostPending = Pending({"ptr", "forward"}) /\ ListPending = Pending(BlockList)
BY DEF HostPending, ListPending, PendingIn, HostKinds, Pending, Current

(* The count of the lists is at most their number. *)
LEMMA CountBound ==
    ASSUME NEW a \in Address, NEW bl \in [BlockList -> Outcomes],
           NEW old \in 0..Cardinality(BlockList)
    PROVE  CountFor(a, bl, old) \in 0..Cardinality(BlockList)
<1> DEFINE D == {b \in Lists(a) : bl[b] # "error"}
<1>1. D \in SUBSET BlockList
  BY DEF Lists
<1>2. IsFiniteSet(D) /\ Cardinality(D) <= Cardinality(BlockList)
  BY <1>1, ListsAssumption, FS_Subset
<1>3. Cardinality(D) \in Nat /\ Cardinality(BlockList) \in Nat
  BY <1>2, ListsAssumption, FS_CardinalityType
<1> QED
  BY <1>2, <1>3 DEF CountFor

(* When no request is refused, there is a lookup for each list that is counted. *)
LEMMA CountedArePending ==
    ASSUME NEW a \in Address, NEW n \in Nat, NEW bl \in [BlockList -> Outcomes],
           \A b \in Lists(a) : bl[b] # "throw",
           NEW P, IsFiniteSet(P), ListRequests(a, n, bl) \subseteq P
    PROVE  Cardinality({b \in Lists(a) : bl[b] # "error"}) <= Cardinality(P)
<1> DEFINE D == {b \in Lists(a) : bl[b] # "error"}
           f == [b \in D |-> [what |-> b, addr |-> a, move |-> n]]
<1>1. Lists(a) \subseteq BlockList
  BY DEF Lists
<1>2. \A b \in D : bl[b] = "sent"
  BY <1>1 DEF Outcomes
<1>3. \A b \in D : f[b] \in P
  BY <1>2 DEF ListRequests
<1>4. \A b, c \in D : f[b] = f[c] => b = c
  <2>1. \A b \in D : f[b].what = b
    OBVIOUS
  <2> QED
    BY <2>1
<1>5. f \in Injection(D, P)
  <2>1. f \in [D -> P]
    BY <1>3
  <2> HIDE DEF f
  <2> QED
    BY <1>4, <2>1 DEF Injection, IsInjective
<1> QED
  BY <1>5, FS_Injection

(* A client that starts its lookups is held for no longer than they take. *)
LEMMA StartedReason ==
    ASSUME NEW a \in Address, NEW n \in Nat, NEW out \in Outcomes, NEW bl \in [BlockList -> Outcomes],
           NEW X, X \subseteq Lookup, IsFiniteSet(X), NEW old \in Nat
    PROVE  LET Y == Started(X, a, n, out, bl)
           IN  /\ Resolves(a) /\ out = "sent" => PendingIn(Y, a, HostKinds) # {}
               /\ Lists(a) # {} /\ (\A b \in Lists(a) : bl[b] # "throw") =>
                      CountFor(a, bl, old) <= Cardinality(PendingIn(Y, a, BlockList))
<1> DEFINE Y == Started(X, a, n, out, bl)
<1>1. Resolves(a) /\ out = "sent" => PendingIn(Y, a, HostKinds) # {}
  <2> SUFFICES ASSUME Resolves(a), out = "sent" PROVE PendingIn(Y, a, HostKinds) # {}
    OBVIOUS
  <2>1. [what |-> "ptr", addr |-> a, move |-> n] \in Y
    BY DEF Started, HostRequests
  <2>2. [what |-> "ptr", addr |-> a, move |-> n] \in PendingIn(Y, a, HostKinds)
    BY <2>1 DEF PendingIn, HostKinds
  <2> QED
    BY <2>2
<1>2. IsFiniteSet(Y)
  BY StartedOK
<1>3. IsFiniteSet(PendingIn(Y, a, BlockList))
  BY <1>2, FS_Subset DEF PendingIn
<1>4. ListRequests(a, n, bl) \subseteq PendingIn(Y, a, BlockList)
  <2>1. \A l \in ListRequests(a, n, bl) : l.addr = a /\ l.what \in BlockList
    BY ListLookups
  <2> QED
    BY <2>1 DEF PendingIn, Started
<1>5. Lists(a) # {} /\ (\A b \in Lists(a) : bl[b] # "throw") =>
        CountFor(a, bl, old) <= Cardinality(PendingIn(Y, a, BlockList))
  BY <1>3, <1>4, CountedArePending DEF CountFor
<1> QED
  BY <1>1, <1>5

(* The sockets and states that ident starts with are of their types. *)
LEMMA IdentTypes ==
    ASSUME NEW a \in Address, NEW opens \in BOOLEAN
    PROVE  /\ NewSocket(a, opens) \in
                [st : {"none", "open", "done"}, fd : BOOLEAN, left : 0..IdentTimeout, found : BOOLEAN]
           /\ NoSocket \in [st : {"none", "open", "done"}, fd : BOOLEAN, left : 0..IdentTimeout, found : BOOLEAN]
<1>1. 0 \in 0..IdentTimeout /\ IdentTimeout \in 0..IdentTimeout
  BY BoundsAssumption
<1> QED
  BY <1>1 DEF NewSocket, NoSocket

(* UserManager::AddUser. *)
LEMMA HeldInit == HoldsInit => HeldInv
<1> SUFFICES ASSUME HoldsInit PROVE HeldInv
  OBVIOUS
<1>1. PICK a \in Address, out \in Outcomes, bl \in [BlockList -> Outcomes], opens \in BOOLEAN :
          /\ addr = a
          /\ host = <<"ip", a>>
          /\ dl = (Resolves(a) /\ out = "sent")
          /\ blCount = Cardinality({b \in Lists(a) : bl[b] # "error"})
          /\ lookups = HostRequests(a, 0, out) \cup ListRequests(a, 0, bl)
          /\ isock = NewSocket(a, opens)
          /\ istate = IF ~Queries(a) THEN "none"
                      ELSE IF ~ClassOf[a].useident THEN "skipped"
                      ELSE IF opens THEN "none" ELSE "error"
          /\ gap = IF \E b \in Lists(a) : bl[b] = "throw" THEN {"count"} ELSE {}
  BY DEF HoldsInit
<1>2. lookups = Started({}, a, 0, out, bl) /\ {} \subseteq Lookup /\ IsFiniteSet({}) /\ 0 \in Nat
  BY <1>1, FS_EmptySet DEF Started
<1>3. (Lists(a) = {} => blCount = 0) /\ blCount = CountFor(a, bl, 0)
  BY <1>1, FS_EmptySet DEF CountFor
<1>4. setup.moves \in Nat /\ setup \in Setup
  BY BoundsAssumption DEF HoldsInit
<1>5. HoldsTypeOK
  <2>1. blCount \in 0..Cardinality(BlockList)
    <3>1. 0 \in 0..Cardinality(BlockList)
      BY ListsAssumption, FS_CardinalityType
    <3> QED
      BY <1>3, <3>1, CountBound
  <2>2. lookups \subseteq Lookup
    BY <1>2, StartedOK
  <2>3. isock \in [st : {"none", "open", "done"}, fd : BOOLEAN, left : 0..IdentTimeout, found : BOOLEAN]
    BY <1>1, IdentTypes
  <2>4. moves \in 0..setup.moves /\ waited \in 0..(ConnectTimeout + 1)
    BY <1>4, BoundsAssumption DEF HoldsInit
  <2>5. /\ addr \in Address /\ host \in {"ip", "name"} \X Address /\ gap \subseteq GapKinds
        /\ dl \in BOOLEAN
    BY <1>1 DEF GapKinds
  <2>6. istate \in {"none", "skipped", "error", "found", "missing", "prefixed"}
    BY <1>1
  <2> QED
    BY <2>1, <2>2, <2>3, <2>4, <2>5, <2>6 DEF HoldsTypeOK, HoldsInit
<1>6. ReasonOK
  <2>1. dl => HostPending # {}
    BY <1>1, <1>2, StartedReason DEF HostPending
  <2>2. blCount > 0 => "count" \in gap \/ Cardinality(ListPending) >= blCount
    <3>1. "count" \notin gap => \A b \in Lists(a) : bl[b] # "throw"
      BY <1>1
    <3>2. SUFFICES ASSUME Lists(a) # {}, \A b \in Lists(a) : bl[b] # "throw"
                   PROVE  Cardinality(ListPending) >= blCount
      BY <1>3, <3>1
    <3>3. blCount <= Cardinality(PendingIn(lookups, a, BlockList))
      BY <1>2, <1>3, <3>2, StartedReason
    <3>4. blCount \in Nat /\ Cardinality(ListPending) \in Nat
      BY <1>2, <1>3, StartedOK, FS_Subset, FS_CardinalityType DEF ListPending, PendingIn
    <3> QED
      BY <1>1, <3>3, <3>4 DEF ListPending
  <2>3. sql # "busy"
    BY DEF HoldsInit
  <2> QED
    BY <2>1, <2>2, <2>3 DEF ReasonOK
<1> QED
  BY <1>4, <1>5, <1>6 DEF HeldInv

(* The address changes. *)
LEMMA MoveHeld ==
    ASSUME HoldsInv, HeldInv, NEW a \in Address, NEW out \in Outcomes,
           NEW bl \in [BlockList -> Outcomes], NEW opens \in BOOLEAN,
           OnChangeRemoteAddress(a, out, bl, opens)
    PROVE  HeldInv'
<1>1. /\ lookups \subseteq Lookup /\ IsFiniteSet(lookups) /\ moves \in Nat /\ blCount \in Nat
      /\ HoldsTypeOK /\ ReasonOK /\ setup.moves \in Nat /\ moves + 1 \in Nat
  BY DEF HoldsInv, HeldInv
<1>2. /\ addr' = a /\ moves' = moves + 1 /\ moves < setup.moves /\ host' = NewHost(a, out)
      /\ gap' = gap \cup Gaps(a, out, bl) /\ dl' = NewFlag(a, out)
      /\ isock' = NewSocket(a, opens) /\ istate' = NewIdentState(a, opens)
      /\ UNCHANGED <<setup, stage, username, sql, sqlPending, capHold, cookie, waited, passed>>
  BY DEF OnChangeRemoteAddress
<1>3. lookups' = Started(lookups, a, moves + 1, out, bl) /\ blCount' = CountFor(a, bl, blCount)
  BY DEF OnChangeRemoteAddress, NewCount, Started, CountFor
<1>4. lookups' \subseteq Lookup /\ IsFiniteSet(lookups') /\ blCount' \in Nat
  BY <1>1, <1>3, StartedOK
<1>5. HoldsTypeOK'
  <2>1. blCount' \in 0..Cardinality(BlockList)
    BY <1>1, <1>3, CountBound DEF HoldsTypeOK
  <2>2. isock' \in [st : {"none", "open", "done"}, fd : BOOLEAN, left : 0..IdentTimeout, found : BOOLEAN]
    BY <1>2, IdentTypes
  <2>3. moves' \in 0..setup'.moves
    BY <1>1, <1>2
  <2>4. host' \in {"ip", "name"} \X Address
    BY <1>1, <1>2 DEF NewHost, HoldsTypeOK
  <2>5. dl' \in BOOLEAN
    BY <1>1, <1>2 DEF NewFlag, HoldsTypeOK
  <2>6. istate' \in {"none", "skipped", "error", "found", "missing", "prefixed"}
    BY <1>1, <1>2 DEF NewIdentState, HoldsTypeOK
  <2>7. gap' \subseteq GapKinds
    BY <1>1, <1>2 DEF Gaps, HoldsTypeOK
  <2> QED
    BY <1>1, <1>2, <1>4, <2>1, <2>2, <2>3, <2>4, <2>5, <2>6, <2>7 DEF HoldsTypeOK
<1>6. dl' => "flag" \in gap' \/ HostPending' # {}
  <2>1. CASE Resolves(a)
    <3>1. dl' => out = "sent"
      BY <1>2, <2>1 DEF NewFlag
    <3>2. out = "sent" => PendingIn(lookups', a, HostKinds) # {}
      BY <1>1, <1>3, <2>1, StartedReason
    <3> QED
      BY <1>2, <3>1, <3>2 DEF HostPending
  <2>2. CASE ~Resolves(a)
    BY <1>2, <2>2 DEF NewFlag, Gaps, GapKinds
  <2> QED
    BY <2>1, <2>2
<1>7. blCount' > 0 => "count" \in gap' \/ Cardinality(ListPending') >= blCount'
  <2>1. CASE Lists(a) = {}
    BY <1>2, <1>3, <2>1 DEF CountFor, Gaps, GapKinds
  <2>2. CASE \E b \in Lists(a) : bl[b] = "throw"
    BY <1>2, <2>2 DEF Gaps, GapKinds
  <2>3. CASE Lists(a) # {} /\ \A b \in Lists(a) : bl[b] # "throw"
    <3>1. blCount' <= Cardinality(PendingIn(lookups', a, BlockList))
      BY <1>1, <1>3, <2>3, StartedReason
    <3>2. ListPending' = PendingIn(lookups', a, BlockList)
      BY <1>2 DEF ListPending
    <3>3. Cardinality(ListPending') \in Nat
      BY <1>4, FS_Subset, FS_CardinalityType DEF ListPending, PendingIn
    <3> QED
      BY <1>4, <3>1, <3>2, <3>3
  <2> QED
    BY <2>1, <2>2, <2>3
<1>8. sql' = "busy" => sqlPending' /\ stage' # "none"
  BY <1>1, <1>2 DEF ReasonOK
<1> QED
  BY <1>1, <1>2, <1>5, <1>6, <1>7, <1>8 DEF HeldInv, ReasonOK

(* A callback of core_hostname_lookup for another address leaves the hold  *)
(* alone; one for the present address goes on or ends the hold.            *)
LEMMA HostCallbacksHeld ==
    ASSUME HoldsInv, HeldInv, HoldsInv', NEW l \in lookups,
           \/ \E forward \in Outcomes : PtrComplete(l, forward)
           \/ \E matches \in BOOLEAN : ForwardComplete(l, matches)
           \/ HostLookupError(l)
    PROVE  HeldInv'
<1>1. HoldsTypeOK /\ ReasonOK /\ setup.moves \in Nat /\ l \in Lookup /\ lookups' \subseteq Lookup
  BY DEF HoldsInv, HeldInv
<1>2. /\ l.what \in HostKinds
      /\ UNCHANGED <<setup, stage, addr, moves, blCount, isock, istate, username, sql, sqlPending,
                     capHold, cookie, waited, passed, gap>>
  BY DEF PtrComplete, ForwardComplete, HostLookupError, HostKinds
<1>3. \/ l.addr = addr /\ KeepHost /\ lookups' = (lookups \ {l}) \cup {[l EXCEPT !.what = "forward"]}
      \/ /\ lookups' = lookups \ {l}
         /\ \/ l.addr # addr /\ KeepHost
            \/ l.addr = addr /\ UseAddress
            \/ l.addr = addr /\ host' = <<"name", l.addr>> /\ dl' = FALSE
  BY DEF PtrComplete, ForwardComplete, HostLookupError, Current
<1>4. host' \in {"ip", "name"} \X Address /\ dl' \in BOOLEAN
  <2>1. addr \in Address /\ host \in {"ip", "name"} \X Address /\ dl \in BOOLEAN
    BY <1>1 DEF HoldsTypeOK
  <2>2. CASE KeepHost
    BY <2>1, <2>2 DEF KeepHost
  <2>3. CASE UseAddress
    BY <2>1, <2>3 DEF UseAddress
  <2>4. CASE l.addr = addr /\ host' = <<"name", l.addr>> /\ dl' = FALSE
    BY <2>1, <2>4
  <2> QED
    BY <1>3, <2>2, <2>3, <2>4
<1>5. HoldsTypeOK'
  BY <1>1, <1>2, <1>4 DEF HoldsTypeOK
<1>6. [l EXCEPT !.what = "forward"].what = "forward" /\ [l EXCEPT !.what = "forward"].addr = l.addr
  BY <1>1 DEF Lookup
<1>7. ListPending' = ListPending
  <2>1. HostKinds \cap BlockList = {} /\ "forward" \in HostKinds
    BY ListsAssumption DEF HostKinds
  <2> QED
    BY <1>2, <1>3, <1>6, <2>1 DEF ListPending, PendingIn
<1>8. dl' => "flag" \in gap' \/ HostPending' # {}
  <2>1. CASE l.addr = addr /\ KeepHost /\ lookups' = (lookups \ {l}) \cup {[l EXCEPT !.what = "forward"]}
    <3>1. [l EXCEPT !.what = "forward"] \in HostPending'
      BY <1>2, <1>6, <2>1 DEF HostPending, PendingIn, HostKinds
    <3> QED
      BY <3>1
  <2>2. CASE l.addr # addr /\ KeepHost /\ lookups' = lookups \ {l}
    <3>1. HostPending' = HostPending
      BY <1>2, <2>2 DEF HostPending, PendingIn
    <3> QED
      BY <1>1, <1>2, <2>2, <3>1 DEF ReasonOK, KeepHost
  <2> QED
    BY <1>3, <2>1, <2>2 DEF UseAddress
<1> QED
  BY <1>1, <1>2, <1>5, <1>7, <1>8 DEF HeldInv, ReasonOK

(* The answer of a block list. *)
LEMMA ListAnswerHeld ==
    ASSUME HoldsInv, HeldInv, NEW l \in lookups, NEW kill \in BOOLEAN, ListAnswer(l, kill)
    PROVE  HeldInv'
<1>1. /\ lookups \subseteq Lookup /\ IsFiniteSet(lookups) /\ blCount \in Nat
      /\ HoldsTypeOK /\ ReasonOK /\ setup.moves \in Nat
  BY DEF HoldsInv, HeldInv
<1>2. /\ l.what \in BlockList /\ lookups' = lookups \ {l}
      /\ blCount' = IF l.addr = addr /\ blCount > 0 THEN blCount - 1 ELSE blCount
      /\ stage' = stage \/ stage' = "quit"
      /\ UNCHANGED <<setup, addr, host, moves, dl, isock, istate, username, sql, sqlPending, capHold,
                     cookie, waited, passed, gap>>
  BY DEF ListAnswer, Current
<1>3. HoldsTypeOK'
  <2>1. blCount' \in 0..Cardinality(BlockList) /\ lookups' \subseteq Lookup
    <3>1. Cardinality(BlockList) \in Nat
      BY ListsAssumption, FS_CardinalityType
    <3> QED
      BY <1>1, <1>2, <3>1 DEF HoldsTypeOK
  <2> QED
    BY <1>1, <1>2, <2>1 DEF HoldsTypeOK
<1>4. HostPending' = HostPending
  <2>1. l.what \notin HostKinds
    BY <1>2, ListsAssumption DEF HostKinds
  <2> QED
    BY <1>2, <2>1 DEF HostPending, PendingIn
<1>5. ListPending' = ListPending \ {l} /\ IsFiniteSet(ListPending)
  BY <1>1, <1>2, FS_Subset DEF ListPending, PendingIn
<1>6. blCount' > 0 => "count" \in gap' \/ Cardinality(ListPending') >= blCount'
  <2>1. CASE l.addr = addr
    <3>1. l \in ListPending
      BY <1>2, <2>1 DEF ListPending, PendingIn
    <3>2. Cardinality(ListPending') = Cardinality(ListPending) - 1
      BY <1>5, <3>1, FS_RemoveElement
    <3>3. Cardinality(ListPending) \in Nat
      BY <1>5, FS_CardinalityType
    <3> QED
      BY <1>1, <1>2, <2>1, <3>2, <3>3 DEF ReasonOK
  <2>2. CASE l.addr # addr
    <3>1. ListPending' = ListPending
      BY <1>5, <2>2 DEF ListPending, PendingIn
    <3> QED
      BY <1>1, <1>2, <2>2, <3>1 DEF ReasonOK
  <2> QED
    BY <2>1, <2>2
<1> QED
  BY <1>1, <1>2, <1>3, <1>4, <1>6 DEF HeldInv, ReasonOK

(* A step that leaves the lookups and what they hold alone. *)
LEMMA OtherHeld ==
    ASSUME HeldInv, UNCHANGED <<setup, addr, moves, host, dl, blCount, lookups, gap>>,
           HoldsTypeOK', sql' = "busy" => sqlPending' /\ stage' # "none"
    PROVE  HeldInv'
<1>1. HostPending' = HostPending /\ ListPending' = ListPending
  BY DEF HostPending, ListPending
<1> QED
  BY <1>1 DEF HeldInv, ReasonOK

(* The types of what the checks other than the lookups use *)
CheckTypes ==
    /\ stage \in {"none", "nickuser", "full", "quit"}
    /\ sqlPending \in BOOLEAN /\ capHold \in BOOLEAN /\ cookie \in BOOLEAN
    /\ istate \in {"none", "skipped", "error", "found", "missing", "prefixed"}
    /\ username \in {"given", "prefixed", "found"}
    /\ sql \in {"none", "busy", "fail"}
    /\ passed \subseteq {"sql", "pong"}

ClockTypes ==
    /\ isock \in [st : {"none", "open", "done"}, fd : BOOLEAN, left : 0..IdentTimeout, found : BOOLEAN]
    /\ waited \in 0..(ConnectTimeout + 1)

(* The steps of ident, sqlauth, cap, conn_waitpong and of the main loop keep *)
(* the types of what they change.                                            *)
LEMMA OtherTypes ==
    ASSUME CheckTypes, ClockTypes,
           \/ \E b \in BOOLEAN : IdentReply(b) \/ OnUserRegister(b) \/ SqlResult(b) \/ WaitPong(b)
           \/ IdentSendFails \/ CapCommand \/ CapEnd
           \/ CheckModulesReady \/ CheckConnectionTimeout \/ HoldsSecond
    PROVE  CheckTypes' /\ ClockTypes'
<1> DEFINE Sock == [st : {"none", "open", "done"}, fd : BOOLEAN, left : 0..IdentTimeout, found : BOOLEAN]
<1>0. isock \in Sock
  BY DEF ClockTypes
<1>1. ASSUME NEW b \in BOOLEAN, IdentReply(b) PROVE CheckTypes' /\ ClockTypes'
  <2>1. isock' \in Sock
    BY <1>0, <1>1 DEF IdentReply
  <2>2. UNCHANGED <<stage, sqlPending, capHold, cookie, istate, username, sql, passed, waited>>
    BY <1>1 DEF IdentReply
  <2> QED
    BY <2>1, <2>2 DEF CheckTypes, ClockTypes
<1>2. ASSUME NEW b \in BOOLEAN, OnUserRegister(b) PROVE CheckTypes' /\ ClockTypes'
  BY <1>2 DEF OnUserRegister, CheckTypes, ClockTypes, Loaded
<1>3. ASSUME NEW b \in BOOLEAN, SqlResult(b) PROVE CheckTypes' /\ ClockTypes'
  <2>1. sql' \in {"none", "busy", "fail"} /\ passed' \subseteq {"sql", "pong"} /\ sqlPending' \in BOOLEAN
    BY <1>3 DEF SqlResult, CheckTypes
  <2> QED
    BY <1>3, <2>1 DEF SqlResult, CheckTypes, ClockTypes
<1>4. ASSUME NEW b \in BOOLEAN, WaitPong(b) PROVE CheckTypes' /\ ClockTypes'
  <2>1. /\ stage' \in {"none", "nickuser", "full", "quit"} /\ passed' \subseteq {"sql", "pong"}
        /\ cookie' \in BOOLEAN
    BY <1>4 DEF WaitPong, CheckTypes
  <2> QED
    BY <1>4, <2>1 DEF WaitPong, CheckTypes, ClockTypes
<1>5. ASSUME IdentSendFails PROVE CheckTypes' /\ ClockTypes'
  <2>1. isock' \in Sock
    BY <1>0, <1>5 DEF IdentSendFails
  <2>2. UNCHANGED <<stage, sqlPending, capHold, cookie, istate, username, sql, passed, waited>>
    BY <1>5 DEF IdentSendFails
  <2> QED
    BY <2>1, <2>2 DEF CheckTypes, ClockTypes
<1>6. ASSUME CapCommand \/ CapEnd PROVE CheckTypes' /\ ClockTypes'
  <2>1. capHold' \in BOOLEAN
    BY <1>6 DEF CapCommand, CapEnd
  <2>2. UNCHANGED <<stage, sqlPending, cookie, istate, username, sql, passed, waited, isock>>
    BY <1>6 DEF CapCommand, CapEnd
  <2> QED
    BY <2>1, <2>2 DEF CheckTypes, ClockTypes
<1>7. ASSUME CheckModulesReady PROVE CheckTypes' /\ ClockTypes'
  <2>1. isock' \in Sock
    <3>1. NoSocket \in Sock
      BY BoundsAssumption DEF NoSocket
    <3> QED
      BY <1>0, <1>7, <3>1 DEF CheckModulesReady, IdentCheckReady
  <2>2. /\ istate' \in {"none", "skipped", "error", "found", "missing", "prefixed"}
        /\ username' \in {"given", "prefixed", "found"}
    BY <1>7 DEF CheckModulesReady, IdentCheckReady, CheckTypes
  <2>3. stage' \in {"none", "nickuser", "full", "quit"}
    BY <1>7 DEF CheckModulesReady
  <2>4. UNCHANGED <<sqlPending, capHold, cookie, sql, passed, waited>>
    BY <1>7 DEF CheckModulesReady
  <2> QED
    BY <2>1, <2>2, <2>3, <2>4 DEF CheckTypes, ClockTypes
<1>8. ASSUME CheckConnectionTimeout PROVE CheckTypes' /\ ClockTypes'
  BY <1>8 DEF CheckConnectionTimeout, CheckTypes, ClockTypes
<1>9. ASSUME HoldsSecond PROVE CheckTypes' /\ ClockTypes'
  <2>1. isock' \in Sock
    BY <1>0, <1>9, BoundsAssumption DEF HoldsSecond
  <2>2. waited' \in 0..(ConnectTimeout + 1)
    BY <1>9, BoundsAssumption DEF HoldsSecond, ClockTypes
  <2>3. UNCHANGED <<stage, sqlPending, capHold, cookie, istate, username, sql, passed>>
    BY <1>9 DEF HoldsSecond
  <2> QED
    BY <2>1, <2>2, <2>3 DEF CheckTypes, ClockTypes
<1> QED
  BY <1>1, <1>2, <1>3, <1>4, <1>5, <1>6, <1>7, <1>8, <1>9

(* Every step preserves the invariant. *)
LEMMA HeldStep == HoldsInv /\ HoldsInv' /\ HeldInv /\ [HoldsNext]_holdsVars => HeldInv'
<1> SUFFICES ASSUME HoldsInv, HoldsInv', HeldInv, [HoldsNext]_holdsVars PROVE HeldInv'
  OBVIOUS
<1>0. HoldsTypeOK /\ ReasonOK
  BY DEF HeldInv
<1>1. ASSUME \/ \E b \in BOOLEAN : IdentReply(b) \/ OnUserRegister(b) \/ SqlResult(b) \/ WaitPong(b)
             \/ IdentSendFails \/ CapCommand \/ CapEnd
             \/ CheckModulesReady \/ CheckConnectionTimeout \/ HoldsSecond
      PROVE  HeldInv'
  <2>1. CheckTypes' /\ ClockTypes'
    <3>1. CheckTypes /\ ClockTypes
      BY <1>0 DEF HoldsTypeOK, CheckTypes, ClockTypes
    <3> QED
      BY <1>1, <3>1, OtherTypes
  <2>2. UNCHANGED <<setup, addr, moves, host, dl, blCount, lookups, gap>>
    BY <1>1 DEF IdentReply, OnUserRegister, SqlResult, WaitPong, IdentSendFails, CapCommand, CapEnd,
                CheckModulesReady, CheckConnectionTimeout, HoldsSecond
  <2>3. sql' = "busy" => sqlPending' /\ stage' # "none"
    <3>1. ASSUME NEW b \in BOOLEAN, OnUserRegister(b) PROVE sql' = "busy" => sqlPending' /\ stage' # "none"
      BY <1>0, <3>1 DEF OnUserRegister, ReasonOK
    <3>2. ASSUME NEW b \in BOOLEAN, SqlResult(b) PROVE sql' # "busy"
      BY <3>2 DEF SqlResult
    <3>3. \/ \E b \in BOOLEAN : OnUserRegister(b) \/ SqlResult(b)
          \/ UNCHANGED <<sql, sqlPending>> /\ (stage' = "none" => stage = "none")
      BY <1>1 DEF IdentReply, WaitPong, IdentSendFails, CapCommand, CapEnd,
                  CheckModulesReady, CheckConnectionTimeout, HoldsSecond
    <3>4. CASE UNCHANGED <<sql, sqlPending>> /\ (stage' = "none" => stage = "none")
      BY <1>0, <3>4 DEF ReasonOK
    <3> QED
      BY <3>1, <3>2, <3>3, <3>4
  <2>4. HoldsTypeOK'
    BY <1>0, <2>1, <2>2 DEF HoldsTypeOK, CheckTypes, ClockTypes
  <2> QED
    BY <2>2, <2>3, <2>4, OtherHeld
<1>2. CASE UNCHANGED holdsVars
  <2>1. HoldsTypeOK' /\ (sql' = "busy" => sqlPending' /\ stage' # "none")
    BY <1>0, <1>2 DEF HoldsTypeOK, ReasonOK, holdsVars
  <2> QED
    BY <1>2, <2>1, OtherHeld DEF holdsVars
<1>3. ASSUME NEW a \in Address, NEW out \in Outcomes, NEW bl \in [BlockList -> Outcomes],
             NEW opens \in BOOLEAN, OnChangeRemoteAddress(a, out, bl, opens)
      PROVE  HeldInv'
  BY <1>3, MoveHeld
<1>4. ASSUME NEW l \in lookups, NEW out \in Outcomes, PtrComplete(l, out) PROVE HeldInv'
  BY <1>4, HostCallbacksHeld
<1>5. ASSUME NEW l \in lookups, NEW b \in BOOLEAN, ForwardComplete(l, b) \/ ListAnswer(l, b) PROVE HeldInv'
  BY <1>5, HostCallbacksHeld, ListAnswerHeld
<1>6. ASSUME NEW l \in lookups, HostLookupError(l) PROVE HeldInv'
  BY <1>6, HostCallbacksHeld
<1> QED
  BY <1>1, <1>2, <1>3, <1>4, <1>5, <1>6 DEF HoldsNext

(* A client is never held for an answer that will not come: when            *)
(* core_hostname_lookup, dnsbl or sqlauth deny it, the request that ends    *)
(* the hold is pending, and for the address the client has now, but for the *)
(* gaps "flag" and "count" that the two modules have.                       *)
THEOREM HeldClientsHaveAReason == HoldsSafe => []HeldForAReason
<1>1. HeldInv => HeldForAReason
  BY SamePending DEF HeldInv, ReasonOK, HeldForAReason
<1> QED
  BY <1>1, HoldsInitInv, HoldsStep, HeldInit, HeldStep, PTL DEF HoldsSafe
=============================================================================
