--------------------------- MODULE ErasingProofs ----------------------------
(***************************************************************************)
(* Lemmas about queues: what a sequence holds once something is appended,  *)
(* taken from its front, or erased from its middle (Erasing).  The proofs  *)
(* about the worker threads and the timers rest on them.                   *)
(***************************************************************************)
EXTENDS Erasing, FiniteSetTheorems, TLAPS

(* The provers of every step, in their order *)
USE ZenonT(3), SMTT(20)

-----------------------------------------------------------------------------
(* Sequences *)

(* An element appended: where the others and the new one are. *)
LEMMA AppendFacts ==
    ASSUME NEW T, NEW s \in Seq(T), NEW e \in T
    PROVE  /\ Append(s, e) \in Seq(T) /\ Append(s, e) # <<>> /\ Len(Append(s, e)) = Len(s) + 1
           /\ Append(s, e)[Len(s) + 1] = e /\ \A i \in 1..Len(s) : Append(s, e)[i] = s[i]
OBVIOUS

(* One sequence after another: where each element is. *)
LEMMA ConcatFacts ==
    ASSUME NEW T, NEW s \in Seq(T), NEW t \in Seq(T)
    PROVE  /\ s \o t \in Seq(T) /\ Len(s \o t) = Len(s) + Len(t)
           /\ \A i \in 1..Len(s) + Len(t) : (s \o t)[i] = IF i <= Len(s) THEN s[i] ELSE t[i - Len(s)]
OBVIOUS

(* The remaining places are numbered by their ranks, in their order. *)
LEMMA RankOrder ==
    ASSUME NEW s, Len(s) \in Nat, NEW S
    PROVE  /\ IsFiniteSet(Remaining(s, S)) /\ Cardinality(Remaining(s, S)) \in Nat
           /\ \A i \in Remaining(s, S) : Rank(s, S, i) \in 1..Cardinality(Remaining(s, S))
           /\ \A i, j \in Remaining(s, S) : i < j => Rank(s, S, i) < Rank(s, S, j)
<1> DEFINE R == Remaining(s, S)
           U(i) == {j \in R : j <= i}
<1>1. R \subseteq 1..Len(s) /\ R \subseteq Nat
  BY DEF Remaining
<1>2. IsFiniteSet(R) /\ Cardinality(R) \in Nat
  <2>1. IsFiniteSet(1..Len(s))
    BY FS_Interval
  <2>2. IsFiniteSet(R)
    BY <1>1, <2>1, FS_Subset
  <2> QED
    BY <2>2, FS_CardinalityType
<1>3. \A i : U(i) \in SUBSET R /\ IsFiniteSet(U(i)) /\ Cardinality(U(i)) \in Nat
  BY <1>2, FS_Subset, FS_CardinalityType
<1>4. \A i : Rank(s, S, i) = Cardinality(U(i))
  BY DEF Rank
<1>5. \A i \in R : Cardinality(U(i)) \in 1..Cardinality(R)
  <2> TAKE i \in R
  <2>1. Cardinality(U(i)) <= Cardinality(R)
    BY <1>2, <1>3, FS_Subset
  <2>2. U(i) # {}
    BY <1>1
  <2>3. Cardinality(U(i)) # 0
    BY <1>3, <2>2, FS_EmptySet
  <2>4. PICK a \in Nat, b \in Nat : a = Cardinality(U(i)) /\ b = Cardinality(R)
    BY <1>2, <1>3
  <2>5. a \in 1..b
    BY <2>1, <2>3, <2>4
  <2> QED
    BY <2>4, <2>5
<1>6. \A i, j \in R : i < j => Cardinality(U(i)) < Cardinality(U(j))
  <2> TAKE i, j \in R
  <2> HAVE i < j
  <2>1. U(i) \in SUBSET U(j) /\ j \in U(j) /\ j \notin U(i)
    BY <1>1
  <2>2. Cardinality(U(i)) <= Cardinality(U(j)) /\ Cardinality(U(i)) # Cardinality(U(j))
    BY <1>3, <2>1, FS_Subset
  <2>3. PICK a \in Nat, b \in Nat : a = Cardinality(U(i)) /\ b = Cardinality(U(j))
    BY <1>3
  <2>4. a < b
    BY <2>2, <2>3
  <2> QED
    BY <2>3, <2>4
<1> QED
  BY <1>2, <1>4, <1>5, <1>6

(* ... and every number up to their count is the rank of one of them. *)
LEMMA RankOnto ==
    ASSUME NEW s, Len(s) \in Nat, NEW S, NEW k \in 1..Cardinality(Remaining(s, S))
    PROVE  \E i \in Remaining(s, S) : Rank(s, S, i) = k
<1> DEFINE R == Remaining(s, S)
           n == Cardinality(R)
           f == [i \in R |-> Rank(s, S, i)]
<1>1. /\ IsFiniteSet(R) /\ n \in Nat
      /\ \A i \in R : f[i] \in 1..n
      /\ \A i, j \in R : i < j => f[i] < f[j]
  BY RankOrder
<1>2. R \subseteq Nat
  BY DEF Remaining
<1>3. f \in [R -> 1..n]
  BY <1>1
<1>4. \A i, j \in R : f[i] = f[j] => i = j
  <2> TAKE i, j \in R
  <2>1. i < j \/ j < i \/ i = j
    BY <1>2
  <2>2. PICK a \in 1..n, b \in 1..n : a = f[i] /\ b = f[j]
    BY <1>1
  <2>3. (i < j => a < b) /\ (j < i => b < a)
    BY <1>1, <2>2
  <2> QED
    BY <2>1, <2>2, <2>3
<1> HIDE DEF f
<1>5. f \in Injection(R, 1..n)
  BY <1>3, <1>4 DEF Injection, IsInjective
<1>6. IsFiniteSet(1..n) /\ Cardinality(1..n) = n
  BY <1>1, FS_Interval
<1>7. f \in Surjection(R, 1..n)
  BY <1>5, <1>6, FS_Injection
<1>8. \E i \in R : f[i] = k
  BY <1>7 DEF Surjection
<1> QED
  BY <1>8 DEF f

(* What is left after erasing: elements of s at increasing places *)
Places(t, s, pos) ==
    /\ pos \in [1..Len(t) -> 1..Len(s)]
    /\ \A k \in 1..Len(t) : t[k] = s[pos[k]]
    /\ \A k, l \in 1..Len(t) : k < l => pos[k] < pos[l]

(* Erasing keeps the type and the order, and exactly the elements that are *)
(* not in S.                                                               *)
LEMMA ErasedPlaces ==
    ASSUME NEW T, NEW s \in Seq(T), NEW S
    PROVE  /\ Erased(s, S) \in Seq(T) /\ Len(Erased(s, S)) \in Nat
           /\ \E pos : Places(Erased(s, S), s, pos)
           /\ \A k \in 1..Len(Erased(s, S)) : Erased(s, S)[k] \notin S
           /\ \A i \in 1..Len(s) : s[i] \notin S => \E k \in 1..Len(Erased(s, S)) : Erased(s, S)[k] = s[i]
<1> DEFINE R == Remaining(s, S)
           n == Cardinality(R)
           p == [k \in 1..n |-> CHOOSE i \in R : Rank(s, S, i) = k]
           e == Erased(s, S)
<1>0. Len(s) \in Nat /\ \A i \in 1..Len(s) : s[i] \in T
  OBVIOUS
<1>1. /\ n \in Nat
      /\ \A i \in R : Rank(s, S, i) \in 1..n
      /\ \A i, j \in R : i < j => Rank(s, S, i) < Rank(s, S, j)
  BY <1>0, RankOrder
<1>2. \A k \in 1..n : p[k] \in R /\ Rank(s, S, p[k]) = k
  BY <1>0, RankOnto
<1>3. e = [k \in 1..n |-> s[p[k]]]
  BY DEF Erased
<1>4. R \subseteq 1..Len(s) /\ \A i \in 1..Len(s) : i \in R <=> s[i] \notin S
  BY DEF Remaining
<1> HIDE DEF p, R, n, e
<1>5. \A k \in 1..n : s[p[k]] \in T
  BY <1>0, <1>2, <1>4
<1>6. e \in Seq(T) /\ Len(e) = n
  BY <1>1, <1>3, <1>5
<1>7. \A k \in 1..n : e[k] = s[p[k]] /\ e[k] \notin S
  BY <1>2, <1>3, <1>4
<1>8. \A k, l \in 1..n : k < l => p[k] < p[l]
  <2> SUFFICES ASSUME NEW k \in 1..n, NEW l \in 1..n, k < l PROVE p[k] < p[l]
    OBVIOUS
  <2>1. PICK i \in R, j \in R : i = p[k] /\ j = p[l] /\ Rank(s, S, i) = k /\ Rank(s, S, j) = l
    BY <1>2
  <2>2. i \in Nat /\ j \in Nat /\ ~(j < i) /\ i # j
    BY <2>1, <1>0, <1>1, <1>4
  <2> QED
    BY <2>1, <2>2
<1>9. p \in [1..n -> 1..Len(s)]
  BY <1>2, <1>4 DEF p
<1>10. Places(e, s, p)
  BY <1>6, <1>7, <1>8, <1>9 DEF Places
<1>11. \A i \in 1..Len(s) : s[i] \notin S => \E k \in 1..n : e[k] = s[i]
  <2> SUFFICES ASSUME NEW i \in 1..Len(s), s[i] \notin S PROVE \E k \in 1..n : e[k] = s[i]
    OBVIOUS
  <2>1. i \in R
    BY <1>4
  <2>2. PICK k \in 1..n : k = Rank(s, S, i)
    BY <2>1, <1>1
  <2>3. PICK j \in R : j = p[k] /\ Rank(s, S, j) = k
    BY <1>2
  <2>4. i \in Nat /\ j \in Nat
    BY <2>1, <1>0, <1>4
  <2>5. ~(i < j) /\ ~(j < i)
    BY <1>1, <2>1, <2>2, <2>3
  <2>6. i = j
    BY <2>4, <2>5
  <2> QED
    BY <2>3, <2>6, <1>7
<1> QED
  BY <1>1, <1>6, <1>7, <1>10, <1>11 DEF e

-----------------------------------------------------------------------------
(* What a queue holds *)

Holds(s, r) == \E i \in 1..Len(s) : s[i] = r

Distinct(s) == \A i, j \in 1..Len(s) : s[i] = s[j] => i = j

(* Range and Holds agree. *)
LEMMA HoldsRange ==
    ASSUME NEW T, NEW s \in Seq(T)
    PROVE  \A r : r \in Range(s) <=> Holds(s, r) /\ r \in T
<1>1. DOMAIN s = 1..Len(s) /\ \A i \in 1..Len(s) : s[i] \in T
  OBVIOUS
<1> QED
  BY <1>1 DEF Range, Holds

(* The empty sequence holds nothing. *)
LEMMA HoldsNone == Distinct(<<>>) /\ \A r : ~Holds(<<>>, r)
BY DEF Distinct, Holds

(* What a sequence holds after push_back *)
LEMMA HoldsAppend ==
    ASSUME NEW T, NEW s \in Seq(T), NEW x \in T
    PROVE  /\ \A r : Holds(Append(s, x), r) <=> Holds(s, r) \/ r = x
           /\ Distinct(s) /\ ~Holds(s, x) => Distinct(Append(s, x))
<1>1. PICK n \in Nat : n = Len(s)
  OBVIOUS
<1>2. /\ Len(Append(s, x)) = n + 1 /\ Append(s, x)[n + 1] = x
      /\ \A i \in 1..n : Append(s, x)[i] = s[i]
  BY <1>1, AppendFacts
<1> DEFINE t == Append(s, x)
<1>3. Len(t) = n + 1 /\ t[n + 1] = x /\ \A i \in 1..n : t[i] = s[i]
  BY <1>2
<1> HIDE DEF t
<1>4. \A i \in 1..(n + 1) : i \in 1..n \/ i = n + 1
  OBVIOUS
<1>5. 1..n \subseteq 1..(n + 1) /\ n + 1 \in 1..(n + 1)
  OBVIOUS
<1>6. \A r : Holds(t, r) <=> Holds(s, r) \/ r = x
  BY <1>1, <1>3, <1>4, <1>5 DEF Holds
<1>7. ASSUME Distinct(s), ~Holds(s, x) PROVE Distinct(t)
  <2> SUFFICES ASSUME NEW i \in 1..(n + 1), NEW j \in 1..(n + 1), t[i] = t[j] PROVE i = j
    BY <1>3 DEF Distinct
  <2>1. CASE i \in 1..n /\ j \in 1..n
    BY <2>1, <1>1, <1>3, <1>7 DEF Distinct
  <2>2. CASE i = n + 1 /\ j \in 1..n
    BY <2>2, <1>1, <1>3, <1>7 DEF Holds
  <2>3. CASE j = n + 1 /\ i \in 1..n
    BY <2>3, <1>1, <1>3, <1>7 DEF Holds
  <2> QED
    BY <2>1, <2>2, <2>3, <1>4
<1> QED
  BY <1>6, <1>7 DEF t

(* What a sequence holds after pop_front *)
LEMMA HoldsTail ==
    ASSUME NEW T, NEW s \in Seq(T), s # <<>>, Distinct(s)
    PROVE  /\ \A r : Holds(Tail(s), r) <=> Holds(s, r) /\ r # Head(s)
           /\ Distinct(Tail(s)) /\ Tail(s) \in Seq(T) /\ Head(s) \in T /\ Holds(s, Head(s))
<1>1. PICK n \in Nat \ {0} : n = Len(s)
  OBVIOUS
<1>2. Tail(s) \in Seq(T) /\ Head(s) \in T /\ Head(s) = s[1] /\ Len(Tail(s)) = n - 1
      /\ \A i \in 1..(n - 1) : Tail(s)[i] = s[i + 1]
  BY <1>1
<1> DEFINE t == Tail(s)
           h == Head(s)
<1>3. Len(t) = n - 1 /\ h = s[1] /\ \A i \in 1..(n - 1) : t[i] = s[i + 1]
  BY <1>2
<1> HIDE DEF t, h
<1>4. 1 \in 1..n /\ \A i \in 1..(n - 1) : i + 1 \in 1..n /\ i + 1 # 1
  BY <1>1
<1>5. Distinct(t)
  <2> SUFFICES ASSUME NEW i \in 1..(n - 1), NEW j \in 1..(n - 1), t[i] = t[j] PROVE i = j
    BY <1>3 DEF Distinct
  <2>1. i + 1 = j + 1
    BY <1>1, <1>3, <1>4 DEF Distinct
  <2> QED
    BY <2>1
<1>6. ASSUME NEW r PROVE Holds(t, r) <=> Holds(s, r) /\ r # h
  <2>1. ASSUME Holds(t, r) PROVE Holds(s, r) /\ r # h
    <3>1. PICK i \in 1..(n - 1) : s[i + 1] = r
      BY <2>1, <1>3 DEF Holds
    <3>2. i + 1 \in 1..n /\ i + 1 # 1 /\ 1 \in 1..n
      BY <1>4
    <3> QED
      BY <3>1, <3>2, <1>1, <1>3 DEF Holds, Distinct
  <2>2. ASSUME Holds(s, r), r # h PROVE Holds(t, r)
    <3>1. PICK i \in 1..n : s[i] = r /\ i # 1
      BY <2>2, <1>1, <1>3 DEF Holds
    <3>2. i - 1 \in 1..(n - 1) /\ (i - 1) + 1 = i
      BY <3>1
    <3>3. t[i - 1] = r
      BY <3>1, <3>2, <1>3
    <3> QED
      BY <3>2, <3>3, <1>3 DEF Holds
  <2> QED
    BY <2>1, <2>2
<1>7. Holds(s, h)
  BY <1>1, <1>3, <1>4 DEF Holds
<1> QED
  BY <1>2, <1>5, <1>6, <1>7 DEF t, h

(* What a sequence holds after the elements of S are erased *)
LEMMA HoldsErased ==
    ASSUME NEW T, NEW s \in Seq(T), NEW S
    PROVE  /\ Erased(s, S) \in Seq(T)
           /\ \A r : Holds(Erased(s, S), r) <=> Holds(s, r) /\ r \notin S
           /\ Distinct(s) => Distinct(Erased(s, S))
<1> DEFINE e == Erased(s, S)
<1>1. /\ e \in Seq(T) /\ Len(e) \in Nat
      /\ \E pos : Places(e, s, pos)
      /\ \A k \in 1..Len(e) : e[k] \notin S
      /\ \A i \in 1..Len(s) : s[i] \notin S => \E k \in 1..Len(e) : e[k] = s[i]
  BY ErasedPlaces
<1> HIDE DEF e
<1>2. PICK pos : Places(e, s, pos)
  BY <1>1
<1>3. ASSUME NEW r PROVE Holds(e, r) <=> Holds(s, r) /\ r \notin S
  <2>1. ASSUME Holds(e, r) PROVE Holds(s, r) /\ r \notin S
    <3>1. PICK k \in 1..Len(e) : e[k] = r
      BY <2>1 DEF Holds
    <3>2. pos[k] \in 1..Len(s) /\ e[k] = s[pos[k]]
      BY <1>2 DEF Places
    <3> QED
      BY <3>1, <3>2, <1>1 DEF Holds
  <2>2. ASSUME Holds(s, r), r \notin S PROVE Holds(e, r)
    <3>1. PICK i \in 1..Len(s) : s[i] = r
      BY <2>2 DEF Holds
    <3> QED
      BY <3>1, <2>2, <1>1 DEF Holds
  <2> QED
    BY <2>1, <2>2
<1>4. ASSUME Distinct(s) PROVE Distinct(e)
  <2> SUFFICES ASSUME NEW i \in 1..Len(e), NEW j \in 1..Len(e), e[i] = e[j] PROVE i = j
    BY DEF Distinct
  <2>1. PICK a \in 1..Len(s), b \in 1..Len(s) : a = pos[i] /\ b = pos[j] /\ e[i] = s[a] /\ e[j] = s[b]
    BY <1>2 DEF Places
  <2>2. a = b
    BY <2>1, <1>4 DEF Distinct
  <2>3. (i < j => a < b) /\ (j < i => b < a)
    BY <1>2, <2>1 DEF Places
  <2>4. Len(e) \in Nat /\ Len(s) \in Nat
    BY <1>1
  <2> QED
    BY <2>2, <2>3, <2>4
<1> QED
  BY <1>1, <1>3, <1>4 DEF e

(* What two sequences hold together *)
LEMMA HoldsConcat ==
    ASSUME NEW T, NEW s \in Seq(T), NEW t \in Seq(T)
    PROVE  /\ s \o t \in Seq(T)
           /\ \A r : Holds(s \o t, r) <=> Holds(s, r) \/ Holds(t, r)
           /\ Distinct(s) /\ Distinct(t) /\ (\A r : ~(Holds(s, r) /\ Holds(t, r))) => Distinct(s \o t)
<1>1. PICK n \in Nat, m \in Nat : n = Len(s) /\ m = Len(t)
  OBVIOUS
<1> DEFINE u == s \o t
<1>2. u \in Seq(T) /\ Len(u) = n + m /\ \A i \in 1..(n + m) : u[i] = IF i <= n THEN s[i] ELSE t[i - n]
  <2>1. /\ u \in Seq(T) /\ Len(u) = Len(s) + Len(t)
        /\ \A i \in 1..(Len(s) + Len(t)) : u[i] = IF i <= Len(s) THEN s[i] ELSE t[i - Len(s)]
    BY ConcatFacts
  <2> QED
    BY <2>1, <1>1
<1> HIDE DEF u
<1>3. \A i \in 1..n : i \in 1..(n + m) /\ u[i] = s[i]
  BY <1>2
<1>4. \A i \in 1..m : i + n \in 1..(n + m) /\ u[i + n] = t[i]
  <2> TAKE i \in 1..m
  <2>1. i + n \in 1..(n + m) /\ ~(i + n <= n) /\ (i + n) - n = i
    OBVIOUS
  <2> QED
    BY <2>1, <1>2
<1>5. \A i \in 1..(n + m) : i \in 1..n \/ \E k \in 1..m : i = k + n
  <2> TAKE i \in 1..(n + m)
  <2>1. i \in 1..n \/ (i - n \in 1..m /\ i = (i - n) + n)
    OBVIOUS
  <2> QED
    BY <2>1
<1>6. ASSUME NEW r PROVE Holds(u, r) <=> Holds(s, r) \/ Holds(t, r)
  <2>1. ASSUME Holds(u, r) PROVE Holds(s, r) \/ Holds(t, r)
    <3>1. PICK i \in 1..(n + m) : u[i] = r
      BY <2>1, <1>2 DEF Holds
    <3>2. CASE i \in 1..n
      BY <3>1, <3>2, <1>1, <1>3 DEF Holds
    <3>3. ASSUME NEW k \in 1..m, i = k + n PROVE Holds(t, r)
      BY <3>1, <3>3, <1>1, <1>4 DEF Holds
    <3> QED
      BY <3>2, <3>3, <1>5
  <2>2. ASSUME Holds(s, r) PROVE Holds(u, r)
    BY <2>2, <1>1, <1>2, <1>3 DEF Holds
  <2>3. ASSUME Holds(t, r) PROVE Holds(u, r)
    <3>1. PICK k \in 1..m : t[k] = r
      BY <2>3, <1>1 DEF Holds
    <3>2. k + n \in 1..(n + m) /\ u[k + n] = r
      BY <3>1, <1>4
    <3> QED
      BY <3>2, <1>2 DEF Holds
  <2> QED
    BY <2>1, <2>2, <2>3
<1>7. ASSUME Distinct(s), Distinct(t), \A r : ~(Holds(s, r) /\ Holds(t, r)) PROVE Distinct(u)
  <2> SUFFICES ASSUME NEW i \in 1..(n + m), NEW j \in 1..(n + m), u[i] = u[j] PROVE i = j
    BY <1>2 DEF Distinct
  <2>1. CASE i \in 1..n /\ j \in 1..n
    BY <2>1, <1>1, <1>3, <1>7 DEF Distinct
  <2>2. CASE i \in 1..n /\ \E k \in 1..m : j = k + n
    <3>1. PICK k \in 1..m : j = k + n
      BY <2>2
    <3>2. Holds(s, u[i]) /\ Holds(t, u[j])
      BY <2>2, <3>1, <1>1, <1>3, <1>4 DEF Holds
    <3> QED
      BY <3>2, <1>7
  <2>3. CASE j \in 1..n /\ \E k \in 1..m : i = k + n
    <3>1. PICK k \in 1..m : i = k + n
      BY <2>3
    <3>2. Holds(s, u[j]) /\ Holds(t, u[i])
      BY <2>3, <3>1, <1>1, <1>3, <1>4 DEF Holds
    <3> QED
      BY <3>2, <1>7
  <2>4. CASE (\E k \in 1..m : i = k + n) /\ (\E k \in 1..m : j = k + n)
    <3>1. PICK k \in 1..m, l \in 1..m : i = k + n /\ j = l + n
      BY <2>4
    <3>2. t[k] = t[l]
      BY <3>1, <1>4
    <3>3. k = l
      BY <3>2, <1>1, <1>7 DEF Distinct
    <3> QED
      BY <3>1, <3>3
  <2> QED
    BY <2>1, <2>2, <2>3, <2>4, <1>5
<1> QED
  BY <1>2, <1>6, <1>7 DEF u
=============================================================================
