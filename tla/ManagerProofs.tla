---------------------------- MODULE ManagerProofs ---------------------------
(***************************************************************************)
(* Proofs about the managers of a server.  TimerManager (Timers): the map  *)
(* of timers is in order, holds each timer once and at its trigger, and    *)
(* the iterator of TickTimers is where the loop needs it.  UserManager     *)
(* (Clients): what it counts is right, and limits on it are kept.          *)
(***************************************************************************)
EXTENDS Timers, Clients, ErasingProofs

(* The provers of every step, in their order *)
USE ZenonT(3), SMTT(20)

(* The timer manager *)

TimerEntry == [trigger : Nat, timer : Timer]

TimerFields ==
    /\ timers \in Seq(TimerEntry)
    /\ trigger \in [Timer -> Nat] /\ secs \in [Timer -> Seconds \cup {0}] /\ repeat \in [Timer -> BOOLEAN]
    /\ exists \subseteq Timer /\ time \in 1 .. MaxTime
    /\ next \in Timer \cup {"end"}

InOrder(map) == \A i, j \in 1..Len(map) : i < j => map[i].trigger <= map[j].trigger

MapExact ==
    /\ InOrder(timers) /\ Distinct(timers)
    /\ \A e : Holds(timers, e) => e.timer \in exists /\ e.trigger = trigger[e.timer]

(* A timer that repeats is pending within its interval, during a tick too. *)
RepeatsPend ==
    \A t \in exists : /\ secs[t] \in Seconds
                      /\ repeat[t] => Holds(timers, Entry(t, trigger[t])) /\ trigger[t] <= time + secs[t]

AllLater == \A e : Holds(timers, e) => e.trigger > time

(* Between ticks no timer is due.  In a tick the iterator is at the first *)
(* entry, or no entry is due any more.                                    *)
IteratorAtFirst ==
    /\ ~ticking => AllLater
    /\ dangling => ticking
    /\ ticking /\ ~dangling =>
        /\ next # "end" => Holds(timers, Entry(next, trigger[next]))
        /\ AllLater \/ (timers # <<>> /\ Head(timers).timer = next)

(* The inductive invariant *)
TimerInv == TimerFields /\ MapExact /\ RepeatsPend /\ IteratorAtFirst

(* The first element that is not erased becomes the head. *)
LEMMA FirstErased ==
    ASSUME NEW T, NEW s \in Seq(T), NEW S, Distinct(s), NEW k \in 1..Len(s), s[k] \notin S,
           \A i \in 1..Len(s) : i < k => s[i] \in S
    PROVE  Erased(s, S) # <<>> /\ Head(Erased(s, S)) = s[k]
<1> DEFINE e == Erased(s, S)
<1>1. /\ e \in Seq(T) /\ Len(e) \in Nat
      /\ \E pos : Places(e, s, pos)
      /\ \A l \in 1..Len(e) : e[l] \notin S
      /\ \E l \in 1..Len(e) : e[l] = s[k]
  BY ErasedPlaces
<1> HIDE DEF e
<1>2. PICK pos : Places(e, s, pos)
  BY <1>1
<1>3. PICK l \in 1..Len(e) : e[l] = s[k]
  BY <1>1
<1>4. PICK n \in Nat : n = Len(e)
  BY <1>1
<1>5. 1 \in 1..n /\ l \in 1..n
  BY <1>3, <1>4
<1>6. PICK p1 \in 1..Len(s), pl \in 1..Len(s) : p1 = pos[1] /\ pl = pos[l]
  BY <1>2, <1>4, <1>5 DEF Places
<1>7. e[1] = s[p1] /\ e[l] = s[pl] /\ (1 < l => p1 < pl)
  BY <1>2, <1>4, <1>5, <1>6 DEF Places
<1>8. pl = k
  BY <1>3, <1>6, <1>7 DEF Distinct
<1>9. s[p1] \notin S
  BY <1>1, <1>4, <1>5, <1>7
<1>10. ~(p1 < k)
  BY <1>6, <1>9
<1>11. Len(s) \in Nat
  OBVIOUS
<1>12. l = 1
  BY <1>5, <1>6, <1>7, <1>8, <1>10, <1>11
<1>13. e # <<>> /\ Head(e) = e[1]
  BY <1>1, <1>3
<1> QED
  BY <1>3, <1>12, <1>13 DEF e

(* Erasing keeps the order of the triggers. *)
LEMMA OrderErased ==
    ASSUME NEW s \in Seq(TimerEntry), InOrder(s), NEW S
    PROVE  InOrder(Erased(s, S))
<1> DEFINE e == Erased(s, S)
<1>1. PICK pos : Places(e, s, pos)
  BY ErasedPlaces
<1> HIDE DEF e
<1> SUFFICES ASSUME NEW i \in 1..Len(e), NEW j \in 1..Len(e), i < j
             PROVE  e[i].trigger <= e[j].trigger
  BY DEF InOrder, e
<1>2. PICK a \in 1..Len(s), b \in 1..Len(s) : a = pos[i] /\ b = pos[j]
  BY <1>1 DEF Places
<1>3. e[i] = s[a] /\ e[j] = s[b] /\ a < b
  BY <1>1, <1>2 DEF Places
<1> QED
  BY <1>3 DEF InOrder

(* So does putting two maps together of which the first ends earlier. *)
LEMMA OrderConcat ==
    ASSUME NEW s \in Seq(TimerEntry), NEW t \in Seq(TimerEntry), InOrder(s), InOrder(t),
           \A e, f : Holds(s, e) /\ Holds(t, f) => e.trigger <= f.trigger
    PROVE  InOrder(s \o t)
<1>1. PICK n \in Nat, m \in Nat : n = Len(s) /\ m = Len(t)
  OBVIOUS
<1> DEFINE u == s \o t
<1>2. Len(u) = n + m /\ \A i \in 1..(n + m) : u[i] = IF i <= n THEN s[i] ELSE t[i - n]
  BY <1>1, ConcatFacts
<1> HIDE DEF u
<1> SUFFICES ASSUME NEW i \in 1..(n + m), NEW j \in 1..(n + m), i < j
             PROVE  u[i].trigger <= u[j].trigger
  BY <1>2 DEF InOrder, u
<1>3. CASE j <= n
  <2>1. i \in 1..n /\ j \in 1..n
    BY <1>3
  <2>2. u[i] = s[i] /\ u[j] = s[j]
    BY <1>2, <2>1
  <2> QED
    BY <1>1, <2>1, <2>2 DEF InOrder
<1>4. CASE i > n
  <2>1. PICK a \in 1..m, b \in 1..m : a = i - n /\ b = j - n /\ a < b
    BY <1>4
  <2>2. u[i] = t[a] /\ u[j] = t[b]
    BY <1>2, <1>4, <2>1
  <2> QED
    BY <1>1, <2>1, <2>2 DEF InOrder
<1>5. CASE i <= n /\ j > n
  <2>1. PICK b \in 1..m : b = j - n
    BY <1>5
  <2>2. i \in 1..n /\ u[i] = s[i] /\ u[j] = t[b]
    BY <1>2, <1>5, <2>1
  <2>3. Holds(s, s[i]) /\ Holds(t, t[b])
    BY <1>1, <2>1, <2>2 DEF Holds
  <2> QED
    BY <2>2, <2>3
<1> QED
  BY <1>3, <1>4, <1>5

(* An entry with the latest trigger goes to the end. *)
LEMMA OrderAppend ==
    ASSUME NEW s \in Seq(TimerEntry), NEW x \in TimerEntry, InOrder(s),
           \A e : Holds(s, e) => e.trigger <= x.trigger
    PROVE  InOrder(Append(s, x))
<1>1. PICK n \in Nat : n = Len(s)
  OBVIOUS
<1>2. /\ Len(Append(s, x)) = n + 1 /\ Append(s, x)[n + 1] = x
      /\ \A i \in 1..n : Append(s, x)[i] = s[i]
  BY <1>1, AppendFacts
<1> DEFINE u == Append(s, x)
<1> HIDE DEF u
<1> SUFFICES ASSUME NEW i \in 1..(n + 1), NEW j \in 1..(n + 1), i < j
             PROVE  u[i].trigger <= u[j].trigger
  BY <1>2 DEF InOrder, u
<1>3. i \in 1..n /\ u[i] = s[i]
  BY <1>2 DEF u
<1>4. CASE j = n + 1
  <2>1. Holds(s, s[i]) /\ u[j] = x
    BY <1>1, <1>2, <1>3, <1>4 DEF Holds, u
  <2> QED
    BY <1>3, <2>1
<1>5. CASE j # n + 1
  <2>1. j \in 1..n /\ u[j] = s[j]
    BY <1>2, <1>5 DEF u
  <2> QED
    BY <1>1, <1>3, <2>1 DEF InOrder
<1> QED
  BY <1>4, <1>5

(* What an iterator that the timer nx is at may expect of the map *)
FirstOrLater(map, nx) ==
    \/ \A e : Holds(map, e) => e.trigger > time
    \/ map # <<>> /\ Head(map).timer = nx

(* AddTimer puts the entry where the order stays, after the head unless all *)
(* entries are later.                                                       *)
LEMMA AddedMap ==
    ASSUME NEW map \in Seq(TimerEntry), InOrder(map), Distinct(map), NEW t \in Timer, NEW at \in Nat,
           \A e : Holds(map, e) => e.timer # t, time \in Nat
    PROVE  /\ Added(map, t, at) \in Seq(TimerEntry) /\ InOrder(Added(map, t, at)) /\ Distinct(Added(map, t, at))
           /\ \A e : Holds(Added(map, t, at), e) <=> Holds(map, e) \/ e = Entry(t, at)
           /\ \A nx : at > time /\ FirstOrLater(map, nx) => FirstOrLater(Added(map, t, at), nx)
<1> DEFINE later == {e \in Range(map) : e.trigger > at}
           early == Range(map) \ later
           a == Erased(map, later)
           b == Erased(map, early)
           x == Entry(t, at)
           ax == Append(a, x)
           u == ax \o b
<1>1. Added(map, t, at) = u
  BY DEF Added
<1>2. \A e : Holds(map, e) => e \in TimerEntry /\ e.trigger \in Nat
  <2>1. \A e : Holds(map, e) => e \in TimerEntry
    BY DEF Holds
  <2> QED
    BY <2>1 DEF TimerEntry
<1>3. \A e : e \in Range(map) <=> Holds(map, e) /\ e \in TimerEntry
  BY HoldsRange
<1>4. \A e : Holds(map, e) => (e \in later <=> e.trigger > at) /\ (e \in early <=> e.trigger <= at)
  BY <1>2, <1>3
<1>5. x \in TimerEntry /\ x.trigger = at /\ x.timer = t
  BY DEF Entry, TimerEntry
<1> HIDE DEF later, early, x
<1>6. /\ a \in Seq(TimerEntry) /\ Distinct(a) /\ InOrder(a)
      /\ \A e : Holds(a, e) <=> Holds(map, e) /\ e \notin later
  BY HoldsErased, OrderErased
<1>7. /\ b \in Seq(TimerEntry) /\ Distinct(b) /\ InOrder(b)
      /\ \A e : Holds(b, e) <=> Holds(map, e) /\ e \notin early
  BY HoldsErased, OrderErased
<1>8. \A e : Holds(a, e) <=> Holds(map, e) /\ e.trigger <= at
  BY <1>2, <1>4, <1>6
<1>9. \A e : Holds(b, e) <=> Holds(map, e) /\ e.trigger > at
  BY <1>2, <1>4, <1>7
<1>10. ~Holds(a, x) /\ ~Holds(b, x)
  BY <1>5, <1>8, <1>9
<1>11. /\ ax \in Seq(TimerEntry) /\ Distinct(ax) /\ InOrder(ax)
       /\ \A e : Holds(ax, e) <=> Holds(a, e) \/ e = x
  <2>1. \A e : Holds(a, e) => e.trigger <= x.trigger
    BY <1>5, <1>8
  <2>2. InOrder(ax)
    BY <1>5, <1>6, <2>1, OrderAppend
  <2> QED
    BY <1>5, <1>6, <1>10, <2>2, HoldsAppend
<1>12. /\ u \in Seq(TimerEntry) /\ Distinct(u) /\ InOrder(u)
       /\ \A e : Holds(u, e) <=> Holds(ax, e) \/ Holds(b, e)
  <2> HIDE DEF ax, b, a
  <2>1. \A e : ~(Holds(ax, e) /\ Holds(b, e))
    BY <1>2, <1>8, <1>9, <1>10, <1>11
  <2>2. \A e, f : Holds(ax, e) /\ Holds(b, f) => e.trigger <= f.trigger
    BY <1>2, <1>5, <1>8, <1>9, <1>11
  <2>3. InOrder(u)
    BY <1>7, <1>11, <2>2, OrderConcat
  <2> QED
    BY <1>7, <1>11, <2>1, <2>3, HoldsConcat
<1>13. \A e : Holds(u, e) <=> Holds(map, e) \/ e = x
  BY <1>2, <1>8, <1>9, <1>11, <1>12
<1>14. ASSUME map # <<>>, Head(map).trigger <= at
       PROVE  u # <<>> /\ Head(u) = Head(map)
  <2>1. 1 \in 1..Len(map) /\ Head(map) = map[1] /\ Holds(map, map[1])
    BY <1>14 DEF Holds
  <2>2. map[1] \notin later
    BY <1>2, <1>4, <1>14, <2>1
  <2>3. \A i \in 1..Len(map) : i < 1 => map[i] \in later
    OBVIOUS
  <2>4. a # <<>> /\ Head(a) = map[1]
    BY <2>1, <2>2, <2>3, FirstErased
  <2> HIDE DEF a, b
  <2>5. ax # <<>> /\ Head(ax) = Head(a)
    <3>1. PICK n \in Nat \ {0} : n = Len(a)
      BY <1>6, <2>4
    <3>2. Len(ax) = n + 1 /\ ax[1] = a[1]
      BY <1>5, <1>6, <3>1, AppendFacts
    <3> QED
      BY <1>6, <1>11, <2>4, <3>1, <3>2
  <2> HIDE DEF ax
  <2>6. u # <<>> /\ Head(u) = Head(ax)
    <3>1. PICK n \in Nat \ {0}, m \in Nat : n = Len(ax) /\ m = Len(b)
      BY <1>7, <1>11, <2>5
    <3>2. 1 \in 1..(n + m) /\ 1 <= n
      OBVIOUS
    <3>3. Len(u) = n + m /\ u[1] = ax[1]
      BY <1>7, <1>11, <3>1, <3>2, ConcatFacts
    <3>4. u # <<>>
      BY <3>1, <3>3
    <3> QED
      BY <1>11, <1>12, <2>5, <3>3, <3>4
  <2> QED
    BY <2>1, <2>4, <2>5, <2>6
<1> HIDE DEF u
<1>15. ASSUME NEW nx, at > time, FirstOrLater(map, nx)
       PROVE  FirstOrLater(u, nx)
  <2>1. CASE \A e : Holds(map, e) => e.trigger > time
    BY <1>5, <1>13, <1>15, <2>1 DEF FirstOrLater
  <2>2. CASE map # <<>> /\ Head(map).timer = nx /\ Head(map).trigger <= at
    BY <1>14, <2>2 DEF FirstOrLater
  <2>3. CASE map # <<>> /\ ~(Head(map).trigger <= at)
    <3>0. map[1] = Head(map) /\ Holds(map, map[1])
      BY <2>3 DEF Holds
    <3>1. PICK h \in TimerEntry : h = map[1] /\ h = Head(map) /\ h.trigger \in Nat
      BY <1>2, <3>0
    <3>2. ASSUME NEW e, Holds(map, e) PROVE e.trigger > time
      <4>1. PICK i \in 1..Len(map) : e = map[i]
        BY <3>2 DEF Holds
      <4>2. h.trigger <= e.trigger
        <5>1. CASE i = 1
          BY <3>1, <4>1, <5>1
        <5>2. CASE i # 1
          <6>1. 1 \in 1..Len(map) /\ 1 < i
            BY <5>2
          <6> QED
            BY <3>1, <4>1, <6>1 DEF InOrder
        <5> QED
          BY <5>1, <5>2
      <4>3. e.trigger \in Nat
        BY <1>2, <3>2
      <4> QED
        BY <1>15, <2>3, <3>1, <4>2, <4>3
    <3> QED
      BY <1>5, <1>13, <1>15, <3>2 DEF FirstOrLater
  <2> QED
    BY <1>15, <2>1, <2>2, <2>3 DEF FirstOrLater
<1> QED
  BY <1>1, <1>12, <1>13, <1>15 DEF x

(* DelTimer, for entries that the map may hold *)
LEMMA DeletedMap ==
    ASSUME NEW map \in Seq(TimerEntry), InOrder(map), Distinct(map), NEW D \in SUBSET Timer,
           \A e : Holds(map, e) => e.trigger = trigger[e.timer]
    PROVE  /\ DelTimers(map, D) \in Seq(TimerEntry) /\ InOrder(DelTimers(map, D)) /\ Distinct(DelTimers(map, D))
           /\ \A e : Holds(DelTimers(map, D), e) <=> Holds(map, e) /\ e.timer \notin D
           /\ map # <<>> /\ Head(map).timer \notin D =>
                DelTimers(map, D) # <<>> /\ Head(DelTimers(map, D)) = Head(map)
<1> DEFINE S == {Entry(t, trigger[t]) : t \in D}
           u == Erased(map, S)
<1>1. DelTimers(map, D) = u
  BY DEF DelTimers
<1>2. /\ u \in Seq(TimerEntry) /\ InOrder(u) /\ Distinct(u)
      /\ \A e : Holds(u, e) <=> Holds(map, e) /\ e \notin S
  BY HoldsErased, OrderErased
<1>3. ASSUME NEW e, Holds(map, e) PROVE e \in S <=> e.timer \in D
  <2>1. e \in TimerEntry /\ e.trigger = trigger[e.timer]
    BY <1>3 DEF Holds
  <2>2. e = Entry(e.timer, trigger[e.timer])
    BY <2>1 DEF TimerEntry, Entry
  <2>3. \A t : Entry(t, trigger[t]).timer = t
    BY DEF Entry
  <2> QED
    BY <2>2, <2>3
<1>4. ASSUME map # <<>>, Head(map).timer \notin D
      PROVE  u # <<>> /\ Head(u) = Head(map)
  <2>1. 1 \in 1..Len(map) /\ Head(map) = map[1] /\ Holds(map, map[1])
    BY <1>4 DEF Holds
  <2>2. map[1] \notin S
    BY <1>3, <1>4, <2>1
  <2>3. \A i \in 1..Len(map) : i < 1 => map[i] \in S
    OBVIOUS
  <2> HIDE DEF S
  <2> QED
    BY <2>1, <2>2, <2>3, FirstErased
<1> HIDE DEF u, S
<1> QED
  BY <1>1, <1>2, <1>3, <1>4

(* What the map holds, from the invariant *)
LEMMA TimerFacts ==
    ASSUME TimerInv
    PROVE  /\ timers \in Seq(TimerEntry) /\ InOrder(timers) /\ Distinct(timers)
           /\ \A e : Holds(timers, e) => /\ e \in TimerEntry /\ e.timer \in exists /\ e.trigger = trigger[e.timer]
                                         /\ e = Entry(e.timer, trigger[e.timer])
           /\ time \in Nat /\ \A t \in Timer : trigger[t] \in Nat
<1>1. timers \in Seq(TimerEntry) /\ time \in Nat /\ \A t \in Timer : trigger[t] \in Nat
  BY TimerAssumption DEF TimerInv, TimerFields
<1>2. \A e : Holds(timers, e) => e \in TimerEntry
  BY <1>1 DEF Holds
<1>3. \A e : Holds(timers, e) => e.timer \in exists /\ e.trigger = trigger[e.timer]
  BY DEF TimerInv, MapExact
<1>4. \A e \in TimerEntry : e = Entry(e.timer, e.trigger)
  BY DEF TimerEntry, Entry
<1> QED
  BY <1>1, <1>2, <1>3, <1>4 DEF TimerInv, MapExact

(* The fields of an entry *)
LEMMA EntryFields == \A t, at : Entry(t, at).timer = t /\ Entry(t, at).trigger = at
BY DEF Entry

(* AddTimer puts a new timer in its place. *)
LEMMA CreateTimerKeeps ==
    ASSUME TimerInv, NEW t \in Timer, NEW s \in Seconds, NEW r \in BOOLEAN, CreateTimer(t, s, r)
    PROVE  TimerInv'
<1>1. /\ ~ticking /\ t \notin exists /\ exists' = exists \cup {t}
      /\ secs' = [secs EXCEPT ![t] = s] /\ repeat' = [repeat EXCEPT ![t] = r]
      /\ trigger' = [trigger EXCEPT ![t] = time + s] /\ timers' = Added(timers, t, time + s)
      /\ UNCHANGED <<time, ticking, next, dangling>>
  BY DEF CreateTimer
<1>2. PICK at \in Nat : at = time + s /\ at > time
  BY TimerFacts, TimerAssumption
<1>3. \A e : Holds(timers, e) => e.timer # t
  BY <1>1, TimerFacts
<1>4. /\ timers' \in Seq(TimerEntry) /\ InOrder(timers') /\ Distinct(timers')
      /\ \A e : Holds(timers', e) <=> Holds(timers, e) \/ e = Entry(t, at)
  BY <1>1, <1>2, <1>3, AddedMap, TimerFacts
<1>5. TimerFields'
  BY <1>1, <1>2, <1>4 DEF TimerInv, TimerFields
<1>6. \A x \in Timer : /\ trigger'[x] = IF x = t THEN at ELSE trigger[x]
                       /\ secs'[x] = IF x = t THEN s ELSE secs[x]
                       /\ repeat'[x] = IF x = t THEN r ELSE repeat[x]
  BY <1>1, <1>2 DEF TimerInv, TimerFields
<1>7. exists \subseteq Timer
  BY DEF TimerInv, TimerFields
<1>8. \A e : Holds(timers', e) => e.timer \in exists' /\ e.trigger = trigger'[e.timer]
  BY <1>1, <1>3, <1>4, <1>6, <1>7, TimerFacts, EntryFields
<1>9. MapExact'
  BY <1>4, <1>8 DEF MapExact
<1>10. RepeatsPend'
  <2> SUFFICES ASSUME NEW x \in exists'
               PROVE  /\ secs'[x] \in Seconds
                      /\ repeat'[x] => Holds(timers', Entry(x, trigger'[x])) /\ trigger'[x] <= time' + secs'[x]
    BY DEF RepeatsPend
  <2>1. CASE x = t
    BY <1>1, <1>2, <1>4, <1>6, <2>1, TimerFacts
  <2>2. CASE x # t
    <3>1. x \in exists /\ x \in Timer
      BY <1>1, <1>7, <2>2
    <3> QED
      BY <1>1, <1>4, <1>6, <2>2, <3>1 DEF TimerInv, RepeatsPend
  <2> QED
    BY <2>1, <2>2
<1>11. IteratorAtFirst'
  <2>1. AllLater'
    BY <1>1, <1>2, <1>4, EntryFields DEF TimerInv, IteratorAtFirst, AllLater
  <2> QED
    BY <1>1, <2>1 DEF TimerInv, IteratorAtFirst
<1> QED
  BY <1>5, <1>9, <1>10, <1>11 DEF TimerInv

(* SetInterval moves a timer to its new place. *)
LEMMA SetIntervalKeeps ==
    ASSUME TimerInv, NEW t \in Timer, NEW s \in Seconds, SetInterval(t, s)
    PROVE  TimerInv'
<1> DEFINE m == DelTimers(timers, {t})
<1>1. /\ ~ticking /\ t \in exists
      /\ secs' = [secs EXCEPT ![t] = s]
      /\ trigger' = [trigger EXCEPT ![t] = time + s] /\ timers' = Added(m, t, time + s)
      /\ UNCHANGED <<repeat, exists, time, ticking, next, dangling>>
  BY DEF SetInterval
<1>2. PICK at \in Nat : at = time + s /\ at > time
  BY TimerFacts, TimerAssumption
<1>3. /\ m \in Seq(TimerEntry) /\ InOrder(m) /\ Distinct(m)
      /\ \A e : Holds(m, e) <=> Holds(timers, e) /\ e.timer # t
  <2>1. {t} \in SUBSET Timer
    OBVIOUS
  <2>2. /\ m \in Seq(TimerEntry) /\ InOrder(m) /\ Distinct(m)
        /\ \A e : Holds(m, e) <=> Holds(timers, e) /\ e.timer \notin {t}
    BY <2>1, TimerFacts, DeletedMap
  <2> QED
    BY <2>2
<1> HIDE DEF m
<1>4. /\ timers' \in Seq(TimerEntry) /\ InOrder(timers') /\ Distinct(timers')
      /\ \A e : Holds(timers', e) <=> Holds(m, e) \/ e = Entry(t, at)
  BY <1>1, <1>2, <1>3, AddedMap, TimerFacts
<1>5. TimerFields'
  BY <1>1, <1>2, <1>4 DEF TimerInv, TimerFields
<1>6. \A x \in Timer : /\ trigger'[x] = IF x = t THEN at ELSE trigger[x]
                       /\ secs'[x] = IF x = t THEN s ELSE secs[x]
  BY <1>1, <1>2 DEF TimerInv, TimerFields
<1>7. exists \subseteq Timer
  BY DEF TimerInv, TimerFields
<1>8. \A e : Holds(timers', e) => e.timer \in exists' /\ e.trigger = trigger'[e.timer]
  BY <1>1, <1>3, <1>4, <1>6, <1>7, TimerFacts, EntryFields
<1>9. MapExact'
  BY <1>4, <1>8 DEF MapExact
<1>10. RepeatsPend'
  <2> SUFFICES ASSUME NEW x \in exists'
               PROVE  /\ secs'[x] \in Seconds
                      /\ repeat'[x] => Holds(timers', Entry(x, trigger'[x])) /\ trigger'[x] <= time' + secs'[x]
    BY DEF RepeatsPend
  <2>1. CASE x = t
    BY <1>1, <1>2, <1>4, <1>6, <2>1, TimerFacts
  <2>2. CASE x # t
    <3>1. x \in exists /\ x \in Timer
      BY <1>1, <1>7, <2>2
    <3> QED
      BY <1>1, <1>3, <1>4, <1>6, <2>2, <3>1, EntryFields DEF TimerInv, RepeatsPend
  <2> QED
    BY <2>1, <2>2
<1>11. IteratorAtFirst'
  <2>1. AllLater'
    BY <1>1, <1>2, <1>3, <1>4, EntryFields DEF TimerInv, IteratorAtFirst, AllLater
  <2> QED
    BY <1>1, <2>1 DEF TimerInv, IteratorAtFirst
<1> QED
  BY <1>5, <1>9, <1>10, <1>11 DEF TimerInv

(* ~Timer takes the timer out of the map. *)
LEMMA DestroyTimerKeeps ==
    ASSUME TimerInv, NEW t \in Timer, DestroyTimer(t)
    PROVE  TimerInv'
<1>1. /\ ~ticking /\ t \in exists /\ exists' = exists \ {t} /\ timers' = DelTimers(timers, {t})
      /\ trigger' = NoTimers(trigger, {t}, 0) /\ secs' = NoTimers(secs, {t}, 0)
      /\ repeat' = NoTimers(repeat, {t}, FALSE) /\ UNCHANGED <<time, ticking, next, dangling>>
  BY DEF DestroyTimer
<1>2. /\ timers' \in Seq(TimerEntry) /\ InOrder(timers') /\ Distinct(timers')
      /\ \A e : Holds(timers', e) <=> Holds(timers, e) /\ e.timer # t
  <2>1. {t} \in SUBSET Timer
    OBVIOUS
  <2>2. /\ timers' \in Seq(TimerEntry) /\ InOrder(timers') /\ Distinct(timers')
        /\ \A e : Holds(timers', e) <=> Holds(timers, e) /\ e.timer \notin {t}
    BY <1>1, <2>1, TimerFacts, DeletedMap
  <2> QED
    BY <2>2
<1>3. \A x \in Timer : /\ trigger'[x] = IF x = t THEN 0 ELSE trigger[x]
                       /\ secs'[x] = IF x = t THEN 0 ELSE secs[x]
                       /\ repeat'[x] = IF x = t THEN FALSE ELSE repeat[x]
  BY <1>1 DEF NoTimers
<1>4. /\ trigger' \in [Timer -> Nat] /\ secs' \in [Timer -> Seconds \cup {0}] /\ repeat' \in [Timer -> BOOLEAN]
  BY <1>1 DEF NoTimers, TimerInv, TimerFields
<1>5. TimerFields'
  BY <1>1, <1>2, <1>4 DEF TimerInv, TimerFields
<1>6. exists \subseteq Timer
  BY DEF TimerInv, TimerFields
<1>7. \A e : Holds(timers', e) => e.timer \in exists' /\ e.trigger = trigger'[e.timer]
  BY <1>1, <1>2, <1>3, <1>6, TimerFacts
<1>8. MapExact'
  BY <1>2, <1>7 DEF MapExact
<1>9. RepeatsPend'
  <2> SUFFICES ASSUME NEW x \in exists'
               PROVE  /\ secs'[x] \in Seconds
                      /\ repeat'[x] => Holds(timers', Entry(x, trigger'[x])) /\ trigger'[x] <= time' + secs'[x]
    BY DEF RepeatsPend
  <2>1. x \in exists /\ x \in Timer /\ x # t
    BY <1>1, <1>6
  <2>2. trigger'[x] = trigger[x] /\ secs'[x] = secs[x] /\ repeat'[x] = repeat[x] /\ time' = time
    BY <1>1, <1>3, <2>1
  <2>3. Holds(timers, Entry(x, trigger[x])) => Holds(timers', Entry(x, trigger[x]))
    BY <1>2, <2>1, EntryFields
  <2> QED
    BY <2>1, <2>2, <2>3 DEF TimerInv, RepeatsPend
<1>10. IteratorAtFirst'
  <2>1. AllLater'
    BY <1>1, <1>2 DEF TimerInv, IteratorAtFirst, AllLater
  <2> QED
    BY <1>1, <2>1 DEF TimerInv, IteratorAtFirst
<1> QED
  BY <1>5, <1>8, <1>9, <1>10 DEF TimerInv

(* The loop of TickTimers starts at the first entry and ends when it is at the *)
(* end of the map or at an entry that is later, behind which all are.          *)
LEMMA TickBeginsKeeps ==
    ASSUME TimerInv, NEW d \in {1, 2}, TickBegins(d)
    PROVE  TimerInv'
<1>1. /\ ~ticking /\ ticking' = TRUE /\ time' = time + d /\ time + d <= MaxTime
      /\ next' = (IF timers = <<>> THEN "end" ELSE Head(timers).timer)
      /\ UNCHANGED <<timers, trigger, secs, repeat, exists, dangling>>
  BY DEF TickBegins
<1>2. timers # <<>> => Holds(timers, Head(timers))
  BY TimerFacts DEF Holds
<1>3. time' \in 1..MaxTime /\ time' \in Nat /\ time' >= time
  BY <1>1, TimerAssumption DEF TimerInv, TimerFields
<1>4. next' \in Timer \cup {"end"}
  BY <1>1, <1>2, TimerFacts DEF TimerEntry
<1>5. TimerFields' /\ MapExact'
  BY <1>1, <1>3, <1>4 DEF TimerInv, TimerFields, MapExact
<1>6. RepeatsPend'
  <2> SUFFICES ASSUME NEW x \in exists
               PROVE  /\ secs[x] \in Seconds
                      /\ repeat[x] => Holds(timers, Entry(x, trigger[x])) /\ trigger[x] <= time' + secs[x]
    BY <1>1 DEF RepeatsPend
  <2>1. secs[x] \in Nat /\ trigger[x] \in Nat /\ time \in Nat
    BY TimerAssumption, TimerFacts DEF TimerInv, TimerFields, RepeatsPend
  <2> QED
    BY <1>3, <2>1 DEF TimerInv, RepeatsPend
<1>7. ~dangling'
  BY <1>1 DEF TimerInv, IteratorAtFirst
<1>8. IteratorAtFirst'
  <2>1. CASE timers = <<>>
    <3>1. next' = "end" /\ AllLater'
      BY <1>1, <2>1, HoldsNone DEF AllLater
    <3> QED
      BY <1>1, <3>1 DEF IteratorAtFirst
  <2>2. CASE timers # <<>>
    <3>1. next' = Head(timers).timer /\ Head(timers) = Entry(next', trigger[next'])
      BY <1>1, <1>2, <2>2, TimerFacts
    <3> QED
      BY <1>1, <1>2, <1>7, <2>2, <3>1 DEF IteratorAtFirst
  <2> QED
    BY <2>1, <2>2
<1> QED
  BY <1>5, <1>6, <1>8 DEF TimerInv

(* TickTimers ends at a timer that is not due, or after the last. *)
LEMMA TickEndsKeeps ==
    ASSUME TimerInv, TickEnds
    PROVE  TimerInv'
<1>1. ticking /\ ~MayRun /\ ~dangling /\ ticking' = FALSE /\ next' = "end"
      /\ UNCHANGED <<timers, trigger, secs, repeat, exists, time, dangling>>
  BY DEF TickEnds
<1>2. TimerFields' /\ MapExact' /\ RepeatsPend'
  BY <1>1 DEF TimerInv, TimerFields, MapExact, RepeatsPend
<1>3. AllLater
  <2> SUFFICES ASSUME timers # <<>>, Head(timers).timer = next PROVE AllLater
    BY <1>1 DEF TimerInv, IteratorAtFirst
  <2>1. PICK h : h = timers[1] /\ h = Head(timers) /\ Holds(timers, h)
    BY TimerFacts DEF Holds
  <2>2. h.timer \in Timer /\ h.trigger \in Nat /\ h.trigger = trigger[next]
    BY <2>1, TimerFacts DEF TimerEntry
  <2>3. h.trigger > time
    BY <1>1, <2>1, <2>2, TimerAssumption, TimerFacts DEF MayRun
  <2>4. ASSUME NEW e, Holds(timers, e) PROVE e.trigger > time
    <3>1. PICK i \in 1..Len(timers) : e = timers[i]
      BY <2>4 DEF Holds
    <3>2. h.trigger <= e.trigger
      <4>1. CASE i = 1
        BY <2>1, <2>2, <3>1, <4>1
      <4>2. CASE i # 1
        <5>1. 1 \in 1..Len(timers) /\ 1 < i
          BY <4>2, TimerFacts
        <5> QED
          BY <2>1, <3>1, <5>1, TimerFacts DEF InOrder
      <4> QED
        BY <4>1, <4>2
    <3>3. e.trigger \in Nat
      BY <2>4, TimerFacts DEF TimerEntry
    <3> QED
      BY <2>2, <2>3, <3>2, <3>3, TimerFacts
  <2> QED
    BY <2>4 DEF AllLater
<1>4. IteratorAtFirst'
  BY <1>1, <1>3 DEF IteratorAtFirst, AllLater
<1> QED
  BY <1>2, <1>4 DEF TimerInv

(* The iterator's element is the first when the timer may run.  Without it *)
(* and the destroyed timers, the element the iterator moved on to is first. *)
LEMMA IteratorMoves ==
    ASSUME TimerInv, ticking, ~dangling, MayRun, NEW D \in SUBSET exists, NEW left,
           left = DelTimers(Erased(timers, {timers[Position(next)]}), D)
    PROVE  /\ next \in exists /\ next \in Timer
           /\ left \in Seq(TimerEntry) /\ InOrder(left) /\ Distinct(left)
           /\ \A e : Holds(left, e) <=> Holds(timers, e) /\ e.timer # next /\ e.timer \notin D
           /\ Following(next) \in Timer \cup {"end"}
           /\ Following(next) \notin D => FirstOrLater(left, Following(next))
           /\ Following(next) # "end" => /\ Following(next) # next
                                         /\ Holds(timers, Entry(Following(next), trigger[Following(next)]))
<1>1. /\ next \in Timer /\ next # "end" /\ trigger[next] <= time
      /\ exists \subseteq Timer /\ D \in SUBSET Timer
  BY TimerAssumption DEF MayRun, TimerInv, TimerFields
<1>2. PICK h : h = Entry(next, trigger[next]) /\ Holds(timers, h)
  BY <1>1 DEF TimerInv, IteratorAtFirst
<1>3. h.timer = next /\ h.trigger = trigger[next] /\ next \in exists
  BY <1>2, EntryFields, TimerFacts
<1>4. ~AllLater
  BY <1>1, <1>2, <1>3, TimerFacts DEF AllLater
<1>5. timers # <<>> /\ Head(timers).timer = next
  BY <1>4 DEF TimerInv, IteratorAtFirst
<1>6. timers[1] = h /\ 1 \in 1..Len(timers)
  <2>1. 1 \in 1..Len(timers) /\ Head(timers) = timers[1] /\ Holds(timers, timers[1])
    BY <1>5, TimerFacts DEF Holds
  <2> QED
    BY <1>2, <1>5, <2>1, TimerFacts
<1>7. Position(next) = 1
  <2>1. DOMAIN timers = 1..Len(timers)
    BY TimerFacts
  <2>2. ASSUME NEW n \in 1..Len(timers), timers[n].timer = next PROVE n = 1
    <3>1. Holds(timers, timers[n])
      BY DEF Holds
    <3>2. timers[n] = h
      BY <1>2, <2>2, <3>1, TimerFacts
    <3> QED
      BY <1>6, <3>2, TimerFacts DEF Distinct
  <2> QED
    BY <1>3, <1>6, <2>1, <2>2 DEF Position
<1> DEFINE L1 == Erased(timers, {h})
<1>8. left = DelTimers(L1, D)
  BY <1>6, <1>7
<1>9. /\ L1 \in Seq(TimerEntry) /\ InOrder(L1) /\ Distinct(L1)
      /\ \A e : Holds(L1, e) <=> Holds(timers, e) /\ e \notin {h}
  BY TimerFacts, HoldsErased, OrderErased
<1>10. \A e : Holds(L1, e) <=> Holds(timers, e) /\ e.timer # next
  BY <1>2, <1>3, <1>9, TimerFacts
<1> HIDE DEF L1
<1>13. \A e : Holds(L1, e) => e.trigger = trigger[e.timer]
  BY <1>10, TimerFacts
<1>14. D \in SUBSET Timer /\ L1 \in Seq(TimerEntry) /\ InOrder(L1) /\ Distinct(L1)
  BY <1>1, <1>9
<1>15. /\ left \in Seq(TimerEntry) /\ InOrder(left) /\ Distinct(left)
       /\ \A e : Holds(left, e) <=> Holds(L1, e) /\ e.timer \notin D
       /\ L1 # <<>> /\ Head(L1).timer \notin D => left # <<>> /\ Head(left) = Head(L1)
  BY ONLY <1>8, <1>13, <1>14, DeletedMap
<1>11. CASE Len(timers) = 1
  <2>1. Following(next) = "end"
    BY <1>7, <1>11 DEF Following
  <2>2. \A e : Holds(timers, e) => e = h
    BY <1>6, <1>11 DEF Holds
  <2>3. FirstOrLater(left, Following(next))
    BY <1>3, <1>10, <1>15, <2>2 DEF FirstOrLater
  <2> QED
    BY <1>1, <1>3, <1>10, <1>15, <2>1, <2>3
<1>12. CASE Len(timers) # 1
  <2>0. PICK n \in Nat : n = Len(timers)
    BY TimerFacts
  <2>1. PICK f : f = timers[2] /\ 2 \in 1..Len(timers)
    BY <1>6, <1>12, <2>0
  <2>2. Holds(timers, f) /\ f # h
    BY <1>6, <2>1, TimerFacts DEF Holds, Distinct
  <2>3. f.timer \in Timer /\ f = Entry(f.timer, trigger[f.timer]) /\ f.timer # next
    BY <1>2, <2>2, TimerFacts DEF TimerEntry
  <2>4. Following(next) = f.timer
    <3>1. Position(next) # Len(timers) /\ timers[Position(next) + 1] = f
      BY <1>7, <1>12, <2>1
    <3> QED
      BY <3>1 DEF Following
  <2>5. L1 # <<>> /\ Head(L1) = f
    <3>1. \A i \in 1..Len(timers) : i < 2 => timers[i] \in {h}
      <4> SUFFICES ASSUME NEW i \in 1..Len(timers), i < 2 PROVE timers[i] = h
        OBVIOUS
      <4>1. i = 1
        BY TimerFacts
      <4> QED
        BY <1>6, <4>1
    <3>2. timers[2] \notin {h}
      BY <2>1, <2>2
    <3> QED
      BY <2>1, <3>1, <3>2, TimerFacts, FirstErased DEF L1
  <2>6. f.timer \notin D => left # <<>> /\ Head(left) = f
    BY <1>15, <2>5
  <2> QED
    BY <1>1, <1>3, <1>10, <1>15, <2>2, <2>3, <2>4, <2>6 DEF FirstOrLater
<1> QED
  BY <1>11, <1>12

(* One round of the loop: the timer is erased, its Tick() destroys D and makes *)
(* c, and it is added again if it repeats or restarted itself.                 *)
LEMMA TimerTicksKeeps ==
    ASSUME TimerInv, NEW how \in {"destroyed", "kept", "restarted"}, NEW s \in Seconds,
           NEW D \in SUBSET exists, NEW c \in Timer \cup {"end"}, TimerTicks(how, s, D, c)
    PROVE  TimerInv'
<1> DEFINE t == next
           gone == D \cup (IF how = "destroyed" THEN {t} ELSE {})
           again == IF how = "restarted" THEN s ELSE secs[t]
           pending == how = "restarted" \/ (how = "kept" /\ repeat[t])
           left == DelTimers(Erased(timers, {timers[Position(t)]}), D)
           made == IF c = "end" THEN left ELSE Added(left, c, time + s)
           nx == Following(t)
<1>1. /\ ticking /\ MayRun /\ ~dangling /\ t \notin D /\ c \notin exists
      /\ exists' = (exists \ gone) \cup ({c} \ {"end"}) /\ time' = time /\ ticking' = ticking
      /\ repeat' = NoTimers(repeat, gone \cup {c}, FALSE)
      /\ secs' = [x \in Timer |-> IF x \in gone THEN 0 ELSE IF x = t THEN again
                                  ELSE IF x = c THEN s ELSE secs[x]]
      /\ trigger' = [x \in Timer |-> IF x \in gone THEN 0 ELSE IF x = t /\ pending THEN time + again
                                     ELSE IF x = c THEN time + s ELSE trigger[x]]
      /\ timers' = (IF pending THEN Added(made, t, time + again) ELSE made)
      /\ next' = nx /\ dangling' = (nx \in D)
  BY DEF TimerTicks
<1>2. /\ t \in exists /\ t \in Timer
      /\ left \in Seq(TimerEntry) /\ InOrder(left) /\ Distinct(left)
      /\ \A e : Holds(left, e) <=> Holds(timers, e) /\ e.timer # t /\ e.timer \notin D
      /\ nx \in Timer \cup {"end"}
      /\ nx \notin D => FirstOrLater(left, nx)
      /\ nx # "end" => nx # t /\ Holds(timers, Entry(nx, trigger[nx]))
  BY <1>1, IteratorMoves
<1>3. /\ again \in Seconds /\ again \in Nat /\ s \in Nat /\ time \in Nat
      /\ time + again \in Nat /\ time + s \in Nat /\ time + again > time /\ time + s > time
  <2>1. secs[t] \in Seconds
    BY <1>2 DEF TimerInv, RepeatsPend
  <2>2. PICK g \in Seconds : g = again
    BY <2>1
  <2>3. g \in Nat \ {0} /\ s \in Nat \ {0} /\ time \in Nat
    BY TimerAssumption, TimerFacts
  <2> HIDE DEF again
  <2> QED
    BY <2>2, <2>3
<1>4. c # "end" => c \in Timer /\ c # t /\ c \notin D
  BY <1>1, <1>2
<1>5. pending \in BOOLEAN /\ (pending => t \notin gone)
  BY <1>1
<1>6. \A x : x \in gone => x \in exists
  BY <1>2
<1>7. \A x \in D : x \in gone
  OBVIOUS
<1>8. \A x \in gone : x \in D \/ x = t
  OBVIOUS
<1>9. exists \subseteq Timer /\ "end" \notin exists
  BY TimerAssumption DEF TimerInv, TimerFields
<1>20. ~pending => (t \in gone \/ ~repeat[t])
  OBVIOUS
<1> DEFINE at == time + again
           am == time + s
<1> HIDE DEF left, again, pending, gone, nx
<1>10. /\ made \in Seq(TimerEntry) /\ InOrder(made) /\ Distinct(made)
       /\ \A e : Holds(made, e) <=> Holds(left, e) \/ (c # "end" /\ e = Entry(c, am))
       /\ nx \notin D => FirstOrLater(made, nx)
  <2>1. CASE c = "end"
    BY <1>2, <2>1
  <2>2. CASE c # "end"
    <3>1. \A e : Holds(left, e) => e.timer # c
      BY <1>1, <1>2, TimerFacts
    <3>2. c \in Timer /\ am \in Nat /\ am > time /\ time \in Nat
      BY <1>3, <1>4, <2>2
    <3>3. made = Added(left, c, am)
      BY <2>2
    <3> HIDE DEF am, made
    <3> QED
      BY <1>2, <2>2, <3>1, <3>2, <3>3, AddedMap
  <2> QED
    BY <2>1, <2>2
<1> HIDE DEF made
<1>11. /\ timers' \in Seq(TimerEntry) /\ InOrder(timers') /\ Distinct(timers')
       /\ \A e : Holds(timers', e) <=> Holds(made, e) \/ (pending /\ e = Entry(t, at))
       /\ nx \notin D => FirstOrLater(timers', nx)
  <2>1. CASE ~pending
    BY <1>1, <1>10, <2>1
  <2>2. CASE pending
    <3>1. \A e : Holds(made, e) => e.timer # t
      BY <1>2, <1>4, <1>10, EntryFields
    <3>2. t \in Timer /\ at \in Nat /\ at > time /\ time \in Nat
      BY <1>2, <1>3
    <3>3. timers' = Added(made, t, at)
      BY <1>1, <2>2
    <3> HIDE DEF at, t
    <3> QED
      BY <1>10, <2>2, <3>1, <3>2, <3>3, AddedMap
  <2> QED
    BY <2>1, <2>2
<1>12. /\ trigger' \in [Timer -> Nat] /\ secs' \in [Timer -> Seconds \cup {0}]
  BY <1>1, <1>3 DEF TimerInv, TimerFields
<1>13. repeat' \in [Timer -> BOOLEAN]
  BY <1>1 DEF NoTimers, TimerInv, TimerFields
<1>14. exists' \subseteq Timer
  BY <1>1, <1>9
<1>15. TimerFields'
  BY <1>1, <1>2, <1>11, <1>12, <1>13, <1>14 DEF TimerInv, TimerFields
<1>16. ASSUME NEW e, Holds(timers', e) PROVE e.timer \in exists' /\ e.trigger = trigger'[e.timer]
  <2>1. CASE Holds(left, e)
    <3>1. PICK x : x = e.timer /\ x \in exists /\ x \in Timer /\ x # t /\ x \notin D /\ e.trigger = trigger[x]
      BY <1>2, <1>9, <2>1, TimerFacts
    <3>2. x \notin gone /\ x # c
      BY <1>1, <1>8, <3>1
    <3> QED
      BY <1>1, <3>1, <3>2
  <2>2. CASE c # "end" /\ e = Entry(c, am)
    <3>1. e.timer = c /\ e.trigger = am /\ c \in Timer /\ c # t
      BY <1>4, <2>2, EntryFields
    <3>2. c \notin gone
      BY <1>1, <1>6
    <3> QED
      BY <1>1, <2>2, <3>1, <3>2
  <2>3. CASE pending /\ e = Entry(t, at)
    <3>1. e.timer = t /\ e.trigger = at /\ t \notin gone
      BY <1>5, <2>3, EntryFields
    <3> QED
      BY <1>1, <1>2, <2>3, <3>1
  <2> QED
    BY <1>10, <1>11, <1>16, <2>1, <2>2, <2>3
<1>17. MapExact'
  BY <1>11, <1>16 DEF MapExact
<1>18. RepeatsPend'
  <2> SUFFICES ASSUME NEW x \in exists'
               PROVE  /\ secs'[x] \in Seconds
                      /\ repeat'[x] => Holds(timers', Entry(x, trigger'[x])) /\ trigger'[x] <= time' + secs'[x]
    BY DEF RepeatsPend
  <2>1. x \in Timer /\ (x = c \/ (x \in exists /\ x \notin gone))
    BY <1>1, <1>14
  <2>2. CASE x = c
    <3>1. c \notin gone /\ c # t
      BY <1>1, <1>2, <1>6
    <3>2. ~repeat'[x] /\ secs'[x] = s
      BY <1>1, <2>1, <2>2, <3>1 DEF NoTimers
    <3> QED
      BY <3>2
  <2>3. CASE x # c /\ x = t /\ x \notin gone
    <3>1. secs'[x] = again /\ repeat'[x] = repeat[x]
      BY <1>1, <2>1, <2>3 DEF NoTimers
    <3>2. CASE pending
      <4>1. trigger'[x] = at /\ Holds(timers', Entry(x, at))
        BY <1>1, <1>11, <2>1, <2>3, <3>2
      <4>2. time' + secs'[x] = at /\ secs'[x] \in Seconds
        BY <1>1, <1>3, <3>1
      <4>3. at <= at
        BY <1>3
      <4> QED
        BY <4>1, <4>2, <4>3
    <3>3. CASE ~pending
      <4>1. ~repeat[x]
        BY <1>20, <2>3, <3>3
      <4> QED
        BY <1>3, <3>1, <4>1
    <3> QED
      BY <3>2, <3>3
  <2>4. CASE x # c /\ x # t /\ x \in exists /\ x \notin gone
    <3>1. secs'[x] = secs[x] /\ repeat'[x] = repeat[x] /\ trigger'[x] = trigger[x] /\ x \notin D
      BY <1>1, <1>7, <2>1, <2>4 DEF NoTimers
    <3>2. Holds(timers, Entry(x, trigger[x])) => Holds(timers', Entry(x, trigger[x]))
      BY <1>2, <1>10, <1>11, <2>4, <3>1, EntryFields
    <3> QED
      BY <1>1, <2>4, <3>1, <3>2 DEF TimerInv, RepeatsPend
  <2> QED
    BY <2>1, <2>2, <2>3, <2>4
<1>19. IteratorAtFirst'
  <2>1. ticking'
    BY <1>1
  <2>2. ASSUME ~dangling'
        PROVE  /\ next' # "end" => Holds(timers', Entry(next', trigger'[next']))
               /\ AllLater' \/ (timers' # <<>> /\ Head(timers').timer = next')
    <3>1. nx \notin D
      BY <1>1, <2>2
    <3>2. FirstOrLater(timers', nx)
      BY <1>11, <3>1
    <3>3. AllLater' \/ (timers' # <<>> /\ Head(timers').timer = next')
      BY <1>1, <3>2 DEF FirstOrLater, AllLater
    <3>4. ASSUME nx # "end" PROVE Holds(timers', Entry(nx, trigger'[nx]))
      <4>1. nx \in Timer /\ nx # t /\ nx \in exists /\ Holds(timers, Entry(nx, trigger[nx]))
        BY <1>2, <3>4, EntryFields, TimerFacts
      <4>2. nx \notin gone /\ nx # c
        BY <1>1, <1>8, <3>1, <4>1
      <4>3. trigger'[nx] = trigger[nx]
        BY <1>1, <4>1, <4>2
      <4> QED
        BY <1>2, <1>10, <1>11, <3>1, <4>1, <4>3, EntryFields
    <3> QED
      BY <1>1, <3>3, <3>4
  <2> QED
    BY <2>1, <2>2 DEF IteratorAtFirst
<1> QED
  BY <1>15, <1>17, <1>18, <1>19 DEF TimerInv

(* There are no timers at first. *)
LEMMA TimerInvInit == TimerInit => TimerInv
<1> SUFFICES ASSUME TimerInit PROVE TimerInv
  OBVIOUS
<1>1. TimerFields
  <2>1. repeat \in [Timer -> BOOLEAN]
    BY DEF TimerInit
  <2>2. timers \in Seq(TimerEntry) /\ trigger \in [Timer -> Nat] /\ secs \in [Timer -> Seconds \cup {0}]
    BY DEF TimerInit
  <2>3. exists = {} /\ time = 1 /\ next = "end"
    BY DEF TimerInit
  <2>4. time \in 1..MaxTime
    BY <2>3, TimerAssumption
  <2> QED
    BY <2>1, <2>2, <2>3, <2>4 DEF TimerFields
<1>2. \A e : ~Holds(timers, e)
  BY HoldsNone DEF TimerInit
<1>3. InOrder(timers) /\ Distinct(timers)
  BY HoldsNone DEF TimerInit, InOrder
<1>4. exists = {} /\ ~ticking /\ ~dangling
  BY DEF TimerInit
<1> QED
  BY <1>1, <1>2, <1>3, <1>4 DEF TimerInv, MapExact, RepeatsPend, IteratorAtFirst, AllLater

(* Every step keeps the invariant. *)
LEMMA TimerInvNext == TimerInv /\ [TimerNext]_timerVars => TimerInv'
<1> SUFFICES ASSUME TimerInv, [TimerNext]_timerVars PROVE TimerInv'
  OBVIOUS
<1>1. CASE UNCHANGED timerVars
  <2>1. UNCHANGED <<timers, trigger, secs, repeat, exists, time, ticking, next, dangling>>
    BY <1>1 DEF timerVars
  <2> QED
    BY <2>1 DEF TimerInv, TimerFields, MapExact, RepeatsPend, IteratorAtFirst, AllLater
<1> QED
  BY <1>1, CreateTimerKeeps, SetIntervalKeeps, DestroyTimerKeeps, TickBeginsKeeps, TimerTicksKeeps,
     TickEndsKeeps DEF TimerNext

(* The invariant gives what is promised of timers. *)
LEMMA TimerInvKept == TimerInv => TimersKept
<1> SUFFICES ASSUME TimerInv PROVE TimersKept
  OBVIOUS
<1>1. DOMAIN timers = 1..Len(timers) /\ \A n \in 1..Len(timers) : Holds(timers, timers[n])
  BY TimerFacts DEF Holds
<1>2. \A n \in DOMAIN timers : /\ timers[n] \in TimerEntry /\ timers[n].timer \in exists
                               /\ timers[n].trigger = trigger[timers[n].timer]
  BY <1>1, TimerFacts
<1>3. TimerTypeOK
  BY <1>2 DEF TimerInv, TimerFields, TimerTypeOK, TimerEntry
<1>4. \A i, j \in DOMAIN timers : i < j => /\ timers[i].timer # timers[j].timer
                                           /\ timers[i].trigger <= timers[j].trigger
  <2> SUFFICES ASSUME NEW i \in DOMAIN timers, NEW j \in DOMAIN timers, i < j
               PROVE  timers[i].timer # timers[j].timer /\ timers[i].trigger <= timers[j].trigger
    OBVIOUS
  <2>1. timers[i].trigger <= timers[j].trigger
    BY <1>1, TimerFacts DEF InOrder
  <2>2. timers[i] # timers[j]
    BY <1>1, TimerFacts DEF Distinct
  <2> QED
    BY <1>1, <2>1, <2>2, TimerFacts
<1>5. MapIsExact
  BY <1>2, <1>4 DEF MapIsExact
<1>6. NoTimerMissed
  <2> SUFFICES ASSUME ~ticking
               PROVE  /\ \A n \in DOMAIN timers : timers[n].trigger > time
                      /\ \A t \in exists : repeat[t] => \E n \in DOMAIN timers :
                            timers[n].timer = t /\ timers[n].trigger <= time + secs[t]
    BY DEF NoTimerMissed
  <2>1. \A n \in DOMAIN timers : timers[n].trigger > time
    BY <1>1 DEF TimerInv, IteratorAtFirst, AllLater
  <2>2. ASSUME NEW t \in exists, repeat[t]
        PROVE  \E n \in DOMAIN timers : timers[n].timer = t /\ timers[n].trigger <= time + secs[t]
    <3>1. Holds(timers, Entry(t, trigger[t])) /\ trigger[t] <= time + secs[t]
      BY <2>2 DEF TimerInv, RepeatsPend
    <3>2. PICK n \in DOMAIN timers : timers[n] = Entry(t, trigger[t])
      BY <1>1, <3>1 DEF Holds
    <3> QED
      BY <3>1, <3>2, EntryFields
  <2> QED
    BY <2>1, <2>2
<1> QED
  BY <1>3, <1>5, <1>6 DEF TimersKept

(* The timer manager, for any timers and intervals: the map is exact and     *)
(* ordered through every tick in which timers destroy, make and restart each *)
(* other, and after a tick no timer that is due was missed.                  *)
THEOREM TimersAreKept == TimerSpec => []TimersKept
<1>1. TimerInit => TimerInv
  BY TimerInvInit
<1>2. TimerInv /\ [TimerNext]_timerVars => TimerInv'
  BY TimerInvNext
<1>3. TimerInv => TimersKept
  BY TimerInvKept
<1> QED
  BY <1>1, <1>2, <1>3, PTL DEF TimerSpec

-----------------------------------------------------------------------------
(* Clients *)

(* The clients that each counter counts *)
Using(s, c) == {u \in Client : Listed(s, u) /\ s.class[u] = c}
Unregistered(s) == {u \in Client : Listed(s, u) /\ s.conn[u] # "full"}
From(s, a) == {u \in Client : Exists(s, u) /\ s.place[u] = a}

RegType ==
    [ conn : [Client -> {"free", "none", "nickuser", "full"}],
      quitting : [Client -> BOOLEAN],
      class : [Client -> ClassId \cup {NoClass}],
      place : [Client -> Place],
      oper : [Client -> BOOLEAN],
      unknown : Int,
      use : [ClassId -> 0..(Wrap - 1)],
      clones : [Place -> Int],
      culls : SUBSET Client,
      sendq : SUBSET Client ]

(* Who exists, who has quit and who has a class *)
Lives(s) ==
    /\ s \in RegType
    /\ s.culls = {u \in Client : s.quitting[u]}
    /\ s.culls \cup s.sendq \subseteq {u \in Client : Exists(s, u)}
    /\ \A u \in Client : ~Exists(s, u) => s.class[u] = NoClass /\ ~s.oper[u]

Counted(s) ==
    /\ s.unknown = Cardinality(Unregistered(s))
    /\ \A a \in Place : s.clones[a] = Cardinality(From(s, a))

Sound(s) == Lives(s) /\ Counted(s)

(* What a client that is taken off its class twice spoils *)
UseExact(s) == \A c \in ClassId : s.use[c] = Cardinality(Using(s, c))

WithinLimit(s, c) ==
    c = OperClass \/ Classes[c].limit = 0 \/ Cardinality(Using(s, c)) <= Classes[c].limit

ClassesOK(s) == UseExact(s) /\ \A c \in ClassId : WithinLimit(s, c)

(* The inductive invariant *)
CountInv == Sound(reg) /\ twice \in BOOLEAN /\ (~twice => ClassesOK(reg))

(* Classes are numbered from 1. *)
LEMMA ClassIds ==
    /\ ClassId \subseteq Nat \ {0} /\ NoClass \notin ClassId /\ OperClass \in ClassId
    /\ \A c \in ClassId : Classes[c].limit \in Nat
<1> DEFINE T == [type : {"ALLOW", "DENY", "NAMED"}, hosts : SUBSET Place,
                 limit : Nat, password : BOOLEAN, maxlocal : Nat]
<1>1. Classes \in Seq(T) /\ OperClass \in DOMAIN Classes
  BY ClassesAssumption
<1>2. ASSUME NEW t \in T PROVE t.limit \in Nat
  BY <1>2
<1> HIDE DEF T
<1>3. ClassId = 1..Len(Classes) /\ Len(Classes) \in Nat /\ \A c \in ClassId : Classes[c] \in T
  BY <1>1 DEF ClassId
<1> QED BY <1>1, <1>2, <1>3 DEF NoClass, ClassId

(* Counting modulo Wrap *)
LEMMA WrapFacts ==
    /\ Wrap \in Nat \ {0}
    /\ \A x \in Int : x % Wrap \in 0..(Wrap - 1)
    /\ \A x \in 0..(Wrap - 1) : x % Wrap = x
<1>1. Wrap \in Nat \ {0}
  <2>1. Cardinality(Client) \in Nat
    BY ClientsAssumption, FS_CardinalityType
  <2> QED BY <2>1, ClientsAssumption
<1>2. ASSUME NEW x \in Int PROVE x % Wrap \in 0..(Wrap - 1)
  BY <1>1
<1>3. ASSUME NEW x \in 0..(Wrap - 1) PROVE x % Wrap = x
  BY <1>1
<1> QED BY <1>1, <1>2, <1>3

(* Sets of clients are finite. *)
LEMMA CardOfClients ==
    ASSUME NEW S \in SUBSET Client
    PROVE  /\ IsFiniteSet(S) /\ Cardinality(S) \in 0..(Wrap - 1)
           /\ S = {} <=> Cardinality(S) = 0
<1>1. IsFiniteSet(S) /\ Cardinality(S) <= Cardinality(Client)
  BY ClientsAssumption, FS_Subset
<1>2. Cardinality(S) \in Nat /\ Cardinality(Client) \in Nat /\ Cardinality(Client) < Wrap
  BY <1>1, ClientsAssumption, FS_CardinalityType
<1>3. S = {} <=> Cardinality(S) = 0
  BY <1>1, FS_EmptySet
<1>4. Cardinality(S) \in 0..(Wrap - 1)
  BY <1>1, <1>2, WrapFacts
<1> QED BY <1>1, <1>3, <1>4

(* A set of clients without one of its elements *)
LEMMA CardWithout ==
    ASSUME NEW S \in SUBSET Client, NEW u \in S
    PROVE  Cardinality(S \ {u}) = Cardinality(S) - 1 /\ Cardinality(S) \in 1..(Wrap - 1)
<1>1. Cardinality(S \ {u}) = Cardinality(S) - 1
  BY CardOfClients, FS_RemoveElement
<1>2. Cardinality(S) # 0 /\ Cardinality(S) \in 0..(Wrap - 1)
  BY CardOfClients
<1>3. Cardinality(S) \in 1..(Wrap - 1)
  BY <1>2, WrapFacts
<1> QED BY <1>1, <1>3

(* A set of clients with one more *)
LEMMA CardWith ==
    ASSUME NEW S \in SUBSET Client, NEW u \in Client \ S
    PROVE  Cardinality(S \cup {u}) = Cardinality(S) + 1 /\ Cardinality(S) + 1 \in 1..(Wrap - 1)
<1>1. Cardinality(S \cup {u}) = Cardinality(S) + 1
  BY CardOfClients, FS_AddElement
<1>2. Cardinality(S \cup {u}) \in 0..(Wrap - 1) /\ Cardinality(S) \in 0..(Wrap - 1)
  BY CardOfClients
<1>3. Cardinality(S) + 1 \in 1..(Wrap - 1)
  BY <1>1, <1>2, WrapFacts
<1> QED BY <1>1, <1>3

(* The counters count clients. *)
LEMMA CountsAreSets ==
    ASSUME NEW s
    PROVE  /\ \A c : Using(s, c) \in SUBSET Client
           /\ \A a : From(s, a) \in SUBSET Client
           /\ Unregistered(s) \in SUBSET Client
BY DEF Using, From, Unregistered

(* A state with some fields replaced *)
LEMMA RegWith ==
    ASSUME NEW s \in RegType
    PROVE  /\ \A quitting \in [Client -> BOOLEAN], culls \in SUBSET Client, n \in Int :
                 [s EXCEPT !.quitting = quitting, !.culls = culls, !.unknown = n] \in RegType
           /\ \A class \in [Client -> ClassId \cup {NoClass}], use \in [ClassId -> 0..(Wrap - 1)] :
                 [s EXCEPT !.class = class, !.use = use] \in RegType
           /\ \A conn \in [Client -> {"free", "none", "nickuser", "full"}], n \in Int :
                 [s EXCEPT !.conn = conn, !.unknown = n] \in RegType
           /\ \A place \in [Client -> Place], clones \in [Place -> Int] :
                 [s EXCEPT !.place = place, !.clones = clones] \in RegType
           /\ \A oper \in [Client -> BOOLEAN] : [s EXCEPT !.oper = oper] \in RegType
           /\ \A sendq \in SUBSET Client : [s EXCEPT !.sendq = sendq] \in RegType
BY DEF RegType

(* The order in which fields are replaced *)
LEMMA RegSwap ==
    ASSUME NEW s \in RegType, NEW use, NEW class, NEW more
    PROVE  /\ [[s EXCEPT !.use = use] EXCEPT !.class = class] = [s EXCEPT !.class = class, !.use = use]
           /\ [[s EXCEPT !.use = use] EXCEPT !.class = class, !.use = more]
                = [s EXCEPT !.class = class, !.use = more]
BY DEF RegType

(* The use_count after Leave *)
UseWithout(s, c) == IF c = NoClass THEN s.use ELSE [s.use EXCEPT ![c] = (@ - 1) % Wrap]

(* Leave changes the use_count of the class. *)
LEMMA LeaveIs ==
    ASSUME NEW s \in RegType, NEW c \in ClassId \cup {NoClass}
    PROVE  Leave(s, c) = [s EXCEPT !.use = UseWithout(s, c)] /\ Leave(s, c) \in RegType
<1>1. CASE c = NoClass
  BY <1>1 DEF Leave, UseWithout, RegType
<1>2. CASE c # NoClass
  <2>1. c \in ClassId /\ s.use \in [ClassId -> 0..(Wrap - 1)] /\ s.use[c] - 1 \in Int
    BY <1>2, WrapFacts DEF RegType
  <2>2. (s.use[c] - 1) % Wrap \in 0..(Wrap - 1)
    BY <2>1, WrapFacts
  <2>3. UseWithout(s, c) \in [ClassId -> 0..(Wrap - 1)]
    BY <1>2, <2>1, <2>2 DEF UseWithout
  <2>4. Leave(s, c) = [s EXCEPT !.use = UseWithout(s, c)]
    BY <1>2 DEF Leave, UseWithout, RegType
  <2> QED BY <2>3, <2>4 DEF RegType
<1> QED BY <1>1, <1>2

(* QuitUser of a client that has not quit, field by field *)
LEMMA QuitUserIs ==
    ASSUME NEW s \in RegType, NEW u \in Client, ~s.quitting[u]
    PROVE  LET q == QuitUser(s, u) IN
           /\ q \in RegType
           /\ q.conn = s.conn /\ q.class = s.class /\ q.place = s.place /\ q.oper = s.oper
           /\ q.quitting = [s.quitting EXCEPT ![u] = TRUE]
           /\ q.unknown = IF s.conn[u] = "full" THEN s.unknown ELSE s.unknown - 1
           /\ q.use = UseWithout(s, s.class[u])
           /\ q.clones = s.clones /\ q.culls = s.culls \cup {u} /\ q.sendq = s.sendq
<1> DEFINE l == Leave(s, s.class[u])
           q == QuitUser(s, u)
           n == IF s.conn[u] = "full" THEN s.unknown ELSE s.unknown - 1
<1>1. s.class[u] \in ClassId \cup {NoClass}
  BY DEF RegType
<1>2. l \in RegType /\ l = [s EXCEPT !.use = UseWithout(s, s.class[u])]
  BY <1>1, LeaveIs
<1>3. /\ l.conn = s.conn /\ l.class = s.class /\ l.place = s.place /\ l.oper = s.oper
      /\ l.quitting = s.quitting /\ l.unknown = s.unknown /\ l.use = UseWithout(s, s.class[u])
      /\ l.clones = s.clones /\ l.culls = s.culls /\ l.sendq = s.sendq
  BY <1>2 DEF RegType
<1> HIDE DEF l
<1>4. q = [l EXCEPT !.quitting[u] = TRUE, !.culls = @ \cup {u},
                    !.unknown = IF s.conn[u] = "full" THEN @ ELSE @ - 1]
  BY DEF QuitUser, l
<1>5. n \in Int
  BY DEF RegType
<1>6. q = [l EXCEPT !.quitting = [l.quitting EXCEPT ![u] = TRUE], !.culls = l.culls \cup {u},
                    !.unknown = n]
  <2>1. n = IF s.conn[u] = "full" THEN l.unknown ELSE l.unknown - 1
    BY <1>3
  <2> HIDE DEF q, n
  <2>2. q = [l EXCEPT !.quitting = [l.quitting EXCEPT ![u] = TRUE], !.culls = l.culls \cup {u},
                      !.unknown = IF s.conn[u] = "full" THEN l.unknown ELSE l.unknown - 1]
    BY <1>4
  <2> QED BY <2>1, <2>2
<1> HIDE DEF q, n
<1>7. [l.quitting EXCEPT ![u] = TRUE] \in [Client -> BOOLEAN] /\ l.culls \cup {u} \in SUBSET Client
  BY <1>2 DEF RegType
<1>8. q \in RegType
  BY <1>2, <1>5, <1>6, <1>7, RegWith
<1>9. /\ q.conn = l.conn /\ q.class = l.class /\ q.place = l.place /\ q.oper = l.oper
      /\ q.quitting = [l.quitting EXCEPT ![u] = TRUE] /\ q.unknown = n /\ q.use = l.use
      /\ q.clones = l.clones /\ q.culls = l.culls \cup {u} /\ q.sendq = l.sendq
  BY <1>2, <1>6 DEF RegType
<1> QED BY <1>3, <1>8, <1>9 DEF q, n

(* A client in the list that leaves its class is taken off its use_count. *)
LEMMA UseWithoutExact ==
    ASSUME NEW s \in RegType, NEW u \in Client, Listed(s, u), UseExact(s), NEW c \in ClassId
    PROVE  UseWithout(s, s.class[u])[c] = Cardinality(Using(s, c) \ {u})
<1>1. s.use[c] = Cardinality(Using(s, c)) /\ s.use \in [ClassId -> 0..(Wrap - 1)]
  BY DEF UseExact, RegType
<1>2. Using(s, c) \in SUBSET Client
  BY CountsAreSets
<1>3. CASE s.class[u] = c
  <2>1. u \in Using(s, c)
    BY <1>3 DEF Using
  <2>2. Cardinality(Using(s, c) \ {u}) = s.use[c] - 1 /\ s.use[c] - 1 \in 0..(Wrap - 1)
    BY <1>1, <1>2, <2>1, CardWithout, WrapFacts
  <2>3. UseWithout(s, s.class[u])[c] = (s.use[c] - 1) % Wrap
    BY <1>1, <1>3, ClassIds DEF UseWithout
  <2> QED BY <2>2, <2>3, WrapFacts
<1>4. CASE s.class[u] # c
  <2>1. Using(s, c) \ {u} = Using(s, c)
    BY <1>4 DEF Using
  <2>2. UseWithout(s, s.class[u])[c] = s.use[c]
    BY <1>1, <1>4 DEF UseWithout
  <2> QED BY <1>1, <2>1, <2>2
<1> QED BY <1>3, <1>4

(* Fewer members are within a limit. *)
LEMMA FewerWithin ==
    ASSUME NEW s, NEW r, NEW c \in ClassId, WithinLimit(s, c), Using(r, c) \subseteq Using(s, c)
    PROVE  WithinLimit(r, c)
<1>1. Cardinality(Using(r, c)) <= Cardinality(Using(s, c))
  BY CountsAreSets, CardOfClients, FS_Subset
<1>2. Cardinality(Using(r, c)) \in Int /\ Cardinality(Using(s, c)) \in Int /\ Classes[c].limit \in Int
  BY CountsAreSets, CardOfClients, ClassIds
<1> QED BY <1>1, <1>2 DEF WithinLimit

(* QuitUser keeps every count: the client leaves its class and the clients *)
(* that are not registered, and still counts as a clone.                   *)
LEMMA QuitUserKeeps ==
    ASSUME NEW s, Sound(s), NEW u \in Client, Exists(s, u)
    PROVE  LET q == QuitUser(s, u) IN
           /\ Sound(q) /\ (ClassesOK(s) => ClassesOK(q))
           /\ q.conn = s.conn /\ q.class = s.class /\ q.place = s.place /\ q.oper = s.oper
           /\ q.sendq = s.sendq /\ q.quitting[u]
           /\ \A v \in Client : s.quitting[v] => q.quitting[v]
<1>1. CASE s.quitting[u]
  BY <1>1 DEF QuitUser
<1>2. CASE ~s.quitting[u]
  <2> DEFINE q == QuitUser(s, u)
  <2>1. s \in RegType /\ Lives(s) /\ Counted(s)
    BY DEF Sound, Lives
  <2>2. /\ q \in RegType
        /\ q.conn = s.conn /\ q.class = s.class /\ q.place = s.place /\ q.oper = s.oper
        /\ q.quitting = [s.quitting EXCEPT ![u] = TRUE]
        /\ q.unknown = IF s.conn[u] = "full" THEN s.unknown ELSE s.unknown - 1
        /\ q.use = UseWithout(s, s.class[u])
        /\ q.clones = s.clones /\ q.culls = s.culls \cup {u} /\ q.sendq = s.sendq
    BY <1>2, <2>1, QuitUserIs
  <2> HIDE DEF q
  <2>3. s.quitting \in [Client -> BOOLEAN]
    BY <2>1 DEF RegType
  <2>4. /\ q.quitting[u]
        /\ \A v \in Client : v # u => (q.quitting[v] <=> s.quitting[v])
    BY <2>2, <2>3
  <2>5. \A v \in Client : Exists(q, v) <=> Exists(s, v)
    BY <2>2 DEF Exists
  <2>6. \A v \in Client : Listed(q, v) <=> Listed(s, v) /\ v # u
    BY <2>4, <2>5 DEF Listed
  <2>7. Lives(q)
    <3>1. q.culls = {v \in Client : q.quitting[v]}
      BY <2>1, <2>2, <2>4 DEF Lives
    <3>2. q.culls \cup q.sendq \subseteq {v \in Client : Exists(q, v)}
      BY <2>1, <2>2, <2>5 DEF Lives
    <3>3. \A v \in Client : ~Exists(q, v) => q.class[v] = NoClass /\ ~q.oper[v]
      BY <2>1, <2>2, <2>5 DEF Lives
    <3> QED BY <2>2, <3>1, <3>2, <3>3 DEF Lives
  <2>8. Listed(s, u)
    BY <1>2 DEF Listed
  <2>9. \A c : Using(q, c) = Using(s, c) \ {u}
    BY <2>2, <2>6 DEF Using
  <2>10. \A a : From(q, a) = From(s, a)
    BY <2>2, <2>5 DEF From
  <2>11. Unregistered(q) = Unregistered(s) \ {u}
    BY <2>2, <2>6 DEF Unregistered
  <2>12. q.unknown = Cardinality(Unregistered(q))
    <3>1. s.unknown = Cardinality(Unregistered(s)) /\ Unregistered(s) \in SUBSET Client
      BY <2>1, CountsAreSets DEF Counted
    <3>2. CASE s.conn[u] = "full"
      <4>1. Unregistered(q) = Unregistered(s)
        BY <2>11, <3>2 DEF Unregistered
      <4> QED BY <2>2, <3>1, <3>2, <4>1
    <3>3. CASE s.conn[u] # "full"
      <4>1. u \in Unregistered(s)
        BY <2>8, <3>3 DEF Unregistered
      <4>2. Cardinality(Unregistered(q)) = Cardinality(Unregistered(s)) - 1
        BY <2>11, <3>1, <4>1, CardWithout
      <4> QED BY <2>2, <3>1, <3>3, <4>2
    <3> QED BY <3>2, <3>3
  <2>13. Counted(q)
    BY <2>1, <2>2, <2>10, <2>12 DEF Counted
  <2>14. ASSUME ClassesOK(s) PROVE ClassesOK(q)
    <3>1. UseExact(q)
      BY <2>1, <2>2, <2>8, <2>9, <2>14, UseWithoutExact DEF UseExact, ClassesOK
    <3>2. \A c \in ClassId : WithinLimit(q, c)
      BY <2>9, <2>14, FewerWithin DEF ClassesOK
    <3> QED BY <3>1, <3>2 DEF ClassesOK
  <2> QED BY <2>2, <2>4, <2>7, <2>13, <2>14 DEF Sound, q
<1> QED BY <1>1, <1>2

(* Another class for a client, and other use_counts *)
Moved(s, u, k, use) == [s EXCEPT !.class = [s.class EXCEPT ![u] = k], !.use = use]

MovedOK(s, r, u, k, use) ==
    /\ Sound(r) /\ r.use = use /\ r.class = [s.class EXCEPT ![u] = k]
    /\ r.conn = s.conn /\ r.place = s.place /\ r.oper = s.oper /\ r.quitting = s.quitting
    /\ r.sendq = s.sendq
    /\ \A c \in ClassId : Using(r, c) = IF c = k /\ Listed(s, u) THEN Using(s, c) \cup {u}
                                       ELSE Using(s, c) \ {u}

(* Nothing else is counted by class. *)
LEMMA ClassChanged ==
    ASSUME NEW s, Sound(s), NEW u \in Client, Exists(s, u), NEW k \in ClassId \cup {NoClass},
           NEW use \in [ClassId -> 0..(Wrap - 1)]
    PROVE  MovedOK(s, Moved(s, u, k, use), u, k, use)
<1> DEFINE r == Moved(s, u, k, use)
<1>1. s \in RegType /\ Lives(s) /\ Counted(s) /\ s.class \in [Client -> ClassId \cup {NoClass}]
  BY DEF Sound, Lives, RegType
<1>2. [s.class EXCEPT ![u] = k] \in [Client -> ClassId \cup {NoClass}]
  BY <1>1
<1>3. r \in RegType
  BY <1>1, <1>2, RegWith DEF Moved
<1>4. /\ r.use = use /\ r.class = [s.class EXCEPT ![u] = k]
      /\ r.conn = s.conn /\ r.place = s.place /\ r.oper = s.oper /\ r.quitting = s.quitting
      /\ r.sendq = s.sendq /\ r.clones = s.clones /\ r.culls = s.culls /\ r.unknown = s.unknown
  BY <1>1 DEF RegType, Moved
<1> HIDE DEF r
<1>5. r.class[u] = k /\ \A v \in Client : v # u => r.class[v] = s.class[v]
  BY <1>1, <1>4
<1>6. \A v \in Client : Exists(r, v) <=> Exists(s, v)
  BY <1>4 DEF Exists
<1>7. \A v \in Client : Listed(r, v) <=> Listed(s, v)
  BY <1>4, <1>6 DEF Listed
<1>8. Lives(r)
  <2>1. r.culls = {v \in Client : r.quitting[v]}
    BY <1>1, <1>4 DEF Lives
  <2>2. r.culls \cup r.sendq \subseteq {v \in Client : Exists(r, v)}
    BY <1>1, <1>4, <1>6 DEF Lives
  <2>3. \A v \in Client : ~Exists(r, v) => r.class[v] = NoClass /\ ~r.oper[v]
    BY <1>1, <1>4, <1>5, <1>6 DEF Lives
  <2> QED BY <1>3, <2>1, <2>2, <2>3 DEF Lives
<1>9. Unregistered(r) = Unregistered(s) /\ \A a : From(r, a) = From(s, a)
  BY <1>4, <1>6, <1>7 DEF Unregistered, From
<1>10. Counted(r)
  BY <1>1, <1>4, <1>9 DEF Counted
<1>11. ASSUME NEW c \in ClassId
       PROVE  Using(r, c) = IF c = k /\ Listed(s, u) THEN Using(s, c) \cup {u} ELSE Using(s, c) \ {u}
  BY <1>5, <1>7 DEF Using
<1> QED BY <1>4, <1>8, <1>10, <1>11 DEF Sound, MovedOK, r

(* What is true of r when a client of s has changed its class or quit *)
Kept(s, r) ==
    /\ Sound(r) /\ (ClassesOK(s) => ClassesOK(r))
    /\ r.conn = s.conn /\ r.place = s.place /\ r.oper = s.oper /\ r.sendq = s.sendq

(* A client in the list leaves its class for none. *)
LEMMA LeaveKeeps ==
    ASSUME NEW s, Sound(s), NEW u \in Client, Exists(s, u)
    PROVE  LET r == [Leave(s, s.class[u]) EXCEPT !.class[u] = NoClass] IN
           /\ Sound(r) /\ (Listed(s, u) /\ ClassesOK(s) => ClassesOK(r))
           /\ r.conn = s.conn /\ r.place = s.place /\ r.oper = s.oper /\ r.quitting = s.quitting
           /\ r.sendq = s.sendq /\ r.class = [s.class EXCEPT ![u] = NoClass]
<1> DEFINE r == [Leave(s, s.class[u]) EXCEPT !.class[u] = NoClass]
           use == UseWithout(s, s.class[u])
<1>1. s \in RegType /\ s.class[u] \in ClassId \cup {NoClass}
  BY DEF Sound, Lives, RegType
<1>2. Leave(s, s.class[u]) = [s EXCEPT !.use = use] /\ [s EXCEPT !.use = use] \in RegType
  BY <1>1, LeaveIs
<1>3. [s EXCEPT !.use = use].use = use /\ [s EXCEPT !.use = use].class = s.class
  BY <1>1 DEF RegType
<1> HIDE DEF use
<1>4. use \in [ClassId -> 0..(Wrap - 1)]
  BY <1>2, <1>3 DEF RegType
<1>5. r = Moved(s, u, NoClass, use)
  <2>1. r = [[s EXCEPT !.use = use] EXCEPT !.class = [s.class EXCEPT ![u] = NoClass]]
    BY <1>2, <1>3
  <2> QED BY <1>1, <2>1, RegSwap DEF Moved
<1> HIDE DEF r
<1>6. /\ Sound(r) /\ r.use = use
      /\ r.conn = s.conn /\ r.place = s.place /\ r.oper = s.oper /\ r.quitting = s.quitting
      /\ r.sendq = s.sendq /\ r.class = [s.class EXCEPT ![u] = NoClass]
      /\ \A c \in ClassId : Using(r, c) = Using(s, c) \ {u}
  <2>1. NoClass \in ClassId \cup {NoClass} /\ NoClass \notin ClassId
    BY ClassIds
  <2>2. MovedOK(s, r, u, NoClass, use)
    BY <1>4, <1>5, <2>1, ClassChanged
  <2> QED BY <2>1, <2>2 DEF MovedOK
<1>7. ASSUME Listed(s, u), ClassesOK(s) PROVE ClassesOK(r)
  <2>1. UseExact(r)
    BY <1>1, <1>6, <1>7, UseWithoutExact DEF UseExact, ClassesOK, use
  <2>2. \A c \in ClassId : WithinLimit(r, c)
    BY <1>6, <1>7, FewerWithin DEF ClassesOK
  <2> QED BY <2>1, <2>2 DEF ClassesOK
<1> QED BY <1>6, <1>7 DEF r

(* What ChangeConnectClass makes of a client that is not restricted *)
Entered(s, u, c) == [Leave(s, s.class[u]) EXCEPT !.class[u] = c, !.use[c] = (@ + 1) % Wrap]

(* A client in the list moves to the class c, which has room or no limit. *)
LEMMA EnterKeeps ==
    ASSUME NEW s, Sound(s), NEW u \in Client, Listed(s, u), NEW c \in ClassId,
           c = OperClass \/ Classes[c].limit = 0 \/ s.use[c] < Classes[c].limit
    PROVE  Kept(s, Entered(s, u, c))
<1> DEFINE r == Entered(s, u, c)
           less == UseWithout(s, s.class[u])
           use == [less EXCEPT ![c] = (@ + 1) % Wrap]
<1>1. s \in RegType /\ s.class[u] \in ClassId \cup {NoClass} /\ Exists(s, u)
  BY DEF Sound, Lives, RegType, Listed
<1>2. Leave(s, s.class[u]) = [s EXCEPT !.use = less] /\ [s EXCEPT !.use = less] \in RegType
  BY <1>1, LeaveIs
<1>3. [s EXCEPT !.use = less].use = less /\ [s EXCEPT !.use = less].class = s.class
  BY <1>1 DEF RegType
<1> HIDE DEF less
<1>4. less \in [ClassId -> 0..(Wrap - 1)]
  BY <1>2, <1>3 DEF RegType
<1>5. less[c] + 1 \in Int /\ (less[c] + 1) % Wrap \in 0..(Wrap - 1)
  BY <1>4, WrapFacts
<1>6. use \in [ClassId -> 0..(Wrap - 1)]
  BY <1>4, <1>5
<1>7. r = Moved(s, u, c, use)
  <2>1. r = [[s EXCEPT !.use = less] EXCEPT !.class = [s.class EXCEPT ![u] = c], !.use = use]
    BY <1>2, <1>3 DEF Entered
  <2> HIDE DEF r, use
  <2> QED BY <1>1, <2>1, RegSwap DEF Moved
<1>8. use[c] = (less[c] + 1) % Wrap /\ \A d \in ClassId : d # c => use[d] = less[d]
  BY <1>4
<1> HIDE DEF r, use
<1>9. /\ Sound(r) /\ r.use = use
      /\ r.conn = s.conn /\ r.place = s.place /\ r.oper = s.oper /\ r.quitting = s.quitting
      /\ r.sendq = s.sendq
      /\ \A d \in ClassId : Using(r, d) = IF d = c THEN Using(s, d) \cup {u} ELSE Using(s, d) \ {u}
  <2>1. c \in ClassId \cup {NoClass}
    OBVIOUS
  <2>2. MovedOK(s, r, u, c, use)
    BY <1>1, <1>6, <1>7, <2>1, ClassChanged
  <2> QED BY <2>2 DEF MovedOK
<1>10. ASSUME ClassesOK(s) PROVE ClassesOK(r)
  <2>1. \A d \in ClassId : less[d] = Cardinality(Using(s, d) \ {u})
    BY <1>1, <1>10, UseWithoutExact DEF ClassesOK, less
  <2>2. Using(s, c) \in SUBSET Client /\ Using(s, c) \ {u} \in SUBSET Client
    BY CountsAreSets
  <2>3. Using(r, c) = (Using(s, c) \ {u}) \cup {u} /\ u \in Client \ (Using(s, c) \ {u})
    BY <1>9
  <2>4. Cardinality(Using(r, c)) = less[c] + 1 /\ less[c] + 1 \in 1..(Wrap - 1)
    BY <2>1, <2>2, <2>3, CardWith
  <2>5. use[c] = Cardinality(Using(r, c))
    BY <1>8, <2>4, WrapFacts
  <2>6. UseExact(r)
    BY <1>8, <1>9, <2>1, <2>5 DEF UseExact
  <2>7. WithinLimit(r, c)
    <3>1. CASE c = OperClass \/ Classes[c].limit = 0
      BY <3>1 DEF WithinLimit
    <3>2. CASE s.use[c] < Classes[c].limit
      <4>1. s.use[c] = Cardinality(Using(s, c))
        BY <1>10 DEF ClassesOK, UseExact
      <4>2. Cardinality(Using(s, c) \ {u}) <= Cardinality(Using(s, c))
        BY <2>2, CardOfClients, FS_Subset
      <4>3. less[c] \in Int /\ Cardinality(Using(s, c)) \in Int /\ Classes[c].limit \in Int
        BY <1>4, <2>2, CardOfClients, ClassIds
      <4>4. less[c] + 1 <= Classes[c].limit
        BY <2>1, <3>2, <4>1, <4>2, <4>3
      <4> QED BY <2>4, <4>4 DEF WithinLimit
    <3> QED BY <3>1, <3>2
  <2>8. \A d \in ClassId : d # c => WithinLimit(r, d)
    BY <1>9, <1>10, FewerWithin DEF ClassesOK
  <2> QED BY <2>6, <2>7, <2>8 DEF ClassesOK
<1> QED BY <1>9, <1>10 DEF r, Kept

(* A change that leads on from one that kept the counts keeps them. *)
LEMMA KeptTwice ==
    ASSUME NEW s, NEW q, NEW r, Kept(s, q), Kept(q, r)
    PROVE  Kept(s, r)
BY DEF Kept

(* QuitUser keeps the counts. *)
LEMMA QuitUserKept ==
    ASSUME NEW s, Sound(s), NEW u \in Client, Exists(s, u)
    PROVE  Kept(s, QuitUser(s, u)) /\ QuitUser(s, u).quitting[u]
BY QuitUserKeeps DEF Kept

(* A client in the list gets a class that has room, or is quit. *)
LEMMA ChangeKept ==
    ASSUME NEW s, Sound(s), NEW u \in Client, Listed(s, u), NEW c \in ClassId, NEW force,
           c = OperClass \/ Classes[c].limit = 0 \/ s.use[c] < Classes[c].limit
    PROVE  Kept(s, ChangeConnectClass(s, u, c, force))
<1>1. Exists(s, u) /\ ~s.quitting[u]
  BY DEF Listed
<1>2. CASE Restricted(s, u, c, force)
  <2>1. Kept(s, QuitUser(s, u)) /\ QuitUser(s, u).quitting[u]
    BY <1>1, QuitUserKept
  <2>2. ChangeConnectClass(s, u, c, force) = QuitUser(s, u)
    BY <1>2, <2>1 DEF ChangeConnectClass
  <2> QED BY <2>1, <2>2
<1>3. CASE ~Restricted(s, u, c, force)
  <2>1. ChangeConnectClass(s, u, c, force) = Entered(s, u, c)
    BY <1>1, <1>3 DEF ChangeConnectClass, Entered
  <2> QED BY <2>1, EnterKeeps
<1> QED BY <1>2, <1>3

(* A set of natural numbers that is not empty has a least element. *)
LEMMA LeastExists ==
    ASSUME NEW S, S \subseteq Nat, S # {}
    PROVE  \E n \in S : \A k \in S : n <= k
<1> DEFINE R == {ss \in Nat \X Nat : ss[1] < ss[2]}
<1>1. IsWellFoundedOn(R, Nat)
  BY NatLessThanWellFounded DEF OpToRel
<1> HIDE DEF R
<1>2. PICK n \in S : \A k \in S : ~ (<<k, n>> \in R)
  BY <1>1, WFMin
<1>3. ASSUME NEW k \in S PROVE n <= k
  <2>1. <<k, n>> \notin R /\ k \in Nat /\ n \in Nat
    BY <1>2
  <2> QED BY <2>1 DEF R
<1> QED BY <1>3

(* Min is in the set. *)
LEMMA HasMin ==
    ASSUME NEW S, S \subseteq Nat, S # {}
    PROVE  Min(S) \in S /\ \A k \in S : Min(S) <= k
BY LeastExists DEF Min

(* A client leaves its class and is quit. *)
LEMMA LeaveAndQuit ==
    ASSUME NEW s, Sound(s), NEW u \in Client, Listed(s, u)
    PROVE  Kept(s, QuitUser([Leave(s, s.class[u]) EXCEPT !.class[u] = NoClass], u))
<1> DEFINE r == [Leave(s, s.class[u]) EXCEPT !.class[u] = NoClass]
<1>1. Exists(s, u)
  BY DEF Listed
<1>2. Kept(s, r)
  BY <1>1, LeaveKeeps DEF Kept
<1> HIDE DEF r
<1>3. Sound(r) /\ Exists(r, u)
  BY <1>1, <1>2 DEF Kept, Exists
<1>4. Kept(r, QuitUser(r, u))
  BY <1>3, QuitUserKept
<1>5. Kept(s, QuitUser(r, u))
  BY <1>2, <1>4, KeptTwice
<1> QED BY <1>5 DEF r

(* FindConnectClass of a client in the list *)
LEMMA FindKept ==
    ASSUME NEW s, Sound(s), NEW u \in Client, Listed(s, u), NEW keepexisting
    PROVE  Kept(s, FindConnectClass(s, u, keepexisting))
<1> DEFINE fit == {c \in ClassId : Suitable(s, u, c)}
<1>1. CASE fit # {}
  <2>1. fit \subseteq ClassId /\ fit \subseteq Nat
    BY ClassIds
  <2>2. Min(fit) \in fit
    BY <1>1, <2>1, HasMin
  <2>3. FindConnectClass(s, u, keepexisting) = ChangeConnectClass(s, u, Min(fit), FALSE)
    BY <1>1 DEF FindConnectClass
  <2>4. Min(fit) \in ClassId /\ Suitable(s, u, Min(fit))
    BY <2>2
  <2> HIDE DEF fit
  <2>5. Classes[Min(fit)].limit = 0 \/ s.use[Min(fit)] < Classes[Min(fit)].limit
    BY <2>4 DEF Suitable
  <2> QED BY <2>3, <2>4, <2>5, ChangeKept
<1>2. CASE fit = {} /\ s.class[u] # NoClass /\ keepexisting
  <2>1. FindConnectClass(s, u, keepexisting) = s
    BY <1>2 DEF FindConnectClass
  <2> QED BY <2>1 DEF Kept
<1>3. CASE fit = {} /\ ~(s.class[u] # NoClass /\ keepexisting)
  <2>1. FindConnectClass(s, u, keepexisting) =
            QuitUser([Leave(s, s.class[u]) EXCEPT !.class[u] = NoClass], u)
    BY <1>3 DEF FindConnectClass
  <2> QED BY <2>1, LeaveAndQuit
<1> QED BY <1>1, <1>2, <1>3

(* FindConnectClass of a client that has quit: it may be taken off its class *)
(* once more, and has none then.                                             *)
LEMMA FindOfQuit ==
    ASSUME NEW s, Sound(s), NEW u \in Client, s.quitting[u],
           NEW f, f = FindConnectClass(s, u, FALSE)
    PROVE  /\ Sound(f) /\ f.quitting[u]
           /\ f.class[u] = s.class[u] => (ClassesOK(s) => ClassesOK(f))
<1> DEFINE fit == {c \in ClassId : Suitable(s, u, c)}
           r == [Leave(s, s.class[u]) EXCEPT !.class[u] = NoClass]
<1>1. CASE fit # {}
  <2>1. f = ChangeConnectClass(s, u, Min(fit), FALSE)
    BY <1>1 DEF FindConnectClass
  <2>2. QuitUser(s, u) = s
    BY DEF QuitUser
  <2>3. f = s
    BY <2>1, <2>2 DEF ChangeConnectClass
  <2> QED BY <2>3
<1>2. CASE fit = {}
  <2>1. f = QuitUser(r, u)
    BY <1>2 DEF FindConnectClass
  <2>2. Exists(s, u)
    BY DEF Sound, Lives
  <2>3. /\ Sound(r) /\ r.quitting = s.quitting /\ r.class = [s.class EXCEPT ![u] = NoClass]
    BY <2>2, LeaveKeeps
  <2> HIDE DEF r
  <2>4. f = r
    BY <2>1, <2>3 DEF QuitUser
  <2>5. r.class[u] = NoClass
    BY <2>3 DEF Sound, Lives, RegType
  <2>6. ASSUME s.class[u] = NoClass PROVE r = s
    <3>1. s \in RegType
      BY DEF Sound, Lives
    <3>2. r = [s EXCEPT !.class = [s.class EXCEPT ![u] = NoClass]]
      BY <2>6 DEF r, Leave
    <3>3. [s.class EXCEPT ![u] = NoClass] = s.class
      BY <2>6, <3>1 DEF RegType
    <3> QED BY <3>1, <3>2, <3>3 DEF RegType
  <2> QED BY <2>3, <2>4, <2>5, <2>6
<1> QED BY <1>1, <1>2

(* The classes are kept where neither the list nor the classes change. *)
LEMMA SameClasses ==
    ASSUME NEW s, NEW r, r.class = s.class, r.use = s.use,
           \A v \in Client : Listed(r, v) <=> Listed(s, v), ClassesOK(s)
    PROVE  ClassesOK(r)
<1>1. \A c : Using(r, c) = Using(s, c)
  BY DEF Using
<1> QED BY <1>1 DEF ClassesOK, UseExact, WithinLimit

(* The state of a client after another step of its registration *)
Advanced(s, u, k, n) == [s EXCEPT !.conn = [s.conn EXCEPT ![u] = k], !.unknown = n]

(* A client in the list that is not registered goes on, or is now. *)
LEMMA AdvanceKeeps ==
    ASSUME NEW s, Sound(s), NEW u \in Client, Listed(s, u), s.conn[u] # "full",
           NEW k \in {"nickuser", "full"}, NEW n \in Int,
           n = (IF k = "full" THEN s.unknown - 1 ELSE s.unknown),
           NEW r, r = Advanced(s, u, k, n)
    PROVE  Sound(r) /\ (ClassesOK(s) => ClassesOK(r))
<1>1. s \in RegType /\ Lives(s) /\ Counted(s)
  BY DEF Sound, Lives
<1>2. /\ s.conn \in [Client -> {"free", "none", "nickuser", "full"}]
      /\ [s.conn EXCEPT ![u] = k] \in [Client -> {"free", "none", "nickuser", "full"}]
  BY <1>1 DEF RegType
<1>3. r \in RegType
  BY <1>1, <1>2, RegWith DEF Advanced
<1>4. /\ r.conn = [s.conn EXCEPT ![u] = k] /\ r.unknown = n
      /\ r.quitting = s.quitting /\ r.class = s.class /\ r.place = s.place /\ r.oper = s.oper
      /\ r.use = s.use /\ r.clones = s.clones /\ r.culls = s.culls /\ r.sendq = s.sendq
  BY <1>1 DEF RegType, Advanced
<1>5. r.conn[u] = k /\ k # "free" /\ s.conn[u] # "free" /\ \A v \in Client : v # u => r.conn[v] = s.conn[v]
  BY <1>2, <1>4 DEF Listed, Exists
<1>6. \A v \in Client : Exists(r, v) <=> Exists(s, v)
  BY <1>5 DEF Exists
<1>7. \A v \in Client : Listed(r, v) <=> Listed(s, v)
  BY <1>4, <1>6 DEF Listed
<1>8. Lives(r)
  BY <1>1, <1>3, <1>4, <1>6 DEF Lives
<1>9. \A a : From(r, a) = From(s, a)
  BY <1>4, <1>6 DEF From
<1>10. u \in Unregistered(s) /\ Unregistered(s) \in SUBSET Client
  BY DEF Unregistered
<1>11. Unregistered(r) = IF k = "full" THEN Unregistered(s) \ {u} ELSE Unregistered(s)
  BY <1>5, <1>7, <1>10 DEF Unregistered
<1>12. s.unknown = Cardinality(Unregistered(s))
  BY <1>1 DEF Counted
<1>13. Cardinality(Unregistered(s) \ {u}) = Cardinality(Unregistered(s)) - 1
  BY <1>10, CardWithout
<1>14. r.unknown = Cardinality(Unregistered(r))
  BY <1>4, <1>11, <1>12, <1>13
<1>15. Counted(r)
  BY <1>1, <1>4, <1>9, <1>14 DEF Counted
<1>16. ClassesOK(s) => ClassesOK(r)
  BY <1>4, <1>7, SameClasses
<1> QED BY <1>8, <1>15, <1>16 DEF Sound

(* FullConnect of a client in the list *)
LEMMA FullConnectKeeps ==
    ASSUME NEW s, Sound(s), NEW u \in Client, Listed(s, u), s.conn[u] = "nickuser", NEW banned
    PROVE  LET r == FullConnect(s, u, banned) IN Sound(r) /\ (ClassesOK(s) => ClassesOK(r))
<1> DEFINE f == FindConnectClass(s, u, FALSE)
<1>1. Kept(s, f)
  BY FindKept
<1>2. Exists(f, u) /\ f.conn[u] = "nickuser" /\ Sound(f) /\ (ClassesOK(s) => ClassesOK(f))
  BY <1>1 DEF Kept, Exists
<1>3. CASE f.quitting[u]
  BY <1>2, <1>3 DEF FullConnect
<1>4. CASE ~f.quitting[u] /\ banned
  <2>1. Kept(f, QuitUser(f, u))
    BY <1>2, QuitUserKept
  <2>2. FullConnect(s, u, banned) = QuitUser(f, u)
    BY <1>4 DEF FullConnect
  <2> QED BY <1>2, <2>1, <2>2 DEF Kept
<1>5. CASE ~f.quitting[u] /\ ~banned
  <2> DEFINE n == f.unknown - 1
  <2>1. FullConnect(s, u, banned) =
            [f EXCEPT !.conn[u] = "full", !.unknown = IF f.unknown > 0 THEN f.unknown - 1 ELSE f.unknown]
    BY <1>5 DEF FullConnect
  <2> HIDE DEF f
  <2>2. Listed(f, u) /\ u \in Unregistered(f) /\ Unregistered(f) \in SUBSET Client
    BY <1>2, <1>5 DEF Listed, Unregistered
  <2>3. f.unknown \in 1..(Wrap - 1)
    BY <1>2, <2>2, CardWithout DEF Sound, Counted
  <2>4. f.unknown > 0 /\ n \in Int
    BY <2>3, WrapFacts
  <2>5. FullConnect(s, u, banned) = Advanced(f, u, "full", n)
    BY <2>1, <2>4 DEF Advanced
  <2> HIDE DEF n
  <2>6. n = IF "full" = "full" THEN f.unknown - 1 ELSE f.unknown
    BY DEF n
  <2>7. Sound(Advanced(f, u, "full", n)) /\ (ClassesOK(f) => ClassesOK(Advanced(f, u, "full", n)))
    BY <1>2, <2>2, <2>4, <2>6, AdvanceKeeps
  <2> QED BY <1>2, <2>5, <2>7
<1> QED BY <1>3, <1>4, <1>5

(* The state after a connection from a is accepted *)
NewClient(s, u, a) ==
    [s EXCEPT !.conn = [s.conn EXCEPT ![u] = "none"], !.place = [s.place EXCEPT ![u] = a],
              !.unknown = s.unknown + 1, !.clones = [s.clones EXCEPT ![a] = s.clones[a] + 1]]

(* A new client is counted as unregistered and as a clone, and has no class. *)
LEMMA AddKeeps ==
    ASSUME NEW s, Sound(s), NEW u \in Client, ~Exists(s, u), NEW a \in Place,
           NEW r, r = NewClient(s, u, a)
    PROVE  Sound(r) /\ (ClassesOK(s) => ClassesOK(r)) /\ Listed(r, u)
<1>1. s \in RegType /\ Lives(s) /\ Counted(s)
  BY DEF Sound, Lives
<1>2. /\ s.conn \in [Client -> {"free", "none", "nickuser", "full"}]
      /\ s.place \in [Client -> Place] /\ s.clones \in [Place -> Int] /\ s.unknown \in Int
  BY <1>1 DEF RegType
<1> DEFINE conn == [s.conn EXCEPT ![u] = "none"]
           place == [s.place EXCEPT ![u] = a]
           n == s.unknown + 1
           clones == [s.clones EXCEPT ![a] = s.clones[a] + 1]
<1>3. /\ conn \in [Client -> {"free", "none", "nickuser", "full"}]
      /\ place \in [Client -> Place] /\ clones \in [Place -> Int] /\ n \in Int
  BY <1>2
<1>4. r = [s EXCEPT !.conn = conn, !.place = place, !.unknown = n, !.clones = clones]
  BY DEF NewClient
<1> HIDE DEF conn, place, n, clones
<1>5. /\ r \in RegType /\ r.conn = conn /\ r.place = place /\ r.unknown = n /\ r.clones = clones
      /\ r.quitting = s.quitting /\ r.class = s.class /\ r.oper = s.oper
      /\ r.use = s.use /\ r.culls = s.culls /\ r.sendq = s.sendq
  BY <1>1, <1>3, <1>4 DEF RegType
<1>6. r.conn[u] = "none" /\ r.place[u] = a
      /\ \A v \in Client : v # u => r.conn[v] = s.conn[v] /\ r.place[v] = s.place[v]
  BY <1>2, <1>5 DEF conn, place
<1>7. Exists(r, u) /\ \A v \in Client : v # u => (Exists(r, v) <=> Exists(s, v))
  BY <1>6 DEF Exists
<1>8. u \notin s.culls /\ ~s.quitting[u] /\ s.class[u] = NoClass
  BY <1>1 DEF Lives
<1>9. /\ Listed(r, u) /\ ~Listed(s, u)
      /\ \A v \in Client : v # u => (Listed(r, v) <=> Listed(s, v))
  BY <1>5, <1>7, <1>8 DEF Listed
<1>10. Lives(r)
  BY <1>1, <1>5, <1>7 DEF Lives
<1>11. r.unknown = Cardinality(Unregistered(r))
  <2>1. Unregistered(r) = Unregistered(s) \cup {u} /\ u \notin Unregistered(s)
    BY <1>6, <1>9 DEF Unregistered
  <2>2. Cardinality(Unregistered(r)) = Cardinality(Unregistered(s)) + 1
    BY <2>1, CountsAreSets, CardWith
  <2> QED BY <1>1, <1>5, <2>2 DEF Counted, n
<1>12. ASSUME NEW b \in Place PROVE r.clones[b] = Cardinality(From(r, b))
  <2>1. u \notin From(s, b) /\ From(r, b) = IF b = a THEN From(s, b) \cup {u} ELSE From(s, b)
    BY <1>6, <1>7 DEF From
  <2>2. Cardinality(From(s, b) \cup {u}) = Cardinality(From(s, b)) + 1
    BY <2>1, CountsAreSets, CardWith
  <2>3. r.clones[b] = IF b = a THEN s.clones[b] + 1 ELSE s.clones[b]
    BY <1>2, <1>5 DEF clones
  <2>4. s.clones[b] = Cardinality(From(s, b))
    BY <1>1 DEF Counted
  <2> QED BY <2>1, <2>2, <2>3, <2>4
<1>13. ASSUME ClassesOK(s) PROVE ClassesOK(r)
  <2>1. \A c \in ClassId : Using(r, c) = Using(s, c)
    BY <1>5, <1>8, <1>9, ClassIds DEF Using
  <2> QED BY <1>5, <1>13, <2>1 DEF ClassesOK, UseExact, WithinLimit
<1> QED BY <1>9, <1>10, <1>11, <1>12, <1>13 DEF Sound, Counted

(* The state after a client's address has changed to a *)
Placed(s, u, a, clones) == [s EXCEPT !.place = [s.place EXCEPT ![u] = a], !.clones = clones]

(* A client that moves is counted at its new address and no longer at the old. *)
LEMMA PlaceKeeps ==
    ASSUME NEW s, Sound(s), NEW u \in Client, Exists(s, u), NEW a \in Place, a # s.place[u],
           NEW clones \in [Place -> Int],
           \A b \in Place : clones[b] = IF b = a THEN s.clones[b] + 1
                                        ELSE IF b = s.place[u] THEN s.clones[b] - 1 ELSE s.clones[b],
           NEW r, r = Placed(s, u, a, clones)
    PROVE  Sound(r) /\ (ClassesOK(s) => ClassesOK(r)) /\ (Listed(s, u) => Listed(r, u))
<1>1. s \in RegType /\ Lives(s) /\ Counted(s)
  BY DEF Sound, Lives
<1>2. s.place \in [Client -> Place] /\ [s.place EXCEPT ![u] = a] \in [Client -> Place]
  BY <1>1 DEF RegType
<1>3. r \in RegType
  BY <1>1, <1>2, RegWith DEF Placed
<1>4. /\ r.conn = s.conn /\ r.place = [s.place EXCEPT ![u] = a] /\ r.unknown = s.unknown
      /\ r.clones = clones /\ r.quitting = s.quitting /\ r.class = s.class /\ r.oper = s.oper
      /\ r.use = s.use /\ r.culls = s.culls /\ r.sendq = s.sendq
  BY <1>1 DEF RegType, Placed
<1>5. \A v \in Client : (Exists(r, v) <=> Exists(s, v)) /\ (Listed(r, v) <=> Listed(s, v))
  BY <1>4 DEF Exists, Listed
<1>6. Lives(r)
  BY <1>1, <1>3, <1>4, <1>5 DEF Lives
<1>7. Unregistered(r) = Unregistered(s)
  BY <1>4, <1>5 DEF Unregistered
<1>8. ASSUME NEW b \in Place PROVE r.clones[b] = Cardinality(From(r, b))
  <2>1. s.clones[b] = Cardinality(From(s, b)) /\ From(s, b) \in SUBSET Client
    BY <1>1, CountsAreSets DEF Counted
  <2>2. r.place[u] = a /\ \A v \in Client : v # u => r.place[v] = s.place[v]
    BY <1>2, <1>4
  <2>3. CASE b = a
    <3>1. u \notin From(s, b) /\ From(r, b) = From(s, b) \cup {u}
      BY <1>5, <2>2, <2>3 DEF From
    <3>2. Cardinality(From(r, b)) = Cardinality(From(s, b)) + 1
      BY <2>1, <3>1, CardWith
    <3> QED BY <1>4, <2>1, <2>3, <3>2
  <2>4. CASE b = s.place[u]
    <3>1. u \in From(s, b) /\ From(r, b) = From(s, b) \ {u}
      BY <1>5, <2>2, <2>4 DEF From
    <3>2. Cardinality(From(r, b)) = Cardinality(From(s, b)) - 1
      BY <2>1, <3>1, CardWithout
    <3> QED BY <1>4, <2>1, <2>4, <3>2
  <2>5. CASE b # a /\ b # s.place[u]
    <3>1. From(r, b) = From(s, b)
      BY <1>5, <2>2, <2>5 DEF From
    <3> QED BY <1>4, <2>1, <2>5, <3>1
  <2> QED BY <2>3, <2>4, <2>5
<1>9. Counted(r)
  BY <1>1, <1>4, <1>7, <1>8 DEF Counted
<1> QED BY <1>4, <1>5, <1>6, <1>9, SameClasses DEF Sound

(* What is not counted: operators, and clients with too much to send *)
LEMMA UncountedKeeps ==
    ASSUME NEW s, Sound(s), NEW r, r \in RegType, r.conn = s.conn, r.quitting = s.quitting,
           r.class = s.class, r.place = s.place, r.unknown = s.unknown, r.use = s.use,
           r.clones = s.clones, r.culls = s.culls,
           r.sendq \subseteq {v \in Client : Exists(s, v)},
           \A v \in Client : ~Exists(s, v) => ~r.oper[v]
    PROVE  Sound(r) /\ (ClassesOK(s) => ClassesOK(r))
<1>1. s \in RegType /\ Lives(s) /\ Counted(s)
  BY DEF Sound, Lives
<1>2. \A v \in Client : (Exists(r, v) <=> Exists(s, v)) /\ (Listed(r, v) <=> Listed(s, v))
  BY DEF Exists, Listed
<1>3. Lives(r)
  BY <1>1, <1>2 DEF Lives
<1>4. Unregistered(r) = Unregistered(s) /\ \A a : From(r, a) = From(s, a)
  BY <1>2 DEF Unregistered, From
<1>5. Counted(r)
  BY <1>1, <1>4 DEF Counted
<1> QED BY <1>2, <1>3, <1>5, SameClasses DEF Sound

(* A step that keeps the counts of the client it is about keeps the invariant. *)
LEMMA StepKeeps ==
    ASSUME CountInv, Sound(reg'), ClassesOK(reg) => ClassesOK(reg'), UNCHANGED twice
    PROVE  CountInv'
<1>1. ~twice' => ClassesOK(reg)'
  BY DEF CountInv, ClassesOK, UseExact, WithinLimit, Using, Listed, Exists
<1>2. Sound(reg)'
  BY DEF Sound, Lives, Counted, Unregistered, From, Listed, Exists, RegType
<1> QED BY <1>1, <1>2 DEF CountInv

(* AddUser keeps the invariant, whether or not the client is turned away. *)
LEMMA AddUserStep ==
    ASSUME CountInv, NEW u \in Client, NEW a \in Place, NEW banned \in BOOLEAN,
           AddUser(u, a, banned)
    PROVE  CountInv'
<1> DEFINE new == NewClient(reg, u, a)
           f == FindConnectClass(new, u, FALSE)
<1>1. Sound(reg) /\ reg \in RegType /\ ~Exists(reg, u)
  BY DEF CountInv, Sound, Lives, AddUser
<1>2. AddClone([reg EXCEPT !.conn[u] = "none", !.place[u] = a, !.unknown = @ + 1], u) = new
  BY <1>1 DEF AddClone, NewClient, RegType
<1>3. reg' = QuitUser(new, u) \/ reg' = QuitUser(f, u) \/ reg' = f
  BY <1>2 DEF AddUser
<1>4. Sound(new) /\ (ClassesOK(reg) => ClassesOK(new)) /\ Listed(new, u)
  BY <1>1, AddKeeps
<1> HIDE DEF new
<1>5. Kept(new, f)
  BY <1>4, FindKept
<1> HIDE DEF f
<1>6. Kept(new, QuitUser(new, u))
  BY <1>4, QuitUserKept DEF Listed
<1>7. Sound(f) /\ Exists(f, u)
  BY <1>4, <1>5 DEF Kept, Listed, Exists
<1>8. Kept(new, QuitUser(f, u))
  BY <1>5, <1>7, QuitUserKept, KeptTwice
<1>9. Sound(reg') /\ (ClassesOK(new) => ClassesOK(reg'))
  BY <1>3, <1>5, <1>6, <1>8 DEF Kept
<1> QED BY <1>4, <1>9, StepKeeps DEF AddUser

(* A client that has sent NICK and USER is still unregistered. *)
LEMMA NickUserStep ==
    ASSUME CountInv, NEW u \in Client, NickUser(u)
    PROVE  CountInv'
<1>1. Sound(reg) /\ reg \in RegType /\ Listed(reg, u) /\ reg.conn[u] = "none"
  BY DEF CountInv, Sound, Lives, NickUser
<1>2. reg' = Advanced(reg, u, "nickuser", reg.unknown)
  BY <1>1 DEF NickUser, Advanced, RegType
<1>3. reg.unknown \in Int /\ reg.unknown = IF "nickuser" = "full" THEN reg.unknown - 1 ELSE reg.unknown
  BY <1>1 DEF RegType
<1>4. Sound(reg') /\ (ClassesOK(reg) => ClassesOK(reg'))
  BY <1>1, <1>2, <1>3, AdvanceKeeps
<1> QED BY <1>4, StepKeeps DEF NickUser

(* A client that quits leaves every count but that of clones. *)
LEMMA DisconnectStep ==
    ASSUME CountInv, NEW u \in Client, Disconnect(u)
    PROVE  CountInv'
<1>1. Sound(reg) /\ Exists(reg, u) /\ reg' = QuitUser(reg, u)
  BY DEF CountInv, Disconnect, Listed
<1>2. Sound(reg') /\ (ClassesOK(reg) => ClassesOK(reg'))
  BY <1>1, QuitUserKept DEF Kept
<1> QED BY <1>2, StepKeeps DEF Disconnect

(* A client that moves is counted at its new address, and may lose its class. *)
LEMMA ChangeRemoteAddressStep ==
    ASSUME CountInv, NEW u \in Client, NEW a \in Place, ChangeRemoteAddress(u, a)
    PROVE  CountInv'
<1> DEFINE old == reg.place[u]
           gone == [reg.clones EXCEPT ![old] = IF @ > 0 THEN @ - 1 ELSE @]
           clones == [gone EXCEPT ![a] = @ + 1]
           r == Placed(reg, u, a, clones)
<1>1. Sound(reg) /\ reg \in RegType /\ Listed(reg, u) /\ Exists(reg, u) /\ a # old
  BY DEF CountInv, Sound, Lives, ChangeRemoteAddress, Listed
<1>2. reg.clones \in [Place -> Int] /\ reg.place \in [Client -> Place] /\ old \in Place
  BY <1>1 DEF RegType
<1>3. AddClone([RemoveCloneCounts(reg, u) EXCEPT !.place[u] = a], u) = r
  <2>1. RemoveCloneCounts(reg, u) = [reg EXCEPT !.clones = gone]
    BY <1>1 DEF RemoveCloneCounts, RegType
  <2> HIDE DEF gone
  <2>2. [RemoveCloneCounts(reg, u) EXCEPT !.place[u] = a] =
            [reg EXCEPT !.clones = gone, !.place = [reg.place EXCEPT ![u] = a]]
    BY <1>1, <2>1 DEF RegType
  <2> DEFINE t == [reg EXCEPT !.clones = gone, !.place = [reg.place EXCEPT ![u] = a]]
  <2>3. t.place[u] = a /\ t.clones = gone
    BY <1>1 DEF RegType
  <2>4. AddClone(t, u) = [t EXCEPT !.clones = [gone EXCEPT ![a] = @ + 1]]
    <3> HIDE DEF t
    <3> QED BY <2>3 DEF AddClone
  <2>5. [t EXCEPT !.clones = [gone EXCEPT ![a] = @ + 1]] = r
    BY <1>1 DEF Placed, RegType
  <2> QED BY <2>2, <2>4, <2>5
<1>4. reg.clones[old] > 0
  <2>1. u \in From(reg, old)
    BY <1>1 DEF From
  <2>2. Cardinality(From(reg, old)) \in 1..(Wrap - 1)
    BY <2>1, CountsAreSets, CardWithout
  <2>3. reg.clones[old] = Cardinality(From(reg, old))
    BY <1>1, <1>2 DEF Sound, Counted
  <2> QED BY <2>2, <2>3, WrapFacts
<1>5. gone \in [Place -> Int] /\ gone[old] = reg.clones[old] - 1
      /\ \A b \in Place : b # old => gone[b] = reg.clones[b]
  BY <1>2, <1>4
<1> HIDE DEF gone
<1>6. clones \in [Place -> Int]
  BY <1>5
<1>7. \A b \in Place : clones[b] = IF b = a THEN reg.clones[b] + 1
                                  ELSE IF b = old THEN reg.clones[b] - 1 ELSE reg.clones[b]
  BY <1>1, <1>5
<1>8. reg' = FindConnectClass(r, u, FALSE)
  BY <1>3 DEF ChangeRemoteAddress
<1> HIDE DEF clones, old
<1>9. Sound(r) /\ (ClassesOK(reg) => ClassesOK(r)) /\ Listed(r, u)
  BY <1>1, <1>6, <1>7, PlaceKeeps DEF old
<1> HIDE DEF r
<1>10. Kept(r, reg')
  BY <1>8, <1>9, FindKept
<1>11. Sound(reg') /\ (ClassesOK(reg) => ClassesOK(reg'))
  BY <1>9, <1>10 DEF Kept
<1> QED BY <1>11, StepKeeps DEF ChangeRemoteAddress

(* hasoperclass of a client changes *)
WithOper(s, u, b) == [s EXCEPT !.oper[u] = b]

(* Who is an operator is not counted. *)
LEMMA OperKeeps ==
    ASSUME NEW s, Sound(s), NEW u \in Client, Exists(s, u), NEW b \in BOOLEAN,
           NEW r, r = WithOper(s, u, b)
    PROVE  Sound(r) /\ (ClassesOK(s) => ClassesOK(r))
<1>1. s \in RegType /\ Lives(s)
  BY DEF Sound, Lives
<1>2. s.oper \in [Client -> BOOLEAN] /\ [s.oper EXCEPT ![u] = b] \in [Client -> BOOLEAN]
  BY <1>1 DEF RegType
<1>3. r = [s EXCEPT !.oper = [s.oper EXCEPT ![u] = b]]
  BY <1>1 DEF RegType, WithOper
<1>4. r \in RegType
  BY <1>1, <1>2, <1>3, RegWith
<1>5. /\ r.conn = s.conn /\ r.quitting = s.quitting /\ r.class = s.class /\ r.place = s.place
      /\ r.unknown = s.unknown /\ r.use = s.use /\ r.clones = s.clones /\ r.culls = s.culls
      /\ r.sendq = s.sendq /\ r.oper = [s.oper EXCEPT ![u] = b]
  BY <1>1, <1>3 DEF RegType
<1>6. s.sendq \subseteq {v \in Client : Exists(s, v)} /\ \A v \in Client : ~Exists(s, v) => ~s.oper[v]
  BY <1>1 DEF Lives
<1>7. \A v \in Client : ~Exists(s, v) => ~r.oper[v]
  BY <1>2, <1>5, <1>6
<1> QED BY <1>4, <1>5, <1>6, <1>7, UncountedKeeps

(* A login moves a client to the operators' class. *)
LEMMA OperLoginStep ==
    ASSUME CountInv, NEW u \in Client, OperLogin(u)
    PROVE  CountInv'
<1> DEFINE q == ChangeConnectClass(reg, u, OperClass, TRUE)
<1>1. Sound(reg) /\ Listed(reg, u) /\ Exists(reg, u) /\ reg' = WithOper(q, u, TRUE)
  BY DEF CountInv, OperLogin, Listed, WithOper
<1>2. Kept(reg, q)
  BY <1>1, ClassIds, ChangeKept
<1> HIDE DEF q
<1>3. Sound(q) /\ Exists(q, u) /\ (ClassesOK(reg) => ClassesOK(q))
  BY <1>1, <1>2 DEF Kept, Exists
<1>4. Sound(reg') /\ (ClassesOK(q) => ClassesOK(reg'))
  <2>1. TRUE \in BOOLEAN /\ FALSE \in BOOLEAN
    OBVIOUS
  <2> QED BY <1>1, <1>3, <2>1, OperKeeps
<1> QED BY <1>3, <1>4, StepKeeps DEF OperLogin

(* A logout finds another class, or keeps the one the client has. *)
LEMMA OperLogoutStep ==
    ASSUME CountInv, NEW u \in Client, OperLogout(u)
    PROVE  CountInv'
<1> DEFINE q == FindConnectClass(reg, u, TRUE)
<1>1. Sound(reg) /\ Listed(reg, u) /\ Exists(reg, u) /\ reg' = WithOper(q, u, FALSE)
  BY DEF CountInv, OperLogout, Listed, WithOper
<1>2. Kept(reg, q)
  BY <1>1, FindKept
<1> HIDE DEF q
<1>3. Sound(q) /\ Exists(q, u) /\ (ClassesOK(reg) => ClassesOK(q))
  BY <1>1, <1>2 DEF Kept, Exists
<1>4. Sound(reg') /\ (ClassesOK(q) => ClassesOK(reg'))
  <2>1. TRUE \in BOOLEAN /\ FALSE \in BOOLEAN
    OBVIOUS
  <2> QED BY <1>1, <1>3, <2>1, OperKeeps
<1> QED BY <1>3, <1>4, StepKeeps DEF OperLogout

(* A client with too much unsent data is noted, and counted as before. *)
LEMMA SendQExceededStep ==
    ASSUME CountInv, NEW u \in Client, SendQExceeded(u)
    PROVE  CountInv'
<1>1. Sound(reg) /\ reg \in RegType /\ Lives(reg) /\ Exists(reg, u)
      /\ reg' = [reg EXCEPT !.sendq = reg.sendq \cup {u}]
  BY DEF CountInv, SendQExceeded, Listed, Sound, Lives
<1>2. reg.sendq \cup {u} \in SUBSET Client
  BY <1>1 DEF RegType
<1>3. reg' \in RegType
  BY <1>1, <1>2, RegWith
<1>4. /\ reg'.conn = reg.conn /\ reg'.quitting = reg.quitting /\ reg'.class = reg.class
      /\ reg'.place = reg.place /\ reg'.unknown = reg.unknown /\ reg'.use = reg.use
      /\ reg'.clones = reg.clones /\ reg'.culls = reg.culls /\ reg'.oper = reg.oper
      /\ reg'.sendq = reg.sendq \cup {u}
  BY <1>1 DEF RegType
<1>5. reg'.sendq \subseteq {v \in Client : Exists(reg, v)}
  BY <1>1, <1>4 DEF Lives
<1>6. \A v \in Client : ~Exists(reg, v) => ~reg'.oper[v]
  BY <1>1, <1>4 DEF Lives
<1>7. Sound(reg') /\ (ClassesOK(reg) => ClassesOK(reg'))
  BY <1>1, <1>3, <1>4, <1>5, <1>6, UncountedKeeps
<1> QED BY <1>7, StepKeeps DEF SendQExceeded

(* Nobody waits to be culled, so that the clients in the list are all. *)
LEMMA RehashCloneCountsStep ==
    ASSUME CountInv, RehashCloneCounts
    PROVE  CountInv'
<1> DEFINE clones == [a \in Place |-> Cardinality({u \in Client : Listed(reg, u) /\ reg.place[u] = a})]
<1>1. Sound(reg) /\ reg \in RegType /\ Lives(reg) /\ Counted(reg) /\ reg.culls = {}
      /\ reg' = [reg EXCEPT !.clones = clones]
  BY DEF CountInv, RehashCloneCounts, Sound, Lives
<1>2. \A u \in Client : Listed(reg, u) <=> Exists(reg, u)
  BY <1>1 DEF Lives, Listed
<1>3. ASSUME NEW a \in Place PROVE clones[a] = reg.clones[a]
  <2>1. {u \in Client : Listed(reg, u) /\ reg.place[u] = a} = From(reg, a)
    BY <1>2 DEF From
  <2> QED BY <1>1, <2>1 DEF Counted
<1>4. reg.clones \in [Place -> Int]
  BY <1>1 DEF RegType
<1>5. DOMAIN clones = Place
  OBVIOUS
<1>6. clones = reg.clones
  <2>1. clones = [a \in Place |-> clones[a]] /\ reg.clones = [a \in Place |-> reg.clones[a]]
    BY <1>4
  <2> HIDE DEF clones
  <2> QED BY <1>3, <2>1
<1> HIDE DEF clones
<1>7. reg' = reg
  BY <1>1, <1>6 DEF RegType
<1> QED BY <1>1, <1>7, StepKeeps DEF RehashCloneCounts

(* A client's turn in the background: a command of its own may quit it, and *)
(* its registration goes on nevertheless.                                   *)
LEMMA BackgroundStep ==
    ASSUME CountInv, NEW u \in Client, NEW leaves \in BOOLEAN,
           NEW what \in {"nothing", "expired", "connects", "banned"}, Background(u, leaves, what)
    PROVE  CountInv'
<1> DEFINE s == IF leaves THEN QuitUser(reg, u) ELSE reg
<1>1. Sound(reg) /\ Listed(reg, u) /\ Exists(reg, u)
  BY DEF CountInv, Background, Listed
<1>2. Kept(reg, s)
  BY <1>1, QuitUserKept DEF Kept
<1>3. leaves => s.quitting[u]
  BY <1>1, QuitUserKept
<1>4. /\ twice' = (twice \/ (leaves /\ reg'.class[u] # s.class[u]))
      /\ reg' = CASE what = "nothing" -> s
                  [] what = "expired" -> QuitUser(s, u)
                  [] OTHER -> FullConnect(s, u, what = "banned")
      /\ what \in {"connects", "banned"} => reg.conn[u] = "nickuser"
  BY DEF Background
<1>5. ~leaves => s = reg
  OBVIOUS
<1> HIDE DEF s
<1>6. Sound(s) /\ Exists(s, u) /\ (ClassesOK(reg) => ClassesOK(s)) /\ s.conn = reg.conn
  BY <1>1, <1>2 DEF Kept, Exists
<1>7. SUFFICES /\ Sound(reg')
               /\ ~(leaves /\ reg'.class[u] # s.class[u]) => (ClassesOK(s) => ClassesOK(reg'))
  <2>1. twice \in BOOLEAN /\ (~twice => ClassesOK(reg))
    BY DEF CountInv
  <2>2. twice' \in BOOLEAN
    BY <1>4, <2>1
  <2>3. ~twice' => ClassesOK(reg')
    BY <1>4, <1>6, <1>7, <2>1
  <2>4. ~twice' => ClassesOK(reg)'
    BY <2>3 DEF ClassesOK, UseExact, WithinLimit, Using, Listed, Exists
  <2>5. Sound(reg)'
    BY <1>7 DEF Sound, Lives, Counted, Unregistered, From, Listed, Exists, RegType
  <2> QED BY <2>2, <2>4, <2>5 DEF CountInv
<1>8. CASE what = "nothing"
  BY <1>4, <1>6, <1>8
<1>9. CASE what = "expired"
  <2>1. reg' = QuitUser(s, u)
    BY <1>4, <1>9
  <2> QED BY <1>6, <2>1, QuitUserKept DEF Kept
<1>10. CASE what \in {"connects", "banned"}
  <2>1. reg' = FullConnect(s, u, what = "banned") /\ s.conn[u] = "nickuser"
    BY <1>4, <1>6, <1>10
  <2>2. CASE ~leaves
    BY <1>1, <1>5, <2>1, <2>2, FullConnectKeeps
  <2>3. CASE leaves
    <3> DEFINE f == FindConnectClass(s, u, FALSE)
    <3>1. /\ Sound(f) /\ f.quitting[u]
          /\ f.class[u] = s.class[u] => (ClassesOK(s) => ClassesOK(f))
      BY <1>3, <1>6, <2>3, FindOfQuit
    <3>2. reg' = f
      BY <2>1, <3>1 DEF FullConnect
    <3> HIDE DEF f
    <3> QED BY <2>3, <3>1, <3>2
  <2> QED BY <2>2, <2>3
<1> QED BY <1>8, <1>9, <1>10

-----------------------------------------------------------------------------
(* The loops of CullList::Apply *)

(* What is true of 0 and of the successor of every number it is true of is *)
(* true of every number.                                                   *)
LEMMA SetInduction ==
    ASSUME NEW S, 0 \in S, \A n \in Nat : n \in S => n + 1 \in S
    PROVE  Nat \subseteq S
<1> DEFINE T == {n \in Nat : n \notin S}
<1> SUFFICES ASSUME T # {} PROVE FALSE
  OBVIOUS
<1>1. T \subseteq Nat
  OBVIOUS
<1>2. PICK n \in T : \A k \in T : n <= k
  BY <1>1, LeastExists
<1>4. n \in Nat /\ n \notin S /\ \A k \in T : n <= k
  BY <1>2
<1>5. n # 0 /\ n - 1 \in Nat
  BY <1>4
<1>6. n - 1 \in S
  BY <1>4, <1>5 DEF T
<1> QED BY <1>4, <1>5, <1>6

(* The two loops, and one turn of each *)
Loops == {"quit", "cull"}

Turn(loop, s, u) == IF loop = "quit" THEN QuitUser(s, u) ELSE RemoveCloneCounts(s, u)

Some(S) == CHOOSE x \in S : TRUE

TurnOf(loop, s, g, S) == IF S = {} THEN s ELSE Turn(loop, g[S \ {Some(S)}], Some(S))

LoopFun(loop, s, T, g) == [S \in SUBSET T |-> TurnOf(loop, s, g, S)]

(* The state after the loop has handled the clients of S, of those of T *)
After(loop, s, T, S) == (CHOOSE g : g = LoopFun(loop, s, T, g))[S]

(* The folds of ApplyCulls are the loops. *)
LEMMA FoldsAreLoops ==
    ASSUME NEW s, NEW T
    PROVE  /\ FoldSet(LAMBDA u, t : QuitUser(t, u), s, T) = After("quit", s, T, T)
           /\ FoldSet(LAMBDA u, t : RemoveCloneCounts(t, u), s, T) = After("cull", s, T, T)
<1>1. FoldSet(LAMBDA u, t : QuitUser(t, u), s, T) = After("quit", s, T, T)
  BY DEF FoldSet, MapThenFoldSet, After, LoopFun, TurnOf, Turn, Some
<1>2. FoldSet(LAMBDA u, t : RemoveCloneCounts(t, u), s, T) = After("cull", s, T, T)
  BY DEF FoldSet, MapThenFoldSet, After, LoopFun, TurnOf, Turn, Some
<1> QED BY <1>1, <1>2

(* g is right about the sets of at most n clients. *)
RightUpTo(loop, s, T, g, n) ==
    /\ g = [S \in SUBSET T |-> g[S]]
    /\ \A S \in SUBSET T : Cardinality(S) <= n => g[S] = TurnOf(loop, s, g, S)

(* A set that is not empty is larger than without one of its elements. *)
LEMMA Smaller ==
    ASSUME NEW T \in SUBSET Client, NEW S \in SUBSET T, S # {}
    PROVE  /\ Some(S) \in S /\ Some(S) \in Client /\ S \ {Some(S)} \in SUBSET T
           /\ Cardinality(S) \in Nat /\ Cardinality(S \ {Some(S)}) = Cardinality(S) - 1
<1>1. Some(S) \in S
  BY DEF Some
<1>2. Cardinality(S \ {Some(S)}) = Cardinality(S) - 1 /\ Cardinality(S) \in 1..(Wrap - 1)
  BY <1>1, CardWithout
<1>3. Cardinality(S) \in Nat
  BY <1>2, WrapFacts
<1> QED BY <1>1, <1>2, <1>3

(* A loop that is right about n clients is right about one more. *)
LEMMA OneMore ==
    ASSUME NEW loop, NEW s, NEW T \in SUBSET Client, NEW n \in Nat,
           NEW g, RightUpTo(loop, s, T, g, n)
    PROVE  RightUpTo(loop, s, T, LoopFun(loop, s, T, g), n + 1)
<1> DEFINE h == LoopFun(loop, s, T, g)
<1>1. h = [S \in SUBSET T |-> h[S]] /\ \A S \in SUBSET T : h[S] = TurnOf(loop, s, g, S)
  BY DEF LoopFun
<1> HIDE DEF h
<1>2. ASSUME NEW S \in SUBSET T, Cardinality(S) <= n + 1
      PROVE  h[S] = TurnOf(loop, s, h, S)
  <2>1. CASE S = {}
    BY <1>1, <2>1 DEF TurnOf
  <2>2. CASE S # {}
    <3>1. S \ {Some(S)} \in SUBSET T /\ Cardinality(S) \in Nat
          /\ Cardinality(S \ {Some(S)}) = Cardinality(S) - 1
      BY <2>2, Smaller
    <3>2. Cardinality(S \ {Some(S)}) <= n
      BY <1>2, <3>1
    <3>3. g[S \ {Some(S)}] = h[S \ {Some(S)}]
      BY <1>1, <3>1, <3>2 DEF RightUpTo
    <3>4. h[S] = Turn(loop, g[S \ {Some(S)}], Some(S))
      BY <1>1, <2>2 DEF TurnOf
    <3> QED BY <2>2, <3>3, <3>4 DEF TurnOf
  <2> QED BY <2>1, <2>2
<1>3. RightUpTo(loop, s, T, h, n + 1)
  BY <1>1, <1>2 DEF RightUpTo
<1> QED BY <1>3 DEF h

(* There is such a function: the loop ends. *)
LEMMA LoopExists ==
    ASSUME NEW loop, NEW s, NEW T \in SUBSET Client
    PROVE  \E g : g = LoopFun(loop, s, T, g)
<1> DEFINE N == {n \in Nat : \E g : RightUpTo(loop, s, T, g, n)}
<1>1. 0 \in N
  <2> DEFINE g == [S \in SUBSET T |-> s]
  <2>1. g = [S \in SUBSET T |-> g[S]] /\ \A S \in SUBSET T : g[S] = s
    OBVIOUS
  <2> HIDE DEF g
  <2>2. ASSUME NEW S \in SUBSET T, Cardinality(S) <= 0 PROVE S = {}
    <3>1. S \in SUBSET Client /\ Cardinality(S) \in 0..(Wrap - 1)
      BY CardOfClients
    <3>2. Cardinality(S) = 0
      BY <2>2, <3>1, WrapFacts
    <3> QED BY <3>1, <3>2, CardOfClients
  <2>3. RightUpTo(loop, s, T, g, 0)
    BY <2>1, <2>2 DEF RightUpTo, TurnOf
  <2> QED BY <2>3
<1>2. ASSUME NEW n \in Nat, n \in N PROVE n + 1 \in N
  <2>1. PICK g : RightUpTo(loop, s, T, g, n)
    BY <1>2
  <2>2. RightUpTo(loop, s, T, LoopFun(loop, s, T, g), n + 1)
    BY <2>1, OneMore
  <2> QED BY <2>2
<1>3. Nat \subseteq N
  <2> HIDE DEF N
  <2> QED BY <1>1, <1>2, SetInduction
<1>4. Cardinality(T) \in Nat
  BY CardOfClients, WrapFacts
<1>5. PICK g : RightUpTo(loop, s, T, g, Cardinality(T))
  BY <1>3, <1>4
<1>6. ASSUME NEW S \in SUBSET T PROVE Cardinality(S) <= Cardinality(T)
  BY CardOfClients, FS_Subset
<1>7. g = [S \in SUBSET T |-> g[S]] /\ \A S \in SUBSET T : g[S] = TurnOf(loop, s, g, S)
  BY <1>5, <1>6 DEF RightUpTo
<1>8. g = LoopFun(loop, s, T, g)
  BY <1>7 DEF LoopFun
<1> QED BY <1>8

(* The loop, one turn at a time *)
LEMMA LoopIs ==
    ASSUME NEW loop, NEW s, NEW T \in SUBSET Client, NEW S \in SUBSET T
    PROVE  /\ S = {} => After(loop, s, T, S) = s
           /\ S # {} => /\ Some(S) \in S
                        /\ After(loop, s, T, S) = Turn(loop, After(loop, s, T, S \ {Some(S)}), Some(S))
<1> DEFINE g == CHOOSE g : g = LoopFun(loop, s, T, g)
<1>1. g = LoopFun(loop, s, T, g)
  BY LoopExists
<1>2. \A R : After(loop, s, T, R) = g[R]
  BY DEF After
<1> HIDE DEF g
<1>3. g[S] = TurnOf(loop, s, g, S)
  BY <1>1 DEF LoopFun
<1>4. S # {} => Some(S) \in S
  BY DEF Some
<1> QED BY <1>2, <1>3, <1>4 DEF TurnOf

(* The clients with too much unsent data are quit. *)
LEMMA QuitLoopKeeps ==
    ASSUME NEW s, Sound(s), NEW T \in SUBSET Client, \A u \in T : Exists(s, u)
    PROVE  Kept(s, After("quit", s, T, T))
<1> DEFINE N == {n \in Nat : \A S \in SUBSET T : Cardinality(S) = n => Kept(s, After("quit", s, T, S))}
<1>1. 0 \in N
  <2> SUFFICES ASSUME NEW S \in SUBSET T, Cardinality(S) = 0 PROVE Kept(s, After("quit", s, T, S))
    OBVIOUS
  <2>1. S = {}
    BY CardOfClients
  <2>2. After("quit", s, T, S) = s
    BY <2>1, LoopIs
  <2> QED BY <2>2 DEF Kept
<1>2. ASSUME NEW n \in Nat, n \in N PROVE n + 1 \in N
  <2> SUFFICES ASSUME NEW S \in SUBSET T, Cardinality(S) = n + 1
               PROVE  Kept(s, After("quit", s, T, S))
    OBVIOUS
  <2> DEFINE x == Some(S)
             b == After("quit", s, T, S \ {x})
  <2>1. S # {}
    BY FS_EmptySet
  <2>2. x \in S /\ x \in Client /\ S \ {x} \in SUBSET T /\ Cardinality(S \ {x}) = Cardinality(S) - 1
    BY <2>1, Smaller
  <2>3. Cardinality(S \ {x}) = n
    BY <2>2
  <2>4. Kept(s, b)
    BY <1>2, <2>2, <2>3
  <2>5. After("quit", s, T, S) = QuitUser(b, x)
    BY <2>1, LoopIs DEF Turn
  <2> HIDE DEF b, x
  <2>6. Sound(b) /\ Exists(b, x)
    BY <2>2, <2>4 DEF Kept, Exists
  <2>7. Kept(b, QuitUser(b, x))
    BY <2>2, <2>6, QuitUserKept
  <2> QED BY <2>4, <2>5, <2>7, KeptTwice
<1>3. Nat \subseteq N
  <2> HIDE DEF N
  <2> QED BY <1>1, <1>2, SetInduction
<1>4. Cardinality(T) \in Nat
  BY CardOfClients, WrapFacts
<1> QED BY <1>3, <1>4

(* The clones that are left without those of S *)
ClonesLeft(s, S) == [a \in Place |-> Cardinality(From(s, a) \ S)]

WithoutClones(s, S) == [s EXCEPT !.clones = ClonesLeft(s, S)]

(* One client of the list is taken off the clones of its address. *)
LEMMA CullTurn ==
    ASSUME NEW s, Sound(s), NEW S \in SUBSET Client, NEW x \in S, Exists(s, x)
    PROVE  RemoveCloneCounts(WithoutClones(s, S \ {x}), x) = WithoutClones(s, S)
<1> DEFINE b == WithoutClones(s, S \ {x})
           p == s.place[x]
           old == ClonesLeft(s, S \ {x})
<1>1. s \in RegType
  BY DEF Sound, Lives
<1>2. b.place = s.place /\ b.clones = old /\ p \in Place
  BY <1>1 DEF WithoutClones, RegType
<1>3. x \in From(s, p) \ (S \ {x}) /\ From(s, p) \in SUBSET Client
  BY DEF From
<1>4. (From(s, p) \ (S \ {x})) \ {x} = From(s, p) \ S
  BY <1>3
<1>5. /\ Cardinality(From(s, p) \ S) = Cardinality(From(s, p) \ (S \ {x})) - 1
      /\ Cardinality(From(s, p) \ (S \ {x})) \in 1..(Wrap - 1)
  BY <1>3, <1>4, CardWithout
<1>6. old[p] > 0 /\ old[p] - 1 = Cardinality(From(s, p) \ S)
  BY <1>2, <1>5, WrapFacts DEF ClonesLeft
<1>7. \A a \in Place : a # p => From(s, a) \ (S \ {x}) = From(s, a) \ S
  BY DEF From
<1>8. old = [a \in Place |-> old[a]] /\ \A a \in Place : a # p => old[a] = ClonesLeft(s, S)[a]
  BY <1>7 DEF ClonesLeft
<1>9. ClonesLeft(s, S)[p] = Cardinality(From(s, p) \ S)
  BY <1>2 DEF ClonesLeft
<1> HIDE DEF old
<1>10. [old EXCEPT ![p] = old[p] - 1] = ClonesLeft(s, S)
  <2>1. [old EXCEPT ![p] = old[p] - 1] = [a \in Place |-> IF a = p THEN old[p] - 1 ELSE old[a]]
    BY <1>8
  <2>2. ClonesLeft(s, S) = [a \in Place |-> ClonesLeft(s, S)[a]]
    BY DEF ClonesLeft
  <2> QED BY <1>6, <1>8, <1>9, <2>1, <2>2
<1>11. RemoveCloneCounts(b, x) = [b EXCEPT !.clones = [old EXCEPT ![p] = old[p] - 1]]
  <2> HIDE DEF b
  <2> QED BY <1>2, <1>6 DEF RemoveCloneCounts
<1>12. RemoveCloneCounts(b, x) = [b EXCEPT !.clones = ClonesLeft(s, S)]
  BY <1>10, <1>11
<1>13. [b EXCEPT !.clones = ClonesLeft(s, S)] = WithoutClones(s, S)
  BY <1>1 DEF WithoutClones, RegType
<1> QED BY <1>12, <1>13

(* Every client of the list is taken off the clones. *)
LEMMA CullLoopIs ==
    ASSUME NEW s, Sound(s), NEW T \in SUBSET Client, \A u \in T : Exists(s, u)
    PROVE  After("cull", s, T, T) = WithoutClones(s, T)
<1> DEFINE N == {n \in Nat : \A S \in SUBSET T :
                    Cardinality(S) = n => After("cull", s, T, S) = WithoutClones(s, S)}
<1>1. 0 \in N
  <2> SUFFICES ASSUME NEW S \in SUBSET T, Cardinality(S) = 0
               PROVE  After("cull", s, T, S) = WithoutClones(s, S)
    OBVIOUS
  <2>1. S = {}
    BY CardOfClients
  <2>2. After("cull", s, T, S) = s
    BY <2>1, LoopIs
  <2>3. s \in RegType /\ Counted(s) /\ s.clones \in [Place -> Int]
    BY DEF Sound, Lives, RegType
  <2>4. \A a \in Place : s.clones[a] = Cardinality(From(s, a) \ S)
    BY <2>1, <2>3 DEF Counted
  <2>5. s.clones = ClonesLeft(s, S)
    <3>1. s.clones = [a \in Place |-> s.clones[a]]
      BY <2>3
    <3> QED BY <2>4, <3>1 DEF ClonesLeft
  <2>6. WithoutClones(s, S) = s
    BY <2>3, <2>5 DEF WithoutClones, RegType
  <2> QED BY <2>2, <2>6
<1>2. ASSUME NEW n \in Nat, n \in N PROVE n + 1 \in N
  <2> SUFFICES ASSUME NEW S \in SUBSET T, Cardinality(S) = n + 1
               PROVE  After("cull", s, T, S) = WithoutClones(s, S)
    OBVIOUS
  <2> DEFINE x == Some(S)
  <2>1. S # {}
    BY FS_EmptySet
  <2>2. x \in S /\ x \in Client /\ S \ {x} \in SUBSET T /\ Cardinality(S \ {x}) = Cardinality(S) - 1
    BY <2>1, Smaller
  <2>3. Cardinality(S \ {x}) = n
    BY <2>2
  <2>4. After("cull", s, T, S \ {x}) = WithoutClones(s, S \ {x})
    BY <1>2, <2>2, <2>3
  <2>5. After("cull", s, T, S) = RemoveCloneCounts(After("cull", s, T, S \ {x}), x)
    <3>1. After("cull", s, T, S) = Turn("cull", After("cull", s, T, S \ {x}), x)
      BY <2>1, LoopIs
    <3>2. "cull" # "quit"
      OBVIOUS
    <3> QED BY <3>1, <3>2 DEF Turn
  <2> HIDE DEF x
  <2>6. RemoveCloneCounts(WithoutClones(s, S \ {x}), x) = WithoutClones(s, S)
    BY <2>2, CullTurn
  <2> QED BY <2>4, <2>5, <2>6
<1>3. Nat \subseteq N
  <2> HIDE DEF N
  <2> QED BY <1>1, <1>2, SetInduction
<1>4. Cardinality(T) \in Nat
  BY CardOfClients, WrapFacts
<1> QED BY <1>3, <1>4

(* The state when the clients on the list are deleted *)
Culled(s) ==
    [s EXCEPT
       !.conn = [u \in Client |-> IF u \in s.culls THEN "free" ELSE s.conn[u]],
       !.quitting = [u \in Client |-> IF u \in s.culls THEN FALSE ELSE s.quitting[u]],
       !.class = [u \in Client |-> IF u \in s.culls THEN NoClass ELSE s.class[u]],
       !.oper = [u \in Client |-> IF u \in s.culls THEN FALSE ELSE s.oper[u]],
       !.clones = ClonesLeft(s, s.culls), !.culls = {}, !.sendq = {}]

(* The clients that are deleted had left the list. *)
LEMMA CulledKeeps ==
    ASSUME NEW s, Sound(s), NEW r, r = Culled(s)
    PROVE  Sound(r) /\ (ClassesOK(s) => ClassesOK(r))
<1> DEFINE conn == [u \in Client |-> IF u \in s.culls THEN "free" ELSE s.conn[u]]
           quitting == [u \in Client |-> IF u \in s.culls THEN FALSE ELSE s.quitting[u]]
           class == [u \in Client |-> IF u \in s.culls THEN NoClass ELSE s.class[u]]
           oper == [u \in Client |-> IF u \in s.culls THEN FALSE ELSE s.oper[u]]
           clones == ClonesLeft(s, s.culls)
<1>1. s \in RegType /\ Lives(s) /\ Counted(s)
  BY DEF Sound, Lives
<1>2. /\ conn \in [Client -> {"free", "none", "nickuser", "full"}]
      /\ quitting \in [Client -> BOOLEAN] /\ class \in [Client -> ClassId \cup {NoClass}]
      /\ oper \in [Client -> BOOLEAN]
  BY <1>1 DEF RegType
<1>3. clones \in [Place -> Int]
  <2>1. ASSUME NEW a \in Place PROVE Cardinality(From(s, a) \ s.culls) \in Int
    <3>1. From(s, a) \ s.culls \in SUBSET Client
      BY CountsAreSets
    <3> QED BY <3>1, CardOfClients, WrapFacts
  <2> QED BY <2>1 DEF ClonesLeft
<1>4. \A u \in Client :
          IF u \in s.culls THEN conn[u] = "free" /\ ~quitting[u] /\ class[u] = NoClass /\ ~oper[u]
          ELSE /\ conn[u] = s.conn[u] /\ quitting[u] = s.quitting[u]
               /\ class[u] = s.class[u] /\ oper[u] = s.oper[u]
  OBVIOUS
<1>5. r = [s EXCEPT !.conn = conn, !.quitting = quitting, !.class = class, !.oper = oper,
                    !.clones = clones, !.culls = {}, !.sendq = {}]
  BY DEF Culled
<1> HIDE DEF conn, quitting, class, oper, clones
<1>6. /\ r \in RegType /\ r.conn = conn /\ r.quitting = quitting /\ r.class = class /\ r.oper = oper
      /\ r.clones = clones /\ r.culls = {} /\ r.sendq = {}
      /\ r.place = s.place /\ r.unknown = s.unknown /\ r.use = s.use
  <2>1. r = [conn |-> conn, quitting |-> quitting, class |-> class, place |-> s.place, oper |-> oper,
             unknown |-> s.unknown, use |-> s.use, clones |-> clones, culls |-> {}, sendq |-> {}]
    BY <1>1, <1>5 DEF RegType
  <2>2. /\ s.place \in [Client -> Place] /\ s.unknown \in Int /\ s.use \in [ClassId -> 0..(Wrap - 1)]
        /\ {} \in SUBSET Client
    BY <1>1 DEF RegType
  <2>3. r \in RegType
    BY <1>2, <1>3, <2>1, <2>2 DEF RegType
  <2> QED BY <2>1, <2>3
<1>7. \A u \in Client : u \in s.culls <=> s.quitting[u]
  BY <1>1 DEF Lives
<1>8. \A u \in Client : ~quitting[u]
  BY <1>4, <1>7
<1>9. \A u \in Client : Exists(r, u) <=> Exists(s, u) /\ u \notin s.culls
  BY <1>4, <1>6 DEF Exists
<1>10. \A u \in Client : Listed(r, u) <=> Listed(s, u)
  BY <1>6, <1>7, <1>8, <1>9 DEF Listed
<1>11. Lives(r)
  <2>1. \A u \in Client : ~Exists(r, u) => r.class[u] = NoClass /\ ~r.oper[u]
    BY <1>1, <1>4, <1>6, <1>9 DEF Lives
  <2> QED BY <1>6, <1>8, <2>1 DEF Lives
<1>12. \A u \in Client : Listed(s, u) => r.conn[u] = s.conn[u] /\ r.class[u] = s.class[u]
  BY <1>4, <1>6, <1>7 DEF Listed
<1>13. Unregistered(r) = Unregistered(s) /\ \A c : Using(r, c) = Using(s, c)
  BY <1>10, <1>12 DEF Unregistered, Using
<1>14. ASSUME NEW a \in Place PROVE r.clones[a] = Cardinality(From(r, a))
  <2>1. From(r, a) = From(s, a) \ s.culls
    BY <1>6, <1>9 DEF From
  <2> QED BY <1>6, <2>1 DEF clones, ClonesLeft
<1>15. Counted(r)
  BY <1>1, <1>6, <1>13, <1>14 DEF Counted
<1>16. ClassesOK(s) => ClassesOK(r)
  BY <1>6, <1>13 DEF ClassesOK, UseExact, WithinLimit
<1> QED BY <1>11, <1>15, <1>16 DEF Sound

(* CullList::Apply keeps the counts: both loops, then the deletion. *)
LEMMA ApplyCullsStep ==
    ASSUME CountInv, ApplyCulls
    PROVE  CountInv'
<1> DEFINE quit == After("quit", reg, reg.sendq, reg.sendq)
           gone == After("cull", quit, quit.culls, quit.culls)
<1>1. Sound(reg) /\ reg.sendq \in SUBSET Client /\ \A u \in reg.sendq : Exists(reg, u)
  BY DEF CountInv, Sound, Lives, RegType
<1>2. reg' = [gone EXCEPT
                !.conn = [u \in Client |-> IF u \in quit.culls THEN "free" ELSE @[u]],
                !.quitting = [u \in Client |-> IF u \in quit.culls THEN FALSE ELSE @[u]],
                !.class = [u \in Client |-> IF u \in quit.culls THEN NoClass ELSE @[u]],
                !.oper = [u \in Client |-> IF u \in quit.culls THEN FALSE ELSE @[u]],
                !.culls = {}, !.sendq = {}]
  <2>1. FoldSet(LAMBDA u, s : QuitUser(s, u), reg, reg.sendq) = quit
    BY FoldsAreLoops
  <2>2. FoldSet(LAMBDA u, s : RemoveCloneCounts(s, u), quit, quit.culls) = gone
    BY FoldsAreLoops
  <2> HIDE DEF quit, gone
  <2> QED BY <2>1, <2>2 DEF ApplyCulls
<1>3. Kept(reg, quit)
  BY <1>1, QuitLoopKeeps
<1> HIDE DEF quit
<1>4. Sound(quit) /\ (ClassesOK(reg) => ClassesOK(quit))
  BY <1>3 DEF Kept
<1>5. quit \in RegType /\ quit.culls \in SUBSET Client /\ \A u \in quit.culls : Exists(quit, u)
  BY <1>4 DEF Sound, Lives, RegType
<1>6. gone = WithoutClones(quit, quit.culls)
  BY <1>4, <1>5, CullLoopIs
<1> HIDE DEF gone
<1>7. gone = [quit EXCEPT !.clones = ClonesLeft(quit, quit.culls)]
  BY <1>6 DEF WithoutClones
<1>8. /\ gone.conn = quit.conn /\ gone.quitting = quit.quitting /\ gone.class = quit.class
      /\ gone.oper = quit.oper
  BY <1>5, <1>7 DEF RegType
<1>9. reg' = [gone EXCEPT
                !.conn = [u \in Client |-> IF u \in quit.culls THEN "free" ELSE quit.conn[u]],
                !.quitting = [u \in Client |-> IF u \in quit.culls THEN FALSE ELSE quit.quitting[u]],
                !.class = [u \in Client |-> IF u \in quit.culls THEN NoClass ELSE quit.class[u]],
                !.oper = [u \in Client |-> IF u \in quit.culls THEN FALSE ELSE quit.oper[u]],
                !.culls = {}, !.sendq = {}]
  BY <1>2, <1>8
<1>10. reg' = Culled(quit)
  BY <1>5, <1>7, <1>9 DEF Culled, RegType
<1>11. Sound(reg') /\ (ClassesOK(quit) => ClassesOK(reg'))
  BY <1>4, <1>10, CulledKeeps
<1> QED BY <1>4, <1>11, StepKeeps DEF ApplyCulls

(* Nobody is connected at first. *)
LEMMA CountInit == ClientsInit => CountInv
<1> SUFFICES ASSUME ClientsInit PROVE CountInv
  OBVIOUS
<1> DEFINE p == CHOOSE a \in Place : TRUE
<1>1. p \in Place
  BY ClientsAssumption
<1>2. 0 \in Int /\ 0 \in 0..(Wrap - 1)
  BY WrapFacts
<1>3. /\ reg.conn = [u \in Client |-> "free"] /\ reg.quitting = [u \in Client |-> FALSE]
      /\ reg.class = [u \in Client |-> NoClass] /\ reg.oper = [u \in Client |-> FALSE]
      /\ reg.unknown = 0 /\ reg.use = [c \in ClassId |-> 0] /\ reg.clones = [a \in Place |-> 0]
      /\ reg.culls = {} /\ reg.sendq = {}
  BY DEF ClientsInit
<1>4. reg \in RegType
  <2> HIDE DEF p
  <2>1. reg = [ conn |-> [u \in Client |-> "free"], quitting |-> [u \in Client |-> FALSE],
                class |-> [u \in Client |-> NoClass], place |-> [u \in Client |-> p],
                oper |-> [u \in Client |-> FALSE], unknown |-> 0, use |-> [c \in ClassId |-> 0],
                clones |-> [a \in Place |-> 0], culls |-> {}, sendq |-> {} ]
    BY DEF ClientsInit, p
  <2> QED BY <1>1, <1>2, <2>1 DEF RegType
<1>5. \A u \in Client : ~Exists(reg, u) /\ ~Listed(reg, u) /\ ~reg.quitting[u]
                        /\ reg.class[u] = NoClass /\ ~reg.oper[u]
  BY <1>3 DEF Exists, Listed
<1>6. Lives(reg)
  BY <1>3, <1>4, <1>5 DEF Lives
<1>7. Unregistered(reg) = {} /\ (\A a : From(reg, a) = {}) /\ \A c : Using(reg, c) = {}
  BY <1>5 DEF Unregistered, From, Using
<1>8. Cardinality({}) = 0
  BY FS_EmptySet
<1>9. Counted(reg)
  BY <1>3, <1>7, <1>8 DEF Counted
<1>10. UseExact(reg)
  BY <1>3, <1>7, <1>8 DEF UseExact
<1>11. \A c \in ClassId : WithinLimit(reg, c)
  BY <1>7, <1>8, ClassIds DEF WithinLimit
<1>12. twice \in BOOLEAN
  BY DEF ClientsInit
<1> QED BY <1>6, <1>9, <1>10, <1>11, <1>12 DEF CountInv, Sound, ClassesOK

(* Every step keeps the invariant. *)
LEMMA CountStep == CountInv /\ [ClientsNext]_clientsVars => CountInv'
<1> SUFFICES ASSUME CountInv, [ClientsNext]_clientsVars PROVE CountInv'
  OBVIOUS
<1>1. CASE UNCHANGED clientsVars
  <2>1. reg' = reg /\ twice' = twice
    BY <1>1 DEF clientsVars
  <2>2. Sound(reg') /\ (ClassesOK(reg) => ClassesOK(reg'))
    BY <2>1 DEF CountInv
  <2> QED BY <2>1, <2>2, StepKeeps
<1>2. CASE ClientsNext
  BY <1>2, AddUserStep, BackgroundStep, ChangeRemoteAddressStep, NickUserStep, DisconnectStep,
     OperLoginStep, OperLogoutStep, SendQExceededStep, ApplyCullsStep, RehashCloneCountsStep
     DEF ClientsNext
<1> QED BY <1>1, <1>2

(* The counts are the numbers of clients they stand for. *)
LEMMA CountsAreExact == CountInv => CountersExact
<1> SUFFICES ASSUME CountInv PROVE CountersExact
  OBVIOUS
<1>1. reg \in RegType /\ Lives(reg) /\ Counted(reg) /\ twice \in BOOLEAN /\ (~twice => ClassesOK(reg))
  BY DEF CountInv, Sound, Lives
<1>2. Cardinality(Client) \in Nat /\ \A S \in SUBSET Client : Cardinality(S) \in 0..Cardinality(Client)
  <2>1. Cardinality(Client) \in Nat
    BY ClientsAssumption, FS_CardinalityType
  <2>2. ASSUME NEW S \in SUBSET Client PROVE Cardinality(S) \in 0..Cardinality(Client)
    <3>1. IsFiniteSet(S) /\ Cardinality(S) <= Cardinality(Client)
      BY ClientsAssumption, FS_Subset
    <3>2. Cardinality(S) \in Nat
      BY <3>1, FS_CardinalityType
    <3> QED BY <2>1, <3>1, <3>2
  <2> QED BY <2>1, <2>2
<1>3. UnknownExact
  BY <1>1 DEF UnknownExact, Counted, Unregistered
<1>4. ClonesExact
  BY <1>1 DEF ClonesExact, Counted, From
<1>5. UseCountExact
  BY <1>1 DEF UseCountExact, ClassesOK, UseExact, Using
<1>6. LimitKept
  BY <1>1 DEF LimitKept, ClassesOK, WithinLimit, Using
<1>7. ClientsTypeOK
  <2>1. reg.unknown \in 0..Cardinality(Client)
    BY <1>1, <1>2, CountsAreSets DEF Counted
  <2>2. \A a \in Place : reg.clones[a] \in 0..Cardinality(Client)
    BY <1>1, <1>2, CountsAreSets DEF Counted
  <2>3. reg.clones \in [Place -> 0..Cardinality(Client)]
    BY <1>1, <2>2 DEF RegType
  <2>4. /\ reg.conn \in [Client -> {"free", "none", "nickuser", "full"}]
        /\ reg.quitting \in [Client -> BOOLEAN]
        /\ reg.class \in [Client -> ClassId \cup {NoClass}]
        /\ reg.place \in [Client -> Place] /\ reg.oper \in [Client -> BOOLEAN]
        /\ reg.use \in [ClassId -> 0..(Wrap - 1)] /\ reg.sendq \subseteq Client
    BY <1>1 DEF RegType
  <2> QED BY <1>1, <2>1, <2>3, <2>4 DEF ClientsTypeOK, Lives
<1> QED BY <1>3, <1>4, <1>5, <1>6, <1>7 DEF CountersExact

(* The counters of UserManager and of the classes are exact and the limits *)
(* that are computed from them are kept, however clients come, change      *)
(* class, move and leave, for any number of clients, addresses and         *)
(* classes.                                                                *)
THEOREM CountersAreExact == ClientsSpec => []CountersExact
<1>1. ClientsInit => CountInv
  BY CountInit
<1>2. CountInv /\ [ClientsNext]_clientsVars => CountInv'
  BY CountStep
<1>3. CountInv => CountersExact
  BY CountsAreExact
<1> QED BY <1>1, <1>2, <1>3, PTL DEF ClientsSpec
=============================================================================
