------------------------------- MODULE Timers -------------------------------
(***************************************************************************)
(* The timer manager (src/timer.cpp, include/timer.h).  The map of pending *)
(* timers is a sequence ordered by trigger.  TickTimers is one step for    *)
(* each timer it runs: a Tick() may destroy its own timer, start it again, *)
(* or create and destroy others, as the timers of the server do.           *)
(***************************************************************************)
EXTENDS Integers, Sequences, Functions, Erasing

CONSTANTS
    Timer,      \* timer objects, by their addresses
    Seconds,    \* intervals
    MaxTime     \* bound on the time

(* A repeating timer with the interval 0 would keep TickTimers from ending *)
ASSUME TimerAssumption == Seconds \subseteq Nat \ {0} /\ MaxTime \in Nat \ {0} /\ "end" \notin Timer

VARIABLES
    timers,     \* TimerManager::Timers: [trigger, timer]
    trigger,    \* [timer -> Timer::trigger]
    secs,       \* [timer -> Timer::secs]
    repeat,     \* [timer -> Timer::repeat]
    exists,     \* timers that exist
    time,       \* ServerInstance->Time()
    ticking,    \* TickTimers runs
    next,       \* the timer its iterator is at, or "end"
    dangling    \* history: the element that the iterator was at was erased

timerVars == <<timers, trigger, secs, repeat, exists, time, ticking, next, dangling>>

TimerInit ==
    /\ timers = <<>>
    /\ trigger = [t \in Timer |-> 0] /\ secs = [t \in Timer |-> 0] /\ repeat = [t \in Timer |-> FALSE]
    /\ exists = {} /\ time = 1
    /\ ticking = FALSE /\ next = "end" /\ dangling = FALSE

-----------------------------------------------------------------------------

Entry(t, at) == [trigger |-> at, timer |-> t]

(* AddTimer: after the entries with the same or an earlier trigger *)
Added(map, t, at) ==
    LET later == {e \in Range(map) : e.trigger > at}
    IN  Append(Erased(map, later), Entry(t, at)) \o Erased(map, Range(map) \ later)

(* DelTimer for the timers D: among the entries with the timer's trigger *)
DelTimers(map, D) == Erased(map, {Entry(t, trigger[t]) : t \in D})

(* Where the iterator stands *)
Position(t) == CHOOSE n \in DOMAIN timers : timers[n].timer = t

(* ... and where once that element is erased *)
Following(t) == IF Position(t) = Len(timers) THEN "end" ELSE timers[Position(t) + 1].timer

(* A timer is made and added by code that is not a Tick() *)
CreateTimer(t, s, r) ==
    /\ ~ticking /\ t \notin exists
    /\ exists' = exists \cup {t}
    /\ secs' = [secs EXCEPT ![t] = s] /\ repeat' = [repeat EXCEPT ![t] = r]
    /\ trigger' = [trigger EXCEPT ![t] = time + s]
    /\ timers' = Added(timers, t, time + s)
    /\ UNCHANGED <<time, ticking, next, dangling>>

(* SetInterval with restart *)
SetInterval(t, s) ==
    /\ ~ticking /\ t \in exists
    /\ secs' = [secs EXCEPT ![t] = s]
    /\ trigger' = [trigger EXCEPT ![t] = time + s]
    /\ timers' = Added(DelTimers(timers, {t}), t, time + s)
    /\ UNCHANGED <<repeat, exists, time, ticking, next, dangling>>

(* The state of destroyed timers, which nothing reads any more *)
NoTimers(f, D, v) == [t \in Timer |-> IF t \in D THEN v ELSE f[t]]

DestroyTimer(t) ==
    /\ ~ticking /\ t \in exists
    /\ exists' = exists \ {t}
    /\ timers' = DelTimers(timers, {t})
    /\ trigger' = NoTimers(trigger, {t}, 0) /\ secs' = NoTimers(secs, {t}, 0)
    /\ repeat' = NoTimers(repeat, {t}, FALSE)
    /\ UNCHANGED <<time, ticking, next, dangling>>

-----------------------------------------------------------------------------
(* TickTimers *)

(* The clock moves on, perhaps by more than a second, and TickTimers begins *)
TickBegins(d) ==
    /\ ~ticking /\ time + d <= MaxTime
    /\ time' = time + d
    /\ ticking' = TRUE
    /\ next' = IF timers = <<>> THEN "end" ELSE Head(timers).timer
    /\ UNCHANGED <<timers, trigger, secs, repeat, exists, dangling>>

MayRunMutant == next # "end" /\ trigger[next] < time

MayRun == next # "end" /\ trigger[next] <= time

(* Tick() destroys the timer and returns false, or returns true with the timer *)
(* as it was or restarted (only timers that do not repeat restart themselves); *)
(* it may have destroyed other timers D and made the timer c, as               *)
(* ReconnectTimer does, which leads to the next ReconnectTimer.                *)
TimerTicks(how, s, D, c) ==
    LET t == next
        gone == D \cup (IF how = "destroyed" THEN {t} ELSE {})
        again == IF how = "restarted" THEN s ELSE secs[t]
        pending == how = "restarted" \/ (how = "kept" /\ repeat[t])
        left == DelTimers(Erased(timers, {timers[Position(t)]}), D)
        made == IF c = "end" THEN left ELSE Added(left, c, time + s)
    IN  /\ ticking /\ MayRun /\ ~dangling
        /\ D \subseteq exists \ {t} /\ c \notin exists
        /\ how = "restarted" => ~repeat[t]
        /\ exists' = (exists \ gone) \cup ({c} \ {"end"})
        /\ repeat' = NoTimers(repeat, gone \cup {c}, FALSE)
        /\ secs' = [x \in Timer |-> IF x \in gone THEN 0 ELSE IF x = t THEN again
                                    ELSE IF x = c THEN s ELSE secs[x]]
        /\ trigger' = [x \in Timer |-> IF x \in gone THEN 0 ELSE IF x = t /\ pending THEN time + again
                                       ELSE IF x = c THEN time + s ELSE trigger[x]]
        /\ timers' = IF pending THEN Added(made, t, time + again) ELSE made
        /\ next' = Following(t)
        /\ dangling' = (Following(t) \in D)
        /\ UNCHANGED <<time, ticking>>

TickEnds ==
    /\ ticking /\ ~MayRun /\ ~dangling
    /\ ticking' = FALSE /\ next' = "end"
    /\ UNCHANGED <<timers, trigger, secs, repeat, exists, time, dangling>>

TimerNext ==
    \/ \E t \in Timer, s \in Seconds, r \in BOOLEAN : CreateTimer(t, s, r)
    \/ \E t \in Timer, s \in Seconds : SetInterval(t, s)
    \/ \E t \in Timer : DestroyTimer(t)
    \/ \E d \in {1, 2} : TickBegins(d)
    \/ \E how \in {"destroyed", "kept", "restarted"}, s \in Seconds, D \in SUBSET exists,
         c \in Timer \cup {"end"} : TimerTicks(how, s, D, c)
    \/ TickEnds

TimerSpec == TimerInit /\ [][TimerNext]_timerVars

-----------------------------------------------------------------------------

TimerTypeOK ==
    /\ \A n \in DOMAIN timers : timers[n].trigger \in Nat /\ timers[n].timer \in Timer
    /\ trigger \in [Timer -> Nat] /\ secs \in [Timer -> Seconds \cup {0}] /\ repeat \in [Timer -> BOOLEAN]
    /\ exists \subseteq Timer /\ time \in 1 .. MaxTime
    /\ next \in Timer \cup {"end"}

(* The map holds a timer at most once, under the trigger that the timer has    *)
(* and in the order of the triggers, and holds none that was destroyed.        *)
MapIsExact ==
    /\ \A i, j \in DOMAIN timers : i < j => /\ timers[i].timer # timers[j].timer
                                            /\ timers[i].trigger <= timers[j].trigger
    /\ \A n \in DOMAIN timers : /\ timers[n].timer \in exists
                                /\ timers[n].trigger = trigger[timers[n].timer]

(* "This will ensure timers are not missed": after TickTimers no timer that is *)
(* due is left, however far the clock moved, and a timer that repeats is       *)
(* pending again within its interval (unless a Tick() destroyed the very timer *)
(* that the iterator had moved on to).                                         *)
NoTimerMissed ==
    ~ticking =>
        /\ \A n \in DOMAIN timers : timers[n].trigger > time
        /\ \A t \in exists : repeat[t] => \E n \in DOMAIN timers :
                                /\ timers[n].timer = t
                                /\ timers[n].trigger <= time + secs[t]

(* The map is exact during a tick, when timers add and remove each other,  *)
(* and complete after it.                                                  *)
TimersKept == TimerTypeOK /\ MapIsExact /\ NoTimerMissed
=============================================================================
