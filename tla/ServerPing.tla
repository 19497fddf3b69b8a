----------------------------- MODULE ServerPing -----------------------------
(***************************************************************************)
(* The ping timer one server keeps for every other server of the network.  *)
(* What lies between the two servers is a FIFO path; only a server linked  *)
(* directly is dropped when it does not answer.  Time passes in seconds,   *)
(* and a rehash can change the intervals between any two steps of a timer. *)
(***************************************************************************)
EXTENDS Integers, Sequences

CONSTANTS
    Peer,        \* the other servers
    LocalPeer,   \* those linked to us directly
    PingSetting, \* the <freq, warn> pairs that the configuration can hold
    MaxAge       \* bound: seconds after which the age of a ping is not counted

ASSUME ServerPingAssumption ==
    /\ LocalPeer \subseteq Peer
    /\ PingSetting \subseteq (Nat \ {0}) \X Nat
    /\ MaxAge \in Nat

VARIABLES
    setting,   \* <<PingFreq, PingWarnTime>>
    pstate,    \* PingTimer::state, or "DEAD" once the server is gone
    due,       \* seconds until Tick(), -1: not in the timer list
    pings,     \* PINGs of ours on their way to the peer
    answers,   \* what the peer sent us, oldest first
    bursting,  \* TreeServer::IsBursting()
    forced,    \* history: a PONG ended a burst
    age        \* history: seconds since the PING that is not answered

pingVars == <<setting, pstate, due, pings, answers, bursting, forced, age>>

PingFreq == setting[1]

PingWarnTime == setting[2]

(* ReadConfiguration drops a warning time that is not below the frequency *)
Sane(s) == IF s[2] >= s[1] THEN <<s[1], 0>> ELSE s

-----------------------------------------------------------------------------
(* PingTimer::SetState: IDLE leaves the timer out of the list *)
IntervalMutant(state) ==
    CASE state \in {"SENDPING", "TIMEOUT"} -> PingFreq
      [] state = "WARN" -> PingWarnTime
      [] state = "IDLE" -> -1

Interval(state) ==
    CASE state = "SENDPING" -> PingFreq
      [] state = "WARN" -> PingWarnTime
      [] state = "TIMEOUT" -> PingFreq - PingWarnTime
      [] state = "IDLE" -> -1

SetState(p, state) ==
    /\ pstate' = [pstate EXCEPT ![p] = state]
    /\ due' = [due EXCEPT ![p] = Interval(state)]

(* PingTimer::Tick *)
SendPing(p) ==
    /\ due[p] = 0
    /\ pstate[p] = "SENDPING"
    /\ pings' = [pings EXCEPT ![p] = @ + 1]
    /\ SetState(p, IF PingWarnTime # 0 THEN "WARN" ELSE "TIMEOUT")
    /\ UNCHANGED <<setting, answers, bursting, forced, age>>

Warn(p) ==
    /\ due[p] = 0
    /\ pstate[p] = "WARN"
    /\ SetState(p, "TIMEOUT")
    /\ UNCHANGED <<setting, pings, answers, bursting, forced, age>>

(* Closing the socket of a server loses what is on the way. *)
TimedOut(p) ==
    /\ due[p] = 0
    /\ pstate[p] = "TIMEOUT"
    /\ IF p \in LocalPeer
       THEN /\ pstate' = [pstate EXCEPT ![p] = "DEAD"]
            /\ due' = [due EXCEPT ![p] = -1]
            /\ pings' = [pings EXCEPT ![p] = 0]
            /\ answers' = [answers EXCEPT ![p] = <<>>]
            /\ age' = [age EXCEPT ![p] = 0]
       ELSE SetState(p, "IDLE") /\ UNCHANGED <<pings, answers, age>>
    /\ UNCHANGED <<setting, bursting, forced>>

-----------------------------------------------------------------------------
(* CommandPing at the peer *)
Answer(p) ==
    /\ pings[p] > 0
    /\ pings' = [pings EXCEPT ![p] = @ - 1]
    /\ answers' = [answers EXCEPT ![p] = Append(@, "PONG")]
    /\ UNCHANGED <<setting, pstate, due, bursting, forced, age>>

(* CommandPong: a PONG ends a burst, then restarts the timer *)
Pong(p) ==
    /\ answers[p] # <<>>
    /\ Head(answers[p]) = "PONG"
    /\ answers' = [answers EXCEPT ![p] = Tail(@)]
    /\ bursting' = [bursting EXCEPT ![p] = FALSE]
    /\ forced' = (forced \/ bursting[p])
    /\ age' = [age EXCEPT ![p] = 0]
    /\ SetState(p, "SENDPING")
    /\ UNCHANGED <<setting, pings>>

EndBurst(p) ==
    /\ answers[p] # <<>>
    /\ Head(answers[p]) = "ENDBURST"
    /\ answers' = [answers EXCEPT ![p] = Tail(@)]
    /\ bursting' = [bursting EXCEPT ![p] = FALSE]
    /\ UNCHANGED <<setting, pstate, due, pings, forced, age>>

(* The server splits; its path and its timer go with it. *)
Lose(p) ==
    /\ pstate[p] # "DEAD"
    /\ pstate' = [pstate EXCEPT ![p] = "DEAD"]
    /\ due' = [due EXCEPT ![p] = -1]
    /\ pings' = [pings EXCEPT ![p] = 0]
    /\ answers' = [answers EXCEPT ![p] = <<>>]
    /\ age' = [age EXCEPT ![p] = 0]
    /\ UNCHANGED <<setting, bursting, forced>>

(* A new TreeServer: its burst is written in one go, so the ENDBURST is on *)
(* the path before the peer can read anything of ours.                     *)
NewServer(p) ==
    /\ pstate[p] = "DEAD"
    /\ bursting' = [bursting EXCEPT ![p] = TRUE]
    /\ answers' = [answers EXCEPT ![p] = <<"ENDBURST">>]
    /\ SetState(p, "SENDPING")
    /\ UNCHANGED <<setting, pings, forced, age>>

-----------------------------------------------------------------------------
Rehash(s) ==
    /\ setting # Sane(s)
    /\ setting' = Sane(s)
    /\ UNCHANGED <<pstate, due, pings, answers, bursting, forced, age>>

Unanswered(p) == pings[p] > 0 \/ \E k \in 1..Len(answers[p]) : answers[p][k] = "PONG"

Older(a) == IF a < MaxAge THEN a + 1 ELSE a

(* TickTimers() runs every second, so no timer is due while time passes. *)
Second ==
    /\ \A p \in Peer : due[p] # 0
    /\ due' = [p \in Peer |-> IF due[p] > 0 THEN due[p] - 1 ELSE due[p]]
    /\ age' = [p \in Peer |-> IF Unanswered(p) THEN Older(age[p]) ELSE age[p]]
    /\ UNCHANGED <<setting, pstate, pings, answers, bursting, forced>>

-----------------------------------------------------------------------------
PingInit ==
    /\ setting \in {Sane(s) : s \in PingSetting}
    /\ pstate = [p \in Peer |-> "DEAD"]
    /\ due = [p \in Peer |-> -1]
    /\ pings = [p \in Peer |-> 0]
    /\ answers = [p \in Peer |-> <<>>]
    /\ bursting = [p \in Peer |-> FALSE]
    /\ forced = FALSE
    /\ age = [p \in Peer |-> 0]

PeerStep(p) ==
    \/ SendPing(p)
    \/ Warn(p)
    \/ TimedOut(p)
    \/ Answer(p)
    \/ Pong(p)
    \/ EndBurst(p)
    \/ Lose(p)
    \/ NewServer(p)

PingNext ==
    \/ \E p \in Peer : PeerStep(p)
    \/ \E s \in PingSetting : Rehash(s)
    \/ Second

PingSpec == PingInit /\ [][PingNext]_pingVars

-----------------------------------------------------------------------------
PingTypeOK ==
    /\ setting \in {Sane(s) : s \in PingSetting}
    /\ pstate \in [Peer -> {"SENDPING", "WARN", "TIMEOUT", "IDLE", "DEAD"}]
    /\ \A p \in Peer : due[p] >= -1
    /\ pings \in [Peer -> Nat]
    /\ bursting \in [Peer -> BOOLEAN]
    /\ \A p \in Peer : answers[p] \in Seq({"PONG", "ENDBURST"})
    /\ forced \in BOOLEAN
    /\ \A p \in Peer : age[p] \in 0..MaxAge

(* A PING is on its way, in either direction, exactly while the timer of a *)
(* server waits for it: no second PING is sent before the first is         *)
(* answered, and a late PONG finds a timer that it restarts.               *)
OnePingOutstanding ==
    \A p \in Peer :
        /\ pings[p] <= 1
        /\ \A j, k \in 1..Len(answers[p]) :
             answers[p][j] = "PONG" /\ answers[p][k] = "PONG" => j = k /\ pings[p] = 0
        /\ Unanswered(p) <=> pstate[p] \in {"WARN", "TIMEOUT", "IDLE"}

(* The longest a timer can wait between the PING and giving up, with a *)
(* rehash at the worst moment.                                         *)
Patience(limit) ==
    \A s1, s2 \in PingSetting :
        limit >= Sane(s1)[2] + Sane(s2)[1] - Sane(s2)[2]

(* A directly linked server that does not answer is dropped in time: no    *)
(* PING to it is older than the longest wait that two configurations can   *)
(* add up to, whenever the rehash comes.                                   *)
DroppedInTime ==
    \A p \in LocalPeer : \A s \in 0..MaxAge : Patience(s) => age[p] <= s

(* A PONG never ends a burst: ENDBURST is on the same path, in front of it. *)
PongNeverEndsBurst == ~forced

(* The ping timer of every server is exact: one PING at a time, given up in *)
(* time, and answered without cutting a burst short.                        *)
PingsKept == PingTypeOK /\ OnePingOutstanding /\ DroppedInTime /\ PongNeverEndsBurst
=============================================================================
