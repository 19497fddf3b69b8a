---------------------------- MODULE CommandQueue ----------------------------
(***************************************************************************)
(* The lines of one connected client between its socket and the command    *)
(* parser: SocketUserIO::OnDataReady (modules/core/clients.cpp),           *)
(* CommandParser::ProcessCommand (src/commands.cpp), the queue limits of   *)
(* LocalUserIO (src/users.cpp) and the work that is done once a second for *)
(* every user (src/usermanager.cpp).                                       *)
(*                                                                         *)
(* A line is two pieces of the stream, its text and its end, so that it    *)
(* can arrive in parts.  Penalties and queues are in units.                *)
(***************************************************************************)
EXTENDS Integers, Sequences

CONSTANTS
    LineKind,       \* lines other than PONG and QUIT
    UnknownKind,    \* those of them that name no command
    ClientLine,     \* what the client sends of its own accord
    Penalty,        \* [LineKind -> Nat]: what ProcessCommand adds for the line
    ReplySize,      \* [LineKind -> Nat]: what is written to the client for it
    PenaltyMax,     \* <connect:threshold>
    CommandRate,    \* <connect:commandrate>
    SoftSendQ, HardSendQ, RecvQ,    \* <connect:softsendq>, hardsendq, recvq
    PingTime,       \* <connect:pingfreq>
    ConnectTag,     \* the connect classes and privileges: [fakelag, exempt]
    MaxLine,        \* bound: lines that the client sends, answers to PINGs not counted
    MaxSendQ        \* bound: what others write to a user that has no limit

VARIABLES
    tag,            \* the class of the user
    inbound,        \* pieces that have been sent and not received
    recvq, checkedUntil,
    floodPenalty,   \* CommandFloodPenalty
    outq,           \* size of the queue of what is to be sent
    nextping,       \* seconds until nextping
    lastping,       \* the last PING was answered
    pinged,         \* a PING that the client has not answered: "no", "queued" or "seen"
    sqItem,         \* quitting_sendq: quit when the cull list is applied
    gone,           \* the user has quit
    doing,          \* where the server is
    quota,          \* lines that the client may still send
    owed            \* history: the pieces that were sent and not handed to the parser

End == "end"

ASSUME QueueAssumption ==
    /\ LineKind \cap {"PONG", "QUIT", End} = {}
    /\ ClientLine \subseteq LineKind \cup {"PONG", "QUIT"}
    /\ Penalty \in [LineKind -> Nat] /\ ReplySize \in [LineKind -> Nat]
    /\ PenaltyMax \in Nat \ {0} /\ CommandRate \in Nat \ {0}
    /\ HardSendQ \in Nat \ {0} /\ SoftSendQ \in Nat /\ RecvQ \in Nat
    /\ PingTime \in Nat /\ MaxLine \in Nat /\ MaxSendQ \in Nat
    /\ ConnectTag \subseteq [fakelag : BOOLEAN, exempt : BOOLEAN]

queueVars ==
    <<tag, inbound, recvq, checkedUntil, floodPenalty, outq, nextping, lastping, pinged, sqItem,
      gone, doing, quota, owed>>

history == <<quota, owed>>

Reading == {"data", "tickData"}       \* OnDataReady runs, for an event or for the tick

-----------------------------------------------------------------------------
QueueInit ==
    /\ tag \in ConnectTag
    /\ inbound = <<>> /\ recvq = <<>> /\ checkedUntil = 0
    /\ floodPenalty = 0 /\ outq = 0
    /\ nextping = PingTime /\ lastping = TRUE /\ pinged = "no"
    /\ sqItem = FALSE /\ gone = FALSE
    /\ doing = "events"
    /\ quota = MaxLine /\ owed = <<>>

(* LocalUserIO::CheckMaxSendQ and Write: nothing more is queued for a user *)
(* that is to quit because of the queue.                                   *)
Fits(n) == tag.exempt \/ outq + n <= HardSendQ
WriteOut(n) ==
    /\ outq' = IF ~sqItem /\ Fits(n) THEN outq + n ELSE outq
    /\ sqItem' = (sqItem \/ (n > 0 /\ ~Fits(n)))

-----------------------------------------------------------------------------
(* The client and the network *)

ClientSends(k) ==
    /\ ~gone
    /\ quota > 0
    /\ quota' = quota - 1
    /\ inbound' = inbound \o <<k, End>>
    /\ owed' = owed \o <<k, End>>
    /\ UNCHANGED <<tag, recvq, checkedUntil, floodPenalty, outq, nextping, lastping, pinged, sqItem,
                   gone, doing>>

ClientAnswers ==
    /\ ~gone
    /\ pinged = "seen"
    /\ pinged' = "no"
    /\ inbound' = inbound \o <<"PONG", End>>
    /\ owed' = owed \o <<"PONG", End>>
    /\ UNCHANGED <<tag, recvq, checkedUntil, floodPenalty, outq, nextping, lastping, sqItem, gone,
                   doing, quota>>

(* The socket engine writes out a part of the queue *)
SocketWrites(n) ==
    /\ doing = "events" /\ ~gone
    /\ n \in 1..outq
    /\ outq' = outq - n
    /\ pinged' = IF pinged = "queued" /\ outq' = 0 THEN "seen" ELSE pinged
    /\ UNCHANGED <<tag, inbound, recvq, checkedUntil, floodPenalty, nextping, lastping, sqItem, gone,
                   doing, history>>

(* Somebody else's command writes to the user *)
OthersWrite(n) ==
    /\ doing = "events" /\ ~gone
    /\ outq + n <= MaxSendQ
    /\ WriteOut(n)
    /\ UNCHANGED <<tag, inbound, recvq, checkedUntil, floodPenalty, nextping, lastping, pinged, gone,
                   doing, history>>

-----------------------------------------------------------------------------
(* OnDataReady, first lines: a queue that is too long ends the connection *)
Overrun(q) == ~tag.exempt /\ Len(q) > RecvQ

(* The socket engine reads n pieces and calls OnDataReady *)
SocketReads(n) ==
    /\ doing = "events" /\ ~gone
    /\ n \in 1..Len(inbound)
    /\ inbound' = SubSeq(inbound, n + 1, Len(inbound))
    /\ recvq' = recvq \o SubSeq(inbound, 1, n)
    /\ gone' = Overrun(recvq')
    /\ doing' = IF gone' THEN "events" ELSE "data"
    /\ UNCHANGED <<tag, checkedUntil, floodPenalty, outq, nextping, lastping, pinged, sqItem, history>>

(* What follows OnDataReady *)
AfterData(a) == IF a = "tickData" THEN "ping" ELSE "events"

CanProcess == tag.exempt \/ (floodPenalty < PenaltyMax /\ outq < SoftSendQ)

(* The ends of lines that the search of OnDataReady finds, from where it   *)
(* stopped the last time; or from one piece further on.                    *)
LineEndsMutant == {k \in DOMAIN recvq : k > checkedUntil + 1 /\ recvq[k] = End}
LineEnds == {k \in DOMAIN recvq : k > checkedUntil /\ recvq[k] = End}
FirstEnd == CHOOSE k \in LineEnds : \A j \in LineEnds : k <= j

(* The loop of OnDataReady when no whole line is there *)
NoLine ==
    /\ doing \in Reading
    /\ CanProcess
    /\ LineEnds = {}
    /\ checkedUntil' = Len(recvq)
    /\ doing' = AfterData(doing)
    /\ UNCHANGED <<tag, inbound, recvq, floodPenalty, outq, nextping, lastping, pinged, sqItem, gone,
                   history>>

(* The loop of OnDataReady takes a line and CommandParser::ProcessCommand  *)
(* handles it.                                                             *)
TakeLine ==
    /\ doing \in Reading
    /\ CanProcess
    /\ LineEnds # {}
    /\ LET line == recvq[FirstEnd - 1]
       IN  /\ recvq' = SubSeq(recvq, FirstEnd + 1, Len(recvq))
           /\ checkedUntil' = 0
           /\ owed' = SubSeq(owed, 3, Len(owed))
           /\ nextping' = IF line \in UnknownKind THEN nextping ELSE PingTime
           /\ \/ /\ line = "PONG"
                 /\ floodPenalty' = IF lastping THEN floodPenalty + 1 ELSE floodPenalty
                 /\ lastping' = TRUE
                 /\ UNCHANGED <<outq, sqItem, gone, doing>>
              \/ /\ line = "QUIT"
                 /\ gone' = TRUE
                 /\ doing' = AfterData(doing)
                 /\ UNCHANGED <<floodPenalty, lastping, outq, sqItem>>
              \/ /\ line \in LineKind
                 /\ floodPenalty' = floodPenalty + Penalty[line]
                 /\ WriteOut(ReplySize[line])
                 /\ UNCHANGED <<lastping, gone, doing>>
    /\ UNCHANGED <<tag, inbound, pinged, quota>>

(* The loop stops for the penalty or for the queue of what is to be sent *)
Held ==
    /\ doing \in Reading
    /\ ~CanProcess
    /\ gone' = (floodPenalty >= PenaltyMax /\ ~tag.fakelag)
    /\ doing' = AfterData(doing)
    /\ UNCHANGED <<tag, inbound, recvq, checkedUntil, floodPenalty, outq, nextping, lastping, pinged,
                   sqItem, history>>

-----------------------------------------------------------------------------
(* UserManager::DoBackgroundUserStuff for this user, once a second *)
DoBackgroundUserStuff ==
    /\ doing = "events" /\ ~gone
    /\ nextping' = IF nextping > 0 THEN nextping - 1 ELSE 0
    /\ IF floodPenalty > 0 \/ outq > 0
         THEN /\ floodPenalty' = IF floodPenalty > CommandRate THEN floodPenalty - CommandRate ELSE 0
              /\ gone' = Overrun(recvq)
              /\ doing' = IF gone' THEN "ping" ELSE "tickData"
         ELSE /\ doing' = "ping"
              /\ UNCHANGED <<floodPenalty, gone>>
    /\ UNCHANGED <<tag, inbound, recvq, checkedUntil, outq, lastping, pinged, sqItem, history>>

(* CheckPingTimeout *)
CheckPingTimeout ==
    /\ doing = "ping"
    /\ doing' = "events"
    /\ \/ /\ nextping > 0
          /\ UNCHANGED <<outq, nextping, lastping, pinged, sqItem, gone>>
       \/ /\ nextping = 0 /\ ~lastping
          /\ gone' = TRUE
          /\ UNCHANGED <<outq, nextping, lastping, pinged, sqItem>>
       \/ /\ nextping = 0 /\ lastping
          /\ lastping' = FALSE
          /\ nextping' = PingTime
          /\ WriteOut(1)
          /\ pinged' = IF sqItem' THEN pinged ELSE "queued"
          /\ UNCHANGED gone
    /\ UNCHANGED <<tag, inbound, recvq, checkedUntil, floodPenalty, history>>

(* CullList::Apply for a user whose queue is full *)
ApplySendQ ==
    /\ doing = "events" /\ ~gone
    /\ sqItem
    /\ gone' = TRUE
    /\ UNCHANGED <<tag, inbound, recvq, checkedUntil, floodPenalty, outq, nextping, lastping, pinged,
                   sqItem, doing, history>>

-----------------------------------------------------------------------------
ServerStep ==
    \/ NoLine
    \/ TakeLine
    \/ Held
    \/ CheckPingTimeout
    \/ ApplySendQ

QueueNext ==
    \/ \E k \in ClientLine : ClientSends(k)
    \/ ClientAnswers
    \/ \E n \in 1..outq : SocketWrites(n)
    \/ OthersWrite(1)
    \/ \E n \in 1..Len(inbound) : SocketReads(n)
    \/ DoBackgroundUserStuff
    \/ ServerStep

(* The main loop finishes what it began, and once a second, whatever       *)
(* events there are, it does the work for every user.                      *)
QueueFairness == WF_queueVars(ServerStep) /\ SF_queueVars(DoBackgroundUserStuff)

QueueSafe == QueueInit /\ [][QueueNext]_queueVars

QueueSpec == QueueSafe /\ QueueFairness

-----------------------------------------------------------------------------
QueueTypeOK ==
    /\ tag \in ConnectTag
    /\ checkedUntil \in 0..Len(recvq)
    /\ floodPenalty \in Nat /\ outq \in Nat
    /\ nextping \in 0..PingTime
    /\ lastping \in BOOLEAN /\ sqItem \in BOOLEAN /\ gone \in BOOLEAN
    /\ pinged \in {"no", "queued", "seen"}
    /\ doing \in Reading \cup {"events", "ping"}

(* OnDataReady hands every line to the parser, once, whole and in the      *)
(* order they were sent, however the data arrives and whenever processing  *)
(* stops and resumes: what is still to come is what the parser is owed.    *)
LinesInOrder == recvq \o inbound = owed

(* The part of the queue that is not searched again has no end of a line, *)
(* so no line is passed over.                                             *)
SearchedOnce == \A k \in 1..checkedUntil : recvq[k] # End

(* A client without privileges is kept within its limits: the penalty      *)
(* passes the threshold by one command at most and the client is never     *)
(* behind its queues.                                                      *)
WithinLimits ==
    ~tag.exempt =>
        /\ \/ floodPenalty <= PenaltyMax
           \/ \E k \in LineKind : floodPenalty < PenaltyMax + Penalty[k]
        /\ outq <= HardSendQ
        /\ ~gone /\ doing = "data" => Len(recvq) <= RecvQ

QueueKept == QueueTypeOK /\ LinesInOrder /\ SearchedOnce /\ WithinLimits

WholeLine == \E k \in DOMAIN recvq : recvq[k] = End

(* docs/conf/inspircd.example.conf, of fakelag: commands are "held in the  *)
(* recvq and processed later": whole lines that were received are all      *)
(* handed to the parser, or the user quits.  When a line is held and then  *)
(* both the penalty and the queue run out between two seconds, only the    *)
(* next PING brings it about.                                              *)
LinesMoveOn == WholeLine ~> (gone \/ ~WholeLine)
=============================================================================
