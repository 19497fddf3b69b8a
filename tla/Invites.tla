------------------------------ MODULE Invites -------------------------------
(***************************************************************************)
(* Pending invites of local users (modules/core/channel/invite.cpp): an    *)
(* Invite is referenced from a list of its user and from a list of its     *)
(* channel, and a timed one from the timer manager.  There is one Invite   *)
(* for a user and a channel at most (Find), so the pair names it.          *)
(***************************************************************************)
EXTENDS Integers, FiniteSets

CONSTANTS
    Invitee,    \* local users
    Chan,       \* channels
    Epoch,      \* the time when the server starts, far from 0
    Duration,   \* durations of timed invites in seconds
    LastSecond  \* bound on the time

ASSUME InviteAssumption == Epoch \in Nat /\ LastSecond \in Nat /\ Duration \subseteq Nat

Forever == 0

VARIABLES
    userInvites,    \* userext: [user -> the channels of the invites in its list]
    chanInvites,    \* chanext: [channel -> the users of the invites in its list]
    expiretimer,    \* [<<user, channel>> -> trigger of the invite's timer, 0 without]
    onChannel,      \* <<user, channel>> pairs of members
    chanExists,     \* channels that exist
    inviteClock,          \* ServerInstance->Time()
    promised        \* history: [<<user, channel>> -> latest expiry of an INVITE, 0: none, or -1: never]

inviteVars == <<userInvites, chanInvites, expiretimer, onChannel, chanExists, inviteClock, promised>>

Pairs == Invitee \X Chan

InviteInit ==
    /\ userInvites = [u \in Invitee |-> {}]
    /\ chanInvites = [c \in Chan |-> {}]
    /\ expiretimer = [p \in Pairs |-> 0]
    /\ onChannel = {}
    /\ chanExists = Chan
    /\ inviteClock = Epoch
    /\ promised = [p \in Pairs |-> 0]

-----------------------------------------------------------------------------

(* Find *)
IsInvited(u, c) == c \in userInvites[u]

(* Destruct for the invites S: both lists and the timer forget them *)
DestructMutant(S) ==
    /\ userInvites' = [u \in Invitee |-> {c \in userInvites[u] : <<u, c>> \notin S}]
    /\ UNCHANGED chanInvites
    /\ expiretimer' = [p \in Pairs |-> IF p \in S THEN 0 ELSE expiretimer[p]]
    /\ promised' = [p \in Pairs |-> IF p \in S THEN 0 ELSE promised[p]]

Destruct(S) ==
    /\ userInvites' = [u \in Invitee |-> {c \in userInvites[u] : <<u, c>> \notin S}]
    /\ chanInvites' = [c \in Chan |-> {u \in chanInvites[c] : <<u, c>> \notin S}]
    /\ expiretimer' = [p \in Pairs |-> IF p \in S THEN 0 ELSE expiretimer[p]]
    /\ promised' = [p \in Pairs |-> IF p \in S THEN 0 ELSE promised[p]]

(* The new trigger of an existing timed invite's timer.  Time::In adds the    *)
(* timestamp to the current time, so the test holds only for a timer that is  *)
(* further away than the whole time since 1970.                               *)
Extended(trigger, timeout) ==
    IF timeout = Forever THEN 0
    ELSE IF trigger >= inviteClock + timeout THEN timeout ELSE trigger

Later(p, timeout) ==
    IF timeout = Forever \/ promised[p] = -1 THEN -1
    ELSE IF timeout > promised[p] THEN timeout ELSE promised[p]

(* APIImpl::Create *)
Create(u, c, timeout) ==
    /\ userInvites' = [userInvites EXCEPT ![u] = @ \cup {c}]
    /\ chanInvites' = [chanInvites EXCEPT ![c] = @ \cup {u}]
    /\ expiretimer' = [expiretimer EXCEPT ![<<u, c>>] =
            IF ~IsInvited(u, c) THEN timeout
            ELSE IF @ = 0 THEN 0
            ELSE Extended(@, timeout)]
    /\ promised' = [promised EXCEPT ![<<u, c>>] = Later(<<u, c>>, timeout)]

(* CommandInvite::Handle for a local target; the timeout is 0 or a timestamp, *)
(* which in an INVITE of a remote server may be over.                         *)
Invite(u, c, timeout) ==
    /\ c \in chanExists /\ <<u, c>> \notin onChannel
    /\ IF timeout # Forever /\ inviteClock >= timeout
       THEN UNCHANGED <<userInvites, chanInvites, expiretimer, promised>>
       ELSE Create(u, c, timeout)
    /\ UNCHANGED <<onChannel, chanExists, inviteClock>>

(* CoreModChannel::OnPostJoin; a join without an invite is one too *)
OnPostJoin(u, c) ==
    /\ c \in chanExists /\ <<u, c>> \notin onChannel
    /\ onChannel' = onChannel \cup {<<u, c>>}
    /\ Destruct({<<u, c>>} \cap {p \in Pairs : IsInvited(p[1], p[2])})
    /\ UNCHANGED <<chanExists, inviteClock>>

(* CommandUninvite::Handle for a local target *)
Uninvite(u, c) ==
    /\ c \in chanExists /\ IsInvited(u, c)
    /\ Destruct({<<u, c>>})
    /\ UNCHANGED <<onChannel, chanExists, inviteClock>>

Part(u, c) ==
    /\ <<u, c>> \in onChannel
    /\ onChannel' = onChannel \ {<<u, c>>}
    /\ UNCHANGED <<userInvites, chanInvites, expiretimer, chanExists, inviteClock, promised>>

(* CoreModChannel::OnUserDisconnect; another user connects with the name *)
OnUserDisconnect(u) ==
    /\ Destruct({<<u, c>> : c \in userInvites[u]})
    /\ onChannel' = {p \in onChannel : p[1] # u}
    /\ UNCHANGED <<chanExists, inviteClock>>

(* CoreModChannel::OnChannelDelete, when the last member has left *)
OnChannelDelete(c) ==
    /\ c \in chanExists /\ \A p \in onChannel : p[2] # c
    /\ Destruct({<<u, c>> : u \in chanInvites[c]})
    /\ chanExists' = chanExists \ {c}
    /\ UNCHANGED <<onChannel, inviteClock>>

(* CommandFJoin::LowerTS, for an FJOIN of an older channel: FreeAllExtItems *)
(* frees the list of the channel, whose members stay.                       *)
LowerTS(c) ==
    /\ c \in chanExists
    /\ Destruct({<<u, c>> : u \in chanInvites[c]})
    /\ UNCHANGED <<onChannel, chanExists, inviteClock>>

ChannelCreated(c) ==
    /\ c \notin chanExists
    /\ chanExists' = chanExists \cup {c}
    /\ UNCHANGED <<userInvites, chanInvites, expiretimer, onChannel, inviteClock, promised>>

(* The timers that TickTimers runs at the time t *)
Due(t) == {p \in Pairs : expiretimer[p] # 0 /\ expiretimer[p] <= t}

(* A second passes and TimerManager::TickTimers runs InviteExpireTimer::Tick *)
InviteSecond ==
    /\ inviteClock < Epoch + LastSecond
    /\ inviteClock' = inviteClock + 1
    /\ Destruct(Due(inviteClock + 1))
    /\ UNCHANGED <<onChannel, chanExists>>

Timeouts == {Forever} \cup {inviteClock + d : d \in Duration}

InviteNext ==
    \/ \E u \in Invitee, c \in Chan, t \in Timeouts : Invite(u, c, t)
    \/ \E u \in Invitee, c \in Chan : OnPostJoin(u, c)
    \/ \E u \in Invitee, c \in Chan : Uninvite(u, c)
    \/ \E u \in Invitee, c \in Chan : Part(u, c)
    \/ \E u \in Invitee : OnUserDisconnect(u)
    \/ \E c \in Chan : OnChannelDelete(c)
    \/ \E c \in Chan : LowerTS(c)
    \/ \E c \in Chan : ChannelCreated(c)
    \/ InviteSecond

InviteSpec == InviteInit /\ [][InviteNext]_inviteVars

-----------------------------------------------------------------------------

InviteTypeOK ==
    /\ userInvites \in [Invitee -> SUBSET Chan]
    /\ chanInvites \in [Chan -> SUBSET Invitee]
    /\ onChannel \subseteq Pairs
    /\ chanExists \subseteq Chan
    /\ inviteClock \in Nat
    /\ \A p \in Pairs : expiretimer[p] \in Nat /\ promised[p] \in Int

(* An invite is in the list of its user exactly when it is in the list of its *)
(* channel, only such an invite has a timer, and neither list names a channel *)
(* that is gone: whatever ends first, nothing dangles.                        *)
InviteListsAgree ==
    /\ \A u \in Invitee, c \in Chan :
        /\ c \in userInvites[u] <=> u \in chanInvites[c]
        /\ c \in userInvites[u] => c \in chanExists /\ <<u, c>> \notin onChannel
    /\ \A p \in Pairs : expiretimer[p] # 0 => IsInvited(p[1], p[2])

(* No invite outlives the latest expiry that was asked for it, and one that *)
(* was asked to last for ever has no timer left (APIImpl::Create).          *)
InviteExpires ==
    \A p \in Pairs :
        IsInvited(p[1], p[2]) =>
            IF promised[p] = -1 THEN expiretimer[p] = 0
            ELSE inviteClock < expiretimer[p] /\ expiretimer[p] <= promised[p]

(* The two lists and the timers of invites agree, and no invite lasts longer *)
(* than it was asked to.                                                     *)
InvitesKept == InviteTypeOK /\ InviteListsAgree /\ InviteExpires
=============================================================================
