------------------------------ MODULE LinkAuth ------------------------------
(***************************************************************************)
(* The negotiation of one server link, with both ends running this code:   *)
(* the CAPAB exchange in two phases, the challenge and the passwords of    *)
(* SERVER, and BURST.  The outgoing end starts in CONNECTING, the end that *)
(* accepted the connection in WAIT_AUTH_1.                                 *)
(***************************************************************************)
EXTENDS Integers, Sequences

CONSTANTS
    AuthConfig,   \* the pairs of configurations that meet
    MaxDelta,     \* clock difference that BURST tolerates (fifteen seconds)
    MaxClock      \* bound: seconds that pass during the negotiation

Ends == {"out", "in"}

FatalFeature == {"MODULES", "CHANMODES", "USERMODES"}

OptionalFeature == {"MODSUPPORT", "CAPABILITIES", "EXTBANS"}

ASSUME LinkAuthAssumption ==
    /\ AuthConfig \subseteq
        [ sha256 : [Ends -> BOOLEAN],         \* is the sha2 module loaded?
          knows : [Ends -> BOOLEAN],          \* is the password it sends the one expected?
          allowmismatch : [Ends -> BOOLEAN],
          differ : SUBSET (FatalFeature \cup OptionalFeature),
          offset : Int,                       \* how far the clock of "in" is ahead
          slow : BOOLEAN ]                    \* can the connection time out?
    /\ MaxDelta \in Nat
    /\ MaxClock \in Nat

VARIABLES
    conf,        \* the configurations of the two ends
    linkState,   \* TreeSocket::LinkState
    phase,       \* CapabData::capab_phase
    challenge,   \* has this end made its challenge?
    theirs,      \* has it parsed the challenge of the other end?
    lists,       \* the feature lists that it parsed
    pipe,        \* pipe[e]: lines on their way to e
    clock        \* seconds since the connection was made

authVars == <<conf, linkState, phase, challenge, theirs, lists, pipe, clock>>

Other(e) == IF e = "out" THEN "in" ELSE "out"

Time(e) == IF e = "in" THEN clock + conf.offset ELSE clock

Line(cmd) == [cmd |-> cmd, arg |-> "none", ts |-> 0]

-----------------------------------------------------------------------------
(* Writing *)

(* The lists of capabilities, modules, modes and extbans *)
FeatureLines ==
    << Line("CAPABILITIES"), Line("MODULES"), Line("MODSUPPORT"),
       Line("CHANMODES"), Line("USERMODES"), Line("EXTBANS") >>

(* SendCapabilities(2): what phase 2 adds, once *)
Phase2Mutant(e) ==
    IF phase[e] >= 2 THEN <<>> ELSE <<Line("CHALLENGE"), Line("END")>>

Phase2(e) ==
    IF phase[e] >= 2 THEN <<>>
    ELSE <<Line("CHALLENGE")>> \o FeatureLines \o <<Line("END")>>

(* MakePass: the password, or its HMAC with the challenge *)
MakePass(e, challenged) ==
    IF conf.sha256[e] /\ challenged THEN "hmac" ELSE "plain"

(* ComparePass: e compares with what it would have sent itself *)
ComparePass(e, pass) ==
    /\ conf.knows[Other(e)]
    /\ pass = (IF challenge[e] /\ theirs[e] THEN MakePass(e, TRUE) ELSE "plain")

ServerLine(e) ==
    [cmd |-> "SERVER", arg |-> MakePass(e, theirs[e]), ts |-> 0]

BurstLine(e) == [cmd |-> "BURST", arg |-> "none", ts |-> Time(e)]

(* The rest of the pipe to e after it read a line, and what it answers *)
Reply(e, out) ==
    pipe' = [pipe EXCEPT ![e] = Tail(@), ![Other(e)] = @ \o out]

(* SendError, then the socket is closed *)
SendError(e) ==
    /\ linkState' = [linkState EXCEPT ![e] = "DYING"]
    /\ Reply(e, <<Line("ERROR")>>)
    /\ UNCHANGED <<phase, challenge>>

(* The lines before out that SendCapabilities(2) writes *)
WithPhase2(e, out) ==
    /\ Reply(e, Phase2(e) \o out)
    /\ phase' = [phase EXCEPT ![e] = 2]
    /\ challenge' = [challenge EXCEPT ![e] = TRUE]

-----------------------------------------------------------------------------
(* Reading: one action per line; a line that a dying end reads is dropped *)
Reads(e, cmd) ==
    /\ pipe[e] # <<>>
    /\ Head(pipe[e]).cmd = cmd
    /\ linkState[e] # "DYING"

Negotiating(e) == linkState[e] \in {"CONNECTING", "WAIT_AUTH_1", "WAIT_AUTH_2"}

(* CAPAB START forgets the lists, but not the challenge *)
CapabStart(e) ==
    /\ Reads(e, "START")
    /\ Negotiating(e)
    /\ lists' = [lists EXCEPT ![e] = {}]
    /\ WithPhase2(e, <<>>)
    /\ UNCHANGED <<conf, linkState, theirs, clock>>

CapabChallenge(e) ==
    /\ Reads(e, "CHALLENGE")
    /\ Negotiating(e)
    /\ theirs' = [theirs EXCEPT ![e] = TRUE]
    /\ Reply(e, <<>>)
    /\ UNCHANGED <<conf, linkState, phase, challenge, lists, clock>>

CapabList(e, feature) ==
    /\ Reads(e, feature)
    /\ Negotiating(e)
    /\ lists' = [lists EXCEPT ![e] = @ \cup {feature}]
    /\ Reply(e, <<>>)
    /\ UNCHANGED <<conf, linkState, phase, challenge, theirs, clock>>

(* CompareModes and CompareModules: only lists that were sent are compared *)
FatalMismatch(e) == lists[e] \cap conf.differ \cap FatalFeature # {}

(* CompareModules, CompareCapabilities and CompareExtBans *)
OptionalMismatch(e) == lists[e] \cap conf.differ \cap OptionalFeature # {}

(* CAPAB END: a difference ends the link, unless it is in an optional list  *)
(* and mismatches are allowed.                                              *)
Accepts(e) ==
    /\ ~FatalMismatch(e)
    /\ ~OptionalMismatch(e) \/ conf.allowmismatch[e]

CapabEnd(e) ==
    /\ Reads(e, "END")
    /\ Negotiating(e)
    /\ IF ~Accepts(e)
       THEN SendError(e)
       ELSE IF linkState[e] = "CONNECTING"
       THEN WithPhase2(e, <<ServerLine(e)>>) /\ UNCHANGED linkState
       ELSE Reply(e, <<>>) /\ UNCHANGED <<linkState, phase, challenge>>
    /\ UNCHANGED <<conf, theirs, lists, clock>>

(* Inbound_Server: the accepting end replies with its own SERVER *)
InboundServer(e) ==
    /\ Reads(e, "SERVER")
    /\ linkState[e] = "WAIT_AUTH_1"
    /\ IF ComparePass(e, Head(pipe[e]).arg)
       THEN /\ WithPhase2(e, <<ServerLine(e)>>)
            /\ linkState' = [linkState EXCEPT ![e] = "WAIT_AUTH_2"]
       ELSE SendError(e)
    /\ UNCHANGED <<conf, theirs, lists, clock>>

(* Outbound_Reply_Server: FinishAuth and the burst *)
OutboundReplyServer(e) ==
    /\ Reads(e, "SERVER")
    /\ linkState[e] = "CONNECTING"
    /\ IF ComparePass(e, Head(pipe[e]).arg)
       THEN /\ WithPhase2(e, <<BurstLine(e)>>)
            /\ linkState' = [linkState EXCEPT ![e] = "CONNECTED"]
       ELSE SendError(e)
    /\ UNCHANGED <<conf, theirs, lists, clock>>

Delta(e) == LET d == Head(pipe[e]).ts - Time(e) IN IF d < 0 THEN -d ELSE d

(* BURST in WAIT_AUTH_2 *)
InboundBurst(e) ==
    /\ Reads(e, "BURST")
    /\ linkState[e] = "WAIT_AUTH_2"
    /\ IF Delta(e) > MaxDelta
       THEN SendError(e)
       ELSE /\ Reply(e, <<BurstLine(e)>>)
            /\ linkState' = [linkState EXCEPT ![e] = "CONNECTED"]
            /\ UNCHANGED <<phase, challenge>>
    /\ UNCHANGED <<conf, theirs, lists, clock>>

(* BURST from a server that is already connected is ignored. *)
ConnectedBurst(e) ==
    /\ Reads(e, "BURST")
    /\ linkState[e] = "CONNECTED"
    /\ Reply(e, <<>>)
    /\ UNCHANGED <<conf, linkState, phase, challenge, theirs, lists, clock>>

(* ERROR, or the end of the stream, ends this end as well. *)
PeerGone(e) ==
    /\ Reads(e, "ERROR")
    /\ linkState' = [linkState EXCEPT ![e] = "DYING"]
    /\ Reply(e, <<>>)
    /\ UNCHANGED <<conf, phase, challenge, theirs, lists, clock>>

(* DoConnectTimeout *)
DoConnectTimeout(e) ==
    /\ conf.slow
    /\ Negotiating(e)
    /\ linkState' = [linkState EXCEPT ![e] = "DYING"]
    /\ pipe' = [pipe EXCEPT ![Other(e)] = Append(@, Line("ERROR"))]
    /\ UNCHANGED <<conf, phase, challenge, theirs, lists, clock>>

ClockTick ==
    /\ clock < MaxClock
    /\ clock' = clock + 1
    /\ UNCHANGED <<conf, linkState, phase, challenge, theirs, lists, pipe>>

-----------------------------------------------------------------------------
AuthInit ==
    /\ conf \in AuthConfig
    /\ linkState = [e \in Ends |-> IF e = "out" THEN "CONNECTING" ELSE "WAIT_AUTH_1"]
    /\ phase = [e \in Ends |-> 1]
    /\ challenge = [e \in Ends |-> FALSE]
    /\ theirs = [e \in Ends |-> FALSE]
    /\ lists = [e \in Ends |-> {}]
    /\ pipe = [e \in Ends |-> <<Line("START")>>]
    /\ clock = 0

ReadLine(e) ==
    \/ CapabStart(e)
    \/ CapabChallenge(e)
    \/ \E feature \in FatalFeature \cup OptionalFeature : CapabList(e, feature)
    \/ CapabEnd(e)
    \/ InboundServer(e)
    \/ OutboundReplyServer(e)
    \/ InboundBurst(e)
    \/ ConnectedBurst(e)
    \/ PeerGone(e)

AuthNext ==
    \/ \E e \in Ends : ReadLine(e) \/ DoConnectTimeout(e)
    \/ ClockTick

AuthFairness == \A e \in Ends : WF_authVars(ReadLine(e))

AuthSpec == AuthInit /\ [][AuthNext]_authVars /\ AuthFairness

-----------------------------------------------------------------------------
AuthTypeOK ==
    /\ conf \in AuthConfig
    /\ linkState \in [Ends -> {"CONNECTING", "WAIT_AUTH_1", "WAIT_AUTH_2", "CONNECTED", "DYING"}]
    /\ phase \in [Ends -> {1, 2}]
    /\ challenge \in [Ends -> BOOLEAN]
    /\ theirs \in [Ends -> BOOLEAN]
    /\ lists \in [Ends -> SUBSET (FatalFeature \cup OptionalFeature)]
    /\ clock \in 0..MaxClock

BothConnected == \A e \in Ends : linkState[e] = "CONNECTED"

(* Two servers that are connected agree on the modules and modes that must *)
(* match, and on the optional ones unless both tolerate the difference;    *)
(* each knew the password that the other expects.                          *)
LinkedMeansCompatible ==
    BothConnected =>
        /\ conf.differ \cap FatalFeature = {}
        /\ conf.differ = {} \/ \A e \in Ends : conf.allowmismatch[e]
        /\ \A e \in Ends : conf.knows[e]

(* Two servers whose clocks differ by more than BURST tolerates, and by    *)
(* more than any delay of the BURST explains, are never both connected.    *)
LinkedMeansClocksAgree ==
    BothConnected => conf.offset <= MaxDelta /\ -conf.offset <= MaxDelta + MaxClock

(* Two connected servers agree on everything that the handshake compares. *)
LinkedMeansAgreed == AuthTypeOK /\ LinkedMeansCompatible /\ LinkedMeansClocksAgree

(* Nothing is wrong between the two configurations. *)
Compatible ==
    /\ conf.differ = {}
    /\ \A e \in Ends : conf.knows[e]
    /\ conf.offset + MaxClock <= MaxDelta
    /\ -conf.offset <= MaxDelta

(* Compatible servers that can both compute HMACs, or neither, do link,    *)
(* whatever the order in which the lines of both directions are read.      *)
CompatibleServersLink ==
    Compatible /\ ~conf.slow /\ conf.sha256["in"] = conf.sha256["out"] ~> BothConnected
=============================================================================
