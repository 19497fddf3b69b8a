-------------------------------- MODULE Sasl --------------------------------
(***************************************************************************)
(* SASL authentication of one client (modules/sasl.cpp): the server relays *)
(* between the client and an agent of the services server, over the links  *)
(* between them.  Each AUTHENTICATE that starts an authenticator begins an *)
(* exchange; its number is a history variable that travels with the        *)
(* messages, which the code does not have.  External: the client, and the  *)
(* services, which answer each message of a session and forget a session   *)
(* that is aborted.  The client has the sasl capability: without it,       *)
(* AUTHENTICATE is an unknown command.                                     *)
(***************************************************************************)
EXTENDS Naturals, Sequences, Functions

CONSTANTS
    Agent,          \* UIDs of the services' SASL agent
    MaxExchange,    \* bound on the exchanges
    MaxFlight,      \* bound on the messages on the way, in each direction
    MaxRejected,    \* bound on the lines of the client that are rejected
    MaxSplit        \* bound on the times the services are lost

ASSUME SaslAssumption ==
    Agent # {} /\ MaxExchange \in Nat /\ MaxFlight \in Nat /\ MaxRejected \in Nat /\ MaxSplit \in Nat

NoAuth == [exchange |-> 0, state |-> "NONE", agent |-> "none"]

VARIABLES
    client,     \* "registering", "connected" or "gone"
    legacy,     \* the client's capability protocol is CAP_LEGACY
    auth,       \* saslext: the SaslAuthenticator
    exchanges,  \* history: how many exchanges were begun
    numerics,   \* history: [exchange -> the results the client was told while it was open, or
                \* while none was (0)], each as the exchange the services sent it for, 0 for one
                \* of the server's own; which of 903, 904, 905 and 906 it was is left out
    rejected,   \* history: [exchange -> the client's lines that HandleLocal rejected during it]
    up,         \* messages on the way to the services
    down,       \* messages on the way from the services
    agent,      \* the services' agent, "none" while they are not linked
    session,    \* the exchange the agent has a session for, 0 without
    splits,     \* times the services were lost
    turn        \* history: who has to speak next in the exchange

saslVars == <<client, legacy, auth, exchanges, numerics, rejected, up, down, agent, session, splits, turn>>

SaslInit ==
    /\ client = "registering" /\ legacy \in BOOLEAN
    /\ auth = NoAuth /\ exchanges = 0
    /\ numerics = [e \in 0 .. MaxExchange |-> <<>>] /\ rejected = [e \in 0 .. MaxExchange |-> 0]
    /\ up = <<>> /\ down = <<>>
    /\ agent \in Agent /\ session = 0 /\ splits = 0
    /\ turn = "nobody"

-----------------------------------------------------------------------------

(* SendSASL: nobody gets the message while the services are not linked *)
SendSASL(kind, e) == up' = IF agent = "none" THEN up ELSE Append(up, [kind |-> kind, exchange |-> e])

(* A numeric to the client *)
Tell(from) == numerics' = [numerics EXCEPT ![auth.exchange] = Append(@, from)]

AnnounceMutant(from) ==
    /\ Tell(from)
    /\ UNCHANGED auth
    /\ turn' = "nobody"

(* AnnounceState and saslext.Unset *)
Announce(from) ==
    /\ Tell(from)
    /\ auth' = NoAuth
    /\ turn' = "nobody"

Room == Len(up) < MaxFlight /\ Len(down) < MaxFlight

(* CommandAuthenticate::HandleLocal: a parameter with a space or a leading     *)
(* colon is answered by 906, one that is too long by 905.  The authenticator,  *)
(* if there is one, stays as it is.                                            *)
AuthenticateRejected ==
    /\ client # "gone" /\ FoldFunction(+, 0, rejected) < MaxRejected
    /\ Tell(0)
    /\ rejected' = [rejected EXCEPT ![auth.exchange] = @ + 1]
    /\ UNCHANGED <<client, legacy, auth, exchanges, up, down, agent, session, splits, turn>>

(* ... without an authenticator *)
AuthenticateStart ==
    /\ client # "gone" /\ auth = NoAuth /\ exchanges < MaxExchange /\ Room
    /\ exchanges' = exchanges + 1
    /\ auth' = [exchange |-> exchanges + 1, state |-> "INIT", agent |-> "none"]
    /\ SendSASL("S", exchanges + 1)
    /\ turn' = IF agent = "none" THEN "nobody" ELSE "services"
    /\ UNCHANGED <<client, legacy, numerics, rejected, down, agent, session, splits>>

(* ... with one: SendClientMessage, which does nothing before the agent is     *)
(* known, and forwards a message then whether or not it is the client's turn.  *)
AuthenticateMore ==
    /\ client # "gone" /\ auth.state = "COMM" /\ Room
    /\ SendSASL("C", auth.exchange)
    /\ turn' = IF session = auth.exchange THEN "services" ELSE turn
    /\ UNCHANGED <<client, legacy, auth, exchanges, numerics, rejected, down, agent, session, splits>>

AuthenticateAbort ==
    /\ client # "gone" /\ auth.state = "COMM" /\ Room
    /\ SendSASL("*", auth.exchange)
    /\ Announce(0)
    /\ UNCHANGED <<client, legacy, exchanges, rejected, down, agent, session, splits>>

(* ModuleSASL::OnUserConnect: the services are not told *)
SaslUserConnect ==
    /\ client = "registering"
    /\ client' = "connected"
    /\ IF auth # NoAuth /\ legacy THEN Announce(0) ELSE UNCHANGED <<numerics, auth, turn>>
    /\ UNCHANGED <<legacy, exchanges, rejected, up, down, agent, session, splits>>

(* SaslAuthenticator::NotifyAbort *)
NotifyAbort == IF auth # NoAuth THEN SendSASL("D", auth.exchange) ELSE UNCHANGED up

(* ModuleSASL::OnUserDisconnect *)
SaslUserDisconnect ==
    /\ client # "gone"
    /\ client' = "gone"
    /\ NotifyAbort
    /\ auth' = NoAuth /\ turn' = "nobody"
    /\ UNCHANGED <<legacy, exchanges, numerics, rejected, down, agent, session, splits>>

(* The agent the authenticator listens to: the first that speaks *)
Heard(m) == auth.state = "INIT" \/ m.agent = auth.agent

(* CommandSASL::Handle and ProcessInboundMessage: a challenge (C) and the list *)
(* of mechanisms (M) leave the exchange open, a result (D) ends it.            *)
CommandSASL ==
    /\ down # <<>>
    /\ down' = Tail(down)
    /\ LET m == Head(down)
       IN  IF client = "gone" \/ auth = NoAuth \/ ~Heard(m)
           THEN UNCHANGED <<auth, numerics, turn>>
           ELSE IF m.kind \in {"C", "M"}
           THEN /\ auth' = [auth EXCEPT !.state = "COMM", !.agent = m.agent]
                /\ turn' = IF m.kind = "C" THEN "client" ELSE turn
                /\ UNCHANGED numerics
           ELSE Announce(m.exchange)
    /\ UNCHANGED <<client, legacy, exchanges, rejected, up, agent, session, splits>>

-----------------------------------------------------------------------------
(* The services *)

(* What they answer: a challenge, a result, or their mechanisms and a result *)
Replies == {<<"C">>, <<"D">>, <<"M", "D">>}

SaslReply(kinds, e) ==
    down \o [n \in 1 .. Len(kinds) |-> [kind |-> kinds[n], exchange |-> e, agent |-> agent]]

(* A session begins or goes on: a challenge, or the end of the session *)
ServicesAnswer(kinds) ==
    /\ up # <<>> /\ Head(up).kind \in {"S", "C"}
    /\ up' = Tail(up)
    /\ IF Head(up).kind = "C" /\ Head(up).exchange # session
       THEN UNCHANGED <<down, session>>
       ELSE /\ down' = SaslReply(kinds, Head(up).exchange)
            /\ session' = IF kinds = <<"C">> THEN Head(up).exchange ELSE 0
    /\ UNCHANGED <<client, legacy, auth, exchanges, numerics, rejected, agent, splits, turn>>

ServicesAbort ==
    /\ up # <<>> /\ Head(up).kind \in {"*", "D"}
    /\ up' = Tail(up)
    /\ session' = 0
    /\ UNCHANGED <<client, legacy, auth, exchanges, numerics, rejected, down, agent, splits, turn>>

ServicesSplit ==
    /\ agent # "none" /\ splits < MaxSplit
    /\ splits' = splits + 1
    /\ agent' = "none"
    /\ up' = <<>> /\ down' = <<>> /\ session' = 0
    /\ turn' = IF turn = "services" THEN "nobody" ELSE turn
    /\ UNCHANGED <<client, legacy, auth, exchanges, numerics, rejected>>

ServicesReturn(a) ==
    /\ agent = "none"
    /\ agent' = a
    /\ UNCHANGED <<client, legacy, auth, exchanges, numerics, rejected, up, down, session, splits, turn>>

SaslNext ==
    \/ AuthenticateRejected
    \/ AuthenticateStart
    \/ AuthenticateMore
    \/ AuthenticateAbort
    \/ SaslUserConnect
    \/ SaslUserDisconnect
    \/ CommandSASL
    \/ \E k \in Replies : ServicesAnswer(k)
    \/ ServicesAbort
    \/ ServicesSplit
    \/ \E a \in Agent : ServicesReturn(a)

(* The links deliver what is on the way, and the services answer *)
SaslFairness ==
    /\ WF_saslVars(CommandSASL)
    /\ WF_saslVars(\E k \in Replies : ServicesAnswer(k))
    /\ WF_saslVars(ServicesAbort)

SaslSpec == SaslInit /\ [][SaslNext]_saslVars /\ SaslFairness

-----------------------------------------------------------------------------

SaslTypeOK ==
    /\ client \in {"registering", "connected", "gone"} /\ legacy \in BOOLEAN
    /\ auth.state \in {"NONE", "INIT", "COMM"} /\ auth.exchange \in 0 .. exchanges
    /\ exchanges \in 0 .. MaxExchange /\ session \in 0 .. MaxExchange
    /\ agent \in Agent \cup {"none"} /\ splits \in 0 .. MaxSplit
    /\ turn \in {"nobody", "client", "services"}

(* The exchange is over, and not by its own result from the services. *)
EndedEarly(e) == auth.exchange # e /\ \A n \in DOMAIN numerics[e] : numerics[e][n] # e

(* How many results the client is told for an exchange: one for each line that *)
(* was rejected during it, and one more when it is over.  For the time before, *)
(* between and after the exchanges (0) there are only the rejected lines.      *)
Owed(e) ==
    IF e \in {0, auth.exchange} THEN {rejected[e]}
    ELSE IF client = "gone" THEN {rejected[e], rejected[e] + 1}
    ELSE {rejected[e] + 1}

(* The client is told one result that ends an exchange, last and once it is    *)
(* over, and a result of the services is of that exchange.  The messages do    *)
(* not say which exchange they are of, so one that was under way when the      *)
(* exchange it is of ended early is the exception; it ends the exchange that   *)
(* it meets early in turn.  What else the client is told are the 905 and 906   *)
(* for its rejected lines, which look like an end and end nothing.             *)
OneOwnVerdict ==
    /\ SaslTypeOK
    /\ \A e \in 0 .. exchanges :
        /\ Len(numerics[e]) \in Owed(e)
        /\ \A n \in DOMAIN numerics[e] :
            LET f == numerics[e][n]
            IN  \/ f = 0
                \/ n = rejected[e] + 1 /\ (f = e \/ (f < e /\ EndedEarly(f)))

(* The authenticator is gone and the services were not told: OnUserConnect     *)
(* aborted the exchange, or a late result of an aborted one ended it.          *)
Untold ==
    \/ legacy /\ client # "registering"
    \/ \E e \in 1 .. exchanges : \E n \in DOMAIN numerics[e] : numerics[e][n] \notin {0, e}

(* A client that leaves in the middle of an exchange leaves no session behind *)
(* with the services (NotifyAbort), but for the cases of Untold.              *)
SessionsEnd == (client = "gone") ~> (session = 0 \/ Untold)

(* The services' answer to what the client sent reaches it: a client whose     *)
(* message the services have a session for is not left waiting.                *)
AlwaysAnAnswer == (turn = "services") ~> (turn # "services")

=============================================================================
