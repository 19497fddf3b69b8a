# InspIRCd in TLA+

TLA+ models of the parts of InspIRCd whose correctness depends on the order of
events: how the servers of a network agree about nicks, channels and each
other, and how one server keeps its clients, links, lookups, threads, timers,
modules and files consistent. The modules are translated from the C++ source.
TLC checks them on small instances; TLAPS proves most of the safety results for
one server, and the nick index of a network, for every instance.

## The system

An InspIRCd network is a tree of servers joined by TCP links. Each server runs
one event loop (`src/src/inspircd.cpp`, `Run`): it dispatches timers and socket
events one at a time, then deletes what was marked for deletion. Handlers are
therefore atomic on one server. What interleaves is

- the order in which servers read the lines of their links, act for their users
  and see their clocks move (a link is FIFO in each direction, nothing is
  acknowledged, and conflicts are settled by timestamps of one second);
- within a server, the answers it waits for (nameservers, databases, services,
  the peers of its sockets) with everything else that happens to the objects the
  answers are for: they change, quit, are deleted, or their module is unloaded;
- the threads of the SQL and LDAP modules with the main thread;
- callbacks that run inside a loop over the container they change.

| Part of the system | Module | Run | Proofs |
| --- | --- | --- | --- |
| Client list, nick collisions | `NickCollision` | `nick`, `network_rest` | `UserProofs` |
| Channels between servers | `ChannelSync` | `chan_pair`, `network_rest` | |
| Server tree, bursts, splits | `ServerTree` | `tree_safe`, `network_rest` | |
| Ban lines, ban cache | `XLines` | `xlines`, `xline_flag` | |
| Autoconnect | `Autoconnect` | `server_io`, `server_live` | `DnsProofs` |
| Link negotiation | `LinkAuth` | `server_io`, `server_live` | `LinkProofs` |
| Server pings | `ServerPing` | `server_io` | `LinkProofs` |
| DNS manager | `DnsLookup`, `DnsPromise` | `server_io`, `server_live` | `DnsProofs` |
| Stream sockets, socket engines | `StreamSocket`, `ByteStream` | `server_io`, `server_live` | |
| MySQL thread | `SqlThread` | `server_io`, `server_live` | `ThreadProofs` |
| LDAP thread | `LdapThread` | `server_io`, `server_live` | `ThreadProofs` |
| Timers | `Timers` | `server_io` | `ManagerProofs` |
| Checks of a registering client | `ConnectHolds` | `server_users`, `server_live` | `ClientProofs` |
| Connect classes, counters, culling | `Clients` | `server_users`, `class_limit` | `ManagerProofs` |
| Lines of a client, flood limits | `CommandQueue` | `server_users`, `server_live` | `ClientProofs` |
| Client capabilities | `Capabilities` | `server_users`, `cap_notify` | `UserProofs` |
| Invites | `Invites` | `server_users` | `RecordProofs` |
| Ban line database | `XLineDb` | `server_users` | `RecordProofs` |
| SASL relay | `Sasl` | `server_users`, `server_live` | `RecordProofs` |
| WHOWAS | `Whowas` | `server_users` | |
| Masks | `Wildcard` | `server_users`, `server_live` | |
| Loading of modules | `ModuleManager` | `server_users`, `reload_names` | |

`Erasing` holds one operator that three modules share: a container without some
of its elements. `PROJECT.json` lists every part with its files, including those
that are not modelled, the source lines of every definition, and the hazards
with the lines where they bite.

## Modules

### Between servers

**NickCollision.** `nick`, `nickchanged`, `connected` and `clientlist` are the
fields of the same names, per server. Each helper (`ChangeNick`, `Rename`,
`OverruleNick`, ...) turns one view of a server's users into another, as the
functions of `users.cpp` and `nickcollide.cpp` do; an action applies the whole
handler, its forwarded lines included. Each end of a link starts its burst at a
time of its own. A client that sent NICK but is not registered holds its nick
and can be overruled. `claims` is a history variable.

**ChannelSync.** One channel. `FJOIN`, `IJOIN`, `RESYNC`, `FMODE`, `FTOPIC`,
`PART`, `KICK`, `KILL` and `QUIT` are read by one action each; the FJOIN that is
passed on carries the decision of the server that passes it on. A scenario says
which links are up, which are about to come up, and how often each operation is
done. Some races cannot be repaired by the protocol and are recorded in the
history variable `races`, so that the agreement properties exclude exactly
those: `tie` (two creations in one second), `early` (a server drops the channel
while an FJOIN or FMODE is in flight), `kick` (a KICK while an FJOIN or RESYNC
is in flight) and `op` (an op that reaches another membership than the granter
saw). See `Race` in the module.

**ServerTree.** `path[s][o]` is the set of servers on the way from `s` to `o` in
the tree of `s`; `state` and `wire` describe the two ends of every socket.
Sockets are named by initiator and responder, so there is one at a time for each
such pair. A lost connection may lose lines in flight. The code drops a line
whose source is not behind its socket; there is no action for that, because
`LinesAccepted` shows that it does not occur. `SendServers` introduces servers
in the order of their distance, where the code goes depth first; with three
servers the two orders are the same.

**XLines.** One server. `Covers` says which client, under which host name, a
line matches, in place of masks. `lapsed` is a history variable: the code does
not look for bans again when an exemption ends, and `LinesEnforced` allows for
that.

### On one server: what waits for something outside it

**Autoconnect.** One block: a chain of names, its position, and the attempts
made for it, each a lookup or a socket. A rehash replaces the block; attempts of
the old one live on. `lost` records the two ends of an attempt after which
nobody moves the block on: a link that cannot be dialled, and a lookup that
completes when the server is already linked.

**LinkAuth.** Both ends of one negotiation: the CAPAB phases, the challenge,
passwords, the comparison of lists, clocks, and timeouts.

**ServerPing.** A timer for each server, PINGs and PONGs on a FIFO path, splits,
relinks, and rehashes that change the intervals between any two steps.

**DnsLookup** is the table of requests by id with timeouts, cache, rehash and
unloading; callbacks nest, because a callback may create requests. **DnsPromise**
is what callers rely on: a request is refused, or called back exactly once with
an answer to its question or an error. `DnsLookup` implements it
(`Promise == INSTANCE DnsPromise WITH ...`), and `ConnectHolds` uses lookups that
keep it.

**StreamSocket** is one buffered socket on each of the engines epoll, poll and
kqueue, with a kernel and a peer that go on between any two system calls.
**ByteStream** is what the writer relies on: bytes are written once and in
order, and `Close(true)` closes an empty queue. `StreamSocket` implements it.

**SqlThread, LdapThread.** A step is what a thread does between two operations
on a mutex. Addresses of deleted queries may be used again (`reused`).

**Timers.** The map is a sequence ordered by trigger. `TickTimers` is one step
for each timer it runs; a `Tick()` may destroy, restart or create timers.

### On one server: what it keeps for its clients

**ConnectHolds.** One client between accept and `FullConnect`, held by six
modules, whose address may change while answers to earlier lookups are to come.
`gap` records the races that the code does not repair (`GapKinds`).

**Clients.** `UserManager`'s list and counters, connect classes and the cull
list. Handlers that run inside others are operators on a record of the state.

**CommandQueue.** A line is two pieces, its text and its end, so that it can
arrive in parts; penalties and queue sizes are in units.

**Capabilities.** Capability objects of modules that come and go, the bits the
manager gives them, and what clients have and were told. The loop over the
tokens of CAP REQ is a recursive function.

**Invites, XLineDb, Sasl, Whowas, ModuleManager** follow their sources closely;
their headers say what is external (the file system, the services, the
libraries). In `Sasl`, the client may
send at any time, whether or not a challenge came; `numerics` records what it was
told for each exchange and `rejected` how many of its lines were refused without
a look at the exchange. `MaxRejected`, `MaxExchange`, `MaxFlight` and `MaxSplit`
are 1 to 3: a chain of two exchanges that late results end needs three.
**Wildcard** runs `MatchInternal` one loop turn at a time and
compares the result with `Means`, the meaning of a mask.

`MC*` modules hold the instances. The parts of one server share no state in the
models, so `MCServer` extends all of them and a behaviour is about one part, the
others keeping their first state; this is a union of small instances, not a
composition. `MCNetwork` does the same for the three network models.

## Runs

| Run | Instance | Shows |
| --- | --- | --- |
| `nick` | a line of three servers, the clock of s3 a second ahead; two strangers at the ends with up to three NICKs and a tick, or three users of whom two are one person with one NICK each and up to two QUITs; one nick | one owner for each nick on each server, agreement when quiet, a forced rename only for a better claim |
| `chan_pair` | two linked servers of a line of three (a split that heals over members or topics, users who hop, kick, are killed), or a third server that bursts into the pair | members, operators, mode and topic agree when quiet; op is earned; a late KICK misses a new membership |
| `network_rest` | the line: a pair joined by a third server over one channel; collisions of nicks; three links that close a loop | agreement at a distance, and that all three exchanges of messages end |
| `tree_safe` | three servers: a loop of links, connections that cross, a line that splits and links again with lines lost | one link for each neighbour, exact burst counters, trees that match the network when it is quiet, no line refused for its direction |
| `xlines` | two clients of one address under a Z-, a G- and an E-line; or one client with a late host name, two E-lines and a G-line | bans reach everyone they match, exemptions hold, cached bans end with their lines |
| `server_io` | the eight parts that wait for something outside, each on its own | the invariants of each; `DnsLookup` implements `DnsPromise` and `StreamSocket` implements `ByteStream` |
| `server_users` | the ten parts that keep state of clients, each on its own | the invariants of each; the database file is replaced as a whole; a reload brings a module without commands back, with the modes of its users and, for a module with one extension, the data that can be serialized |
| `server_live` | ten parts with smaller bounds, under fairness | what must happen in the end |
| `xline_flag`, `class_limit`, `reload_names`, `cap_notify` | as the runs above | four disagreements, below |

**Bounds.** Every collision or merge needs two parties and a line in flight; the
third server is there for what is passed on, and the further NICK, the rejoin
and the relink for what arrives late. Two seconds give older, equal and newer
timestamps. Channels share no state, so one is modelled. Nicks do interact,
since a SAVE names a timestamp and not a nick; with one nick users still move
between it and their UUID. On one server each part has the smallest sets in which
its queues fill, its counters reach a limit, an object is replaced while
something waits for it, and an id, bit or address is used again: three requests
for two DNS ids, three clients for classes with limits of one and two, three
queries on two connections with two addresses, three timers, three capabilities
for two bits. Every bound is a named constant in the guards. Larger instances are
covered only where a theorem says so. Deadlock is not checked in any run, since
users and clocks run out of what their bounds allow and the system then rightly
stops.

**Fairness.** In `network_rest` only reading is fair (one `WF` on reading some
line: the event loop dispatches every readable socket). Users, clocks and link
failures need never act. In `server_live` (`ServerRunFairness`) the steps that a
server, thread or clock takes again and again are strongly fair, because they
are disabled now and then by a lock or by a handler that is running: the main
loop's turns, the worker threads, the engine's dispatch, the seconds. Handlers
that are under way, timeouts that have come, a peer that reads and services that
answer are weakly fair. Nothing that a user, an operator or a failing disk or
network does is fair.

**Refinement.** `DnsLookup` has the mapping in `Promise`, `StreamSocket` in
`Bytes`; both abstract specifications are PROPERTYs of `server_io`. For
`DnsPromise` the theorem `DnsKeepsPromise` shows it for every instance.

## Where the code disagrees with its documentation

- `xline_flag`: `ExpireLine` and `DelLine` call `Unset()` while the line is still
  in the table (`xline.cpp:434` and `:339`), so an E-line that is removed, or that
  a rehash drops as in the run, leaves the users it matched exempt.
- `class_limit`: `FullConnect` chooses the class again and counts the client
  itself against the limit (`core_user.cpp:202`): who brings a class to its limit
  is turned away at the end of the registration.
- `reload_names`: a reload keeps the old instance alive, and with it the names of
  its commands, so a module with commands fails to load again
  (`reloadmodule.cpp:694`).
- `cap_notify`: a capability leaves the manager only when its module is
  destroyed, and `ircv3_capnotify` then asks for the module
  (`ircv3_capnotify.cpp:145`).

Seen while modelling, without a run of their own. The models follow the code in
each case, and where a property would fail it names the exception.

- Between servers: two channels made in the same second, a KICK that crosses a
  resynchronisation, an empty channel after an FJOIN whose members are all
  unknown (`fjoin.cpp:136`), and a topic lost with its setter are never repaired;
  the comment at `nickcollide.cpp:75` has the two timestamps the wrong way round;
  ADDLINE and DELLINE carry no order.
- Clients: a client that its own queued command quits can be taken off its class
  twice in `DoBackgroundUserStuff`; the class of operators can end above its limit
  when a login ends; `cull.cpp:77` reads the class of a client that may have none;
  lines that were held back are looked at again only while there is a penalty or
  something to send (`usermanager.cpp:342`).
- Registration: a lookup flag, a count of lists or a name can belong to an earlier
  address (the gaps of `ConnectHolds`).
- Lookups and links: an autoconnect block stays where it is after a link that
  cannot be dialled; a late result of a SASL exchange can end the next one;
  `OnUserConnect` aborts an exchange without telling the services; an AUTHENTICATE
  whose parameter has a space or a leading colon, or is too long, is answered by
  906 or 905 as if the exchange had ended, and the exchange goes on
  (`sasl.cpp:289` and `:295`).
- Threads: the wake-up of `Thread::Stop` is lost when the thread is about to sleep; callbacks of SQL results run under the lock of the queue;
  the address of a deleted query can be used again while its result is under way.
- Records: an invitation asked for until a time is given that time as a duration
  (`invite.cpp:117`); WHOWAS groups are dropped only from the front of the queue;
  the ban line database is not written at shutdown.
- Modules: a command of an unloaded module can be called until the end of the
  loop; `SaveExtensions` never counts its index (`reloadmodule.cpp:371`); a failed
  load deletes the library before the instance (`modulemanager.cpp:111`);
  capabilities of a module that is reloaded get bits the manager's map does not
  know.

## Proofs

Each theorem is about the module's own specification and every value of its
constants that satisfies the module's named assumptions. Each says that a
property that a run checks holds always. The argument is the same throughout: an
inductive invariant that holds at first, a lemma for each action that keeps it,
and that it implies the property.

| Theorem | Property | Invariant, and what it adds |
| --- | --- | --- |
| `NickIndexExact`, `TypeCorrect` | `ClientListExact` | `NickInv`: a UUID is held as a nick only by its own user, every known user has a nick, and no UID or NICK on a wire carries another user's UUID. Without these, the loser of a collision, who is renamed to its UUID without a look at who holds it, could displace somebody. |
| `CapabilitiesAreKept` | `CapsKept` | `CapInv`: every object with a bit is the one the map has for its name. The loop over the tokens of CAP REQ is handled by induction. |
| `CountersAreExact` | `CountersExact` | `CountInv`: who has no object has no class and is no operator, who waits to be culled exists; the use counts and limits hold until some client is taken off twice. The two loops of `CullList::Apply` are handled by induction over the clients done. |
| `TimersAreKept` | `TimersKept` | `TimerInv`: the iterator of `TickTimers` is at the first timer that is left, unless only later ones are. |
| `TableIsExact`, `DnsKeepsPromise` | `TableExact`, `PromiseKept` | `DnsInv`, `DnsBounds`: what the table, the timer, the callbacks and the nesting depth say of each request and each id. |
| `BlocksStayAlive` | `BlockAlive` | `AutoconnectInv`: the property, over links of the four kinds. |
| `PingsAreKept` | `PingsKept` | `PingInv`: what is on the path of a server, and how long it has been there, in each state of its timer. |
| `LinkedServersAgree` | `LinkedMeansAgreed` | `AuthInv`: while neither end gives up, the state of both is that of having read so many lines of one negotiation. |
| `VerdictsAreOwn` | `OneOwnVerdict` | `SaslInv`: which messages of which exchange can be on the links, and that what a client was told of an exchange is the answers to its rejected lines, followed, once it is over, by one result that is its own, the server's, or of an earlier exchange that ended early. |
| `InvitesAreKept` | `InvitesKept` | `InviteInv`: an invitation that exists was asked for. |
| `CleanIsSaved`, `AlwaysReplacedAsAWhole` | `CleanMeansSaved`, `ReplacedAsAWhole` | `DbInv`: the temporary file holds only lines that are in memory, and no line of the configuration is in the file. |
| `LinesAreKept` | `QueueKept` | `QueueInv`: what was sent is text and end in turn. |
| `ConnectedIsSound` | `ConnectedSound` | `HoldsInv`: what the modules that the loop has passed have checked, and that a name of an earlier address is kept only while a lookup holds the client. |
| `HeldClientsHaveAReason` | `HeldForAReason` | `HeldInv`: a database query is pending exactly while its module holds the client. |
| `RequestsAreSafe` | `RequestsSafe` | `LdapInv`: each open request is in one place, and the batch is guarded by its lock. |
| `QueriesAreSafe` | `QueriesSafe` | `SqlInv`: who holds which lock in which state, and that a query which is open is queued. |

`ErasingProofs` has the lemmas on sequences without some of their elements that
`ThreadProofs` and `ManagerProofs` share. The assumptions are those of the module:
that sets are not empty or finite, that bounds are natural numbers, that special
values are not members of the sets. `ClientsAssumption` also says that a use
count can count all clients (`Wrap`).

Proofs changed three of the properties, because what they said did not follow.
`OneOwnVerdict` now follows a chain of exchanges that late results end one after
another; `HeldForAReason` was strengthened for the database query; and
`LimitKept`, a part of `CountersExact`, leaves out the class of operators, which
the code lets exceed its limit.

## What is only model-checked

- Liveness (`ComesToRest`, `LinksAreMade`, `AnswersCome`, `ConnectionsMoveOn`,
  and the liveness of `DnsPromise`): the prover has no rules for fairness.
- `SocketConsistent`, `StreamKept`, `HistoryKept` and `MatchIsRight`: their
  modules define recursive operators, for which the prover has no induction.
- Agreement between servers (`NetworkAgrees`, `SaveJustified`, `ChannelAgreement`,
  `OpsEarned`, `KickHitsItsTarget`, `TreeExact`, `TreeMatchesNetwork`,
  `LinesAccepted`): an inductive invariant would have to describe every
  combination of lines in flight on a tree of any shape. The runs are the evidence,
  for three servers.
- `NothingOutlivesItsLine`, `ExemptionHonoured`, `LinesEnforced`, `ModulesKept`
  and `ReloadKeepsData` are not proved.

## What is not modelled

Text: parsing, formatting, masks beyond `Wildcard`, and configuration files.
Commands that only read. Messages between users. List modes and modes with
parameters. Ban lines, metadata and away states between servers. The translation
for servers of the previous protocol. The optional modules, except those named
above. `PROJECT.json` gives the reason for each.
