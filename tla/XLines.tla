------------------------------- MODULE XLines -------------------------------
(***************************************************************************)
(* Ban lines on one server: the line table and the pending list of         *)
(* XLineManager, the ban cache, and what they do to local users as users   *)
(* connect, register and get a host name, as lines are added by operators, *)
(* by other servers (one at a time or in a netburst) and by the            *)
(* configuration, and as they are removed or expire.                       *)
(*                                                                         *)
(* G-lines match a user@host, Z-lines an address; both disconnect the      *)
(* user.  E-lines exempt the users they match.  A mask is a number: its    *)
(* position in the ordered map of its type.                                *)
(***************************************************************************)
EXTENDS Integers, Sequences, SequencesExt, FiniteSets, FiniteSetsExt

CONSTANTS
    Client,     \* connections that may come and go
    Address,    \* IP addresses
    AddressOf,  \* AddressOf[c]: the address c connects from
    Host,       \* what the real host of a user may be
    FirstHost,  \* the host before the lookup answers: the address
    LineKey,    \* the <<type, mask>> pairs in use
    Covers,     \* Covers[l]: the <<client, host>> pairs that line l matches
    UserStar,   \* the G-lines whose user part is "*"
    Scope,      \* what behaviours are limited to: clients, hosts, lines and
                \* the lines that may appear in the configuration
    Duration,   \* durations lines are given; 0 is permanent
    Day,        \* 86400 seconds, scaled
    NoLine, NoHit,
    MaxNow      \* bound: seconds that pass

TypeOf(l) == l[1]
MaskOf(l) == l[2]
OfType(t) == {l \in LineKey : TypeOf(l) = t}

ASSUME XLineAssumption ==
    /\ IsFiniteSet(Client)
    /\ AddressOf \in [Client -> Address]
    /\ FirstHost \in Host
    /\ LineKey \subseteq {"G", "Z", "E"} \X Nat
    /\ IsFiniteSet(LineKey)
    /\ Covers \in [LineKey -> SUBSET (Client \X Host)]
    /\ UserStar \subseteq OfType("G")
    /\ Scope \subseteq [client : SUBSET Client, host : SUBSET Host,
                         key : SUBSET LineKey, config : SUBSET LineKey]
    /\ Duration \subseteq Nat
    /\ Day \in Nat \ {0}
    /\ MaxNow \in Nat

(* A Z-line looks at nothing but the address. *)
ASSUME ZLineAssumption ==
    \A l \in OfType("Z"), c, d \in Client, g, h \in Host :
        AddressOf[c] = AddressOf[d] => (<<c, g>> \in Covers[l] <=> <<d, h>> \in Covers[l])

VARIABLES
    lines,      \* lookup_lines: a line or NoLine for every key
    pending,    \* pending_lines: keys of lines not yet applied
    cache,      \* BanHash: a hit or NoHit for every address
    local,      \* local_users, the newest first
    full,       \* the local users that are fully connected
    host,       \* User::GetRealHost
    exempt,     \* LocalUser::exempt
    bursting,   \* a netburst from another server is in progress
    now,        \* ServerInstance->Time()
    lapsed,     \* history: local users whose exemption ended
    scope       \* the member of Scope this behaviour keeps to

vars == <<lines, pending, cache, local, full, host, exempt, bursting, now, lapsed, scope>>

Users == ToSet(local)

(* Everything but the clock and the burst, as one value. *)
View == [lines |-> lines, pending |-> pending, cache |-> cache, local |-> local,
         full |-> full, host |-> host, exempt |-> exempt, lapsed |-> lapsed]

Become(v) ==
    /\ lines' = v.lines
    /\ pending' = v.pending
    /\ cache' = v.cache
    /\ local' = v.local
    /\ full' = v.full
    /\ host' = v.host
    /\ exempt' = v.exempt
    /\ lapsed' = v.lapsed

-----------------------------------------------------------------------------
(* The ban cache *)

Negative == ""

AddHit(v, a, type, seconds) ==
    IF v.cache[a] # NoHit
    THEN v
    ELSE [v EXCEPT !.cache[a] = [type |-> type,
                                 expiry |-> now + (IF seconds = 0 THEN Day ELSE seconds)]]

(* RemoveIfExpired() *)
Current(hit) == hit # NoHit /\ now < hit.expiry

RemoveEntries(v, type, positive) ==
    [v EXCEPT !.cache = [a \in Address |->
        IF /\ Current(v.cache[a])
           /\ (IF positive THEN v.cache[a].type # type ELSE v.cache[a].type # Negative)
        THEN v.cache[a] ELSE NoHit]]

(* GetHit() drops an entry that is out of date. *)
Refresh(v, a) == IF Current(v.cache[a]) THEN v ELSE [v EXCEPT !.cache[a] = NoHit]

-----------------------------------------------------------------------------
(* Lines and users *)

Expired(line) == line.duration # 0 /\ now > line.expiry
InForce(line) == line.duration = 0 \/ now < line.expiry

Has(v, l) == v.lines[l] # NoLine

Covered(v, l, c) == <<c, v.host[c]>> \in Covers[l]

(* Matches() of each kind of line *)
Matches(v, l, c) == Covered(v, l, c) /\ (TypeOf(l) # "E" => ~v.exempt[c])

SetExempt(v, f) ==
    [v EXCEPT !.exempt = f,
              !.lapsed = @ \cup {c \in ToSet(v.local) : v.exempt[c] /\ ~f[c]}]

CheckELinesMutant(v) ==
    IF \A l \in OfType("E") : ~Has(v, l)
    THEN v
    ELSE SetExempt(v, [c \in Client |-> FALSE])

CheckELines(v) ==
    IF \A l \in OfType("E") : ~Has(v, l)
    THEN v
    ELSE SetExempt(v, [c \in Client |->
            /\ c \in ToSet(v.local)
            /\ \E l \in OfType("E") : Has(v, l) /\ InForce(v.lines[l]) /\ Covered(v, l, c)])

(* Unset() of an E-line runs before the line leaves the table. *)
Unset(v, l) == IF TypeOf(l) = "E" THEN CheckELines(v) ELSE v

EraseMutant(v, l) == [v EXCEPT !.lines[l] = NoLine]

Erase(v, l) ==
    [v EXCEPT !.lines[l] = NoLine,
              !.pending = SelectSeq(@, LAMBDA p : p # l)]

(* ExpireLine(); DelLine() does the same to the table. *)
ExpireLine(v, l) == Erase(Unset(RemoveEntries(v, TypeOf(l), TRUE), l), l)

InMaskOrder(S) == SetToSortSeq(S, LAMBDA x, y : MaskOf(x) < MaskOf(y))

ExpireLines(v, S) == IF S = {} THEN v ELSE FoldLeft(ExpireLine, v, InMaskOrder(S))

Dead(v, t) == {l \in OfType(t) : Has(v, l) /\ Expired(v.lines[l])}

(* MatchesLine() walks the map of one type up to the first match and       *)
(* expires what it passes.                                                 *)
Hits(v, t, c) == {l \in OfType(t) \ Dead(v, t) : Has(v, l) /\ Matches(v, l, c)}

FirstHit(v, t, c) ==
    CHOOSE l \in Hits(v, t, c) : \A m \in Hits(v, t, c) : MaskOf(l) <= MaskOf(m)

AfterMatch(v, t, c) ==
    ExpireLines(v, {l \in Dead(v, t) :
                    Hits(v, t, c) = {} \/ MaskOf(l) < MaskOf(FirstHit(v, t, c))})

Quit(v, c) ==
    [v EXCEPT !.local = SelectSeq(@, LAMBDA d : d # c),
              !.full = @ \ {c},
              !.host[c] = FirstHost,
              !.exempt[c] = FALSE,
              !.lapsed = @ \ {c}]

(* Apply() and DefaultApply(); an E-line does nothing. *)
Apply(v, l, c) ==
    LET line == v.lines[l]
        seconds == IF line.duration > 0 THEN line.expiry - now ELSE 0
    IN IF TypeOf(l) = "E" THEN v
       ELSE IF TypeOf(l) = "Z" \/ l \in UserStar
       THEN AddHit(Quit(v, c), AddressOf[c], TypeOf(l), seconds)
       ELSE Quit(v, c)

CheckLines(v, c, doZline) ==
    IF v.exempt[c] THEN v
    ELSE LET g == AfterMatch(v, "G", c)
             z == AfterMatch(g, "Z", c)
         IN IF Hits(v, "G", c) # {} THEN Apply(g, FirstHit(v, "G", c), c)
            ELSE IF ~doZline THEN g
            ELSE IF Hits(g, "Z", c) # {} THEN Apply(z, FirstHit(g, "Z", c), c)
            ELSE z

(* exempt = (MatchesLine("E", user) != nullptr) *)
Reexempt(v, c) ==
    LET e == AfterMatch(v, "E", c)
    IN SetExempt(e, [e.exempt EXCEPT ![c] = Hits(v, "E", c) # {}])

(* ApplyLines(): a user leaves at the first pending line that bans them. *)
ApplyTo(v, c) ==
    LET bans == SelectSeq(v.pending, LAMBDA l : TypeOf(l) # "E" /\ Matches(v, l, c))
    IN IF v.exempt[c] \/ bans = <<>> THEN v ELSE Apply(v, Head(bans), c)

ApplyLines(v) == [FoldLeft(ApplyTo, v, v.local) EXCEPT !.pending = <<>>]

(* AddLine() once the line is known to be acceptable *)
Insert(v, l, line) ==
    LET w == RemoveEntries(v, TypeOf(l), FALSE)
        x == [w EXCEPT !.pending = Append(@, l), !.lines[l] = line]
    IN IF TypeOf(l) = "E"
       THEN SetExempt(x, [c \in Client |->
                x.exempt[c] \/ (c \in ToSet(x.local) /\ Covered(x, l, c))])
       ELSE x

(* Whether AddLine() takes the line; fresh: its reason differs from that   *)
(* of the configuration line it would replace.                             *)
Accepts(v, l, line, fresh) ==
    /\ ~Expired(line)
    /\ Has(v, l) =>
         IF line.config
         THEN v.lines[l].config => fresh
         ELSE ~InForce(v.lines[l])

AddLine(v, l, line) == Insert(IF Has(v, l) THEN ExpireLine(v, l) ELSE v, l, line)

-----------------------------------------------------------------------------
(* UserManager::AddUser(), for a client that a connect class admits *)
Checked(v, c) == CheckLines(Reexempt(v, c), c, TRUE)

AddUserMutant(c) ==
    /\ c \notin Users
    /\ LET v == Reexempt([View EXCEPT !.local = <<c>> \o @], c)
           a == AddressOf[c]
           w == Refresh(v, a)
       IN Become(IF w.cache[a] # NoHit
                 THEN IF w.cache[a].type # Negative /\ ~w.exempt[c] THEN Quit(w, c) ELSE w
                 ELSE Checked(w, c))
    /\ UNCHANGED <<bursting, now>>

AddUser(c) ==
    /\ c \notin Users
    /\ LET v == Reexempt([View EXCEPT !.local = <<c>> \o @], c)
           a == AddressOf[c]
           w == Refresh(v, a)
           z == AfterMatch(w, "Z", c)
       IN Become(IF w.cache[a] # NoHit
                 THEN IF w.cache[a].type # Negative /\ ~w.exempt[c]
                      THEN Quit(w, c)
                      ELSE Checked(w, c)
                 ELSE IF w.exempt[c] THEN Checked(w, c)
                 ELSE IF Hits(w, "Z", c) # {} THEN Apply(z, FirstHit(w, "Z", c), c)
                 ELSE Checked(z, c))
    /\ UNCHANGED <<bursting, now>>

(* The host name lookup of a client answers: OnPostChangeRealHost *)
ChangeRealHost(c, h) ==
    /\ c \in Users \ full
    /\ host[c] = FirstHost /\ h # FirstHost
    /\ Become(CheckLines(Reexempt([View EXCEPT !.host[c] = h], c), c, FALSE))
    /\ UNCHANGED <<bursting, now>>

FullConnect(c) ==
    /\ c \in Users \ full
    /\ LET v == CheckLines(View, c, FALSE)
       IN Become(IF c \in ToSet(v.local)
                 THEN AddHit([v EXCEPT !.full = @ \cup {c}], AddressOf[c], Negative, 0)
                 ELSE v)
    /\ UNCHANGED <<bursting, now>>

QuitUser(c) ==
    /\ c \in Users
    /\ Become(Quit(View, c))
    /\ UNCHANGED <<bursting, now>>

(* Lines that operators and other servers set; created: the time of the    *)
(* server the line was set on.  Nothing reads the expiry of a permanent    *)
(* line.                                                                   *)
Line(duration, created) ==
    [duration |-> duration,
     expiry |-> IF duration = 0 THEN 0 ELSE created + duration,
     config |-> FALSE]

(* The GLINE and ZLINE commands, and ADDLINE from a server that is not     *)
(* bursting.  ELINE leaves the pending list alone.                         *)
CommandLine(l, d) ==
    LET line == Line(d, now)
    IN /\ Accepts(View, l, line, TRUE)
       /\ LET v == AddLine(View, l, line)
          IN Become(IF TypeOf(l) = "E" THEN v ELSE ApplyLines(v))
       /\ UNCHANGED <<bursting, now>>

AddLineMessage(l, d, created) ==
    LET line == Line(d, created)
    IN /\ Accepts(View, l, line, TRUE)
       /\ LET v == AddLine(View, l, line)
          IN Become(IF bursting THEN v ELSE ApplyLines(v))
       /\ UNCHANGED <<bursting, now>>

BeginBurst ==
    /\ ~bursting
    /\ bursting' = TRUE
    /\ UNCHANGED <<lines, pending, cache, local, full, host, exempt, now, lapsed>>

FinishBurst ==
    /\ bursting
    /\ bursting' = FALSE
    /\ Become(ApplyLines(View))
    /\ UNCHANGED now

DelLine(l) ==
    /\ Has(View, l)
    /\ Become(ExpireLine(View, l))
    /\ UNCHANGED <<bursting, now>>

(* GetAll(): STATS, a netburst, the garbage collector *)
GetAll(t) ==
    /\ Dead(View, t) # {}
    /\ Become(ExpireLines(View, Dead(View, t)))
    /\ UNCHANGED <<bursting, now>>

(* ReadConfig() of core_xline; cfg: the lines of the new configuration,    *)
(* fresh: those with a new reason.                                         *)
ReadXLine(v, t, cfg, fresh) ==
    LET line == [duration |-> 0, expiry |-> 0, config |-> TRUE]
        Add(w, l) == IF Accepts(w, l, line, l \in fresh) THEN AddLine(w, l, line) ELSE w
        added == FoldLeft(Add, v, InMaskOrder(cfg \cap OfType(t)))
    IN ExpireLines(added, {l \in OfType(t) \ cfg : Has(added, l) /\ added.lines[l].config})

ReadConfig(cfg, fresh) ==
    /\ LET z == ReadXLine(View, "Z", cfg, fresh)
           g == ReadXLine(z, "G", cfg, fresh)
           e == ReadXLine(g, "E", cfg, fresh)
       IN Become(ApplyLines(CheckELines(e)))
    /\ UNCHANGED <<bursting, now>>

Tick ==
    /\ now < MaxNow
    /\ now' = now + 1
    /\ UNCHANGED <<lines, pending, cache, local, full, host, exempt, bursting, lapsed>>

Init ==
    /\ lines = [l \in LineKey |-> NoLine]
    /\ pending = <<>>
    /\ cache = [a \in Address |-> NoHit]
    /\ local = <<>>
    /\ full = {}
    /\ host = [c \in Client |-> FirstHost]
    /\ exempt = [c \in Client |-> FALSE]
    /\ bursting = FALSE
    /\ now = 0
    /\ lapsed = {}
    /\ scope \in Scope

Next ==
    /\ UNCHANGED scope
    /\ \/ \E c \in scope.client :
             \/ AddUser(c)
             \/ FullConnect(c)
             \/ QuitUser(c)
             \/ \E h \in scope.host : ChangeRealHost(c, h)
       \/ \E l \in scope.key :
             \/ DelLine(l)
             \/ \E d \in Duration :
                   \/ CommandLine(l, d)
                   \/ \E created \in {now - 1, now} :
                        (d = 0 => created = now) /\ AddLineMessage(l, d, created)
       \/ \E t \in {"G", "Z", "E"} : GetAll(t)
       \/ \E cfg \in SUBSET scope.config : \E fresh \in SUBSET cfg : ReadConfig(cfg, fresh)
       \/ BeginBurst
       \/ FinishBurst
       \/ Tick

Spec == Init /\ [][Next]_vars

-----------------------------------------------------------------------------
(* Properties *)

(* Type correctness of the state of XLineManager, the ban cache and the    *)
(* local users.                                                            *)
TypeOK ==
    /\ lines \in [LineKey -> [duration : Nat, expiry : Int, config : BOOLEAN] \cup {NoLine}]
    /\ pending \in Seq(LineKey)
    /\ cache \in [Address -> [type : {Negative, "G", "Z"}, expiry : Int] \cup {NoHit}]
    /\ local \in Seq(Client)
    /\ full \subseteq Users
    /\ host \in [Client -> Host]
    /\ exempt \in [Client -> BOOLEAN]
    /\ bursting \in BOOLEAN
    /\ now \in 0..MaxNow
    /\ lapsed \subseteq Users
    /\ scope \in Scope

(* pending_lines holds bare pointers: every one of them is a line that is  *)
(* still in the table, and none is there twice, whichever of DelLine(),    *)
(* ExpireLine() or a replacement by AddLine() freed lines in the meantime. *)
PendingAlive ==
    /\ \A i \in DOMAIN pending : Has(View, pending[i])
    /\ Cardinality(ToSet(pending)) = Len(pending)

(* A positive entry of the ban cache never outlives the lines it stands    *)
(* for: there is a line of its type in the table that some client of that  *)
(* address matches, so nobody is refused for a line that was removed.      *)
HitHasLine ==
    \A a \in Address :
        Current(cache[a]) /\ cache[a].type # Negative =>
            \E l \in OfType(cache[a].type), c \in Client, h \in Host :
                /\ Has(View, l)
                /\ AddressOf[c] = a
                /\ <<c, h>> \in Covers[l]

(* No pointer to a line and no verdict taken from one outlives the line,   *)
(* and no client or line is in a state that the server has not.            *)
NothingOutlivesItsLine == TypeOK /\ PendingAlive /\ HitHasLine

(* A local user matched by an E-line that is in force is exempt, through   *)
(* host changes, expiry and removal of other E-lines and rehashes.         *)
ExemptionHonoured ==
    \A c \in Users, l \in OfType("E") :
        Has(View, l) /\ InForce(lines[l]) /\ Covered(View, l, c) => exempt[c]

(* A G-line or Z-line in the table that is not waiting for ApplyLines()    *)
(* has been applied to every local user it matches: nobody slips past it   *)
(* through a negative ban cache entry, a netburst or a late host name.     *)
(* Only a user whose exemption ended is still there.                       *)
LinesEnforced ==
    \A c \in Users \ lapsed, l \in LineKey \ ToSet(pending) :
        (Has(View, l) /\ ~Expired(lines[l]) /\ TypeOf(l) # "E" /\ Covered(View, l, c))
            => exempt[c]

(* What the comments on CheckELines() and Unset() promise: the exempt flag *)
(* follows the E-lines, so a user is exempt only while some E-line in the  *)
(* table matches them.                                                     *)
ExemptFollowsLines ==
    \A c \in Users : exempt[c] => \E l \in OfType("E") : Has(View, l) /\ Covered(View, l, c)
=============================================================================
