------------------------------ MODULE XLineDb -------------------------------
(***************************************************************************)
(* The X-line database (modules/xline_db.cpp) of one server across crashes *)
(* and restarts.  Lines are added, deleted and expire (src/xline.cpp), a   *)
(* rehash adds and removes the lines of the configuration                  *)
(* (modules/core/xline/core_xline.cpp), and a timer writes the lines to a  *)
(* temporary file and renames it.  A line is a mask with its expiry; the   *)
(* other fields are written and read back unchanged.  External: the file   *)
(* system, where a write or a rename may fail, and what a process wrote    *)
(* before it crashed is kept.                                              *)
(***************************************************************************)
EXTENDS Integers, FiniteSets

CONSTANTS
    LineMask,       \* what lines are set on
    SavePeriod, \* <xlinedb:saveperiod>
    Backoff,    \* <xlinedb:backoff>
    MaxBackoff, \* <xlinedb:maxbackoff>
    MaxDay      \* bound on the time

ASSUME DbAssumption == /\ SavePeriod \in Nat \ {0} /\ Backoff \in Nat
                       /\ MaxBackoff \in Nat /\ MaxBackoff >= SavePeriod /\ MaxDay \in Nat

VARIABLES
    xlines,     \* lookup_lines: [mask, until, conf], until = 0 for a permanent line
    dirty,      \* ModuleXLineDB::dirty
    interval,   \* Timer::secs
    saveDue,        \* Timer::trigger
    today,      \* ServerInstance->Time()
    writing,    \* "no", or the step WriteDatabase is at
    tempFile,   \* lines in the temporary file
    dbFile,     \* lines in the database
    running,    \* the server runs
    shadowed,   \* history: masks whose saved line a line of the configuration replaced
    unread      \* history: the server started without being able to read the file

dbVars == <<xlines, dirty, interval, saveDue, today, writing, tempFile, dbFile, running, shadowed, unread>>

XLine(m, t, c) == [mask |-> m, until |-> t, conf |-> c]

LineExpired(l) == l.until # 0 /\ today > l.until

XMasks(S) == {l.mask : l \in S}

DbInit ==
    /\ xlines = {} /\ dirty = FALSE
    /\ interval = SavePeriod /\ saveDue = SavePeriod
    /\ today = 0 /\ writing = "no"
    /\ tempFile = {} /\ dbFile = {}
    /\ running = TRUE /\ shadowed = {} /\ unread = FALSE

-----------------------------------------------------------------------------
(* The lines: the server does nothing else while it writes *)

Unlisted == running /\ writing = "no"

(* OnAddLine and OnDelLine *)
MarkedMutant(l) == dirty

Marked(l) == dirty \/ ~l.conf

(* AddLine of a line that is not from the configuration, by a command or a link *)
DbAddLine(l) ==
    /\ Unlisted
    /\ \A k \in xlines : k.mask = l.mask => k.until # 0 /\ today >= k.until
    /\ xlines' = {k \in xlines : k.mask # l.mask} \cup {l}
    /\ dirty' = Marked(l)
    /\ UNCHANGED <<interval, saveDue, today, writing, tempFile, dbFile, running, unread>>
    /\ shadowed' = shadowed \ {l.mask}

DbDelLine(l) ==
    /\ Unlisted /\ l \in xlines
    /\ xlines' = xlines \ {l}
    /\ dirty' = Marked(l)
    /\ UNCHANGED <<interval, saveDue, today, writing, tempFile, dbFile, running, shadowed, unread>>

(* The server expires a line when it meets it, and tells no one to save *)
DbExpireLine(l) ==
    /\ Unlisted /\ l \in xlines /\ LineExpired(l)
    /\ xlines' = xlines \ {l}
    /\ UNCHANGED <<dirty, interval, saveDue, today, writing, tempFile, dbFile, running, shadowed, unread>>

(* The lines S with those of the configuration C: ReadXLine *)
WithConfig(S, C) ==
    {l \in S : ~l.conf /\ l.mask \notin C} \cup {XLine(m, 0, TRUE) : m \in C}

Hidden(S, C) == {l.mask : l \in {k \in S : ~k.conf /\ k.mask \in C}}

DbRehash(C) ==
    /\ Unlisted
    /\ xlines' = WithConfig(xlines, C)
    /\ shadowed' = shadowed \cup Hidden(xlines, C)
    /\ UNCHANGED <<dirty, interval, saveDue, today, writing, tempFile, dbFile, running, unread>>

-----------------------------------------------------------------------------
(* Tick and WriteDatabase *)

DbSecond ==
    /\ Unlisted /\ today < MaxDay /\ saveDue > today
    /\ today' = today + 1
    /\ UNCHANGED <<xlines, dirty, interval, saveDue, writing, tempFile, dbFile, running, shadowed, unread>>

TickClean ==
    /\ Unlisted /\ saveDue <= today /\ ~dirty
    /\ saveDue' = today + interval
    /\ UNCHANGED <<xlines, dirty, interval, today, writing, tempFile, dbFile, running, shadowed, unread>>

(* The temporary file is opened; GetAll expires lines before they are written *)
TickOpens ==
    /\ Unlisted /\ saveDue <= today /\ dirty
    /\ xlines' = {l \in xlines : ~LineExpired(l)}
    /\ tempFile' = {}
    /\ writing' = "lines"
    /\ UNCHANGED <<dirty, interval, saveDue, today, dbFile, running, shadowed, unread>>

ToWrite == {l \in xlines : ~l.conf} \ tempFile

WriteLine(l) ==
    /\ running /\ writing = "lines" /\ l \in ToWrite
    /\ tempFile' = tempFile \cup {l}
    /\ UNCHANGED <<xlines, dirty, interval, saveDue, today, writing, dbFile, running, shadowed, unread>>

RenameMutant ==
    /\ running /\ writing = "lines"
    /\ dbFile' = tempFile
    /\ dirty' = FALSE
    /\ interval' = SavePeriod /\ saveDue' = today + SavePeriod
    /\ writing' = "no" /\ tempFile' = {}
    /\ shadowed' = {} /\ unread' = FALSE
    /\ UNCHANGED <<xlines, today, running>>

(* stream.fail() is false and rename works *)
Rename ==
    /\ running /\ writing = "lines" /\ ToWrite = {}
    /\ dbFile' = tempFile
    /\ dirty' = FALSE
    /\ interval' = SavePeriod /\ saveDue' = today + SavePeriod
    /\ writing' = "no" /\ tempFile' = {}
    /\ shadowed' = {} /\ unread' = FALSE
    /\ UNCHANGED <<xlines, today, running>>

(* The open, a write or the rename failed *)
WriteFails ==
    /\ running /\ writing = "lines"
    /\ interval' = IF Backoff > 1 /\ interval * Backoff > MaxBackoff THEN MaxBackoff
                   ELSE IF Backoff > 1 THEN interval * Backoff ELSE interval
    /\ saveDue' = today + interval'
    /\ writing' = "no" /\ tempFile' = {}
    /\ UNCHANGED <<xlines, dirty, today, dbFile, running, shadowed, unread>>

-----------------------------------------------------------------------------

(* The process ends, at any point; the temporary file is not looked at again *)
DbCrash ==
    /\ running
    /\ running' = FALSE
    /\ xlines' = {} /\ dirty' = FALSE
    /\ interval' = SavePeriod /\ saveDue' = 0
    /\ writing' = "no" /\ tempFile' = {}
    /\ shadowed' = {} /\ unread' = FALSE
    /\ UNCHANGED <<today, dbFile>>

(* init reads the file, if it can, and starts the timer; then the modules read *)
(* the configuration.                                                          *)
DbStart(readable, C) ==
    LET loaded == IF readable THEN {l \in dbFile : ~LineExpired(l)} ELSE {}
    IN  /\ ~running
        /\ running' = TRUE
        /\ xlines' = WithConfig(loaded, C)
        /\ shadowed' = Hidden(loaded, C)
        /\ unread' = ~readable
        /\ dirty' = FALSE
        /\ interval' = SavePeriod /\ saveDue' = today + SavePeriod
        /\ writing' = "no"
        /\ UNCHANGED <<today, tempFile, dbFile>>

NewLines == {XLine(m, t, FALSE) : m \in LineMask, t \in {0, today + 1}}

DbNext ==
    \/ \E l \in NewLines : DbAddLine(l)
    \/ \E l \in xlines : DbDelLine(l)
    \/ \E l \in xlines : DbExpireLine(l)
    \/ \E C \in SUBSET LineMask : DbRehash(C)
    \/ DbSecond
    \/ TickClean
    \/ TickOpens
    \/ \E l \in ToWrite : WriteLine(l)
    \/ Rename
    \/ WriteFails
    \/ DbCrash
    \/ \E readable \in BOOLEAN, C \in SUBSET LineMask : DbStart(readable, C)

DbSafe == DbInit /\ [][DbNext]_dbVars

-----------------------------------------------------------------------------

DbTypeOK ==
    /\ \A l \in xlines \cup tempFile \cup dbFile :
        l \in [mask : LineMask, until : Nat, conf : BOOLEAN]
    /\ dirty \in BOOLEAN /\ running \in BOOLEAN /\ unread \in BOOLEAN
    /\ interval \in SavePeriod .. MaxBackoff
    /\ saveDue \in Nat /\ today \in 0 .. MaxDay
    /\ writing \in {"no", "lines"}
    /\ shadowed \subseteq LineMask

(* While nothing is marked as unsaved the file and the memory agree: a crash   *)
(* now would lose no line, and bring back no line that was deleted (except one *)
(* that a line of the configuration replaced, and except after a start that    *)
(* could not read the file).                                                   *)
CleanMeansSaved ==
    running /\ ~dirty =>
        /\ {l \in xlines : ~l.conf /\ ~LineExpired(l)} \subseteq dbFile
        /\ unread \/ \A l \in dbFile : LineExpired(l) \/ l \in xlines \/ l.mask \in shadowed

(* The database is replaced as a whole: whatever happens while it is written,  *)
(* it changes only to all the lines that were in memory (WriteDatabase's       *)
(* temporary file and rename).                                                 *)
ReplacedAsAWhole ==
    [][dbFile' # dbFile => dbFile' = {l \in xlines : ~l.conf}]_dbVars

=============================================================================
