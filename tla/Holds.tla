------------------------------- MODULE Holds --------------------------------
(***************************************************************************)
(* The life of a hold on a calendar backend and in the coverage ledger:    *)
(* off and request create it and record it, promote, check --promote and   *)
(* the daemon's notify and leave steps act on it once it reads as          *)
(* approved, cancel deletes it and forgets it.  Each command is a process  *)
(* of its own, each step below is one call to the backend or one file      *)
(* operation, and a process may die or a call fail between any two.        *)
(*                                                                         *)
(* Code: cmd/off.go, request.go, run.go, promote.go, check.go, cancel.go,  *)
(* coverage.go, state.go, team.go, internal/coverage, the backends         *)
(* internal/graph, google, caldav and eventkit, internal/hris.             *)
(***************************************************************************)
EXTENDS Dates

CONSTANTS
    Backends,       \* which of graph, google, caldav, icloud is in use
    Procs,
    Owners,
    Ids,            \* hold ids
    None,           \* no hold, no event, no process
    Phrases,        \* the words typed
    DateFlags,      \* pairs of days given as --start and --end
    Portions,       \* values of --half
    Shows,          \* the free/busy status a workflow asks for
    MaxTeamOff,     \* VAMOOSE_MAX_TEAM_OFF
    LastDay,        \* bound on the clock
    MaxCommands,    \* bound on commands
    MaxAnswers,     \* bound on the approver's answers
    MaxCrashes      \* bound on crashes

ASSUME HoldsAssumption ==
    /\ Backends \subseteq {"graph", "google", "caldav", "icloud"}
    /\ Phrases \subseteq Words /\ Portions \subseteq {"am", "pm"}
    /\ DateFlags \subseteq Nat \X Nat
    /\ Shows \subseteq {"free", "tentative", "busy", "oof"}
    /\ None \notin Ids \cup Procs
    /\ {MaxTeamOff, LastDay, MaxCommands, MaxAnswers, MaxCrashes} \subseteq Nat
    /\ LastDay > 0

VARIABLES
    backend,    \* the backend in use
    now,        \* the time
    events,     \* the event of each hold on the calendar, or None
    answer,     \* what the approver answered, per hold
    copies,     \* the answers in the copies Calendar.app synced, per hold
    teamSet,    \* team.json names a team
    ledger,     \* coverage.json
    lock,       \* who has coverage.json.lock
    lastHold,   \* state.json
    filed,      \* leave filed with the HR system
    procs,      \* the commands
    used,       \* how much of each bound is used
    made,       \* history: holds ever created
    told,       \* history: holds whose id a command printed
    booked,     \* history: entries of off commands that ended well, not forgotten
    cancelled,  \* history: holds whose cancel ended well
    rushed      \* history: holds cancelled before their off command ended

calendarVars == <<events, answer, copies>>
fileVars == <<teamSet, ledger, lock, lastHold>>
history == <<made, told, booked, cancelled, rushed>>
vars == <<backend, now, calendarVars, fileVars, filed, procs, used, history>>

-----------------------------------------------------------------------------
(* What the backends keep and report. *)

Answers == {"needed", "tentative", "accepted", "declined"}

\* Mutant: every backend is updated as a CalDAV server is.
PatchesNone == {}

\* Where an update is one request that changes the fields it names and fails
\* when the event is gone.  The others are read and replaced.
Patches == {"graph", "google"}

\* The zero time at both ends, which is no window.
Zero == [start |-> 0, end |-> 0]

ToGraphEvent(hold) ==
    [hold EXCEPT !.show = IF hold.show \in {"free", "tentative", "oof"} THEN hold.show ELSE "busy"]

\* Mutant: a tentative hold is read as a busy one.
FromGraphEventBusy(event) ==
    [event EXCEPT !.window = Zero,
                  !.show = IF event.show \in {"free", "oof"} THEN event.show ELSE "busy"]

\* Start and end are neither asked for nor converted.
FromGraphEvent(event) ==
    [event EXCEPT !.window = Zero,
                  !.show = IF event.show \in {"free", "tentative", "oof"} THEN event.show ELSE "busy"]

transparencyFromShowAs(show) == IF show = "free" THEN "transparent" ELSE "opaque"
showAsFromTransparency(t) == IF t = "transparent" THEN "free" ELSE "busy"

ToGoogleEvent(hold) == [hold EXCEPT !.show = transparencyFromShowAs(hold.show)]

\* Mutant: only boundaries with a time of day are read, not bare dates.
FromGoogleEventTimeless(event) ==
    [event EXCEPT !.window = IF event.window.start % DayLen = 0 THEN Zero ELSE event.window,
                  !.show = showAsFromTransparency(event.show)]

FromGoogleEvent(event) == [event EXCEPT !.show = showAsFromTransparency(event.show)]

transparency(show) == IF show = "free" THEN "TRANSPARENT" ELSE "OPAQUE"

ApplyHold(hold) == [hold EXCEPT !.show = transparency(hold.show)]
FromEvent(event) == [event EXCEPT !.show = IF event.show = "TRANSPARENT" THEN "free" ELSE "busy"]

\* The event a backend keeps for a hold, and the hold it reads an event as.
Written(hold) ==
    CASE backend = "graph" -> ToGraphEvent(hold)
      [] backend = "google" -> ToGoogleEvent(hold)
      [] OTHER -> ApplyHold(hold)

Read(event) ==
    CASE backend = "graph" -> FromGraphEvent(event)
      [] backend = "google" -> FromGoogleEvent(event)
      [] OTHER -> FromEvent(event)

Rank(a) == [declined |-> 4, accepted |-> 3, tentative |-> 2, needed |-> 1][a]

\* Mutant: the least definite answer is kept.
StrongestLeast(answers) == CHOOSE a \in answers : \A b \in answers : Rank(a) <= Rank(b)

Strongest(answers) == CHOOSE a \in answers : \A b \in answers : Rank(a) >= Rank(b)

\* What GetHold returns: for iCloud the answer is that of the synced copies, as
\* its server does not report one.
Reported(h) ==
    IF backend = "icloud" /\ copies[h] # {}
    THEN [Read(events[h]) EXCEPT !.stat = Strongest(copies[h])]
    ELSE Read(events[h])

-----------------------------------------------------------------------------
(* What may be typed, and what is told of the team. *)

MidMorning(d) == d * DayLen + 1

Typed(t) ==
    {ResolveWord(t, word) : word \in Phrases}
        \cup {w \in {ParseDates(f[1], f[2]) : f \in DateFlags} : ValidWindow(w)}

\* The windows off accepts: those typed, or a half of a single day.
Accepted(t) ==
    Typed(t) \cup
        {HalfDay(w, portion) : w \in {v \in Typed(t) : SingleDay(v)}, portion \in Portions}

Event(w, show) == [window |-> w, show |-> show, team |-> FALSE, stat |-> "needed"]

EntryOf(h, owner, w) == [hold |-> h, owner |-> owner, start |-> w.start, end |-> w.end]

Entries ==
    {EntryOf(h, owner, w) : h \in Ids, owner \in Owners,
                            w \in UNION {Accepted(MidMorning(d)) : d \in 1..LastDay}}

OwnersIn(entries) == {x.owner : x \in entries}

CountOff(entries, w) == Cardinality(OwnersIn({x \in entries : Overlaps(x, w)}))

WarnCoverage(entries, w) == MaxTeamOff > 0 /\ CountOff(entries, w) >= MaxTeamOff

-----------------------------------------------------------------------------
(* The commands.  A process that is not idle runs one of them. *)

Acts == {"promote", "force", "leave"}

Idle ==
    [at |-> "idle", act |-> None, hold |-> None, owner |-> None, held |-> None,
     kept |-> {}, crowd |-> FALSE, warned |-> FALSE]

Goto(p, point) == procs' = [procs EXCEPT ![p].at = point]
End(p) == procs' = [procs EXCEPT ![p] = Idle]

Start(p, command) ==
    /\ procs[p].at = "idle" /\ used.commands < MaxCommands
    /\ used' = [used EXCEPT !.commands = @ + 1]
    /\ procs' = [procs EXCEPT ![p] = command]

\* off, or request: the window is read, the warning given, the hold put together.
Off(p, owner, w, show) ==
    /\ Start(p, [Idle EXCEPT !.at = "create", !.act = "off", !.owner = owner,
                             !.held = Event(w, show),
                             !.crowd = WarnCoverage({x \in booked : x.end > now}, w),
                             !.warned = WarnCoverage(ledger, w)])
    /\ UNCHANGED <<backend, now, calendarVars, fileVars, filed, history>>

\* The backend makes the event; its reply, or the hold as sent, is the hold
\* the command goes on with.  The reply may be lost.
CreateHold(p, h) ==
    /\ procs[p].at = "create" /\ h \notin made
    /\ LET event == Written(procs[p].held)
           hold == IF backend \in Patches THEN Read(event) ELSE procs[p].held
       IN  /\ events' = [events EXCEPT ![h] = event]
           /\ \/ procs' = [procs EXCEPT ![p].at = "save", ![p].hold = h, ![p].held = hold]
              \/ End(p)
    /\ made' = made \cup {h}
    /\ UNCHANGED <<backend, now, answer, copies, fileVars, filed, used, told, booked,
                   cancelled, rushed>>

SaveState(p) ==
    /\ procs[p].at = "save"
    /\ lastHold' = procs[p].hold
    /\ told' = told \cup {procs[p].hold}
    /\ Goto(p, "record")
    /\ UNCHANGED <<backend, now, calendarVars, teamSet, ledger, lock, filed, used, made,
                   booked, cancelled, rushed>>

\* The command's own end: what it was asked to book is booked, if it is still there.
Booked(p) ==
    LET h == procs[p].hold
    IN  booked' = IF events[h] = None THEN booked
                  ELSE booked \cup {EntryOf(h, procs[p].owner, events[h].window)}

\* An owner that cannot be looked up, or a hold without a window, ends off
\* without an entry and without an error; the second is not the environment's doing.
RecordCoverage(p) ==
    /\ procs[p].at = "record"
    /\ \/ ValidWindow(procs[p].held.window) /\ Goto(p, "lock") /\ UNCHANGED booked
       \/ ~ ValidWindow(procs[p].held.window) /\ End(p) /\ Booked(p)
       \/ End(p) /\ UNCHANGED booked
    /\ UNCHANGED <<backend, now, calendarVars, fileVars, filed, used, made, told, cancelled,
                   rushed>>

\* What Record, or Remove, leaves of the ledger it has read.
Kept(p) ==
    IF procs[p].act = "off"
    THEN {x \in ledger : x.end > now}
            \cup {EntryOf(procs[p].hold, procs[p].owner, procs[p].held.window)}
    ELSE {x \in ledger : x.hold # procs[p].hold}

\* Mutant: the ledger is read without waiting for the lock.
LockLedgerNot(p) ==
    /\ procs[p].at = "lock"
    /\ procs' = [procs EXCEPT ![p].at = "store", ![p].kept = Kept(p)]
    /\ rushed' = rushed
    /\ UNCHANGED <<backend, now, calendarVars, fileVars, filed, used, made, told, booked,
                   cancelled>>

\* withFileLock, and the read inside it.
LockLedger(p) ==
    /\ procs[p].at = "lock" /\ lock = None
    /\ lock' = p
    /\ procs' = [procs EXCEPT ![p].at = "store", ![p].kept = Kept(p)]
    /\ rushed' = IF \E q \in Procs \ {p} : procs[q].act = "off" /\ procs[q].hold = procs[p].hold
                 THEN rushed \cup {procs[p].hold} ELSE rushed
    /\ UNCHANGED <<backend, now, calendarVars, teamSet, ledger, lastHold, filed, used, made,
                   told, booked, cancelled>>

StoreLedger(p) ==
    /\ procs[p].at = "store"
    /\ ledger' = procs[p].kept
    /\ lock' = None
    /\ \/ procs[p].act = "off" /\ End(p) /\ Booked(p)
       \/ /\ procs[p].act = "cancel" /\ Goto(p, "load")
          /\ booked' = {x \in booked : x.hold # procs[p].hold}
    /\ UNCHANGED <<backend, now, calendarVars, teamSet, lastHold, filed, used, made, told,
                   cancelled, rushed>>

\* cancel of the hold named, or of the last one.
Cancel(p, h) ==
    /\ h \in told \/ h = lastHold
    /\ Start(p, [Idle EXCEPT !.at = "delete", !.act = "cancel", !.hold = h])
    /\ UNCHANGED <<backend, now, calendarVars, fileVars, filed, history>>

\* A backend refuses to delete what is gone, and then nothing is forgotten.
DeleteHold(p) ==
    LET h == procs[p].hold IN
    /\ procs[p].at = "delete"
    /\ IF events[h] = None
       THEN End(p) /\ UNCHANGED events
       ELSE Goto(p, "lock") /\ events' = [events EXCEPT ![h] = None]
    /\ UNCHANGED <<backend, now, answer, copies, fileVars, filed, used, history>>

Cancelled(p) == End(p) /\ cancelled' = cancelled \cup {procs[p].hold}

LoadState(p) ==
    /\ procs[p].at = "load"
    /\ \/ lastHold = procs[p].hold /\ Goto(p, "clear") /\ UNCHANGED cancelled
       \/ lastHold # procs[p].hold /\ Cancelled(p)
    /\ UNCHANGED <<backend, now, calendarVars, fileVars, filed, used, made, told, booked,
                   rushed>>

\* Mutant: the last hold stays in state.json.
ClearStateNever(p) ==
    /\ procs[p].at = "clear"
    /\ Cancelled(p)
    /\ UNCHANGED <<backend, now, calendarVars, fileVars, filed, used, made, told, booked,
                   rushed>>

ClearState(p) ==
    /\ procs[p].at = "clear"
    /\ lastHold' = None
    /\ Cancelled(p)
    /\ UNCHANGED <<backend, now, calendarVars, teamSet, ledger, lock, filed, used, made, told,
                   booked, rushed>>

\* promote and check --promote, with --force, and a walk's notify and leave steps.
Act(p, h, act) ==
    /\ h \in told
    /\ Start(p, [Idle EXCEPT !.at = "get", !.act = act, !.hold = h])
    /\ UNCHANGED <<backend, now, calendarVars, fileVars, filed, history>>

GetHold(p) ==
    LET h == procs[p].hold IN
    /\ procs[p].at = "get"
    /\ IF events[h] = None \/ (procs[p].act # "force" /\ Reported(h).stat # "accepted")
       THEN End(p)
       ELSE procs' = [procs EXCEPT ![p].held = Reported(h),
                                   ![p].at = IF procs[p].act = "leave" THEN "file" ELSE "team"]
    /\ UNCHANGED <<backend, now, calendarVars, fileVars, filed, used, history>>

HasDirectory == backend = "graph"

\* promoteHold up to the update: nothing to do without a team, or with one
\* that is invited already.
PromoteHold(p) ==
    /\ procs[p].at = "team"
    /\ IF (teamSet \/ HasDirectory) /\ ~ procs[p].held.team
       THEN procs' = [procs EXCEPT ![p].held.team = TRUE,
                                   ![p].at = IF backend \in Patches THEN "patch" ELSE "fetch"]
       ELSE End(p)
    /\ UNCHANGED <<backend, now, calendarVars, fileVars, filed, used, history>>

\* The answers of those who are invited already are the server's own.
PatchHold(p) ==
    LET h == procs[p].hold IN
    /\ procs[p].at = "patch"
    /\ events' = IF events[h] = None THEN events
                 ELSE [events EXCEPT ![h].show = Written(procs[p].held).show,
                                     ![h].team = procs[p].held.team]
    /\ End(p)
    /\ UNCHANGED <<backend, now, answer, copies, fileVars, filed, used, history>>

\* CalDAV: the object is read for its identity ...
FetchHold(p) ==
    /\ procs[p].at = "fetch"
    /\ IF events[procs[p].hold] = None THEN End(p) ELSE Goto(p, "put")
    /\ UNCHANGED <<backend, now, calendarVars, fileVars, filed, used, history>>

\* ... and put back with every other field as the command knows it.
PutHold(p) ==
    /\ procs[p].at = "put"
    /\ events' = [events EXCEPT ![procs[p].hold] = ApplyHold(procs[p].held)]
    /\ End(p)
    /\ UNCHANGED <<backend, now, answer, copies, fileVars, filed, used, history>>

\* Mutant: the last day is always the one before the end.
LeaveDayBefore(h, w) == [hold |-> h, first |-> Day(w.start), last |-> Day(w.end) - 1]

\* The dates of a hold's start and end.
Leave(h, w) == [hold |-> h, first |-> Day(w.start), last |-> Day(w.end)]

FileLeave(p) ==
    /\ procs[p].at = "file"
    /\ filed' = filed \cup {Leave(procs[p].hold, procs[p].held.window)}
    /\ End(p)
    /\ UNCHANGED <<backend, now, calendarVars, fileVars, used, history>>

\* A call to the backend, to the HR system or the write of state.json fails.
Fail(p) ==
    /\ procs[p].at \in {"create", "save", "delete", "get", "patch", "fetch", "put", "file"}
    /\ End(p)
    /\ UNCHANGED <<backend, now, calendarVars, fileVars, filed, used, history>>

Team ==
    /\ teamSet' = ~ teamSet
    /\ UNCHANGED <<backend, now, calendarVars, ledger, lock, lastHold, filed, procs, used,
                   history>>

-----------------------------------------------------------------------------
(* The approver, the calendars and the machine. *)

\* iCloud's server does not show the answer.
Answer(h, a) ==
    /\ events[h] # None /\ used.answers < MaxAnswers
    /\ used' = [used EXCEPT !.answers = @ + 1]
    /\ answer' = [answer EXCEPT ![h] = a]
    /\ events' = IF backend = "icloud" THEN events ELSE [events EXCEPT ![h].stat = a]
    /\ UNCHANGED <<backend, now, copies, fileVars, filed, procs, history>>

\* Calendar.app brings some of its copies of an event up to date.
Sync(h, stale) ==
    /\ backend = "icloud" /\ events[h] # None
    /\ copies' = [copies EXCEPT ![h] = stale \cup {answer[h]}]
    /\ UNCHANGED <<backend, now, events, answer, fileVars, filed, procs, used, history>>

Tick ==
    /\ Day(now) < LastDay
    /\ now' = MidMorning(Day(now) + 1)
    /\ UNCHANGED <<backend, calendarVars, fileVars, filed, procs, used, history>>

\* Mutant: the lock outlives its process.
CrashLocked(p) ==
    /\ procs[p].at # "idle" /\ used.crashes < MaxCrashes
    /\ used' = [used EXCEPT !.crashes = @ + 1]
    /\ End(p)
    /\ UNCHANGED <<backend, now, calendarVars, fileVars, filed, history>>

Crash(p) ==
    /\ procs[p].at # "idle" /\ used.crashes < MaxCrashes
    /\ used' = [used EXCEPT !.crashes = @ + 1]
    /\ End(p)
    /\ lock' = IF lock = p THEN None ELSE lock
    /\ UNCHANGED <<backend, now, calendarVars, teamSet, ledger, lastHold, filed, history>>

Init ==
    /\ backend \in Backends
    /\ now = MidMorning(1)
    /\ events = [h \in Ids |-> None]
    /\ answer = [h \in Ids |-> "needed"]
    /\ copies = [h \in Ids |-> {}]
    /\ teamSet \in BOOLEAN
    /\ ledger = {} /\ lock = None /\ lastHold = None /\ filed = {}
    /\ procs = [p \in Procs |-> Idle]
    /\ used = [commands |-> 0, answers |-> 0, crashes |-> 0]
    /\ made = {} /\ told = {} /\ booked = {} /\ cancelled = {} /\ rushed = {}

\* What a command does once it has started.
Step(p) ==
    \/ \E h \in Ids : CreateHold(p, h)
    \/ SaveState(p) \/ RecordCoverage(p) \/ LockLedger(p) \/ StoreLedger(p)
    \/ DeleteHold(p) \/ LoadState(p) \/ ClearState(p)
    \/ GetHold(p) \/ PromoteHold(p) \/ PatchHold(p) \/ FetchHold(p) \/ PutHold(p)
    \/ FileLeave(p) \/ Fail(p)

Next ==
    \/ \E p \in Procs :
        \/ Step(p) \/ Crash(p)
        \/ \E owner \in Owners, w \in Accepted(now), show \in Shows : Off(p, owner, w, show)
        \/ \E h \in Ids : Cancel(p, h) \/ \E act \in Acts : Act(p, h, act)
    \/ \E h \in Ids :
        \/ \E a \in Answers : Answer(h, a)
        \/ \E stale \in SUBSET copies[h] : Sync(h, stale)
    \/ Team \/ Tick

Spec == Init /\ [][Next]_vars

\* A command is a running process: it goes on, and a call or a wait for the
\* lock returns once it can.
FairSpec == Spec /\ \A p \in Procs : WF_vars(Step(p))

-----------------------------------------------------------------------------
(* Properties. *)

L == INSTANCE CoverageLedger
        WITH Entry <- Entries, HoldIds <- Ids, entries <- ledger, clock <- now

\* However commands and daemons overlap and die, the ledger's file changes as
\* if each Record and Remove had happened at once, and loses only time off
\* that is over (withFileLock).
LedgerAtomic == L!Spec

\* Whichever day it is typed on, "next week" is five days in a row from a
\* Monday after today and a weekday is its first day after today, and the
\* working days reported for a window are the days of it that are worked
\* (resolveRelative, Count).  A phrase depends on nothing but the day, so the
\* states in which no command has started are enough.
PhrasesRead ==
    used.commands = 0 =>
    \A d \in Day(now)..(Day(now) + 13) :
        LET t == MidMorning(d) IN
        /\ LET w == ResolveWord(t, "next week") IN
            /\ Day(w.start) \in (d + 1)..(d + 7) /\ Day(w.start) % 7 = Monday
            /\ DaysOf(w) = Day(w.start)..(Day(w.start) + 4)
        /\ \A target \in 0..6 :
            DaysOf(ResolveWeekday(t, target)) =
                {CHOOSE x \in (d + 1)..(d + 7) : x % 7 = target}
        /\ \A w \in Accepted(t) : Count(w) = Cardinality({x \in DaysOf(w) : IsWorkday(x)})

\* Time off whose command ended without an error, its owner looked up, is in
\* the ledger until it is over or a cancel forgets it, and who books into a
\* window that enough colleagues have booked is told so, whatever was recorded,
\* cancelled or dropped meanwhile (recordCoverage, warnCoverage).  Graph's
\* holds are not counted: see FromGraphEvent.
BookedIsCounted ==
    backend # "graph" =>
        /\ \A x \in booked : x.end > now => x \in ledger
        /\ \A p \in Procs : procs[p].crowd => procs[p].warned

\* Once a cancel has ended well its hold is neither counted nor the last hold,
\* except when it overtook the command that made the hold (forgetHold).
CancelledForgotten ==
    \A h \in cancelled \ rushed : lastHold # h /\ \A x \in ledger : x.hold # h

\* An update adds the team and leaves the hold's window and status as they
\* are, on every backend, whatever it reads them as (UpdateHold).
UpdatesOnlyAdd ==
    [][\A h \in Ids : events[h] # None /\ events'[h] # None =>
            /\ events'[h].window = events[h].window
            /\ events'[h].show = events[h].show
            /\ events[h].team => events'[h].team]_vars

\* On a backend that patches, a hold that was deleted does not come back,
\* whichever updates were under way (DeleteHold).
DeletedStaysGone ==
    [][\A h \in made :
        backend \in {"graph", "google"} /\ events[h] = None => events'[h] = None]_vars

\* Without --force nothing is done while a synced copy of the event says
\* declined, unless the event itself says accepted (responseRank).
NoDeclineOverruled ==
    [][\A p \in Procs :
        procs[p].at = "get" /\ procs'[p].at \in {"team", "file"} /\ procs[p].act # "force" =>
            LET h == procs[p].hold
            IN  "declined" \notin copies[h] \/ events[h].stat = "accepted"]_vars

\* Leave that is filed covers every day of the hold, but on Graph (fileLeave).
LeaveCoversHold ==
    backend # "graph" => \A f \in filed :
        events[f.hold] # None => DaysOf(events[f.hold].window) \subseteq f.first..f.last

\* A command that has started ends, in spite of others that die while they
\* hold the ledger's lock.
CommandsEnd == \A p \in Procs : procs[p].at # "idle" ~> procs[p].at = "idle"

\* What the HR package says of a filed leave: its end is the last day off
\* (internal/hris/hris.go).
LeaveIsTheHold ==
    \A f \in filed : events[f.hold] # None => f.first..f.last = DaysOf(events[f.hold].window)
=============================================================================
