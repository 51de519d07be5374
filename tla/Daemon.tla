------------------------------- MODULE Daemon -------------------------------
(***************************************************************************)
(* Watched runs: `vamoose run --watch` creates a hold and leaves it at its *)
(* first gate, the daemon advances it gate by gate, `vamoose cancel`       *)
(* withdraws it.  They share the calendar, the watch list (watches.json)   *)
(* and the coverage ledger, and each may die between any two of its steps. *)
(*                                                                         *)
(* Code: cmd/run.go, cmd/daemon.go, cmd/watch.go, cmd/promote.go           *)
(* (promoteHold) and cmd/cancel.go.  One action is one call with an effect *)
(* outside the process, or the code between two of them.  A single         *)
(* addWatch or removeWatch is atomic here.  The order of the list, which   *)
(* only decides the order of a pass, is left open.                         *)
(***************************************************************************)
EXTENDS Workflow

CONSTANTS
    Holds,         \* the holds the user may create
    NoHold,        \* no hold
    Definitions,   \* the workflow files
    Boss,          \* the requester's manager
    Team,          \* the people a notify step adds
    MaxAge,        \* bound on the age of a watch item, in ticks
    MaxAnswers,    \* bound on the responses people give
    MaxRefusals,   \* bound on the calls that fail without effect
    MaxMishaps,    \* bound on crashes, lost replies and failed file writes
    InviteMayFail, \* whether the update that invites a later approver may fail
    DiskMayFail,   \* whether a write of the watch list may fail
    ReportsGone,   \* whether the backend tells a deleted hold from a failed call
    Prune          \* daemon --prune

ASSUME DaemonAssumption ==
    /\ \A w \in Definitions : IsWorkflow(w)
    /\ NoHold \notin Holds
    /\ Boss \in People
    /\ Team \subseteq People
    /\ IsFiniteSet(People)
    /\ MaxAge \in Nat
    /\ MaxAnswers \in Nat
    /\ MaxRefusals \in Nat
    /\ MaxMishaps \in Nat
    /\ {InviteMayFail, DiskMayFail, ReportsGone, Prune} \subseteq BOOLEAN

VARIABLES
    flow,     \* the workflow each hold runs; never changes
    exists,   \* calendar: the hold is on the calendar
    att,      \* calendar: its attendees
    resp,     \* calendar: their responses
    watches,  \* watches.json
    covered,  \* coverage.json: "none", "on" once recorded, "off" once removed
    cli,      \* what the user's command is at, per hold
    cliAt,    \* the step the run command is at
    dpc,      \* what the daemon is at
    todo,     \* the items of the pass still to advance
    kept,     \* the pass's copy of the list, updated item by item
    cur,      \* the hold being advanced
    copy,     \* the attendees GetHold returned for it
    at,       \* the step walkSteps is at
    outcome,  \* the outcome the gate gave; NoOutcome for a wait or a resumed run
    answers, refusals, mishaps,  \* how much of each bound is used
    told,     \* history: the user was told the run is watched
    dropped,  \* history: the run was taken off the list on purpose
    saidYes,  \* history: who ever accepted
    ran,      \* history: the side effects that took effect
    repeats,  \* history: how many of them took effect again
    records,  \* history: the gate outcomes in the audit log
    commits,  \* history: the gate outcomes acted on
    reached   \* history: the steps the current branch has got to, or Stop

calendar == <<exists, att, resp>>
command  == <<cli, cliAt>>
local    == <<todo, kept, cur, copy, at, outcome>>
bounds   == <<answers, refusals, mishaps>>
effects  == <<ran, repeats>>
gates    == <<saidYes, records, commits, reached>>
listing  == <<told, dropped>>

vars == <<flow, calendar, watches, covered, command, dpc, local, bounds,
          listing, effects, gates>>

-----------------------------------------------------------------------------
(* Data.                                                                   *)

Loaded == {w \in Definitions : Validate(w)}

Indices == 0 .. (MaxSteps - 1)
Responses == {"none", "accepted", "declined"}

\* watchItem; age is the time since CreatedAt.
Item == [step : Indices, resume : Indices, done : BOOLEAN,
         approver : People \cup {NoOne}, age : 0 .. MaxAge]
NoItem == [step |-> Stop]
Nobody == [h \in Holds |-> NoItem]

CliStates == {"new", "made", "walk", "gate", "forget", "uncover", "end"}
DaemonStates == {"down", "idle", "pass", "record", "commit", "walk", "forget",
                 "uncover", "checkpoint", "invite"}

TypeOK ==
    /\ flow \in [Holds -> Definitions]
    /\ exists \in [Holds -> BOOLEAN]
    /\ att \in [Holds -> SUBSET People]
    /\ resp \in [Holds -> [People -> Responses]]
    /\ watches \in [Holds -> Item \cup {NoItem}]
    /\ covered \in [Holds -> {"none", "on", "off"}]
    /\ cli \in [Holds -> CliStates]
    /\ cliAt \in [Holds -> Indices \cup {Stop}]
    /\ dpc \in DaemonStates
    /\ todo \subseteq Holds
    /\ kept \in [Holds -> Item \cup {NoItem}]
    /\ cur \in Holds \cup {NoHold}
    /\ copy \subseteq People
    /\ at \in Indices \cup {Stop}
    /\ outcome \in Outcomes \cup {NoOutcome}
    /\ answers \in 0 .. MaxAnswers
    /\ refusals \in 0 .. MaxRefusals
    /\ mishaps \in 0 .. MaxMishaps
    /\ told \in [Holds -> BOOLEAN]
    /\ dropped \in [Holds -> BOOLEAN]
    /\ saidYes \in [Holds -> SUBSET People]
    /\ ran \in [Holds -> SUBSET Indices]
    /\ repeats \in Nat
    /\ records \in [Holds -> SUBSET (Indices \X Outcomes)]
    /\ commits \in [Holds -> SUBSET (Indices \X Outcomes)]
    /\ reached \in [Holds -> SUBSET (Indices \cup {Stop})]

Init ==
    /\ flow \in [Holds -> Loaded]
    /\ exists = [h \in Holds |-> FALSE]
    /\ att = [h \in Holds |-> {}]
    /\ resp = [h \in Holds |-> [p \in People |-> "none"]]
    /\ watches = Nobody
    /\ covered = [h \in Holds |-> "none"]
    /\ cli = [h \in Holds |-> "new"]
    /\ cliAt = [h \in Holds |-> Stop]
    /\ dpc = "idle"
    /\ todo = {}
    /\ kept = Nobody
    /\ cur = NoHold
    /\ copy = {}
    /\ at = Stop
    /\ outcome = NoOutcome
    /\ answers = 0 /\ refusals = 0 /\ mishaps = 0
    /\ told = [h \in Holds |-> FALSE]
    /\ dropped = [h \in Holds |-> FALSE]
    /\ saidYes = [h \in Holds |-> {}]
    /\ ran = [h \in Holds |-> {}]
    /\ repeats = 0
    /\ records = [h \in Holds |-> {}]
    /\ commits = [h \in Holds |-> {}]
    /\ reached = [h \in Holds |-> {}]

-----------------------------------------------------------------------------
(* The approver a gate waits on.                                           *)

ApproverOf(s) == IF s.approver # NoOne THEN s.approver ELSE Boss

\* runWorkflowOn invites the approver of the first approve step with the hold,
\* and nothing ever removes it: managerAttendee of this hold.
FirstApprover(w) == ApproverOf(w[FirstApprove(w)])
Invited(w) == IF Has(w, "approve") THEN {FirstApprover(w)} ELSE {}

\* Mutant of GateResponse: a chain reads the first required attendee throughout.
FirstResponse(h, item) ==
    IF FirstApprover(flow[h]) \in att[h] THEN resp[h][FirstApprover(flow[h])] ELSE "none"

\* gateResponse: the approver the item names, or the first required attendee.
GateResponse(h, item) ==
    LET p == IF item.approver # NoOne THEN item.approver ELSE FirstApprover(flow[h])
    IN  IF p \in att[h] THEN resp[h][p] ELSE "none"

\* branchPlan at an approve gate.  A response wins over a timeout that passed.
Resolved(h, item, o) ==
    LET s == flow[h][item.step]
        r == GateResponse(h, item)
    IN  /\ s.verb = "approve"
        /\ \/ r # "none" /\ o = r
           \/ r = "none" /\ o = "expired" /\ s.timeout > 0 /\ item.age > s.timeout

\* branchPlan at a wait.
Elapsed(h, item) ==
    /\ flow[h][item.step].verb = "wait"
    /\ item.age >= flow[h][item.step].for

-----------------------------------------------------------------------------
(* The calls a step makes.                                                 *)

Spend(counter, bound) == counter < bound /\ counter' = counter + 1

Refuse == Spend(refusals, MaxRefusals) /\ UNCHANGED <<answers, mishaps>>
Mishap == Spend(mishaps, MaxMishaps) /\ UNCHANGED <<answers, refusals>>

\* UpdateHold replaces the attendee list; those who stay keep their response.
SetAttendees(h, people) ==
    /\ att' = [att EXCEPT ![h] = people]
    /\ resp' = [resp EXCEPT ![h] =
                   [p \in People |-> IF p \in people THEN @[p] ELSE "none"]]
    /\ UNCHANGED exists

\* promoteHold finds the whole team on the hold it was given: no call is made.
Needless(h, i, known) == flow[h][i].verb = "notify" /\ Team \subseteq known

NeedsHold(h, i, known) ==
    flow[h][i].verb = "cancel" \/ (flow[h][i].verb = "notify" /\ ~(Team \subseteq known))

\* Step i takes effect on hold h, given the attendees the caller knows.
Perform(h, i, known) ==
    /\ NeedsHold(h, i, known) => exists[h]
    /\ IF Needless(h, i, known) THEN UNCHANGED calendar
       ELSE IF flow[h][i].verb = "notify" THEN SetAttendees(h, known \cup Team)
       ELSE IF flow[h][i].verb = "cancel"
            THEN exists' = [exists EXCEPT ![h] = FALSE] /\ UNCHANGED <<att, resp>>
       ELSE UNCHANGED calendar
    /\ ran' = [ran EXCEPT ![h] = @ \cup {i}]
    /\ repeats' = IF i \in ran[h] /\ ~Needless(h, i, known) THEN repeats + 1 ELSE repeats

\* Step i fails without effect: the call is refused, or the hold is gone.
Refused(h, i, known) ==
    /\ \/ Refuse
       \/ NeedsHold(h, i, known) /\ ~exists[h] /\ UNCHANGED bounds
    /\ UNCHANGED <<calendar, effects>>

\* Step i takes effect but its reply is lost, so the caller sees an error.
ReplyLost(h, i, known) ==
    /\ ~Needless(h, i, known)
    /\ Mishap
    /\ Perform(h, i, known)

MayRun(h, i, known) ==
    /\ i # Stop
    /\ flow[h][i].verb \in Effects
    /\ \E today \in BOOLEAN : Allows(flow[h][i].when, Cardinality(known), today)

MaySkip(h, i, known) ==
    /\ i # Stop
    /\ \E today \in BOOLEAN : ~Allows(flow[h][i].when, Cardinality(known), today)

-----------------------------------------------------------------------------
(* Commands.                                                               *)

\* runWorkflowOn: CreateHold.
CreateHold(h) ==
    /\ cli[h] = "new"
    /\ exists' = [exists EXCEPT ![h] = TRUE]
    /\ att' = [att EXCEPT ![h] = Invited(flow[h])]
    /\ cli' = [cli EXCEPT ![h] = "made"]
    /\ UNCHANGED <<flow, resp, watches, covered, cliAt, dpc, local, bounds, listing,
                   effects, gates>>

\* Then the state file, the audit event and, unless it is a meeting, the ledger
\* entry, which is best effort; the walk starts after the creating step.
RecordHold(h) ==
    /\ cli[h] = "made"
    /\ \/ /\ flow[h][0].verb # "event"
          /\ covered' = [covered EXCEPT ![h] = "on"]
          /\ UNCHANGED bounds
       \/ flow[h][0].verb # "event" /\ Refuse /\ UNCHANGED covered
       \/ flow[h][0].verb = "event" /\ UNCHANGED <<covered, bounds>>
    /\ cli' = [cli EXCEPT ![h] = "walk"]
    /\ cliAt' = [cliAt EXCEPT ![h] = NextStep(flow[h], 0, NoOutcome)]
    /\ UNCHANGED <<flow, calendar, watches, dpc, local, listing, effects, gates>>

\* walkSteps from the run command, which keeps no checkpoint: an error ends it.
CliRunStep(h) ==
    /\ cli[h] = "walk"
    /\ LET i == cliAt[h]
           known == Invited(flow[h])
       IN  /\ MayRun(h, i, known)
           /\ \/ /\ Perform(h, i, known)
                 /\ cliAt' = [cliAt EXCEPT ![h] = AfterStep(flow[h], i)]
                 /\ cli' = [cli EXCEPT ![h] =
                               IF flow[h][i].verb = "cancel" THEN "forget" ELSE "walk"]
                 /\ UNCHANGED bounds
              \/ /\ Refused(h, i, known) \/ ReplyLost(h, i, known)
                 /\ cli' = [cli EXCEPT ![h] = "end"]
                 /\ UNCHANGED cliAt
    /\ UNCHANGED <<flow, watches, covered, dpc, local, listing, gates>>

CliSkipStep(h) ==
    /\ cli[h] = "walk"
    /\ MaySkip(h, cliAt[h], Invited(flow[h]))
    /\ cliAt' = [cliAt EXCEPT ![h] = NextStep(flow[h], cliAt[h], NoOutcome)]
    /\ UNCHANGED <<flow, calendar, watches, covered, cli, dpc, local, bounds, listing,
                   effects, gates>>

\* The walk ends, or stops at a gate.
CliWalked(h) ==
    /\ cli[h] = "walk"
    /\ \/ cliAt[h] = Stop /\ cli' = [cli EXCEPT ![h] = "end"]
       \/ /\ cliAt[h] # Stop
          /\ Waits(flow[h][cliAt[h]])
          /\ cli' = [cli EXCEPT ![h] = "gate"]
    /\ UNCHANGED <<flow, calendar, watches, covered, cliAt, dpc, local, bounds, listing,
                   effects, gates>>

\* gateWaiting with --watch: the run is on the list and the user is told so.
AddWatch(h) ==
    /\ cli[h] = "gate"
    /\ watches' = [watches EXCEPT ![h] =
           [step |-> cliAt[h], resume |-> 0, done |-> FALSE, age |-> 0,
            approver |-> IF flow[h][cliAt[h]].verb = "approve"
                         THEN FirstApprover(flow[h]) ELSE NoOne]]
    /\ cli' = [cli EXCEPT ![h] = "end"]
    /\ told' = [told EXCEPT ![h] = TRUE]
    /\ UNCHANGED <<flow, calendar, covered, cliAt, dpc, local, bounds, dropped,
                   effects, gates>>

\* runCancel, and a user who deletes the event by hand: CliDies then follows.
CancelHold(h) ==
    /\ cli[h] = "end"
    /\ exists[h]
    /\ exists' = [exists EXCEPT ![h] = FALSE]
    /\ cli' = [cli EXCEPT ![h] = "forget"]
    /\ UNCHANGED <<flow, att, resp, watches, covered, cliAt, dpc, local, bounds, listing,
                   effects, gates>>

\* forgetHold: removeWatch, then forgetCoverage.
ForgetWatch(h) ==
    /\ cli[h] = "forget"
    /\ watches' = [watches EXCEPT ![h] = NoItem]
    /\ dropped' = [dropped EXCEPT ![h] = TRUE]
    /\ cli' = [cli EXCEPT ![h] = "uncover"]
    /\ UNCHANGED <<flow, calendar, covered, cliAt, dpc, local, bounds, told, effects, gates>>

ForgetCoverage(h) ==
    /\ cli[h] = "uncover"
    /\ covered' = [covered EXCEPT ![h] = "off"]
    /\ cli' = [cli EXCEPT ![h] = "end"]
    /\ UNCHANGED <<flow, calendar, watches, cliAt, dpc, local, bounds, listing, effects,
                   gates>>

\* A command is interrupted, or fails to write the state file or the list.
CliDies(h) ==
    /\ cli[h] \notin {"new", "end"}
    /\ cli' = [cli EXCEPT ![h] = "end"]
    /\ UNCHANGED <<flow, calendar, watches, covered, cliAt, dpc, local, bounds, listing,
                   effects, gates>>

-----------------------------------------------------------------------------
(* People and time.                                                        *)

Answer(h, p, r) ==
    /\ exists[h]
    /\ p \in att[h]
    /\ r # resp[h][p]
    /\ Spend(answers, MaxAnswers)
    /\ resp' = [resp EXCEPT ![h][p] = r]
    /\ saidYes' = [saidYes EXCEPT ![h] = IF r = "accepted" THEN @ \cup {p} ELSE @]
    /\ UNCHANGED <<flow, exists, att, watches, covered, command, dpc, local, refusals,
                   mishaps, listing, effects, records, commits, reached>>

Older(list) ==
    [h \in Holds |-> IF list[h] = NoItem \/ list[h].age = MaxAge THEN list[h]
                     ELSE [list[h] EXCEPT !.age = @ + 1]]

Tick ==
    /\ Older(watches) # watches \/ Older(kept) # kept
    /\ watches' = Older(watches)
    /\ kept' = Older(kept)
    /\ UNCHANGED <<flow, calendar, covered, command, dpc, todo, cur, copy, at, outcome,
                   bounds, listing, effects, gates>>

-----------------------------------------------------------------------------
(* The daemon: one pass of pollAll.                                        *)

\* loadWatches; an empty list ends the pass before anything is written.
PollStart ==
    /\ dpc = "idle"
    /\ watches # Nobody
    /\ dpc' = "pass"
    /\ todo' = {h \in Holds : watches[h] # NoItem}
    /\ kept' = watches
    /\ UNCHANGED <<flow, calendar, watches, covered, command, cur, copy, at, outcome, bounds,
                   listing, effects, gates>>

Polling(h) == dpc = "pass" /\ h \in todo

\* The pass is done with hold h: item stays on the list, NoItem leaves it.
SetAside(h, item) ==
    /\ todo' = todo \ {h}
    /\ kept' = [kept EXCEPT ![h] = item]
    /\ dropped' = [dropped EXCEPT ![h] = @ \/ item = NoItem]
    /\ dpc' = "pass"
    /\ cur' = NoHold
    /\ copy' = {}
    /\ at' = Stop
    /\ outcome' = NoOutcome
    /\ UNCHANGED <<flow, command, told>>

Uncover(h) == covered' = [covered EXCEPT ![h] = "off"]

\* The provider cannot be built, the workflow file does not load, or GetHold
\* fails; a backend that reports a deleted hold as an error does so each time.
PollUnreachable(h) ==
    /\ Polling(h)
    /\ \/ Refuse
       \/ ~kept[h].done /\ ~exists[h] /\ ~ReportsGone /\ UNCHANGED bounds
    /\ SetAside(h, kept[h])
    /\ UNCHANGED <<calendar, watches, covered, effects, gates>>

\* Mutant of PollPruned: a dropped watch takes its absence off the ledger.
PruneUncovers(h) ==
    /\ Polling(h)
    /\ Prune
    /\ Refuse
    /\ Uncover(h)
    /\ SetAside(h, NoItem)
    /\ UNCHANGED <<calendar, watches, effects, gates>>

PollPruned(h) ==
    /\ Polling(h)
    /\ Prune
    /\ Refuse
    /\ SetAside(h, NoItem)
    /\ UNCHANGED <<calendar, watches, covered, effects, gates>>

PollDone(h) ==
    /\ Polling(h)
    /\ kept[h].done
    /\ SetAside(h, NoItem)
    /\ UNCHANGED <<calendar, watches, covered, bounds, effects, gates>>

PollGone(h) ==
    /\ Polling(h)
    /\ ~kept[h].done
    /\ ~exists[h]
    /\ ReportsGone
    /\ Uncover(h)
    /\ SetAside(h, NoItem)
    /\ UNCHANGED <<calendar, watches, bounds, effects, gates>>

Live(h) == Polling(h) /\ ~kept[h].done /\ exists[h]

PollPending(h) ==
    /\ Live(h)
    /\ kept[h].resume = 0
    /\ ~Elapsed(h, kept[h])
    /\ \A o \in Outcomes : ~Resolved(h, kept[h], o)
    /\ SetAside(h, kept[h])
    /\ UNCHANGED <<calendar, watches, covered, bounds, effects, gates>>

\* advanceRun turns to hold h, as GetHold returned it.
Advance(h, phase, from, o) ==
    /\ cur' = h
    /\ copy' = att[h]
    /\ at' = from
    /\ outcome' = o
    /\ dpc' = phase
    /\ UNCHANGED <<flow, calendar, watches, covered, command, todo, kept, bounds, listing,
                   effects, gates>>

\* A run that stopped inside a branch goes on there, whatever the gate now says.
PollResume(h) ==
    /\ Live(h)
    /\ kept[h].resume > 0
    /\ Advance(h, "walk", kept[h].resume, NoOutcome)

PollElapsed(h) ==
    /\ Live(h)
    /\ kept[h].resume = 0
    /\ Elapsed(h, kept[h])
    /\ Advance(h, "commit", NextStep(flow[h], kept[h].step, NoOutcome), NoOutcome)

\* Mutant of PollResolved: the branch is taken before the outcome is logged.
ResolvesUnlogged(h, o) ==
    /\ Live(h)
    /\ kept[h].resume = 0
    /\ Resolved(h, kept[h], o)
    /\ Advance(h, "commit", GateTarget(flow[h], kept[h].step, o), o)

PollResolved(h, o) ==
    /\ Live(h)
    /\ kept[h].resume = 0
    /\ Resolved(h, kept[h], o)
    /\ Advance(h, "record", GateTarget(flow[h], kept[h].step, o), o)

-----------------------------------------------------------------------------
(* The daemon: one branch, from the gate that opened to the next.          *)

\* recordGateOutcome: the audit event.
RecordOutcome ==
    /\ dpc = "record"
    /\ records' = [records EXCEPT ![cur] = @ \cup {<<kept[cur].step, outcome>>}]
    /\ dpc' = "commit"
    /\ UNCHANGED <<flow, calendar, watches, covered, command, local, bounds, listing,
                   effects, saidYes, commits, reached>>

\* Mutants of Checkpointed: the done marker is never set; an off-by-one.
NeverDone(item, next) == [item EXCEPT !.resume = next]
PastNext(item, next) ==
    IF next = Stop THEN [item EXCEPT !.done = TRUE, !.resume = 0]
                   ELSE [item EXCEPT !.resume = next + 1]

\* checkpointFor: the item as the pass loaded it, to resume at `next`.
Checkpointed(item, next) ==
    IF next = Stop THEN [item EXCEPT !.done = TRUE, !.resume = 0]
                   ELSE [item EXCEPT !.resume = next]

\* Mutant of WriteCheckpoint: progress is only saved at the end of the pass.
NoCheckpoint(next) == UNCHANGED <<watches, bounds>>

\* A checkpoint that cannot be written is reported and the walk goes on.
WriteCheckpoint(next) ==
    \/ /\ watches' = [watches EXCEPT ![cur] = Checkpointed(kept[cur], next)]
       /\ UNCHANGED bounds
    \/ DiskMayFail /\ Mishap /\ UNCHANGED watches

\* The branch is committed to before it runs.
CommitBranch ==
    /\ dpc = "commit"
    /\ WriteCheckpoint(at)
    /\ commits' = [commits EXCEPT ![cur] =
                      IF outcome = NoOutcome THEN @ ELSE @ \cup {<<kept[cur].step, outcome>>}]
    /\ reached' = [reached EXCEPT ![cur] = {at}]
    /\ dpc' = "walk"
    /\ UNCHANGED <<flow, calendar, covered, command, local, listing, effects, saidYes,
                   records>>

\* The walk moves on from step at: history.
Move(next) == reached' = [reached EXCEPT ![cur] = @ \cup {next}]

WalkRunStep ==
    /\ dpc = "walk"
    /\ MayRun(cur, at, copy)
    /\ Perform(cur, at, copy)
    /\ Move(AfterStep(flow[cur], at))
    /\ dpc' = IF flow[cur][at].verb = "cancel" THEN "forget" ELSE "checkpoint"
    /\ UNCHANGED <<flow, watches, covered, command, local, bounds, listing, saidYes, records,
                   commits>>

WalkSkipStep ==
    /\ dpc = "walk"
    /\ MaySkip(cur, at, copy)
    /\ at' = NextStep(flow[cur], at, NoOutcome)
    /\ Move(NextStep(flow[cur], at, NoOutcome))
    /\ UNCHANGED <<flow, calendar, watches, covered, command, dpc, todo, kept, cur, copy,
                   outcome, bounds, listing, effects, saidYes, records, commits>>

\* Mutants of WalkFailStep: the branch starts over; the failed step is skipped.
FailRestarts ==
    /\ dpc = "walk"
    /\ MayRun(cur, at, copy)
    /\ Refused(cur, at, copy) \/ ReplyLost(cur, at, copy)
    /\ SetAside(cur, kept[cur])
    /\ UNCHANGED <<watches, covered, gates>>

FailSkips ==
    /\ dpc = "walk"
    /\ MayRun(cur, at, copy)
    /\ Refused(cur, at, copy) \/ ReplyLost(cur, at, copy)
    /\ SetAside(cur, [kept[cur] EXCEPT !.resume = AfterStep(flow[cur], at)])
    /\ UNCHANGED <<watches, covered, gates>>

\* The step's error stops the branch there until the next pass.
WalkFailStep ==
    /\ dpc = "walk"
    /\ MayRun(cur, at, copy)
    /\ Refused(cur, at, copy) \/ ReplyLost(cur, at, copy)
    /\ SetAside(cur, [kept[cur] EXCEPT !.resume = at])
    /\ UNCHANGED <<watches, covered, gates>>

\* forgetHold inside the cancel step: removeWatch, then forgetCoverage.
WalkForgetWatch ==
    /\ dpc = "forget"
    /\ watches' = [watches EXCEPT ![cur] = NoItem]
    /\ dropped' = [dropped EXCEPT ![cur] = TRUE]
    /\ dpc' = "uncover"
    /\ UNCHANGED <<flow, calendar, covered, command, local, bounds, told, effects, gates>>

WalkForgetCoverage ==
    /\ dpc = "uncover"
    /\ Uncover(cur)
    /\ dpc' = "checkpoint"
    /\ UNCHANGED <<flow, calendar, watches, command, local, bounds, listing, effects, gates>>

WalkCheckpoint ==
    /\ dpc = "checkpoint"
    /\ WriteCheckpoint(AfterStep(flow[cur], at))
    /\ at' = AfterStep(flow[cur], at)
    /\ dpc' = "walk"
    /\ UNCHANGED <<flow, calendar, covered, command, todo, kept, cur, copy, outcome, listing,
                   effects, gates>>

\* The flow ended.  Only a decline read in this very pass clears the ledger.
WalkEnd ==
    /\ dpc = "walk"
    /\ at = Stop
    /\ IF outcome = "declined" THEN Uncover(cur) ELSE UNCHANGED covered
    /\ SetAside(cur, NoItem)
    /\ UNCHANGED <<calendar, watches, bounds, effects, gates>>

WalkGate ==
    /\ dpc = "walk"
    /\ at # Stop
    /\ Waits(flow[cur][at])
    /\ dpc' = "invite"
    /\ UNCHANGED <<flow, calendar, watches, covered, command, local, bounds, listing,
                   effects, gates>>

-----------------------------------------------------------------------------
(* The daemon: the next gate (the tail of advanceToNextGate).              *)

\* Mutant of AtGate: the resume point of the branch before is kept.
KeepsResume(approver) ==
    [kept[cur] EXCEPT !.step = at, !.resume = at, !.age = 0, !.approver = approver]

AtGate(approver) ==
    [kept[cur] EXCEPT !.step = at, !.resume = 0, !.age = 0, !.approver = approver]

NamesApprover(s) == s.verb = "approve" /\ s.approver # NoOne

ReachGate ==
    /\ dpc = "invite"
    /\ ~NamesApprover(flow[cur][at])
    /\ SetAside(cur, AtGate(NoOne))
    /\ UNCHANGED <<calendar, watches, covered, bounds, effects, gates>>

\* Mutant of InviteNext: the chain moves on without asking.
MovesUninvited ==
    /\ dpc = "invite"
    /\ NamesApprover(flow[cur][at])
    /\ exists[cur]
    /\ SetAside(cur, AtGate(flow[cur][at].approver))
    /\ UNCHANGED <<calendar, watches, covered, bounds, effects, gates>>

\* inviteRequired adds the approver to the hold the pass fetched.
InviteNext ==
    /\ dpc = "invite"
    /\ NamesApprover(flow[cur][at])
    /\ exists[cur]
    /\ SetAttendees(cur, copy \cup {flow[cur][at].approver})
    /\ SetAside(cur, AtGate(flow[cur][at].approver))
    /\ UNCHANGED <<watches, covered, bounds, effects, gates>>

\* The update fails, or its reply is lost: the item already names the new gate
\* and no resume point, but still the approver of the gate before.
InviteFails ==
    /\ dpc = "invite"
    /\ NamesApprover(flow[cur][at])
    /\ \/ ~exists[cur] /\ UNCHANGED <<bounds, calendar>>
       \/ InviteMayFail /\ Refuse /\ UNCHANGED calendar
       \/ /\ InviteMayFail /\ Mishap /\ exists[cur]
          /\ SetAttendees(cur, copy \cup {flow[cur][at].approver})
    /\ SetAside(cur, AtGate(kept[cur].approver))
    /\ UNCHANGED <<watches, covered, effects, gates>>

-----------------------------------------------------------------------------
(* The daemon: the end of a pass, and of the daemon.                       *)

Idle ==
    /\ todo' = {}
    /\ kept' = Nobody
    /\ cur' = NoHold
    /\ copy' = {}
    /\ at' = Stop
    /\ outcome' = NoOutcome

\* saveWatches(remaining): the pass's list replaces whatever the file holds.
PollEnd ==
    /\ dpc = "pass"
    /\ todo = {}
    /\ \/ watches' = kept /\ UNCHANGED bounds
       \/ DiskMayFail /\ Mishap /\ UNCHANGED watches
    /\ dpc' = "idle"
    /\ Idle
    /\ UNCHANGED <<flow, calendar, covered, command, listing, effects, gates>>

Crash ==
    /\ dpc # "down"
    /\ Mishap
    /\ dpc' = "down"
    /\ Idle
    /\ UNCHANGED <<flow, calendar, watches, covered, command, listing, effects, gates>>

Restart ==
    /\ dpc = "down"
    /\ dpc' = "idle"
    /\ UNCHANGED <<flow, calendar, watches, covered, command, local, bounds, listing,
                   effects, gates>>

-----------------------------------------------------------------------------

Command(h) ==
    \/ CreateHold(h) \/ RecordHold(h)
    \/ CliRunStep(h) \/ CliSkipStep(h) \/ CliWalked(h) \/ AddWatch(h)
    \/ CancelHold(h) \/ ForgetWatch(h) \/ ForgetCoverage(h)
    \/ CliDies(h)

Poll(h) ==
    \/ PollUnreachable(h) \/ PollPruned(h) \/ PollDone(h) \/ PollGone(h)
    \/ PollPending(h) \/ PollResume(h) \/ PollElapsed(h)
    \/ \E o \in Outcomes : PollResolved(h, o)

Branch ==
    \/ RecordOutcome \/ CommitBranch
    \/ WalkRunStep \/ WalkSkipStep \/ WalkFailStep
    \/ WalkForgetWatch \/ WalkForgetCoverage \/ WalkCheckpoint
    \/ WalkEnd \/ WalkGate
    \/ ReachGate \/ InviteNext \/ InviteFails

DaemonStep == PollStart \/ (\E h \in Holds : Poll(h)) \/ Branch \/ PollEnd \/ Restart

Next ==
    \/ \E h \in Holds : Command(h)
    \/ \E h \in Holds, p \in People, r \in Responses : Answer(h, p, r)
    \/ Tick
    \/ DaemonStep
    \/ Crash

Spec == Init /\ [][Next]_vars

\* The poll loop keeps running, the service manager restarts the daemon, and
\* time passes.  Nobody has to answer and no command has to be typed.
FairSpec == Spec /\ WF_vars(DaemonStep) /\ WF_vars(Tick)

-----------------------------------------------------------------------------
(* Properties.                                                             *)

\* A branch runs past a gate as accepted only if the approver of that very gate
\* once accepted: run.go resolveApprover, "the person an approve step waits on".
SignedOff ==
    \A h \in Holds : \A c \in commits[h] :
        c[2] = "accepted" => ApproverOf(flow[h][c[1]]) \in saidYes[h]

\* A gate is decided once: after a crash or a failed step the branch goes on
\* "without re-reading the gate, so a response that changed since [...] cannot
\* switch branches" (advanceRun).
DecidedOnce ==
    \A h \in Holds : \A c, d \in commits[h] : c[1] = d[1] => c = d

\* "A single step can still repeat if the crash lands between its side effect
\* and its checkpoint write" (pollAll): one crash, lost reply or failed write
\* repeats at most one step, however they are spread over passes and branches.
OneRepeatPerMishap == repeats <= mishaps

\* Recovery skips nothing: the step the file says to resume at is one the branch
\* got to with every step before it run or skipped by its guard, and a run
\* marked done reached the end.
NoStepLost ==
    \A h \in Holds : watches[h] # NoItem =>
        /\ watches[h].resume > 0 => watches[h].resume \in reached[h]
        /\ watches[h].done => Stop \in reached[h]

Abs == INSTANCE Runs WITH Flows <- Loaded, passed <- commits

\* Every effect that takes effect, and every outcome acted on, is one the run's
\* own workflow leads to by what took effect and was decided before: no crash,
\* failed call or stale copy makes a run jump past a step or into a branch its
\* gates did not open (walkSteps, branchPlan, checkpointFor).
RunsInOrder == Abs!Spec

\* Every decision the daemon acts on is in the audit log first (advanceRun), so
\* the history of a run explains each branch it took.
HistoryComplete == \A h \in Holds : commits[h] \subseteq records[h]

\* The daemon asks whom it waits for: a run parked at an approve gate has that
\* gate's approver on the hold, whatever crashes and failures led there.
GateAsked ==
    \A h \in Holds :
        LET item == watches[h] IN
        (item # NoItem /\ exists[h] /\ dpc = "idle")
            => (item.done \/ item.resume > 0 \/ flow[h][item.step].verb # "approve"
                  \/ ApproverOf(flow[h][item.step]) \in att[h])

\* An absence that is still on the calendar leaves the ledger of team absences
\* only when its approver declined it.
CoverageKept ==
    \A h \in Holds :
        exists[h] /\ covered[h] = "off" => \E c \in commits[h] : c[2] = "declined"

\* The other half, "the daemon removing a declined one" (coverage.go): once a run
\* whose only decision was a decline is over, the ledger does not count it.
Over(h) == watches[h] = NoItem /\ kept[h] = NoItem /\ cli[h] = "end" /\ dpc = "idle"
CoverageReleased ==
    \A h \in Holds :
        (Over(h) /\ exists[h] /\ commits[h] # {} /\ \A c \in commits[h] : c[2] = "declined")
            => covered[h] # "on"

\* gateWaiting tells the user "Watching for approval": from then on the run is on
\* the list, until it ends or is cancelled.
NoWatchLost == \A h \in Holds : told[h] => watches[h] # NoItem \/ dropped[h]

\* Once a notify step added the team to the hold, no later step takes them off.
TeamStays ==
    \A h \in Holds : \A i \in ran[h] :
        flow[h][i].verb = "notify" /\ exists[h] => Team \subseteq att[h]

\* A run the daemon watches does not hang: it always leaves the list in the end,
\* or waits for an answer that has not come at a gate that sets no timeout.
AwaitsAnswer(h) ==
    LET item == watches[h] IN
    /\ item # NoItem
    /\ ~item.done /\ item.resume = 0
    /\ exists[h]
    /\ flow[h][item.step].verb = "approve"
    /\ flow[h][item.step].timeout <= 0
    /\ GateResponse(h, item) = "none"

Progress == \A h \in Holds : []<>(watches[h] = NoItem \/ AwaitsAnswer(h))
=============================================================================
