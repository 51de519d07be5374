---------------------------- MODULE WorkflowWalk ----------------------------
(***************************************************************************)
(* One run of a loaded workflow, without the machinery that drives it: the *)
(* walk of cmd/run.go walkSteps from step to step, stopped at each gate    *)
(* and restarted by the outcome branchPlan reads (cmd/daemon.go).  It says *)
(* which step follows which; Daemon says when, and what survives a crash.  *)
(***************************************************************************)
EXTENDS Workflow

CONSTANTS
    Definitions,  \* the workflow files a user may write
    MaxAttendees  \* bound on the attendee count a guard sees

ASSUME WalkAssumption ==
    /\ \A w \in Definitions : IsWorkflow(w)
    /\ MaxAttendees \in Nat

VARIABLES
    flow,    \* the workflow
    at,      \* the step to run next, or Stop
    trail,   \* history: every step this run came to
    ran,     \* history: the side effects that ran
    passed   \* history: the outcomes of the gates passed, <<gate, outcome>>

vars == <<flow, at, trail, ran, passed>>

\* load.go Parse: only a definition that validates is ever run.
Loaded == {w \in Definitions : Validate(w)}

Attendees == 0 .. MaxAttendees

TypeOK ==
    /\ IsWorkflow(flow)
    /\ at \in DOMAIN flow \cup {Stop}
    /\ trail \subseteq DOMAIN flow
    /\ ran \subseteq DOMAIN flow
    /\ passed \subseteq (DOMAIN flow) \X (Outcomes \cup {NoOutcome})

-----------------------------------------------------------------------------

Init ==
    /\ flow \in Loaded
    /\ at = NextStep(flow, 0, NoOutcome)
    /\ trail = {0}
    /\ ran = {}
    /\ passed = {}

\* The loop head of walkSteps.  Its visited check is left out: by NeverRevisits,
\* which WorkflowProofs proves, no run of a loaded workflow can trip it.
Enter ==
    /\ at # Stop
    /\ trail' = trail \cup {at}

SkipStep ==
    /\ Enter
    /\ \E n \in Attendees, today \in BOOLEAN : ~Allows(flow[at].when, n, today)
    /\ at' = NextStep(flow, at, NoOutcome)
    /\ UNCHANGED <<flow, ran, passed>>

RunStep ==
    /\ Enter
    /\ flow[at].verb \in Effects
    /\ \E n \in Attendees, today \in BOOLEAN : Allows(flow[at].when, n, today)
    /\ ran' = ran \cup {at}
    /\ at' = AfterStep(flow, at)
    /\ UNCHANGED <<flow, passed>>

\* A wait that elapsed moves on; its outcome key is empty.
PassWait ==
    /\ Enter
    /\ flow[at].verb = "wait"
    /\ passed' = passed \cup {<<at, NoOutcome>>}
    /\ at' = NextStep(flow, at, NoOutcome)
    /\ UNCHANGED <<flow, ran>>

PassGate(outcome) ==
    /\ Enter
    /\ flow[at].verb = "approve"
    /\ outcome \in GateOutcomes(flow[at])
    /\ passed' = passed \cup {<<at, outcome>>}
    /\ at' = GateTarget(flow, at, outcome)
    /\ UNCHANGED <<flow, ran>>

Next ==
    \/ SkipStep
    \/ RunStep
    \/ PassWait
    \/ \E outcome \in Outcomes : PassGate(outcome)

Spec == Init /\ [][Next]_vars

-----------------------------------------------------------------------------
(* Properties.                                                             *)

\* A run of a validated workflow never comes back to a step it has passed, in
\* one walkSteps call or across gates, whichever outcomes and guards it meets:
\* the visited check of walkSteps never drops the rest of a flow, no gate is
\* asked twice, and no step after the first has index 0, the value with which
\* watchItem.Resume says "not resuming".
NeverRevisits == at \notin trail

\* Every move of a run is one of the jumps hasCycle follows (jumpTargets): the
\* cycle check sees each edge a run can take, expired branches included.
MovesAreJumps == [][at' \in JumpTargets(flow, at) \cup {Stop}]_at

\* What the comment on Validate says it checks: "no notify before approval".
\* A workflow with an approve step tells the team only after an acceptance.
NotifyFollowsApproval ==
    (Has(flow, "approve") /\ \E i \in ran : flow[i].verb = "notify")
        => \E g \in trail : <<g, "accepted">> \in passed
=============================================================================
