------------------------------ MODULE Workflow ------------------------------
(***************************************************************************)
(* The workflow graph of internal/workflow/workflow.go: steps, the jumps   *)
(* between them, the guard of a step, and the checks Validate makes before *)
(* a definition may run.                                                   *)
(*                                                                         *)
(* A workflow is a function from 0..n-1 to steps, indexed as the Go slice  *)
(* is.  Presentation fields (name, subject, showAs, channel, team role)    *)
(* and the parsing of durations are left out: a duration is a number of    *)
(* ticks.  The day set of a guard is the Boolean "dated"; whether today is *)
(* in the set is an argument of Allows.                                    *)
(***************************************************************************)
EXTENDS Integers, FiniteSets

CONSTANTS
    People,  \* e-mail addresses: approvers and team members
    NoOne,   \* the empty address
    MaxSteps \* bound on the length of a workflow

ASSUME PeopleAssumption == NoOne \notin People
ASSUME StepsAssumption == MaxSteps \in Nat

Stop == -1         \* the index Next returns to end the flow
Unnamed == ""      \* an absent id or target
EndTarget == "end" \* the target that ends the flow

Creators == {"hold", "away", "event"}
Waiters  == {"approve", "wait"}
Effects  == {"notify", "note", "message", "leave", "cancel"}
Verbs    == Creators \cup Waiters \cup Effects

Outcomes == {"accepted", "declined", "expired"}
NoOutcome == ""

NoTimeout == -1

Guard == [dated : BOOLEAN, min : Nat, max : Nat]
Unguarded == [dated |-> FALSE, min |-> 0, max |-> 0]

Step == [verb     : Verbs,
         id       : STRING,
         next     : STRING,
         on       : [Outcomes -> STRING],
         approver : People \cup {NoOne},
         timeout  : Int,
         for      : Int,
         when     : Guard]

IsWorkflow(w) == \E n \in 1 .. MaxSteps : w \in [0 .. (n - 1) -> Step]

Creates(s) == s.verb \in Creators
Waits(s) == s.verb \in Waiters

Has(w, verb) == \E i \in DOMAIN w : w[i].verb = verb

(***************************************************************************)
(* When.Allows: an unset condition does not constrain.                     *)
(***************************************************************************)
Allows(g, attendees, today) ==
    /\ g.dated => today
    /\ g.min > 0 => attendees >= g.min
    /\ g.max > 0 => attendees <= g.max

-----------------------------------------------------------------------------
(* Jumps.                                                                  *)

\* Ids are unique in every workflow Validate accepts, so any match is the first.
StepIndex(w, id) ==
    IF id # Unnamed /\ \E i \in DOMAIN w : w[i].id = id
    THEN CHOOSE i \in DOMAIN w : w[i].id = id
    ELSE Stop

Resolve(w, target) == IF target = EndTarget THEN Stop ELSE StepIndex(w, target)

FallThrough(w, i) == IF i + 1 \in DOMAIN w THEN i + 1 ELSE Stop

\* Workflow.Next: an outcome's branch first, then an explicit next, then i + 1.
NextStep(w, i, outcome) ==
    IF i \notin DOMAIN w THEN Stop
    ELSE IF outcome \in Outcomes /\ w[i].on[outcome] # Unnamed
         THEN Resolve(w, w[i].on[outcome])
    ELSE IF w[i].next # Unnamed
         THEN Resolve(w, w[i].next)
    ELSE FallThrough(w, i)

\* daemon.go branchStart: a decline or an expiry runs its own branch or nothing.
BranchStart(w, i, outcome) ==
    IF w[i].on[outcome] = Unnamed THEN Stop ELSE Resolve(w, w[i].on[outcome])

\* Where a gate leads, per outcome (branchPlan): only accepted falls through.
GateTarget(w, i, outcome) ==
    IF outcome = "accepted" THEN NextStep(w, i, "accepted")
                            ELSE BranchStart(w, i, outcome)

\* Where walkSteps goes after step i ran or was skipped: a cancel ends the flow.
AfterStep(w, i) == IF w[i].verb = "cancel" THEN Stop ELSE NextStep(w, i, NoOutcome)

\* Mutants of JumpTargets: an edge is forgotten.
NoExpiredJump(w, i) ==
    (IF w[i].verb = "approve" THEN {NextStep(w, i, "accepted"), NextStep(w, i, "declined")}
                              ELSE {NextStep(w, i, NoOutcome)}) \ {Stop}
NoDeclinedJump(w, i) ==
    (IF w[i].verb = "approve"
     THEN {NextStep(w, i, "accepted")} \cup
          (IF w[i].timeout # NoTimeout THEN {NextStep(w, i, "expired")} ELSE {})
     ELSE {NextStep(w, i, NoOutcome)}) \ {Stop}

JumpTargets(w, i) ==
    LET jumps == IF w[i].verb = "approve"
                 THEN {NextStep(w, i, "accepted"), NextStep(w, i, "declined")}
                      \cup (IF w[i].timeout # NoTimeout
                            THEN {NextStep(w, i, "expired")} ELSE {})
                 ELSE {NextStep(w, i, NoOutcome)}
    IN  jumps \ {Stop}

\* The outcomes branchPlan can report for an approve step.
GateOutcomes(s) ==
    {"accepted", "declined"} \cup (IF s.timeout > 0 THEN {"expired"} ELSE {})

-----------------------------------------------------------------------------
(* Validate.                                                               *)

\* No cycle: the steps can be ranked so that every jump raises the rank.
\* WorkflowCycle checks that the depth-first search of hasCycle decides this.
Acyclic(w) ==
    \E rank \in [DOMAIN w -> DOMAIN w] :
        \A i \in DOMAIN w : \A j \in JumpTargets(w, i) : rank[i] < rank[j]

StepsWellFormed(w) ==
    \A i \in DOMAIN w :
        LET s == w[i] IN
        /\ s.approver # NoOne => s.verb = "approve"
        /\ IF s.verb = "wait" THEN s.for > 0 ELSE s.for = 0
        /\ (\E o \in Outcomes : s.on[o] # Unnamed) => s.verb = "approve"
        /\ s.timeout # NoTimeout => s.verb = "approve"
        /\ s.timeout # NoTimeout <=> s.on["expired"] # Unnamed
        /\ s.when.max > 0 => s.when.min <= s.when.max
        /\ Creates(s) \/ Waits(s) => s.when = Unguarded

UniqueIds(w) ==
    \A i, j \in DOMAIN w : w[i].id # Unnamed /\ w[i].id = w[j].id => i = j

CreatorLeads(w) == \A i \in DOMAIN w : Creates(w[i]) <=> i = 0

ApprovalNeedsHold(w) == Has(w, "approve") => w[0].verb = "hold"

\* Only the first approve, by position, may leave its approver to the directory.
LaterApproversNamed(w) ==
    \A i, j \in DOMAIN w :
        i < j /\ w[i].verb = "approve" /\ w[j].verb = "approve" => w[j].approver # NoOne

\* The first notify must not stand before the first approve in the list.
NotifyListedAfterApproval(w) ==
    Has(w, "approve") =>
        \A i \in DOMAIN w :
            w[i].verb = "notify" => \E j \in 0 .. (i - 1) : w[j].verb = "approve"

TargetKnown(w, t) == t \in {Unnamed, EndTarget} \/ StepIndex(w, t) # Stop

TargetsKnown(w) ==
    \A i \in DOMAIN w :
        TargetKnown(w, w[i].next) /\ \A o \in Outcomes : TargetKnown(w, w[i].on[o])

\* The checks Validate makes before it looks for a cycle.
WellFormed(w) ==
    /\ StepsWellFormed(w)
    /\ UniqueIds(w)
    /\ CreatorLeads(w)
    /\ ApprovalNeedsHold(w)
    /\ LaterApproversNamed(w)
    /\ NotifyListedAfterApproval(w)
    /\ TargetsKnown(w)

Validate(w) == WellFormed(w) /\ Acyclic(w)

\* run.go firstApproveStep: the step whose approver is invited with the hold.
FirstApprove(w) ==
    CHOOSE i \in DOMAIN w :
        /\ w[i].verb = "approve"
        /\ \A j \in DOMAIN w : w[j].verb = "approve" => i <= j
=============================================================================
