--------------------------- MODULE WorkflowProofs ---------------------------
(***************************************************************************)
(* No run of a loaded workflow comes back to a step, for workflows of any  *)
(* size: the ranking that Validate guarantees rises with every move, so    *)
(* every step of the trail ranks below the one the run is at.              *)
(***************************************************************************)
EXTENDS WorkflowWalk, TLAPS

\* A step index, or Stop: what every jump of workflow w returns.
Position(w) == DOMAIN w \cup {Stop}

\* A ranking of the steps that every jump raises, which Acyclic promises.
Ranks(w, rank) ==
    /\ rank \in [DOMAIN w -> DOMAIN w]
    /\ \A i \in DOMAIN w : \A j \in JumpTargets(w, i) : rank[i] < rank[j]

Rank(w) == CHOOSE rank : Ranks(w, rank)

\* The steps a run has been at rank below the one it is at.
Climbs ==
    \A i \in trail : at # Stop => Rank(flow)[i] < Rank(flow)[at]

IInv ==
    /\ TypeOK
    /\ Validate(flow)
    /\ Climbs

-----------------------------------------------------------------------------
(* What the jumps of a workflow return.                                    *)

\* A workflow is indexed from 0, within the bound, and its steps are steps.
LEMMA WorkflowShape ==
    ASSUME NEW w, IsWorkflow(w)
    PROVE  /\ 0 \in DOMAIN w
           /\ DOMAIN w \subseteq 0 .. (MaxSteps - 1)
           /\ \A i \in DOMAIN w : w[i] \in Step
  BY StepsAssumption DEF IsWorkflow

\* Workflow.StepIndex returns an index of the workflow or -1.
LEMMA StepIndexType ==
    ASSUME NEW w, NEW id
    PROVE  StepIndex(w, id) \in Position(w)
<1>1. CASE id # Unnamed /\ \E i \in DOMAIN w : w[i].id = id
  <2>1. (CHOOSE i \in DOMAIN w : w[i].id = id) \in DOMAIN w
    BY <1>1
  <2> QED BY <1>1, <2>1 DEF StepIndex, Position
<1>2. CASE ~(id # Unnamed /\ \E i \in DOMAIN w : w[i].id = id)
  BY <1>2 DEF StepIndex, Position
<1> QED BY <1>1, <1>2

LEMMA ResolveType ==
    ASSUME NEW w, NEW target
    PROVE  Resolve(w, target) \in Position(w)
  BY StepIndexType DEF Resolve, Position

\* Workflow.Next never leaves the workflow.
LEMMA NextStepType ==
    ASSUME NEW w, NEW i, NEW outcome
    PROVE  NextStep(w, i, outcome) \in Position(w)
  BY ResolveType DEF NextStep, FallThrough, Position

LEMMA AfterStepType ==
    ASSUME NEW w, NEW i
    PROVE  AfterStep(w, i) \in Position(w)
  BY NextStepType DEF AfterStep, Position

LEMMA GateTargetType ==
    ASSUME NEW w, NEW i, NEW outcome
    PROVE  GateTarget(w, i, outcome) \in Position(w)
  BY NextStepType, ResolveType DEF GateTarget, BranchStart, Position

-----------------------------------------------------------------------------

LEMMA RankExists ==
    ASSUME NEW w, Acyclic(w)
    PROVE  Ranks(w, Rank(w))
<1>1. \E rank : Ranks(w, rank)
  BY DEF Acyclic, Ranks
<1> QED BY <1>1 DEF Rank

\* Walking on from a step that is no gate is a jump.
LEMMA PlainMove ==
    ASSUME NEW w, NEW i, w[i].verb # "approve", NextStep(w, i, NoOutcome) # Stop
    PROVE  NextStep(w, i, NoOutcome) \in JumpTargets(w, i)
  BY DEF JumpTargets

\* A skipped step is no gate: Validate allows no guard on one.
LEMMA SkippedIsNoGate ==
    ASSUME NEW w, StepsWellFormed(w), NEW i \in DOMAIN w, NEW n, NEW today,
           ~Allows(w[i].when, n, today)
    PROVE  w[i].verb # "approve"
  BY DEF StepsWellFormed, Allows, Waits, Waiters, Unguarded

\* An outcome of a gate that branchPlan can report is a jump.
LEMMA GateMove ==
    ASSUME NEW w, NEW i, w[i].verb = "approve", NEW outcome \in GateOutcomes(w[i]),
           GateTarget(w, i, outcome) # Stop, i \in DOMAIN w
    PROVE  GateTarget(w, i, outcome) \in JumpTargets(w, i)
<1>1. outcome \in Outcomes
  BY DEF GateOutcomes, Outcomes
<1>2. GateTarget(w, i, outcome) = NextStep(w, i, outcome)
  BY <1>1 DEF GateTarget, BranchStart, NextStep
<1>3. outcome = "expired" => w[i].timeout # NoTimeout
  BY DEF GateOutcomes, NoTimeout
<1> QED BY <1>1, <1>2, <1>3 DEF JumpTargets, Outcomes

\* A step of the walk follows a jump, or ends it.
LEMMA MoveIsJump ==
    ASSUME IInv, Next
    PROVE  at' \in JumpTargets(flow, at) \cup {Stop}
<1>1. StepsWellFormed(flow)
  BY DEF IInv, Validate, WellFormed
<1>2. at # Stop => at \in DOMAIN flow
  BY DEF IInv, TypeOK
<1>3. ASSUME SkipStep PROVE at' \in JumpTargets(flow, at) \cup {Stop}
  BY <1>1, <1>2, <1>3, SkippedIsNoGate, PlainMove DEF SkipStep, Enter
<1>4. ASSUME RunStep PROVE at' \in JumpTargets(flow, at) \cup {Stop}
  BY <1>4, PlainMove DEF RunStep, Effects, AfterStep
<1>5. ASSUME PassWait PROVE at' \in JumpTargets(flow, at) \cup {Stop}
  BY <1>5, PlainMove DEF PassWait
<1>6. ASSUME NEW outcome \in Outcomes, PassGate(outcome)
      PROVE  at' \in JumpTargets(flow, at) \cup {Stop}
  BY <1>2, <1>6, GateMove DEF PassGate, Enter
<1> QED BY <1>3, <1>4, <1>5, <1>6 DEF Next

LEMMA TypeInit ==
    ASSUME Init
    PROVE  TypeOK
<1>1. IsWorkflow(flow)
  BY WalkAssumption DEF Init, Loaded
<1>2. at \in DOMAIN flow \cup {Stop}
  BY NextStepType DEF Init, Position
<1> QED BY <1>1, <1>2, WorkflowShape DEF Init, TypeOK

LEMMA TypeStep ==
    ASSUME TypeOK, [Next]_vars
    PROVE  TypeOK'
<1>1. CASE SkipStep
  BY <1>1, NextStepType DEF TypeOK, SkipStep, Enter, Position
<1>2. CASE RunStep
  BY <1>2, AfterStepType DEF TypeOK, RunStep, Enter, Position
<1>3. CASE PassWait
  BY <1>3, NextStepType DEF TypeOK, PassWait, Enter, Position
<1>4. ASSUME NEW outcome \in Outcomes, PassGate(outcome) PROVE TypeOK'
  BY <1>4, GateTargetType DEF TypeOK, PassGate, Enter, Position
<1>5. CASE UNCHANGED vars
  BY <1>5 DEF TypeOK, vars
<1> QED BY <1>1, <1>2, <1>3, <1>4, <1>5 DEF Next

\* The walk's state has its type, whatever the definitions.
THEOREM WalkTypeCorrect == Spec => []TypeOK
<1>1. Init => TypeOK
  BY TypeInit
<1>2. TypeOK /\ [Next]_vars => TypeOK'
  BY TypeStep
<1> QED BY <1>1, <1>2, PTL DEF Spec

LEMMA InvInit ==
    ASSUME Init
    PROVE  IInv
<1>1. TypeOK /\ Validate(flow)
  BY TypeInit DEF Init, Loaded
<1>2. Ranks(flow, Rank(flow))
  BY <1>1, RankExists DEF Validate
<1>3. 0 \in DOMAIN flow /\ flow[0].verb # "approve"
  BY <1>1, WorkflowShape
     DEF TypeOK, Validate, WellFormed, CreatorLeads, Creates, Creators
<1>4. at # Stop => at \in JumpTargets(flow, 0)
  BY <1>3, PlainMove DEF Init
<1>5. Climbs
  BY <1>2, <1>3, <1>4 DEF Climbs, Init, Ranks
<1> QED BY <1>1, <1>5 DEF IInv

LEMMA InvStep ==
    ASSUME IInv, [Next]_vars
    PROVE  IInv'
<1>1. TypeOK'
  BY TypeStep DEF IInv
<1>2. flow' = flow
  BY DEF Next, SkipStep, RunStep, PassWait, PassGate, vars
<1>3. Validate(flow)'
  BY <1>2 DEF IInv
<1>4. ASSUME Next PROVE at # Stop /\ trail' = trail \cup {at}
  BY <1>4 DEF Next, SkipStep, RunStep, PassWait, PassGate, Enter
<1>5. CASE UNCHANGED vars
  BY <1>1, <1>3, <1>5 DEF IInv, Climbs, vars
<1>6. CASE Next
  <2> SUFFICES ASSUME NEW i \in trail', at' # Stop
               PROVE  Rank(flow)[i] < Rank(flow)[at']
    BY <1>1, <1>2, <1>3 DEF IInv, Climbs
  <2>1. at' \in JumpTargets(flow, at)
    BY <1>6, MoveIsJump
  <2>2. Ranks(flow, Rank(flow))
    BY RankExists DEF IInv, Validate
  <2>3. at \in DOMAIN flow /\ at' \in DOMAIN flow
    BY <1>1, <1>2, <1>4, <1>6 DEF IInv, TypeOK
  <2>4. Rank(flow)[at] < Rank(flow)[at']
    BY <2>1, <2>2, <2>3 DEF Ranks
  <2>5. i = at \/ (i \in trail /\ Rank(flow)[i] < Rank(flow)[at])
    BY <1>4, <1>6 DEF IInv, Climbs
  <2>6. /\ DOMAIN flow \subseteq Int
        /\ Rank(flow) \in [DOMAIN flow -> DOMAIN flow]
        /\ trail \subseteq DOMAIN flow
    BY <2>2, WorkflowShape, StepsAssumption DEF Ranks, IInv, TypeOK
  <2>7. Rank(flow)[i] \in Int /\ Rank(flow)[at] \in Int /\ Rank(flow)[at'] \in Int
    BY <2>3, <2>5, <2>6
  <2> QED BY <2>4, <2>5, <2>7
<1> QED BY <1>5, <1>6

\* A run of a validated workflow never comes back to a step: the visited check
\* of walkSteps cannot drop the rest of a flow, and no gate is asked twice.
THEOREM NoStepTwice == Spec => []NeverRevisits
<1>1. Init => IInv
  BY InvInit
<1>2. IInv /\ [Next]_vars => IInv'
  BY InvStep
<1>3. IInv => NeverRevisits
  <2> SUFFICES ASSUME IInv, at \in trail PROVE FALSE
    BY DEF NeverRevisits
  <2>1. at # Stop /\ at \in DOMAIN flow
    BY WorkflowShape, StepsAssumption DEF IInv, TypeOK, Stop
  <2>2. Rank(flow)[at] < Rank(flow)[at]
    BY <2>1 DEF IInv, Climbs
  <2>3. Rank(flow)[at] \in Int
    BY <2>1, RankExists, WorkflowShape, StepsAssumption DEF IInv, Validate, Ranks, TypeOK
  <2> QED BY <2>2, <2>3
<1> QED BY <1>1, <1>2, <1>3, PTL DEF Spec

\* Every move of a run is an edge that the cycle check of Validate follows.
THEOREM RunsFollowJumps == Spec => MovesAreJumps
<1>1. Init => IInv
  BY InvInit
<1>2. IInv /\ [Next]_vars => IInv'
  BY InvStep
<1>3. IInv /\ [Next]_vars => [at' \in JumpTargets(flow, at) \cup {Stop}]_at
  BY MoveIsJump DEF vars
<1> QED BY <1>1, <1>2, <1>3, PTL DEF Spec, MovesAreJumps
=============================================================================
