-------------------------------- MODULE Runs ---------------------------------
(***************************************************************************)
(* What runs promise, whoever carries them out: a run performs the steps   *)
(* its own workflow leads to, and passes the gates it leads to.  There is  *)
(* no walker here, no file and no crash: a step that was skipped on one    *)
(* day and is tried again on another, after a crash, is as good as one     *)
(* that waited, and an effect or an outcome that comes twice is no step.   *)
(*                                                                         *)
(* Code: the walk of cmd/run.go walkSteps and the branches cmd/daemon.go   *)
(* branchPlan takes.                                                       *)
(***************************************************************************)
EXTENDS Workflow

CONSTANTS
    Holds,   \* the runs, one for each hold
    Flows    \* the workflows they may run

VARIABLES
    flow,    \* the workflow of each run
    ran,     \* the steps that took effect
    passed   \* the outcomes of the gates, <<gate, outcome>>

vars == <<flow, ran, passed>>

\* Where a run goes on from step i: past it if it took effect, is a wait, or has
\* a guard that may refuse it, and to where the outcomes of a gate lead.
Moves(w, effects, outcomes, i) ==
    (IF i \in effects THEN {AfterStep(w, i)} ELSE {})
        \cup (IF w[i].verb = "wait" \/ w[i].when # Unguarded
              THEN {NextStep(w, i, NoOutcome)} ELSE {})
        \cup {GateTarget(w, i, o) : o \in {o \in Outcomes : <<i, o>> \in outcomes}}

Edges(w, effects, outcomes) ==
    UNION {{i} \X (Moves(w, effects, outcomes, i) \ {Stop}) : i \in DOMAIN w}

\* A set with the first step after the hold, which no edge leaves.
Closed(first, edges, S) ==
    first \in S \cup {Stop} /\ \A e \in edges : e[1] \in S => e[2] \in S

\* The steps a run may have come to: the least such set.
Reach(w, effects, outcomes) ==
    LET first == NextStep(w, 0, NoOutcome)
        edges == Edges(w, effects, outcomes)
    IN  {i \in DOMAIN w : \A S \in SUBSET DOMAIN w : Closed(first, edges, S) => i \in S}

Come(h) == Reach(flow[h], ran[h], passed[h])

-----------------------------------------------------------------------------

Init ==
    /\ flow \in [Holds -> Flows]
    /\ ran = [h \in Holds |-> {}]
    /\ passed = [h \in Holds |-> {}]

TakeEffect(h, i) ==
    /\ i \in Come(h) /\ flow[h][i].verb \in Effects
    /\ ran' = [ran EXCEPT ![h] = @ \cup {i}]
    /\ UNCHANGED <<flow, passed>>

PassGate(h, g, o) ==
    /\ g \in Come(h) /\ flow[h][g].verb = "approve" /\ o \in GateOutcomes(flow[h][g])
    /\ passed' = [passed EXCEPT ![h] = @ \cup {<<g, o>>}]
    /\ UNCHANGED <<flow, ran>>

\* What comes twice changes nothing, and is no step.
Next ==
    \/ ran' # ran /\ \E h \in Holds : \E i \in DOMAIN flow[h] : TakeEffect(h, i)
    \/ /\ passed' # passed
       /\ \E h \in Holds : \E g \in DOMAIN flow[h], o \in Outcomes : PassGate(h, g, o)

Spec == Init /\ [][Next]_vars
=============================================================================
