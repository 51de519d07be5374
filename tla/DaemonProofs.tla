---------------------------- MODULE DaemonProofs ----------------------------
(***************************************************************************)
(* The promises of the watch daemon, for every set of workflows, holds and *)
(* people, every crash, failed call and failed write, and every bound.     *)
(*                                                                         *)
(* Sited strengthens the type: the command and the daemon stand at steps   *)
(* of the very workflow they run, and what the daemon holds of a run while *)
(* it works on it is an item of the list.                                  *)
(*                                                                         *)
(* Recovery needs to know what the daemon's copy of an item is worth while *)
(* the file moves on under it: until the branch is committed to, the file  *)
(* and the copy tell the same progress (Unmoved); from then on each points *)
(* at a step of the branch (Resumable).                                    *)
(*                                                                         *)
(* An approval is real when everybody a run may be waiting for is among    *)
(* the attendees, on the calendar and in the copy the daemon sends back    *)
(* (Includes). A gate is not decided twice because all the places a run    *)
(* may go on from (Points) rank above the gates decided so far (Decided).  *)
(* And each effect that may be performed again (Unsettled) is paid for by  *)
(* a mishap (Counted).                                                     *)
(*                                                                         *)
(* Runs are in order because each of those places is one the workflow led  *)
(* to by what took effect and was decided before (Placed).  And a watch is *)
(* kept when all the file lists and a pass has no copy of was dropped on   *)
(* purpose (CopyWhole).                                                    *)
(*                                                                         *)
(* The team stays invited when the daemon's copy of the attendees lacks it *)
(* only where the walk invites nobody any more (CopyFits).                 *)
(***************************************************************************)
EXTENDS Daemon, FiniteSetTheorems, WellFoundedInduction, TLAPS

\* A step index, or Stop: what every jump of workflow w returns.
Position(w) == DOMAIN w \cup {Stop}

\* The daemon works on one run.
Busy == dpc \notin {"down", "idle", "pass"}

\* An item of the list points into the workflow of its hold.
OnFlow(h, item) ==
    item # NoItem => item.step \in DOMAIN flow[h] /\ item.resume \in DOMAIN flow[h]

Sited ==
    /\ \A h \in Holds : flow[h] \in Loaded
    /\ \A h \in Holds : cliAt[h] \in Position(flow[h])
    /\ \A h \in Holds : cli[h] = "gate" => cliAt[h] # Stop
    /\ \A h \in Holds : OnFlow(h, watches[h])
    /\ \A h \in Holds : OnFlow(h, kept[h])
    /\ \A h \in todo : kept[h] # NoItem
    /\ Busy => cur \in Holds /\ kept[cur] # NoItem /\ at \in Position(flow[cur])
    /\ dpc = "record" => outcome \in Outcomes
    /\ dpc = "invite" => at # Stop

IInv == TypeOK /\ Sited

-----------------------------------------------------------------------------
(* What the jumps of a workflow return.                                    *)

\* A non-empty set of naturals has a least element.
LEMMA LeastNatural ==
    ASSUME NEW T \in SUBSET Nat, T # {}
    PROVE  \E x \in T : \A y \in T : x <= y
<1> DEFINE R == {ss \in Nat \X Nat : ss[1] < ss[2]}
<1>1. IsWellFoundedOn(R, Nat)
  BY NatLessThanWellFounded DEF OpToRel
<1>2. PICK x \in T : \A y \in T : <<y, x>> \notin R
  <2> HIDE DEF R
  <2> QED BY <1>1, WFMin
<1>3. ASSUME NEW y \in T, y < x PROVE FALSE
  <2>1. <<y, x>> \in Nat \X Nat
    OBVIOUS
  <2>2. <<y, x>> \in R
    BY <2>1, <1>3
  <2> QED BY <1>2, <2>2
<1> QED BY <1>3

\* A workflow is indexed from 0, within the bound, and its steps are steps.
LEMMA WorkflowShape ==
    ASSUME NEW w, IsWorkflow(w)
    PROVE  /\ 0 \in DOMAIN w
           /\ DOMAIN w \subseteq 0 .. (MaxSteps - 1)
           /\ \A i \in DOMAIN w : w[i] \in Step
  BY StepsAssumption DEF IsWorkflow

\* Workflow.StepIndex returns an index of the workflow or -1.
LEMMA StepIndexType ==
    ASSUME NEW w, NEW id
    PROVE  StepIndex(w, id) \in Position(w)
<1>1. CASE id # Unnamed /\ \E i \in DOMAIN w : w[i].id = id
  <2>1. (CHOOSE i \in DOMAIN w : w[i].id = id) \in DOMAIN w
    BY <1>1
  <2> QED BY <1>1, <2>1 DEF StepIndex, Position
<1>2. CASE ~(id # Unnamed /\ \E i \in DOMAIN w : w[i].id = id)
  BY <1>2 DEF StepIndex, Position
<1> QED BY <1>1, <1>2

LEMMA ResolveType ==
    ASSUME NEW w, NEW target
    PROVE  Resolve(w, target) \in Position(w)
  BY StepIndexType DEF Resolve, Position

\* Workflow.Next never leaves the workflow.
LEMMA NextStepType ==
    ASSUME NEW w, NEW i, NEW o
    PROVE  NextStep(w, i, o) \in Position(w)
  BY ResolveType DEF NextStep, FallThrough, Position

LEMMA AfterStepType ==
    ASSUME NEW w, NEW i
    PROVE  AfterStep(w, i) \in Position(w)
  BY NextStepType DEF AfterStep, Position

LEMMA GateTargetType ==
    ASSUME NEW w, NEW i, NEW o
    PROVE  GateTarget(w, i, o) \in Position(w)
  BY NextStepType, ResolveType DEF GateTarget, BranchStart, Position

\* firstApproveStep finds the first approve step of every workflow that has one.
LEMMA FirstApproveType ==
    ASSUME NEW w, IsWorkflow(w), Has(w, "approve")
    PROVE  /\ FirstApprove(w) \in DOMAIN w
           /\ w[FirstApprove(w)].verb = "approve"
           /\ \A j \in DOMAIN w : w[j].verb = "approve" => FirstApprove(w) <= j
<1> DEFINE A == {i \in DOMAIN w : w[i].verb = "approve"}
<1>1. A \in SUBSET Nat /\ A # {}
  BY WorkflowShape, StepsAssumption DEF Has
<1>2. PICK x \in A : \A y \in A : x <= y
  BY <1>1, LeastNatural
<1>3. \E i \in DOMAIN w : /\ w[i].verb = "approve"
                          /\ \A j \in DOMAIN w : w[j].verb = "approve" => i <= j
  BY <1>2
<1> QED BY <1>3 DEF FirstApprove

-----------------------------------------------------------------------------
(* Facts about the data.                                                   *)

LEMMA LoadedShape ==
    ASSUME NEW w \in Loaded
    PROVE  /\ 0 \in DOMAIN w
           /\ DOMAIN w \subseteq Indices
           /\ \A i \in DOMAIN w : w[i] \in Step
           /\ Position(w) \subseteq Indices \cup {Stop}
<1>1. IsWorkflow(w)
  BY DaemonAssumption DEF Loaded
<1> QED BY <1>1, WorkflowShape DEF Indices, Position

LEMMA NoItemIsNone == NoItem \notin Item
<1>1. ASSUME NoItem \in Item PROVE FALSE
  <2>1. NoItem.step \in Indices
    BY <1>1 DEF Item
  <2> QED BY <2>1, StepsAssumption DEF NoItem, Indices, Stop
<1> QED BY <1>1

LEMMA ApproverType ==
    ASSUME NEW w \in Loaded, NEW i \in DOMAIN w
    PROVE  ApproverOf(w[i]) \in People
  BY LoadedShape, DaemonAssumption DEF ApproverOf, Step

LEMMA FirstApproverType ==
    ASSUME NEW w \in Loaded, Has(w, "approve")
    PROVE  FirstApprover(w) \in People
<1>1. IsWorkflow(w)
  BY DaemonAssumption DEF Loaded
<1> QED BY <1>1, FirstApproveType, ApproverType DEF FirstApprover

LEMMA InvitedType ==
    ASSUME NEW w \in Loaded
    PROVE  Invited(w) \subseteq People
  BY FirstApproverType DEF Invited

\* checkpointFor writes an item of the list.
LEMMA CheckpointedType ==
    ASSUME NEW item \in Item, NEW next \in Indices \cup {Stop}
    PROVE  Checkpointed(item, next) \in Item
<1>1. 0 \in Indices \/ Indices = {}
  BY StepsAssumption DEF Indices
<1>2. item.resume \in Indices
  BY DEF Item
<1>3. CASE next = Stop
  BY <1>1, <1>2, <1>3 DEF Checkpointed, Item
<1>4. CASE next \in Indices
  BY <1>4, StepsAssumption DEF Checkpointed, Item, Stop, Indices
<1> QED BY <1>3, <1>4

LEMMA CheckpointedOnFlow ==
    ASSUME NEW h \in Holds, flow[h] \in Loaded, NEW item \in Item, OnFlow(h, item),
           NEW next \in Position(flow[h])
    PROVE  OnFlow(h, Checkpointed(item, next))
<1>1. item # NoItem
  BY NoItemIsNone
<1>2. 0 \in DOMAIN flow[h]
  BY LoadedShape
<1> QED BY <1>1, <1>2 DEF OnFlow, Checkpointed, Item, Position

-----------------------------------------------------------------------------

LEMMA InvInit ==
    ASSUME Init
    PROVE  IInv
<1>1. 0 \in Indices \/ Indices = {}
  BY StepsAssumption DEF Indices
<1>2. \A h \in Holds : flow[h] \in Loaded
  BY DEF Init
<1>3. TypeOK
  BY <1>1, DaemonAssumption
     DEF Init, TypeOK, Loaded, Nobody, CliStates, DaemonStates, Responses
<1>4. Sited
  BY <1>2 DEF Init, Sited, Busy, OnFlow, Nobody, Position
<1> QED BY <1>3, <1>4 DEF IInv

LEMMA BoundsType ==
    ASSUME TypeOK, Refuse \/ Mishap \/ UNCHANGED bounds
    PROVE  /\ answers' \in 0 .. MaxAnswers
           /\ refusals' \in 0 .. MaxRefusals
           /\ mishaps' \in 0 .. MaxMishaps
  BY DaemonAssumption DEF TypeOK, Refuse, Mishap, Spend, bounds

LEMMA SetAttendeesType ==
    ASSUME TypeOK, NEW h \in Holds, NEW people \in SUBSET People, SetAttendees(h, people)
    PROVE  /\ exists' \in [Holds -> BOOLEAN]
           /\ att' \in [Holds -> SUBSET People]
           /\ resp' \in [Holds -> [People -> Responses]]
<1>1. [p \in People |-> IF p \in people THEN resp[h][p] ELSE "none"] \in [People -> Responses]
  BY DEF TypeOK, Responses
<1> QED BY <1>1 DEF TypeOK, SetAttendees

\* A step that takes effect keeps the calendar and the history in their types.
LEMMA PerformType ==
    ASSUME TypeOK, NEW h \in Holds, NEW i \in Indices, NEW known \in SUBSET People,
           Perform(h, i, known)
    PROVE  /\ exists' \in [Holds -> BOOLEAN]
           /\ att' \in [Holds -> SUBSET People]
           /\ resp' \in [Holds -> [People -> Responses]]
           /\ ran' \in [Holds -> SUBSET Indices]
           /\ repeats' \in Nat
<1>1. (known \cup Team) \in SUBSET People
  BY DaemonAssumption
<1>2. ran' \in [Holds -> SUBSET Indices] /\ repeats' \in Nat
  BY DEF Perform, TypeOK
<1>3. CASE SetAttendees(h, known \cup Team)
  BY <1>1, <1>2, <1>3, SetAttendeesType
<1>4. CASE exists' = [exists EXCEPT ![h] = FALSE] /\ UNCHANGED <<att, resp>>
  BY <1>2, <1>4 DEF TypeOK
<1>5. CASE UNCHANGED calendar
  BY <1>2, <1>5 DEF TypeOK, calendar
<1> QED BY <1>3, <1>4, <1>5 DEF Perform

\* So does one that fails, with or without having taken effect.
LEMMA FailedType ==
    ASSUME TypeOK, NEW h \in Holds, NEW i \in Indices, NEW known \in SUBSET People,
           Refused(h, i, known) \/ ReplyLost(h, i, known)
    PROVE  /\ exists' \in [Holds -> BOOLEAN]
           /\ att' \in [Holds -> SUBSET People]
           /\ resp' \in [Holds -> [People -> Responses]]
           /\ ran' \in [Holds -> SUBSET Indices]
           /\ repeats' \in Nat
           /\ answers' \in 0 .. MaxAnswers
           /\ refusals' \in 0 .. MaxRefusals
           /\ mishaps' \in 0 .. MaxMishaps
<1>1. CASE Refused(h, i, known)
  BY <1>1, BoundsType DEF Refused, TypeOK, calendar, effects
<1>2. CASE ReplyLost(h, i, known)
  BY <1>2, BoundsType, PerformType DEF ReplyLost
<1> QED BY <1>1, <1>2

-----------------------------------------------------------------------------
(* Each action keeps the invariant: commands, people and time.             *)

USE DEF calendar, command, local, bounds, effects, gates, listing, CliStates, DaemonStates

LEMMA CreateHoldInv ==
    ASSUME IInv, NEW h \in Holds, CreateHold(h)
    PROVE  IInv'
<1>1. Invited(flow[h]) \in SUBSET People
  BY InvitedType DEF IInv, Sited
<1> QED
  BY <1>1
     DEF IInv, TypeOK, Sited, OnFlow, Busy, CreateHold, CliStates

LEMMA RecordHoldInv ==
    ASSUME IInv, NEW h \in Holds, RecordHold(h)
    PROVE  IInv'
<1>1. TypeOK /\ Sited
  BY DEF IInv
<1>2. /\ answers' \in 0 .. MaxAnswers
      /\ refusals' \in 0 .. MaxRefusals
      /\ mishaps' \in 0 .. MaxMishaps
  BY <1>1, BoundsType DEF RecordHold
<1>3. covered' \in [Holds -> {"none", "on", "off"}]
  BY <1>1 DEF TypeOK, RecordHold
<1>4. /\ NextStep(flow[h], 0, NoOutcome) \in Indices \cup {Stop}
      /\ NextStep(flow[h], 0, NoOutcome) \in Position(flow[h])
  BY <1>1, NextStepType, LoadedShape DEF Sited
<1>5. TypeOK'
  BY <1>1, <1>2, <1>3, <1>4 DEF TypeOK, RecordHold
<1>6. Sited'
  BY <1>1, <1>4 DEF Sited, OnFlow, Busy, RecordHold, TypeOK
<1> QED BY <1>5, <1>6 DEF IInv

LEMMA CliRunStepInv ==
    ASSUME IInv, NEW h \in Holds, CliRunStep(h)
    PROVE  IInv'
<1>1. TypeOK /\ Sited
  BY DEF IInv
<1>2. Invited(flow[h]) \in SUBSET People
  BY <1>1, InvitedType DEF Sited
<1>3. cliAt[h] \in Indices
  BY <1>1, LoadedShape DEF Sited, CliRunStep, MayRun, Position
<1>4. /\ exists' \in [Holds -> BOOLEAN]
      /\ att' \in [Holds -> SUBSET People]
      /\ resp' \in [Holds -> [People -> Responses]]
      /\ ran' \in [Holds -> SUBSET Indices]
      /\ repeats' \in Nat
      /\ answers' \in 0 .. MaxAnswers
      /\ refusals' \in 0 .. MaxRefusals
      /\ mishaps' \in 0 .. MaxMishaps
  BY <1>1, <1>2, <1>3, PerformType, FailedType, BoundsType DEF CliRunStep
<1>5. /\ AfterStep(flow[h], cliAt[h]) \in Indices \cup {Stop}
      /\ AfterStep(flow[h], cliAt[h]) \in Position(flow[h])
  BY <1>1, AfterStepType, LoadedShape DEF Sited
<1>6. /\ cli' \in [Holds -> CliStates]
      /\ cliAt' \in [Holds -> Indices \cup {Stop}]
  <2>1. \/ cli' = [cli EXCEPT ![h] = "forget"]
        \/ cli' = [cli EXCEPT ![h] = "walk"]
        \/ cli' = [cli EXCEPT ![h] = "end"]
    BY DEF CliRunStep
  <2>2. \/ cliAt' = cliAt
        \/ cliAt' = [cliAt EXCEPT ![h] = AfterStep(flow[h], cliAt[h])]
    BY DEF CliRunStep
  <2>3. cli \in [Holds -> CliStates] /\ cliAt \in [Holds -> Indices \cup {Stop}]
    BY <1>1 DEF TypeOK
  <2>4. cli' \in [Holds -> CliStates]
    BY <2>1, <2>3 DEF CliStates
  <2>5. cliAt' \in [Holds -> Indices \cup {Stop}]
    BY <1>5, <2>2, <2>3
  <2> QED BY <2>4, <2>5
<1>7. TypeOK'
  BY <1>1, <1>4, <1>6 DEF TypeOK, CliRunStep, local, gates, listing
<1>8. Sited'
  BY <1>1, <1>5 DEF Sited, OnFlow, Busy, CliRunStep, local, TypeOK
<1> QED BY <1>7, <1>8 DEF IInv

LEMMA CliSkipStepInv ==
    ASSUME IInv, NEW h \in Holds, CliSkipStep(h)
    PROVE  IInv'
  BY NextStepType, LoadedShape
     DEF IInv, TypeOK, Sited, OnFlow, Busy, CliSkipStep, Position

LEMMA CliWalkedInv ==
    ASSUME IInv, NEW h \in Holds, CliWalked(h)
    PROVE  IInv'
  BY DEF IInv, TypeOK, Sited, OnFlow, Busy, CliWalked

LEMMA AddWatchInv ==
    ASSUME IInv, NEW h \in Holds, AddWatch(h)
    PROVE  IInv'
<1>1. /\ cliAt[h] \in DOMAIN flow[h]
      /\ cliAt[h] \in Indices
      /\ 0 \in DOMAIN flow[h]
      /\ 0 \in Indices
  BY LoadedShape DEF IInv, Sited, Position, AddWatch
<1>2. (IF flow[h][cliAt[h]].verb = "approve" THEN FirstApprover(flow[h]) ELSE NoOne)
          \in People \cup {NoOne}
  BY <1>1, FirstApproverType DEF IInv, Sited, Has
<1>3. watches'[h] \in Item
  BY <1>1, <1>2, DaemonAssumption DEF AddWatch, Item, IInv, TypeOK
<1> QED
  BY <1>1, <1>2, <1>3
     DEF IInv, TypeOK, Sited, OnFlow, Busy, AddWatch, CliStates, Position

LEMMA CancelHoldInv ==
    ASSUME IInv, NEW h \in Holds, CancelHold(h)
    PROVE  IInv'
  BY DEF IInv, TypeOK, Sited, OnFlow, Busy, CancelHold

LEMMA ForgetWatchInv ==
    ASSUME IInv, NEW h \in Holds, ForgetWatch(h)
    PROVE  IInv'
  BY DEF IInv, TypeOK, Sited, OnFlow, Busy, ForgetWatch

LEMMA ForgetCoverageInv ==
    ASSUME IInv, NEW h \in Holds, ForgetCoverage(h)
    PROVE  IInv'
  BY DEF IInv, TypeOK, Sited, OnFlow, Busy, ForgetCoverage

LEMMA CliDiesInv ==
    ASSUME IInv, NEW h \in Holds, CliDies(h)
    PROVE  IInv'
  BY DEF IInv, TypeOK, Sited, OnFlow, Busy, CliDies

LEMMA AnswerInv ==
    ASSUME IInv, NEW h \in Holds, NEW p \in People, NEW r \in Responses, Answer(h, p, r)
    PROVE  IInv'
<1>1. answers' \in 0 .. MaxAnswers
  BY DaemonAssumption DEF IInv, TypeOK, Answer, Spend
<1>2. resp' \in [Holds -> [People -> Responses]]
  BY DEF IInv, TypeOK, Answer
<1>3. saidYes' \in [Holds -> SUBSET People]
  BY DEF IInv, TypeOK, Answer
<1> QED
  BY <1>1, <1>2, <1>3
     DEF IInv, TypeOK, Sited, OnFlow, Busy, Answer

LEMMA OlderType ==
    ASSUME NEW list \in [Holds -> Item \cup {NoItem}]
    PROVE  /\ Older(list) \in [Holds -> Item \cup {NoItem}]
           /\ \A h \in Holds : list[h] # NoItem => /\ Older(list)[h] # NoItem
                                                   /\ Older(list)[h].step = list[h].step
                                                   /\ Older(list)[h].resume = list[h].resume
           /\ \A h \in Holds : list[h] = NoItem => Older(list)[h] = NoItem
<1> SUFFICES ASSUME NEW h \in Holds
             PROVE  /\ Older(list)[h] \in Item \cup {NoItem}
                    /\ list[h] # NoItem => /\ Older(list)[h] # NoItem
                                           /\ Older(list)[h].step = list[h].step
                                           /\ Older(list)[h].resume = list[h].resume
                    /\ list[h] = NoItem => Older(list)[h] = NoItem
  BY DEF Older
<1>1. CASE list[h] = NoItem
  BY <1>1 DEF Older
<1>2. CASE list[h] # NoItem /\ list[h].age = MaxAge
  BY <1>2 DEF Older
<1>3. CASE list[h] # NoItem /\ list[h].age # MaxAge
  <2>1. list[h] \in Item
    BY <1>3
  <2>2. list[h].age + 1 \in 0 .. MaxAge
    BY <1>3, <2>1, DaemonAssumption DEF Item
  <2>3. Older(list)[h] = [list[h] EXCEPT !.age = list[h].age + 1]
    BY <1>3 DEF Older
  <2>4. Older(list)[h] \in Item
    BY <2>1, <2>2, <2>3 DEF Item
  <2> QED BY <1>3, <2>1, <2>3, <2>4, NoItemIsNone DEF Item
<1> QED BY <1>1, <1>2, <1>3

LEMMA TickInv ==
    ASSUME IInv, Tick
    PROVE  IInv'
<1>1. /\ watches' \in [Holds -> Item \cup {NoItem}]
      /\ kept' \in [Holds -> Item \cup {NoItem}]
  BY OlderType DEF IInv, TypeOK, Tick
<1>2. /\ \A h \in Holds : OnFlow(h, watches[h])' /\ OnFlow(h, kept[h])'
      /\ \A h \in Holds : kept[h] # NoItem => kept'[h] # NoItem
  BY OlderType DEF IInv, TypeOK, Sited, OnFlow, Tick
<1> QED
  BY <1>1, <1>2, NoItemIsNone
     DEF IInv, TypeOK, Sited, OnFlow, Busy, Tick

-----------------------------------------------------------------------------
(* Each action keeps the invariant: the daemon.                            *)

LEMMA PollStartInv ==
    ASSUME IInv, PollStart
    PROVE  IInv'
  BY DEF IInv, TypeOK, Sited, OnFlow, Busy, PollStart

LEMMA PollUnreachableInv ==
    ASSUME IInv, NEW h \in Holds, PollUnreachable(h)
    PROVE  IInv'
<1>1. /\ answers' \in 0 .. MaxAnswers
      /\ refusals' \in 0 .. MaxRefusals
      /\ mishaps' \in 0 .. MaxMishaps
  BY BoundsType DEF IInv, PollUnreachable
<1> QED
  BY <1>1
     DEF IInv, TypeOK, Sited, OnFlow, Busy, PollUnreachable, Polling, SetAside, Uncover,
         Position

LEMMA PollPrunedInv ==
    ASSUME IInv, NEW h \in Holds, PollPruned(h)
    PROVE  IInv'
<1>1. /\ answers' \in 0 .. MaxAnswers
      /\ refusals' \in 0 .. MaxRefusals
      /\ mishaps' \in 0 .. MaxMishaps
  BY BoundsType DEF IInv, PollPruned
<1> QED
  BY <1>1
     DEF IInv, TypeOK, Sited, OnFlow, Busy, PollPruned, Polling, SetAside, Uncover, Position

LEMMA PollDoneInv ==
    ASSUME IInv, NEW h \in Holds, PollDone(h)
    PROVE  IInv'
  BY DEF IInv, TypeOK, Sited, OnFlow, Busy, PollDone, Polling, SetAside

LEMMA PollGoneInv ==
    ASSUME IInv, NEW h \in Holds, PollGone(h)
    PROVE  IInv'
  BY DEF IInv, TypeOK, Sited, OnFlow, Busy, PollGone, Polling, SetAside,
         Uncover

LEMMA PollPendingInv ==
    ASSUME IInv, NEW h \in Holds, PollPending(h)
    PROVE  IInv'
  BY DEF IInv, TypeOK, Sited, OnFlow, Busy, PollPending, Polling, Live,
         SetAside

LEMMA PollResumeInv ==
    ASSUME IInv, NEW h \in Holds, PollResume(h)
    PROVE  IInv'
  BY LoadedShape, NoItemIsNone
     DEF IInv, TypeOK, Sited, OnFlow, Busy, PollResume, Polling, Live,
         Advance, Item, Position

LEMMA PollElapsedInv ==
    ASSUME IInv, NEW h \in Holds, PollElapsed(h)
    PROVE  IInv'
  BY NextStepType, LoadedShape
     DEF IInv, TypeOK, Sited, OnFlow, Busy, PollElapsed, Polling, Live,
         Advance

LEMMA PollResolvedInv ==
    ASSUME IInv, NEW h \in Holds, NEW o \in Outcomes, PollResolved(h, o)
    PROVE  IInv'
  BY GateTargetType, LoadedShape
     DEF IInv, TypeOK, Sited, OnFlow, Busy, PollResolved, Polling, Live,
         Advance

LEMMA RecordOutcomeInv ==
    ASSUME IInv, RecordOutcome
    PROVE  IInv'
  BY NoItemIsNone
     DEF IInv, TypeOK, Sited, OnFlow, Busy, RecordOutcome, Item

LEMMA CommitBranchInv ==
    ASSUME IInv, CommitBranch
    PROVE  IInv'
<1>1. /\ cur \in Holds
      /\ flow[cur] \in Loaded
      /\ kept[cur] \in Item
      /\ OnFlow(cur, kept[cur])
      /\ at \in Position(flow[cur])
  BY NoItemIsNone DEF IInv, TypeOK, Sited, Busy, CommitBranch
<1>2. /\ answers' \in 0 .. MaxAnswers
      /\ refusals' \in 0 .. MaxRefusals
      /\ mishaps' \in 0 .. MaxMishaps
  BY BoundsType DEF IInv, CommitBranch, WriteCheckpoint
<1>3. /\ Checkpointed(kept[cur], at) \in Item
      /\ OnFlow(cur, Checkpointed(kept[cur], at))
  BY <1>1, LoadedShape, CheckpointedType, CheckpointedOnFlow
<1>4. /\ watches' \in [Holds -> Item \cup {NoItem}]
      /\ \A h \in Holds : OnFlow(h, watches'[h])
  <2> DEFINE written == Checkpointed(kept[cur], at)
  <2>1. /\ watches \in [Holds -> Item \cup {NoItem}]
        /\ \A h \in Holds : OnFlow(h, watches[h])
    BY DEF IInv, TypeOK, Sited
  <2>2. written \in Item /\ OnFlow(cur, written)
    BY <1>3
  <2>3. watches' = watches \/ watches' = [watches EXCEPT ![cur] = written]
    BY DEF CommitBranch, WriteCheckpoint
  <2> HIDE DEF written
  <2>4. CASE watches' = [watches EXCEPT ![cur] = written]
    <3>1. \A h \in Holds : watches'[h] = IF h = cur THEN written ELSE watches[h]
      BY <2>1, <2>4
    <3> QED BY <1>1, <2>1, <2>2, <2>4, <3>1
  <2> QED BY <2>1, <2>3, <2>4
<1>5. kept[cur].step \in Indices /\ at \in Indices \cup {Stop}
  BY <1>1, LoadedShape DEF Item
<1>6. outcome # NoOutcome => <<kept[cur].step, outcome>> \in Indices \X Outcomes
  BY <1>5 DEF IInv, TypeOK
<1>7. /\ commits' \in [Holds -> SUBSET (Indices \X Outcomes)]
      /\ reached' \in [Holds -> SUBSET (Indices \cup {Stop})]
  BY <1>1, <1>5, <1>6 DEF IInv, TypeOK, CommitBranch
<1>8. TypeOK'
  BY <1>2, <1>4, <1>7
     DEF IInv, TypeOK, CommitBranch, DaemonStates, calendar, command, local, listing, effects
<1>9. Sited'
  BY <1>1, <1>4 DEF IInv, Sited, OnFlow, Busy, CommitBranch, calendar, command, local
<1> QED BY <1>8, <1>9 DEF IInv

LEMMA WalkRunStepInv ==
    ASSUME IInv, WalkRunStep
    PROVE  IInv'
<1>1. TypeOK /\ Sited
  BY DEF IInv
<1>2. /\ cur \in Holds
      /\ flow[cur] \in Loaded
      /\ at \in Indices
      /\ copy \in SUBSET People
  BY <1>1, LoadedShape DEF TypeOK, Sited, Busy, Position, WalkRunStep, MayRun
<1>3. /\ exists' \in [Holds -> BOOLEAN]
      /\ att' \in [Holds -> SUBSET People]
      /\ resp' \in [Holds -> [People -> Responses]]
      /\ ran' \in [Holds -> SUBSET Indices]
      /\ repeats' \in Nat
  BY <1>1, <1>2, PerformType DEF WalkRunStep
<1>4. AfterStep(flow[cur], at) \in Indices \cup {Stop}
  BY <1>2, AfterStepType, LoadedShape
<1>5. reached' \in [Holds -> SUBSET (Indices \cup {Stop})]
  BY <1>1, <1>2, <1>4 DEF TypeOK, WalkRunStep, Move
<1>6. TypeOK'
  BY <1>1, <1>3, <1>5
     DEF TypeOK, WalkRunStep, DaemonStates, command, local, bounds, listing
<1>7. Sited'
  BY <1>1 DEF Sited, OnFlow, Busy, WalkRunStep, command, local
<1> QED BY <1>6, <1>7 DEF IInv

LEMMA WalkSkipStepInv ==
    ASSUME IInv, WalkSkipStep
    PROVE  IInv'
  BY NextStepType, LoadedShape
     DEF IInv, TypeOK, Sited, OnFlow, Busy, WalkSkipStep, MaySkip, Move

\* Putting a run aside: what SetAside does to the daemon's own state.
LEMMA SetAsideType ==
    ASSUME IInv, NEW h \in Holds, NEW item, item \in Item \cup {NoItem}, OnFlow(h, item),
           SetAside(h, item)
    PROVE  /\ todo' \subseteq Holds
           /\ kept' \in [Holds -> Item \cup {NoItem}]
           /\ dropped' \in [Holds -> BOOLEAN]
           /\ dpc' = "pass" /\ cur' = NoHold /\ copy' = {} /\ at' = Stop
           /\ outcome' = NoOutcome
           /\ UNCHANGED <<flow, cli, cliAt, told>>
           /\ \A k \in Holds : OnFlow(k, kept[k])'
           /\ \A k \in todo' : kept'[k] # NoItem
<1>1. kept' = [kept EXCEPT ![h] = item] /\ todo' = todo \ {h} /\ flow' = flow
  BY DEF SetAside
<1>2. \A k \in Holds : kept'[k] = IF k = h THEN item ELSE kept[k]
  BY <1>1 DEF IInv, TypeOK
<1>3. kept' \in [Holds -> Item \cup {NoItem}]
  BY <1>1 DEF IInv, TypeOK
<1>4. todo' \subseteq Holds /\ \A k \in todo' : kept'[k] # NoItem
  BY <1>1, <1>2 DEF IInv, TypeOK, Sited
<1>5. \A k \in Holds : OnFlow(k, kept[k])'
  BY <1>1, <1>2 DEF IInv, Sited, OnFlow
<1>6. dropped' \in [Holds -> BOOLEAN]
  BY DEF IInv, TypeOK, SetAside
<1> QED BY <1>3, <1>4, <1>5, <1>6 DEF SetAside, command

LEMMA WalkFailStepInv ==
    ASSUME IInv, WalkFailStep
    PROVE  IInv'
<1>1. TypeOK /\ Sited
  BY DEF IInv
<1>2. /\ cur \in Holds
      /\ flow[cur] \in Loaded
      /\ at \in DOMAIN flow[cur]
      /\ at \in Indices
      /\ copy \in SUBSET People
      /\ kept[cur] \in Item
      /\ OnFlow(cur, kept[cur])
  BY <1>1, LoadedShape DEF TypeOK, Sited, Busy, Position, WalkFailStep, MayRun
<1>3. [kept[cur] EXCEPT !.resume = at] \in Item
  BY <1>2 DEF Item
<1>4. OnFlow(cur, [kept[cur] EXCEPT !.resume = at])
  BY <1>2, <1>3, NoItemIsNone DEF OnFlow, Item
<1>5. SetAside(cur, [kept[cur] EXCEPT !.resume = at])
  BY DEF WalkFailStep
<1>6. /\ exists' \in [Holds -> BOOLEAN]
      /\ att' \in [Holds -> SUBSET People]
      /\ resp' \in [Holds -> [People -> Responses]]
      /\ ran' \in [Holds -> SUBSET Indices]
      /\ repeats' \in Nat
      /\ answers' \in 0 .. MaxAnswers
      /\ refusals' \in 0 .. MaxRefusals
      /\ mishaps' \in 0 .. MaxMishaps
  BY <1>1, <1>2, FailedType DEF WalkFailStep
<1>7. TypeOK'
  BY <1>1, <1>2, <1>3, <1>4, <1>5, <1>6, SetAsideType
     DEF TypeOK, WalkFailStep, DaemonStates, gates
<1>8. Sited'
  BY <1>1, <1>2, <1>3, <1>4, <1>5, SetAsideType DEF Sited, OnFlow, Busy, WalkFailStep
<1> QED BY <1>7, <1>8 DEF IInv

LEMMA WalkForgetWatchInv ==
    ASSUME IInv, WalkForgetWatch
    PROVE  IInv'
  BY DEF IInv, TypeOK, Sited, OnFlow, Busy, WalkForgetWatch

LEMMA WalkForgetCoverageInv ==
    ASSUME IInv, WalkForgetCoverage
    PROVE  IInv'
  BY DEF IInv, TypeOK, Sited, OnFlow, Busy, WalkForgetCoverage, Uncover

LEMMA WalkCheckpointInv ==
    ASSUME IInv, WalkCheckpoint
    PROVE  IInv'
<1>1. /\ cur \in Holds
      /\ flow[cur] \in Loaded
      /\ kept[cur] \in Item
      /\ OnFlow(cur, kept[cur])
      /\ AfterStep(flow[cur], at) \in Position(flow[cur])
  BY AfterStepType, NoItemIsNone DEF IInv, TypeOK, Sited, Busy, WalkCheckpoint
<1>2. /\ answers' \in 0 .. MaxAnswers
      /\ refusals' \in 0 .. MaxRefusals
      /\ mishaps' \in 0 .. MaxMishaps
  BY BoundsType DEF IInv, WalkCheckpoint, WriteCheckpoint
<1>3. /\ Checkpointed(kept[cur], AfterStep(flow[cur], at)) \in Item
      /\ OnFlow(cur, Checkpointed(kept[cur], AfterStep(flow[cur], at)))
  BY <1>1, LoadedShape, CheckpointedType, CheckpointedOnFlow
<1>4. /\ watches' \in [Holds -> Item \cup {NoItem}]
      /\ \A h \in Holds : OnFlow(h, watches'[h])
  <2> DEFINE written == Checkpointed(kept[cur], AfterStep(flow[cur], at))
  <2>1. /\ watches \in [Holds -> Item \cup {NoItem}]
        /\ \A h \in Holds : OnFlow(h, watches[h])
    BY DEF IInv, TypeOK, Sited
  <2>2. written \in Item /\ OnFlow(cur, written)
    BY <1>3
  <2>3. watches' = watches \/ watches' = [watches EXCEPT ![cur] = written]
    BY DEF WalkCheckpoint, WriteCheckpoint
  <2> HIDE DEF written
  <2>4. CASE watches' = [watches EXCEPT ![cur] = written]
    <3>1. \A h \in Holds : watches'[h] = IF h = cur THEN written ELSE watches[h]
      BY <2>1, <2>4
    <3> QED BY <1>1, <2>1, <2>2, <2>4, <3>1
  <2> QED BY <2>1, <2>3, <2>4
<1>5. kept[cur].step \in Indices /\ AfterStep(flow[cur], at) \in Indices \cup {Stop}
  BY <1>1, LoadedShape DEF Item
<1> QED
  BY <1>1, <1>2, <1>3, <1>4, <1>5, LoadedShape, AfterStepType
     DEF IInv, TypeOK, Sited, OnFlow, Busy, WalkCheckpoint

LEMMA WalkEndInv ==
    ASSUME IInv, WalkEnd
    PROVE  IInv'
  BY DEF IInv, TypeOK, Sited, OnFlow, Busy, WalkEnd, SetAside, Uncover

LEMMA WalkGateInv ==
    ASSUME IInv, WalkGate
    PROVE  IInv'
  BY DEF IInv, TypeOK, Sited, OnFlow, Busy, WalkGate

\* The item that waits at the next gate.
LEMMA AtGateType ==
    ASSUME IInv, dpc = "invite", NEW approver \in People \cup {NoOne}
    PROVE  /\ cur \in Holds
           /\ at \in DOMAIN flow[cur]
           /\ AtGate(approver) \in Item
           /\ OnFlow(cur, AtGate(approver))
<1>1. /\ cur \in Holds
      /\ flow[cur] \in Loaded
      /\ kept[cur] \in Item
      /\ at \in DOMAIN flow[cur]
  BY DEF IInv, TypeOK, Sited, Busy, Position
<1>2. at \in Indices /\ 0 \in Indices /\ 0 \in DOMAIN flow[cur] /\ 0 \in 0 .. MaxAge
  BY <1>1, LoadedShape, DaemonAssumption
<1>3. AtGate(approver) \in Item
  BY <1>1, <1>2 DEF AtGate, Item
<1>4. AtGate(approver).step = at /\ AtGate(approver).resume = 0
  BY <1>1 DEF AtGate, Item
<1> QED BY <1>1, <1>2, <1>3, <1>4 DEF OnFlow

LEMMA ReachGateInv ==
    ASSUME IInv, ReachGate
    PROVE  IInv'
<1>1. TypeOK /\ Sited /\ dpc = "invite"
  BY DEF IInv, ReachGate
<1>2. cur \in Holds /\ AtGate(NoOne) \in Item /\ OnFlow(cur, AtGate(NoOne))
  BY <1>1, AtGateType DEF IInv
<1>3. TypeOK'
  BY <1>1, <1>2, SetAsideType DEF IInv, TypeOK, ReachGate
<1>4. Sited'
  BY <1>1, <1>2, SetAsideType DEF IInv, Sited, OnFlow, Busy, ReachGate
<1> QED BY <1>3, <1>4 DEF IInv

LEMMA InviteNextInv ==
    ASSUME IInv, InviteNext
    PROVE  IInv'
<1> DEFINE approver == flow[cur][at].approver
<1>1. TypeOK /\ Sited /\ dpc = "invite"
  BY DEF IInv, InviteNext
<1>2. cur \in Holds /\ at \in DOMAIN flow[cur]
  BY <1>1, AtGateType DEF IInv
<1>3. approver \in People /\ copy \cup {approver} \in SUBSET People
  BY <1>1, <1>2, LoadedShape DEF Sited, TypeOK, Step, InviteNext, NamesApprover
<1>4. AtGate(approver) \in Item /\ OnFlow(cur, AtGate(approver))
  BY <1>1, <1>3, AtGateType DEF IInv
<1>5. SetAside(cur, AtGate(approver)) /\ SetAttendees(cur, copy \cup {approver})
  BY DEF InviteNext
<1> HIDE DEF approver
<1>6. /\ exists' \in [Holds -> BOOLEAN]
      /\ att' \in [Holds -> SUBSET People]
      /\ resp' \in [Holds -> [People -> Responses]]
  BY <1>1, <1>2, <1>3, <1>5, SetAttendeesType
<1>7. TypeOK'
  BY <1>1, <1>2, <1>4, <1>5, <1>6, SetAsideType
     DEF IInv, TypeOK, InviteNext, DaemonStates, gates, bounds, effects
<1>8. Sited'
  BY <1>1, <1>2, <1>4, <1>5, SetAsideType DEF IInv, Sited, OnFlow, Busy, InviteNext
<1> QED BY <1>7, <1>8 DEF IInv

LEMMA InviteFailsInv ==
    ASSUME IInv, InviteFails
    PROVE  IInv'
<1>1. TypeOK /\ Sited /\ dpc = "invite"
  BY DEF IInv, InviteFails
<1>2. cur \in Holds /\ at \in DOMAIN flow[cur] /\ kept[cur] \in Item
  BY <1>1, AtGateType DEF IInv, TypeOK, Sited, Busy
<1>3. /\ kept[cur].approver \in People \cup {NoOne}
      /\ copy \cup {flow[cur][at].approver} \in SUBSET People
  BY <1>1, <1>2, LoadedShape DEF Sited, TypeOK, Step, Item, InviteFails, NamesApprover
<1>4. AtGate(kept[cur].approver) \in Item /\ OnFlow(cur, AtGate(kept[cur].approver))
  BY <1>1, <1>3, AtGateType DEF IInv
<1>5. SetAside(cur, AtGate(kept[cur].approver))
  BY DEF InviteFails
<1>6. /\ exists' \in [Holds -> BOOLEAN]
      /\ att' \in [Holds -> SUBSET People]
      /\ resp' \in [Holds -> [People -> Responses]]
  <2>1. CASE UNCHANGED calendar
    BY <1>1, <2>1 DEF TypeOK, calendar
  <2>2. CASE SetAttendees(cur, copy \cup {flow[cur][at].approver})
    BY <1>1, <1>2, <1>3, <2>2, SetAttendeesType
  <2> QED BY <2>1, <2>2 DEF InviteFails
<1>7. /\ answers' \in 0 .. MaxAnswers
      /\ refusals' \in 0 .. MaxRefusals
      /\ mishaps' \in 0 .. MaxMishaps
  BY <1>1, BoundsType DEF InviteFails
<1>8. TypeOK'
  BY <1>1, <1>2, <1>4, <1>5, <1>6, <1>7, SetAsideType
     DEF IInv, TypeOK, InviteFails, DaemonStates, gates, effects
<1>9. Sited'
  BY <1>1, <1>2, <1>4, <1>5, SetAsideType DEF IInv, Sited, OnFlow, Busy, InviteFails
<1> QED BY <1>8, <1>9 DEF IInv

LEMMA PollEndInv ==
    ASSUME IInv, PollEnd
    PROVE  IInv'
<1>1. /\ answers' \in 0 .. MaxAnswers
      /\ refusals' \in 0 .. MaxRefusals
      /\ mishaps' \in 0 .. MaxMishaps
  BY BoundsType DEF IInv, PollEnd
<1> QED
  BY <1>1
     DEF IInv, TypeOK, Sited, OnFlow, Busy, PollEnd, Idle, Nobody

LEMMA CrashInv ==
    ASSUME IInv, Crash
    PROVE  IInv'
<1>1. /\ answers' \in 0 .. MaxAnswers
      /\ refusals' \in 0 .. MaxRefusals
      /\ mishaps' \in 0 .. MaxMishaps
  BY BoundsType DEF IInv, Crash
<1> QED
  BY <1>1
     DEF IInv, TypeOK, Sited, OnFlow, Busy, Crash, Idle, Nobody

LEMMA RestartInv ==
    ASSUME IInv, Restart
    PROVE  IInv'
  BY DEF IInv, TypeOK, Sited, OnFlow, Busy, Restart

-----------------------------------------------------------------------------
(* The theorem.                                                            *)

LEMMA InvStep ==
    ASSUME IInv, [Next]_vars
    PROVE  IInv'
<1>1. ASSUME NEW h \in Holds, Command(h) PROVE IInv'
  BY <1>1, CreateHoldInv, RecordHoldInv, CliRunStepInv, CliSkipStepInv,
     CliWalkedInv, AddWatchInv, CancelHoldInv, ForgetWatchInv,
     ForgetCoverageInv, CliDiesInv
     DEF Command
<1>2. ASSUME NEW h \in Holds, NEW p \in People, NEW r \in Responses, Answer(h, p, r)
      PROVE  IInv'
  BY <1>2, AnswerInv
<1>3. CASE Tick
  BY <1>3, TickInv
<1>4. ASSUME NEW h \in Holds, Poll(h) PROVE IInv'
  BY <1>4, PollUnreachableInv, PollPrunedInv, PollDoneInv, PollGoneInv,
     PollPendingInv, PollResumeInv, PollElapsedInv, PollResolvedInv
     DEF Poll
<1>5. CASE Branch
  BY <1>5, RecordOutcomeInv, CommitBranchInv, WalkRunStepInv, WalkSkipStepInv,
     WalkFailStepInv, WalkForgetWatchInv, WalkForgetCoverageInv,
     WalkCheckpointInv, WalkEndInv, WalkGateInv, ReachGateInv,
     InviteNextInv, InviteFailsInv
     DEF Branch
<1>6. CASE DaemonStep
  BY <1>4, <1>5, <1>6, PollStartInv, PollEndInv, RestartInv DEF DaemonStep
<1>7. CASE Crash
  BY <1>7, CrashInv
<1>8. CASE UNCHANGED vars
  BY <1>8 DEF vars, IInv, TypeOK, Sited, OnFlow, Busy
<1> QED BY <1>1, <1>2, <1>3, <1>6, <1>7, <1>8 DEF Next

\* The calendar, the watch list, the ledger, the commands and the daemon keep
\* their types, and every item of the watch list points into its workflow.
THEOREM DaemonTypeCorrect == Spec => []IInv
<1>1. Init => IInv
  BY InvInit
<1>2. IInv /\ [Next]_vars => IInv'
  BY InvStep
<1> QED BY <1>1, <1>2, PTL DEF Spec

COROLLARY TypeCorrect == Spec => []TypeOK
<1>1. IInv => TypeOK
  BY DEF IInv
<1> QED BY <1>1, DaemonTypeCorrect, PTL

-----------------------------------------------------------------------------
(* What recovery rests on.                                                 *)

\* The decision about to be acted on is in the log.
Logged ==
    /\ HistoryComplete
    /\ dpc = "commit" /\ outcome # NoOutcome => <<kept[cur].step, outcome>> \in records[cur]

HInv == IInv /\ Logged

\* A point to resume at is one the branch has reached.
Resumable(h, item) ==
    item # NoItem => /\ item.resume > 0 => item.resume \in reached[h]
                     /\ item.done => Stop \in reached[h]

\* The daemon has not begun to move run h in this pass.
Unread(h) == (h \in todo /\ h # cur) \/ (dpc \in {"record", "commit"} /\ h = cur)

Unmoved(inFile, inPass) ==
    inFile # NoItem /\ inPass # NoItem =>
        \/ inFile.resume = 0 /\ ~inFile.done
        \/ inFile.resume = inPass.resume /\ inFile.done = inPass.done

Tracked ==
    /\ \A h \in Holds : Resumable(h, watches[h])
    /\ \A h \in Holds : Resumable(h, kept[h])
    /\ \A h \in Holds : Unread(h) => Unmoved(watches[h], kept[h])
    /\ ~Busy => cur = NoHold
    /\ Busy => ~kept[cur].done
    /\ dpc \in {"record", "commit"} => kept[cur].resume = 0
    /\ dpc = "walk" => at \in reached[cur]
    /\ dpc \in {"forget", "uncover", "checkpoint"} =>
           AfterStep(flow[cur], at) \in reached[cur]

TInv == IInv /\ Tracked

-----------------------------------------------------------------------------
(* The audit log.                                                          *)

\* What a step must leave alone for Logged to go on holding.
LEMMA StillLogged ==
    ASSUME HInv, records' = records, commits' = commits, dpc' # "commit"
    PROVE  Logged'
  BY DEF HInv, Logged, HistoryComplete

LEMMA LoggedStep ==
    ASSUME HInv, [Next]_vars
    PROVE  Logged'
<1>1. ASSUME NEW h \in Holds, Command(h) PROVE Logged'
  <2>1. UNCHANGED <<records, commits, dpc, outcome, kept, cur>>
    BY <1>1 DEF Command, CreateHold, RecordHold, CliRunStep, CliSkipStep, CliWalked,
                AddWatch, CancelHold, ForgetWatch, ForgetCoverage, CliDies
  <2> QED BY <2>1 DEF HInv, Logged, HistoryComplete
<1>2. ASSUME NEW h \in Holds, NEW p \in People, NEW r \in Responses, Answer(h, p, r)
      PROVE  Logged'
  BY <1>2 DEF Answer, HInv, Logged, HistoryComplete
<1>3. CASE Tick
  <2>1. dpc = "commit" => kept'[cur].step = kept[cur].step
    BY <1>3, OlderType DEF Tick, HInv, IInv, TypeOK, Sited, Busy
  <2> QED BY <1>3, <2>1 DEF Tick, HInv, Logged, HistoryComplete
<1>4. ASSUME NEW h \in Holds, Poll(h) PROVE Logged'
  <2>1. records' = records /\ commits' = commits
    BY <1>4 DEF Poll, PollUnreachable, PollPruned, PollDone, PollGone, PollPending,
                PollResume, PollElapsed, PollResolved, Advance
  <2>2. dpc' # "commit" \/ outcome' = NoOutcome
    BY <1>4 DEF Poll, PollUnreachable, PollPruned, PollDone, PollGone, PollPending,
                PollResume, PollElapsed, PollResolved, Advance, SetAside
  <2> QED BY <2>1, <2>2 DEF HInv, Logged, HistoryComplete
<1>5. CASE RecordOutcome
  <2>1. /\ cur \in Holds
        /\ records' = [records EXCEPT ![cur] = @ \cup {<<kept[cur].step, outcome>>}]
        /\ UNCHANGED <<kept, cur, outcome, commits>>
    BY <1>5 DEF RecordOutcome, HInv, IInv, Sited, Busy
  <2>2. <<kept[cur].step, outcome>> \in records'[cur]
    BY <2>1 DEF HInv, IInv, TypeOK
  <2>3. \A h \in Holds : records[h] \subseteq records'[h]
    BY <2>1 DEF HInv, IInv, TypeOK
  <2> QED BY <2>1, <2>2, <2>3 DEF HInv, Logged, HistoryComplete
<1>6. CASE CommitBranch
  <2>1. /\ records' = records /\ dpc' = "walk"
        /\ commits' = [commits EXCEPT ![cur] =
               IF outcome = NoOutcome THEN @ ELSE @ \cup {<<kept[cur].step, outcome>>}]
    BY <1>6 DEF CommitBranch
  <2>2. \A h \in Holds : commits'[h] \subseteq
            IF h = cur /\ outcome # NoOutcome
            THEN commits[h] \cup {<<kept[cur].step, outcome>>} ELSE commits[h]
    BY <2>1 DEF HInv, IInv, TypeOK
  <2>3. outcome # NoOutcome => <<kept[cur].step, outcome>> \in records[cur]
    BY <1>6 DEF CommitBranch, HInv, Logged
  <2> QED BY <2>1, <2>2, <2>3 DEF HInv, Logged, HistoryComplete
<1>7. CASE WalkRunStep \/ WalkSkipStep \/ WalkFailStep
  BY <1>7, StillLogged DEF WalkRunStep, WalkSkipStep, WalkFailStep, SetAside
<1>8. CASE WalkForgetWatch \/ WalkForgetCoverage \/ WalkCheckpoint \/ WalkEnd \/ WalkGate
  BY <1>8, StillLogged
     DEF WalkForgetWatch, WalkForgetCoverage, WalkCheckpoint, WalkEnd, WalkGate, SetAside
<1>9. CASE ReachGate \/ InviteNext \/ InviteFails
  BY <1>9, StillLogged DEF ReachGate, InviteNext, InviteFails, SetAside
<1>10. CASE PollStart \/ PollEnd \/ Restart \/ Crash
  BY <1>10, StillLogged DEF PollStart, PollEnd, Restart, Crash
<1>11. CASE UNCHANGED vars
  BY <1>11 DEF vars, HInv, Logged, HistoryComplete
<1> QED
  BY <1>1, <1>2, <1>3, <1>4, <1>5, <1>6, <1>7, <1>8, <1>9, <1>10, <1>11
     DEF Next, DaemonStep, Branch

\* Every decision the daemon acts on is in the audit log first.
THEOREM EveryDecisionLogged == Spec => []HistoryComplete
<1>1. Init => HInv
  <2> SUFFICES ASSUME Init PROVE HInv
    OBVIOUS
  <2> QED BY InvInit DEF Init, HInv, Logged, HistoryComplete
<1>2. HInv /\ [Next]_vars => HInv'
  BY InvStep, LoggedStep DEF HInv
<1>3. HInv => HistoryComplete
  BY DEF HInv, Logged
<1> QED BY <1>1, <1>2, <1>3, PTL DEF Spec

-----------------------------------------------------------------------------
(* Resuming.                                                               *)

LEMMA StillTracked ==
    ASSUME TInv, UNCHANGED <<flow, watches, todo, kept, cur, at, dpc, reached>>
    PROVE  Tracked'
  BY DEF TInv, Tracked, Resumable, Unread, Unmoved, Busy

\* Putting aside the run the pass is at, at a point its branch has reached.
LEMMA SetAsideTracked ==
    ASSUME TInv, NEW h \in Holds, NEW item, SetAside(h, item), Resumable(h, item),
           UNCHANGED <<watches, reached>>, cur \in {h, NoHold}
    PROVE  Tracked'
<1>1. \A k \in Holds : kept'[k] = IF k = h THEN item ELSE kept[k]
  BY DEF TInv, IInv, TypeOK, SetAside
<1>2. \A k \in Holds : Resumable(k, kept[k])'
  BY <1>1 DEF TInv, Tracked, Resumable
<1>3. \A k \in Holds : Unread(k)' => Unread(k) /\ k # h
  BY DaemonAssumption DEF Unread, SetAside
<1>4. \A k \in Holds : Unread(k)' => Unmoved(watches[k], kept[k])'
  BY <1>1, <1>3 DEF TInv, Tracked, Unmoved
<1> QED BY <1>2, <1>4 DEF TInv, Tracked, Resumable, Busy, SetAside

\* Turning to a run that is still to be read.
LEMMA AdvanceTracked ==
    ASSUME TInv, NEW h \in Holds, Polling(h), ~kept[h].done, NEW phase, NEW from, NEW o,
           Advance(h, phase, from, o),
           \/ phase \in {"record", "commit"} /\ kept[h].resume = 0
           \/ phase = "walk" /\ from \in reached[h]
    PROVE  Tracked'
<1>1. cur = NoHold /\ h \in todo /\ h # NoHold
  BY DaemonAssumption DEF TInv, Tracked, Busy, Polling
<1>2. /\ cur' = h /\ at' = from /\ dpc' = phase
      /\ UNCHANGED <<watches, todo, kept, reached, flow>>
  BY DEF Advance
<1>3. \A k \in Holds : Unread(k)' => Unread(k)
  BY <1>1, <1>2, DaemonAssumption DEF Unread
<1> QED BY <1>1, <1>2, <1>3 DEF TInv, Tracked, Resumable, Unmoved, Busy

LEMMA PollTracked ==
    ASSUME TInv, NEW h \in Holds, Poll(h)
    PROVE  Tracked'
<1>1. Polling(h) => cur = NoHold
  BY DEF TInv, Tracked, Busy, Polling
<1>2. Resumable(h, kept[h]) /\ Resumable(h, NoItem)
  BY DEF TInv, Tracked, Resumable
<1>3. CASE PollUnreachable(h) \/ PollPruned(h) \/ PollDone(h) \/ PollGone(h) \/ PollPending(h)
  BY <1>1, <1>2, <1>3, SetAsideTracked
     DEF PollUnreachable, PollPruned, PollDone, PollGone, PollPending, Live
<1>4. CASE PollResume(h)
  <2>1. kept[h].resume \in reached[h]
    BY <1>2, <1>4 DEF TInv, IInv, Sited, PollResume, Live, Polling, Resumable
  <2> QED BY <1>4, <2>1, AdvanceTracked DEF PollResume, Live
<1>5. CASE PollElapsed(h)
  BY <1>5, AdvanceTracked DEF PollElapsed, Live
<1>6. ASSUME NEW o \in Outcomes, PollResolved(h, o) PROVE Tracked'
  BY <1>6, AdvanceTracked DEF PollResolved, Live
<1> QED BY <1>3, <1>4, <1>5, <1>6 DEF Poll

\* A checkpoint that is written points at what it was told to.
LEMMA CheckpointReached ==
    ASSUME TInv, Busy, NEW next \in Position(flow[cur]), NEW r, next \in r
    PROVE  LET item == Checkpointed(kept[cur], next) IN
           /\ item.resume > 0 => item.resume \in r
           /\ item.done => Stop \in r
<1>1. kept[cur] \in Item
  BY DEF TInv, IInv, TypeOK, Sited
<1> QED BY <1>1 DEF TInv, Tracked, Checkpointed, Item

\* Committing to a branch starts a new account of what it has reached.
LEMMA CommitTracked ==
    ASSUME TInv, CommitBranch
    PROVE  Tracked'
<1>1. /\ Busy /\ cur \in Holds /\ at \in Position(flow[cur]) /\ kept[cur] # NoItem
      /\ kept[cur].resume = 0 /\ ~kept[cur].done
      /\ dpc' = "walk" /\ UNCHANGED <<flow, todo, kept, cur, at>>
  BY DEF TInv, IInv, Sited, Tracked, Busy, CommitBranch
<1>2. /\ reached' = [reached EXCEPT ![cur] = {at}]
      /\ \A h \in Holds : reached'[h] = IF h = cur THEN {at} ELSE reached[h]
  BY DEF TInv, IInv, TypeOK, CommitBranch
<1>3. Unmoved(watches[cur], kept[cur])
  BY <1>1 DEF TInv, Tracked, Unread, CommitBranch
<1>4. /\ \A h \in Holds : h # cur => watches'[h] = watches[h]
      /\ watches'[cur] = watches[cur] \/ watches'[cur] = Checkpointed(kept[cur], at)
  BY <1>1 DEF TInv, IInv, TypeOK, CommitBranch, WriteCheckpoint
<1>5. Resumable(cur, watches[cur])'
  <2>1. CASE watches'[cur] = watches[cur]
    BY <1>1, <1>3, <2>1 DEF Resumable, Unmoved
  <2>2. CASE watches'[cur] = Checkpointed(kept[cur], at)
    BY <1>1, <1>2, <2>2, CheckpointReached DEF Resumable
  <2> QED BY <1>4, <2>1, <2>2
<1>6. \A h \in Holds : Resumable(h, watches[h])'
  BY <1>1, <1>2, <1>4, <1>5 DEF TInv, Tracked, Resumable
<1>7. \A h \in Holds : Resumable(h, kept[h])'
  BY <1>1, <1>2 DEF TInv, Tracked, Resumable
<1>8. \A h \in Holds : Unread(h)' => Unread(h) /\ h # cur
  BY <1>1 DEF Unread
<1>9. \A h \in Holds : Unread(h)' => Unmoved(watches[h], kept[h])'
  BY <1>1, <1>4, <1>8 DEF TInv, Tracked, Unmoved
<1> QED BY <1>1, <1>2, <1>6, <1>7, <1>9 DEF Tracked, Busy

\* A step that ran or was skipped moves the branch on.
LEMMA MoveTracked ==
    ASSUME TInv, NEW next, dpc = "walk", Move(next),
           UNCHANGED <<flow, watches, todo, kept, cur>>,
           \/ dpc' = "walk" /\ at' = next
           \/ dpc' \in {"forget", "checkpoint"} /\ at' = at /\ next = AfterStep(flow[cur], at)
    PROVE  Tracked'
<1>1. cur \in Holds /\ next \in reached'[cur]
  BY DEF TInv, IInv, TypeOK, Sited, Busy, Move
<1>2. \A h \in Holds : reached[h] \subseteq reached'[h]
  BY <1>1 DEF TInv, IInv, TypeOK, Move
<1>3. \A h \in Holds : Unread(h)' => Unread(h)
  BY DEF Unread
<1> QED BY <1>1, <1>2, <1>3 DEF TInv, Tracked, Resumable, Unmoved, Busy

LEMMA WalkCheckpointTracked ==
    ASSUME TInv, WalkCheckpoint
    PROVE  Tracked'
<1> DEFINE next == AfterStep(flow[cur], at)
<1>1. /\ Busy /\ cur \in Holds /\ next \in reached[cur]
      /\ dpc' = "walk" /\ at' = next
      /\ UNCHANGED <<flow, todo, kept, cur, reached>>
  BY DEF TInv, IInv, Sited, Tracked, Busy, WalkCheckpoint
<1>2. next \in Position(flow[cur])
  BY AfterStepType
<1>3. /\ \A h \in Holds : h # cur => watches'[h] = watches[h]
      /\ watches'[cur] = watches[cur] \/ watches'[cur] = Checkpointed(kept[cur], next)
  BY <1>1 DEF TInv, IInv, TypeOK, WalkCheckpoint, WriteCheckpoint
<1> HIDE DEF next
<1>4. Resumable(cur, watches[cur])'
  <2>1. CASE watches'[cur] = watches[cur]
    BY <1>1, <2>1 DEF TInv, Tracked, Resumable
  <2>2. CASE watches'[cur] = Checkpointed(kept[cur], next)
    BY <1>1, <1>2, <2>2, CheckpointReached DEF Resumable
  <2> QED BY <1>3, <2>1, <2>2
<1>5. \A h \in Holds : Resumable(h, watches[h])'
  BY <1>1, <1>3, <1>4 DEF TInv, Tracked, Resumable
<1>6. \A h \in Holds : Unread(h)' => Unread(h) /\ h # cur
  BY <1>1 DEF Unread
<1>7. \A h \in Holds : Unread(h)' => Unmoved(watches[h], kept[h])'
  BY <1>1, <1>3, <1>6 DEF TInv, Tracked, Unmoved
<1> QED BY <1>1, <1>5, <1>7 DEF TInv, Tracked, Resumable, Busy

\* Taking a run off the file, by the user's command or in a cancel step.
LEMMA ForgetTracked ==
    ASSUME TInv, NEW h \in Holds, watches' = [watches EXCEPT ![h] = NoItem],
           UNCHANGED <<flow, todo, kept, cur, at, reached>>,
           \/ dpc' = dpc
           \/ dpc = "forget" /\ dpc' = "uncover"
    PROVE  Tracked'
<1>1. \A k \in Holds : watches'[k] = IF k = h THEN NoItem ELSE watches[k]
  BY DEF TInv, IInv, TypeOK
<1>2. \A k \in Holds : Unread(k)' => Unread(k)
  BY DEF Unread
<1> QED BY <1>1, <1>2 DEF TInv, Tracked, Resumable, Unmoved, Busy

LEMMA AddWatchTracked ==
    ASSUME TInv, NEW h \in Holds, AddWatch(h)
    PROVE  Tracked'
<1>1. UNCHANGED <<flow, todo, kept, cur, at, dpc, reached>>
  BY DEF AddWatch
<1>2. /\ watches'[h].resume = 0 /\ watches'[h].done = FALSE
      /\ \A k \in Holds : k # h => watches'[k] = watches[k]
  BY DEF AddWatch, TInv, IInv, TypeOK
<1>3. \A k \in Holds : Unread(k)' => Unread(k)
  BY <1>1 DEF Unread
<1> QED BY <1>1, <1>2, <1>3 DEF TInv, Tracked, Resumable, Unmoved, Busy

LEMMA TickTracked ==
    ASSUME TInv, Tick
    PROVE  Tracked'
<1>1. ASSUME NEW list \in [Holds -> Item \cup {NoItem}], NEW h \in Holds
      PROVE  /\ list[h] = NoItem => Older(list)[h] = NoItem
             /\ Older(list)[h].resume = list[h].resume
             /\ Older(list)[h].done = list[h].done
             /\ list[h] # NoItem => Older(list)[h] # NoItem
  <2>1. list[h] \in Item => [list[h] EXCEPT !.age = @ + 1].resume = list[h].resume
                         /\ [list[h] EXCEPT !.age = @ + 1].done = list[h].done
    BY DEF Item
  <2> QED BY <2>1, OlderType DEF Older
<1>2. /\ watches' = Older(watches) /\ kept' = Older(kept)
      /\ UNCHANGED <<flow, todo, cur, at, dpc, reached>>
  BY DEF Tick
<1>3. watches \in [Holds -> Item \cup {NoItem}] /\ kept \in [Holds -> Item \cup {NoItem}]
  BY DEF TInv, IInv, TypeOK
<1>4. ASSUME NEW h \in Holds
      PROVE  /\ watches'[h].resume = watches[h].resume /\ watches'[h].done = watches[h].done
             /\ kept'[h].resume = kept[h].resume /\ kept'[h].done = kept[h].done
             /\ watches'[h] # NoItem => watches[h] # NoItem
             /\ kept'[h] # NoItem => kept[h] # NoItem
  BY <1>1, <1>2, <1>3
<1>5. Busy => cur \in Holds
  BY DEF TInv, IInv, Sited
<1>6. \A h \in Holds : Unread(h)' => Unread(h)
  BY <1>2 DEF Unread
<1> QED BY <1>2, <1>4, <1>5, <1>6 DEF TInv, Tracked, Resumable, Unmoved, Busy

LEMMA PollStartTracked ==
    ASSUME TInv, PollStart
    PROVE  Tracked'
  BY DEF PollStart, TInv, Tracked, Resumable, Unread, Unmoved, Busy

LEMMA PassEndTracked ==
    ASSUME TInv, PollEnd \/ Crash \/ Restart
    PROVE  Tracked'
<1>1. CASE PollEnd
  BY <1>1
     DEF PollEnd, Idle, TInv, IInv, TypeOK, Tracked, Resumable, Unread, Unmoved, Busy, Nobody
<1>2. CASE Crash
  BY <1>2
     DEF Crash, Idle, TInv, IInv, TypeOK, Tracked, Resumable, Unread, Unmoved, Busy, Nobody
<1>3. CASE Restart
  BY <1>3 DEF Restart, TInv, Tracked, Resumable, Unread, Unmoved, Busy
<1> QED BY <1>1, <1>2, <1>3

LEMMA BranchTracked ==
    ASSUME TInv, Branch
    PROVE  Tracked'
<1>1. Busy => cur \in Holds /\ kept[cur] \in Item /\ ~kept[cur].done
  BY DEF TInv, IInv, TypeOK, Sited, Tracked
<1>2. CASE RecordOutcome
  BY <1>2 DEF RecordOutcome, TInv, Tracked, Resumable, Unread, Unmoved, Busy
<1>3. CASE CommitBranch
  BY <1>3, CommitTracked
<1>4. CASE WalkRunStep
  BY <1>4, MoveTracked DEF WalkRunStep
<1>5. CASE WalkSkipStep
  BY <1>5, MoveTracked DEF WalkSkipStep
<1>6. CASE WalkFailStep
  <2>1. Resumable(cur, [kept[cur] EXCEPT !.resume = at])
    BY <1>1, <1>6 DEF WalkFailStep, TInv, Tracked, Resumable, Busy, Item
  <2> QED BY <1>1, <1>6, <2>1, SetAsideTracked DEF WalkFailStep, Busy
<1>7. CASE WalkForgetWatch
  BY <1>1, <1>7, ForgetTracked DEF WalkForgetWatch, Busy
<1>8. CASE WalkForgetCoverage
  BY <1>8 DEF WalkForgetCoverage, TInv, Tracked, Resumable, Unread, Unmoved, Busy
<1>9. CASE WalkCheckpoint
  BY <1>9, WalkCheckpointTracked
<1>10. CASE WalkEnd
  BY <1>1, <1>10, SetAsideTracked DEF WalkEnd, Resumable, Busy
<1>11. CASE WalkGate
  BY <1>11 DEF WalkGate, TInv, Tracked, Resumable, Unread, Unmoved, Busy
<1>12. \A approver : Busy => Resumable(cur, AtGate(approver))
  BY <1>1 DEF AtGate, Resumable, Item
<1>13. CASE ReachGate \/ InviteNext \/ InviteFails
  BY <1>1, <1>12, <1>13, SetAsideTracked DEF ReachGate, InviteNext, InviteFails, Busy
<1> QED
  BY <1>2, <1>3, <1>4, <1>5, <1>6, <1>7, <1>8, <1>9, <1>10, <1>11, <1>13 DEF Branch

LEMMA TrackedStep ==
    ASSUME TInv, [Next]_vars
    PROVE  Tracked'
<1>1. ASSUME NEW h \in Holds, Command(h) PROVE Tracked'
  <2>1. CASE AddWatch(h)
    BY <2>1, AddWatchTracked
  <2>2. CASE ForgetWatch(h)
    BY <2>2, ForgetTracked DEF ForgetWatch
  <2>3. CASE ~AddWatch(h) /\ ~ForgetWatch(h)
    BY <1>1, <2>3, StillTracked
       DEF Command, CreateHold, RecordHold, CliRunStep, CliSkipStep, CliWalked, CancelHold,
           ForgetCoverage, CliDies
  <2> QED BY <2>1, <2>2, <2>3
<1>2. ASSUME NEW h \in Holds, NEW p \in People, NEW r \in Responses, Answer(h, p, r)
      PROVE  Tracked'
  BY <1>2, StillTracked DEF Answer
<1>3. CASE DaemonStep
  BY <1>3, PollStartTracked, PollTracked, BranchTracked, PassEndTracked DEF DaemonStep
<1>4. CASE UNCHANGED vars
  BY <1>4, StillTracked DEF vars
<1> QED BY <1>1, <1>2, <1>3, <1>4, TickTracked, PassEndTracked DEF Next

\* A run is only ever resumed at a step its branch had got to, and only a run
\* whose branch had ended is dropped as done.
THEOREM NothingSkipped == Spec => []NoStepLost
<1>1. Init => TInv
  <2> SUFFICES ASSUME Init PROVE TInv
    OBVIOUS
  <2> QED BY InvInit DEF Init, TInv, Tracked, Resumable, Unread, Unmoved, Busy, Nobody
<1>2. TInv /\ [Next]_vars => TInv'
  BY InvStep, TrackedStep DEF TInv
<1>3. TInv => NoStepLost
  BY DEF TInv, Tracked, Resumable, NoStepLost
<1> QED BY <1>1, <1>2, <1>3, PTL DEF Spec

-----------------------------------------------------------------------------
(* The coverage ledger.                                                    *)

\* A step of one hold's command or of the daemon at one hold leaves the others.
Elsewhere(h) ==
    \A k \in Holds \ {h} :
        UNCHANGED <<exists[k], att[k], resp[k], watches[k], covered[k], cli[k], cliAt[k],
                    kept[k], saidYes[k], ran[k], commits[k]>>

\* The run command has not yet handed the run over, or given it up.
Early(h) == cli[h] \in {"new", "made", "walk", "gate"}

FreshAt(h) ==
    /\ Early(h) => watches[h] = NoItem /\ kept[h] = NoItem /\ commits[h] = {}
    /\ cli[h] \in {"new", "made"} => ran[h] = {}
    /\ cli[h] = "new" => covered[h] = "none"

Fresh == \A h \in Holds : FreshAt(h)

\* The branch has been committed to.
Walking == Busy /\ dpc \notin {"record", "commit"}

\* Who takes an entry off the ledger has withdrawn the hold, or acts on a decline.
WithdrawnAt(h) ==
    /\ exists[h] /\ covered[h] = "off" => \E c \in commits[h] : c[2] = "declined"
    /\ cli[h] \in {"forget", "uncover"} => ~exists[h]

Withdrawn ==
    /\ \A h \in Holds : WithdrawnAt(h)
    /\ dpc \in {"forget", "uncover"} => ~exists[cur]
    /\ Walking /\ outcome = "declined" => \E c \in commits[cur] : c[2] = "declined"

FInv == TInv /\ Fresh

CInv == FInv /\ Withdrawn

LEMMA PerformOne ==
    ASSUME TypeOK, NEW h \in Holds, NEW i, NEW known, Perform(h, i, known)
    PROVE  /\ \A k \in Holds \ {h} : UNCHANGED <<exists[k], att[k], resp[k], ran[k]>>
           /\ \A k \in Holds : exists'[k] => exists[k]
           /\ flow[h][i].verb = "cancel" => ~exists'[h]
<1>1. \A k \in Holds \ {h} : ran'[k] = ran[k]
  BY DEF Perform, TypeOK
<1>2. CASE SetAttendees(h, known \cup Team) /\ flow[h][i].verb = "notify"
  BY <1>1, <1>2 DEF TypeOK, SetAttendees
<1>3. CASE exists' = [exists EXCEPT ![h] = FALSE] /\ UNCHANGED <<att, resp>>
  BY <1>1, <1>3 DEF TypeOK
<1>4. CASE UNCHANGED calendar /\ flow[h][i].verb # "cancel"
  BY <1>1, <1>4
<1> QED BY <1>2, <1>3, <1>4 DEF Perform, Needless

LEMMA FailedOne ==
    ASSUME TypeOK, NEW h \in Holds, NEW i, NEW known,
           Refused(h, i, known) \/ ReplyLost(h, i, known)
    PROVE  /\ \A k \in Holds \ {h} : UNCHANGED <<exists[k], att[k], resp[k], ran[k]>>
           /\ \A k \in Holds : exists'[k] => exists[k]
<1>1. CASE Refused(h, i, known)
  BY <1>1 DEF Refused
<1>2. CASE ReplyLost(h, i, known)
  BY <1>2, PerformOne DEF ReplyLost
<1> QED BY <1>1, <1>2

LEMMA CommandElsewhere ==
    ASSUME TypeOK, NEW h \in Holds, Command(h)
    PROVE  Elsewhere(h)
<1>1. CASE CliRunStep(h)
  <2>1. \A k \in Holds \ {h} : UNCHANGED <<exists[k], att[k], resp[k], ran[k]>>
    BY <1>1, PerformOne, FailedOne DEF CliRunStep
  <2>2. \A k \in Holds \ {h} : UNCHANGED <<cli[k], cliAt[k]>>
    <3>1. \/ cli' = [cli EXCEPT ![h] = "forget"]
          \/ cli' = [cli EXCEPT ![h] = "walk"]
          \/ cli' = [cli EXCEPT ![h] = "end"]
      BY <1>1 DEF CliRunStep
    <3>2. cliAt' = cliAt \/ cliAt' = [cliAt EXCEPT ![h] = AfterStep(flow[h], cliAt[h])]
      BY <1>1 DEF CliRunStep
    <3> QED BY <3>1, <3>2 DEF TypeOK
  <2> QED BY <1>1, <2>1, <2>2 DEF CliRunStep, Elsewhere
<1>2. CASE CreateHold(h) \/ RecordHold(h) \/ CliSkipStep(h) \/ CliWalked(h)
  BY <1>2 DEF TypeOK, Elsewhere, CreateHold, RecordHold, CliSkipStep, CliWalked
<1>3. CASE AddWatch(h) \/ CancelHold(h) \/ ForgetWatch(h) \/ ForgetCoverage(h) \/ CliDies(h)
  BY <1>3 DEF TypeOK, Elsewhere, AddWatch, CancelHold, ForgetWatch, ForgetCoverage, CliDies
<1> QED BY <1>1, <1>2, <1>3 DEF Command

LEMMA PollElsewhere ==
    ASSUME TypeOK, NEW h \in Holds, Poll(h)
    PROVE  Elsewhere(h)
  BY DEF TypeOK, Elsewhere, Poll, PollUnreachable, PollPruned, PollDone, PollGone, PollPending,
         PollResume, PollElapsed, PollResolved, Advance, SetAside, Uncover

LEMMA BranchElsewhere ==
    ASSUME IInv, Branch
    PROVE  Elsewhere(cur)
<1>1. TypeOK /\ cur \in Holds
  BY DEF IInv, Sited, Busy, Branch, RecordOutcome, CommitBranch, WalkRunStep, WalkSkipStep,
         WalkFailStep, WalkForgetWatch, WalkForgetCoverage, WalkCheckpoint, WalkEnd, WalkGate,
         ReachGate, InviteNext, InviteFails
<1>2. CASE RecordOutcome \/ CommitBranch \/ WalkSkipStep \/ WalkCheckpoint \/ WalkGate
  BY <1>1, <1>2 DEF TypeOK, Elsewhere, RecordOutcome, CommitBranch, WalkSkipStep,
                    WalkCheckpoint, WalkGate, WriteCheckpoint
<1>3. CASE WalkRunStep
  BY <1>1, <1>3, PerformOne DEF WalkRunStep, Elsewhere
<1>4. CASE WalkFailStep
  <2>1. \A k \in Holds \ {cur} : UNCHANGED <<exists[k], att[k], resp[k], ran[k]>>
    BY <1>1, <1>4, FailedOne DEF WalkFailStep
  <2> QED BY <1>1, <1>4, <2>1 DEF WalkFailStep, SetAside, TypeOK, Elsewhere
<1>5. CASE WalkForgetWatch \/ WalkForgetCoverage \/ WalkEnd
  BY <1>1, <1>5 DEF TypeOK, Elsewhere, WalkForgetWatch, WalkForgetCoverage, WalkEnd, SetAside,
                    Uncover
<1>6. CASE ReachGate \/ InviteNext \/ InviteFails
  BY <1>1, <1>6 DEF TypeOK, Elsewhere, ReachGate, InviteNext, InviteFails, SetAside,
                    SetAttendees
<1> QED BY <1>2, <1>3, <1>4, <1>5, <1>6 DEF Branch

\* The daemon works on a run only once the command has handed it over.
LEMMA BranchLate ==
    ASSUME FInv, Branch
    PROVE  /\ Busy /\ cur \in Holds /\ kept[cur] \in Item /\ ~Early(cur)
           /\ UNCHANGED <<flow, cli, cliAt>>
<1>1. Busy
  BY DEF Busy, Branch, RecordOutcome, CommitBranch, WalkRunStep, WalkSkipStep,
         WalkFailStep, WalkForgetWatch, WalkForgetCoverage, WalkCheckpoint, WalkEnd, WalkGate,
         ReachGate, InviteNext, InviteFails
<1>2. cur \in Holds /\ kept[cur] \in Item /\ ~Early(cur)
  BY <1>1 DEF FInv, TInv, IInv, TypeOK, Sited, Fresh, FreshAt
<1>3. UNCHANGED <<flow, cli, cliAt>>
  BY DEF Branch, RecordOutcome, CommitBranch, WalkRunStep, WalkSkipStep,
         WalkFailStep, WalkForgetWatch, WalkForgetCoverage, WalkCheckpoint, WalkEnd, WalkGate,
         ReachGate, InviteNext, InviteFails, SetAside
<1> QED BY <1>1, <1>2, <1>3

LEMMA PollLate ==
    ASSUME FInv, NEW h \in Holds, Poll(h)
    PROVE  /\ Polling(h) /\ cur = NoHold /\ kept[h] \in Item /\ ~Early(h)
           /\ UNCHANGED <<flow, cli, cliAt>>
<1>1. Polling(h)
  BY DEF Poll, PollUnreachable, PollPruned, PollDone, PollGone, PollPending,
         PollResume, PollElapsed, PollResolved, Live
<1>2. UNCHANGED <<flow, cli, cliAt>>
  BY DEF Poll, PollUnreachable, PollPruned, PollDone, PollGone, PollPending,
         PollResume, PollElapsed, PollResolved, Advance, SetAside
<1>3. cur = NoHold
  BY <1>1 DEF FInv, TInv, Tracked, Busy, Polling
<1>4. kept[h] \in Item /\ ~Early(h)
  BY <1>1 DEF FInv, TInv, IInv, TypeOK, Sited, Fresh, FreshAt, Polling
<1> QED BY <1>1, <1>2, <1>3, <1>4

LEMMA FreshElsewhere ==
    ASSUME Fresh, NEW h, Elsewhere(h), FreshAt(h)'
    PROVE  Fresh'
<1>1. ASSUME NEW k \in Holds, k # h PROVE FreshAt(k)'
  BY <1>1 DEF Fresh, FreshAt, Early, Elsewhere
<1> QED BY <1>1 DEF Fresh

LEMMA FreshCommand ==
    ASSUME FInv, NEW h \in Holds, Command(h)
    PROVE  Fresh'
<1>1. TypeOK /\ FreshAt(h) /\ Elsewhere(h)
  BY CommandElsewhere DEF FInv, TInv, IInv, Fresh
<1>2. CASE CreateHold(h) \/ RecordHold(h) \/ CliSkipStep(h) \/ CliWalked(h)
  <2>1. FreshAt(h)'
    BY <1>1, <1>2 DEF TypeOK, FreshAt, Early, CreateHold, RecordHold, CliSkipStep, CliWalked
  <2> QED BY <1>1, <2>1, FreshElsewhere DEF FInv
<1>3. CASE CliRunStep(h)
  <2>1. cli'[h] \in {"forget", "walk", "end"} /\ cli[h] = "walk"
    BY <1>1, <1>3 DEF TypeOK, CliRunStep
  <2>2. FreshAt(h)'
    BY <1>1, <1>3, <2>1 DEF FreshAt, Early, CliRunStep
  <2> QED BY <1>1, <2>2, FreshElsewhere DEF FInv
<1>4. CASE AddWatch(h) \/ CancelHold(h) \/ ForgetWatch(h) \/ ForgetCoverage(h) \/ CliDies(h)
  <2>1. cli'[h] \in {"forget", "uncover", "end"}
    BY <1>1, <1>4 DEF TypeOK, AddWatch, CancelHold, ForgetWatch, ForgetCoverage, CliDies
  <2>2. FreshAt(h)'
    BY <2>1 DEF FreshAt, Early
  <2> QED BY <1>1, <2>2, FreshElsewhere DEF FInv
<1> QED BY <1>2, <1>3, <1>4 DEF Command

LEMMA OlderNone ==
    ASSUME NEW list, NEW h \in Holds, list[h] = NoItem
    PROVE  Older(list)[h] = NoItem
  BY DEF Older

LEMMA FreshStep ==
    ASSUME FInv, [Next]_vars
    PROVE  Fresh'
<1>1. ASSUME NEW h \in Holds, Command(h) PROVE Fresh'
  BY <1>1, FreshCommand
<1>2. ASSUME NEW h \in Holds, Poll(h) PROVE Fresh'
  <2>1. FreshAt(h)'
    BY <1>2, PollLate DEF FreshAt, Early
  <2>2. Elsewhere(h)
    BY <1>2, PollElsewhere DEF FInv, TInv, IInv
  <2> QED BY <2>1, <2>2, FreshElsewhere DEF FInv
<1>3. CASE Branch
  <2>1. PICK h \in Holds : h = cur
    BY <1>3, BranchLate
  <2>2. Elsewhere(h)
    BY <1>3, <2>1, BranchElsewhere DEF FInv, TInv, Elsewhere
  <2>3. FreshAt(h)'
    BY <1>3, <2>1, BranchLate DEF FreshAt, Early
  <2> QED BY <2>2, <2>3, FreshElsewhere DEF FInv
<1>4. CASE Tick
  BY <1>4, OlderNone DEF Tick, FInv, Fresh, FreshAt, Early
<1>5. CASE PollStart
  BY <1>5 DEF PollStart, FInv, Fresh, FreshAt, Early
<1>6. CASE PollEnd \/ Crash
  BY <1>6 DEF PollEnd, Crash, Idle, Nobody, FInv, Fresh, FreshAt, Early
<1>7. CASE Restart \/ UNCHANGED vars
  BY <1>7 DEF Restart, vars, FInv, Fresh, FreshAt, Early
<1>8. ASSUME NEW h \in Holds, NEW p \in People, NEW r \in Responses, Answer(h, p, r)
      PROVE  Fresh'
  BY <1>8 DEF Answer, FInv, Fresh, FreshAt, Early
<1> QED
  BY <1>1, <1>2, <1>3, <1>4, <1>5, <1>6, <1>7, <1>8 DEF Next, DaemonStep

LEMMA FInvInit == Init => FInv
<1> SUFFICES ASSUME Init PROVE FInv
  OBVIOUS
<1>1. TInv
  BY InvInit DEF Init, TInv, Tracked, Resumable, Unread, Unmoved, Busy, Nobody
<1>2. Fresh
  BY DEF Init, Fresh, FreshAt, Nobody
<1> QED BY <1>1, <1>2 DEF FInv

LEMMA FInvStep == FInv /\ [Next]_vars => FInv'
  BY InvStep, TrackedStep, FreshStep DEF FInv, TInv

LEMMA WithdrawnElsewhere ==
    ASSUME Withdrawn, NEW h, Elsewhere(h), WithdrawnAt(h)'
    PROVE  \A k \in Holds : WithdrawnAt(k)'
  BY DEF Withdrawn, WithdrawnAt, Elsewhere

LEMMA WithdrawnCommand ==
    ASSUME CInv, NEW h \in Holds, Command(h)
    PROVE  Withdrawn'
<1>1. /\ TypeOK /\ FreshAt(h) /\ WithdrawnAt(h) /\ Elsewhere(h)
      /\ Busy => ~Early(cur)
  BY CommandElsewhere DEF CInv, FInv, TInv, IInv, Sited, Fresh, FreshAt, Withdrawn
<1>2. UNCHANGED <<dpc, outcome, cur, commits>>
  BY DEF Command, CreateHold, RecordHold, CliRunStep, CliSkipStep, CliWalked, AddWatch,
         CancelHold, ForgetWatch, ForgetCoverage, CliDies
<1>3. WithdrawnAt(h)' /\ (exists'[h] => exists[h] \/ Early(h))
  <2>1. CASE CreateHold(h) \/ RecordHold(h) \/ CliSkipStep(h) \/ CliWalked(h)
    BY <1>1, <2>1
       DEF TypeOK, FreshAt, Early, WithdrawnAt, CreateHold, RecordHold, CliSkipStep, CliWalked
  <2>2. CASE CliRunStep(h)
    <3>1. cli'[h] = "forget" => ~exists'[h]
      BY <1>1, <2>2, PerformOne DEF TypeOK, CliRunStep
    <3>2. cli'[h] \in {"forget", "walk", "end"} /\ (exists'[h] => exists[h])
      BY <1>1, <2>2, PerformOne, FailedOne DEF TypeOK, CliRunStep
    <3> QED BY <1>1, <1>2, <2>2, <3>1, <3>2 DEF CliRunStep, WithdrawnAt
  <2>3. CASE AddWatch(h) \/ CancelHold(h) \/ ForgetWatch(h) \/ ForgetCoverage(h) \/ CliDies(h)
    BY <1>1, <2>3
       DEF TypeOK, WithdrawnAt, AddWatch, CancelHold, ForgetWatch, ForgetCoverage, CliDies
  <2> QED BY <2>1, <2>2, <2>3 DEF Command
<1>4. dpc' \in {"forget", "uncover"} => ~exists'[cur]
  <2>1. SUFFICES ASSUME dpc \in {"forget", "uncover"} PROVE ~exists'[cur]
    BY <1>2
  <2>2. Busy /\ cur \in Holds /\ ~exists[cur]
    BY <2>1 DEF CInv, FInv, TInv, IInv, Sited, Withdrawn, Busy
  <2>3. cur = h \/ exists'[cur] = exists[cur]
    BY <1>1, <2>2 DEF Elsewhere
  <2> QED BY <1>1, <1>3, <2>2, <2>3
<1>5. \A k \in Holds : WithdrawnAt(k)'
  BY <1>1, <1>3, WithdrawnElsewhere DEF CInv
<1> QED BY <1>2, <1>4, <1>5 DEF CInv, Withdrawn, Walking, Busy

LEMMA WithdrawnPoll ==
    ASSUME CInv, NEW h \in Holds, Poll(h)
    PROVE  Withdrawn'
<1>1. /\ TypeOK /\ WithdrawnAt(h) /\ Elsewhere(h)
      /\ ~Early(h) /\ UNCHANGED <<flow, cli, cliAt>>
  BY PollElsewhere, PollLate DEF CInv, FInv, TInv, IInv, Withdrawn
<1>2. UNCHANGED <<exists, commits>> /\ (covered'[h] = covered[h] \/ ~exists[h])
  BY <1>1 DEF TypeOK, Poll, PollUnreachable, PollPruned, PollDone, PollGone, PollPending,
         PollResume, PollElapsed, PollResolved, Advance, SetAside, Uncover
<1>3. \/ dpc' = "pass"
      \/ dpc' = "walk" /\ outcome' = NoOutcome
      \/ dpc' \in {"record", "commit"}
  BY DEF Poll, PollUnreachable, PollPruned, PollDone, PollGone, PollPending,
         PollResume, PollElapsed, PollResolved, Advance, SetAside
<1>4. WithdrawnAt(h)'
  BY <1>1, <1>2 DEF WithdrawnAt
<1>5. \A k \in Holds : WithdrawnAt(k)'
  BY <1>1, <1>4, WithdrawnElsewhere DEF CInv
<1> QED BY <1>3, <1>5 DEF Withdrawn, Walking, Busy, NoOutcome

LEMMA WithdrawnBranch ==
    ASSUME CInv, Branch
    PROVE  Withdrawn'
<1>1. PICK h \in Holds : h = cur
  BY BranchLate DEF CInv
<1>2. /\ TypeOK /\ WithdrawnAt(h) /\ Busy /\ ~Early(h) /\ UNCHANGED <<flow, cli, cliAt>>
      /\ Elsewhere(h)
      /\ dpc \in {"forget", "uncover"} => ~exists[h]
      /\ Walking /\ outcome = "declined" => \E c \in commits[h] : c[2] = "declined"
  BY <1>1, BranchElsewhere, BranchLate DEF CInv, FInv, TInv, IInv, Withdrawn, Elsewhere
<1>3. CASE CommitBranch
  <2>1. commits[h] \subseteq commits'[h]
    BY <1>1, <1>2, <1>3 DEF CommitBranch, TypeOK
  <2>2. outcome = "declined" => <<kept[h].step, outcome>> \in commits'[h]
    BY <1>1, <1>2, <1>3 DEF CommitBranch, TypeOK, NoOutcome
  <2>3. /\ UNCHANGED <<exists, covered, cur, outcome>> /\ dpc' = "walk"
    BY <1>3 DEF CommitBranch
  <2>4. WithdrawnAt(h)'
    BY <1>2, <2>1, <2>3 DEF WithdrawnAt
  <2>5. \A k \in Holds : WithdrawnAt(k)'
    BY <1>2, <2>4, WithdrawnElsewhere DEF CInv
  <2> QED BY <1>1, <2>2, <2>3, <2>5 DEF Withdrawn
<1>4. CASE ~CommitBranch
  <2>1. commits' = commits /\ (exists'[h] => exists[h])
    BY <1>1, <1>2, <1>4, PerformOne, FailedOne
       DEF Branch, RecordOutcome, WalkRunStep, WalkSkipStep, WalkFailStep,
           WalkForgetWatch, WalkForgetCoverage, WalkCheckpoint, WalkEnd, WalkGate,
           ReachGate, InviteNext, InviteFails, SetAttendees
  <2>2. covered'[h] = covered[h] \/ ~exists[h] \/ \E c \in commits[h] : c[2] = "declined"
    BY <1>1, <1>2, <1>4
       DEF Branch, RecordOutcome, WalkRunStep, WalkSkipStep, WalkFailStep,
           WalkForgetWatch, WalkForgetCoverage, WalkCheckpoint, WalkEnd, WalkGate,
           ReachGate, InviteNext, InviteFails, Walking
  <2>3. WithdrawnAt(h)'
    BY <1>2, <2>1, <2>2 DEF WithdrawnAt
  <2>4. \A k \in Holds : WithdrawnAt(k)'
    BY <1>2, <2>3, WithdrawnElsewhere DEF CInv
  <2>5. \/ dpc' \in {"pass", "record", "commit"}
        \/ /\ cur' = cur /\ outcome' = outcome /\ Walking
           /\ dpc' \in {"forget", "uncover"} => ~exists'[h]
    BY <1>1, <1>2, <1>4, PerformOne
       DEF Branch, RecordOutcome, WalkRunStep, WalkSkipStep, WalkFailStep,
           WalkForgetWatch, WalkForgetCoverage, WalkCheckpoint, WalkEnd, WalkGate,
           ReachGate, InviteNext, InviteFails, SetAside, Walking, Busy
  <2> QED BY <1>1, <1>2, <2>1, <2>4, <2>5 DEF Withdrawn, Walking, Busy
<1> QED BY <1>3, <1>4

LEMMA WithdrawnStep ==
    ASSUME CInv, [Next]_vars
    PROVE  Withdrawn'
<1>1. CASE Tick \/ PollStart \/ PollEnd \/ Crash \/ Restart \/ UNCHANGED vars
  BY <1>1 DEF Tick, PollStart, PollEnd, Crash, Restart, vars, CInv, Withdrawn, WithdrawnAt,
              Walking, Busy
<1>2. ASSUME NEW h \in Holds, NEW p \in People, NEW r \in Responses, Answer(h, p, r)
      PROVE  Withdrawn'
  BY <1>2 DEF Answer, CInv, Withdrawn, WithdrawnAt, Walking, Busy
<1> QED
  BY <1>1, <1>2, WithdrawnCommand, WithdrawnPoll, WithdrawnBranch DEF Next, DaemonStep

\* An absence leaves the ledger only when it is off the calendar, or when the
\* daemon acted on a decline, however the commands and the daemon interleave.
THEOREM CoverageIsKept == Spec => []CoverageKept
<1>1. Init => CInv
  BY FInvInit DEF Init, CInv, Withdrawn, WithdrawnAt, Walking, Busy
<1>2. CInv /\ [Next]_vars => CInv'
  BY FInvStep, WithdrawnStep DEF CInv
<1>3. CInv => CoverageKept
  BY DEF CInv, Withdrawn, WithdrawnAt, CoverageKept
<1> QED BY <1>1, <1>2, <1>3, PTL DEF Spec

-----------------------------------------------------------------------------
(* Approvals.  They need that an invitation the hold is there for does not *)
(* fail, and that the run command stops at the approve step whose approver *)
(* it has invited: no step before the first approve of the list jumps past *)
(* it.                                                                     *)

InListOrder(w) ==
    Has(w, "approve") =>
        \A i \in 0 .. (FirstApprove(w) - 1) : \A j \in JumpTargets(w, i) : j <= FirstApprove(w)

Orderly == ~InviteMayFail /\ \A w \in Loaded : InListOrder(w)

\* Whom an item of workflow w waits for.
Asking(w, item) == IF item.approver # NoOne THEN item.approver ELSE FirstApprover(w)

\* An item at a gate waits for the approver of that gate, who was invited.
Asked(w, item, invited) ==
    item # NoItem /\ w[item.step].verb = "approve" =>
        /\ Asking(w, item) = ApproverOf(w[item.step])
        /\ Asking(w, item) \in invited

\* The invited include the first approver and whoever an item of the run asks.
Includes(invited, h) ==
    /\ Invited(flow[h]) \subseteq invited
    /\ Asked(flow[h], watches[h], invited)
    /\ Asked(flow[h], kept[h], invited)

\* The run command has not gone past the first approve.
Listed(w, i) == i # Stop /\ Has(w, "approve") => i <= FirstApprove(w)

ApprovedAt(h) ==
    /\ \A c \in commits[h] : c[2] = "accepted" => ApproverOf(flow[h][c[1]]) \in saidYes[h]
    /\ \A p \in People : resp[h][p] = "accepted" => p \in saidYes[h]
    /\ exists[h] => Includes(att[h], h)
    /\ cli[h] \in {"walk", "gate"} => Listed(flow[h], cliAt[h])

Approved ==
    /\ \A h \in Holds : ApprovedAt(h)
    /\ Busy /\ exists[cur] => Includes(copy, cur)
    /\ dpc \in {"record", "commit"} /\ outcome = "accepted"
          => ApproverOf(flow[cur][kept[cur].step]) \in saidYes[cur]

AInv == FInv /\ Approved

LEMMA AskedMore ==
    ASSUME NEW w, NEW item, NEW S, NEW T, Asked(w, item, S), S \subseteq T
    PROVE  Asked(w, item, T)
  BY DEF Asked

LEMMA AskedNone ==
    ASSUME NEW w, NEW S
    PROVE  Asked(w, NoItem, S)
  BY DEF Asked

\* What an item asks depends on its step and its approver only.
LEMMA AskedSame ==
    ASSUME NEW w, NEW S, NEW item, NEW other, Asked(w, item, S), item # NoItem,
           other.step = item.step, other.approver = item.approver
    PROVE  Asked(w, other, S)
  BY DEF Asked, Asking

LEMMA LoadedGates ==
    ASSUME NEW w \in Loaded
    PROVE  /\ StepsWellFormed(w) /\ CreatorLeads(w) /\ LaterApproversNamed(w)
           /\ IsWorkflow(w)
           /\ w[0].verb # "approve"
           /\ Has(w, "approve") =>
                /\ FirstApprove(w) \in DOMAIN w
                /\ w[FirstApprove(w)].verb = "approve"
                /\ \A j \in DOMAIN w : w[j].verb = "approve" => FirstApprove(w) <= j
<1>1. StepsWellFormed(w) /\ CreatorLeads(w) /\ LaterApproversNamed(w) /\ IsWorkflow(w)
  BY DaemonAssumption DEF Loaded, Validate, WellFormed
<1>2. w[0].verb # "approve"
  BY <1>1, WorkflowShape DEF CreatorLeads, Creates, Creators
<1> QED BY <1>1, <1>2, FirstApproveType

\* Before the first approve every move of the run command leads up to it.
LEMMA ListedMove ==
    ASSUME Orderly, NEW w \in Loaded, NEW i \in DOMAIN w, Listed(w, i),
           w[i].verb # "approve"
    PROVE  Listed(w, NextStep(w, i, NoOutcome))
<1> SUFFICES ASSUME NextStep(w, i, NoOutcome) # Stop, Has(w, "approve")
             PROVE  NextStep(w, i, NoOutcome) <= FirstApprove(w)
  BY DEF Listed
<1>1. NextStep(w, i, NoOutcome) \in JumpTargets(w, i)
  BY DEF JumpTargets
<1>2. /\ i \in Indices /\ FirstApprove(w) \in Indices /\ i # Stop
      /\ w[FirstApprove(w)].verb = "approve"
  BY LoadedGates, LoadedShape, StepsAssumption DEF Indices, Stop
<1>3. i \in 0 .. (FirstApprove(w) - 1)
  BY <1>2, StepsAssumption DEF Listed, Indices
<1> QED BY <1>1, <1>3 DEF Orderly, InListOrder

LEMMA SkippedIsPlain ==
    ASSUME NEW w \in Loaded, NEW i \in DOMAIN w, NEW n, NEW today, ~Allows(w[i].when, n, today)
    PROVE  w[i].verb # "approve" /\ w[i].when # Unguarded
<1>1. StepsWellFormed(w)
  BY LoadedGates
<1> QED BY <1>1 DEF StepsWellFormed, Allows, Waits, Waiters, Unguarded

LEMMA CalendarOne ==
    ASSUME TypeOK, NEW h \in Holds, NEW i, NEW known \in SUBSET People,
           Perform(h, i, known) \/ Refused(h, i, known) \/ ReplyLost(h, i, known)
    PROVE  /\ att'[h] = att[h] \/ att'[h] = known \cup Team
           /\ \A p \in People : resp'[h][p] = "accepted" => resp[h][p] = "accepted"
<1>1. ASSUME Perform(h, i, known)
      PROVE  /\ att'[h] = att[h] \/ att'[h] = known \cup Team
             /\ \A p \in People : resp'[h][p] = "accepted" => resp[h][p] = "accepted"
  <2>1. CASE SetAttendees(h, known \cup Team)
    BY <2>1 DEF TypeOK, SetAttendees
  <2>2. CASE UNCHANGED <<att, resp>>
    BY <2>2
  <2> QED BY <1>1, <2>1, <2>2 DEF Perform
<1>2. ASSUME Refused(h, i, known) PROVE UNCHANGED <<att, resp>>
  BY <1>2 DEF Refused
<1> QED BY <1>1, <1>2 DEF ReplyLost

LEMMA ApprovedElsewhere ==
    ASSUME TypeOK, Approved, NEW h, Elsewhere(h), flow' = flow, ApprovedAt(h)'
    PROVE  \A k \in Holds : ApprovedAt(k)'
  BY DEF Approved, ApprovedAt, Includes, Elsewhere

\* The steps of the run command before the run is watched.
LEMMA ApprovedEarly ==
    ASSUME Orderly, AInv, NEW h \in Holds,
           CreateHold(h) \/ RecordHold(h) \/ CliRunStep(h) \/ CliSkipStep(h) \/ CliWalked(h)
    PROVE  ApprovedAt(h)' /\ UNCHANGED <<flow, dpc, cur, copy, kept, outcome>>
<1>1. /\ TypeOK /\ ApprovedAt(h) /\ flow[h] \in Loaded /\ Early(h)
      /\ watches[h] = NoItem /\ kept[h] = NoItem
  BY DEF AInv, FInv, TInv, IInv, Sited, Approved, Fresh, FreshAt, Early, CreateHold,
         RecordHold, CliRunStep, CliSkipStep, CliWalked
<1>2. /\ UNCHANGED <<flow, dpc, cur, copy, kept, outcome, watches, commits, saidYes>>
  BY DEF CreateHold, RecordHold, CliRunStep, CliSkipStep, CliWalked
<1>3. \A invited : Includes(invited, h)' <=> Invited(flow[h]) \subseteq invited
  BY <1>1, <1>2 DEF Includes, Asked
<1>4. 0 \in DOMAIN flow[h] /\ flow[h][0].verb # "approve"
  BY <1>1, LoadedShape, LoadedGates
<1>5. CASE CreateHold(h)
  <2>1. att'[h] = Invited(flow[h]) /\ cli'[h] = "made" /\ resp' = resp
    BY <1>1, <1>5 DEF TypeOK, CreateHold
  <2>2. Includes(att[h], h)'
    BY <1>1, <1>2, <2>1 DEF Includes, Asked
  <2> QED BY <1>1, <1>2, <2>1, <2>2 DEF ApprovedAt
<1>6. CASE RecordHold(h)
  <2>1. /\ cliAt'[h] = NextStep(flow[h], 0, NoOutcome)
        /\ UNCHANGED <<exists, att, resp>>
    BY <1>1, <1>6 DEF TypeOK, RecordHold
  <2>2. Listed(flow[h], 0)
    BY <1>1, <1>4, LoadedGates, LoadedShape, StepsAssumption DEF Listed, Indices
  <2>3. Listed(flow[h], cliAt'[h])
    BY <1>1, <1>4, <2>1, <2>2, ListedMove
  <2> QED BY <1>1, <1>2, <2>1, <2>3 DEF ApprovedAt, Includes
<1>7. CASE CliRunStep(h)
  <2> DEFINE i == cliAt[h]
  <2>1. /\ i \in DOMAIN flow[h] /\ flow[h][i].verb # "approve" /\ Listed(flow[h], i)
        /\ Invited(flow[h]) \in SUBSET People
    BY <1>1, <1>7, InvitedType
       DEF AInv, FInv, TInv, IInv, Sited, Position, CliRunStep, MayRun, Effects, ApprovedAt
  <2>2. /\ att'[h] = att[h] \/ att'[h] = Invited(flow[h]) \cup Team
        /\ \A p \in People : resp'[h][p] = "accepted" => resp[h][p] = "accepted"
    BY <1>1, <1>7, <2>1, CalendarOne DEF CliRunStep
  <2>3. exists'[h] => exists[h]
    BY <1>1, <1>7, PerformOne, FailedOne DEF CliRunStep
  <2>4. \/ cli'[h] # "walk" /\ cli'[h] # "gate"
        \/ cliAt'[h] = NextStep(flow[h], i, NoOutcome)
    <3>1. \/ cli' = [cli EXCEPT ![h] = "end"]
          \/ /\ cliAt' = [cliAt EXCEPT ![h] = AfterStep(flow[h], i)]
             /\ cli' = [cli EXCEPT ![h] =
                               IF flow[h][i].verb = "cancel" THEN "forget" ELSE "walk"]
      BY <1>7 DEF CliRunStep
    <3>2. CASE cli' = [cli EXCEPT ![h] = "end"]
      BY <1>1, <3>2 DEF TypeOK
    <3>3. CASE /\ cliAt' = [cliAt EXCEPT ![h] = AfterStep(flow[h], i)]
               /\ cli' = [cli EXCEPT ![h] =
                               IF flow[h][i].verb = "cancel" THEN "forget" ELSE "walk"]
      BY <1>1, <3>3 DEF TypeOK, AfterStep
    <3> QED BY <3>1, <3>2, <3>3
  <2>5. cli'[h] \in {"walk", "gate"} => Listed(flow[h], cliAt'[h])
    BY <1>1, <2>1, <2>4, ListedMove
  <2>6. exists'[h] => Includes(att[h], h)'
    BY <1>1, <1>2, <2>2, <2>3 DEF ApprovedAt, Includes, Asked
  <2> QED BY <1>1, <1>2, <2>2, <2>5, <2>6 DEF ApprovedAt
<1>8. CASE CliSkipStep(h)
  <2>1. cliAt[h] \in DOMAIN flow[h] /\ Listed(flow[h], cliAt[h])
    BY <1>1, <1>8 DEF AInv, FInv, TInv, IInv, Sited, Position, CliSkipStep, MaySkip, ApprovedAt
  <2>2. flow[h][cliAt[h]].verb # "approve"
    BY <1>1, <1>8, <2>1, SkippedIsPlain DEF CliSkipStep, MaySkip
  <2>3. /\ cliAt'[h] = NextStep(flow[h], cliAt[h], NoOutcome)
        /\ UNCHANGED <<exists, att, resp>>
    BY <1>1, <1>8 DEF TypeOK, CliSkipStep
  <2>4. Listed(flow[h], cliAt'[h])
    BY <1>1, <2>1, <2>2, <2>3, ListedMove
  <2> QED BY <1>1, <1>2, <2>3, <2>4 DEF ApprovedAt, Includes
<1>9. CASE CliWalked(h)
  <2>1. UNCHANGED <<exists, att, resp, cliAt>> /\ cli[h] = "walk"
    BY <1>9 DEF CliWalked
  <2> QED BY <1>1, <1>2, <2>1 DEF ApprovedAt, Includes
<1> QED BY <1>2, <1>5, <1>6, <1>7, <1>8, <1>9

\* The item that a run is put on the list with asks the first approver.
LEMMA ApprovedWatch ==
    ASSUME AInv, NEW h \in Holds, AddWatch(h)
    PROVE  ApprovedAt(h)'
<1> DEFINE w == flow[h]
           i == cliAt[h]
<1>1. /\ TypeOK /\ ApprovedAt(h) /\ w \in Loaded /\ kept[h] = NoItem
      /\ i \in DOMAIN w /\ Listed(w, i) /\ i # Stop
  BY DEF AInv, FInv, TInv, IInv, Sited, Approved, ApprovedAt, Fresh, FreshAt, Early, AddWatch,
         Position
<1>2. /\ UNCHANGED <<flow, exists, att, resp, kept, commits, saidYes>> /\ cli'[h] = "end"
      /\ watches'[h] = [step |-> i, resume |-> 0, done |-> FALSE, age |-> 0,
            approver |-> IF w[i].verb = "approve" THEN FirstApprover(w) ELSE NoOne]
  BY <1>1 DEF TypeOK, AddWatch
<1>3. ASSUME w[i].verb = "approve"
      PROVE  /\ Has(w, "approve") /\ i = FirstApprove(w)
             /\ FirstApprover(w) = ApproverOf(w[i]) /\ FirstApprover(w) \in Invited(w)
             /\ FirstApprover(w) # NoOne
  <2>1. Has(w, "approve")
    BY <1>1, <1>3 DEF Has
  <2>2. FirstApprove(w) <= i /\ i <= FirstApprove(w)
    BY <1>1, <1>3, <2>1, LoadedGates DEF Listed
  <2>3. i \in Int /\ FirstApprove(w) \in Int
    BY <1>1, <2>1, LoadedGates, LoadedShape, StepsAssumption DEF Indices
  <2>4. i = FirstApprove(w)
    BY <2>2, <2>3
  <2>5. FirstApprover(w) # NoOne
    BY <1>1, <2>1, FirstApproverType, PeopleAssumption
  <2> QED BY <2>1, <2>4, <2>5 DEF FirstApprover, Invited
<1>4. exists[h] => Asked(w, watches'[h], att[h])
  BY <1>1, <1>2, <1>3 DEF ApprovedAt, Includes, Asked, Asking
<1> QED BY <1>1, <1>2, <1>4 DEF ApprovedAt, Includes, Asked

LEMMA ApprovedCommand ==
    ASSUME Orderly, AInv, NEW h \in Holds, Command(h)
    PROVE  Approved'
<1>1. /\ TypeOK /\ ApprovedAt(h) /\ Elsewhere(h)
      /\ Busy => cur \in Holds /\ ~Early(cur)
  BY CommandElsewhere DEF AInv, FInv, TInv, IInv, Sited, Fresh, FreshAt, Approved
<1>2. UNCHANGED <<flow, dpc, cur, copy, kept, outcome, saidYes>>
  BY DEF Command, CreateHold, RecordHold, CliRunStep, CliSkipStep, CliWalked, AddWatch,
         CancelHold, ForgetWatch, ForgetCoverage, CliDies
<1>3. ASSUME ~Early(h)
      PROVE  /\ ApprovedAt(h)'
             /\ exists'[h] => exists[h]
             /\ watches'[h] = watches[h] \/ watches'[h] = NoItem
  <2>1. /\ UNCHANGED <<att, resp, commits>>
        /\ exists'[h] => exists[h]
        /\ watches'[h] = watches[h] \/ watches'[h] = NoItem
        /\ cli'[h] \in {"forget", "uncover", "end"}
    BY <1>1, <1>3
       DEF TypeOK, Early, Command, CreateHold, RecordHold, CliRunStep, CliSkipStep, CliWalked,
           AddWatch, CancelHold, ForgetWatch, ForgetCoverage, CliDies
  <2> QED BY <1>1, <1>2, <2>1 DEF ApprovedAt, Includes, Asked
<1>4. ASSUME Early(h) PROVE ApprovedAt(h)'
  <2>1. CASE CliDies(h)
    BY <1>1, <2>1 DEF CliDies, TypeOK, ApprovedAt, Includes
  <2>2. CASE ~CliDies(h)
    BY <1>4, <2>2, ApprovedEarly, ApprovedWatch
       DEF Command, Early, CancelHold, ForgetWatch, ForgetCoverage
  <2> QED BY <2>1, <2>2
<1>5. \A k \in Holds : ApprovedAt(k)'
  BY <1>1, <1>2, <1>3, <1>4, ApprovedElsewhere DEF AInv
<1>6. ASSUME Busy, exists'[cur] PROVE Includes(copy, cur)'
  <2>1. cur # h => watches'[cur] = watches[cur] /\ exists'[cur] = exists[cur]
    BY <1>1, <1>6 DEF Elsewhere
  <2>2. exists[cur] /\ (watches'[cur] = watches[cur] \/ watches'[cur] = NoItem)
    BY <1>1, <1>3, <1>6, <2>1
  <2>3. Includes(copy, cur)
    BY <1>6, <2>2 DEF AInv, Approved
  <2> QED BY <1>2, <2>2, <2>3 DEF Includes, Asked
<1> QED BY <1>2, <1>5, <1>6 DEF AInv, Approved, Busy

LEMMA ApprovedPoll ==
    ASSUME AInv, NEW h \in Holds, Poll(h)
    PROVE  Approved'
<1>1. /\ TypeOK /\ ApprovedAt(h) /\ Elsewhere(h) /\ Polling(h) /\ kept[h] \in Item
      /\ kept[h] # NoItem /\ h # NoHold /\ UNCHANGED <<flow, cli, cliAt>>
  BY PollElsewhere, PollLate, NoItemIsNone, DaemonAssumption
     DEF AInv, FInv, TInv, IInv, Approved
<1>2. UNCHANGED <<exists, att, resp, watches, saidYes, commits>>
  BY DEF Poll, PollUnreachable, PollPruned, PollDone, PollGone, PollPending,
         PollResume, PollElapsed, PollResolved, Advance
<1>3. \/ (kept'[h] = kept[h] \/ kept'[h] = NoItem) /\ dpc' = "pass"
      \/ /\ exists[h] /\ kept' = kept /\ cur' = h /\ copy' = att[h]
         /\ outcome' = "accepted" =>
               Resolved(h, kept[h], "accepted") /\ kept[h].step \in DOMAIN flow[h]
  BY <1>1 DEF TypeOK, AInv, FInv, TInv, IInv, Sited, OnFlow, Poll, PollUnreachable,
         PollPruned, PollDone, PollGone, PollPending, PollResume, PollElapsed, PollResolved,
         Advance, SetAside, Live, NoOutcome
<1>4. ApprovedAt(h)'
  <2>1. kept'[h] = kept[h] \/ kept'[h] = NoItem
    BY <1>3
  <2> QED BY <1>1, <1>2, <2>1 DEF ApprovedAt, Includes, Asked
<1>5. \A k \in Holds : ApprovedAt(k)'
  BY <1>1, <1>4, ApprovedElsewhere DEF AInv
<1>6. CASE dpc' = "pass"
  BY <1>5, <1>6 DEF Approved, Busy
<1>7. CASE /\ exists[h] /\ kept' = kept /\ cur' = h /\ copy' = att[h]
           /\ outcome' = "accepted" =>
                 Resolved(h, kept[h], "accepted") /\ kept[h].step \in DOMAIN flow[h]
  <2>1. Includes(att[h], h)
    BY <1>1, <1>7 DEF ApprovedAt
  <2>2. Includes(copy, cur)'
    BY <1>1, <1>2, <1>7, <2>1 DEF Includes
  <2>3. outcome' = "accepted" => ApproverOf(flow[h][kept[h].step]) \in saidYes[h]
    <3>1. SUFFICES ASSUME Resolved(h, kept[h], "accepted") /\ kept[h].step \in DOMAIN flow[h]
                   PROVE  ApproverOf(flow[h][kept[h].step]) \in saidYes[h]
      BY <1>7
    <3>2. flow[h][kept[h].step].verb = "approve" /\ GateResponse(h, kept[h]) = "accepted"
      BY <3>1 DEF Resolved
    <3>3. /\ Asking(flow[h], kept[h]) = ApproverOf(flow[h][kept[h].step])
          /\ Asking(flow[h], kept[h]) \in att[h] /\ att[h] \subseteq People
      BY <1>1, <2>1, <3>2 DEF Includes, Asked, TypeOK
    <3>4. resp[h][Asking(flow[h], kept[h])] = "accepted"
      BY <3>2, <3>3 DEF GateResponse, Asking
    <3> QED BY <1>1, <3>3, <3>4 DEF ApprovedAt
  <2> QED BY <1>1, <1>2, <1>5, <1>7, <2>2, <2>3 DEF Approved
<1> QED BY <1>3, <1>6, <1>7

\* The effect of a step of the branch on the calendar keeps who was invited.
LEMMA ApprovedEffect ==
    ASSUME AInv, NEW h \in Holds, h = cur, Busy,
           NEW i, Perform(h, i, copy) \/ Refused(h, i, copy) \/ ReplyLost(h, i, copy)
    PROVE  /\ exists'[h] => exists[h] /\ Includes(att'[h], h)
           /\ \A p \in People : resp'[h][p] = "accepted" => resp[h][p] = "accepted"
<1>1. TypeOK /\ ApprovedAt(h) /\ copy \in SUBSET People /\ (exists[h] => Includes(copy, h))
  BY DEF AInv, FInv, TInv, IInv, TypeOK, Approved
<1>2. /\ att'[h] = att[h] \/ att'[h] = copy \cup Team
      /\ \A p \in People : resp'[h][p] = "accepted" => resp[h][p] = "accepted"
  BY <1>1, CalendarOne
<1>3. exists'[h] => exists[h]
  BY <1>1, PerformOne, FailedOne
<1>4. exists[h] => Includes(copy \cup Team, h)
  BY <1>1, AskedMore DEF Includes
<1> QED BY <1>1, <1>2, <1>3, <1>4 DEF ApprovedAt

\* Writing the progress of the run at hand, or taking it off the list.
LEMMA ApprovedWrite ==
    ASSUME AInv, NEW h \in Holds, h = cur, Busy, NEW invited, Includes(invited, h),
           NEW item, NEW next,
           item = watches[h] \/ item = NoItem \/ item = Checkpointed(kept[h], next)
    PROVE  Asked(flow[h], item, invited)
<1>1. kept[h] \in Item /\ kept[h] # NoItem
  BY NoItemIsNone DEF AInv, FInv, TInv, IInv, TypeOK, Sited
<1>2. Asked(flow[h], kept[h], invited) /\ Asked(flow[h], watches[h], invited)
  BY DEF Includes
<1>3. /\ Checkpointed(kept[h], next).step = kept[h].step
      /\ Checkpointed(kept[h], next).approver = kept[h].approver
  BY <1>1 DEF Checkpointed, Item
<1> QED BY <1>1, <1>2, <1>3, AskedNone, AskedSame

\* The branch while the daemon goes on with it.
LEMMA ApprovedOn ==
    ASSUME AInv,
           \/ RecordOutcome \/ CommitBranch \/ WalkRunStep \/ WalkSkipStep \/ WalkForgetWatch
           \/ WalkForgetCoverage \/ WalkCheckpoint \/ WalkGate
    PROVE  Approved'
<1>1. Branch
  BY DEF Branch
<1>2. PICK h \in Holds : h = cur
  BY <1>1, BranchLate DEF AInv
<1>3. /\ TypeOK /\ ApprovedAt(h) /\ Elsewhere(h) /\ Busy /\ ~Early(h)
      /\ UNCHANGED <<flow, cli, cliAt>>
      /\ exists[h] => Includes(copy, h)
  BY <1>1, <1>2, BranchElsewhere, BranchLate DEF AInv, FInv, TInv, IInv, Approved, Elsewhere
<1>4. UNCHANGED <<kept, cur, copy, outcome, saidYes>>
  BY DEF RecordOutcome, CommitBranch, WalkRunStep, WalkSkipStep, WalkForgetWatch,
         WalkForgetCoverage, WalkCheckpoint, WalkGate
<1>5. /\ exists'[h] => exists[h] /\ Includes(att'[h], h)
      /\ \A p \in People : resp'[h][p] = "accepted" => resp[h][p] = "accepted"
  <2>1. CASE WalkRunStep
    BY <1>2, <1>3, <2>1, ApprovedEffect DEF WalkRunStep
  <2>2. CASE ~WalkRunStep
    <3>1. UNCHANGED <<exists, att, resp>>
      BY <2>2 DEF RecordOutcome, CommitBranch, WalkSkipStep, WalkForgetWatch,
                  WalkForgetCoverage, WalkCheckpoint, WalkGate
    <3> QED BY <1>3, <3>1 DEF ApprovedAt
  <2> QED BY <2>1, <2>2
<1>6. PICK next : \/ watches'[h] = watches[h] \/ watches'[h] = NoItem
                  \/ watches'[h] = Checkpointed(kept[h], next)
  <2>1. CASE CommitBranch \/ WalkCheckpoint
    <3>1. \/ watches' = watches
          \/ watches' = [watches EXCEPT ![cur] = Checkpointed(kept[cur], at)]
          \/ watches' = [watches EXCEPT ![cur] =
                             Checkpointed(kept[cur], AfterStep(flow[cur], at))]
      BY <2>1 DEF CommitBranch, WalkCheckpoint, WriteCheckpoint
    <3>2. \/ watches'[h] = watches[h]
          \/ watches'[h] = Checkpointed(kept[h], at)
          \/ watches'[h] = Checkpointed(kept[h], AfterStep(flow[h], at))
      BY <1>2, <1>3, <3>1 DEF TypeOK
    <3> QED BY <3>2
  <2>2. CASE WalkForgetWatch
    BY <1>2, <1>3, <2>2 DEF WalkForgetWatch, TypeOK
  <2> QED
    BY <2>1, <2>2 DEF RecordOutcome, WalkRunStep, WalkSkipStep, WalkForgetCoverage, WalkGate
<1>7. \A invited : Includes(invited, h) => Includes(invited, h)'
  <2> TAKE invited
  <2> HAVE Includes(invited, h)
  <2>1. Asked(flow[h], watches'[h], invited)
    BY <1>2, <1>3, <1>6, ApprovedWrite
  <2> QED BY <1>3, <1>4, <2>1 DEF Includes
<1>8. exists'[h] => Includes(att[h], h)' /\ Includes(copy, h)'
  <2> SUFFICES ASSUME exists'[h] PROVE Includes(att[h], h)' /\ Includes(copy, h)'
    OBVIOUS
  <2>1. PICK now : now = att'[h]
    OBVIOUS
  <2>2. PICK then : then = copy
    OBVIOUS
  <2>3. Includes(now, h)' /\ Includes(then, h)'
    BY <1>3, <1>5, <1>7, <2>1, <2>2
  <2> QED BY <1>4, <2>1, <2>2, <2>3 DEF Includes
<1>9. \A c \in commits'[h] : c[2] = "accepted" => ApproverOf(flow[h][c[1]]) \in saidYes[h]
  <2>1. CASE commits' = commits
    BY <1>3, <2>1 DEF ApprovedAt
  <2>2. CASE CommitBranch
    <3>1. \A c \in commits'[h] : c \in commits[h] \/ c = <<kept[h].step, outcome>>
      BY <1>2, <1>3, <2>2 DEF TypeOK, CommitBranch
    <3>2. outcome = "accepted" => ApproverOf(flow[h][kept[h].step]) \in saidYes[h]
      BY <1>2, <2>2 DEF AInv, Approved, CommitBranch
    <3> QED BY <1>3, <3>1, <3>2 DEF ApprovedAt
  <2> QED BY <2>1, <2>2 DEF RecordOutcome, WalkRunStep, WalkSkipStep, WalkForgetWatch,
                            WalkForgetCoverage, WalkCheckpoint, WalkGate
<1>10. ApprovedAt(h)'
  BY <1>3, <1>4, <1>5, <1>8, <1>9 DEF ApprovedAt, Early
<1>11. \A k \in Holds : ApprovedAt(k)'
  BY <1>3, <1>10, ApprovedElsewhere DEF AInv
<1>12. (Busy /\ exists[cur] => Includes(copy, cur))'
  BY <1>2, <1>4, <1>8 DEF Includes
<1>13. dpc' \in {"record", "commit"} => dpc \in {"record", "commit"}
  BY DEF RecordOutcome, CommitBranch, WalkRunStep, WalkSkipStep, WalkForgetWatch,
         WalkForgetCoverage, WalkCheckpoint, WalkGate
<1> QED BY <1>3, <1>4, <1>11, <1>12, <1>13 DEF AInv, Approved

\* The branch where it sets the run aside: at a step that failed, at its end, or
\* at the next gate, whose approver it has asked.
LEMMA ApprovedAside ==
    ASSUME Orderly, AInv,
           WalkFailStep \/ WalkEnd \/ ReachGate \/ InviteNext \/ InviteFails
    PROVE  Approved'
<1>1. Branch
  BY DEF Branch
<1>2. PICK h \in Holds : h = cur
  BY <1>1, BranchLate DEF AInv
<1>3. /\ TypeOK /\ ApprovedAt(h) /\ Elsewhere(h) /\ Busy /\ ~Early(h)
      /\ UNCHANGED <<flow, cli, cliAt>>
      /\ exists[h] => Includes(copy, h)
      /\ kept[h] \in Item /\ kept[h] # NoItem
  BY <1>1, <1>2, BranchElsewhere, BranchLate, NoItemIsNone
     DEF AInv, FInv, TInv, IInv, Approved, Elsewhere
<1>4. dpc' = "pass" /\ UNCHANGED <<watches, commits, saidYes>>
  BY DEF WalkFailStep, WalkEnd, ReachGate, InviteNext, InviteFails, SetAside
<1> DEFINE s == flow[h][at]
<1>5. \/ /\ exists'[h] => exists[h] /\ Includes(att'[h], h)
         /\ \A p \in People : resp'[h][p] = "accepted" => resp[h][p] = "accepted"
         /\ kept'[h] = NoItem \/ kept'[h] = [kept[h] EXCEPT !.resume = at]
      \/ ReachGate \/ InviteNext \/ InviteFails
  <2>1. CASE WalkFailStep
    <3>1. kept'[h] = [kept[h] EXCEPT !.resume = at]
      BY <1>2, <1>3, <2>1 DEF WalkFailStep, SetAside, TypeOK
    <3> QED BY <1>2, <1>3, <2>1, <3>1, ApprovedEffect DEF WalkFailStep
  <2>2. CASE WalkEnd
    BY <1>2, <1>3, <2>2 DEF WalkEnd, SetAside, TypeOK, ApprovedAt
  <2> QED BY <2>1, <2>2
<1>6. (\A p \in People : resp'[h][p] = "accepted" => resp[h][p] = "accepted")
      /\ (exists'[h] => Includes(att[h], h)')
  <2>1. CASE /\ exists'[h] => exists[h] /\ Includes(att'[h], h)
             /\ \A p \in People : resp'[h][p] = "accepted" => resp[h][p] = "accepted"
             /\ kept'[h] = NoItem \/ kept'[h] = [kept[h] EXCEPT !.resume = at]
    <3>1. /\ [kept[h] EXCEPT !.resume = at].step = kept[h].step
          /\ [kept[h] EXCEPT !.resume = at].approver = kept[h].approver
      BY <1>3 DEF Item
    <3>2. exists'[h] => Asked(flow[h], kept'[h], att'[h])
      BY <1>3, <2>1, <3>1, AskedNone, AskedSame DEF Includes
    <3> QED BY <1>3, <1>4, <2>1, <3>2 DEF Includes
  <2>2. CASE ReachGate
    <3>1. /\ kept'[h] = AtGate(NoOne) /\ UNCHANGED <<exists, att, resp>>
          /\ ~NamesApprover(s) /\ at \in DOMAIN flow[h] /\ flow[h] \in Loaded
      BY <1>2, <1>3, <2>2, AtGateType, PeopleAssumption
         DEF ReachGate, SetAside, TypeOK, AInv, FInv, TInv, IInv, Sited
    <3>2. AtGate(NoOne).step = at /\ AtGate(NoOne).approver = NoOne
      BY <1>2, <1>3 DEF AtGate, Item
    <3>3. ASSUME s.verb = "approve"
          PROVE  /\ FirstApprover(flow[h]) = ApproverOf(s)
                 /\ FirstApprover(flow[h]) \in Invited(flow[h])
      <4>1. Has(flow[h], "approve") /\ s.approver = NoOne
        BY <3>1, <3>3 DEF Has, NamesApprover
      <4>2. /\ FirstApprove(flow[h]) \in DOMAIN flow[h]
            /\ flow[h][FirstApprove(flow[h])].verb = "approve"
            /\ FirstApprove(flow[h]) <= at
            /\ LaterApproversNamed(flow[h])
        BY <3>1, <3>3, <4>1, LoadedGates
      <4>3. at \in Int /\ FirstApprove(flow[h]) \in Int
        BY <3>1, <4>2, LoadedShape, StepsAssumption DEF Indices
      <4>4. at = FirstApprove(flow[h])
        BY <3>1, <3>3, <4>1, <4>2, <4>3 DEF LaterApproversNamed
      <4> QED BY <4>1, <4>4 DEF FirstApprover, Invited
    <3>4. exists[h] => Asked(flow[h], kept'[h], att[h])
      BY <1>3, <3>1, <3>2, <3>3 DEF ApprovedAt, Includes, Asked, Asking
    <3> QED BY <1>3, <1>4, <3>1, <3>4 DEF Includes, ApprovedAt
  <2>3. CASE InviteNext
    <3>1. /\ kept'[h] = AtGate(s.approver) /\ exists[h]
          /\ SetAttendees(h, copy \cup {s.approver}) /\ NamesApprover(s)
      BY <1>2, <1>3, <2>3 DEF InviteNext, SetAside, TypeOK
    <3>2. AtGate(s.approver).step = at /\ AtGate(s.approver).approver = s.approver
      BY <1>2, <1>3 DEF AtGate, Item
    <3>3. /\ att'[h] = copy \cup {s.approver}
          /\ \A p \in People : resp'[h][p] = "accepted" => resp[h][p] = "accepted"
      BY <1>3, <3>1 DEF SetAttendees, TypeOK
    <3>4. Asked(flow[h], kept'[h], att'[h])
      BY <3>1, <3>2, <3>3 DEF Asked, Asking, NamesApprover, ApproverOf
    <3>5. Asked(flow[h], watches[h], att'[h]) /\ Invited(flow[h]) \subseteq att'[h]
      BY <1>3, <3>1, <3>3, AskedMore DEF Includes
    <3> QED BY <1>3, <1>4, <3>3, <3>4, <3>5 DEF Includes
  <2>4. CASE InviteFails
    <3>1. ~exists[h] /\ UNCHANGED <<exists, resp>>
      BY <1>2, <2>4 DEF InviteFails, Orderly
    <3> QED BY <3>1
  <2> QED BY <1>5, <2>1, <2>2, <2>3, <2>4
<1>7. ApprovedAt(h)'
  BY <1>3, <1>4, <1>6 DEF ApprovedAt, Early
<1>8. \A k \in Holds : ApprovedAt(k)'
  BY <1>3, <1>7, ApprovedElsewhere DEF AInv
<1> QED BY <1>4, <1>8 DEF Approved, Busy

LEMMA OlderAsked ==
    ASSUME NEW list \in [Holds -> Item \cup {NoItem}], NEW h \in Holds, NEW w, NEW invited,
           Asked(w, list[h], invited)
    PROVE  Asked(w, Older(list)[h], invited)
<1>1. CASE list[h] = NoItem \/ list[h].age = MaxAge
  BY <1>1 DEF Older
<1>2. CASE list[h] # NoItem /\ list[h].age # MaxAge
  <2>1. list[h] \in Item /\ Older(list)[h] = [list[h] EXCEPT !.age = list[h].age + 1]
    BY <1>2 DEF Older
  <2>2. Older(list)[h].step = list[h].step /\ Older(list)[h].approver = list[h].approver
    BY <2>1 DEF Item
  <2> QED BY <1>2, <2>2, AskedSame
<1> QED BY <1>1, <1>2

LEMMA ApprovedTick ==
    ASSUME AInv, Tick
    PROVE  Approved'
<1>1. /\ TypeOK /\ watches' = Older(watches) /\ kept' = Older(kept)
      /\ UNCHANGED <<flow, exists, att, resp, cli, cliAt, dpc, cur, copy, outcome, saidYes,
                     commits>>
      /\ Busy => cur \in Holds /\ kept[cur] # NoItem
  BY DEF AInv, FInv, TInv, IInv, Tick, Sited
<1>2. ASSUME NEW h \in Holds, NEW invited, Includes(invited, h) PROVE Includes(invited, h)'
  <2>1. Asked(flow[h], watches'[h], invited) /\ Asked(flow[h], kept'[h], invited)
    BY <1>1, <1>2, OlderAsked DEF TypeOK, Includes
  <2> QED BY <1>1, <1>2, <2>1 DEF Includes
<1>3. ASSUME NEW h \in Holds PROVE ApprovedAt(h)'
  <2>1. PICK invited : invited = att[h]
    OBVIOUS
  <2>2. exists[h] => Includes(invited, h)'
    BY <1>2, <2>1 DEF AInv, Approved, ApprovedAt
  <2>3. exists'[h] => Includes(att[h], h)'
    BY <1>1, <2>1, <2>2 DEF Includes
  <2> QED BY <1>1, <2>3 DEF AInv, Approved, ApprovedAt
<1>4. ASSUME Busy, exists[cur] PROVE Includes(copy, cur)'
  <2>1. PICK invited : invited = copy
    OBVIOUS
  <2>2. PICK h \in Holds : h = cur
    BY <1>1, <1>4
  <2>3. Includes(invited, h)'
    BY <1>2, <1>4, <2>1, <2>2 DEF AInv, Approved
  <2> QED BY <1>1, <2>1, <2>2, <2>3 DEF Includes
<1>5. Busy => kept'[cur].step = kept[cur].step
  BY <1>1, OlderType DEF TypeOK
<1> QED BY <1>1, <1>3, <1>4, <1>5 DEF AInv, Approved, Busy

LEMMA ApprovedStep ==
    ASSUME Orderly, AInv, [Next]_vars
    PROVE  Approved'
<1>1. ASSUME NEW h \in Holds, NEW p \in People, NEW r \in Responses, Answer(h, p, r)
      PROVE  Approved'
  <2>1. /\ \A k \in Holds : saidYes[k] \subseteq saidYes'[k]
        /\ \A k \in Holds, q \in People :
              resp'[k][q] = "accepted" => resp[k][q] = "accepted" \/ q \in saidYes'[k]
    BY <1>1 DEF Answer, AInv, FInv, TInv, IInv, TypeOK
  <2>2. UNCHANGED <<flow, exists, att, watches, kept, cli, cliAt, dpc, cur, copy, outcome,
                    commits>>
    BY <1>1 DEF Answer
  <2>3. Busy => cur \in Holds
    BY DEF AInv, FInv, TInv, IInv, Sited
  <2>4. \A k \in Holds : ApprovedAt(k)'
    BY <2>1, <2>2 DEF AInv, Approved, ApprovedAt, Includes
  <2> QED BY <2>1, <2>2, <2>3, <2>4 DEF AInv, Approved, Includes, Busy
<1>2. CASE PollStart
  BY <1>2 DEF PollStart, AInv, Approved, ApprovedAt, Includes, Busy
<1>3. CASE PollEnd \/ Crash
  BY <1>3 DEF PollEnd, Crash, Idle, Nobody, AInv, Approved, ApprovedAt, Includes, Asked, Busy
<1>4. CASE Restart \/ UNCHANGED vars
  BY <1>4 DEF Restart, vars, AInv, Approved, ApprovedAt, Includes, Busy
<1>5. CASE Branch
  BY <1>5, ApprovedOn, ApprovedAside DEF Branch
<1> QED
  BY <1>1, <1>2, <1>3, <1>4, <1>5, ApprovedCommand, ApprovedPoll, ApprovedTick
     DEF Next, DaemonStep

LEMMA AInvInit == Init => AInv
<1> SUFFICES ASSUME Init PROVE AInv
  OBVIOUS
<1>1. FInv
  BY FInvInit
<1>2. Approved
  BY DEF Init, Approved, ApprovedAt, Busy
<1> QED BY <1>1, <1>2 DEF AInv

\* A branch runs past a gate as accepted only if the approver of that very gate
\* once accepted, as long as invitations do not fail and the steps before the
\* first approve lead up to it.
THEOREM ApprovalsAreReal ==
    ASSUME Orderly
    PROVE  Spec => []SignedOff
<1>1. AInv /\ [Next]_vars => AInv'
  BY FInvStep, ApprovedStep DEF AInv
<1>2. AInv => SignedOff
  BY DEF AInv, Approved, ApprovedAt, SignedOff
<1> QED BY <1>1, <1>2, AInvInit, PTL DEF Spec

\* Under the same conditions a run parked at an approve gate has asked the
\* approver of that gate, whatever crashes and failures led there.
THEOREM ApproversAreAsked ==
    ASSUME Orderly
    PROVE  Spec => []GateAsked
<1>1. AInv /\ [Next]_vars => AInv'
  BY FInvStep, ApprovedStep DEF AInv
<1>2. AInv => GateAsked
  BY DEF AInv, Approved, ApprovedAt, Includes, Asked, GateAsked
<1> QED BY <1>1, <1>2, AInvInit, PTL DEF Spec

-----------------------------------------------------------------------------
(* How far a run has come.                                                 *)

\* A ranking of the steps that every jump raises, which Acyclic promises.
Ranks(w, rank) ==
    /\ rank \in [DOMAIN w -> DOMAIN w]
    /\ \A i \in DOMAIN w : \A j \in JumpTargets(w, i) : rank[i] < rank[j]

Rank(w) == CHOOSE rank : Ranks(w, rank)

\* Where the run goes on from: as an item, the daemon and the command have it.
Pending(item) ==
    IF item = NoItem THEN {}
    ELSE IF item.done THEN {}
    ELSE IF item.resume > 0 THEN {item.resume} ELSE {item.step}

PassPoints(h) == IF Walking /\ h = cur THEN {at} \ {Stop} ELSE Pending(kept[h])

CliPoints(h) == IF cli[h] \in {"walk", "gate"} THEN {cliAt[h]} \ {Stop} ELSE {}

Points(h) == Pending(watches[h]) \cup PassPoints(h) \cup CliPoints(h)

\* The step at hand took effect and its checkpoint is due.
Settling == dpc \in {"forget", "uncover", "checkpoint"}

\* Gate g of workflow w opens with outcome o, and leads to step next.
Opens(w, g, o, next) ==
    \/ w[g].verb = "wait" /\ o = NoOutcome /\ next = NextStep(w, g, NoOutcome)
    \/ w[g].verb = "approve" /\ o \in GateOutcomes(w[g]) /\ next = GateTarget(w, g, o)

\* No run goes back to its first step, and the branch about to be committed to is
\* the one its gate opened to.
Onwards ==
    /\ \A h \in Holds : \A p \in Points(h) : Rank(flow[h])[0] < Rank(flow[h])[p]
    /\ dpc \in {"record", "commit"} => Opens(flow[cur], kept[cur].step, outcome, at)
    /\ Settling => at # Stop /\ flow[cur][at].verb \in Effects /\ at \in ran[cur]

MInv == FInv /\ Onwards

LEMMA RankExists ==
    ASSUME NEW w \in Loaded
    PROVE  /\ Ranks(w, Rank(w))
           /\ \A i \in DOMAIN w : i \in Int /\ Rank(w)[i] \in Int
<1>1. \E rank : Ranks(w, rank)
  BY DEF Loaded, Validate, Acyclic, Ranks
<1>2. Ranks(w, Rank(w))
  BY <1>1 DEF Rank
<1>3. DOMAIN w \subseteq Int
  BY LoadedShape, StepsAssumption DEF Indices
<1>4. Rank(w) \in [DOMAIN w -> DOMAIN w]
  BY <1>2 DEF Ranks
<1> QED BY <1>2, <1>3, <1>4

\* Walking on from a step that is no gate is a jump.
LEMMA StepRises ==
    ASSUME NEW w \in Loaded, NEW i \in DOMAIN w, w[i].verb # "approve"
    PROVE  /\ NextStep(w, i, NoOutcome) # Stop =>
                Rank(w)[i] < Rank(w)[NextStep(w, i, NoOutcome)]
           /\ AfterStep(w, i) # Stop => Rank(w)[i] < Rank(w)[AfterStep(w, i)]
<1>1. NextStep(w, i, NoOutcome) # Stop => NextStep(w, i, NoOutcome) \in JumpTargets(w, i)
  BY DEF JumpTargets
<1> QED BY <1>1, RankExists DEF Ranks, AfterStep

\* So is leaving a gate with an outcome branchPlan can report.
LEMMA GateRises ==
    ASSUME NEW w \in Loaded, NEW i \in DOMAIN w, w[i].verb = "approve", NEW o \in Outcomes,
           o = "expired" => w[i].timeout > 0, GateTarget(w, i, o) # Stop
    PROVE  Rank(w)[i] < Rank(w)[GateTarget(w, i, o)]
<1>1. GateTarget(w, i, o) = NextStep(w, i, o)
  BY DEF GateTarget, BranchStart, NextStep
<1>2. o = "expired" => w[i].timeout # NoTimeout
  BY DEF NoTimeout
<1>3. GateTarget(w, i, o) \in JumpTargets(w, i)
  BY <1>1, <1>2 DEF JumpTargets, Outcomes
<1> QED BY <1>3, RankExists DEF Ranks

LEMMA OpensOnward ==
    ASSUME NEW w \in Loaded, NEW g \in DOMAIN w, NEW o, NEW next, Opens(w, g, o, next),
           next # Stop
    PROVE  Rank(w)[g] < Rank(w)[next]
<1>1. CASE w[g].verb = "wait" /\ next = NextStep(w, g, NoOutcome)
  BY <1>1, StepRises
<1>2. CASE w[g].verb = "approve" /\ o \in GateOutcomes(w[g]) /\ next = GateTarget(w, g, o)
  <2>1. o \in Outcomes /\ (o = "expired" => w[g].timeout > 0)
    BY <1>2 DEF GateOutcomes, Outcomes
  <2> QED BY <1>2, <2>1, GateRises
<1> QED BY <1>1, <1>2 DEF Opens

LEMMA PendingType ==
    ASSUME NEW h \in Holds, NEW item \in Item \cup {NoItem}, OnFlow(h, item)
    PROVE  Pending(item) \subseteq DOMAIN flow[h]
  BY DEF Pending, OnFlow

LEMMA PointsType ==
    ASSUME IInv, NEW h \in Holds
    PROVE  Points(h) \subseteq DOMAIN flow[h]
<1>1. Pending(watches[h]) \subseteq DOMAIN flow[h] /\ Pending(kept[h]) \subseteq DOMAIN flow[h]
  BY PendingType DEF IInv, TypeOK, Sited
<1>2. CliPoints(h) \subseteq DOMAIN flow[h]
  BY DEF IInv, Sited, Position, CliPoints
<1>3. Walking /\ h = cur => {at} \ {Stop} \subseteq DOMAIN flow[h]
  BY DEF IInv, Sited, Position, Walking
<1> QED BY <1>1, <1>2, <1>3 DEF Points, PassPoints

LEMMA PointsInside == IInv => \A h \in Holds : Points(h) \subseteq DOMAIN flow[h]
  BY PointsType

LEMMA PointsInsideAfter == IInv' => (\A h \in Holds : Points(h) \subseteq DOMAIN flow[h])'
  BY PointsInside, PTL

LEMMA FlowStays ==
    ASSUME [Next]_vars
    PROVE  flow' = flow
<1>1. ASSUME NEW h \in Holds, Command(h) \/ Poll(h) PROVE flow' = flow
  BY <1>1 DEF Command, CreateHold, RecordHold, CliRunStep, CliSkipStep, CliWalked,
              AddWatch, CancelHold, ForgetWatch, ForgetCoverage, CliDies, Poll,
              PollUnreachable, PollPruned, PollDone, PollGone, PollPending, PollResume,
              PollElapsed, PollResolved, Advance, SetAside
<1>2. CASE Branch
  BY <1>2 DEF Branch, RecordOutcome, CommitBranch, WalkRunStep, WalkSkipStep,
         WalkFailStep, WalkForgetWatch, WalkForgetCoverage, WalkCheckpoint, WalkEnd, WalkGate,
         ReachGate, InviteNext, InviteFails, SetAside
<1>3. CASE Tick \/ PollStart \/ PollEnd \/ Restart \/ Crash \/ UNCHANGED vars
  BY <1>3 DEF Tick, PollStart, PollEnd, Restart, Crash, vars
<1>4. ASSUME NEW h \in Holds, NEW p \in People, NEW r \in Responses, Answer(h, p, r)
      PROVE  flow' = flow
  BY <1>4 DEF Answer
<1> QED BY <1>1, <1>2, <1>3, <1>4 DEF Next, DaemonStep

\* A step takes run h from p to next: past a step that took effect, a step with a
\* guard, or a gate that opened.
MovesTo(h, p, next) ==
    \/ flow[h][p].verb \in Effects /\ p \in ran'[h] /\ next = AfterStep(flow[h], p)
    \/ /\ flow[h][p].verb # "approve" /\ flow[h][p].when # Unguarded
       /\ next = NextStep(flow[h], p, NoOutcome)
    \/ \E o : /\ Opens(flow[h], p, o, next)
              /\ o # NoOutcome => <<p, o>> \in commits'[h]

\* The run is where it was, or where a move from there took it.
MovesOn(h) ==
    \A q \in Points(h)' : q \in Points(h) \/ \E p \in Points(h) : MovesTo(h, p, q)

\* So it leads on from where the run was, never back.
OnwardAt(h) ==
    \A q \in Points(h)' : \E p \in Points(h) : Rank(flow[h])[p] <= Rank(flow[h])[q]

\* The steps that took effect and that run h may come to once more.
UnsettledAt(h) ==
    {i \in ran[h] \cap DOMAIN flow[h] :
        \E p \in Points(h) : Rank(flow[h])[p] <= Rank(flow[h])[i]}

\* The first step a run goes to after the hold is recorded.
Starts(h) ==
    /\ Points(h)' \subseteq {NextStep(flow[h], 0, NoOutcome)} \ {Stop}
    /\ ran'[h] = {} /\ commits'[h] = {}

LEMMA SameMovesOn ==
    ASSUME NEW h, Points(h)' \subseteq Points(h)
    PROVE  MovesOn(h)
  BY DEF MovesOn

LEMMA NextMovesOn ==
    ASSUME NEW h, NEW p \in Points(h), NEW next, MovesTo(h, p, next),
           Points(h)' \subseteq Points(h) \cup ({next} \ {Stop})
    PROVE  MovesOn(h)
  BY DEF MovesOn

\* Other holds stay where they are.
LEMMA PointsElsewhere ==
    ASSUME NEW h, Elsewhere(h), flow' = flow,
           UNCHANGED <<dpc, cur, at>> \/ {cur, cur'} \subseteq {h, NoHold}
    PROVE  \A k \in Holds \ {h} : Points(k)' = Points(k)
<1> SUFFICES ASSUME NEW k \in Holds, k # h PROVE Points(k)' = Points(k)
  OBVIOUS
<1>1. k # NoHold
  BY DaemonAssumption
<1>2. Pending(watches[k])' = Pending(watches[k]) /\ Pending(kept[k])' = Pending(kept[k])
  BY DEF Elsewhere
<1>3. CliPoints(k)' = CliPoints(k)
  BY DEF Elsewhere, CliPoints
<1>4. PassPoints(k)' = PassPoints(k)
  BY <1>1, <1>2 DEF PassPoints, Walking, Busy
<1> QED BY <1>2, <1>3, <1>4 DEF Points

LEMMA CommandMoves ==
    ASSUME FInv, NEW h \in Holds, Command(h)
    PROVE  \A k \in Holds : MovesOn(k) \/ Starts(k)
<1>1. /\ IInv /\ TypeOK /\ Elsewhere(h) /\ flow[h] \in Loaded /\ FreshAt(h)
      /\ cliAt[h] \in Position(flow[h])
      /\ cli[h] = "gate" => cliAt[h] # Stop
  BY CommandElsewhere DEF FInv, TInv, IInv, Sited, Fresh
<1>2. UNCHANGED <<flow, dpc, cur, at, kept>>
  BY DEF Command, CreateHold, RecordHold, CliRunStep, CliSkipStep, CliWalked, AddWatch,
         CancelHold, ForgetWatch, ForgetCoverage, CliDies
<1>3. PassPoints(h)' = PassPoints(h)
  BY <1>2 DEF PassPoints, Walking, Busy
<1>4. \A k \in Holds \ {h} : MovesOn(k)
  BY <1>1, <1>2, PointsElsewhere, SameMovesOn
<1>6. CASE CreateHold(h) \/ CliWalked(h) \/ CancelHold(h) \/ ForgetCoverage(h) \/ CliDies(h)
  <2>1. watches' = watches
    BY <1>6 DEF CreateHold, CliWalked, CancelHold, ForgetCoverage, CliDies
  <2>2. CliPoints(h)' \subseteq CliPoints(h)
    BY <1>1, <1>6 DEF TypeOK, CliPoints, CreateHold, CliWalked, CancelHold, ForgetCoverage,
                      CliDies
  <2> QED BY <1>1, <1>3, <1>4, <2>1, <2>2, SameMovesOn DEF Points
<1>7. CASE ForgetWatch(h)
  <2>1. watches'[h] = NoItem /\ cli'[h] = "uncover"
    BY <1>1, <1>7 DEF TypeOK, ForgetWatch
  <2> QED BY <1>1, <1>3, <1>4, <2>1, SameMovesOn DEF Points, Pending, CliPoints
<1>8. CASE AddWatch(h)
  <2>1. /\ watches'[h] # NoItem /\ ~watches'[h].done
        /\ watches'[h].step = cliAt[h] /\ watches'[h].resume = 0
    <3> DEFINE item == [step |-> cliAt[h], resume |-> 0, done |-> FALSE, age |-> 0,
                        approver |-> IF flow[h][cliAt[h]].verb = "approve"
                                     THEN FirstApprover(flow[h]) ELSE NoOne]
    <3>1. watches'[h] = item
      BY <1>1, <1>8 DEF TypeOK, AddWatch
    <3>2. item.step # Stop
      BY <1>1, <1>8 DEF AddWatch
    <3>3. item # NoItem
      BY <3>2 DEF NoItem
    <3> QED BY <3>1, <3>3
  <2>2. Pending(watches'[h]) = {cliAt[h]}
    BY <2>1 DEF Pending
  <2>3. cli[h] = "gate" /\ cli'[h] = "end" /\ cliAt[h] # Stop
    BY <1>1, <1>8 DEF TypeOK, AddWatch
  <2>4. Points(h)' \subseteq Points(h)
    BY <1>3, <2>2, <2>3 DEF Points, CliPoints
  <2> QED BY <1>1, <1>4, <2>4, SameMovesOn
<1>9. ASSUME cli[h] = "walk", watches' = watches, cliAt[h] \in DOMAIN flow[h], NEW next,
             CliPoints(h)' \subseteq {next} \ {Stop},
             CliPoints(h)' # {} => MovesTo(h, cliAt[h], next)
      PROVE  MovesOn(h)
  <2>1. cliAt[h] \in Points(h)
    <3>1. cliAt[h] # Stop
      BY <1>1, <1>9, LoadedShape, StepsAssumption DEF Indices, Stop
    <3> QED BY <3>1, <1>9 DEF Points, CliPoints
  <2>2. Pending(watches[h])' = Pending(watches[h])
    BY <1>9
  <2>3. CASE CliPoints(h)' = {}
    BY <1>3, <2>2, <2>3, SameMovesOn DEF Points
  <2>4. CASE MovesTo(h, cliAt[h], next)
    <3>1. Points(h)' \subseteq Points(h) \cup ({next} \ {Stop})
      BY <1>3, <1>9, <2>2 DEF Points
    <3> QED BY <2>1, <2>4, <3>1, NextMovesOn
  <2> QED BY <1>9, <2>3, <2>4
<1>10. CASE CliSkipStep(h)
  <2> DEFINE next == NextStep(flow[h], cliAt[h], NoOutcome)
  <2>1. /\ cliAt[h] \in DOMAIN flow[h] /\ flow[h][cliAt[h]].verb # "approve"
        /\ flow[h][cliAt[h]].when # Unguarded
    BY <1>1, <1>10, SkippedIsPlain DEF CliSkipStep, MaySkip, Position
  <2>2. CliPoints(h)' \subseteq {next} \ {Stop}
    BY <1>1, <1>10 DEF TypeOK, CliSkipStep, CliPoints
  <2>3. MovesTo(h, cliAt[h], next)
    BY <2>1 DEF MovesTo
  <2>4. MovesOn(h)
    BY <1>9, <1>10, <2>1, <2>2, <2>3 DEF CliSkipStep
  <2> QED BY <1>4, <2>4
<1>11. CASE CliRunStep(h)
  <2> DEFINE next == AfterStep(flow[h], cliAt[h])
  <2>1. cliAt[h] \in DOMAIN flow[h] /\ flow[h][cliAt[h]].verb \in Effects
    BY <1>1, <1>11 DEF CliRunStep, MayRun, Position
  <2>2. \/ Perform(h, cliAt[h], Invited(flow[h])) /\ cliAt'[h] = next
        \/ cli'[h] = "end"
    BY <1>1, <1>11 DEF TypeOK, CliRunStep
  <2>3. CliPoints(h)' \subseteq {next} \ {Stop}
    BY <2>2 DEF CliPoints
  <2>4. CliPoints(h)' # {} => MovesTo(h, cliAt[h], next)
    <3>1. CliPoints(h)' # {} => cliAt[h] \in ran'[h]
      BY <1>1, <2>2 DEF TypeOK, CliPoints, Perform
    <3> QED BY <2>1, <3>1 DEF MovesTo
  <2>5. MovesOn(h)
    BY <1>9, <1>11, <2>1, <2>3, <2>4 DEF CliRunStep
  <2> QED BY <1>4, <2>5
<1>12. CASE RecordHold(h)
  <2>1. watches'[h] = NoItem /\ kept[h] = NoItem /\ ran'[h] = {} /\ commits'[h] = {}
    BY <1>1, <1>12 DEF FreshAt, Early, RecordHold
  <2>2. ~(Walking /\ h = cur)
    BY <2>1 DEF FInv, TInv, IInv, Sited, Walking
  <2>3. PassPoints(h) = {}
    BY <2>1, <2>2 DEF PassPoints, Pending
  <2>4. CliPoints(h)' \subseteq {NextStep(flow[h], 0, NoOutcome)} \ {Stop}
    BY <1>1, <1>12 DEF TypeOK, RecordHold, CliPoints
  <2>5. Starts(h)
    BY <1>3, <2>1, <2>3, <2>4 DEF Starts, Points, Pending
  <2> QED BY <1>4, <2>5
<1> QED BY <1>6, <1>7, <1>8, <1>10, <1>11, <1>12 DEF Command

LEMMA PollMoves ==
    ASSUME FInv, NEW h \in Holds, Poll(h)
    PROVE  \A k \in Holds : MovesOn(k)
<1>1. /\ IInv /\ TypeOK /\ Elsewhere(h) /\ h # NoHold /\ cur = NoHold /\ ~Walking
      /\ UNCHANGED <<flow, watches, cli, cliAt>>
  <2>1. watches' = watches
    BY DEF Poll, PollUnreachable, PollPruned, PollDone, PollGone, PollPending,
           PollResume, PollElapsed, PollResolved, Advance
  <2> QED BY <2>1, PollElsewhere, PollLate, DaemonAssumption
          DEF FInv, TInv, IInv, Walking, Busy, Polling
<1>2. cur' \in {h, NoHold}
  BY DEF Poll, PollUnreachable, PollPruned, PollDone, PollGone, PollPending,
         PollResume, PollElapsed, PollResolved, Advance, SetAside
<1>3. \A k \in Holds \ {h} : MovesOn(k)
  BY <1>1, <1>2, PointsElsewhere, SameMovesOn
<1>4. PassPoints(h) = Pending(kept[h])
  BY <1>1 DEF PassPoints
<1>5. PassPoints(h)' \subseteq Pending(kept[h])
  <2>1. CASE PollUnreachable(h) \/ PollPruned(h) \/ PollDone(h) \/ PollGone(h)
             \/ PollPending(h)
    <3>1. /\ cur' = NoHold
          /\ kept' = [kept EXCEPT ![h] = kept[h]] \/ kept' = [kept EXCEPT ![h] = NoItem]
      BY <2>1 DEF PollUnreachable, PollPruned, PollDone, PollGone, PollPending, SetAside
    <3>2. kept'[h] = kept[h] \/ kept'[h] = NoItem
      BY <1>1, <3>1 DEF TypeOK
    <3>3. PassPoints(h)' = Pending(kept'[h])
      BY <1>1, <3>1 DEF PassPoints
    <3> QED BY <3>2, <3>3 DEF Pending
  <2>2. CASE PollResume(h)
    <3>1. /\ cur' = h /\ at' = kept[h].resume /\ dpc' = "walk"
          /\ kept[h].resume > 0 /\ ~kept[h].done /\ kept[h] # NoItem
      BY <2>2, PollLate, NoItemIsNone DEF PollResume, Advance, Live
    <3> QED BY <3>1 DEF PassPoints, Walking, Busy, Pending
  <2>3. CASE PollElapsed(h) \/ \E o \in Outcomes : PollResolved(h, o)
    <3>1. dpc' \in {"record", "commit"} /\ kept' = kept
      BY <2>3 DEF PollElapsed, PollResolved, Advance
    <3> QED BY <3>1 DEF PassPoints, Walking
  <2> QED BY <2>1, <2>2, <2>3 DEF Poll
<1>6. CliPoints(h)' = CliPoints(h) /\ Pending(watches[h])' = Pending(watches[h])
  BY <1>1 DEF CliPoints
<1>7. Points(h)' \subseteq Points(h)
  BY <1>4, <1>5, <1>6 DEF Points
<1> QED BY <1>1, <1>3, <1>7, SameMovesOn

\* What a checkpoint that is written makes the run go on from.
LEMMA PendingCheckpoint ==
    ASSUME NEW item \in Item, ~item.done, NEW next \in Indices \cup {Stop}, next # 0
    PROVE  Pending(Checkpointed(item, next)) = {next} \ {Stop}
<1>1. item.resume \in Indices /\ Checkpointed(item, next) # NoItem
  BY NoItemIsNone, CheckpointedType DEF Item
<1>2. CASE next = Stop
  <2>1. Checkpointed(item, next) = [item EXCEPT !.done = TRUE, !.resume = 0]
    BY <1>2 DEF Checkpointed
  <2>2. Checkpointed(item, next).done
    BY <2>1 DEF Item
  <2> QED BY <1>2, <2>2 DEF Pending
<1>3. CASE next \in Indices /\ next # Stop
  <2>1. Checkpointed(item, next) = [item EXCEPT !.resume = next]
    BY <1>3 DEF Checkpointed
  <2>2. Checkpointed(item, next).resume = next /\ ~Checkpointed(item, next).done
    BY <2>1 DEF Item
  <2>3. next > 0
    BY <1>3, StepsAssumption DEF Indices
  <2> QED BY <1>1, <1>3, <2>2, <2>3 DEF Pending
<1> QED BY <1>2, <1>3

\* Where the daemon stands in the run it is at.
LEMMA Standing ==
    ASSUME MInv, NEW h \in Holds, h = cur, Busy
    PROVE  /\ IInv /\ TypeOK /\ flow[h] \in Loaded
           /\ kept[h] \in Item /\ ~kept[h].done /\ at \in Position(flow[h])
           /\ Walking /\ at # Stop =>
                /\ at \in Points(h) /\ at \in DOMAIN flow[h] /\ at # 0
           /\ ~Walking =>
                /\ kept[h].step \in Points(h) /\ kept[h].step \in DOMAIN flow[h]
                /\ kept[h].resume = 0
<1>1. /\ IInv /\ TypeOK /\ flow[h] \in Loaded
      /\ kept[h] \in Item /\ ~kept[h].done /\ at \in Position(flow[h])
  BY DEF MInv, FInv, TInv, IInv, TypeOK, Sited, Tracked
<1>2. ASSUME Walking, at # Stop
      PROVE  at \in Points(h) /\ at \in DOMAIN flow[h] /\ at # 0
  <2>1. at \in Points(h) /\ at \in DOMAIN flow[h]
    BY <1>1, <1>2 DEF Points, PassPoints, Position
  <2>2. Rank(flow[h])[0] < Rank(flow[h])[at] /\ Rank(flow[h])[at] \in Int
    BY <1>1, <2>1, RankExists DEF MInv, Onwards
  <2> QED BY <2>1, <2>2
<1>3. ASSUME ~Walking
      PROVE  /\ kept[h].step \in Points(h) /\ kept[h].step \in DOMAIN flow[h]
             /\ kept[h].resume = 0
  <2>1. kept[h].resume = 0 /\ kept[h] # NoItem
    BY <1>1, <1>3, NoItemIsNone DEF MInv, FInv, TInv, Tracked, Walking
  <2>2. kept[h].step \in DOMAIN flow[h]
    BY <1>1, <2>1 DEF IInv, Sited, OnFlow
  <2> QED BY <1>1, <1>3, <2>1, <2>2 DEF Points, PassPoints, Pending
<1> QED BY <1>1, <1>2, <1>3

LEMMA BranchMoves ==
    ASSUME MInv, Branch
    PROVE  \A k \in Holds : MovesOn(k)
<1>1. PICK h \in Holds : h = cur
  BY BranchLate DEF MInv
<1>2. /\ Busy /\ IInv /\ TypeOK /\ flow[h] \in Loaded /\ h # NoHold
      /\ kept[h] \in Item /\ kept[h] # NoItem /\ ~kept[h].done /\ at \in Position(flow[h])
      /\ CliPoints(h) = {} /\ CliPoints(h)' = {}
  BY <1>1, BranchLate, Standing, NoItemIsNone, DaemonAssumption DEF MInv, CliPoints, Early
<1>3. \A k \in Holds \ {h} : MovesOn(k)
  <2>1. Elsewhere(h)
    BY <1>1, <1>2, BranchElsewhere DEF Elsewhere
  <2>2. UNCHANGED flow /\ cur' \in {h, NoHold}
    BY <1>1 DEF Branch, RecordOutcome, CommitBranch, WalkRunStep, WalkSkipStep,
         WalkFailStep, WalkForgetWatch, WalkForgetCoverage, WalkCheckpoint, WalkEnd, WalkGate,
         ReachGate, InviteNext, InviteFails, SetAside
  <2> QED BY <1>1, <1>2, <2>1, <2>2, PointsElsewhere, SameMovesOn
<1>4. CASE RecordOutcome \/ WalkRunStep \/ WalkForgetCoverage \/ WalkGate
  <2>1. UNCHANGED <<watches, kept, cur, at>> /\ Busy' /\ (Walking' <=> Walking)
    BY <1>4 DEF RecordOutcome, WalkRunStep, WalkForgetCoverage, WalkGate, Walking, Busy
  <2>2. PassPoints(h)' = PassPoints(h) /\ Pending(watches[h])' = Pending(watches[h])
    BY <2>1 DEF PassPoints
  <2> QED BY <1>2, <1>3, <2>2, SameMovesOn DEF Points
<1>5. CASE WalkForgetWatch
  <2>1. watches'[h] = NoItem /\ UNCHANGED <<kept, cur, at>> /\ Walking /\ Walking'
    BY <1>1, <1>2, <1>5 DEF TypeOK, WalkForgetWatch, Walking, Busy
  <2>2. PassPoints(h)' = PassPoints(h) /\ Pending(watches[h])' = {}
    BY <2>1 DEF PassPoints, Pending
  <2> QED BY <1>2, <1>3, <2>2, SameMovesOn DEF Points
<1>6. CASE CommitBranch
  <2>1. /\ ~Walking /\ dpc = "commit" /\ Walking' /\ UNCHANGED <<kept, cur, at>>
        /\ watches'[h] = watches[h] \/ watches'[h] = Checkpointed(kept[h], at)
    BY <1>1, <1>2, <1>6 DEF TypeOK, CommitBranch, WriteCheckpoint, Walking, Busy
  <2>2. kept[h].step \in Points(h) /\ kept[h].step \in DOMAIN flow[h]
    BY <1>1, <1>2, <2>1, Standing
  <2>3. Opens(flow[h], kept[h].step, outcome, at)
    BY <1>1, <2>1 DEF MInv, Onwards
  <2>4. at # 0 /\ at \in Indices \cup {Stop}
    <3>1. /\ \A i \in DOMAIN flow[h] : Rank(flow[h])[i] \in Int
          /\ Rank(flow[h])[0] < Rank(flow[h])[kept[h].step]
          /\ at # Stop => Rank(flow[h])[kept[h].step] < Rank(flow[h])[at]
      BY <1>1, <1>2, <2>2, <2>3, RankExists, OpensOnward DEF MInv, Onwards
    <3> QED BY <1>2, <2>2, <3>1, LoadedShape, StepsAssumption DEF Position, Stop
  <2>5. Pending(watches[h])' \subseteq Pending(watches[h]) \cup ({at} \ {Stop})
    BY <1>2, <2>1, <2>4, PendingCheckpoint
  <2>6. PassPoints(h)' = {at} \ {Stop}
    BY <1>1, <2>1 DEF PassPoints
  <2>7. Points(h)' \subseteq Points(h) \cup ({at} \ {Stop})
    BY <1>2, <2>5, <2>6 DEF Points
  <2>8. MovesTo(h, kept[h].step, at)
    <3>1. outcome # NoOutcome => <<kept[h].step, outcome>> \in commits'[h]
      BY <1>1, <1>2, <1>6 DEF TypeOK, CommitBranch
    <3> QED BY <2>3, <3>1 DEF MovesTo
  <2>9. MovesOn(h)
    BY <2>2, <2>7, <2>8, NextMovesOn
  <2> QED BY <1>3, <2>9
<1>7. CASE WalkSkipStep
  <2> DEFINE next == NextStep(flow[h], at, NoOutcome)
  <2>1. /\ Walking /\ Walking' /\ at' = next /\ UNCHANGED <<kept, cur, watches>>
        /\ at # Stop
    BY <1>1, <1>7 DEF WalkSkipStep, Walking, Busy, MaySkip
  <2>2. at \in Points(h) /\ at \in DOMAIN flow[h]
    BY <1>1, <1>2, <2>1, Standing
  <2>3. flow[h][at].verb # "approve" /\ flow[h][at].when # Unguarded
    BY <1>1, <1>2, <1>7, <2>2, SkippedIsPlain DEF WalkSkipStep, MaySkip
  <2>4. MovesTo(h, at, next)
    BY <2>3 DEF MovesTo
  <2>5. Points(h)' \subseteq Points(h) \cup ({next} \ {Stop})
    <3>1. PassPoints(h)' = {next} \ {Stop}
      BY <1>1, <2>1 DEF PassPoints
    <3>2. Pending(watches[h])' = Pending(watches[h])
      BY <2>1
    <3> QED BY <1>2, <3>1, <3>2 DEF Points
  <2>6. MovesOn(h)
    BY <2>2, <2>4, <2>5, NextMovesOn
  <2> QED BY <1>3, <2>6
<1>8. CASE WalkCheckpoint
  <2> DEFINE next == AfterStep(flow[h], at)
  <2>1. /\ Walking /\ Walking' /\ at' = next /\ UNCHANGED <<kept, cur>>
        /\ watches'[h] = watches[h] \/ watches'[h] = Checkpointed(kept[h], next)
        /\ at # Stop /\ flow[h][at].verb \in Effects
    BY <1>1, <1>2, <1>8
       DEF TypeOK, WalkCheckpoint, WriteCheckpoint, Walking, Busy, MInv, Onwards, Settling
  <2>2. at \in Points(h) /\ at \in DOMAIN flow[h]
    BY <1>1, <1>2, <2>1, Standing
  <2>3. flow[h][at].verb # "approve" /\ next \in Position(flow[h])
    BY <2>1, AfterStepType DEF Effects
  <2>4. next # Stop => next \in DOMAIN flow[h] /\ Rank(flow[h])[at] < Rank(flow[h])[next]
    BY <1>2, <2>2, <2>3, StepRises DEF Position
  <2>5. /\ \A i \in DOMAIN flow[h] : Rank(flow[h])[i] \in Int
        /\ Rank(flow[h])[0] < Rank(flow[h])[at]
        /\ 0 \in DOMAIN flow[h]
    BY <1>2, <2>2, RankExists, LoadedShape DEF MInv, Onwards
  <2>6. next # 0 /\ next \in Indices \cup {Stop}
    BY <1>2, <2>2, <2>3, <2>4, <2>5, LoadedShape, StepsAssumption DEF Stop
  <2>7. Points(h)' \subseteq Points(h) \cup ({next} \ {Stop})
    <3>1. PassPoints(h)' = {next} \ {Stop}
      BY <1>1, <2>1 DEF PassPoints
    <3>2. Pending(watches[h])' \subseteq Pending(watches[h]) \cup ({next} \ {Stop})
      BY <1>2, <2>1, <2>6, PendingCheckpoint
    <3> QED BY <1>2, <3>1, <3>2 DEF Points
  <2>8. MovesTo(h, at, next)
    <3>1. at \in ran'[h]
      BY <1>1, <1>8 DEF WalkCheckpoint, MInv, Onwards, Settling
    <3> QED BY <2>1, <3>1 DEF MovesTo
  <2>9. MovesOn(h)
    BY <2>2, <2>7, <2>8, NextMovesOn
  <2> QED BY <1>3, <2>9
<1>9. ASSUME NEW item, SetAside(h, item), Pending(item) \subseteq {at} \ {Stop}, Walking,
             watches' = watches
      PROVE  MovesOn(h)
  <2>1. kept'[h] = item /\ cur' = NoHold
    BY <1>2, <1>9 DEF TypeOK, SetAside
  <2>2. PassPoints(h)' = Pending(item) /\ PassPoints(h) = {at} \ {Stop}
    BY <1>1, <1>2, <1>9, <2>1 DEF PassPoints
  <2>3. Pending(watches[h])' = Pending(watches[h])
    BY <1>9
  <2> QED BY <1>2, <1>9, <2>2, <2>3, SameMovesOn DEF Points
<1>10. CASE WalkFailStep
  <2>1. Walking /\ at # Stop /\ watches' = watches
    BY <1>10 DEF WalkFailStep, MayRun, Walking, Busy
  <2>2. at \in DOMAIN flow[h] /\ at # 0
    BY <1>1, <1>2, <2>1, Standing
  <2>3. at \in Indices /\ at > 0
    BY <1>2, <2>2, LoadedShape, StepsAssumption DEF Indices
  <2>4. Pending([kept[h] EXCEPT !.resume = at]) \subseteq {at} \ {Stop}
    BY <1>2, <2>1, <2>3 DEF Pending, Item
  <2>5. SetAside(h, [kept[h] EXCEPT !.resume = at])
    BY <1>1, <1>10 DEF WalkFailStep
  <2> QED BY <1>3, <1>9, <2>1, <2>4, <2>5
<1>11. CASE WalkEnd
  <2>1. Walking /\ watches' = watches /\ SetAside(h, NoItem)
    BY <1>1, <1>11 DEF WalkEnd, Walking, Busy
  <2> QED BY <1>3, <1>9, <2>1 DEF Pending
<1>12. CASE ReachGate \/ InviteNext \/ InviteFails
  <2>1. Walking /\ at # Stop /\ watches' = watches
    BY <1>2, <1>12 DEF ReachGate, InviteNext, InviteFails, Walking, Busy, IInv, Sited
  <2>2. PICK a : SetAside(h, AtGate(a))
    BY <1>1, <1>12 DEF ReachGate, InviteNext, InviteFails
  <2>3. AtGate(a) = [kept[h] EXCEPT !.step = at, !.resume = 0, !.age = 0, !.approver = a]
    BY <1>1 DEF AtGate
  <2>4. Pending(AtGate(a)) \subseteq {at} \ {Stop}
    BY <1>2, <2>1, <2>3 DEF Pending, Item
  <2> QED BY <1>3, <1>9, <2>1, <2>2, <2>4
<1> QED
  BY <1>4, <1>5, <1>6, <1>7, <1>8, <1>10, <1>11, <1>12 DEF Branch

\* Time changes no progress.
LEMMA OlderPending ==
    ASSUME NEW list \in [Holds -> Item \cup {NoItem}], NEW h \in Holds
    PROVE  Pending(Older(list)[h]) = Pending(list[h])
<1>1. CASE list[h] = NoItem \/ list[h].age = MaxAge
  BY <1>1 DEF Older
<1>2. CASE list[h] # NoItem /\ list[h].age # MaxAge
  <2>1. Older(list)[h] = [list[h] EXCEPT !.age = @ + 1] /\ list[h] \in Item
    BY <1>2 DEF Older
  <2>2. Older(list)[h].step = list[h].step /\ Older(list)[h].step # Stop
    BY <2>1, StepsAssumption DEF Item, Indices, Stop
  <2>3. Older(list)[h] # NoItem
    BY <2>2 DEF NoItem
  <2> QED BY <1>2, <2>1, <2>3 DEF Pending, Item
<1> QED BY <1>1, <1>2

LEMMA OtherMoves ==
    ASSUME FInv,
           \/ \E h \in Holds, p \in People, r \in Responses : Answer(h, p, r)
           \/ Tick \/ PollStart \/ PollEnd \/ Restart \/ Crash \/ UNCHANGED vars
    PROVE  \A k \in Holds : MovesOn(k)
<1> SUFFICES ASSUME NEW h \in Holds PROVE Points(h)' \subseteq Points(h)
  BY SameMovesOn
<1>1. CASE \/ \E k \in Holds, p \in People, r \in Responses : Answer(k, p, r)
           \/ UNCHANGED vars
  <2>1. UNCHANGED <<watches, kept, cli, cliAt, dpc, cur, at>>
    BY <1>1 DEF Answer, vars
  <2> QED BY <2>1 DEF Points, PassPoints, CliPoints, Walking, Busy
<1>2. CASE Tick
  <2>1. UNCHANGED <<cli, cliAt, dpc, cur, at>> /\ watches' = Older(watches) /\ kept' = Older(kept)
    BY <1>2 DEF Tick
  <2>2. Pending(watches'[h]) = Pending(watches[h]) /\ Pending(kept'[h]) = Pending(kept[h])
    BY <2>1, OlderPending DEF FInv, TInv, IInv, TypeOK
  <2> QED BY <2>1, <2>2 DEF Points, PassPoints, CliPoints, Walking, Busy
<1>3. CASE PollStart
  <2>1. UNCHANGED <<watches, cli, cliAt, cur, at>> /\ kept' = watches /\ dpc' = "pass"
    BY <1>3 DEF PollStart
  <2> QED BY <2>1 DEF Points, PassPoints, CliPoints, Walking, Busy
<1>4. CASE PollEnd \/ Crash
  <2>1. /\ UNCHANGED <<cli, cliAt>> /\ kept' = Nobody /\ dpc' \in {"idle", "down"}
        /\ watches' = watches \/ (watches' = kept /\ dpc = "pass")
    BY <1>4 DEF PollEnd, Crash, Idle
  <2>2. PassPoints(h)' = {} /\ CliPoints(h)' = CliPoints(h)
    BY <2>1 DEF PassPoints, CliPoints, Walking, Busy, Nobody, Pending
  <2>3. dpc = "pass" => PassPoints(h) = Pending(kept[h])
    BY DEF PassPoints, Walking, Busy
  <2> QED BY <2>1, <2>2, <2>3 DEF Points
<1>5. CASE Restart
  <2>1. UNCHANGED <<watches, kept, cli, cliAt, cur, at>> /\ dpc = "down" /\ dpc' = "idle"
    BY <1>5 DEF Restart
  <2> QED BY <2>1 DEF Points, PassPoints, CliPoints, Walking, Busy
<1> QED BY <1>1, <1>2, <1>3, <1>4, <1>5

LEMMA MovesStep ==
    ASSUME MInv, [Next]_vars
    PROVE  \A k \in Holds : MovesOn(k) \/ Starts(k)
<1>1. ASSUME NEW h \in Holds, Command(h) PROVE \A k \in Holds : MovesOn(k) \/ Starts(k)
  BY <1>1, CommandMoves DEF MInv
<1>2. ASSUME NEW h \in Holds, Poll(h) PROVE \A k \in Holds : MovesOn(k) \/ Starts(k)
  BY <1>2, PollMoves DEF MInv
<1> QED
  BY <1>1, <1>2, BranchMoves, OtherMoves DEF Next, DaemonStep, MInv

\* A move leads on from where it starts.
LEMMA OnwardStep ==
    ASSUME MInv, [Next]_vars
    PROVE  \A k \in Holds : OnwardAt(k) \/ Starts(k)
<1> SUFFICES ASSUME NEW h \in Holds, MovesOn(h) PROVE OnwardAt(h)
  BY MovesStep
<1>1. flow[h] \in Loaded /\ \A p \in Points(h) : p \in DOMAIN flow[h]
  BY PointsType DEF MInv, FInv, TInv, IInv, Sited
<1>2. /\ \A i \in DOMAIN flow[h] : Rank(flow[h])[i] \in Int
      /\ Stop \notin DOMAIN flow[h]
  BY <1>1, RankExists, LoadedShape, StepsAssumption DEF Indices, Stop
<1>3. ASSUME NEW q \in Points(h)'
      PROVE  q \in DOMAIN flow[h]
  <2>1. IInv' /\ flow' = flow
    BY FInvStep, FlowStays DEF MInv, FInv, TInv
  <2> QED BY <2>1, <1>3, PointsInsideAfter
<1>4. ASSUME NEW q \in Points(h)', NEW p \in Points(h), MovesTo(h, p, q)
      PROVE  Rank(flow[h])[p] < Rank(flow[h])[q]
  <2>1. q # Stop
    BY <1>2, <1>3
  <2>2. CASE /\ flow[h][p].verb # "approve"
             /\ q \in {AfterStep(flow[h], p), NextStep(flow[h], p, NoOutcome)}
    BY <1>1, <2>1, <2>2, StepRises
  <2>3. CASE \E o : Opens(flow[h], p, o, q)
    BY <1>1, <2>1, <2>3, OpensOnward
  <2>4. \A v \in Effects : v # "approve"
    BY DEF Effects
  <2> QED BY <1>4, <2>2, <2>3, <2>4 DEF MovesTo
<1> QED
  <2> SUFFICES ASSUME NEW q \in Points(h)'
               PROVE  \E p \in Points(h) : Rank(flow[h])[p] <= Rank(flow[h])[q]
    BY DEF OnwardAt
  <2>1. q \in DOMAIN flow[h]
    BY <1>3
  <2>2. CASE q \in Points(h)
    BY <1>2, <2>1, <2>2
  <2>3. CASE \E p \in Points(h) : MovesTo(h, p, q)
    BY <1>1, <1>2, <1>4, <2>1, <2>3
  <2> QED BY <2>2, <2>3 DEF MovesOn

\* What took effect stays so, and only steps that run take effect.
LEMMA RanGrows ==
    ASSUME IInv, [Next]_vars
    PROVE  \A h \in Holds : ran[h] \subseteq ran'[h]
<1>1. ASSUME NEW h \in Holds, NEW i, NEW known,
             Perform(h, i, known) \/ Refused(h, i, known) \/ ReplyLost(h, i, known)
      PROVE  \A k \in Holds : ran[k] \subseteq ran'[k]
  <2>1. ran' = ran \/ ran' = [ran EXCEPT ![h] = @ \cup {i}]
    BY <1>1 DEF Perform, Refused, ReplyLost
  <2>2. DOMAIN ran = Holds
    BY DEF IInv, TypeOK
  <2> QED BY <2>1, <2>2
<1>2. ASSUME NEW h \in Holds, Command(h) PROVE \A k \in Holds : ran[k] \subseteq ran'[k]
  <2>1. CASE CliRunStep(h)
    BY <1>1, <2>1 DEF CliRunStep
  <2>2. CASE ran' = ran
    BY <2>2
  <2> QED BY <1>2, <2>1, <2>2
          DEF Command, CreateHold, RecordHold, CliSkipStep, CliWalked, AddWatch, CancelHold,
              ForgetWatch, ForgetCoverage, CliDies
<1>3. ASSUME NEW h \in Holds, Poll(h) PROVE ran' = ran
  BY <1>3 DEF Poll, PollUnreachable, PollPruned, PollDone, PollGone, PollPending,
              PollResume, PollElapsed, PollResolved, Advance
<1>4. CASE Branch
  <2>1. PICK h \in Holds : h = cur
    BY <1>4 DEF IInv, Sited, Busy, Branch, RecordOutcome, CommitBranch, WalkRunStep,
         WalkSkipStep, WalkFailStep, WalkForgetWatch, WalkForgetCoverage, WalkCheckpoint,
         WalkEnd, WalkGate, ReachGate, InviteNext, InviteFails
  <2>2. CASE WalkRunStep \/ WalkFailStep
    BY <1>1, <2>1, <2>2 DEF WalkRunStep, WalkFailStep
  <2>3. CASE ran' = ran
    BY <2>3
  <2> QED BY <1>4, <2>2, <2>3
          DEF Branch, RecordOutcome, CommitBranch, WalkSkipStep, WalkForgetWatch,
              WalkForgetCoverage, WalkCheckpoint, WalkEnd, WalkGate, ReachGate, InviteNext,
              InviteFails
<1>5. CASE Tick \/ PollStart \/ PollEnd \/ Restart \/ Crash \/ UNCHANGED vars
  BY <1>5 DEF Tick, PollStart, PollEnd, Restart, Crash, vars
<1>6. ASSUME NEW h \in Holds, NEW p \in People, NEW r \in Responses, Answer(h, p, r)
      PROVE  ran' = ran
  BY <1>6 DEF Answer
<1> QED BY <1>2, <1>3, <1>4, <1>5, <1>6 DEF Next, DaemonStep

\* The branch to commit to stays the one its gate opened to.
LEMMA GateLeadsOn ==
    ASSUME MInv, [Next]_vars
    PROVE  (dpc \in {"record", "commit"} => Opens(flow[cur], kept[cur].step, outcome, at))'
<1> SUFFICES ASSUME dpc' \in {"record", "commit"}
             PROVE  Opens(flow[cur'], kept'[cur'].step, outcome', at')
  BY FlowStays DEF Opens
<1>1. CASE dpc \in {"record", "commit"} /\ UNCHANGED <<cur, at, kept, outcome>>
  BY <1>1 DEF MInv, Onwards
<1>2. CASE Tick
  <2>1. dpc \in {"record", "commit"} /\ UNCHANGED <<cur, at, outcome>>
    BY <1>2 DEF Tick
  <2>2. kept'[cur].step = kept[cur].step
    BY <1>2, <2>1, OlderType DEF Tick, MInv, FInv, TInv, IInv, TypeOK, Sited, Busy
  <2> QED BY <2>1, <2>2 DEF MInv, Onwards
<1>3. ASSUME NEW h \in Holds, PollElapsed(h) \/ \E o \in Outcomes : PollResolved(h, o)
      PROVE  Opens(flow[cur'], kept'[cur'].step, outcome', at')
  <2>1. cur' = h /\ kept' = kept
    BY <1>3 DEF PollElapsed, PollResolved, Advance
  <2>2. CASE PollElapsed(h)
    BY <2>1, <2>2 DEF PollElapsed, Elapsed, Advance, Opens
  <2>3. ASSUME NEW o \in Outcomes, PollResolved(h, o)
        PROVE  Opens(flow[cur'], kept'[cur'].step, outcome', at')
    <3>1. flow[h][kept[h].step].verb = "approve"
      BY <2>3 DEF PollResolved, Resolved
    <3>2. at' = GateTarget(flow[h], kept[h].step, o) /\ outcome' = o
      BY <2>3 DEF PollResolved, Advance
    <3>3. o = "expired" => flow[h][kept[h].step].timeout > 0
      <4>1. GateResponse(h, kept[h]) \in {"none", "accepted", "declined"}
        <5>1. \A p \in People : resp[h][p] \in Responses
          BY DEF MInv, FInv, TInv, IInv, TypeOK
        <5>2. att[h] \subseteq People
          BY DEF MInv, FInv, TInv, IInv, TypeOK
        <5> QED BY <5>1, <5>2 DEF GateResponse, Responses
      <4> QED BY <2>3, <4>1 DEF PollResolved, Resolved
    <3>4. o \in GateOutcomes(flow[h][kept[h].step])
      BY <3>3 DEF GateOutcomes, Outcomes
    <3> QED BY <2>1, <3>1, <3>2, <3>4 DEF Opens
  <2> QED BY <1>3, <2>2, <2>3
<1>4. CASE \E h \in Holds : Command(h)
  <2>1. UNCHANGED <<dpc, cur, at, kept, outcome>>
    BY <1>4 DEF Command, CreateHold, RecordHold, CliRunStep, CliSkipStep, CliWalked, AddWatch,
         CancelHold, ForgetWatch, ForgetCoverage, CliDies
  <2> QED BY <1>1, <2>1
<1>5. CASE \E h \in Holds : Poll(h)
  BY <1>3, <1>5 DEF Poll, PollUnreachable, PollPruned, PollDone, PollGone, PollPending,
                    PollResume, Advance, SetAside
<1>6. CASE Branch
  <2>1. RecordOutcome
    BY <1>6 DEF Branch, RecordOutcome, CommitBranch, WalkRunStep, WalkSkipStep,
         WalkFailStep, WalkForgetWatch, WalkForgetCoverage, WalkCheckpoint, WalkEnd, WalkGate,
         ReachGate, InviteNext, InviteFails, SetAside
  <2> QED BY <1>1, <2>1 DEF RecordOutcome
<1>7. CASE \/ \E h \in Holds, p \in People, r \in Responses : Answer(h, p, r)
           \/ UNCHANGED vars
  <2>1. UNCHANGED <<dpc, cur, at, kept, outcome>>
    BY <1>7 DEF Answer, vars
  <2> QED BY <1>1, <2>1
<1>8. CASE PollStart \/ PollEnd \/ Restart \/ Crash
  BY <1>8 DEF PollStart, PollEnd, Restart, Crash
<1> QED
  BY <1>2, <1>4, <1>5, <1>6, <1>7, <1>8 DEF Next, DaemonStep

\* A checkpoint is due only for a step that took effect.
LEMMA SettlesOnEffects ==
    ASSUME MInv, [Next]_vars
    PROVE  Settling' => at' # Stop /\ flow'[cur'][at'].verb \in Effects /\ at' \in ran'[cur']
<1> SUFFICES ASSUME Settling'
             PROVE  at' # Stop /\ flow[cur'][at'].verb \in Effects /\ at' \in ran'[cur']
  BY FlowStays
<1>1. CASE Settling /\ UNCHANGED <<cur, at>>
  <2>1. cur \in Holds
    BY <1>1 DEF MInv, FInv, TInv, IInv, Sited, Busy, Settling
  <2>2. at # Stop /\ flow[cur][at].verb \in Effects /\ at \in ran[cur]
    BY <1>1 DEF MInv, Onwards
  <2> QED BY <1>1, <2>1, <2>2, RanGrows DEF MInv, FInv, TInv
<1>2. CASE WalkRunStep
  <2>1. PICK h \in Holds : h = cur
    BY <1>2, BranchLate DEF Branch, MInv
  <2>2. /\ Perform(h, at, copy) /\ at # Stop /\ flow[h][at].verb \in Effects
        /\ UNCHANGED <<cur, at>>
    BY <1>2, <2>1 DEF WalkRunStep, MayRun
  <2>3. at \in ran'[h]
    BY <2>2 DEF Perform, MInv, FInv, TInv, IInv, TypeOK
  <2> QED BY <2>1, <2>2, <2>3
<1>3. CASE WalkForgetWatch \/ WalkForgetCoverage
  BY <1>1, <1>3 DEF WalkForgetWatch, WalkForgetCoverage, Settling
<1>4. CASE Branch /\ ~WalkRunStep /\ ~WalkForgetWatch /\ ~WalkForgetCoverage
  BY <1>4 DEF Settling, Branch, RecordOutcome, CommitBranch, WalkSkipStep,
         WalkFailStep, WalkCheckpoint, WalkEnd, WalkGate,
         ReachGate, InviteNext, InviteFails, SetAside
<1>5. CASE \E h \in Holds : Command(h)
  <2>1. UNCHANGED <<dpc, cur, at>>
    BY <1>5 DEF Command, CreateHold, RecordHold, CliRunStep, CliSkipStep, CliWalked, AddWatch,
         CancelHold, ForgetWatch, ForgetCoverage, CliDies
  <2> QED BY <1>1, <2>1 DEF Settling
<1>6. CASE \E h \in Holds : Poll(h)
  BY <1>6 DEF Settling, Poll, PollUnreachable, PollPruned, PollDone, PollGone, PollPending,
              PollResume, PollElapsed, PollResolved, Advance, SetAside
<1>7. CASE \/ \E h \in Holds, p \in People, r \in Responses : Answer(h, p, r)
           \/ Tick \/ UNCHANGED vars
  <2>1. UNCHANGED <<dpc, cur, at>>
    BY <1>7 DEF Answer, Tick, vars
  <2> QED BY <1>1, <2>1 DEF Settling
<1>8. CASE PollStart \/ PollEnd \/ Restart \/ Crash
  BY <1>8 DEF Settling, PollStart, PollEnd, Restart, Crash
<1> QED
  BY <1>2, <1>3, <1>4, <1>5, <1>6, <1>7, <1>8 DEF Next, DaemonStep

LEMMA MInvStep == MInv /\ [Next]_vars => MInv'
<1> SUFFICES ASSUME MInv, [Next]_vars PROVE MInv'
  OBVIOUS
<1>1. FInv'
  BY FInvStep DEF MInv
<1>2. flow' = flow
  BY FlowStays
<1>3. ASSUME NEW h \in Holds, NEW q \in Points(h)'
      PROVE  Rank(flow[h])[0] < Rank(flow[h])[q]
  <2>1. /\ flow[h] \in Loaded /\ 0 \in DOMAIN flow[h]
        /\ \A i \in DOMAIN flow[h] : Rank(flow[h])[i] \in Int
    BY RankExists, LoadedShape DEF MInv, FInv, TInv, IInv, Sited
  <2>2. q \in DOMAIN flow[h]
    <3>1. IInv'
      BY <1>1 DEF FInv, TInv
    <3> QED BY <1>2, <1>3, <3>1, PointsInsideAfter
  <2>3. CASE Starts(h)
    <3>1. q = NextStep(flow[h], 0, NoOutcome) /\ q # Stop
      BY <1>3, <2>3 DEF Starts
    <3>2. flow[h][0].verb # "approve"
      BY <2>1, LoadedGates
    <3> QED BY <2>1, <3>1, <3>2, StepRises
  <2>4. CASE OnwardAt(h)
    <3>1. PICK p \in Points(h) : Rank(flow[h])[p] <= Rank(flow[h])[q]
      BY <1>3, <2>4 DEF OnwardAt
    <3>2. p \in DOMAIN flow[h] /\ Rank(flow[h])[0] < Rank(flow[h])[p]
      BY <3>1, PointsType DEF MInv, FInv, TInv, Onwards
    <3> QED BY <2>1, <2>2, <3>1, <3>2
  <2> QED BY <2>3, <2>4, OnwardStep
<1>4. \A h \in Holds : \A p \in Points(h)' : Rank(flow'[h])[0] < Rank(flow'[h])[p]
  BY <1>2, <1>3
<1> QED BY <1>1, <1>4, GateLeadsOn, SettlesOnEffects DEF MInv, Onwards

LEMMA MInvInit == Init => MInv
<1> SUFFICES ASSUME Init PROVE MInv
  OBVIOUS
<1>1. FInv
  BY FInvInit
<1>2. ASSUME NEW h \in Holds PROVE Points(h) = {}
  BY DEF Init, Points, PassPoints, CliPoints, Pending, Nobody, Walking, Busy
<1>3. Onwards
  BY <1>2 DEF Init, Onwards, Settling
<1> QED BY <1>1, <1>3 DEF MInv

-----------------------------------------------------------------------------
(* Decisions.                                                              *)

\* A run goes on from behind every gate that was decided.
Decided ==
    /\ DecidedOnce
    /\ \A h \in Holds : \A c \in commits[h] :
          /\ c[1] \in DOMAIN flow[h]
          /\ \A p \in Points(h) : Rank(flow[h])[c[1]] < Rank(flow[h])[p]

DInv == MInv /\ Decided

LEMMA CommitsStay ==
    ASSUME [Next]_vars
    PROVE  commits' = commits \/ CommitBranch
<1>1. ASSUME NEW h \in Holds, Command(h) \/ Poll(h) PROVE commits' = commits
  BY <1>1 DEF Command, CreateHold, RecordHold, CliRunStep, CliSkipStep, CliWalked,
              AddWatch, CancelHold, ForgetWatch, ForgetCoverage, CliDies, Poll,
              PollUnreachable, PollPruned, PollDone, PollGone, PollPending, PollResume,
              PollElapsed, PollResolved, Advance
<1>2. CASE Branch
  BY <1>2 DEF Branch, RecordOutcome, WalkRunStep, WalkSkipStep,
         WalkFailStep, WalkForgetWatch, WalkForgetCoverage, WalkCheckpoint, WalkEnd, WalkGate,
         ReachGate, InviteNext, InviteFails
<1>3. CASE Tick \/ PollStart \/ PollEnd \/ Restart \/ Crash \/ UNCHANGED vars
  BY <1>3 DEF Tick, PollStart, PollEnd, Restart, Crash, vars
<1>4. ASSUME NEW h \in Holds, NEW p \in People, NEW r \in Responses, Answer(h, p, r)
      PROVE  commits' = commits
  BY <1>4 DEF Answer
<1> QED BY <1>1, <1>2, <1>3, <1>4 DEF Next, DaemonStep

LEMMA DecidedKept ==
    ASSUME DInv, [Next]_vars, commits' = commits
    PROVE  Decided'
<1>1. flow' = flow
  BY FlowStays
<1>2. MInv' /\ IInv'
  BY MInvStep DEF DInv, MInv, FInv, TInv
<1>3. ASSUME NEW h \in Holds, NEW c \in commits[h], NEW q \in Points(h)'
      PROVE  Rank(flow[h])[c[1]] < Rank(flow[h])[q]
  <2>1. OnwardAt(h)
    BY <1>3, OnwardStep DEF DInv, Starts
  <2>2. PICK p \in Points(h) : Rank(flow[h])[p] <= Rank(flow[h])[q]
    BY <1>3, <2>1 DEF OnwardAt
  <2>3. /\ c[1] \in DOMAIN flow[h] /\ p \in DOMAIN flow[h]
        /\ Rank(flow[h])[c[1]] < Rank(flow[h])[p]
    BY <2>2, PointsType DEF DInv, Decided, MInv, FInv, TInv
  <2>4. q \in DOMAIN flow[h]
    BY <1>1, <1>2, <1>3, PointsInsideAfter
  <2>5. \A i \in DOMAIN flow[h] : Rank(flow[h])[i] \in Int
    BY RankExists DEF DInv, MInv, FInv, TInv, IInv, Sited
  <2> QED BY <2>2, <2>3, <2>4, <2>5
<1> QED BY <1>1, <1>3 DEF DInv, Decided, DecidedOnce

\* Committing to a branch leaves the gate behind, in the file too.
LEMMA DecidedCommit ==
    ASSUME ~DiskMayFail, DInv, CommitBranch
    PROVE  Decided'
<1>1. PICK h \in Holds : h = cur
  BY BranchLate DEF DInv, MInv, Branch
<1>2. /\ Busy /\ TypeOK /\ IInv /\ flow[h] \in Loaded /\ kept[h] \in Item /\ ~kept[h].done
      /\ at \in Position(flow[h]) /\ CliPoints(h)' = {}
      /\ ~Walking /\ dpc = "commit" /\ Walking' /\ UNCHANGED <<flow, kept, cur, at>>
      /\ watches'[h] = Checkpointed(kept[h], at)
  <2>1. Busy /\ Branch
    BY DEF CommitBranch, Branch, Busy
  <2>2. CliPoints(h)' = {}
    BY <1>1, <2>1, BranchLate DEF DInv, MInv, CliPoints, Early
  <2>3. /\ ~Walking /\ dpc = "commit" /\ Walking' /\ UNCHANGED <<flow, kept, cur, at>>
        /\ watches' = [watches EXCEPT ![cur] = Checkpointed(kept[cur], at)]
    BY DEF CommitBranch, WriteCheckpoint, Walking, Busy
  <2>4. TypeOK
    BY DEF DInv, MInv, FInv, TInv, IInv
  <2>5. watches'[h] = Checkpointed(kept[h], at)
    BY <1>1, <2>3, <2>4 DEF TypeOK
  <2> QED BY <1>1, <2>1, <2>2, <2>3, <2>5, Standing DEF DInv
<1> DEFINE R == Rank(flow[h])
           step == kept[h].step
<1>3. step \in Points(h) /\ step \in DOMAIN flow[h]
  BY <1>1, <1>2, Standing DEF DInv
<1>4. /\ \A i \in DOMAIN flow[h] : R[i] \in Int
      /\ R[0] < R[step]
      /\ at # Stop => R[step] < R[at]
  BY <1>1, <1>2, <1>3, RankExists, OpensOnward DEF DInv, MInv, Onwards
<1>5. at # 0 /\ at \in Indices \cup {Stop}
  BY <1>2, <1>3, <1>4, LoadedShape, StepsAssumption DEF Position, Stop
<1>6. Points(h)' = {at} \ {Stop}
  <2>1. Pending(watches[h])' = {at} \ {Stop}
    BY <1>2, <1>5, PendingCheckpoint
  <2>2. PassPoints(h)' = {at} \ {Stop}
    BY <1>1, <1>2 DEF PassPoints
  <2> QED BY <1>2, <2>1, <2>2 DEF Points
<1>7. /\ \A k \in Holds \ {h} : commits'[k] = commits[k] /\ Points(k)' = Points(k)
      /\ \A c \in commits'[h] : c \in commits[h] \/ c = <<step, outcome>>
  <2>1. Elsewhere(h)
    BY <1>1, <1>2, BranchElsewhere DEF Branch, Elsewhere
  <2>2. \A k \in Holds \ {h} : Points(k)' = Points(k)
    BY <1>1, <1>2, <2>1, PointsElsewhere DEF CommitBranch
  <2>3. commits' = [commits EXCEPT ![cur] =
            IF outcome = NoOutcome THEN @ ELSE @ \cup {<<kept[cur].step, outcome>>}]
    BY DEF CommitBranch
  <2> QED BY <1>1, <1>2, <2>1, <2>2, <2>3 DEF Elsewhere, TypeOK
<1>8. \A c \in commits[h] : /\ c[1] \in DOMAIN flow[h] /\ R[c[1]] < R[step]
                            /\ c[1] # step
  BY <1>3, <1>4 DEF DInv, Decided
<1>9. \A c \in commits'[h] : /\ c[1] \in DOMAIN flow[h]
                             /\ \A q \in Points(h)' : R[c[1]] < R[q]
  <2> SUFFICES ASSUME NEW c \in commits'[h], NEW q \in Points(h)'
               PROVE  R[c[1]] < R[q]
    BY <1>3, <1>7, <1>8
  <2>1. q = at /\ at # Stop /\ at \in DOMAIN flow[h]
    BY <1>2, <1>6 DEF Position
  <2> QED BY <1>3, <1>4, <1>7, <1>8, <2>1
<1>10. DecidedOnce'
  <2>1. \A c, d \in commits'[h] : c[1] = d[1] => c = d
    BY <1>7, <1>8 DEF DInv, Decided, DecidedOnce
  <2> QED BY <1>7, <2>1 DEF DInv, Decided, DecidedOnce
<1> QED BY <1>2, <1>7, <1>9, <1>10 DEF DInv, Decided

\* A gate is decided once, whatever crashes and failed calls do, as long as the
\* watch list can be written.
THEOREM DecisionsStand ==
    ASSUME ~DiskMayFail
    PROVE  Spec => []DecidedOnce
<1>1. Init => DInv
  <2>1. Init => Decided
    BY DEF Init, Decided, DecidedOnce
  <2> QED BY <2>1, MInvInit DEF DInv
<1>2. DInv /\ [Next]_vars => DInv'
  <2>1. DInv /\ [Next]_vars => Decided'
    BY CommitsStay, DecidedKept, DecidedCommit
  <2> QED BY <2>1, MInvStep DEF DInv
<1>3. DInv => DecidedOnce
  BY DEF DInv, Decided
<1> QED BY <1>1, <1>2, <1>3, PTL DEF Spec

-----------------------------------------------------------------------------
(* Repeats.                                                                *)

\* The effects that may yet repeat, over all runs.
Unsettled == {x \in Holds \X Indices : x[2] \in UnsettledAt(x[1])}

\* What the mishaps so far account for; a step that took effect may repeat until
\* its checkpoint is written.
Allowed == mishaps + IF Settling THEN 1 ELSE 0

Counted ==
    /\ IsFiniteSet(Unsettled)
    /\ repeats + Cardinality(Unsettled) <= Allowed

RInv == MInv /\ Counted

\* An effect that may repeat after a step could before, unless the step is it.
LEMMA UnsettledBack ==
    ASSUME MInv, [Next]_vars, NEW k \in Holds, NEW i \in ran[k], i \in UnsettledAt(k)'
    PROVE  i \in UnsettledAt(k)
<1>1. flow' = flow /\ IInv'
  BY FlowStays, MInvStep DEF MInv, FInv, TInv
<1>2. PICK q \in Points(k)' : Rank(flow[k])[q] <= Rank(flow[k])[i]
  BY <1>1 DEF UnsettledAt
<1>3. i \in ran'[k] /\ i \in DOMAIN flow[k]
  BY <1>1 DEF UnsettledAt
<1>4. OnwardAt(k)
  BY <1>3, OnwardStep DEF Starts
<1>5. PICK p \in Points(k) : Rank(flow[k])[p] <= Rank(flow[k])[q]
  BY <1>4 DEF OnwardAt
<1>6. /\ p \in DOMAIN flow[k] /\ q \in DOMAIN flow[k]
      /\ \A j \in DOMAIN flow[k] : Rank(flow[k])[j] \in Int
  BY <1>1, <1>2, <1>5, PointsType, PointsInsideAfter, RankExists DEF MInv, FInv, TInv, IInv, Sited
<1> QED BY <1>2, <1>3, <1>5, <1>6 DEF UnsettledAt

\* A step that has no effect, and a mishap that has none.
LEMMA CountSame ==
    ASSUME RInv, [Next]_vars, UNCHANGED <<ran, repeats>>, Allowed <= Allowed'
    PROVE  Counted'
<1>1. Unsettled' \subseteq Unsettled
  BY UnsettledBack DEF RInv, Unsettled, UnsettledAt
<1>2. /\ IsFiniteSet(Unsettled') /\ Cardinality(Unsettled') <= Cardinality(Unsettled)
      /\ Cardinality(Unsettled') \in Nat /\ Cardinality(Unsettled) \in Nat
  BY <1>1, FS_Subset, FS_CardinalityType DEF RInv, Counted
<1>3. repeats \in Nat /\ Allowed \in Nat /\ Allowed' \in Nat
  BY MInvStep, DaemonAssumption DEF Allowed, RInv, MInv, FInv, TInv, IInv, TypeOK
<1> QED BY <1>2, <1>3 DEF RInv, Counted

\* The daemon's step takes effect: it may repeat until its checkpoint is written,
\* and if it just did, it stood where it might.
LEMMA CountRun ==
    ASSUME RInv, [Next]_vars, NEW h \in Holds, NEW i \in Points(h),
           ran' = [ran EXCEPT ![h] = @ \cup {i}],
           repeats' = repeats \/ (i \in ran[h] /\ repeats' = repeats + 1),
           Allowed' = Allowed + 1
    PROVE  Counted'
<1> DEFINE x == <<h, i>>
<1>1. i \in DOMAIN flow[h] /\ Rank(flow[h])[i] \in Int
  BY PointsType, RankExists DEF RInv, MInv, FInv, TInv, IInv, Sited
<1>2. i \in ran[h] => x \in Unsettled
  <2>1. ran[h] \subseteq Indices
    BY DEF RInv, MInv, FInv, TInv, IInv, TypeOK
  <2> QED BY <1>1, <2>1 DEF Unsettled, UnsettledAt
<1>3. Unsettled' \subseteq Unsettled \cup {x}
  <2> SUFFICES ASSUME NEW k \in Holds, NEW j \in Indices, j \in UnsettledAt(k)', <<k, j>> # x
               PROVE  j \in UnsettledAt(k)
    BY DEF Unsettled
  <2>1. j \in ran'[k]
    BY DEF UnsettledAt
  <2>2. j \in ran[k]
    BY <2>1 DEF RInv, MInv, FInv, TInv, IInv, TypeOK
  <2> QED BY <2>2, UnsettledBack DEF RInv
<1>4. IsFiniteSet(Unsettled)
  BY DEF RInv, Counted
<1>5. /\ IsFiniteSet(Unsettled \cup {x})
      /\ Cardinality(Unsettled \cup {x}) =
            IF x \in Unsettled THEN Cardinality(Unsettled) ELSE Cardinality(Unsettled) + 1
  BY <1>4, FS_AddElement
<1>6. /\ IsFiniteSet(Unsettled')
      /\ Cardinality(Unsettled') <= Cardinality(Unsettled \cup {x})
      /\ Cardinality(Unsettled') \in Nat /\ Cardinality(Unsettled) \in Nat
  BY <1>3, <1>4, <1>5, FS_Subset, FS_CardinalityType
<1>7. repeats \in Nat /\ Allowed \in Nat
  BY DEF Allowed, RInv, MInv, FInv, TInv, IInv, TypeOK
<1>8. repeats + Cardinality(Unsettled) <= Allowed
  BY DEF RInv, Counted
<1> QED BY <1>2, <1>5, <1>6, <1>7, <1>8 DEF Counted

LEMMA Tally ==
    ASSUME NEW r \in Nat, NEW s \in Nat, NEW c \in Nat, NEW d \in Nat,
           NEW a \in Nat, NEW b \in Nat, r + c <= a,
           \/ d + 1 <= c /\ s + a <= r + b + 1
           \/ d <= c /\ s + a <= r + b
    PROVE  s + d <= b
  OBVIOUS

LEMMA Spared ==
    ASSUME NEW r \in Nat, NEW a \in Nat
    PROVE  r + (a + 1) <= r + a + 1
  OBVIOUS

\* The run settles the step it stood at: it can no longer come to it.
LEMMA CountSettled ==
    ASSUME RInv, [Next]_vars, NEW h \in Holds, NEW i \in Points(h),
           \A q \in Points(h)' : Rank(flow[h])[i] < Rank(flow[h])[q],
           ran' = ran \/ ran' = [ran EXCEPT ![h] = @ \cup {i}],
           i \in ran[h] => repeats' + Allowed <= repeats + Allowed' + 1,
           i \notin ran[h] => repeats' + Allowed <= repeats + Allowed'
    PROVE  Counted'
<1> DEFINE x == <<h, i>>
<1>1. i \in DOMAIN flow[h] /\ \A j \in DOMAIN flow[h] : Rank(flow[h])[j] \in Int
  BY PointsType, RankExists DEF RInv, MInv, FInv, TInv, IInv, Sited
<1>2. i \in ran[h] => x \in Unsettled
  <2>1. ran[h] \subseteq Indices
    BY DEF RInv, MInv, FInv, TInv, IInv, TypeOK
  <2> QED BY <1>1, <2>1 DEF Unsettled, UnsettledAt
<1>3. flow' = flow /\ IInv'
  BY FlowStays, MInvStep DEF RInv, MInv, FInv, TInv
<1>4. i \notin UnsettledAt(h)'
  <2> SUFFICES ASSUME NEW q \in Points(h)', Rank(flow[h])[q] <= Rank(flow[h])[i] PROVE FALSE
    BY <1>3 DEF UnsettledAt
  <2>1. q \in DOMAIN flow[h]
    BY <1>3, PointsInsideAfter
  <2> QED BY <1>1, <2>1
<1>5. Unsettled' \subseteq Unsettled \ {x}
  <2> SUFFICES ASSUME NEW k \in Holds, NEW j \in Indices, j \in UnsettledAt(k)'
               PROVE  j \in UnsettledAt(k) /\ <<k, j>> # x
    BY DEF Unsettled
  <2>1. j \in ran'[k] /\ <<k, j>> # x
    BY <1>4 DEF UnsettledAt
  <2>2. j \in ran[k]
    BY <2>1 DEF RInv, MInv, FInv, TInv, IInv, TypeOK
  <2> QED BY <2>1, <2>2, UnsettledBack DEF RInv
<1>6. IsFiniteSet(Unsettled)
  BY DEF RInv, Counted
<1>7. /\ IsFiniteSet(Unsettled \ {x})
      /\ Cardinality(Unsettled \ {x}) =
            IF x \in Unsettled THEN Cardinality(Unsettled) - 1 ELSE Cardinality(Unsettled)
  BY <1>6, FS_RemoveElement
<1>8. /\ IsFiniteSet(Unsettled')
      /\ Cardinality(Unsettled') <= Cardinality(Unsettled \ {x})
      /\ Cardinality(Unsettled') \in Nat /\ Cardinality(Unsettled) \in Nat
  BY <1>5, <1>6, <1>7, FS_Subset, FS_CardinalityType
<1>9. repeats \in Nat /\ repeats' \in Nat /\ Allowed \in Nat /\ Allowed' \in Nat
  BY MInvStep, DaemonAssumption DEF Allowed, RInv, MInv, FInv, TInv, IInv, TypeOK
<1>10. repeats + Cardinality(Unsettled) <= Allowed
  BY DEF RInv, Counted
<1>11. CASE i \in ran[h]
  <2>1. Cardinality(Unsettled') + 1 <= Cardinality(Unsettled)
    BY <1>2, <1>7, <1>8, <1>11
  <2>2. repeats' + Allowed <= repeats + Allowed' + 1
    BY <1>11
  <2>3. repeats' + Cardinality(Unsettled') <= Allowed'
    BY <1>8, <1>9, <1>10, <2>1, <2>2, Tally
  <2> QED BY <1>8, <2>3 DEF Counted
<1>12. CASE i \notin ran[h]
  <2>1. Cardinality(Unsettled') <= Cardinality(Unsettled)
    BY <1>7, <1>8
  <2>2. repeats' + Allowed <= repeats + Allowed'
    BY <1>12
  <2>3. repeats' + Cardinality(Unsettled') <= Allowed'
    BY <1>8, <1>9, <1>10, <2>1, <2>2, Tally
  <2> QED BY <1>8, <2>3 DEF Counted
<1> QED BY <1>11, <1>12

LEMMA AllowedType ==
    ASSUME TypeOK
    PROVE  /\ mishaps \in Nat /\ repeats \in Nat /\ Allowed \in Nat
           /\ Settling => Allowed = mishaps + 1
           /\ ~Settling => Allowed = mishaps
           /\ mishaps' = mishaps =>
                /\ (Settling <=> Settling') => Allowed' = Allowed
                /\ ~Settling /\ Settling' => Allowed' = Allowed + 1
                /\ Settling /\ ~Settling' => Allowed = Allowed' + 1
           /\ mishaps' = mishaps + 1 =>
                /\ (Settling <=> Settling') => Allowed' = Allowed + 1
                /\ Settling /\ ~Settling' => Allowed' = Allowed
<1>1. mishaps \in Nat /\ repeats \in Nat
  BY DaemonAssumption DEF TypeOK
<1>2. CASE Settling
  BY <1>1, <1>2 DEF Allowed
<1>3. CASE ~Settling
  BY <1>1, <1>3 DEF Allowed
<1> QED BY <1>1, <1>2, <1>3

\* What a step that takes effect adds to the count.
LEMMA PerformCounts ==
    ASSUME NEW h \in Holds, NEW i, NEW known, Perform(h, i, known)
    PROVE  /\ ran' = [ran EXCEPT ![h] = @ \cup {i}]
           /\ repeats' = repeats \/ (i \in ran[h] /\ repeats' = repeats + 1)
  BY DEF Perform

LEMMA CountCommand ==
    ASSUME RInv, [Next]_vars, NEW h \in Holds, Command(h)
    PROVE  Counted'
<1>1. TypeOK /\ flow[h] \in Loaded /\ FreshAt(h) /\ cliAt[h] \in Position(flow[h])
  BY DEF RInv, MInv, FInv, TInv, IInv, Sited, Fresh
<1>2. dpc' = dpc
  BY DEF Command, CreateHold, RecordHold, CliRunStep, CliSkipStep, CliWalked, AddWatch,
         CancelHold, ForgetWatch, ForgetCoverage, CliDies
<1>3. CASE UNCHANGED <<ran, repeats, mishaps>>
  <2>1. Allowed' = Allowed /\ Allowed \in Nat
    BY <1>1, <1>2, <1>3, AllowedType DEF Settling, Allowed
  <2> QED BY <1>3, <2>1, CountSame
<1>4. CASE CliRunStep(h) /\ ~UNCHANGED <<ran, repeats, mishaps>>
  <2> DEFINE i == cliAt[h]
             next == AfterStep(flow[h], i)
             R == Rank(flow[h])
  <2>1. /\ cli[h] = "walk" /\ i # Stop /\ i \in DOMAIN flow[h] /\ flow[h][i].verb # "approve"
        /\ UNCHANGED <<kept, watches, flow, cur, at>>
    BY <1>1, <1>4 DEF CliRunStep, MayRun, Effects, Position
  <2>2. /\ Perform(h, i, Invited(flow[h]))
        /\ mishaps' = mishaps \/ mishaps' = mishaps + 1
        /\ cliAt'[h] = next \/ cli'[h] = "end"
    BY <1>1, <1>4 DEF TypeOK, CliRunStep, Refused, Refuse, ReplyLost, Mishap, Spend
  <2>3. i \in Points(h)
    BY <2>1 DEF Points, CliPoints
  <2>4. Points(h)' \subseteq {next} \ {Stop}
    <3>1. watches'[h] = NoItem /\ kept'[h] = NoItem
      BY <1>1, <2>1 DEF FreshAt, Early
    <3>2. PassPoints(h)' = {}
      <4>1. ~(Walking /\ h = cur)
        BY <2>1, <3>1 DEF RInv, MInv, FInv, TInv, IInv, Sited, Walking
      <4> QED BY <1>2, <2>1, <3>1, <4>1 DEF PassPoints, Walking, Busy, Pending
    <3> QED BY <2>2, <3>1, <3>2 DEF Points, Pending, CliPoints
  <2>5. \A q \in Points(h)' : R[i] < R[q]
    BY <1>1, <2>1, <2>4, StepRises
  <2>6. /\ ran' = [ran EXCEPT ![h] = @ \cup {i}]
        /\ repeats' = repeats \/ (i \in ran[h] /\ repeats' = repeats + 1)
    BY <2>2, PerformCounts
  <2>7. Allowed \in Nat /\ repeats \in Nat /\ (Allowed' = Allowed \/ Allowed' = Allowed + 1)
    BY <1>1, <1>2, <2>2, AllowedType DEF Settling
  <2>8. /\ i \in ran[h] => repeats' + Allowed <= repeats + Allowed' + 1
        /\ i \notin ran[h] => repeats' + Allowed <= repeats + Allowed'
    BY <2>6, <2>7
  <2> HIDE DEF i, next, R
  <2> QED BY <2>3, <2>5, <2>6, <2>8, CountSettled DEF R
<1> QED
  BY <1>3, <1>4 DEF Command, CreateHold, RecordHold, CliSkipStep, CliWalked, AddWatch,
                    CancelHold, ForgetWatch, ForgetCoverage, CliDies, Refuse

LEMMA CountBranch ==
    ASSUME RInv, [Next]_vars, Branch
    PROVE  Counted'
<1>1. PICK h \in Holds : h = cur
  BY BranchLate DEF RInv, MInv
<1>2. /\ Busy /\ TypeOK /\ flow[h] \in Loaded /\ kept[h] \in Item /\ ~kept[h].done
      /\ at \in Position(flow[h])
      /\ Walking /\ at # Stop => at \in Points(h) /\ at \in DOMAIN flow[h]
      /\ CliPoints(h)' = {}
  BY <1>1, BranchLate, Standing DEF RInv, MInv, CliPoints, Early
<1>3. CASE WalkRunStep
  <2>1. /\ Perform(h, at, copy) /\ at # Stop /\ Walking /\ ~Settling /\ Settling'
        /\ mishaps' = mishaps
    BY <1>1, <1>3 DEF WalkRunStep, MayRun, Walking, Busy, Settling
  <2>2. Allowed' = Allowed + 1
    BY <1>2, <2>1, AllowedType
  <2>3. at \in Points(h)
    BY <1>2, <2>1
  <2> QED BY <2>1, <2>2, <2>3, PerformCounts, CountRun
<1>4. CASE WalkFailStep
  <2>1. /\ Refused(h, at, copy) \/ ReplyLost(h, at, copy)
        /\ at # Stop /\ Walking /\ ~Settling /\ ~Settling'
    BY <1>1, <1>4 DEF WalkFailStep, MayRun, Walking, Busy, Settling, SetAside
  <2>2. CASE Refused(h, at, copy)
    <3>1. UNCHANGED <<ran, repeats, mishaps>>
      BY <2>2 DEF Refused, Refuse
    <3>2. Allowed' = Allowed /\ Allowed \in Nat
      BY <1>2, <2>1, <3>1, AllowedType
    <3> QED BY <3>1, <3>2, CountSame
  <2>3. CASE ReplyLost(h, at, copy)
    <3>1. Perform(h, at, copy) /\ mishaps' = mishaps + 1
      BY <2>3 DEF ReplyLost, Mishap, Spend
    <3>2. Allowed' = Allowed + 1
      BY <1>2, <2>1, <3>1, AllowedType
    <3>3. at \in Points(h)
      BY <1>2, <2>1
    <3> QED BY <3>1, <3>2, <3>3, PerformCounts, CountRun
  <2> QED BY <2>1, <2>2, <2>3
<1>5. CASE WalkCheckpoint
  <2> DEFINE next == AfterStep(flow[h], at)
             R == Rank(flow[h])
  <2>1. /\ Walking /\ Walking' /\ Settling /\ ~Settling' /\ at' = next
        /\ UNCHANGED <<ran, repeats, kept, cur, flow>>
        /\ \/ watches' = [watches EXCEPT ![h] = Checkpointed(kept[h], next)]
              /\ mishaps' = mishaps
           \/ mishaps' = mishaps + 1
    BY <1>1, <1>5 DEF WalkCheckpoint, WriteCheckpoint, Walking, Busy, Settling, Mishap, Spend
  <2>2. at # Stop /\ flow[h][at].verb \in Effects /\ at \in ran[h]
    BY <1>1, <2>1 DEF RInv, MInv, Onwards
  <2>3. CASE mishaps' = mishaps + 1
    <3>1. Allowed' = Allowed /\ Allowed \in Nat
      BY <1>2, <2>1, <2>3, AllowedType
    <3> QED BY <2>1, <3>1, CountSame
  <2>4. CASE /\ watches' = [watches EXCEPT ![h] = Checkpointed(kept[h], next)]
             /\ mishaps' = mishaps
    <3>1. at \in Points(h) /\ at \in DOMAIN flow[h] /\ flow[h][at].verb # "approve"
      BY <1>2, <2>1, <2>2 DEF Effects
    <3>2. next \in Position(flow[h]) /\ (next # Stop => R[at] < R[next])
      BY <1>2, <3>1, AfterStepType, StepRises
    <3>3. next # 0 /\ next \in Indices \cup {Stop}
      <4>1. \A j \in DOMAIN flow[h] : R[j] \in Int
        BY <1>2, RankExists
      <4>2. R[0] < R[at] /\ 0 \in DOMAIN flow[h]
        BY <1>2, <3>1, LoadedShape DEF RInv, MInv, Onwards
      <4> QED BY <1>2, <3>1, <3>2, <4>1, <4>2, LoadedShape, StepsAssumption DEF Stop
    <3>4. Points(h)' \subseteq {next} \ {Stop}
      <4>1. watches'[h] = Checkpointed(kept[h], next)
        BY <1>2, <2>4 DEF TypeOK
      <4>2. Pending(watches[h])' = {next} \ {Stop}
        BY <1>2, <3>3, <4>1, PendingCheckpoint
      <4>3. PassPoints(h)' = {next} \ {Stop}
        BY <1>1, <2>1 DEF PassPoints
      <4> QED BY <1>2, <4>2, <4>3 DEF Points
    <3>5. \A q \in Points(h)' : R[at] < R[q]
      BY <3>2, <3>4
    <3>6. /\ Allowed = Allowed' + 1 /\ repeats' = repeats
          /\ repeats \in Nat /\ Allowed' \in Nat
      <4>1. TypeOK'
        BY MInvStep DEF RInv, MInv, FInv, TInv, IInv
      <4>2. mishaps' \in Nat
        BY <4>1, DaemonAssumption DEF TypeOK
      <4>3. Allowed' = mishaps' + 0
        BY <2>1 DEF Allowed
      <4> QED BY <1>2, <2>1, <2>4, <4>2, <4>3, AllowedType
    <3>7. repeats' + Allowed <= repeats + Allowed' + 1
      BY <3>6, Spared
    <3> HIDE DEF next, R
    <3> QED BY <2>1, <2>2, <3>1, <3>5, <3>7, CountSettled DEF R
  <2> QED BY <2>1, <2>3, <2>4
<1>6. CASE WalkForgetWatch \/ WalkForgetCoverage
  <2>1. UNCHANGED <<ran, repeats, mishaps>> /\ Settling /\ Settling'
    BY <1>6 DEF WalkForgetWatch, WalkForgetCoverage, Settling
  <2>2. Allowed' = Allowed /\ Allowed \in Nat
    BY <1>2, <2>1, AllowedType
  <2> QED BY <2>1, <2>2, CountSame
<1>7. CASE \/ RecordOutcome \/ CommitBranch \/ WalkSkipStep \/ WalkEnd \/ WalkGate
           \/ ReachGate \/ InviteNext \/ InviteFails
  <2>1. /\ UNCHANGED <<ran, repeats>> /\ ~Settling /\ ~Settling'
        /\ mishaps' = mishaps \/ mishaps' = mishaps + 1
    BY <1>7 DEF RecordOutcome, CommitBranch, WriteCheckpoint, WalkSkipStep, WalkEnd, WalkGate,
                ReachGate, InviteNext, InviteFails, Refuse, Mishap, Spend, SetAside, Settling
  <2>2. Allowed <= Allowed'
    BY <1>2, <2>1, AllowedType
  <2> QED BY <2>1, <2>2, CountSame
<1> QED BY <1>3, <1>4, <1>5, <1>6, <1>7 DEF Branch

LEMMA CountedStep ==
    ASSUME RInv, [Next]_vars
    PROVE  Counted'
<1>1. TypeOK
  BY DEF RInv, MInv, FInv, TInv, IInv
<1>2. ASSUME NEW h \in Holds, Poll(h) PROVE Counted'
  <2>1. UNCHANGED <<ran, repeats, mishaps>> /\ ~Settling /\ ~Settling'
    BY <1>2 DEF Poll, PollUnreachable, PollPruned, PollDone, PollGone, PollPending,
           PollResume, PollElapsed, PollResolved, Advance, SetAside, Polling, Live, Refuse,
           Settling
  <2>2. Allowed' = Allowed /\ Allowed \in Nat
    BY <1>1, <2>1, AllowedType
  <2> QED BY <2>1, <2>2, CountSame
<1>3. CASE \/ \E h \in Holds, p \in People, r \in Responses : Answer(h, p, r)
           \/ Tick \/ UNCHANGED vars
  <2>1. UNCHANGED <<ran, repeats, mishaps, dpc>>
    BY <1>3 DEF Answer, Tick, vars
  <2>2. Allowed' = Allowed /\ Allowed \in Nat
    BY <1>1, <2>1, AllowedType DEF Settling
  <2> QED BY <2>1, <2>2, CountSame
<1>4. CASE PollStart \/ PollEnd \/ Restart
  <2>1. /\ UNCHANGED <<ran, repeats>> /\ ~Settling
        /\ mishaps' = mishaps \/ mishaps' = mishaps + 1
        /\ ~Settling'
    BY <1>4 DEF PollStart, PollEnd, Restart, Mishap, Spend, Settling
  <2>2. Allowed <= Allowed'
    BY <1>1, <2>1, AllowedType
  <2> QED BY <2>1, <2>2, CountSame
<1>5. CASE Crash
  <2>1. UNCHANGED <<ran, repeats>> /\ mishaps' = mishaps + 1 /\ ~Settling'
    BY <1>5 DEF Crash, Mishap, Spend, Settling
  <2>2. Allowed <= Allowed'
    BY <1>1, <2>1, AllowedType
  <2> QED BY <2>1, <2>2, CountSame
<1> QED
  BY <1>2, <1>3, <1>4, <1>5, CountCommand, CountBranch DEF Next, DaemonStep

\* One crash, lost reply or failed write repeats at most one step, however they
\* are spread over passes, branches and runs.
THEOREM RepeatsAreBounded == Spec => []OneRepeatPerMishap
<1>1. Init => RInv
  <2> SUFFICES ASSUME Init PROVE Counted
    BY MInvInit DEF RInv
  <2>1. Unsettled = {} /\ repeats = 0 /\ mishaps = 0 /\ ~Settling
    BY DEF Init, Unsettled, UnsettledAt, Settling
  <2>2. IsFiniteSet(Unsettled) /\ Cardinality(Unsettled) = 0
    BY <2>1, FS_EmptySet
  <2> QED BY <2>1, <2>2 DEF Counted, Allowed
<1>2. RInv /\ [Next]_vars => RInv'
  BY MInvStep, CountedStep DEF RInv
<1>3. RInv => OneRepeatPerMishap
  <2> SUFFICES ASSUME RInv PROVE repeats <= mishaps
    BY DEF OneRepeatPerMishap
  <2>1. Cardinality(Unsettled) \in Nat /\ repeats + Cardinality(Unsettled) <= Allowed
    BY FS_CardinalityType DEF RInv, Counted
  <2>2. TypeOK
    BY DEF RInv, MInv, FInv, TInv, IInv
  <2>3. CASE ~Settling
    BY <2>1, <2>2, <2>3, AllowedType
  <2>4. CASE Settling
    <3>1. Unsettled # {}
      <4>1. /\ Busy /\ cur \in Holds /\ at # Stop /\ at \in ran[cur] /\ Walking
        BY <2>4 DEF RInv, MInv, Onwards, FInv, TInv, IInv, Sited, Busy, Settling, Walking
      <4>2. PICK h \in Holds : h = cur
        BY <4>1
      <4>3. at \in Points(h) /\ at \in DOMAIN flow[h] /\ flow[h] \in Loaded
        BY <4>1, <4>2, Standing DEF RInv
      <4>4. at \in UnsettledAt(h)
        BY <4>1, <4>2, <4>3, RankExists DEF UnsettledAt
      <4>5. at \in Indices
        BY <4>3, LoadedShape
      <4>6. <<h, at>> \in Unsettled
        BY <4>4, <4>5 DEF Unsettled
      <4> QED BY <4>6
    <3>2. Cardinality(Unsettled) # 0
      BY <3>1, FS_EmptySet DEF RInv, Counted
    <3> QED BY <2>1, <2>2, <2>4, <3>2, AllowedType
  <2> QED BY <2>3, <2>4
<1> QED BY <1>1, <1>2, <1>3, PTL DEF Spec

-----------------------------------------------------------------------------
(* Runs in order: the refinement of Runs.                                  *)

\* The jumps Runs reads off a workflow are those the daemon and the command make.
LEMMA SameJumps ==
    ASSUME NEW w, NEW i
    PROVE  /\ Abs!Stop = Stop /\ Abs!Outcomes = Outcomes /\ Abs!NoOutcome = NoOutcome
           /\ \A o : Abs!NextStep(w, i, o) = NextStep(w, i, o)
           /\ \A o : Abs!GateTarget(w, i, o) = GateTarget(w, i, o)
           /\ Abs!AfterStep(w, i) = AfterStep(w, i)
<1>1. Abs!Stop = Stop /\ Abs!Outcomes = Outcomes /\ Abs!NoOutcome = NoOutcome
  BY DEF Abs!Stop, Stop, Abs!Outcomes, Outcomes, Abs!NoOutcome, NoOutcome
<1>2. ASSUME NEW id PROVE Abs!StepIndex(w, id) = StepIndex(w, id)
  BY DEF Abs!StepIndex, StepIndex, Unnamed, Abs!Unnamed, Abs!Stop, Stop
<1>3. ASSUME NEW id PROVE Abs!Resolve(w, id) = Resolve(w, id)
  BY <1>2, <1>1 DEF Abs!Resolve, Resolve, EndTarget, Abs!EndTarget
<1>4. ASSUME NEW o PROVE Abs!NextStep(w, i, o) = NextStep(w, i, o)
  <2>1. Abs!FallThrough(w, i) = FallThrough(w, i) /\ Abs!Unnamed = Unnamed
    BY <1>1 DEF FallThrough, Abs!FallThrough, Unnamed, Abs!Unnamed
  <2>2. CASE i \notin DOMAIN w
    BY <1>1, <2>2 DEF Abs!NextStep, NextStep
  <2>3. CASE i \in DOMAIN w /\ o \in Outcomes /\ w[i].on[o] # Unnamed
    BY <1>1, <1>3, <2>1, <2>3 DEF Abs!NextStep, NextStep
  <2>4. CASE i \in DOMAIN w /\ ~(o \in Outcomes /\ w[i].on[o] # Unnamed)
    BY <1>1, <1>3, <2>1, <2>4 DEF Abs!NextStep, NextStep
  <2> QED BY <2>2, <2>3, <2>4
<1>5. ASSUME NEW o PROVE Abs!GateTarget(w, i, o) = GateTarget(w, i, o)
  BY <1>1, <1>3, <1>4
     DEF Abs!GateTarget, GateTarget, BranchStart, Abs!BranchStart, Unnamed, Abs!Unnamed
<1>6. Abs!AfterStep(w, i) = AfterStep(w, i)
  BY <1>1, <1>4 DEF Abs!AfterStep, AfterStep
<1> QED BY <1>1, <1>4, <1>5, <1>6

\* The moves of the daemon and the command are moves of Runs.
LEMMA MoveIsMove ==
    ASSUME NEW h \in Holds, NEW p, NEW next, MovesTo(h, p, next)
    PROVE  next \in Abs!Moves(flow[h], ran'[h], commits'[h], p)
<1>1. CASE p \in ran'[h] /\ next = AfterStep(flow[h], p)
  BY <1>1, SameJumps DEF Abs!Moves
<1>2. CASE /\ flow[h][p].verb = "wait" \/ flow[h][p].when # Unguarded
           /\ next = NextStep(flow[h], p, NoOutcome)
  <2>1. Abs!Unguarded = Unguarded
    BY DEF Abs!Unguarded, Unguarded
  <2> QED BY <1>2, <2>1, SameJumps DEF Abs!Moves
<1>3. ASSUME NEW o \in Outcomes, <<p, o>> \in commits'[h],
             next = GateTarget(flow[h], p, o)
      PROVE  next \in Abs!Moves(flow[h], ran'[h], commits'[h], p)
  BY <1>3, SameJumps DEF Abs!Moves
<1>4. ASSUME NEW o, Opens(flow[h], p, o, next), o # NoOutcome => <<p, o>> \in commits'[h]
      PROVE  next \in Abs!Moves(flow[h], ran'[h], commits'[h], p)
  <2>1. \A s : GateOutcomes(s) \subseteq Outcomes /\ NoOutcome \notin Outcomes
    BY DEF GateOutcomes, Outcomes, NoOutcome
  <2> QED BY <1>2, <1>3, <1>4, <2>1 DEF Opens
<1> QED BY <1>1, <1>2, <1>4 DEF MovesTo

\* A run may come to the first step after the hold, to wherever it moves from a
\* step it may have come to, and as more happens, to no fewer steps.
LEMMA FirstReached ==
    ASSUME NEW w, NEW E, NEW P, NextStep(w, 0, NoOutcome) \in DOMAIN w, Stop \notin DOMAIN w
    PROVE  NextStep(w, 0, NoOutcome) \in Abs!Reach(w, E, P)
<1>1. Abs!NextStep(w, 0, Abs!NoOutcome) = NextStep(w, 0, NoOutcome) /\ Abs!Stop = Stop
  BY SameJumps
<1> QED BY <1>1 DEF Abs!Reach, Abs!Closed

LEMMA MoveReached ==
    ASSUME NEW w, NEW E, NEW P, NEW i \in Abs!Reach(w, E, P),
           NEW j \in Abs!Moves(w, E, P, i), j \in DOMAIN w, Stop \notin DOMAIN w
    PROVE  j \in Abs!Reach(w, E, P)
<1> DEFINE first == Abs!NextStep(w, 0, Abs!NoOutcome)
           edges == Abs!Edges(w, E, P)
<1>1. i \in DOMAIN w /\ j # Abs!Stop
  BY SameJumps DEF Abs!Reach
<1>2. <<i, j>> \in edges
  BY <1>1 DEF Abs!Edges
<1>3. ASSUME NEW S \in SUBSET DOMAIN w, Abs!Closed(first, edges, S)
      PROVE  j \in S
  <2>1. i \in S
    BY <1>3 DEF Abs!Reach
  <2> QED BY <1>2, <1>3, <2>1 DEF Abs!Closed
<1> QED BY <1>3 DEF Abs!Reach

LEMMA ReachGrows ==
    ASSUME NEW w, NEW E, NEW P, NEW E2, NEW P2, E \subseteq E2, P \subseteq P2
    PROVE  Abs!Reach(w, E, P) \subseteq Abs!Reach(w, E2, P2)
<1>1. ASSUME NEW i PROVE Abs!Moves(w, E, P, i) \subseteq Abs!Moves(w, E2, P2, i)
  BY DEF Abs!Moves
<1>2. Abs!Edges(w, E, P) \subseteq Abs!Edges(w, E2, P2)
  BY <1>1 DEF Abs!Edges
<1>3. ASSUME NEW first, NEW S, Abs!Closed(first, Abs!Edges(w, E2, P2), S)
      PROVE  Abs!Closed(first, Abs!Edges(w, E, P), S)
  BY <1>2, <1>3 DEF Abs!Closed
<1> QED BY <1>3 DEF Abs!Reach

\* Wherever a run may go on from, its own workflow leads there.
Placed == \A h \in Holds : Points(h) \subseteq Abs!Come(h)

PInv == MInv /\ Placed

LEMMA CommitsGrow ==
    ASSUME TypeOK, [Next]_vars
    PROVE  \A h \in Holds : commits[h] \subseteq commits'[h]
<1>1. CASE CommitBranch
  <2>1. \E S : commits' = [commits EXCEPT ![cur] = @ \cup S]
    <3>1. commits' = [commits EXCEPT ![cur] =
              @ \cup IF outcome = NoOutcome THEN {} ELSE {<<kept[cur].step, outcome>>}]
      BY <1>1 DEF CommitBranch
    <3> QED BY <3>1
  <2>2. DOMAIN commits = Holds
    BY DEF TypeOK
  <2> QED BY <2>1, <2>2
<1> QED BY <1>1, CommitsStay

LEMMA PlacedStep ==
    ASSUME PInv, [Next]_vars
    PROVE  Placed'
<1>1. /\ MInv /\ IInv /\ flow' = flow
      /\ \A h \in Holds : flow[h] \in Loaded
  BY FlowStays DEF PInv, MInv, FInv, TInv, IInv, Sited
<1>2. IInv'
  BY <1>1, MInvStep DEF MInv, FInv, TInv
<1>3. \A h \in Holds : ran[h] \subseteq ran'[h] /\ commits[h] \subseteq commits'[h]
  BY <1>1, RanGrows, CommitsGrow DEF IInv
<1>4. ASSUME NEW h \in Holds, NEW q \in Points(h)'
      PROVE  q \in Abs!Reach(flow[h], ran'[h], commits'[h])
  <2>1. q \in DOMAIN flow[h] /\ Stop \notin DOMAIN flow[h]
    BY <1>1, <1>2, <1>4, PointsInsideAfter, LoadedShape, StepsAssumption DEF Indices, Stop
  <2>2. Points(h) \subseteq Abs!Reach(flow[h], ran'[h], commits'[h])
    <3>1. Points(h) \subseteq Abs!Reach(flow[h], ran[h], commits[h])
      BY DEF PInv, Placed, Abs!Come
    <3> QED BY <1>3, <3>1, ReachGrows
  <2>3. CASE Starts(h)
    <3>1. q = NextStep(flow[h], 0, NoOutcome)
      BY <1>4, <2>3 DEF Starts
    <3> QED BY <2>1, <3>1, FirstReached
  <2>4. CASE q \in Points(h)
    BY <2>2, <2>4
  <2>5. ASSUME NEW p \in Points(h), MovesTo(h, p, q)
        PROVE  q \in Abs!Reach(flow[h], ran'[h], commits'[h])
    BY <2>1, <2>2, <2>5, MoveIsMove, MoveReached
  <2> QED BY <1>1, <1>4, <2>3, <2>4, <2>5, MovesStep DEF MovesOn
<1> QED BY <1>1, <1>4 DEF Placed, Abs!Come

LEMMA PInvInit == Init => PInv
<1> SUFFICES ASSUME Init PROVE PInv
  OBVIOUS
<1>1. \A h \in Holds : Points(h) = {}
  BY DEF Init, Points, PassPoints, CliPoints, Pending, Nobody, Walking, Busy
<1> QED BY <1>1, MInvInit DEF PInv, Placed

\* A step takes effect where a run stands, or it does not.
LEMMA EffectAtPoint ==
    ASSUME MInv, [Next]_vars
    PROVE  \/ ran' = ran
           \/ /\ commits' = commits
              /\ \E h \in Holds : \E i \in Points(h) :
                    /\ flow[h][i].verb \in Effects
                    /\ ran' = [ran EXCEPT ![h] = @ \cup {i}]
<1>1. ASSUME NEW h \in Holds, NEW i \in Points(h), NEW known, flow[h][i].verb \in Effects,
             Perform(h, i, known) \/ Refused(h, i, known) \/ ReplyLost(h, i, known),
             commits' = commits
      PROVE  \/ ran' = ran
             \/ /\ commits' = commits
                /\ \E k \in Holds : \E j \in Points(k) :
                      /\ flow[k][j].verb \in Effects
                      /\ ran' = [ran EXCEPT ![k] = @ \cup {j}]
  BY <1>1 DEF Perform, Refused, ReplyLost
<1>2. ASSUME NEW h \in Holds, CliRunStep(h)
      PROVE  cliAt[h] \in Points(h) /\ flow[h][cliAt[h]].verb \in Effects /\ commits' = commits
  BY <1>2 DEF CliRunStep, MayRun, Points, CliPoints
<1>3. ASSUME NEW h \in Holds, Command(h), ~CliRunStep(h)
      PROVE  ran' = ran
  BY <1>3 DEF Command, CreateHold, RecordHold, CliSkipStep, CliWalked, AddWatch, CancelHold,
              ForgetWatch, ForgetCoverage, CliDies
<1>4. ASSUME NEW h \in Holds, Poll(h) PROVE ran' = ran
  BY <1>4 DEF Poll, PollUnreachable, PollPruned, PollDone, PollGone, PollPending,
              PollResume, PollElapsed, PollResolved, Advance
<1>5. ASSUME WalkRunStep \/ WalkFailStep
      PROVE  cur \in Holds /\ at \in Points(cur) /\ flow[cur][at].verb \in Effects
             /\ commits' = commits
  <2>1. dpc = "walk" /\ at # Stop /\ flow[cur][at].verb \in Effects /\ commits' = commits
    BY <1>5 DEF WalkRunStep, WalkFailStep, MayRun
  <2>2. cur \in Holds
    BY <2>1 DEF MInv, FInv, TInv, IInv, Sited, Busy
  <2> QED BY <2>1, <2>2 DEF Points, PassPoints, Walking, Busy
<1>6. CASE Branch /\ ~WalkRunStep /\ ~WalkFailStep
  BY <1>6 DEF Branch, RecordOutcome, CommitBranch, WalkSkipStep, WalkForgetWatch,
              WalkForgetCoverage, WalkCheckpoint, WalkEnd, WalkGate, ReachGate, InviteNext,
              InviteFails
<1>7. CASE Tick \/ PollStart \/ PollEnd \/ Restart \/ Crash \/ UNCHANGED vars
  BY <1>7 DEF Tick, PollStart, PollEnd, Restart, Crash, vars
<1>8. ASSUME NEW h \in Holds, NEW p \in People, NEW r \in Responses, Answer(h, p, r)
      PROVE  ran' = ran
  BY <1>8 DEF Answer
<1>9. ASSUME NEW h \in Holds, CliRunStep(h)
      PROVE  \E known : \/ Perform(h, cliAt[h], known) \/ Refused(h, cliAt[h], known)
                        \/ ReplyLost(h, cliAt[h], known)
  BY <1>9 DEF CliRunStep
<1>10. ASSUME WalkRunStep \/ WalkFailStep
       PROVE  Perform(cur, at, copy) \/ Refused(cur, at, copy) \/ ReplyLost(cur, at, copy)
  BY <1>10 DEF WalkRunStep, WalkFailStep
<1>11. CASE \E h \in Holds : CliRunStep(h)
  BY <1>1, <1>2, <1>9, <1>11
<1>12. CASE WalkRunStep \/ WalkFailStep
  BY <1>1, <1>5, <1>10, <1>12
<1> QED
  BY <1>3, <1>4, <1>6, <1>7, <1>8, <1>11, <1>12 DEF Next, DaemonStep

\* So is an outcome acted on, at the gate the run stands at.
LEMMA CommitAtPoint ==
    ASSUME MInv, [Next]_vars
    PROVE  \/ commits' = commits
           \/ /\ ran' = ran
              /\ \E h \in Holds : \E g \in Points(h) :
                    /\ flow[h][g].verb = "approve"
                    /\ \E o \in GateOutcomes(flow[h][g]) :
                          commits' = [commits EXCEPT ![h] = @ \cup {<<g, o>>}]
<1> SUFFICES ASSUME CommitBranch, outcome # NoOutcome
             PROVE  /\ ran' = ran
                    /\ \E h \in Holds : \E g \in Points(h) :
                          /\ flow[h][g].verb = "approve"
                          /\ \E o \in GateOutcomes(flow[h][g]) :
                                commits' = [commits EXCEPT ![h] = @ \cup {<<g, o>>}]
  <2>1. CASE commits' = commits
    BY <2>1
  <2>2. CASE CommitBranch /\ outcome = NoOutcome
    <3>1. commits' = [commits EXCEPT ![cur] = @] /\ commits \in [Holds -> SUBSET (Indices \X Outcomes)]
      BY <2>2 DEF CommitBranch, MInv, FInv, TInv, IInv, TypeOK
    <3> QED BY <3>1
  <2> QED BY <2>1, <2>2, CommitsStay
<1>1. PICK h \in Holds : h = cur
  BY BranchLate DEF MInv, Branch
<1>2. dpc = "commit" /\ Busy /\ ~Walking
  BY DEF CommitBranch, Busy, Walking
<1>3. kept[h].step \in Points(h)
  BY <1>1, <1>2, Standing
<1>4. /\ flow[h][kept[h].step].verb = "approve"
      /\ outcome \in GateOutcomes(flow[h][kept[h].step])
  BY <1>1, <1>2 DEF MInv, Onwards, Opens
<1>5. /\ ran' = ran
      /\ commits' = [commits EXCEPT ![h] = @ \cup {<<kept[h].step, outcome>>}]
  BY <1>1 DEF CommitBranch
<1> QED BY <1>3, <1>4, <1>5

\* Watched runs are runs in order: a step of the daemon, of a command or of
\* anybody else performs at most one effect or acts on one outcome, and only what
\* the run's own workflow leads to.
THEOREM RunsAreInOrder == Spec => RunsInOrder
<1>1. Init => PInv /\ Abs!Init
  BY PInvInit DEF Init, Abs!Init
<1>2. PInv /\ [Next]_vars => PInv'
  BY PlacedStep, MInvStep DEF PInv
<1>3. PInv /\ [Next]_vars => [Abs!Next]_(Abs!vars)
  <2> SUFFICES ASSUME PInv, [Next]_vars PROVE Abs!Next \/ UNCHANGED Abs!vars
    OBVIOUS
  <2>1. /\ MInv /\ flow' = flow
        /\ \A h \in Holds : Points(h) \subseteq Abs!Come(h)
        /\ \A h \in Holds : Points(h) \subseteq DOMAIN flow[h]
    BY FlowStays, PointsType DEF PInv, Placed, MInv, FInv, TInv
  <2>2. Abs!Effects = Effects /\ Abs!Outcomes = Outcomes
    BY DEF Abs!Effects, Effects, Abs!Outcomes, Outcomes
  <2>3. \A s : Abs!GateOutcomes(s) = GateOutcomes(s) /\ GateOutcomes(s) \subseteq Outcomes
    BY DEF Abs!GateOutcomes, GateOutcomes, Outcomes
  <2>4. CASE ran' = ran /\ commits' = commits
    BY <2>1, <2>4 DEF Abs!vars
  <2>5. ASSUME ran' # ran, commits' = commits, NEW h \in Holds, NEW i \in Points(h),
               flow[h][i].verb \in Effects, ran' = [ran EXCEPT ![h] = @ \cup {i}]
        PROVE  Abs!Next
    <3>1. Abs!TakeEffect(h, i)
      BY <2>1, <2>2, <2>5 DEF Abs!TakeEffect
    <3> QED BY <2>1, <2>5, <3>1 DEF Abs!Next
  <2>6. ASSUME commits' # commits, ran' = ran, NEW h \in Holds, NEW g \in Points(h),
               flow[h][g].verb = "approve", NEW o \in GateOutcomes(flow[h][g]),
               commits' = [commits EXCEPT ![h] = @ \cup {<<g, o>>}]
        PROVE  Abs!Next
    <3>1. Abs!PassGate(h, g, o)
      BY <2>1, <2>3, <2>6 DEF Abs!PassGate
    <3>2. g \in DOMAIN flow[h] /\ o \in Abs!Outcomes
      BY <2>1, <2>2, <2>3
    <3> QED BY <2>6, <3>1, <3>2 DEF Abs!Next
  <2> QED BY <2>1, <2>4, <2>5, <2>6, EffectAtPoint, CommitAtPoint
<1> QED BY <1>1, <1>2, <1>3, PTL DEF Spec, RunsInOrder, Abs!Spec

\* What took effect and the gates that were passed lie where the workflow led to.
Arrived ==
    \A h \in Holds :
        /\ ran[h] \subseteq Abs!Come(h)
        /\ \A c \in commits[h] : c[1] \in Abs!Come(h)

LEMMA ComeGrows ==
    ASSUME MInv, [Next]_vars, NEW h \in Holds
    PROVE  Abs!Come(h) \subseteq Abs!Come(h)'
<1>1. ran[h] \subseteq ran'[h]
  BY RanGrows DEF MInv, FInv, TInv
<1>2. commits[h] \subseteq commits'[h]
  BY CommitsGrow DEF MInv, FInv, TInv, IInv
<1>3. Abs!Come(h)' = Abs!Reach(flow[h], ran'[h], commits'[h])
  BY FlowStays DEF Abs!Come
<1>4. Abs!Reach(flow[h], ran[h], commits[h]) \subseteq Abs!Reach(flow[h], ran'[h], commits'[h])
  BY <1>1, <1>2, ReachGrows
<1> QED BY <1>3, <1>4 DEF Abs!Come

LEMMA ArrivedStep ==
    ASSUME PInv, Arrived, [Next]_vars
    PROVE  Arrived'
<1>1. /\ MInv /\ ran \in [Holds -> SUBSET Indices]
      /\ commits \in [Holds -> SUBSET (Indices \X Outcomes)]
      /\ \A h \in Holds : Points(h) \subseteq Abs!Come(h)
  BY DEF PInv, Placed, MInv, FInv, TInv, IInv, TypeOK
<1>2. \A h \in Holds : Abs!Come(h) \subseteq Abs!Come(h)'
  BY <1>1, ComeGrows
<1>3. \A h \in Holds : ran'[h] \subseteq ran[h] \cup Points(h)
  BY <1>1, EffectAtPoint
<1>4. \A h \in Holds : \A c \in commits'[h] : c \in commits[h] \/ c[1] \in Points(h)
  BY <1>1, CommitAtPoint
<1> QED BY <1>1, <1>2, <1>3, <1>4 DEF Arrived

\* Every outcome at any of the gates of S.
AnyOutcome(S) == S \X Outcomes

LEMMA OutcomeOf ==
    ASSUME NEW I, NEW D, NEW c \in I \X Outcomes, c[1] \in D
    PROVE  c \in AnyOutcome(D)
  BY DEF AnyOutcome

\* Where a run may come to if gate g never gives outcome o, whatever else happens.
Without(h, g, o) ==
    Abs!Reach(flow[h], DOMAIN flow[h], AnyOutcome(DOMAIN flow[h]) \ {<<g, o>>})

\* No step behind an outcome takes effect before the daemon acted on that outcome.
GatesHold ==
    \A h \in Holds : \A g \in DOMAIN flow[h], o \in Outcomes :
        <<g, o>> \notin commits[h] => ran[h] \subseteq Without(h, g, o)

\* Until the outcome of a gate is acted on, nothing of the branch behind it takes
\* effect, whoever walks the run and however often it dies (walkSteps, branchPlan).
THEOREM GatesAreNotPassedBy == Spec => []GatesHold
<1>1. Init => PInv /\ Arrived
  BY PInvInit DEF Init, Arrived
<1>2. PInv /\ Arrived /\ [Next]_vars => (PInv /\ Arrived)'
  BY PlacedStep, MInvStep, ArrivedStep DEF PInv
<1>3. PInv /\ Arrived => GatesHold
  <2> SUFFICES ASSUME PInv, Arrived, NEW h \in Holds, NEW g, NEW o,
                      <<g, o>> \notin commits[h]
               PROVE  ran[h] \subseteq Without(h, g, o)
    BY DEF GatesHold
  <2>1. Abs!Come(h) \subseteq DOMAIN flow[h]
    BY DEF Abs!Come, Abs!Reach
  <2>2. ran[h] \subseteq DOMAIN flow[h]
    BY <2>1 DEF Arrived
  <2>3. commits[h] \subseteq AnyOutcome(DOMAIN flow[h]) \ {<<g, o>>}
    <3> SUFFICES ASSUME NEW c \in commits[h] PROVE c \in AnyOutcome(DOMAIN flow[h])
      OBVIOUS
    <3>1. c \in Indices \X Outcomes
      BY DEF PInv, MInv, FInv, TInv, IInv, TypeOK
    <3>2. c[1] \in DOMAIN flow[h]
      BY <2>1 DEF Arrived
    <3> QED BY <3>1, <3>2, OutcomeOf
  <2>4. Abs!Come(h) \subseteq Without(h, g, o)
    BY <2>2, <2>3, ReachGrows DEF Abs!Come, Without
  <2> QED BY <2>4 DEF Arrived
<1> QED BY <1>1, <1>2, <1>3, PTL DEF Spec

-----------------------------------------------------------------------------
(* The watch list.                                                         *)

\* A run is put on the list while no pass is under way.
BetweenPasses == \A h \in Holds : AddWatch(h) => dpc \in {"idle", "down"}

\* The pass's copy of the list misses no run of the file, but those it dropped.
CopyWhole ==
    dpc \notin {"idle", "down"} =>
        \A h \in Holds : watches[h] # NoItem /\ kept[h] = NoItem => dropped[h]

WInv == IInv /\ CopyWhole /\ NoWatchLost

\* A step of a command, which leaves the pass alone.
LEMMA ListCommand ==
    ASSUME WInv, NEW h \in Holds, Command(h), BetweenPasses
    PROVE  CopyWhole' /\ NoWatchLost'
<1>1. UNCHANGED <<kept, dpc>> /\ TypeOK
  BY DEF Command, CreateHold, RecordHold, CliRunStep, CliSkipStep, CliWalked, AddWatch,
         CancelHold, ForgetWatch, ForgetCoverage, CliDies, WInv, IInv
<1>2. CASE AddWatch(h)
  <2>1. dpc \in {"idle", "down"}
    BY <1>2 DEF BetweenPasses
  <2>2. watches'[h] # NoItem
    <3>1. watches'[h].step = cliAt[h]
      BY <1>1, <1>2 DEF TypeOK, AddWatch
    <3>2. cliAt[h] # Stop
      BY <1>2 DEF AddWatch, WInv, IInv, Sited
    <3> QED BY <3>1, <3>2 DEF NoItem
  <2>3. \A k \in Holds \ {h} : watches'[k] = watches[k] /\ told'[k] = told[k]
    BY <1>1, <1>2 DEF TypeOK, AddWatch
  <2>4. dropped' = dropped
    BY <1>2 DEF AddWatch
  <2> QED BY <1>1, <2>1, <2>2, <2>3, <2>4 DEF WInv, CopyWhole, NoWatchLost
<1>3. CASE ForgetWatch(h)
  <2>1. /\ watches' = [watches EXCEPT ![h] = NoItem] /\ told' = told
        /\ dropped' = [dropped EXCEPT ![h] = TRUE]
    BY <1>3 DEF ForgetWatch
  <2>2. \A k \in Holds : /\ watches'[k] = watches[k] \/ k = h
                         /\ dropped'[k] = dropped[k] \/ k = h
    BY <1>1, <2>1 DEF TypeOK
  <2>3. dropped'[h]
    BY <1>1, <2>1 DEF TypeOK
  <2> QED BY <1>1, <2>1, <2>2, <2>3 DEF WInv, CopyWhole, NoWatchLost
<1>4. CASE UNCHANGED <<watches, told, dropped>>
  BY <1>1, <1>4 DEF WInv, CopyWhole, NoWatchLost
<1> QED BY <1>2, <1>3, <1>4
        DEF Command, CreateHold, RecordHold, CliRunStep, CliSkipStep, CliWalked,
            CancelHold, ForgetCoverage, CliDies

\* The pass sets a run aside: what leaves its copy is dropped.
LEMMA ListAside ==
    ASSUME WInv, NEW h \in Holds, NEW item, SetAside(h, item), watches' = watches,
           dpc \notin {"idle", "down"}
    PROVE  CopyWhole' /\ NoWatchLost'
<1>1. /\ kept' = [kept EXCEPT ![h] = item] /\ told' = told
      /\ dropped' = [dropped EXCEPT ![h] = @ \/ item = NoItem]
  BY DEF SetAside
<1>2. \A k \in Holds : kept'[k] = kept[k] \/ (k = h /\ kept'[k] = item)
  BY <1>1 DEF WInv, IInv, TypeOK
<1>3. \A k \in Holds : dropped[k] => dropped'[k]
  BY <1>1 DEF WInv, IInv, TypeOK
<1>4. item = NoItem => dropped'[h]
  BY <1>1 DEF WInv, IInv, TypeOK
<1> QED BY <1>1, <1>2, <1>3, <1>4 DEF WInv, CopyWhole, NoWatchLost

LEMMA ListPoll ==
    ASSUME WInv, NEW h \in Holds, Poll(h)
    PROVE  CopyWhole' /\ NoWatchLost'
<1>1. watches' = watches /\ dpc = "pass"
  BY DEF Poll, PollUnreachable, PollPruned, PollDone, PollGone, PollPending, PollResume,
         PollElapsed, PollResolved, Advance, Live, Polling
<1>2. CASE \E item : SetAside(h, item)
  BY <1>1, <1>2, ListAside
<1>3. CASE UNCHANGED <<kept, told, dropped>>
  BY <1>1, <1>3 DEF WInv, CopyWhole, NoWatchLost
<1> QED BY <1>2, <1>3 DEF Poll, PollUnreachable, PollPruned, PollDone, PollGone, PollPending,
           PollResume, PollElapsed, PollResolved, Advance

LEMMA ListBranch ==
    ASSUME WInv, Branch
    PROVE  CopyWhole' /\ NoWatchLost'
<1>1. Busy
  BY DEF Busy, Branch, RecordOutcome, CommitBranch, WalkRunStep, WalkSkipStep, WalkFailStep,
         WalkForgetWatch, WalkForgetCoverage, WalkCheckpoint, WalkEnd, WalkGate, ReachGate,
         InviteNext, InviteFails
<1>2. PICK h \in Holds : h = cur
  BY <1>1 DEF WInv, IInv, Sited
<1>3. TypeOK /\ kept[h] # NoItem /\ kept[h] \in Item /\ dpc \notin {"idle", "down"}
  BY <1>1, <1>2 DEF WInv, IInv, Sited, TypeOK, Busy
<1>4. CASE RecordOutcome \/ WalkRunStep \/ WalkSkipStep \/ WalkForgetCoverage \/ WalkGate
  <2>1. UNCHANGED <<watches, kept, told, dropped>>
    BY <1>4 DEF RecordOutcome, WalkRunStep, WalkSkipStep, WalkForgetCoverage, WalkGate
  <2> QED BY <1>3, <2>1 DEF WInv, CopyWhole, NoWatchLost
<1>5. CASE CommitBranch \/ WalkCheckpoint
  <2>1. PICK next \in Indices \cup {Stop} :
            watches' = watches \/ watches' = [watches EXCEPT ![h] = Checkpointed(kept[h], next)]
    <3>1. at \in Indices \cup {Stop}
      BY <1>3 DEF TypeOK
    <3>2. AfterStep(flow[h], at) \in Indices \cup {Stop}
      BY <1>2, AfterStepType, LoadedShape DEF WInv, IInv, Sited, Position
    <3> QED BY <1>2, <1>5, <3>1, <3>2 DEF CommitBranch, WalkCheckpoint, WriteCheckpoint
  <2>2. Checkpointed(kept[h], next) # NoItem
    BY <1>3, NoItemIsNone, CheckpointedType
  <2>3. \A k \in Holds : \/ watches'[k] = watches[k]
                         \/ k = h /\ watches'[k] # NoItem
    BY <1>3, <2>1, <2>2 DEF TypeOK
  <2>4. UNCHANGED <<kept, told, dropped>>
    BY <1>5 DEF CommitBranch, WalkCheckpoint
  <2> QED BY <1>3, <2>3, <2>4 DEF WInv, CopyWhole, NoWatchLost
<1>6. CASE WalkForgetWatch
  <2>1. /\ watches' = [watches EXCEPT ![h] = NoItem] /\ UNCHANGED <<kept, told>>
        /\ dropped' = [dropped EXCEPT ![h] = TRUE]
    BY <1>2, <1>6 DEF WalkForgetWatch
  <2>2. \A k \in Holds : /\ watches'[k] = watches[k] \/ k = h
                         /\ dropped'[k] = dropped[k] \/ k = h
    BY <1>3, <2>1 DEF TypeOK
  <2>3. dropped'[h]
    BY <1>3, <2>1 DEF TypeOK
  <2> QED BY <1>3, <2>1, <2>2, <2>3 DEF WInv, CopyWhole, NoWatchLost
<1>7. CASE WalkFailStep \/ WalkEnd \/ ReachGate \/ InviteNext \/ InviteFails
  <2>1. watches' = watches /\ \E item : SetAside(h, item)
    BY <1>2, <1>7 DEF WalkFailStep, WalkEnd, ReachGate, InviteNext, InviteFails
  <2> QED BY <1>3, <2>1, ListAside
<1> QED BY <1>4, <1>5, <1>6, <1>7 DEF Branch

\* The user who was told that the run is watched can rely on it, as long as no run
\* is put on the list in the middle of a pass (gateWaiting, pollAll): with addWatch
\* one step, that is the one way a watch is lost, whatever crashes or fails besides.
THEOREM WatchesAreKept ==
    Spec /\ [][BetweenPasses]_vars => []NoWatchLost
<1>1. Init => WInv
  BY InvInit DEF Init, WInv, CopyWhole, NoWatchLost
<1>2. WInv /\ [Next]_vars /\ [BetweenPasses]_vars => WInv'
  <2> SUFFICES ASSUME WInv, [Next]_vars, BetweenPasses \/ UNCHANGED vars
               PROVE  CopyWhole' /\ NoWatchLost'
    BY InvStep DEF WInv
  <2>1. CASE UNCHANGED vars
    BY <2>1 DEF vars, WInv, CopyWhole, NoWatchLost
  <2>2. ASSUME NEW h \in Holds, Command(h), BetweenPasses
        PROVE  CopyWhole' /\ NoWatchLost'
    BY <2>2, ListCommand
  <2>3. ASSUME NEW h \in Holds, NEW p \in People, NEW r \in Responses, Answer(h, p, r)
        PROVE  CopyWhole' /\ NoWatchLost'
    BY <2>3 DEF Answer, WInv, CopyWhole, NoWatchLost
  <2>4. CASE Tick
    <3>1. /\ UNCHANGED <<dpc, told, dropped>>
          /\ watches' = Older(watches) /\ kept' = Older(kept)
      BY <2>4 DEF Tick
    <3>2. \A h \in Holds : /\ watches'[h] = NoItem <=> watches[h] = NoItem
                           /\ kept'[h] = NoItem <=> kept[h] = NoItem
      BY <3>1, OlderType DEF WInv, IInv, TypeOK
    <3> QED BY <3>1, <3>2 DEF WInv, CopyWhole, NoWatchLost
  <2>5. CASE PollStart
    BY <2>5 DEF PollStart, WInv, CopyWhole, NoWatchLost
  <2>6. CASE PollEnd
    <3>1. /\ watches' = kept \/ watches' = watches
          /\ dpc = "pass" /\ dpc' = "idle" /\ UNCHANGED <<told, dropped>>
      BY <2>6 DEF PollEnd
    <3> QED BY <3>1 DEF WInv, CopyWhole, NoWatchLost
  <2>7. CASE Restart \/ Crash
    BY <2>7 DEF Restart, Crash, WInv, CopyWhole, NoWatchLost
  <2> QED
    BY <2>1, <2>2, <2>3, <2>4, <2>5, <2>6, <2>7, ListPoll, ListBranch DEF Next, DaemonStep
<1>3. WInv => NoWatchLost
  BY DEF WInv
<1> QED BY <1>1, <1>2, <1>3, PTL DEF Spec

-----------------------------------------------------------------------------
(* The team.                                                               *)

\* Where a walk goes on from step i without ending there.
WalksOn(w, i) ==
    (IF w[i].verb \in Effects THEN {AfterStep(w, i)} ELSE {})
        \cup (IF w[i].when # Unguarded THEN {NextStep(w, i, NoOutcome)} ELSE {})

\* The steps of S are all that a walk comes to after a notify, and none invites.
Closes(w, S) ==
    /\ \A i \in DOMAIN w : w[i].verb = "notify" => AfterStep(w, i) \in S \cup {Stop}
    /\ \A i \in S : ~NamesApprover(w[i]) /\ WalksOn(w, i) \subseteq S \cup {Stop}

\* No walk of workflow w goes from a notify to a gate that invites somebody.
TeamLast(w) == \E S \in SUBSET DOMAIN w : Closes(w, S)

Behind(w) == CHOOSE S \in SUBSET DOMAIN w : Closes(w, S)

Notified(h) == \E i \in ran[h] : flow[h][i].verb = "notify"

\* Once a notify step added the team to the hold, nobody takes them off again.
TeamKept ==
    \A h \in Holds :
        TeamLast(flow[h]) /\ Notified(h) /\ exists[h] => Team \subseteq att[h]

\* The hold has whom the run command asked, as long as the command walks.
Hosted ==
    \A h \in Holds : exists[h] /\ cli[h] \in {"made", "walk"} => Invited(flow[h]) \subseteq att[h]

\* The step the walk is at, or about to move to.
Heading == IF dpc = "checkpoint" THEN AfterStep(flow[cur], at) ELSE at

\* What the daemon will send back lacks the team only where it sends nothing.
CopyFits ==
    Busy /\ exists[cur] =>
        /\ copy \subseteq att[cur]
        /\ TeamLast(flow[cur]) /\ Notified(cur) =>
              Team \subseteq copy \/ Heading \in Behind(flow[cur]) \cup {Stop}

GInv == CInv /\ TeamKept /\ Hosted /\ CopyFits

LEMMA BehindCloses ==
    ASSUME NEW w, TeamLast(w)
    PROVE  Behind(w) \in SUBSET DOMAIN w /\ Closes(w, Behind(w))
  BY DEF TeamLast, Behind

\* A step of a command leaves the daemon's copy fitting.
LEMMA TeamCommand ==
    ASSUME GInv, NEW h \in Holds, Command(h)
    PROVE  TeamKept' /\ Hosted' /\ CopyFits'
<1>1. /\ TypeOK /\ FreshAt(h) /\ Elsewhere(h)
      /\ UNCHANGED <<flow, dpc, cur, copy, at>>
  <2>1. UNCHANGED <<flow, dpc, cur, copy, at>>
    BY DEF Command, CreateHold, RecordHold, CliRunStep, CliSkipStep, CliWalked, AddWatch,
           CancelHold, ForgetWatch, ForgetCoverage, CliDies
  <2> QED BY <2>1, CommandElsewhere DEF GInv, CInv, FInv, TInv, IInv, Fresh
<1>2. /\ TeamLast(flow[h]) /\ Notified(h)' /\ exists'[h] => Team \subseteq att'[h]
      /\ exists'[h] /\ cli'[h] \in {"made", "walk"} => Invited(flow[h]) \subseteq att'[h]
  <2>1. CASE CreateHold(h)
    <3>1. ran'[h] = {} /\ att'[h] = Invited(flow[h])
      BY <1>1, <2>1 DEF CreateHold, FreshAt, TypeOK
    <3> QED BY <3>1 DEF Notified
  <2>2. CASE CliRunStep(h)
    <3> DEFINE i == cliAt[h]
               known == Invited(flow[h])
    <3>1. cli[h] = "walk" /\ (Perform(h, i, known) \/ Refused(h, i, known) \/ ReplyLost(h, i, known))
      BY <2>2 DEF CliRunStep
    <3>2. ASSUME Perform(h, i, known), exists'[h]
          PROVE  /\ Notified(h)' => Notified(h) \/ Team \subseteq att'[h]
                 /\ att'[h] = att[h] \/ att'[h] = known \cup Team
      <4>1. exists[h]
        BY <1>1, <3>2, PerformOne
      <4>2. known \subseteq att[h]
        BY <3>1, <4>1 DEF GInv, Hosted
      <4>3. ran'[h] = ran[h] \cup {i}
        BY <1>1, <3>2 DEF Perform, TypeOK
      <4>4. att'[h] = att[h] \/ att'[h] = known \cup Team
        BY <1>1, <3>2 DEF Perform, SetAttendees, TypeOK
      <4>5. flow[h][i].verb = "notify" => Team \subseteq att'[h]
        <5>1. CASE Needless(h, i, known)
          BY <3>2, <4>2, <5>1 DEF Perform, Needless
        <5>2. CASE ~Needless(h, i, known) /\ flow[h][i].verb = "notify"
          BY <1>1, <3>2, <5>2 DEF Perform, SetAttendees, TypeOK
        <5> QED BY <5>1, <5>2
      <4> QED BY <1>1, <4>3, <4>4, <4>5 DEF Notified
    <3>3. ASSUME Refused(h, i, known) PROVE UNCHANGED <<exists, att, ran>>
      BY <3>3 DEF Refused
    <3>4. exists'[h] => exists[h]
      BY <1>1, <3>1, PerformOne, FailedOne
    <3>5. ASSUME exists'[h]
          PROVE  /\ Notified(h)' => Notified(h) \/ Team \subseteq att'[h]
                 /\ att'[h] = att[h] \/ att'[h] = known \cup Team
      BY <1>1, <3>1, <3>2, <3>3, <3>5 DEF ReplyLost, Notified
    <3> QED BY <1>1, <3>1, <3>4, <3>5 DEF GInv, TeamKept, Hosted
  <2>3. CASE /\ UNCHANGED <<att, ran>> /\ (exists'[h] => exists[h])
             /\ cli'[h] \in {"made", "walk"} => cli[h] \in {"made", "walk"}
    BY <1>1, <2>3 DEF GInv, TeamKept, Hosted, Notified
  <2>4. CASE RecordHold(h)
    BY <1>1, <2>4 DEF RecordHold, GInv, Hosted, FreshAt, Notified
  <2>5. CASE CliSkipStep(h) \/ CliWalked(h) \/ AddWatch(h) \/ CancelHold(h) \/ ForgetWatch(h)
             \/ ForgetCoverage(h) \/ CliDies(h)
    <3>1. UNCHANGED <<att, ran>>
      BY <2>5 DEF CliSkipStep, CliWalked, AddWatch, CancelHold, ForgetWatch, ForgetCoverage, CliDies
    <3>2. exists'[h] => exists[h]
      BY <1>1, <2>5
         DEF CliSkipStep, CliWalked, AddWatch, CancelHold, ForgetWatch, ForgetCoverage, CliDies, TypeOK
    <3>3. cli'[h] \in {"made", "walk"} => cli[h] \in {"made", "walk"}
      BY <1>1, <2>5
         DEF CliSkipStep, CliWalked, AddWatch, CancelHold, ForgetWatch, ForgetCoverage, CliDies, TypeOK
    <3> QED BY <2>3, <3>1, <3>2, <3>3
  <2> QED BY <2>1, <2>2, <2>4, <2>5 DEF Command
<1>3. TeamKept' /\ Hosted'
  BY <1>1, <1>2 DEF GInv, TeamKept, Hosted, Notified, Elsewhere
<1>4. CopyFits'
  <2> SUFFICES ASSUME Busy, exists'[cur] PROVE CopyFits'
    BY <1>1 DEF CopyFits, Busy
  <2>1. cur \in Holds /\ ~Early(cur)
    BY DEF GInv, CInv, FInv, TInv, IInv, Sited, Fresh, FreshAt
  <2>2. exists[cur] /\ att'[cur] = att[cur] /\ ran'[cur] = ran[cur]
    <3>1. CASE cur # h
      BY <1>1, <2>1, <3>1 DEF Elsewhere
    <3>2. CASE cur = h
      BY <1>1, <2>1, <3>2 DEF Early, Command, CreateHold, RecordHold, CliRunStep, CliSkipStep,
             CliWalked, AddWatch, CancelHold, ForgetWatch, ForgetCoverage, CliDies, TypeOK
    <3> QED BY <3>1, <3>2
  <2> QED BY <1>1, <2>2 DEF GInv, CopyFits, Busy, Notified, Heading
<1> QED BY <1>3, <1>4

\* A pass turns to a run with the attendees the hold has, or to none.
LEMMA TeamPoll ==
    ASSUME GInv, NEW h \in Holds, Poll(h)
    PROVE  TeamKept' /\ Hosted' /\ CopyFits'
<1>1. /\ UNCHANGED <<flow, exists, att, cli, ran>>
      /\ ~Busy' \/ (cur' = h /\ copy' = att[h])
  BY DEF Poll, PollUnreachable, PollPruned, PollDone, PollGone, PollPending, PollResume,
         PollElapsed, PollResolved, Advance, SetAside, Busy
<1>2. TeamKept' /\ Hosted'
  BY <1>1 DEF GInv, TeamKept, Hosted, Notified
<1> QED BY <1>1, <1>2 DEF TeamKept, CopyFits, Notified

\* A step of the branch performed, refused or left without a reply: what it did
\* to the hold at hand, given what the daemon knows of it.
LEMMA TeamEffect ==
    ASSUME GInv, Busy, exists'[cur],
           Perform(cur, at, copy) \/ Refused(cur, at, copy) \/ ReplyLost(cur, at, copy)
    PROVE  /\ exists[cur] /\ copy \subseteq att'[cur]
           /\ TeamLast(flow[cur]) /\ Notified(cur) => Team \subseteq att'[cur]
           /\ flow[cur][at].verb = "notify" /\ ran'[cur] # ran[cur] => Team \subseteq att'[cur]
           /\ ran'[cur] \subseteq ran[cur] \cup {at}
<1>1. TypeOK /\ cur \in Holds
  BY DEF GInv, CInv, FInv, TInv, IInv, Sited
<1>2. exists[cur]
  BY <1>1, PerformOne, FailedOne
<1>3. copy \subseteq att[cur]
  BY <1>2 DEF GInv, CopyFits
<1>4. TeamLast(flow[cur]) /\ Notified(cur) => Team \subseteq att[cur]
  BY <1>1, <1>2 DEF GInv, TeamKept
<1>5. CASE Refused(cur, at, copy)
  <2>1. UNCHANGED <<att, ran>>
    BY <1>5 DEF Refused
  <2> QED BY <1>2, <1>3, <1>4, <2>1
<1>6. CASE Perform(cur, at, copy)
  <2>1. ran'[cur] = ran[cur] \cup {at}
    BY <1>1, <1>6 DEF Perform, TypeOK
  <2>2. CASE flow[cur][at].verb = "notify" /\ ~Needless(cur, at, copy)
    <3>1. att'[cur] = copy \cup Team
      BY <1>1, <1>6, <2>2 DEF Perform, SetAttendees, TypeOK
    <3> QED BY <1>2, <2>1, <3>1
  <2>3. CASE Needless(cur, at, copy) \/ flow[cur][at].verb # "notify"
    <3>1. att' = att
      BY <1>6, <2>3 DEF Perform
    <3>2. flow[cur][at].verb = "notify" => Team \subseteq copy
      BY <2>3 DEF Needless
    <3> QED BY <1>2, <1>3, <1>4, <2>1, <3>1, <3>2
  <2> QED BY <2>2, <2>3
<1> QED BY <1>5, <1>6 DEF ReplyLost

\* The walk stays where it needs no team to be known, once it is there.
LEMMA HeadingOn ==
    ASSUME GInv, TeamLast(flow[cur]),
           WalkRunStep \/ WalkSkipStep \/ WalkCheckpoint \/ WalkForgetWatch \/ WalkForgetCoverage
                       \/ WalkGate \/ RecordOutcome \/ CommitBranch,
           exists'[cur],
           \/ Heading \in Behind(flow[cur]) \cup {Stop}
           \/ WalkRunStep /\ flow[cur][at].verb = "notify"
    PROVE  Heading' \in Behind(flow[cur]) \cup {Stop}
<1> DEFINE w == flow[cur]
           S == Behind(w)
<1>1. /\ TypeOK /\ cur \in Holds /\ at \in Position(w) /\ w \in Loaded
      /\ S \in SUBSET DOMAIN w /\ Closes(w, S) /\ flow' = flow /\ cur' = cur
  BY BehindCloses
     DEF GInv, CInv, FInv, TInv, IInv, Sited, Busy, WalkRunStep, WalkSkipStep, WalkCheckpoint,
         WalkForgetWatch, WalkForgetCoverage, WalkGate, RecordOutcome, CommitBranch
<1> HIDE DEF S
<1>2. CASE WalkRunStep
  <2>1. at # Stop /\ w[at].verb \in Effects /\ at' = at /\ Perform(cur, at, copy)
    BY <1>2 DEF WalkRunStep, MayRun
  <2>2. at \in DOMAIN w
    BY <1>1, <2>1 DEF Position
  <2>3. w[at].verb # "cancel"
    BY <1>1, <2>1, PerformOne
  <2>4. dpc = "walk" /\ dpc' = "checkpoint"
    BY <1>2, <2>3 DEF WalkRunStep
  <2>5. CASE w[at].verb = "notify"
    <3>1. AfterStep(w, at) \in S \cup {Stop}
      BY <1>1, <2>2, <2>5 DEF Closes
    <3> QED BY <1>1, <2>1, <2>4, <3>1 DEF Heading, S
  <2>6. CASE at \in S
    <3>1. AfterStep(w, at) \in S \cup {Stop}
      BY <1>1, <2>1, <2>6 DEF Closes, WalksOn
    <3> QED BY <1>1, <2>1, <2>4, <3>1 DEF Heading, S
  <2> QED BY <2>1, <2>4, <2>5, <2>6 DEF Heading, S
<1>3. CASE WalkSkipStep
  <2>1. /\ at # Stop /\ dpc = "walk" /\ dpc' = "walk" /\ at' = NextStep(w, at, NoOutcome)
        /\ \E today \in BOOLEAN : ~Allows(w[at].when, Cardinality(copy), today)
    BY <1>3 DEF WalkSkipStep, MaySkip
  <2>2. at \in S
    BY <1>3, <2>1 DEF Heading, S, WalkSkipStep, WalkRunStep
  <2>3. w[at].when # Unguarded
    BY <2>1 DEF Allows, Unguarded
  <2>4. NextStep(w, at, NoOutcome) \in S \cup {Stop}
    BY <1>1, <2>2, <2>3 DEF Closes, WalksOn
  <2> QED BY <1>1, <2>1, <2>4 DEF Heading, S
<1>4. CASE WalkCheckpoint
  BY <1>1, <1>4 DEF WalkCheckpoint, WalkRunStep, Heading, S
<1>5. CASE WalkForgetWatch
  BY <1>1, <1>5 DEF WalkForgetWatch, WalkRunStep, Heading, S
<1>6. CASE WalkForgetCoverage
  BY <1>6 DEF GInv, CInv, Withdrawn, WalkForgetCoverage
<1>7. CASE WalkGate \/ RecordOutcome \/ CommitBranch
  BY <1>1, <1>7 DEF WalkGate, RecordOutcome, CommitBranch, WalkRunStep, Heading, S
<1> QED BY <1>2, <1>3, <1>4, <1>5, <1>6, <1>7

LEMMA TeamBranch ==
    ASSUME GInv, Branch
    PROVE  TeamKept' /\ Hosted' /\ CopyFits'
<1>1. PICK h \in Holds : h = cur
  BY BranchLate DEF GInv, CInv
<1>2. /\ TypeOK /\ Elsewhere(h) /\ Busy /\ ~Early(h) /\ UNCHANGED <<flow, cli, cliAt>>
      /\ at \in Position(flow[h])
  BY <1>1, BranchElsewhere, BranchLate DEF GInv, CInv, FInv, TInv, IInv, Sited, Elsewhere
<1>3. Hosted'
  BY <1>2 DEF GInv, Hosted, Elsewhere, Early
<1>4. ASSUME TeamLast(flow[h]) /\ Notified(h)' /\ exists'[h] => Team \subseteq att'[h]
      PROVE  TeamKept'
  BY <1>2, <1>4 DEF GInv, TeamKept, Notified, Elsewhere
<1>5. CASE RecordOutcome \/ CommitBranch \/ WalkSkipStep \/ WalkForgetWatch
           \/ WalkForgetCoverage \/ WalkCheckpoint \/ WalkGate
  <2>1. UNCHANGED <<exists, att, ran, cur, copy>>
    BY <1>5 DEF RecordOutcome, CommitBranch, WalkSkipStep, WalkForgetWatch,
                WalkForgetCoverage, WalkCheckpoint, WalkGate
  <2>2. TeamKept'
    BY <1>2, <2>1 DEF GInv, TeamKept, Notified
  <2>3. ASSUME exists[h], TeamLast(flow[h]), Heading \in Behind(flow[h]) \cup {Stop}
        PROVE  Heading' \in Behind(flow[h]) \cup {Stop}
    BY <1>1, <1>5, <2>1, <2>3, HeadingOn
  <2>4. CopyFits'
    BY <1>1, <1>2, <2>1, <2>3 DEF GInv, CopyFits, Notified
  <2> QED BY <1>3, <2>2, <2>4
<1>6. CASE WalkRunStep
  <2>1. Perform(h, at, copy) /\ UNCHANGED <<cur, copy>>
    BY <1>1, <1>6 DEF WalkRunStep
  <2>2. ASSUME exists'[h]
        PROVE  /\ exists[h] /\ copy \subseteq att'[h]
               /\ TeamLast(flow[h]) /\ Notified(h) => Team \subseteq att'[h]
               /\ flow[h][at].verb = "notify" /\ ran'[h] # ran[h] => Team \subseteq att'[h]
               /\ ran'[h] \subseteq ran[h] \cup {at}
    BY <1>1, <1>2, <2>1, <2>2, TeamEffect
  <2>3. ASSUME exists'[h], Notified(h)'
        PROVE  Notified(h) \/ (flow[h][at].verb = "notify" /\ ran'[h] # ran[h])
    BY <1>2, <2>2, <2>3 DEF Notified
  <2>4. TeamKept'
    BY <1>2, <1>4, <2>2, <2>3
  <2>5. ASSUME exists'[h], TeamLast(flow[h]), Notified(h)'
        PROVE  Team \subseteq copy \/ Heading' \in Behind(flow[h]) \cup {Stop}
    BY <1>1, <1>2, <1>6, <2>2, <2>3, <2>5, HeadingOn DEF GInv, CopyFits
  <2>6. CopyFits'
    BY <1>1, <1>2, <2>1, <2>2, <2>5 DEF CopyFits
  <2> QED BY <1>3, <2>4, <2>6
<1>7. CASE WalkFailStep \/ WalkEnd \/ ReachGate \/ InviteNext \/ InviteFails
  <2>1. ~Busy'
    BY <1>7 DEF WalkFailStep, WalkEnd, ReachGate, InviteNext, InviteFails, SetAside, Busy
  <2>2. TeamLast(flow[h]) /\ Notified(h)' /\ exists'[h] => Team \subseteq att'[h]
    <3>1. CASE WalkFailStep
      <4>1. Refused(h, at, copy) \/ ReplyLost(h, at, copy)
        BY <1>1, <3>1 DEF WalkFailStep
      <4> QED BY <1>1, <1>2, <4>1, TeamEffect DEF Notified
    <3>2. CASE UNCHANGED <<exists, att, ran>>
      BY <1>2, <3>2 DEF GInv, TeamKept, Notified
    <3>3. CASE WalkEnd \/ ReachGate
      BY <3>2, <3>3 DEF WalkEnd, ReachGate
    <3>4. CASE InviteNext \/ InviteFails
      <4>1. /\ dpc = "invite" /\ NamesApprover(flow[h][at]) /\ ran' = ran
            /\ \/ UNCHANGED <<exists, att>>
               \/ exists[h] /\ SetAttendees(h, copy \cup {flow[h][at].approver})
        BY <1>1, <3>4 DEF InviteNext, InviteFails
      <4>2. ASSUME exists[h], TeamLast(flow[h]), Notified(h)
            PROVE  Team \subseteq copy
        <5>1. Team \subseteq copy \/ at \in Behind(flow[h]) \cup {Stop}
          BY <1>1, <1>2, <4>1, <4>2 DEF GInv, CopyFits, Heading
        <5>2. at # Stop
          BY <4>1 DEF GInv, CInv, FInv, TInv, IInv, Sited
        <5>3. at \notin Behind(flow[h])
          BY <4>1, <4>2, BehindCloses DEF Closes
        <5> QED BY <5>1, <5>2, <5>3
      <4>3. CASE exists[h] /\ SetAttendees(h, copy \cup {flow[h][at].approver})
        <5>1. att'[h] = copy \cup {flow[h][at].approver}
          BY <1>2, <4>3 DEF SetAttendees, TypeOK
        <5> QED BY <1>2, <4>1, <4>2, <4>3, <5>1 DEF Notified
      <4> QED BY <3>2, <4>1, <4>3
    <3> QED BY <1>7, <3>1, <3>3, <3>4
  <2>3. TeamKept'
    BY <1>4, <2>2
  <2> QED BY <1>3, <2>1, <2>3 DEF CopyFits
<1> QED BY <1>5, <1>6, <1>7 DEF Branch

LEMMA GInvInit == Init => GInv
<1>1. Init => CInv
  BY FInvInit DEF Init, CInv, Withdrawn, WithdrawnAt, Walking, Busy
<1>2. Init => TeamKept /\ Hosted /\ CopyFits
  BY DEF Init, TeamKept, Hosted, CopyFits, Busy, Notified
<1> QED BY <1>1, <1>2 DEF GInv

LEMMA GInvStep == GInv /\ [Next]_vars => GInv'
<1> SUFFICES ASSUME GInv, [Next]_vars PROVE GInv'
  OBVIOUS
<1>1. CInv'
  BY FInvStep, WithdrawnStep DEF GInv, CInv
<1>2. CASE UNCHANGED <<flow, exists, att, cli, ran>> /\ (~Busy' \/ UNCHANGED <<dpc, cur, copy, at>>)
  BY <1>1, <1>2 DEF GInv, TeamKept, Hosted, CopyFits, Notified, Busy, Heading
<1>3. ASSUME NEW h \in Holds, NEW p \in People, NEW r \in Responses, Answer(h, p, r)
      PROVE  GInv'
  BY <1>2, <1>3 DEF Answer
<1>4. CASE Tick \/ PollStart \/ PollEnd \/ Restart \/ Crash \/ UNCHANGED vars
  BY <1>2, <1>4 DEF Tick, PollStart, PollEnd, Restart, Crash, Busy, vars
<1> QED BY <1>1, <1>3, <1>4, TeamCommand, TeamPoll, TeamBranch DEF Next, DaemonStep, GInv

\* The team a notify step invited stays invited, in every workflow in which no walk
\* goes from a notify to a gate that invites somebody (promoteHold, inviteRequired):
\* that invitation, which sends the attendees as the pass fetched them, is the one
\* that takes the team off again.
THEOREM TeamIsKept == Spec => []TeamKept
<1>1. Init => GInv
  BY GInvInit
<1>2. GInv /\ [Next]_vars => GInv'
  BY GInvStep
<1>3. GInv => TeamKept
  BY DEF GInv
<1> QED BY <1>1, <1>2, <1>3, PTL DEF Spec

=============================================================================
