--------------------------- MODULE WorkflowCycle ----------------------------
(***************************************************************************)
(* hasCycle of internal/workflow/workflow.go: the three-colour depth-first *)
(* search over the jumps of a workflow, against Acyclic, the definition    *)
(* the other modules use.  The recursion is a stack of calls, each with    *)
(* the targets its loop has still to look at; the order in which a loop    *)
(* takes them is left open.                                                *)
(***************************************************************************)
EXTENDS Workflow, Sequences

CONSTANT Definitions

ASSUME CycleAssumption == \A w \in Definitions : IsWorkflow(w)

VARIABLES
    flow,
    color,   \* white, gray or black, per step
    stack,   \* the active calls of visit, outermost first
    verdict  \* "searching", then "cycle" or "acyclic"

vars == <<flow, color, stack, verdict>>

Top == stack[Len(stack)]

Call(i) == [node |-> i, left |-> JumpTargets(flow, i)]

White == {i \in DOMAIN flow : color[i] = "white"}

Init ==
    /\ flow \in {w \in Definitions : WellFormed(w)}
    /\ color = [i \in DOMAIN flow |-> "white"]
    /\ stack = <<>>
    /\ verdict = "searching"

\* The outer loop starts a search at the first step not yet coloured.
Root(i) ==
    /\ verdict = "searching"
    /\ stack = <<>>
    /\ i \in White
    /\ \A k \in White : i <= k
    /\ stack' = <<Call(i)>>
    /\ color' = [color EXCEPT ![i] = "gray"]
    /\ UNCHANGED <<flow, verdict>>

\* Mutant of Look: a target already searched stays on the list.
LooksAgain(j) ==
    /\ verdict = "searching"
    /\ stack # <<>>
    /\ j \in Top.left
    /\ \/ color[j] = "gray" /\ verdict' = "cycle" /\ UNCHANGED <<color, stack>>
       \/ /\ color[j] = "white"
          /\ stack' = Append(stack, Call(j))
          /\ color' = [color EXCEPT ![j] = "gray"]
          /\ UNCHANGED verdict
       \/ color[j] = "black" /\ UNCHANGED <<color, stack, verdict>>
    /\ UNCHANGED flow

\* One round of the inner loop: the call on top looks at target j.
Look(j) ==
    /\ verdict = "searching"
    /\ stack # <<>>
    /\ j \in Top.left
    /\ LET rest == [stack EXCEPT ![Len(stack)].left = @ \ {j}] IN
       \/ /\ color[j] = "gray"
          /\ verdict' = "cycle"
          /\ UNCHANGED <<color, stack>>
       \/ /\ color[j] = "white"
          /\ stack' = Append(rest, Call(j))
          /\ color' = [color EXCEPT ![j] = "gray"]
          /\ UNCHANGED verdict
       \/ /\ color[j] = "black"
          /\ stack' = rest
          /\ UNCHANGED <<color, verdict>>
    /\ UNCHANGED flow

\* Mutant of Return: a step left behind stays on the path.
StaysGray ==
    /\ verdict = "searching"
    /\ stack # <<>>
    /\ Top.left = {}
    /\ stack' = SubSeq(stack, 1, Len(stack) - 1)
    /\ UNCHANGED <<flow, color, verdict>>

Return ==
    /\ verdict = "searching"
    /\ stack # <<>>
    /\ Top.left = {}
    /\ color' = [color EXCEPT ![Top.node] = "black"]
    /\ stack' = SubSeq(stack, 1, Len(stack) - 1)
    /\ UNCHANGED <<flow, verdict>>

Exhausted ==
    /\ verdict = "searching"
    /\ stack = <<>>
    /\ White = {}
    /\ verdict' = "acyclic"
    /\ UNCHANGED <<flow, color, stack>>

Next ==
    \/ \E i \in DOMAIN flow : Root(i) \/ Look(i)
    \/ Return
    \/ Exhausted

Spec == Init /\ [][Next]_vars /\ WF_vars(Next)

-----------------------------------------------------------------------------
(* Properties.                                                             *)

\* The search of hasCycle decides exactly the workflows Acyclic describes.
SearchDecides ==
    /\ verdict = "cycle" => ~Acyclic(flow)
    /\ verdict = "acyclic" => Acyclic(flow)

\* The search always ends: the colours bound the recursion whatever the jumps.
SearchEnds == <>(verdict # "searching")
=============================================================================
