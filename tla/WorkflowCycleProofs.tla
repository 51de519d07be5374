------------------------ MODULE WorkflowCycleProofs -------------------------
(***************************************************************************)
(* The search of hasCycle is right for every workflow: it answers "cycle"  *)
(* when the steps have no ranking that every jump raises, and "acyclic"    *)
(* when they have one.                                                     *)
(*                                                                         *)
(* A gray step on the way of a jump closes a circle, since every ranking   *)
(* rises along the stack of calls (Climbing).  In the other direction the  *)
(* search itself yields the ranking: a step is left (black) after all the  *)
(* steps it jumps to, and ranks just below the steps left before it        *)
(* (Ranked).                                                               *)
(***************************************************************************)
EXTENDS WorkflowCycle, FiniteSetTheorems, SequenceTheorems, TLAPS

Ranks(rank) ==
    \A i \in DOMAIN flow : \A j \in JumpTargets(flow, i) : rank[i] < rank[j]

Black == {i \in DOMAIN flow : color[i] = "black"}

Size == Cardinality(DOMAIN flow)

Typed ==
    /\ IsWorkflow(flow)
    /\ color \in [DOMAIN flow -> {"white", "gray", "black"}]
    /\ stack \in Seq([node : DOMAIN flow, left : SUBSET DOMAIN flow])
    /\ verdict \in {"searching", "cycle", "acyclic"}

\* The stack is a path of jumps over the gray steps; what a call has looked at
\* is black, or is the next call.
Pathlike ==
    /\ \A i \in DOMAIN flow : color[i] = "gray" <=> \E k \in 1 .. Len(stack) : stack[k].node = i
    /\ \A k, l \in 1 .. Len(stack) : stack[k].node = stack[l].node => k = l
    /\ \A k \in 1 .. Len(stack) : stack[k].left \subseteq JumpTargets(flow, stack[k].node)
    /\ \A k \in 1 .. Len(stack) : \A j \in JumpTargets(flow, stack[k].node) \ stack[k].left :
            color[j] = "black" \/ (k < Len(stack) /\ j = stack[k + 1].node)

\* Every ranking rises along the stack.
Climbing ==
    \A rank \in [DOMAIN flow -> DOMAIN flow] : Ranks(rank) =>
        \A k, l \in 1 .. Len(stack) : k < l => rank[stack[k].node] < rank[stack[l].node]

\* What is searched jumps to what is searched, and has a ranking.
Ranked ==
    \E rank \in [Black -> (Size - Cardinality(Black)) .. (Size - 1)] :
        \A i \in Black : \A j \in JumpTargets(flow, i) : j \in Black /\ rank[i] < rank[j]

IInv == Typed /\ Pathlike /\ Climbing /\ Ranked /\ SearchDecides

-----------------------------------------------------------------------------
(* What a workflow and its jumps are.                                      *)

LEMMA WorkflowDomain ==
    ASSUME NEW w, IsWorkflow(w)
    PROVE  \E n \in Nat : DOMAIN w = 0 .. (n - 1)
  BY StepsAssumption DEF IsWorkflow

\* A jump stays in the workflow.
LEMMA JumpsInside ==
    ASSUME NEW w, NEW i \in DOMAIN w
    PROVE  JumpTargets(w, i) \subseteq DOMAIN w
<1>1. ASSUME NEW id PROVE StepIndex(w, id) \in DOMAIN w \cup {Stop}
  <2>1. CASE id # Unnamed /\ \E k \in DOMAIN w : w[k].id = id
    <3>1. (CHOOSE k \in DOMAIN w : w[k].id = id) \in DOMAIN w
      BY <2>1
    <3> QED BY <2>1, <3>1 DEF StepIndex
  <2> QED BY <2>1 DEF StepIndex
<1>2. ASSUME NEW outcome PROVE NextStep(w, i, outcome) \in DOMAIN w \cup {Stop}
  BY <1>1 DEF NextStep, Resolve, FallThrough
<1> QED BY <1>2 DEF JumpTargets

\* The steps are as many as the indexes below Size.
LEMMA Counted ==
    ASSUME Typed
    PROVE  /\ IsFiniteSet(DOMAIN flow)
           /\ Size \in Nat
           /\ DOMAIN flow = 0 .. (Size - 1)
           /\ IsFiniteSet(Black)
           /\ Cardinality(Black) \in Nat
<1>1. PICK n \in Nat : DOMAIN flow = 0 .. (n - 1)
  BY WorkflowDomain DEF Typed
<1>2. IsFiniteSet(DOMAIN flow) /\ Size = n
  BY <1>1, FS_Interval DEF Size
<1>3. Black \subseteq DOMAIN flow
  BY DEF Black
<1>4. IsFiniteSet(Black) /\ Cardinality(Black) \in Nat
  BY <1>2, <1>3, FS_Subset, FS_CardinalityType
<1> QED BY <1>1, <1>2, <1>4

LEMMA TopTyped ==
    ASSUME Typed, stack # <<>>
    PROVE  /\ Len(stack) \in Nat \ {0}
           /\ Len(stack) \in 1 .. Len(stack)
           /\ Top = stack[Len(stack)]
           /\ Top \in [node : DOMAIN flow, left : SUBSET DOMAIN flow]
<1> DEFINE C == [node : DOMAIN flow, left : SUBSET DOMAIN flow]
<1>1. stack \in Seq(C)
  BY DEF Typed
<1> HIDE DEF C
<1>2. Len(stack) \in Nat \ {0} /\ stack[Len(stack)] \in C
  BY <1>1
<1>3. Top = stack[Len(stack)]
  BY DEF Top
<1> QED BY <1>2, <1>3 DEF C

LEMMA InitIInv == Init => IInv
<1> SUFFICES ASSUME Init PROVE IInv
  OBVIOUS
<1>1. IsWorkflow(flow)
  BY CycleAssumption DEF Init
<1>2. Typed
  BY <1>1 DEF Init, Typed
<1>3. Pathlike /\ Climbing
  BY DEF Init, Pathlike, Climbing
<1>4. Black = {}
  BY DEF Init, Black
<1>5. Ranked
  <2> DEFINE none == [i \in {} |-> 0]
  <2>1. none \in [{} -> (Size - Cardinality({})) .. (Size - 1)]
    OBVIOUS
  <2> QED BY <1>4, <2>1 DEF Ranked
<1>6. SearchDecides
  BY DEF Init, SearchDecides
<1> QED BY <1>2, <1>3, <1>5, <1>6 DEF IInv

LEMMA RankedStays ==
    ASSUME Ranked, color' = color, flow' = flow
    PROVE  Ranked'
<1>1. Black' = Black /\ Size' = Size
  BY DEF Black, Size
<1> QED BY <1>1 DEF Ranked

\* The outer loop starts a call on a white step, with no other call active.
LEMMA RootKeeps ==
    ASSUME IInv, NEW i \in DOMAIN flow, Root(i)
    PROVE  IInv'
<1>1. stack' = <<Call(i)>> /\ color' = [color EXCEPT ![i] = "gray"] /\ color[i] = "white"
  BY DEF Root, White
<1>2. flow' = flow /\ verdict' = verdict /\ stack = <<>> /\ verdict = "searching"
  BY DEF Root
<1>3. /\ Call(i) \in [node : DOMAIN flow, left : SUBSET DOMAIN flow]
      /\ Call(i).node = i
      /\ Call(i).left = JumpTargets(flow, i)
  BY JumpsInside DEF Call
<1>4. Len(stack') = 1 /\ stack'[1] = Call(i) /\ 1 .. Len(stack') = {1} /\ 1 .. Len(stack) = {}
  BY <1>1, <1>2
<1>5. Typed'
  BY <1>1, <1>2, <1>3 DEF IInv, Typed
<1>6. \A k \in DOMAIN flow : color'[k] = (IF k = i THEN "gray" ELSE color[k])
  BY <1>1 DEF IInv, Typed
<1>7. Pathlike'
  <2>1. \A k \in DOMAIN flow : color[k] # "gray"
    BY <1>4 DEF IInv, Pathlike
  <2>2. \A k \in DOMAIN flow : color'[k] = "gray" <=> k = i
    BY <1>6, <2>1
  <2> QED BY <1>2, <1>3, <1>4, <2>2 DEF Pathlike
<1>8. Climbing'
  BY <1>4 DEF Climbing
<1>9. Ranked'
  <2>1. Black' = Black
    BY <1>1, <1>2, <1>6 DEF Black
  <2> QED BY <1>2, <2>1 DEF IInv, Ranked, Size
<1>10. SearchDecides'
  BY <1>2 DEF SearchDecides
<1> QED BY <1>5, <1>7, <1>8, <1>9, <1>10 DEF IInv

\* A jump to a gray step goes back along the stack, which no ranking allows.
LEMMA GrayClosesCircle ==
    ASSUME IInv, stack # <<>>, NEW j \in Top.left, color[j] = "gray"
    PROVE  ~Acyclic(flow)
<1> DEFINE top == Top.node
<1>1. /\ Len(stack) \in 1 .. Len(stack)
      /\ Len(stack) \in Nat
      /\ Top = stack[Len(stack)]
      /\ top \in DOMAIN flow
      /\ j \in DOMAIN flow
  BY TopTyped DEF IInv
<1>2. j \in JumpTargets(flow, top)
  BY <1>1 DEF IInv, Pathlike
<1>3. PICK k \in 1 .. Len(stack) : stack[k].node = j
  BY <1>1 DEF IInv, Pathlike
<1>4. SUFFICES ASSUME NEW rank \in [DOMAIN flow -> DOMAIN flow], Ranks(rank) PROVE FALSE
  BY DEF Acyclic, Ranks
<1>5. rank[top] < rank[j] /\ rank[top] \in Int /\ rank[j] \in Int
  BY <1>1, <1>2, <1>4, Counted DEF Ranks, IInv
<1>6. CASE k = Len(stack)
  BY <1>1, <1>3, <1>5, <1>6
<1>7. CASE k < Len(stack)
  <2>1. rank[j] < rank[top]
    BY <1>1, <1>3, <1>4, <1>7 DEF IInv, Climbing
  <2> QED BY <1>5, <2>1
<1> QED BY <1>1, <1>6, <1>7

\* The stack with target j taken off the list of the call on top.
Rest(j) == [stack EXCEPT ![Len(stack)].left = @ \ {j}]

LEMMA TargetTaken ==
    ASSUME Typed, stack # <<>>, NEW j
    PROVE  /\ Rest(j) \in Seq([node : DOMAIN flow, left : SUBSET DOMAIN flow])
           /\ Len(Rest(j)) = Len(stack)
           /\ \A k \in 1 .. Len(stack) : Rest(j)[k].node = stack[k].node
           /\ \A k \in 1 .. Len(stack) :
                Rest(j)[k].left = IF k = Len(stack) THEN stack[k].left \ {j} ELSE stack[k].left
<1> DEFINE C == [node : DOMAIN flow, left : SUBSET DOMAIN flow]
           n == Len(stack)
           top == [stack[n] EXCEPT !.left = @ \ {j}]
<1>1. stack \in Seq(C)
  BY DEF Typed
<1>2. n \in Nat \ {0} /\ n \in 1 .. n /\ stack[n] \in C
  BY TopTyped
<1>3. top \in C /\ top.node = stack[n].node /\ top.left = stack[n].left \ {j}
  BY <1>2
<1>4. Rest(j) = [stack EXCEPT ![n] = top]
  BY DEF Rest
<1> HIDE DEF C, top
<1>5. /\ Rest(j) \in Seq(C) /\ Len(Rest(j)) = n
      /\ \A k \in 1 .. n : Rest(j)[k] = IF k = n THEN top ELSE stack[k]
  BY <1>1, <1>2, <1>3, <1>4, ExceptSeq
<1>6. Rest(j) \in Seq([node : DOMAIN flow, left : SUBSET DOMAIN flow])
  BY <1>5 DEF C
<1>7. \A k \in 1 .. n : Rest(j)[k].node = stack[k].node
  BY <1>3, <1>5
<1>8. \A k \in 1 .. n : Rest(j)[k].left = IF k = n THEN stack[k].left \ {j} ELSE stack[k].left
  BY <1>3, <1>5
<1> QED BY <1>5, <1>6, <1>7, <1>8

\* A white target is called: the call goes on top, and the path gets longer.
LEMMA PushKeeps ==
    ASSUME IInv, stack # <<>>, verdict = "searching",
           NEW j \in Top.left, color[j] = "white",
           stack' = Append(Rest(j), Call(j)),
           color' = [color EXCEPT ![j] = "gray"],
           verdict' = verdict, flow' = flow
    PROVE  IInv'
<1> DEFINE C == [node : DOMAIN flow, left : SUBSET DOMAIN flow]
           n == Len(stack)
           rest == Rest(j)
<1>1. /\ n \in Nat \ {0} /\ n \in 1 .. n
      /\ Top = stack[n] /\ Top.node \in DOMAIN flow /\ j \in DOMAIN flow
  BY TopTyped DEF IInv
<1>2. /\ rest \in Seq(C) /\ Len(rest) = n
      /\ \A k \in 1 .. n : rest[k].node = stack[k].node
      /\ \A k \in 1 .. n : rest[k].left = IF k = n THEN stack[k].left \ {j} ELSE stack[k].left
  BY TargetTaken DEF IInv
<1>3. Call(j) \in C /\ Call(j).node = j /\ Call(j).left = JumpTargets(flow, j)
  BY <1>1, JumpsInside DEF Call
<1>4. /\ stack' \in Seq(C) /\ Len(stack') = n + 1
      /\ \A k \in 1 .. n : stack'[k] = rest[k]
      /\ stack'[n + 1] = Call(j)
  <2> HIDE DEF C
  <2> QED BY <1>1, <1>2, <1>3, AppendProperties
<1>5. \A k \in 1 .. n + 1 : k \in 1 .. n \/ k = n + 1
  BY <1>1
<1>6. /\ \A k \in 1 .. n : stack'[k].node = stack[k].node
      /\ stack'[n + 1].node = j
      /\ \A k \in 1 .. n : stack'[k].left = IF k = n THEN stack[k].left \ {j} ELSE stack[k].left
      /\ stack'[n + 1].left = JumpTargets(flow, j)
  BY <1>2, <1>3, <1>4
<1>7. \A i \in DOMAIN flow : color'[i] = (IF i = j THEN "gray" ELSE color[i])
  BY DEF IInv, Typed
<1>8. \A k \in 1 .. n : stack[k].node # j /\ stack[k].node \in DOMAIN flow
  <2>1. ASSUME NEW k \in 1 .. n PROVE stack[k] \in C
    <3> HIDE DEF C
    <3>1. stack \in Seq(C)
      BY DEF IInv, Typed, C
    <3> QED BY <3>1, ElementOfSeq
  <2> QED BY <1>1, <2>1 DEF IInv, Pathlike
<1>9. Typed'
  BY <1>1, <1>4 DEF IInv, Typed
<1>10. Pathlike'
  <2> HIDE DEF C, rest
  <2>0. /\ \A i \in DOMAIN flow : color[i] = "gray" <=> \E k \in 1 .. n : stack[k].node = i
        /\ \A k, l \in 1 .. n : stack[k].node = stack[l].node => k = l
        /\ \A k \in 1 .. n : stack[k].left \subseteq JumpTargets(flow, stack[k].node)
    BY DEF IInv, Pathlike
  <2>1. ASSUME NEW i \in DOMAIN flow
        PROVE  color'[i] = "gray" <=> \E k \in 1 .. n + 1 : stack'[k].node = i
    <3>1. CASE i = j
      <4>1. n + 1 \in 1 .. n + 1
        BY <1>1
      <4> QED BY <1>6, <1>7, <3>1, <4>1
    <3>2. CASE i # j
      <4>1. color'[i] = color[i]
        BY <1>7, <3>2
      <4>2. (\E k \in 1 .. n : stack[k].node = i) => \E k \in 1 .. n + 1 : stack'[k].node = i
        <5>1. \A k \in 1 .. n : k \in 1 .. n + 1
          BY <1>1
        <5> QED BY <1>6, <5>1
      <4>3. (\E k \in 1 .. n + 1 : stack'[k].node = i) => \E k \in 1 .. n : stack[k].node = i
        BY <1>5, <1>6, <3>2
      <4> QED BY <2>0, <4>1, <4>2, <4>3
    <3> QED BY <3>1, <3>2
  <2>2. ASSUME NEW k \in 1 .. n + 1, NEW l \in 1 .. n + 1, stack'[k].node = stack'[l].node
        PROVE  k = l
    <3>1. CASE k \in 1 .. n /\ l \in 1 .. n
      BY <1>6, <2>0, <2>2, <3>1
    <3>2. CASE k = n + 1 \/ l = n + 1
      BY <1>5, <1>6, <1>8, <2>2, <3>2
    <3> QED BY <1>5, <3>1, <3>2
  <2>3. ASSUME NEW k \in 1 .. n + 1
        PROVE  stack'[k].left \subseteq JumpTargets(flow, stack'[k].node)
    <3>1. CASE k \in 1 .. n
      <4>1. stack'[k].left \subseteq stack[k].left
        BY <1>6, <3>1
      <4> QED BY <1>6, <2>0, <3>1, <4>1
    <3>2. CASE k = n + 1
      BY <1>6, <3>2
    <3> QED BY <1>5, <3>1, <3>2
  <2>4. ASSUME NEW k \in 1 .. n + 1,
               NEW t \in JumpTargets(flow, stack'[k].node) \ stack'[k].left
        PROVE  color'[t] = "black" \/ (k < n + 1 /\ t = stack'[k + 1].node)
    <3>1. CASE k = n + 1
      BY <1>6, <2>4, <3>1
    <3>2. CASE k = n
      <4>1. t \in JumpTargets(flow, stack[n].node) /\ t \notin stack[n].left \ {j}
        BY <1>1, <1>6, <2>4, <3>2
      <4>2. t = j \/ color[t] = "black"
        BY <1>1, <4>1 DEF IInv, Pathlike
      <4>3. t \in DOMAIN flow
        BY <1>1, <4>1, JumpsInside
      <4>4. color[t] = "black" => color'[t] = "black"
        <5>1. color[t] = "black" => t # j
          OBVIOUS
        <5> QED BY <1>7, <4>3, <5>1
      <4>5. k < n + 1 /\ k + 1 = n + 1
        BY <1>1, <3>2
      <4>6. stack'[k + 1].node = j
        BY <1>6, <4>5, Zenon
      <4> QED BY <4>2, <4>4, <4>5, <4>6
    <3>3. CASE k \in 1 .. n /\ k # n
      <4>1. t \in JumpTargets(flow, stack[k].node) /\ t \notin stack[k].left
        BY <1>6, <2>4, <3>3
      <4>2. color[t] = "black" \/ t = stack[k + 1].node
        BY <3>3, <4>1 DEF IInv, Pathlike
      <4>3. t \in DOMAIN flow
        BY <1>8, <3>3, <4>1, JumpsInside
      <4>4. k + 1 \in 1 .. n /\ k < n + 1
        BY <1>1, <3>3
      <4>5. stack'[k + 1].node = stack[k + 1].node
        BY <1>6, <4>4
      <4>6. color[t] = "black" => t # j
        OBVIOUS
      <4> QED BY <1>7, <4>2, <4>3, <4>4, <4>5, <4>6
    <3> QED BY <1>5, <3>1, <3>2, <3>3
  <2> QED BY <1>4, <2>1, <2>2, <2>3, <2>4 DEF Pathlike
<1>11. Climbing'
  <2> SUFFICES ASSUME NEW rank \in [DOMAIN flow -> DOMAIN flow], Ranks(rank),
                      NEW k \in 1 .. n + 1, NEW l \in 1 .. n + 1, k < l
               PROVE  rank[stack'[k].node] < rank[stack'[l].node]
    BY <1>4 DEF Climbing, Ranks
  <2>1. k \in 1 .. n
    BY <1>1
  <2>2. CASE l \in 1 .. n
    BY <1>6, <2>1, <2>2 DEF IInv, Climbing
  <2>3. CASE l = n + 1
    <3>1. j \in JumpTargets(flow, stack[n].node)
      BY <1>1 DEF IInv, Pathlike
    <3>2. rank[stack[n].node] < rank[j]
      BY <1>1, <3>1 DEF Ranks
    <3>3. k = n \/ rank[stack[k].node] < rank[stack[n].node]
      BY <1>1, <2>1 DEF IInv, Climbing
    <3>4. \A i \in DOMAIN flow : rank[i] \in Int
      BY Counted DEF IInv
    <3>5. stack[k].node \in DOMAIN flow /\ stack[n].node \in DOMAIN flow
      BY <1>1, <1>8, <2>1
    <3>6. rank[stack[k].node] \in Int /\ rank[stack[n].node] \in Int /\ rank[j] \in Int
      BY <1>1, <3>4, <3>5
    <3>7. rank[stack[k].node] < rank[j]
      BY <3>2, <3>3, <3>6
    <3> QED BY <1>6, <2>1, <2>3, <3>7
  <2> QED BY <1>5, <2>2, <2>3
<1>12. Ranked'
  <2>1. Black' = Black
    BY <1>7 DEF Black
  <2> QED BY <2>1 DEF IInv, Ranked, Size
<1>13. SearchDecides'
  BY DEF SearchDecides
<1> QED BY <1>9, <1>10, <1>11, <1>12, <1>13 DEF IInv

\* A black target is taken off the list.
LEMMA SkipKeeps ==
    ASSUME IInv, stack # <<>>, NEW j \in Top.left, color[j] = "black",
           stack' = Rest(j),
           color' = color, verdict' = verdict, flow' = flow
    PROVE  IInv'
<1> DEFINE n == Len(stack)
<1>1. /\ n \in Nat \ {0} /\ n \in 1 .. n
      /\ Top = stack[n]
  BY TopTyped DEF IInv
<1>2. /\ stack' \in Seq([node : DOMAIN flow, left : SUBSET DOMAIN flow])
      /\ Len(stack') = n
      /\ \A k \in 1 .. n : stack'[k].node = stack[k].node
      /\ \A k \in 1 .. n : stack'[k].left = IF k = n THEN stack[k].left \ {j} ELSE stack[k].left
  BY TargetTaken DEF IInv
<1>3. Typed'
  BY <1>2 DEF IInv, Typed
<1>4. Pathlike'
  <2>1. \A i \in DOMAIN flow : color[i] = "gray" <=> \E k \in 1 .. n : stack'[k].node = i
    BY <1>2 DEF IInv, Pathlike
  <2>2. \A k, l \in 1 .. n : stack'[k].node = stack'[l].node => k = l
    BY <1>2 DEF IInv, Pathlike
  <2>3. ASSUME NEW k \in 1 .. n
        PROVE  stack'[k].left \subseteq JumpTargets(flow, stack'[k].node)
    <3>1. stack'[k].left \subseteq stack[k].left
      BY <1>2
    <3>2. stack[k].left \subseteq JumpTargets(flow, stack[k].node)
      BY DEF IInv, Pathlike
    <3> QED BY <1>2, <3>1, <3>2
  <2>4. ASSUME NEW k \in 1 .. n, NEW t \in JumpTargets(flow, stack'[k].node) \ stack'[k].left
        PROVE  color[t] = "black" \/ (k < n /\ t = stack'[k + 1].node)
    <3>1. t \in JumpTargets(flow, stack[k].node) /\ (t \notin stack[k].left \/ t = j)
      BY <1>2, <2>4
    <3>2. color[t] = "black" \/ (k < n /\ t = stack[k + 1].node)
      BY <3>1 DEF IInv, Pathlike
    <3>3. k < n => k + 1 \in 1 .. n
      BY <1>1
    <3> QED BY <1>2, <3>2, <3>3
  <2> QED BY <1>2, <2>1, <2>2, <2>3, <2>4 DEF Pathlike
<1>5. Climbing'
  BY <1>2 DEF IInv, Climbing, Ranks
<1>6. Ranked'
  BY RankedStays DEF IInv
<1>7. SearchDecides'
  BY DEF IInv, SearchDecides
<1> QED BY <1>3, <1>4, <1>5, <1>6, <1>7 DEF IInv

LEMMA LookKeeps ==
    ASSUME IInv, NEW j, Look(j)
    PROVE  IInv'
<1>1. verdict = "searching" /\ stack # <<>> /\ j \in Top.left /\ flow' = flow
  BY DEF Look
<1>2. \/ color[j] = "gray" /\ verdict' = "cycle" /\ color' = color /\ stack' = stack
      \/ /\ color[j] = "white" /\ stack' = Append(Rest(j), Call(j))
         /\ color' = [color EXCEPT ![j] = "gray"] /\ verdict' = verdict
      \/ color[j] = "black" /\ stack' = Rest(j) /\ color' = color /\ verdict' = verdict
  BY DEF Look, Rest
<1>3. CASE color[j] = "gray" /\ verdict' = "cycle" /\ color' = color /\ stack' = stack
  <2>1. ~Acyclic(flow)
    BY <1>1, <1>3, GrayClosesCircle
  <2>2. SearchDecides'
    BY <1>1, <1>3, <2>1 DEF SearchDecides
  <2>3. Typed'
    BY <1>1, <1>3 DEF IInv, Typed
  <2>4. Pathlike'
    BY <1>1, <1>3 DEF IInv, Pathlike
  <2>5. Climbing'
    BY <1>1, <1>3 DEF IInv, Climbing, Ranks
  <2>6. Ranked'
    BY <1>1, <1>3, RankedStays DEF IInv
  <2> QED BY <2>2, <2>3, <2>4, <2>5, <2>6 DEF IInv
<1>4. CASE /\ color[j] = "white" /\ stack' = Append(Rest(j), Call(j))
           /\ color' = [color EXCEPT ![j] = "gray"] /\ verdict' = verdict
  BY <1>1, <1>4, PushKeeps
<1>5. CASE color[j] = "black" /\ stack' = Rest(j) /\ color' = color /\ verdict' = verdict
  BY <1>1, <1>5, SkipKeeps
<1> QED BY <1>2, <1>3, <1>4, <1>5

\* The call on top returns: the step ranks just below the black ones.
LEMMA ReturnKeeps ==
    ASSUME IInv, Return
    PROVE  IInv'
<1> DEFINE C == [node : DOMAIN flow, left : SUBSET DOMAIN flow]
           n == Len(stack)
           b == Cardinality(Black)
           top == Top.node
<1>1. /\ stack # <<>> /\ Top.left = {}
      /\ color' = [color EXCEPT ![top] = "black"]
      /\ stack' = SubSeq(stack, 1, n - 1)
      /\ flow' = flow /\ verdict' = verdict /\ verdict = "searching"
  BY DEF Return
<1>2. /\ n \in Nat \ {0} /\ n \in 1 .. n
      /\ Top = stack[n] /\ top \in DOMAIN flow
  BY <1>1, TopTyped DEF IInv
<1>3. /\ stack' \in Seq(C) /\ Len(stack') = n - 1
      /\ \A k \in 1 .. n - 1 : stack'[k] = stack[k]
  <2> HIDE DEF C
  <2>1. stack \in Seq(C)
    BY DEF IInv, Typed, C
  <2>2. \A k \in 1 .. n - 1 : k \in 1 .. n /\ stack[k] \in C
    BY <1>2, <2>1, ElementOfSeq
  <2>3. /\ SubSeq(stack, 1, n - 1) \in Seq(C)
        /\ Len(SubSeq(stack, 1, n - 1)) = IF 1 <= n - 1 THEN n - 1 - 1 + 1 ELSE 0
        /\ \A k \in 1 .. n - 1 - 1 + 1 : SubSeq(stack, 1, n - 1)[k] = stack[1 + k - 1]
    BY <1>2, <2>2, SubSeqProperties
  <2>4. (IF 1 <= n - 1 THEN n - 1 - 1 + 1 ELSE 0) = n - 1 /\ n - 1 - 1 + 1 = n - 1
    <3>1. \A m \in Nat \ {0} : n = m =>
             (IF 1 <= m - 1 THEN m - 1 - 1 + 1 ELSE 0) = m - 1 /\ m - 1 - 1 + 1 = m - 1
      <4>1. ASSUME NEW m \in Nat \ {0}
            PROVE  (IF 1 <= m - 1 THEN m - 1 - 1 + 1 ELSE 0) = m - 1 /\ m - 1 - 1 + 1 = m - 1
        <5>1. CASE m = 1
          BY <5>1
        <5>2. CASE m # 1
          BY <5>2
        <5> QED BY <5>1, <5>2
      <4> QED BY <4>1
    <3> QED BY <1>2, <3>1
  <2>5. Len(stack') = n - 1
    BY <1>1, <2>3, <2>4, Zenon
  <2>6. ASSUME NEW k \in 1 .. n - 1 PROVE stack'[k] = stack[k]
    <3>1. k \in 1 .. n - 1 - 1 + 1 /\ 1 + k - 1 = k
      BY <1>2
    <3> QED BY <1>1, <2>3, <3>1, Zenon
  <2> QED BY <1>1, <2>3, <2>5, <2>6
<1>4. \A i \in DOMAIN flow : color'[i] = (IF i = top THEN "black" ELSE color[i])
  BY <1>1 DEF IInv, Typed
<1>5. /\ \A i \in DOMAIN flow : color[i] = "gray" <=> \E k \in 1 .. n : stack[k].node = i
      /\ \A k, l \in 1 .. n : stack[k].node = stack[l].node => k = l
      /\ \A k \in 1 .. n : stack[k].left \subseteq JumpTargets(flow, stack[k].node)
      /\ \A k \in 1 .. n : \A j \in JumpTargets(flow, stack[k].node) \ stack[k].left :
            color[j] = "black" \/ (k < n /\ j = stack[k + 1].node)
  BY DEF IInv, Pathlike
<1>6. /\ \A k \in 1 .. n - 1 : k \in 1 .. n /\ k # n /\ k < n
      /\ \A k \in 1 .. n : k \in 1 .. n - 1 \/ k = n
  BY <1>2
<1>7. color[top] = "gray"
  BY <1>2, <1>5
<1>8. Typed'
  <2>1. color' \in [DOMAIN flow -> {"white", "gray", "black"}]
    BY <1>1 DEF IInv, Typed
  <2> QED BY <1>1, <1>3, <2>1 DEF IInv, Typed
<1>9. Pathlike'
  <2> HIDE DEF C
  <2>1. ASSUME NEW i \in DOMAIN flow
        PROVE  color'[i] = "gray" <=> \E k \in 1 .. n - 1 : stack'[k].node = i
    <3>1. CASE i = top
      <4>1. \A k \in 1 .. n - 1 : stack'[k].node # i
        BY <1>2, <1>3, <1>5, <1>6, <3>1
      <4> QED BY <1>4, <3>1, <4>1
    <3>2. CASE i # top
      <4>1. (\E k \in 1 .. n : stack[k].node = i) <=> \E k \in 1 .. n - 1 : stack[k].node = i
        BY <1>2, <1>6, <3>2
      <4> QED BY <1>3, <1>4, <1>5, <3>2, <4>1
    <3> QED BY <3>1, <3>2
  <2>2. \A k, l \in 1 .. n - 1 : stack'[k].node = stack'[l].node => k = l
    BY <1>3, <1>5, <1>6
  <2>3. ASSUME NEW k \in 1 .. n - 1
        PROVE  stack'[k].left \subseteq JumpTargets(flow, stack'[k].node)
    BY <1>3, <1>5, <1>6
  <2>4. ASSUME NEW k \in 1 .. n - 1,
               NEW t \in JumpTargets(flow, stack'[k].node) \ stack'[k].left
        PROVE  color'[t] = "black" \/ (k < n - 1 /\ t = stack'[k + 1].node)
    <3>1. t \in JumpTargets(flow, stack[k].node) \ stack[k].left
      BY <1>3, <2>4
    <3>2. color[t] = "black" \/ t = stack[k + 1].node
      BY <1>5, <1>6, <3>1
    <3>3. stack[k] \in C
      BY <1>6, ElementOfSeq DEF IInv, Typed, C
    <3>4. t \in DOMAIN flow
      BY <3>1, <3>3, JumpsInside DEF C
    <3>5. CASE color[t] = "black"
      BY <1>4, <3>4, <3>5
    <3>6. CASE t = stack[k + 1].node /\ k = n - 1
      BY <1>2, <1>4, <3>4, <3>6
    <3>7. CASE t = stack[k + 1].node /\ k # n - 1
      <4>1. k < n - 1 /\ k + 1 \in 1 .. n - 1
        BY <1>2, <3>7
      <4> QED BY <1>3, <3>7, <4>1
    <3> QED BY <3>2, <3>5, <3>6, <3>7
  <2> QED BY <1>1, <1>3, <2>1, <2>2, <2>3, <2>4 DEF Pathlike
<1>10. Climbing'
  <2> SUFFICES ASSUME NEW rank \in [DOMAIN flow -> DOMAIN flow], Ranks(rank),
                      NEW k \in 1 .. n - 1, NEW l \in 1 .. n - 1, k < l
               PROVE  rank[stack'[k].node] < rank[stack'[l].node]
    BY <1>1, <1>3 DEF Climbing, Ranks
  <2>1. rank[stack[k].node] < rank[stack[l].node]
    BY <1>6 DEF IInv, Climbing
  <2> QED BY <1>3, <2>1
<1>11. Ranked'
  <2>1. PICK rank \in [Black -> (Size - b) .. (Size - 1)] :
            \A i \in Black : \A j \in JumpTargets(flow, i) : j \in Black /\ rank[i] < rank[j]
    BY DEF IInv, Ranked
  <2>2. Black' = Black \cup {top} /\ Size' = Size /\ top \notin Black
    BY <1>1, <1>2, <1>4, <1>7 DEF Black, Size
  <2>3. Size \in Nat /\ b \in Nat /\ Cardinality(Black') = b + 1
    BY <2>2, Counted, FS_AddElement DEF IInv
  <2>4. \A j \in JumpTargets(flow, top) : j \in Black
    BY <1>1, <1>2, <1>5, JumpsInside DEF Black
  <2> DEFINE new == [i \in Black' |-> IF i = top THEN Size - b - 1 ELSE rank[i]]
  <2>5. Cardinality(Black') <= Size
    <3>1. Black' \subseteq DOMAIN flow
      BY <1>1 DEF Black
    <3> QED BY <3>1, Counted, FS_Subset DEF IInv, Size
  <2>6. new \in [Black' -> (Size - (b + 1)) .. (Size - 1)]
    BY <2>1, <2>2, <2>3, <2>5
  <2>7. ASSUME NEW i \in Black', NEW j \in JumpTargets(flow, i)
        PROVE  j \in Black' /\ new[i] < new[j]
    <3>1. j \in Black
      BY <2>1, <2>2, <2>4, <2>7
    <3>2. j \in Black' /\ new[j] = rank[j] /\ rank[j] \in (Size - b) .. (Size - 1)
      BY <2>1, <2>2, <3>1
    <3>3. CASE i = top
      BY <2>3, <3>2, <3>3
    <3>4. CASE i # top
      BY <2>1, <2>2, <3>2, <3>4
    <3> QED BY <3>2, <3>3, <3>4
  <2> HIDE DEF new
  <2> QED BY <1>1, <2>2, <2>3, <2>6, <2>7 DEF Ranked
<1>12. SearchDecides'
  BY <1>1 DEF SearchDecides
<1> QED BY <1>8, <1>9, <1>10, <1>11, <1>12 DEF IInv

\* With every step black the ranking covers the workflow.
LEMMA ExhaustedKeeps ==
    ASSUME IInv, Exhausted
    PROVE  IInv'
<1>1. /\ stack = <<>> /\ White = {} /\ verdict' = "acyclic"
      /\ flow' = flow /\ color' = color /\ stack' = stack
  BY DEF Exhausted
<1>2. Black = DOMAIN flow
  <2>1. \A i \in DOMAIN flow : color[i] # "gray"
    BY <1>1 DEF IInv, Pathlike
  <2> QED BY <1>1, <2>1 DEF IInv, Typed, White, Black
<1>3. Acyclic(flow)
  <2>1. /\ Size \in Nat /\ DOMAIN flow = 0 .. (Size - 1)
        /\ Cardinality(Black) = Size
    BY <1>2, Counted DEF IInv, Size
  <2>2. [Black -> (Size - Cardinality(Black)) .. (Size - 1)] = [DOMAIN flow -> DOMAIN flow]
    BY <1>2, <2>1
  <2> QED BY <1>2, <2>2 DEF IInv, Ranked, Acyclic
<1>4. SearchDecides'
  BY <1>1, <1>3 DEF SearchDecides
<1>5. Typed' /\ Pathlike' /\ Climbing'
  BY <1>1 DEF IInv, Typed, Pathlike, Climbing, Ranks
<1>6. Ranked'
  BY <1>1, RankedStays DEF IInv
<1> QED BY <1>4, <1>5, <1>6 DEF IInv

LEMMA StepIInv == IInv /\ [Next]_vars => IInv'
<1> SUFFICES ASSUME IInv, [Next]_vars PROVE IInv'
  OBVIOUS
<1>1. CASE UNCHANGED vars
  <2>1. Typed' /\ Pathlike' /\ Climbing' /\ SearchDecides'
    BY <1>1 DEF IInv, vars, Typed, Pathlike, Climbing, Ranks, SearchDecides
  <2> QED BY <1>1, <2>1, RankedStays DEF IInv, vars
<1>2. CASE Next
  BY <1>2, RootKeeps, LookKeeps, ReturnKeeps, ExhaustedKeeps DEF Next
<1> QED BY <1>1, <1>2

\* hasCycle decides, for every workflow that passes the checks before it,
\* whether a ranking exists that all jumps raise.
THEOREM SearchIsRight == Spec => []SearchDecides
<1>1. IInv => SearchDecides
  BY DEF IInv
<1> QED BY <1>1, InitIInv, StepIInv, PTL DEF Spec
=============================================================================
