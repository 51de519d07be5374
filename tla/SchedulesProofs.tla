-------------------------- MODULE SchedulesProofs ---------------------------
(***************************************************************************)
(* Proofs about Schedules: whoever writes schedules.json over whom, no     *)
(* schedule is on it twice; as long as no write has gone over a list its   *)
(* writer had not read, the list is what the users were told; and the runs *)
(* of a schedule are an interval apart.                                    *)
(*                                                                         *)
(* For the last, TInv looks at the list the next pass will have: an entry  *)
(* of it that would be due before its interval is over is there because of *)
(* a mishap, or of a write over somebody else's, that has not led to an    *)
(* early run yet (Paid).                                                   *)
(*                                                                         *)
(* Last, the lock file.  The run MCSchedules_lock shows two daemons inside *)
(* it; the theorem about it says that this takes somebody who comes to the *)
(* file between its unlocking and the removal of its name (Undisturbed).   *)
(***************************************************************************)
EXTENDS Schedules, SequenceTheorems, FiniteSetTheorems, TLAPS

Records == [job : Jobs, in : Int]

IsSeq(l) == l \in Seq(Records)

NoTwins(l) == \A i, k \in DOMAIN l : l[i].job = l[k].job => i = k

Sound(l) == IsSeq(l) /\ NoTwins(l)

\* Each copy of the list is sound too: passes and commands write theirs back.
AllSound ==
    /\ Sound(list)
    /\ mem \in [Daemons -> Seq(Records)]
    /\ \A d \in Daemons : NoTwins(mem[d])
    /\ seen \in [Users -> Seq(Records)]
    /\ \A u \in Users : NoTwins(seen[u])
    /\ pos \in [Daemons -> Nat \ {0}]
    /\ since \in [Daemons -> Nat]

LEMMA AgedSound ==
    ASSUME NEW l, NEW n \in Nat, Sound(l)
    PROVE  Sound(Aged(l, n)) /\ JobsOf(Aged(l, n)) = JobsOf(l)
<1>0. MaxLate \in Nat BY ScheduleAssumption
<1>1. l \in Seq(Records) /\ DOMAIN l = 1 .. Len(l) /\ Len(l) \in Nat
    BY LenProperties DEF Sound, IsSeq
<1>a. \A i \in DOMAIN l : l[i] \in Records BY <1>1, ElementOfSeq
<1>b. \A i \in DOMAIN l : l[i].in \in Int BY <1>a DEF Records
<1>c. \A x \in Int : Later(x, n) \in Int BY <1>0 DEF Later
<1>2. \A i \in DOMAIN l : Later(l[i].in, n) \in Int BY <1>b, <1>c
<1>3. \A i \in DOMAIN l :
        /\ [l[i] EXCEPT !.in = Later(@, n)] \in Records
        /\ [l[i] EXCEPT !.in = Later(@, n)].job = l[i].job
    BY <1>a, <1>2 DEF Records
<1>4. DOMAIN Aged(l, n) = 1 .. Len(l) BY <1>1 DEF Aged
<1>5. \A i \in DOMAIN l :
        Aged(l, n)[i] \in Records /\ Aged(l, n)[i].job = l[i].job
    BY <1>1, <1>3 DEF Aged
<1>6. Len(l) \in Nat BY <1>1
<1>7. Aged(l, n) \in Seq(Records)
    BY <1>1, <1>4, <1>5, <1>6 DEF Aged
<1>8. NoTwins(Aged(l, n)) BY <1>1, <1>4, <1>5 DEF NoTwins, Sound
<1>9. JobsOf(Aged(l, n)) = JobsOf(l) BY <1>1, <1>4, <1>5 DEF JobsOf
<1> QED BY <1>7, <1>8, <1>9 DEF Sound, IsSeq

LEMMA AppendSound ==
    ASSUME NEW l, NEW j \in Jobs, Sound(l), j \notin JobsOf(l)
    PROVE  /\ Sound(Append(l, [job |-> j, in |-> 0]))
           /\ JobsOf(Append(l, [job |-> j, in |-> 0])) = JobsOf(l) \cup {j}
<1> DEFINE e == [job |-> j, in |-> 0]
           m == Append(l, e)
<1>1. l \in Seq(Records) /\ e \in Records /\ e.job = j
    BY DEF Sound, IsSeq, Records
<1> HIDE DEF e
<1>2. /\ m \in Seq(Records)
      /\ DOMAIN m = 1 .. Len(l) + 1
      /\ \A i \in 1 .. Len(l) : m[i] = l[i]
      /\ m[Len(l) + 1] = e
      /\ DOMAIN l = 1 .. Len(l)
      /\ Len(l) \in Nat
    BY <1>1, AppendProperties, LenProperties
<1> HIDE DEF m
<1>3. \A i \in 1 .. Len(l) : m[i].job # j
    BY <1>2 DEF JobsOf
<1>4. NoTwins(m)
    <2> SUFFICES ASSUME NEW i \in DOMAIN m, NEW k \in DOMAIN m, m[i].job = m[k].job
                 PROVE  i = k
        BY DEF NoTwins
    <2>1. CASE i \in 1 .. Len(l) /\ k \in 1 .. Len(l)
        BY <2>1, <1>2 DEF Sound, NoTwins
    <2>2. CASE i = Len(l) + 1 /\ k \in 1 .. Len(l) BY <2>2, <1>1, <1>2, <1>3
    <2>3. CASE k = Len(l) + 1 /\ i \in 1 .. Len(l) BY <2>3, <1>1, <1>2, <1>3
    <2>4. CASE k = Len(l) + 1 /\ i = Len(l) + 1 BY <2>4
    <2> QED BY <1>2, <2>1, <2>2, <2>3, <2>4
<1>5. JobsOf(m) = JobsOf(l) \cup {j}
    <2>1. ASSUME NEW x \in JobsOf(m) PROVE x \in JobsOf(l) \cup {j}
        BY <1>1, <1>2 DEF JobsOf
    <2>2. ASSUME NEW x \in JobsOf(l) PROVE x \in JobsOf(m)
        <3>1. PICK i \in 1 .. Len(l) : x = l[i].job BY <1>2 DEF JobsOf
        <3>2. m[i].job = x /\ i \in DOMAIN m BY <3>1, <1>2
        <3> QED BY <3>2 DEF JobsOf
    <2>3. j \in JobsOf(m)
        <3>1. Len(l) + 1 \in DOMAIN m /\ m[Len(l) + 1].job = j BY <1>1, <1>2
        <3> QED BY <3>1 DEF JobsOf
    <2> QED BY <2>1, <2>2, <2>3
<1> QED BY <1>2, <1>4, <1>5 DEF Sound, IsSeq, m, e

LEMMA RemoveEntries ==
    ASSUME NEW l, IsSeq(l), NEW i \in DOMAIN l
    PROVE  /\ RemoveAt(l, i) \in Seq(Records)
           /\ DOMAIN RemoveAt(l, i) = 1 .. Len(l) - 1
           /\ \A k \in 1 .. Len(l) - 1 :
                RemoveAt(l, i)[k] = IF k < i THEN l[k] ELSE l[k + 1]
<1> DEFINE m == RemoveAt(l, i)
           a == SubSeq(l, 1, i - 1)
           b == SubSeq(l, i + 1, Len(l))
           n == Len(l)
<1>1. /\ l \in Seq(Records)
      /\ n \in Nat
      /\ i \in 1 .. n
      /\ DOMAIN l = 1 .. n
      /\ \A k \in 1 .. n : l[k] \in Records
    BY LenProperties, ElementOfSeq DEF IsSeq
<1>2. /\ a \in Seq(Records)
      /\ Len(a) = i - 1
      /\ \A k \in 1 .. i - 1 : a[k] = l[k]
    BY <1>1, SubSeqProperties, Z3
<1>3. /\ b \in Seq(Records)
      /\ Len(b) = n - i
      /\ \A k \in 1 .. n - i : b[k] = l[i + k]
    BY <1>1, SubSeqProperties, Z3
<1> HIDE DEF a, b
<1>4. /\ a \o b \in Seq(Records)
      /\ Len(a \o b) = n - 1
      /\ \A k \in 1 .. n - 1 : (a \o b)[k] = IF k < i THEN l[k] ELSE l[k + 1]
    <2>1. /\ a \o b \in Seq(Records)
          /\ Len(a \o b) = Len(a) + Len(b)
          /\ \A k \in 1 .. Len(a) + Len(b) :
                (a \o b)[k] = IF k <= Len(a) THEN a[k] ELSE b[k - Len(a)]
        BY <1>2, <1>3, ConcatProperties
    <2> DEFINE c == a \o b
    <2> HIDE DEF n, c
    <2>2. Len(a) + Len(b) = n - 1 BY <1>1, <1>2, <1>3
    <2>3. ASSUME NEW k \in 1 .. n - 1, k < i PROVE c[k] = l[k]
        BY <2>3, <2>1, <2>2, <1>1, <1>2 DEF c
    <2>4. ASSUME NEW k \in 1 .. n - 1, ~(k < i) PROVE c[k] = l[k + 1]
        <3>1. k - (i - 1) \in 1 .. n - i BY <2>4, <1>1
        <3>2. c[k] = b[k - (i - 1)] BY <2>4, <2>1, <2>2, <1>1, <1>2 DEF c
        <3>3. b[k - (i - 1)] = l[i + (k - (i - 1))] BY <3>1, <1>3
        <3>4. i + (k - (i - 1)) = k + 1 BY <1>1
        <3> QED BY <3>2, <3>3, <3>4
    <2> QED BY <2>1, <2>2, <2>3, <2>4 DEF c
<1>5. m = a \o b BY DEF RemoveAt, a, b
<1> HIDE DEF m
<1>6. /\ m \in Seq(Records)
      /\ DOMAIN m = 1 .. n - 1
      /\ \A k \in 1 .. n - 1 : m[k] = IF k < i THEN l[k] ELSE l[k + 1]
    BY <1>1, <1>4, <1>5, LenProperties
<1> QED BY <1>6 DEF m

LEMMA RemoveSound ==
    ASSUME NEW l, Sound(l), NEW i \in DOMAIN l
    PROVE  /\ Sound(RemoveAt(l, i))
           /\ JobsOf(RemoveAt(l, i)) = JobsOf(l) \ {l[i].job}
<1> DEFINE m == RemoveAt(l, i)
           n == Len(l)
<1>1. l \in Seq(Records) /\ n \in Nat /\ i \in 1 .. n /\ DOMAIN l = 1 .. n
    BY LenProperties DEF Sound, IsSeq
<1>6. /\ m \in Seq(Records)
      /\ DOMAIN m = 1 .. n - 1
      /\ \A k \in 1 .. n - 1 : m[k] = IF k < i THEN l[k] ELSE l[k + 1]
    BY RemoveEntries DEF Sound
<1> HIDE DEF m, n
<1>7. NoTwins(m)
    <2> SUFFICES ASSUME NEW x \in 1 .. n - 1, NEW y \in 1 .. n - 1, m[x].job = m[y].job
                 PROVE  x = y
        BY <1>6 DEF NoTwins
    <2> DEFINE p == IF x < i THEN x ELSE x + 1
               q == IF y < i THEN y ELSE y + 1
    <2>1. p \in DOMAIN l /\ q \in DOMAIN l /\ m[x] = l[p] /\ m[y] = l[q]
        BY <1>1, <1>6
    <2>2. p = q
        <3> HIDE DEF p, q
        <3> QED BY <2>1 DEF Sound, NoTwins
    <2> QED BY <2>2, <1>1
<1>8. JobsOf(m) = JobsOf(l) \ {l[i].job}
    <2>1. ASSUME NEW x \in JobsOf(m) PROVE x \in JobsOf(l) \ {l[i].job}
        <3>1. PICK k \in 1 .. n - 1 : x = m[k].job BY <1>6 DEF JobsOf
        <3>2. PICK p \in DOMAIN l : p # i /\ m[k] = l[p]
            <4>1. CASE k < i BY <4>1, <1>1, <1>6
            <4>2. CASE ~(k < i) BY <4>2, <1>1, <1>6
            <4> QED BY <4>1, <4>2
        <3> QED BY <3>1, <3>2 DEF JobsOf, Sound, NoTwins
    <2>2. ASSUME NEW x \in JobsOf(l), x # l[i].job PROVE x \in JobsOf(m)
        <3>1. PICK p \in 1 .. n : x = l[p].job BY <1>1 DEF JobsOf
        <3>2. PICK k \in DOMAIN m : m[k] = l[p]
            <4>1. CASE p < i BY <4>1, <1>1, <1>6
            <4>2. CASE p > i
                <5>1. p - 1 \in DOMAIN m /\ ~(p - 1 < i) BY <4>2, <1>1, <1>6
                <5>2. m[p - 1] = l[p] BY <5>1, <1>1, <1>6
                <5> QED BY <5>1, <5>2
            <4>3. p # i BY <3>1, <2>2
            <4> QED BY <4>1, <4>2, <4>3, <1>1
        <3> QED BY <3>1, <3>2 DEF JobsOf
    <2> QED BY <2>1, <2>2
<1> QED BY <1>6, <1>7, <1>8 DEF Sound, IsSeq, m

LEMMA EmptySound == Sound(<<>>) /\ JobsOf(<<>>) = {}
<1>1. <<>> \in Seq(Records) /\ DOMAIN <<>> = {} BY LenProperties, EmptySeq
<1> QED BY <1>1 DEF Sound, IsSeq, NoTwins, JobsOf

LEMMA CopiesSound ==
    ASSUME AllSound
    PROVE  /\ \A d \in Daemons : Sound(mem[d])
           /\ \A u \in Users : Sound(seen[u])
BY DEF AllSound, Sound, IsSeq

\* An entry of a pass is advanced in place.
LEMMA AdvancedSound ==
    ASSUME NEW l, Sound(l), NEW i \in 1 .. Len(l)
    PROVE  /\ Sound([l EXCEPT ![i] = Advanced(l[i])])
           /\ JobsOf([l EXCEPT ![i] = Advanced(l[i])]) = JobsOf(l)
<1> DEFINE e == Advanced(l[i])
           m == [l EXCEPT ![i] = e]
<1>1. l \in Seq(Records) /\ DOMAIN l = 1 .. Len(l) /\ l[i] \in Records
    BY LenProperties, ElementOfSeq DEF Sound, IsSeq
<1>2. e \in Records /\ e.job = l[i].job
    <2>1. ASSUME NEW r \in Records PROVE Advanced(r) \in Records /\ Advanced(r).job = r.job
        <3>1. r.job \in Jobs BY DEF Records
        <3>2. Every[r.job] \in Int BY <3>1, ScheduleAssumption
        <3> QED BY <3>2 DEF Advanced, Records
    <2> QED BY <1>1, <2>1
<1> HIDE DEF e
<1>3. m \in Seq(Records) /\ DOMAIN m = DOMAIN l BY <1>1, <1>2, ExceptSeq
<1>4. \A k \in DOMAIN l : m[k].job = l[k].job BY <1>1, <1>2
<1> HIDE DEF m
<1>5. NoTwins(m) BY <1>3, <1>4 DEF NoTwins, Sound
<1>6. JobsOf(m) = JobsOf(l) BY <1>3, <1>4 DEF JobsOf
<1> QED BY <1>3, <1>5, <1>6 DEF Sound, IsSeq, m, e

LEMMA InitSound == Init => AllSound
BY EmptySound DEF Init, AllSound, Sound, IsSeq

LEMMA RestSound ==
    ASSUME AllSound, NEW d \in Daemons, Rest(d)
    PROVE  /\ mem' \in [Daemons -> Seq(Records)]
           /\ \A e \in Daemons : NoTwins(mem'[e])
           /\ pos' \in [Daemons -> Nat \ {0}]
           /\ since' \in [Daemons -> Nat]
BY EmptySound DEF AllSound, Rest, Sound, IsSeq

LEMMA PollSound ==
    ASSUME AllSound, NEW d \in Daemons, Poll(d)
    PROVE  AllSound'
<1>1. UNCHANGED <<list, seen, pos, since>> BY DEF Poll, outside, command
<1>2. mem' = mem \/ mem' = [mem EXCEPT ![d] = list] BY DEF Poll
<1> QED BY <1>1, <1>2 DEF AllSound, Sound, IsSeq

LEMMA AdvanceSound ==
    ASSUME AllSound, NEW d \in Daemons, Fire(d) \/ Fail(d) \/ Skip(d)
    PROVE  AllSound'
<1>1. UNCHANGED <<list, seen, since>> /\ pos' = [pos EXCEPT ![d] = @ + 1]
    BY DEF Fire, Fail, Skip, Onward, outside, command, file
<1>2. mem[d] \in Seq(Records) /\ pos[d] \in Nat \ {0} /\ pos[d] <= Len(mem[d])
    BY DEF AllSound, Fire, Fail, Skip, AtEntry
<1>3. pos[d] \in 1 .. Len(mem[d]) BY <1>2, LenProperties
<1> DEFINE m == [mem[d] EXCEPT ![pos[d]] = Advanced(mem[d][pos[d]])]
<1>4. Sound(m) BY <1>3, AdvancedSound, CopiesSound
<1>5. mem' = mem \/ mem' = [mem EXCEPT ![d] = m] BY DEF Fire, Fail, Skip
<1> HIDE DEF m
<1>6. /\ mem' \in [Daemons -> Seq(Records)]
      /\ \A e \in Daemons : NoTwins(mem'[e])
    BY <1>4, <1>5 DEF AllSound, Sound, IsSeq
<1>7. pos' \in [Daemons -> Nat \ {0}] BY <1>1 DEF AllSound
<1> QED BY <1>1, <1>6, <1>7 DEF AllSound, Sound, IsSeq

LEMMA SaveSound ==
    ASSUME AllSound, NEW d \in Daemons, Save(d)
    PROVE  AllSound'
<1>1. Rest(d) /\ UNCHANGED seen BY DEF Save, command
<1>2. list' = list \/ list' = Aged(mem[d], since[d]) BY DEF Save, Write, Forget
<1>3. Sound(Aged(mem[d], since[d])) BY AgedSound, CopiesSound DEF AllSound
<1>4. Sound(list') BY <1>2, <1>3 DEF AllSound
<1> QED BY <1>1, <1>4, RestSound DEF AllSound, Sound, IsSeq, NoTwins

LEMMA CrashSound ==
    ASSUME AllSound, NEW d \in Daemons, Crash(d)
    PROVE  AllSound'
<1>1. Rest(d) /\ UNCHANGED <<list, seen>> BY DEF Crash, command, Forget
<1> QED BY <1>1, RestSound DEF AllSound, Sound, IsSeq

LEMMA TakeSound ==
    ASSUME AllSound, NEW u \in Users, NEW verb, NEW j, NEW l, Sound(l), Take(u, verb, j, l)
    PROVE  AllSound'
<1>1. UNCHANGED <<list, mem, pos, since>> /\ seen' = [seen EXCEPT ![u] = l]
    BY DEF Take, inside, daemon
<1> QED BY <1>1 DEF AllSound, Sound, IsSeq

LEMMA DoneSound ==
    ASSUME AllSound, NEW u \in Users, Finish(u) \/ Abandon(u)
    PROVE  AllSound'
<1>1. UNCHANGED <<mem, pos, since>> /\ seen' = [seen EXCEPT ![u] = <<>>]
    BY DEF Finish, Abandon, Done, inside, daemon
<1>2. list' = list \/ list' = seen[u] BY DEF Finish, Abandon, Write, Forget
<1>3. Sound(list') BY <1>2, CopiesSound DEF AllSound
<1> QED BY <1>1, <1>3, EmptySound DEF AllSound, Sound, IsSeq

LEMMA TickSound ==
    ASSUME AllSound, Tick
    PROVE  AllSound'
<1>1. /\ list' = Aged(list, 1)
      /\ seen' = [u \in Users |-> Aged(seen[u], 1)]
      /\ UNCHANGED <<mem, pos>>
      /\ since' \in [Daemons -> Nat]
    BY DEF Tick, AllSound
<1>2. Sound(list') BY <1>1, AgedSound DEF AllSound
<1>3. \A u \in Users : Sound(Aged(seen[u], 1)) BY AgedSound, CopiesSound
<1> QED BY <1>1, <1>2, <1>3 DEF AllSound, Sound, IsSeq

LEMMA NextSound == AllSound /\ [Next]_vars => AllSound'
<1> SUFFICES ASSUME AllSound, [Next]_vars PROVE AllSound' OBVIOUS
<1>1. ASSUME NEW d \in Daemons, Start(d) \/ Enter(d) \/ Leave(d) \/ Unname(d) \/ Interrupt(d)
      PROVE  AllSound'
    <2>1. UNCHANGED <<list, mem, seen, pos, since>>
        BY <1>1 DEF Start, Enter, Leave, Unname, Interrupt, outside, command, file
    <2> QED BY <2>1 DEF AllSound, Sound, IsSeq, NoTwins
<1>2. ASSUME NEW u \in Users, NEW j \in Jobs, Add(u, j)
      PROVE  AllSound'
    BY <1>2, AppendSound, TakeSound DEF Add, AllSound
<1>3. ASSUME NEW u \in Users, NEW i, RemoveIndex(u, i)
      PROVE  AllSound'
    BY <1>3, RemoveSound, TakeSound DEF RemoveIndex, AllSound
<1>4. CASE UNCHANGED vars
    BY <1>4 DEF vars, file, daemon, command, AllSound, Sound, IsSeq, NoTwins
<1> QED
    BY <1>1, <1>2, <1>3, <1>4, PollSound, AdvanceSound, SaveSound, CrashSound, DoneSound,
       TickSound DEF Next, Step

\* However commands and passes write over each other, no schedule is on the
\* list or in a pass twice (addSchedule, pollSchedules).
THEOREM NoScheduleTwice == Spec => []ListSound
<1>1. AllSound => ListSound
    <2> SUFFICES ASSUME AllSound, NEW l \in {list} \cup {mem[d] : d \in Daemons}
                 PROVE  IsInjective([i \in DOMAIN l |-> l[i].job])
        BY DEF ListSound
    <2>1. NoTwins(l) BY DEF AllSound, Sound
    <2> QED BY <2>1 DEF NoTwins, IsInjective
<1> QED BY <1>1, InitSound, NextSound, PTL DEF Spec

-----------------------------------------------------------------------------
(* The list is what the users were told.                                   *)

\* What u will have been told once its write is done.
Promised(u) == IF upc[u] = "adding" THEN told \cup about[u] ELSE told \ about[u]

Clean == clobbers = 0 /\ ~overlapped

\* Whoever holds a copy that is not stale writes what the users were told.
Current ==
    /\ JobsOf(list) = told
    /\ \A d \in Daemons : dpc[d] = "firing" /\ d \notin stale => JobsOf(mem[d]) = told
    /\ \A u \in Users : upc[u] # "idle" /\ u \notin stale => JobsOf(seen[u]) = Promised(u)

Shaped ==
    /\ dpc \in [Daemons -> {"down", "open", "ready", "firing", "idle", "unlocked"}]
    /\ upc \in [Users -> {"idle", "adding", "removing"}]
    /\ about \in [Users -> SUBSET Jobs]
    /\ clobbers \in Nat

Kept == AllSound /\ Shaped /\ (Clean => Current)

LEMMA InitKept == Init => Kept
<1> SUFFICES ASSUME Init PROVE Kept OBVIOUS
<1>1. Shaped BY DEF Init, Shaped
<1>2. Current
    <2>1. list = <<>> /\ told = {} BY DEF Init
    <2>2. \A d \in Daemons : dpc[d] = "down" BY DEF Init
    <2>3. \A u \in Users : upc[u] = "idle" BY DEF Init
    <2> QED BY <2>1, <2>2, <2>3, EmptySound DEF Current
<1> QED BY <1>1, <1>2, InitSound DEF Kept

LEMMA NextShaped == AllSound /\ Shaped /\ [Next]_vars => Shaped'
<1> SUFFICES ASSUME AllSound, Shaped, [Next]_vars PROVE Shaped' OBVIOUS
<1>1. ASSUME NEW d \in Daemons, Step(d) \/ Interrupt(d) \/ Crash(d) PROVE Shaped'
    <2>1. UNCHANGED <<upc, about>>
        BY <1>1 DEF Step, Start, Enter, Poll, Fire, Fail, Skip, Save, Leave, Unname,
                    Interrupt, Crash, outside, command
    <2>2. dpc' \in [Daemons -> {"down", "open", "ready", "firing", "idle", "unlocked"}]
        <3>1. CASE Start(d) \/ Enter(d) \/ Poll(d) BY <3>1 DEF Start, Enter, Poll, Goto, Shaped
        <3>2. CASE Fire(d) \/ Fail(d) \/ Skip(d) \/ Interrupt(d)
            BY <3>2 DEF Fire, Fail, Skip, Interrupt, Shaped
        <3>3. CASE Save(d) \/ Leave(d) \/ Unname(d) \/ Crash(d)
            BY <3>3 DEF Save, Leave, Unname, Crash, Goto, Shaped
        <3> QED BY <1>1, <3>1, <3>2, <3>3 DEF Step
    <2>3. clobbers' \in Nat
        <3>1. CASE Save(d) BY <3>1 DEF Save, Write, Forget, Shaped
        <3>2. CASE ~Save(d)
            BY <1>1, <3>2 DEF Step, Start, Enter, Poll, Fire, Fail, Skip, Leave, Unname,
                              Interrupt, Crash, file, Forget, Shaped
        <3> QED BY <3>1, <3>2
    <2> QED BY <2>1, <2>2, <2>3 DEF Shaped
<1>2. ASSUME NEW u \in Users, NEW j \in Jobs, NEW verb \in {"adding", "removing"}, NEW l,
             Take(u, verb, j, l)
      PROVE  Shaped'
    <2>1. upc' = [upc EXCEPT ![u] = verb] /\ about' = [about EXCEPT ![u] = {j}]
        BY <1>2 DEF Take
    <2>2. UNCHANGED <<dpc, clobbers>> BY <1>2 DEF Take, inside, daemon
    <2> QED BY <2>1, <2>2 DEF Shaped
<1>3. ASSUME NEW u \in Users, NEW j \in Jobs, Add(u, j) PROVE Shaped'
    BY <1>2, <1>3 DEF Add
<1>7. ASSUME NEW u \in Users, NEW i \in 1 .. MaxSchedules, RemoveIndex(u, i) PROVE Shaped'
    <2>1. list \in Seq(Records) /\ i \in 1 .. Len(list)
        BY <1>7, LenProperties DEF RemoveIndex, AllSound, Sound, IsSeq
    <2>2. list[i] \in Records BY <2>1, ElementOfSeq
    <2>3. list[i].job \in Jobs BY <2>2 DEF Records
    <2> QED BY <1>2, <1>7, <2>3 DEF RemoveIndex
<1>4. ASSUME NEW u \in Users, Finish(u) \/ Abandon(u) PROVE Shaped'
    <2>1. /\ upc' = [upc EXCEPT ![u] = "idle"]
          /\ about' = [about EXCEPT ![u] = {}]
          /\ UNCHANGED dpc
        BY <1>4 DEF Finish, Abandon, Done, inside, daemon
    <2>2. clobbers' \in Nat BY <1>4 DEF Finish, Abandon, Write, Forget, Shaped
    <2> QED BY <2>1, <2>2 DEF Shaped
<1>5. CASE Tick BY <1>5 DEF Tick, Shaped
<1>6. CASE UNCHANGED vars BY <1>6 DEF vars, file, daemon, command, Shaped
<1> QED BY <1>1, <1>3, <1>4, <1>5, <1>6, <1>7 DEF Next

\* A step that leaves the list, its copies, what was told and who is stale as
\* they are, but for a copy that is given up.
LEMMA QuietKept ==
    ASSUME Kept, UNCHANGED <<list, told, clobbers, upc, about, seen, stale>>,
           Clean' => Clean,
           \A d \in Daemons : dpc'[d] = "firing" =>
               dpc[d] = "firing" /\ JobsOf(mem'[d]) = JobsOf(mem[d])
    PROVE  Clean' => Current'
BY DEF Kept, Current, Promised, JobsOf

LEMMA CleanBefore == [Next]_vars /\ Shaped => (Clean' => Clean)
<1> SUFFICES ASSUME [Next]_vars, Shaped, Clean' PROVE Clean OBVIOUS
<1>1. ASSUME NEW d \in Daemons, Enter(d) PROVE Clean
    <2>1. clobbers' = clobbers BY <1>1 DEF Enter, file
    <2>2. \/ overlapped' = (overlapped \/ Running # {})
          \/ overlapped' = overlapped
        BY <1>1 DEF Enter
    <2>3. overlapped => overlapped' BY <2>2, Zenon
    <2> QED BY <2>1, <2>3 DEF Clean
<1>2. ASSUME NEW p, NEW l, Write(p, l), UNCHANGED overlapped PROVE Clean
    BY <1>2 DEF Write, Clean, Shaped
<1>3. CASE UNCHANGED <<clobbers, overlapped>> BY <1>3 DEF Clean
<1>4. ASSUME NEW d \in Daemons, Step(d) \/ Interrupt(d) \/ Crash(d), ~Enter(d), ~Save(d)
      PROVE  UNCHANGED <<clobbers, overlapped>>
    <2>1. CASE Start(d) \/ Leave(d) \/ Unname(d) BY <2>1 DEF Start, Leave, Unname, file
    <2>2. CASE Poll(d) BY <2>2 DEF Poll
    <2>3. CASE Fire(d) \/ Fail(d) \/ Skip(d) \/ Interrupt(d)
        BY <2>3 DEF Fire, Fail, Skip, Interrupt, file
    <2>4. CASE Crash(d) BY <2>4 DEF Crash, Forget
    <2> QED BY <1>4, <2>1, <2>2, <2>3, <2>4 DEF Step
<1>5. ASSUME NEW d \in Daemons, Save(d) PROVE Clean
    BY <1>2, <1>3, <1>5 DEF Save, Forget
<1>6. ASSUME NEW u \in Users, Finish(u) \/ Abandon(u) PROVE Clean
    BY <1>2, <1>3, <1>6 DEF Finish, Abandon, Done, Forget, inside
<1>7. ASSUME NEW u \in Users, NEW j, NEW verb, NEW l, Take(u, verb, j, l) PROVE Clean
    BY <1>3, <1>7 DEF Take, inside
<1>8. CASE Tick BY <1>3, <1>8 DEF Tick
<1>9. CASE UNCHANGED vars BY <1>3, <1>9 DEF vars, file
<1> QED BY <1>1, <1>3, <1>4, <1>5, <1>6, <1>7, <1>8, <1>9 DEF Next, Add, RemoveIndex

LEMMA PassKept ==
    ASSUME Kept, NEW d \in Daemons, Step(d) \/ Interrupt(d) \/ Crash(d), Clean, Clean'
    PROVE  Current'
<1> USE DEF Kept
<1>1. UNCHANGED <<told, upc, about, seen>>
    BY DEF Step, Start, Enter, Poll, Fire, Fail, Skip, Save, Leave, Unname, Interrupt, Crash,
           outside, command
<1>2. \A u \in Users : Promised(u)' = Promised(u) BY <1>1 DEF Promised
<1>3. CASE Start(d) \/ Enter(d) \/ Leave(d) \/ Unname(d) \/ Interrupt(d)
    <2>1. UNCHANGED <<list, clobbers, stale, mem>>
        BY <1>3 DEF Start, Enter, Leave, Unname, Interrupt, file
    <2>2. \A e \in Daemons : dpc'[e] = "firing" => dpc[e] = "firing"
        BY <1>3 DEF Start, Enter, Leave, Unname, Interrupt, Goto, Shaped
    <2> QED BY <1>1, <2>1, <2>2, QuietKept DEF JobsOf
<1>4. CASE Fire(d) \/ Fail(d) \/ Skip(d)
    <2>1. UNCHANGED <<list, clobbers, stale, dpc>> BY <1>4 DEF Fire, Fail, Skip, file
    <2>2. Sound(mem[d]) /\ pos[d] \in 1 .. Len(mem[d])
        BY <1>4, CopiesSound, LenProperties DEF AllSound, Fire, Fail, Skip, AtEntry, Sound, IsSeq
    <2> DEFINE m == [mem[d] EXCEPT ![pos[d]] = Advanced(mem[d][pos[d]])]
    <2>3. JobsOf(m) = JobsOf(mem[d]) BY <2>2, AdvancedSound
    <2>4. mem' = mem \/ mem' = [mem EXCEPT ![d] = m] BY <1>4 DEF Fire, Fail, Skip
    <2> HIDE DEF m
    <2>5. \A e \in Daemons : JobsOf(mem'[e]) = JobsOf(mem[e]) BY <2>3, <2>4 DEF AllSound
    <2> QED BY <1>1, <2>1, <2>5, QuietKept
<1>5. CASE Poll(d)
    <2>1. UNCHANGED list BY <1>5 DEF Poll
    <2>2. CASE list = <<>>
        <3>1. UNCHANGED <<clobbers, stale, mem>> /\ dpc' = [dpc EXCEPT ![d] = "idle"]
            BY <1>5, <2>2 DEF Poll, Goto
        <3>2. \A e \in Daemons : dpc'[e] = "firing" => dpc[e] = "firing"
            BY <3>1 DEF Shaped
        <3> QED BY <1>1, <2>1, <3>1, <3>2, QuietKept
    <2>3. CASE list # <<>>
        <3>1. /\ mem' = [mem EXCEPT ![d] = list]
              /\ stale' = stale \ {d}
              /\ dpc' = [dpc EXCEPT ![d] = "firing"]
            BY <1>5, <2>3 DEF Poll, Goto
        <3>2. JobsOf(list') = told' BY <1>1, <2>1 DEF Current
        <3>3. ASSUME NEW e \in Daemons, dpc'[e] = "firing", e \notin stale'
              PROVE  JobsOf(mem'[e]) = told'
            BY <1>1, <3>1, <3>3 DEF Current, AllSound, Shaped
        <3>4. ASSUME NEW u \in Users, upc'[u] # "idle", u \notin stale'
              PROVE  JobsOf(seen'[u]) = Promised(u)'
            <4>1. u \notin stale BY <3>1, <3>4, ScheduleAssumption
            <4> QED BY <1>1, <1>2, <3>4, <4>1 DEF Current
        <3> QED BY <3>2, <3>3, <3>4 DEF Current, JobsOf
    <2> QED BY <2>2, <2>3
<1>6. ASSUME Forget(d), Rest(d), dpc'[d] # "firing",
             \A e \in Daemons : e # d => dpc'[e] = dpc[e]
      PROVE  Current'
    <2>1. UNCHANGED list /\ stale' = stale \ {d} BY <1>6 DEF Forget
    <2>2. \A e \in Daemons : e # d => mem'[e] = mem[e] BY <1>6 DEF Rest, AllSound
    <2>3. ASSUME NEW e \in Daemons, dpc'[e] = "firing", e \notin stale'
          PROVE  JobsOf(mem'[e]) = told'
        BY <1>1, <1>6, <2>1, <2>2, <2>3 DEF Current
    <2>4. ASSUME NEW u \in Users, upc'[u] # "idle", u \notin stale'
          PROVE  JobsOf(seen'[u]) = Promised(u)'
        <3>1. u \notin stale BY <2>1, <2>4, ScheduleAssumption
        <3> QED BY <1>1, <1>2, <2>4, <3>1 DEF Current
    <2>5. JobsOf(list') = told' BY <1>1, <2>1 DEF Current
    <2> QED BY <2>3, <2>4, <2>5 DEF Current, JobsOf
<1>7. CASE Crash(d) BY <1>6, <1>7 DEF Crash, Goto, Shaped
<1>8. CASE Save(d)
    <2>1. Rest(d) /\ dpc[d] = "firing" /\ dpc' = [dpc EXCEPT ![d] = "idle"]
        BY <1>8 DEF Save, Goto
    <2>2. CASE Forget(d) BY <1>6, <2>1, <2>2 DEF Shaped
    <2>3. CASE Write(d, Aged(mem[d], since[d]))
        <3>1. /\ list' = Aged(mem[d], since[d])
              /\ stale' = {q \in Daemons \cup Users : q # d /\ Busy(q)}
            BY <2>3 DEF Write
        <3>2. d \notin stale BY <2>3 DEF Write, Clean, Shaped
        <3>3. JobsOf(list') = told'
            <4>1. JobsOf(list') = JobsOf(mem[d]) BY <3>1, AgedSound, CopiesSound DEF AllSound
            <4> QED BY <1>1, <2>1, <3>2, <4>1 DEF Current
        <3>4. \A e \in Daemons : dpc'[e] = "firing" => e \in stale'
            BY <2>1, <3>1 DEF Busy, Shaped
        <3>5. \A u \in Users : upc'[u] # "idle" => u \in stale'
            BY <1>1, <3>1, ScheduleAssumption DEF Busy
        <3> QED BY <3>3, <3>4, <3>5 DEF Current, JobsOf
    <2> QED BY <1>8, <2>2, <2>3 DEF Save
<1> QED BY <1>3, <1>4, <1>5, <1>7, <1>8 DEF Step

LEMMA TakeKept ==
    ASSUME Kept, Clean, NEW u \in Users, NEW verb \in {"adding", "removing"}, NEW j \in Jobs,
           NEW l, Take(u, verb, j, l),
           JobsOf(l) = IF verb = "adding" THEN told \cup {j} ELSE told \ {j}
    PROVE  Current'
<1> USE DEF Kept
<1>1. /\ UNCHANGED <<list, told, mem, dpc>>
      /\ upc' = [upc EXCEPT ![u] = verb]
      /\ about' = [about EXCEPT ![u] = {j}]
      /\ seen' = [seen EXCEPT ![u] = l]
      /\ stale' = stale \ {u}
    BY DEF Take, inside, daemon
<1>2. ASSUME NEW e \in Daemons, dpc'[e] = "firing", e \notin stale'
      PROVE  JobsOf(mem'[e]) = told'
    <2>1. e \notin stale BY <1>1, <1>2, ScheduleAssumption
    <2> QED BY <1>1, <1>2, <2>1 DEF Current
<1>3. ASSUME NEW v \in Users, upc'[v] # "idle", v \notin stale'
      PROVE  JobsOf(seen'[v]) = Promised(v)'
    <2>1. CASE v = u
        <3>1. seen'[v] = l /\ upc'[v] = verb /\ about'[v] = {j} /\ told' = told
            BY <1>1, <2>1 DEF AllSound, Shaped
        <3> QED BY <3>1 DEF Promised
    <2>2. CASE v # u
        <3>1. /\ seen'[v] = seen[v] /\ upc'[v] = upc[v] /\ about'[v] = about[v]
              /\ told' = told /\ v \notin stale
            BY <1>1, <1>3, <2>2 DEF AllSound, Shaped
        <3> QED BY <1>3, <3>1 DEF Current, Promised
    <2> QED BY <2>1, <2>2
<1>4. JobsOf(list') = told' BY <1>1 DEF Current
<1> QED BY <1>2, <1>3, <1>4 DEF Current, JobsOf

LEMMA FinishKept ==
    ASSUME Kept, Clean, NEW u \in Users, Finish(u), Clean'
    PROVE  Current'
<1> USE DEF Kept
<1>1. /\ list' = seen[u]
      /\ stale' = {q \in Daemons \cup Users : q # u /\ Busy(q)}
      /\ upc' = [upc EXCEPT ![u] = "idle"]
      /\ UNCHANGED dpc
      /\ told' = Promised(u)
      /\ upc[u] # "idle"
    BY DEF Finish, Done, Write, inside, daemon, Promised
<1>2. u \notin stale BY DEF Finish, Write, Clean, Shaped
<1>3. JobsOf(list') = told' BY <1>1, <1>2 DEF Current
<1>4. \A e \in Daemons : dpc'[e] = "firing" => e \in stale'
    BY <1>1, ScheduleAssumption DEF Busy
<1>5. \A v \in Users : upc'[v] # "idle" => v \in stale'
    BY <1>1, ScheduleAssumption DEF Busy, Shaped
<1> QED BY <1>3, <1>4, <1>5 DEF Current, JobsOf

LEMMA AbandonKept ==
    ASSUME Kept, Clean, NEW u \in Users, Abandon(u)
    PROVE  Current'
<1> USE DEF Kept
<1>1. /\ UNCHANGED <<list, told, mem, dpc>>
      /\ upc' = [upc EXCEPT ![u] = "idle"]
      /\ about' = [about EXCEPT ![u] = {}]
      /\ seen' = [seen EXCEPT ![u] = <<>>]
      /\ stale' = stale \ {u}
    BY DEF Abandon, Done, Forget, inside, daemon
<1>2. ASSUME NEW e \in Daemons, dpc'[e] = "firing", e \notin stale'
      PROVE  JobsOf(mem'[e]) = told'
    <2>1. e \notin stale BY <1>1, <1>2, ScheduleAssumption
    <2> QED BY <1>1, <1>2, <2>1 DEF Current
<1>3. ASSUME NEW v \in Users, upc'[v] # "idle", v \notin stale'
      PROVE  JobsOf(seen'[v]) = Promised(v)'
    <2>1. v # u BY <1>1, <1>3 DEF Shaped
    <2>2. /\ seen'[v] = seen[v] /\ upc'[v] = upc[v] /\ about'[v] = about[v]
          /\ told' = told /\ v \notin stale
        BY <1>1, <1>3, <2>1 DEF AllSound, Shaped
    <2> QED BY <1>3, <2>2 DEF Current, Promised
<1>4. JobsOf(list') = told' BY <1>1 DEF Current
<1> QED BY <1>2, <1>3, <1>4 DEF Current, JobsOf

LEMMA TickKept ==
    ASSUME Kept, Clean, Tick
    PROVE  Current'
<1> USE DEF Kept
<1>1. /\ list' = Aged(list, 1)
      /\ seen' = [u \in Users |-> Aged(seen[u], 1)]
      /\ UNCHANGED <<told, mem, dpc, upc, about, stale>>
    BY DEF Tick
<1>2. JobsOf(list') = JobsOf(list) BY <1>1, AgedSound DEF AllSound
<1>3. \A u \in Users : JobsOf(seen'[u]) = JobsOf(seen[u])
    BY <1>1, AgedSound, CopiesSound
<1>4. \A u \in Users : Promised(u)' = Promised(u) BY <1>1 DEF Promised
<1> QED BY <1>1, <1>2, <1>3, <1>4 DEF Current, JobsOf

LEMMA NextKept == Kept /\ [Next]_vars => Kept'
<1> SUFFICES ASSUME Kept, [Next]_vars, Clean' PROVE Current'
    BY NextSound, NextShaped DEF Kept
<1>1. Clean BY CleanBefore DEF Kept
<1>2. ASSUME NEW d \in Daemons, Step(d) \/ Interrupt(d) \/ Crash(d) PROVE Current'
    BY <1>1, <1>2, PassKept
<1>3. ASSUME NEW u \in Users, NEW j \in Jobs, Add(u, j) PROVE Current'
    <2>1. JobsOf(Append(list, [job |-> j, in |-> 0])) = told \cup {j}
        BY <1>1, <1>3, AppendSound DEF Add, Kept, AllSound, Current
    <2> QED BY <1>1, <1>3, <2>1, TakeKept DEF Add
<1>4. ASSUME NEW u \in Users, NEW i \in 1 .. MaxSchedules, RemoveIndex(u, i) PROVE Current'
    <2>1. list \in Seq(Records) /\ i \in 1 .. Len(list) /\ i \in DOMAIN list
        BY <1>4, LenProperties DEF RemoveIndex, Kept, AllSound, Sound, IsSeq
    <2>2. list[i] \in Records BY <2>1, ElementOfSeq
    <2>3. list[i].job \in Jobs BY <2>2 DEF Records
    <2>4. JobsOf(RemoveAt(list, i)) = told \ {list[i].job}
        BY <1>1, <2>1, RemoveSound DEF Kept, AllSound, Current
    <2> QED BY <1>1, <1>4, <2>3, <2>4, TakeKept DEF RemoveIndex
<1>5. ASSUME NEW u \in Users, Finish(u) PROVE Current' BY <1>1, <1>5, FinishKept
<1>6. ASSUME NEW u \in Users, Abandon(u) PROVE Current' BY <1>1, <1>6, AbandonKept
<1>7. CASE Tick BY <1>1, <1>7, TickKept
<1>8. CASE UNCHANGED vars
    <2>1. UNCHANGED <<list, told, clobbers, upc, about, seen, stale, mem, dpc>>
        BY <1>8 DEF vars, file, daemon, command
    <2> QED BY <1>1, <2>1, QuietKept
<1> QED BY <1>2, <1>3, <1>4, <1>5, <1>6, <1>7, <1>8 DEF Next

\* As long as nobody has written over a list he had not read, and one daemon
\* runs, what is scheduled is what the users were told, whatever fires, fails,
\* crashes or is given up (pollSchedules, addSchedule, removeScheduleAt).
THEOREM ScheduledAsTold == Spec => []KeptAsTold
<1>1. Kept => KeptAsTold BY DEF Kept, Clean, Current, KeptAsTold
<1> QED BY <1>1, InitKept, NextKept, PTL DEF Spec

-----------------------------------------------------------------------------
(* Schedules fire an interval apart.                                       *)

\* An entry read n ticks ago is not due before its interval is over.
Spaced(e, n) ==
    gap[e.job] + e.in - n >= Every[e.job] \/ gap[e.job] = Longest(e.job)

\* The list that the next pass will have: the one a pass is working on, for it
\* will be written, or the one on disk.
Kind(j) ==
    /\ \A d \in Firing : \A i \in DOMAIN mem[d] :
            mem[d][i].job = j => Spaced(mem[d][i], since[d])
    /\ Firing = {} => \A i \in DOMAIN list : list[i].job = j => Spaced(list[i], 0)

\* A mishap, or a write over somebody else's, has not led to an early run yet.
Paid(j) == early[j] + 1 <= mishaps + clobbers

\* A copy that is not stale has what the list has, and what is added.
Copied(u) ==
    \A i \in DOMAIN seen[u] :
        \/ upc[u] = "adding" /\ seen[u][i].job \in about[u]
        \/ \E k \in DOMAIN list : seen[u][i] = list[k]

\* As long as one daemon runs.
AtOnce ==
    /\ \A d, e \in Running : d = e
    /\ \A d \in Firing : \A j \in Jobs : since[d] <= gap[j]
    /\ \A u \in Users : upc[u] # "idle" /\ u \notin stale => Copied(u)
    /\ \A j \in Jobs : Paid(j) \/ Kind(j)

Numbers ==
    /\ gap \in [Jobs -> Nat] /\ early \in [Jobs -> Nat] /\ mishaps \in Nat
    /\ \A j \in Jobs : gap[j] <= Longest(j)
    /\ \A d \in Daemons : since[d] <= MaxSpan /\ (dpc[d] # "firing" => since[d] = 0)

TInv == AllSound /\ Shaped /\ Numbers /\ SpacedFires /\ (~overlapped => AtOnce)

LEMMA Bounds ==
    /\ MaxSpan \in Nat
    /\ \A j \in Jobs :
        /\ Every[j] \in Nat \ {0} /\ Longest(j) \in Nat
        /\ Longest(j) = Every[j] + MaxSpan
BY ScheduleAssumption DEF Longest

LEMMA Entries ==
    ASSUME NEW l, IsSeq(l), NEW i \in DOMAIN l
    PROVE  l[i] \in Records /\ l[i].job \in Jobs /\ l[i].in \in Int
<1>1. l[i] \in Records BY LenProperties, ElementOfSeq DEF IsSeq
<1> QED BY <1>1 DEF Records

\* The entry a pass is at.
LEMMA DueEntry ==
    ASSUME AllSound, NEW d \in Daemons, AtEntry(d)
    PROVE  /\ IsSeq(mem[d]) /\ pos[d] \in DOMAIN mem[d] /\ d \in Firing
           /\ mem[d][pos[d]] \in Records /\ mem[d][pos[d]].job \in Jobs
           /\ mem[d][pos[d]].in \in Int
<1>1. IsSeq(mem[d]) /\ pos[d] \in Nat \ {0} /\ pos[d] <= Len(mem[d])
    BY DEF AllSound, AtEntry, IsSeq
<1>2. pos[d] \in DOMAIN mem[d] BY <1>1, LenProperties DEF IsSeq
<1> QED BY <1>1, <1>2, Entries DEF AtEntry, Firing

LEMMA AgedEntries ==
    ASSUME NEW l, IsSeq(l), NEW n \in Nat
    PROVE  /\ DOMAIN Aged(l, n) = DOMAIN l
           /\ \A i \in DOMAIN l :
                /\ Aged(l, n)[i] \in Records
                /\ Aged(l, n)[i].job = l[i].job
                /\ Aged(l, n)[i].in >= l[i].in - n
<1>1. DOMAIN Aged(l, n) = DOMAIN l BY DEF Aged
<1>2. ASSUME NEW i \in DOMAIN l
      PROVE  /\ Aged(l, n)[i] \in Records
             /\ Aged(l, n)[i].job = l[i].job
             /\ Aged(l, n)[i].in >= l[i].in - n
    <2>1. PICK r \in Records : r = l[i] BY Entries
    <2>2. PICK x \in Int : x = r.in BY DEF Records
    <2>3. PICK y \in Int : y = Later(x, n) /\ y >= x - n
        <3>1. MaxLate \in Nat BY ScheduleAssumption
        <3>2. Later(x, n) \in Int /\ Later(x, n) >= x - n BY <3>1 DEF Later
        <3> QED BY <3>2
    <2>4. Aged(l, n)[i] = [r EXCEPT !.in = y] BY <2>1, <2>2, <2>3 DEF Aged
    <2>5. [r EXCEPT !.in = y] \in Records /\ [r EXCEPT !.in = y].job = r.job
          /\ [r EXCEPT !.in = y].in = y
        BY DEF Records
    <2> QED BY <2>1, <2>2, <2>3, <2>4, <2>5
<1> QED BY <1>1, <1>2

LEMMA AgedAlike ==
    ASSUME NEW l, NEW m, NEW n \in Nat, NEW i \in DOMAIN l, NEW k \in DOMAIN m, l[i] = m[k]
    PROVE  Aged(l, n)[i] = Aged(m, n)[k]
BY DEF Aged

LEMMA InitSpaced == Init => TInv
<1> SUFFICES ASSUME Init PROVE TInv OBVIOUS
<1>1. AllSound /\ Shaped BY InitKept DEF Kept
<1>2. Numbers BY Bounds DEF Init, Numbers
<1>3. SpacedFires BY DEF Init, SpacedFires
<1>4. Running = {} /\ Firing = {} BY DEF Init, Running, Firing
<1>5. \A u \in Users : upc[u] = "idle" BY DEF Init
<1>6. \A j \in Jobs : Kind(j)
    <2>1. DOMAIN list = {} BY LenProperties, EmptySeq DEF Init
    <2> QED BY <1>4, <2>1 DEF Kind
<1>7. AtOnce BY <1>4, <1>5, <1>6 DEF AtOnce
<1> QED BY <1>1, <1>2, <1>3, <1>7 DEF TInv

-----------------------------------------------------------------------------
(* What each step counts.                                                  *)

\* Only a pass and the writing of what is added set a gap back.
LEMMA NextNumbers ==
    ASSUME AllSound, Shaped, Numbers, [Next]_vars
    PROVE  Numbers' /\ mishaps <= mishaps'
<1>0. \A d \in Daemons : since[d] \in Nat BY DEF AllSound
<1>1. ASSUME NEW d \in Daemons, Start(d) \/ Enter(d) \/ Leave(d) \/ Unname(d) \/ Interrupt(d)
      PROVE  Numbers' /\ mishaps <= mishaps'
    <2>1. UNCHANGED <<gap, early, mishaps, since>>
        BY <1>1 DEF Start, Enter, Leave, Unname, Interrupt, outside, bounds, fires
    <2>2. \A e \in Daemons : dpc'[e] # "firing" => dpc[e] # "firing"
        BY <1>1 DEF Start, Enter, Leave, Unname, Interrupt, Goto, Shaped
    <2> QED BY <2>1, <2>2 DEF Numbers, Longest
<1>2. ASSUME NEW d \in Daemons, Poll(d)
      PROVE  Numbers' /\ mishaps <= mishaps'
    <2>1. UNCHANGED <<gap, early, mishaps, since>> BY <1>2 DEF Poll, outside, bounds, fires
    <2>2. dpc[d] # "firing" /\ \A e \in Daemons : e # d => dpc'[e] = dpc[e]
        BY <1>2 DEF Poll, Goto, Shaped
    <2> QED BY <2>1, <2>2 DEF Numbers, Longest
<1>3. ASSUME NEW d \in Daemons, Fire(d)
      PROVE  Numbers' /\ mishaps <= mishaps'
    <2>1. UNCHANGED <<mishaps, since, dpc>> BY <1>3 DEF Fire, bounds
    <2>2. PICK j \in Jobs :
            /\ gap' = [gap EXCEPT ![j] = since[d]]
            /\ early' = [early EXCEPT ![j] = early[j] + 1] \/ early' = early
        <3>1. mem[d][pos[d]].job \in Jobs /\ early \in [Jobs -> Nat]
            BY <1>3, DueEntry DEF Fire, Numbers
        <3> DEFINE j == mem[d][pos[d]].job
                   more == gap[j] - since[d] < Every[j] /\ ~overlapped
        <3>2. /\ gap' = [gap EXCEPT ![j] = since[d]]
              /\ early' = [early EXCEPT ![j] = IF more THEN early[j] + 1 ELSE early[j]]
            BY <1>3 DEF Fire
        <3>3. CASE more
            <4>1. early' = [early EXCEPT ![j] = early[j] + 1] BY <3>2, <3>3
            <4> HIDE DEF j
            <4> QED BY <3>1, <3>2, <4>1 DEF j
        <3>4. CASE ~more
            <4>1. early' = [early EXCEPT ![j] = early[j]] BY <3>2, <3>4
            <4>2. early' = early
                <5> HIDE DEF j
                <5> QED BY <3>1, <4>1
            <4> HIDE DEF j
            <4> QED BY <3>1, <3>2, <4>2 DEF j
        <3> QED BY <3>3, <3>4
    <2>3. gap' \in [Jobs -> Nat] /\ early' \in [Jobs -> Nat] BY <1>0, <2>2 DEF Numbers
    <2>4. \A k \in Jobs : gap'[k] = gap[k] \/ gap'[k] = since[d] BY <2>2 DEF Numbers
    <2>5. \A k \in Jobs : since[d] <= Longest(k) BY <1>0, Bounds DEF Numbers
    <2>6. \A k \in Jobs : gap'[k] <= Longest(k) BY <2>4, <2>5 DEF Numbers
    <2> QED BY <2>1, <2>3, <2>6 DEF Numbers, Longest
<1>4. ASSUME NEW d \in Daemons, Fail(d) \/ Skip(d)
      PROVE  Numbers' /\ mishaps <= mishaps'
    <2>1. UNCHANGED <<gap, early, mishaps, since, dpc>>
        BY <1>4 DEF Fail, Skip, outside, bounds, fires
    <2> QED BY <2>1 DEF Numbers, Longest
<1>5. ASSUME NEW d \in Daemons, Save(d) \/ Crash(d)
      PROVE  Numbers' /\ mishaps <= mishaps'
    <2>1. UNCHANGED <<gap, early>> /\ (mishaps' = mishaps \/ mishaps' = mishaps + 1)
        BY <1>5 DEF Save, Crash, fires
    <2>2. /\ since' = [since EXCEPT ![d] = 0]
          /\ \A e \in Daemons : e # d => dpc'[e] = dpc[e]
        BY <1>5 DEF Save, Crash, Rest, Goto, Shaped
    <2>3. \A e \in Daemons : since'[e] = IF e = d THEN 0 ELSE since[e] BY <2>2 DEF AllSound
    <2> QED BY <2>1, <2>2, <2>3, Bounds DEF Numbers, Longest
<1>6. ASSUME NEW u \in Users, (\E j, verb, l : Take(u, verb, j, l)) \/ Abandon(u)
      PROVE  Numbers' /\ mishaps <= mishaps'
    <2>1. UNCHANGED <<gap, early, mishaps, since, dpc>>
        BY <1>6 DEF Take, Abandon, Done, inside, daemon, bounds, fires
    <2> QED BY <2>1 DEF Numbers, Longest
<1>7. ASSUME NEW u \in Users, Finish(u)
      PROVE  Numbers' /\ mishaps <= mishaps'
    <2>1. UNCHANGED <<early, mishaps, since, dpc>>
        BY <1>7 DEF Finish, Done, inside, daemon, bounds
    <2>2. \/ gap' = gap
          \/ gap' = [j \in Jobs |-> IF j \in about[u] THEN Longest(j) ELSE gap[j]]
        BY <1>7 DEF Finish
    <2>3. /\ gap' \in [Jobs -> Nat]
          /\ \A k \in Jobs : gap'[k] = gap[k] \/ gap'[k] = Longest(k)
        BY <2>2, Bounds DEF Numbers
    <2>4. \A k \in Jobs : gap'[k] <= Longest(k) BY <2>3, Bounds DEF Numbers
    <2> QED BY <2>1, <2>3, <2>4 DEF Numbers, Longest
<1>8. CASE Tick
    <2>1. /\ UNCHANGED <<early, mishaps, dpc>>
          /\ gap' = [j \in Jobs |-> Up(j)]
          /\ since' = [d \in Daemons |-> IF d \in Firing THEN since[d] + 1 ELSE since[d]]
          /\ \A d \in Firing : since[d] < MaxSpan
        BY <1>8 DEF Tick, bounds
    <2>2. \A j \in Jobs : Up(j) \in Nat /\ Up(j) <= Longest(j) BY Bounds DEF Up, Numbers
    <2>3. \A d \in Daemons : since'[d] <= MaxSpan BY <1>0, <2>1, Bounds DEF Numbers
    <2>4. \A d \in Daemons : dpc'[d] # "firing" => since'[d] = 0
        BY <2>1 DEF Numbers, Firing
    <2> QED BY <2>1, <2>2, <2>3, <2>4 DEF Numbers, Longest
<1>9. CASE UNCHANGED vars
    <2>1. UNCHANGED <<gap, early, mishaps, since, dpc>> BY <1>9 DEF vars, daemon, bounds, fires
    <2> QED BY <2>1 DEF Numbers, Longest
<1> QED BY <1>1, <1>2, <1>3, <1>4, <1>5, <1>6, <1>7, <1>8, <1>9
        DEF Next, Step, Add, RemoveIndex

\* What has been paid for stays paid for, and each mishap or write over somebody
\* else's pays for every schedule.
LEMMA StillPaid ==
    ASSUME TInv, Numbers', Shaped', early' = early, mishaps <= mishaps', clobbers <= clobbers'
    PROVE  /\ SpacedFires'
           /\ \A j \in Jobs : Paid(j) => Paid(j)'
           /\ mishaps < mishaps' \/ clobbers < clobbers' => \A j \in Jobs : Paid(j)'
<1>1. /\ mishaps \in Nat /\ mishaps' \in Nat /\ clobbers \in Nat /\ clobbers' \in Nat
      /\ \A j \in Jobs : early[j] \in Nat
    BY DEF TInv, Numbers, Shaped
<1>2. \A j \in Jobs : early[j] <= mishaps + clobbers BY DEF TInv, SpacedFires
<1> QED BY <1>1, <1>2 DEF SpacedFires, Paid

\* Writes over somebody else's are only ever added to.
LEMMA ClobbersGrow ==
    ASSUME Shaped, [Next]_vars
    PROVE  clobbers <= clobbers'
<1>1. ASSUME NEW p, NEW l, Write(p, l) PROVE clobbers <= clobbers'
    BY <1>1 DEF Write, Shaped
<1>2. CASE UNCHANGED clobbers BY <1>2 DEF Shaped
<1>3. ASSUME NEW d \in Daemons, Step(d) \/ Interrupt(d) \/ Crash(d) PROVE clobbers <= clobbers'
    <2>1. CASE Save(d) BY <1>1, <1>2, <2>1 DEF Save, Forget
    <2>2. CASE ~Save(d)
        BY <1>2, <1>3, <2>2 DEF Step, Start, Enter, Poll, Fire, Fail, Skip, Leave, Unname,
                                Interrupt, Crash, file, Forget
    <2> QED BY <2>1, <2>2
<1>4. ASSUME NEW u \in Users, Finish(u) \/ Abandon(u) PROVE clobbers <= clobbers'
    BY <1>1, <1>2, <1>4 DEF Finish, Abandon, Forget
<1>5. ASSUME NEW u \in Users, NEW j, NEW verb, NEW l, Take(u, verb, j, l)
      PROVE  clobbers <= clobbers'
    BY <1>2, <1>5 DEF Take
<1>6. CASE Tick BY <1>2, <1>6 DEF Tick
<1>7. CASE UNCHANGED vars BY <1>2, <1>7 DEF vars, file
<1> QED BY <1>3, <1>4, <1>5, <1>6, <1>7 DEF Next, Add, RemoveIndex

\* Nothing but an early run counts as one, and none while two daemons run.
LEMMA EarlyByFire ==
    ASSUME [Next]_vars, ~(\E d \in Daemons : Fire(d))
    PROVE  early' = early
<1>1. ASSUME NEW d \in Daemons, Step(d) \/ Interrupt(d) \/ Crash(d) PROVE early' = early
    BY <1>1 DEF Step, Start, Enter, Poll, Fail, Skip, Save, Leave, Unname, Interrupt, Crash,
                outside, fires
<1>2. ASSUME NEW u \in Users, NEW j, NEW verb, NEW l, Take(u, verb, j, l) PROVE early' = early
    BY <1>2 DEF Take, fires
<1>3. ASSUME NEW u \in Users, Finish(u) \/ Abandon(u) PROVE early' = early
    BY <1>3 DEF Finish, Abandon, fires
<1>4. CASE Tick \/ UNCHANGED vars BY <1>4 DEF Tick, vars, fires
<1> QED BY <1>1, <1>2, <1>3, <1>4 DEF Next, Add, RemoveIndex

-----------------------------------------------------------------------------
(* The steps while one daemon runs.                                        *)

\* A step that leaves the lists and the counts alone.
LEMMA QuietSpaced ==
    ASSUME TInv, AtOnce, SpacedFires', \A j \in Jobs : Paid(j) => Paid(j)',
           UNCHANGED <<list, seen, stale, upc, about, gap, since>>,
           Firing' = Firing, \A d \in Firing : mem'[d] = mem[d],
           \A d, e \in Running' : d = e
    PROVE  AtOnce'
<1>1. \A u \in Users : Copied(u) => Copied(u)' BY DEF Copied
<1>2. \A j \in Jobs : Kind(j) => Kind(j)' BY DEF Kind, Spaced, Longest
<1> QED BY <1>1, <1>2 DEF AtOnce

\* A pass that starts has the list, and whoever polls is alone.
LEMMA PollSpaced ==
    ASSUME TInv, AtOnce, NEW d \in Daemons, Poll(d), SpacedFires',
           \A j \in Jobs : Paid(j) => Paid(j)'
    PROVE  AtOnce'
<1>1. /\ UNCHANGED <<list, since, gap, seen, upc, about>>
      /\ dpc[d] \in {"ready", "idle"}
    BY DEF Poll, outside, command, fires
<1>2. Firing = {} /\ Running = {d}
    <2>1. d \in Running BY <1>1 DEF Running
    <2>2. Firing \subseteq Running BY DEF Firing, Running
    <2>3. d \notin Firing BY <1>1 DEF Firing
    <2> QED BY <2>1, <2>2, <2>3 DEF AtOnce
<1>3. Running' \subseteq Running
    BY <1>1 DEF Poll, Goto, Running, TInv, Shaped
<1>4. \A x, y \in Running' : x = y BY <1>2, <1>3
<1>5. CASE list = <<>>
    <2>1. Firing' = Firing BY <1>2, <1>5 DEF Poll, Goto, Firing, TInv, Shaped
    <2>2. UNCHANGED <<stale, mem>> BY <1>5 DEF Poll
    <2> QED BY <1>1, <1>4, <2>1, <2>2, QuietSpaced
<1>6. CASE list # <<>>
    <2>1. /\ Firing' = {d} /\ mem'[d] = list /\ stale' = stale \ {d} /\ since'[d] = 0
        <3>1. /\ dpc' = [dpc EXCEPT ![d] = "firing"] /\ mem' = [mem EXCEPT ![d] = list]
              /\ stale' = stale \ {d}
            BY <1>6 DEF Poll, Goto
        <3>2. since[d] = 0 BY <1>1 DEF TInv, Numbers
        <3> QED BY <1>1, <1>2, <3>1, <3>2 DEF Firing, TInv, Shaped, AllSound
    <2>2. \A u \in Users : u \notin stale' => u \notin stale BY <2>1, ScheduleAssumption
    <2>3. \A u \in Users : Copied(u) => Copied(u)' BY <1>1 DEF Copied
    <2>4. \A j \in Jobs : Kind(j) => Kind(j)'
        BY <1>1, <1>2, <2>1 DEF Kind, Spaced, Longest
    <2>5. \A j \in Jobs : since'[d] <= gap'[j]
        BY <1>1, <2>1 DEF TInv, Numbers
    <2> QED BY <1>1, <1>4, <2>1, <2>2, <2>3, <2>4, <2>5 DEF AtOnce
<1> QED BY <1>5, <1>6

\* An entry that has been advanced comes an interval after the clock was read.
LEMMA AdvancedSpaced ==
    ASSUME NEW e \in Records, NEW g \in Nat, NEW n \in Nat, n <= g
    PROVE  /\ Advanced(e) \in Records /\ Advanced(e).job = e.job
           /\ g + Advanced(e).in - n >= Every[e.job]
<1>1. e.job \in Jobs BY DEF Records
<1>2. PICK v \in Nat : v = Every[e.job] BY <1>1, Bounds
<1>3. Advanced(e) = [e EXCEPT !.in = v] BY <1>2 DEF Advanced
<1>4. [e EXCEPT !.in = v] \in Records /\ [e EXCEPT !.in = v].in = v /\ [e EXCEPT !.in = v].job = e.job
    BY DEF Records
<1> QED BY <1>2, <1>3, <1>4

LEMMA FailSpaced ==
    ASSUME TInv, AtOnce, NEW d \in Daemons, Fail(d), SpacedFires',
           \A j \in Jobs : Paid(j) => Paid(j)'
    PROVE  AtOnce'
<1> DEFINE i == pos[d]
           e == mem[d][i]
<1>1. UNCHANGED <<list, seen, stale, upc, about, gap, since, dpc>>
    BY DEF Fail, file, command, fires
<1>2. Firing' = Firing /\ Running' = Running BY <1>1 DEF Firing, Running
<1>3. /\ IsSeq(mem[d]) /\ i \in DOMAIN mem[d] /\ d \in Firing /\ e \in Records /\ e.job \in Jobs
    BY DueEntry DEF Fail, TInv
<1>4. Firing = {d}
    <2>1. Firing \subseteq Running BY DEF Firing, Running
    <2> QED BY <1>3, <2>1 DEF AtOnce
<1>5. /\ mem'[d] = [mem[d] EXCEPT ![i] = Advanced(e)]
    BY DEF Fail, TInv, AllSound
<1>6. /\ Advanced(e).job = e.job
      /\ gap[e.job] + Advanced(e).in - since[d] >= Every[e.job]
    <2>1. gap[e.job] \in Nat /\ since[d] \in Nat /\ since[d] <= gap[e.job]
        BY <1>3 DEF TInv, Numbers, AllSound, AtOnce
    <2> HIDE DEF e
    <2> QED BY <1>3, <2>1, AdvancedSpaced
<1> HIDE DEF e, i
<1>7. \A j \in Jobs : Kind(j) => Kind(j)'
    <2> SUFFICES ASSUME NEW j \in Jobs, Kind(j), NEW k \in DOMAIN mem'[d], mem'[d][k].job = j
                 PROVE  \/ gap'[j] + mem'[d][k].in - since'[d] >= Every[j]
                        \/ gap'[j] = Longest(j)
        BY <1>1, <1>2, <1>4 DEF Kind, Spaced, Longest
    <2>1. CASE k = i
        <3>1. mem'[d][k] = Advanced(e) BY <1>3, <1>5, <2>1
        <3> QED BY <1>1, <1>6, <3>1
    <2>2. CASE k # i
        <3>1. k \in DOMAIN mem[d] /\ mem'[d][k] = mem[d][k] BY <1>3, <1>5, <2>2
        <3> QED BY <1>1, <1>4, <3>1 DEF Kind, Spaced
    <2> QED BY <2>1, <2>2
<1>8. \A u \in Users : Copied(u) => Copied(u)' BY <1>1 DEF Copied
<1> QED BY <1>1, <1>2, <1>7, <1>8 DEF AtOnce

\* Of one daemon's pass only an entry that is not spaced runs early, and it is
\* spaced from then on; no other entry of the pass is for the same schedule.
LEMMA FireSpaced ==
    ASSUME TInv, AtOnce, ~overlapped, NEW d \in Daemons, Fire(d), Numbers'
    PROVE  AtOnce' /\ SpacedFires'
<1> DEFINE i == pos[d]
           e == mem[d][i]
<1>1. UNCHANGED <<list, seen, stale, upc, about, since, dpc, mishaps, clobbers>>
    BY DEF Fire, file, command, bounds
<1>2. Firing' = Firing /\ Running' = Running BY <1>1 DEF Firing, Running
<1>3. /\ IsSeq(mem[d]) /\ i \in DOMAIN mem[d] /\ d \in Firing /\ e \in Records /\ e.job \in Jobs
      /\ e.in \in Int /\ e.in <= 0
    BY DueEntry DEF Fire, Due, TInv
<1>4. Firing = {d}
    <2>1. Firing \subseteq Running BY DEF Firing, Running
    <2> QED BY <1>3, <2>1 DEF AtOnce
<1>0. PICK j0 \in Jobs : j0 = e.job BY <1>3
<1>5. /\ mem'[d] = [mem[d] EXCEPT ![i] = Advanced(e)]
      /\ gap' = [gap EXCEPT ![j0] = since[d]]
      /\ early' = [early EXCEPT ![j0] = IF gap[j0] - since[d] < Every[j0] /\ ~overlapped
                                        THEN early[j0] + 1 ELSE early[j0]]
    BY <1>0 DEF Fire, TInv, AllSound
<1>6. PICK g \in Nat, n \in Nat, v \in Nat, c \in Nat :
        /\ g = gap[j0] /\ n = since[d] /\ v = Every[j0] /\ c = early[j0] /\ n <= MaxSpan
        /\ n <= g /\ Longest(j0) = v + MaxSpan
    <2>1. /\ gap[j0] \in Nat /\ since[d] \in Nat /\ Every[j0] \in Nat /\ early[j0] \in Nat
          /\ Longest(j0) = Every[j0] + MaxSpan
        BY Bounds DEF TInv, Numbers, AllSound
    <2>2. since[d] <= gap[j0] /\ since[d] <= MaxSpan BY <1>3 DEF TInv, Numbers, AtOnce
    <2> QED BY <2>1, <2>2
<1>7. Advanced(e).job = j0 /\ n + Advanced(e).in - n >= v
    <2> HIDE DEF e
    <2> QED BY <1>0, <1>3, <1>6, AdvancedSpaced
<1>8. NoTwins(mem[d]) BY DEF TInv, AllSound
<1>9. \A k \in DOMAIN mem[d] : k # i => mem[d][k].job # j0 BY <1>0, <1>3, <1>8 DEF NoTwins
<1> HIDE DEF e, i
<1>10. /\ gap'[j0] = n /\ \A j \in Jobs : j # j0 => gap'[j] = gap[j] /\ early'[j] = early[j]
       /\ early'[j0] = IF g - n < v THEN c + 1 ELSE c
    BY <1>3, <1>5, <1>6 DEF TInv, Numbers
<1>11. DOMAIN mem'[d] = DOMAIN mem[d] /\ mem'[d][i] = Advanced(e)
       /\ \A k \in DOMAIN mem[d] : k # i => mem'[d][k] = mem[d][k]
    BY <1>3, <1>5
<1>12. Kind(j0)'
    <2> SUFFICES ASSUME NEW k \in DOMAIN mem'[d], mem'[d][k].job = j0
                 PROVE  gap'[j0] + mem'[d][k].in - since'[d] >= Every[j0]
        BY <1>1, <1>2, <1>4 DEF Kind, Spaced
    <2>1. k = i BY <1>9, <1>11
    <2> QED BY <1>1, <1>6, <1>7, <1>10, <1>11, <2>1
<1>13. ASSUME NEW j \in Jobs, j # j0 PROVE (Paid(j) => Paid(j)') /\ (Kind(j) => Kind(j)')
    <2>1. Paid(j) => Paid(j)' BY <1>1, <1>10, <1>13 DEF Paid
    <2>2. ASSUME Kind(j), NEW k \in DOMAIN mem'[d], mem'[d][k].job = j
          PROVE  gap'[j] + mem'[d][k].in - since'[d] >= Every[j] \/ gap'[j] = Longest(j)
        <3>1. k # i BY <1>7, <1>11, <1>13, <2>2
        <3>2. k \in DOMAIN mem[d] /\ mem'[d][k] = mem[d][k] BY <1>11, <2>2, <3>1
        <3> QED BY <1>1, <1>4, <1>10, <1>13, <2>2, <3>2 DEF Kind, Spaced
    <2> QED BY <1>1, <1>2, <1>4, <2>1, <2>2 DEF Kind, Spaced, Longest
<1>14. ASSUME g - n < v PROVE c + 1 <= mishaps + clobbers
    <2>1. ~Spaced(e, n)
        <3>1. g # Longest(j0) BY <1>6, <1>14, Bounds
        <3>2. ~(g + e.in - n >= v) BY <1>3, <1>6, <1>14
        <3> QED BY <1>0, <1>6, <3>1, <3>2 DEF Spaced
    <2>2. ~Kind(j0) BY <1>0, <1>3, <1>6, <2>1 DEF Kind, e, i
    <2>3. Paid(j0) BY <2>2 DEF AtOnce
    <2> QED BY <1>6, <2>3 DEF Paid
<1>15. SpacedFires'
    <2>1. mishaps \in Nat /\ clobbers \in Nat BY DEF TInv, Numbers, Shaped
    <2>2. ASSUME NEW j \in Jobs PROVE early'[j] <= mishaps' + clobbers'
        <3>1. early[j] <= mishaps + clobbers BY DEF TInv, SpacedFires
        <3>2. CASE j = j0 BY <1>1, <1>6, <1>10, <1>14, <2>1, <3>1, <3>2
        <3>3. CASE j # j0 BY <1>1, <1>10, <3>1, <3>3
        <3> QED BY <3>2, <3>3
    <2> QED BY <2>2 DEF SpacedFires
<1>16. \A u \in Users : Copied(u) => Copied(u)' BY <1>1 DEF Copied
<1>17. \A j \in Jobs : since'[d] <= gap'[j]
    BY <1>1, <1>4, <1>6, <1>10 DEF AtOnce
<1> QED BY <1>1, <1>2, <1>4, <1>12, <1>13, <1>15, <1>16, <1>17 DEF AtOnce

\* A pass whose list is not written is paid for by what kept it from that.
LEMMA ForgetSpaced ==
    ASSUME TInv, AtOnce, NEW d \in Daemons, Forget(d), Rest(d), \A j \in Jobs : Paid(j)',
           UNCHANGED <<gap, upc, about, seen>>,
           \A x \in Daemons : x # d => dpc'[x] = dpc[x], dpc'[d] \in {"down", "idle"},
           dpc'[d] = "idle" => dpc[d] = "firing"
    PROVE  AtOnce'
<1>1. UNCHANGED list /\ stale' = stale \ {d} BY DEF Forget
<1>2. Running' \subseteq Running /\ Firing' \subseteq Firing \ {d} BY DEF Running, Firing
<1>3. \A u \in Users : u \notin stale' => u \notin stale BY <1>1, ScheduleAssumption
<1>4. \A u \in Users : Copied(u) => Copied(u)' BY <1>1 DEF Copied
<1>5. \A x \in Firing' : x \in Firing /\ x \in Daemons /\ since'[x] = since[x]
    BY <1>2 DEF Rest, TInv, AllSound, Firing
<1> QED BY <1>2, <1>3, <1>4, <1>5 DEF AtOnce

\* What a pass writes is spaced when what it worked on was.
LEMMA SaveSpaced ==
    ASSUME TInv, AtOnce, NEW d \in Daemons, Save(d), SpacedFires',
           \A j \in Jobs : Paid(j) => Paid(j)', mishaps < mishaps' => \A j \in Jobs : Paid(j)'
    PROVE  AtOnce'
<1>1. /\ UNCHANGED <<gap, upc, about, seen>> /\ dpc[d] = "firing" /\ Rest(d)
      /\ dpc'[d] = "idle" /\ \A x \in Daemons : x # d => dpc'[x] = dpc[x]
    BY DEF Save, Goto, command, fires, TInv, Shaped
<1>2. CASE Forget(d) /\ mishaps' = mishaps + 1
    <2>1. \A j \in Jobs : Paid(j)' BY <1>2 DEF TInv, Numbers
    <2> QED BY <1>1, <1>2, <2>1, ForgetSpaced
<1>3. CASE Write(d, Aged(mem[d], since[d]))
    <2>1. d \in Firing /\ Firing \subseteq Running BY <1>1 DEF Firing, Running
    <2>2. Firing = {d} BY <2>1 DEF AtOnce
    <2>3. Running' = Running BY <1>1 DEF Running
    <2>4. Firing' = {} BY <1>1, <2>2 DEF Firing
    <2>5. \A u \in Users : upc'[u] # "idle" => u \in stale'
        BY <1>1, <1>3, ScheduleAssumption DEF Write, Busy
    <2>6. IsSeq(mem[d]) /\ since[d] \in Nat /\ list' = Aged(mem[d], since[d])
        BY <1>3 DEF TInv, AllSound, IsSeq, Write
    <2>7. ASSUME NEW j \in Jobs, Kind(j) PROVE Kind(j)'
        <3> SUFFICES ASSUME NEW i \in DOMAIN list', list'[i].job = j
                     PROVE  gap'[j] + list'[i].in - 0 >= Every[j] \/ gap'[j] = Longest(j)
            BY <2>4 DEF Kind, Spaced, Longest
        <3> DEFINE m == mem[d]
        <3>1. /\ i \in DOMAIN m /\ m[i].job = j /\ list'[i] \in Records
              /\ list'[i].in >= m[i].in - since[d]
            BY <2>6, AgedEntries
        <3>2. m[i].in \in Int /\ list'[i].in \in Int BY <2>6, <3>1, Entries DEF Records
        <3>3. Spaced(m[i], since[d]) BY <2>2, <2>7, <3>1 DEF Kind
        <3>4. gap[j] \in Nat /\ Every[j] \in Nat BY Bounds DEF TInv, Numbers
        <3> HIDE DEF m
        <3> QED BY <1>1, <2>6, <3>1, <3>2, <3>3, <3>4 DEF Spaced
    <2> QED BY <2>3, <2>4, <2>5, <2>7 DEF AtOnce
<1> QED BY <1>2, <1>3 DEF Save

LEMMA CrashSpaced ==
    ASSUME TInv, AtOnce, NEW d \in Daemons, Crash(d),
           mishaps < mishaps' => \A j \in Jobs : Paid(j)'
    PROVE  AtOnce'
<1>1. /\ UNCHANGED <<gap, upc, about, seen>> /\ Rest(d) /\ Forget(d)
      /\ dpc'[d] = "down" /\ \A x \in Daemons : x # d => dpc'[x] = dpc[x]
    BY DEF Crash, Goto, command, fires, TInv, Shaped
<1>2. \A j \in Jobs : Paid(j)' BY DEF Crash, TInv, Numbers
<1> QED BY <1>1, <1>2, ForgetSpaced

-----------------------------------------------------------------------------
(* The commands and the clock while one daemon runs.                       *)

\* A copy is taken from the list as it is.
LEMMA TakeSpaced ==
    ASSUME TInv, AtOnce, NEW u \in Users, NEW verb, NEW j, NEW l, Take(u, verb, j, l),
           \A i \in DOMAIN l :
               \/ verb = "adding" /\ l[i].job = j
               \/ \E k \in DOMAIN list : l[i] = list[k],
           SpacedFires', \A k \in Jobs : Paid(k) => Paid(k)'
    PROVE  AtOnce'
<1>1. /\ UNCHANGED <<list, mem, dpc, since, gap>>
      /\ upc' = [upc EXCEPT ![u] = verb] /\ about' = [about EXCEPT ![u] = {j}]
      /\ seen' = [seen EXCEPT ![u] = l] /\ stale' = stale \ {u}
    BY DEF Take, inside, daemon, fires
<1>2. upc'[u] = verb /\ about'[u] = {j} /\ seen'[u] = l
    BY <1>1 DEF TInv, AllSound, Shaped
<1>3. \A v \in Users : v # u =>
        upc'[v] = upc[v] /\ about'[v] = about[v] /\ seen'[v] = seen[v]
    BY <1>1 DEF TInv, AllSound, Shaped
<1>4. Copied(u)' BY <1>1, <1>2 DEF Copied
<1>5. ASSUME NEW v \in Users, v # u, upc'[v] # "idle", v \notin stale' PROVE Copied(v)'
    <2>1. Copied(v) BY <1>1, <1>3, <1>5 DEF AtOnce
    <2> QED BY <1>1, <1>3, <1>5, <2>1 DEF Copied
<1>6. Firing' = Firing /\ Running' = Running BY <1>1 DEF Firing, Running
<1>7. \A k \in Jobs : Kind(k) => Kind(k)' BY <1>1, <1>6 DEF Kind, Spaced, Longest
<1> QED BY <1>1, <1>4, <1>5, <1>6, <1>7 DEF AtOnce

LEMMA AddSpaced ==
    ASSUME TInv, AtOnce, NEW u \in Users, NEW j \in Jobs, Add(u, j),
           SpacedFires', \A k \in Jobs : Paid(k) => Paid(k)'
    PROVE  AtOnce'
<1> DEFINE e == [job |-> j, in |-> 0]
           l == Append(list, e)
<1>1. list \in Seq(Records) /\ e \in Records /\ e.job = j
    BY DEF TInv, AllSound, Sound, IsSeq, Records
<1>2. Take(u, "adding", j, l) BY DEF Add
<1> HIDE DEF e
<1>3. /\ DOMAIN l = 1 .. Len(list) + 1 /\ DOMAIN list = 1 .. Len(list) /\ Len(list) \in Nat
      /\ \A i \in 1 .. Len(list) : l[i] = list[i]
      /\ l[Len(list) + 1] = e
    BY <1>1, AppendProperties, LenProperties
<1> HIDE DEF l
<1>4. \A i \in DOMAIN l : l[i].job = j \/ \E k \in DOMAIN list : l[i] = list[k]
    BY <1>1, <1>3
<1> QED BY <1>2, <1>4, TakeSpaced

LEMMA RemoveSpaced ==
    ASSUME TInv, AtOnce, NEW u \in Users, NEW n \in 1 .. MaxSchedules, RemoveIndex(u, n),
           SpacedFires', \A k \in Jobs : Paid(k) => Paid(k)'
    PROVE  AtOnce'
<1> DEFINE l == RemoveAt(list, n)
<1>1. IsSeq(list) /\ n \in DOMAIN list BY DEF TInv, AllSound, Sound, RemoveIndex
<1>2. DOMAIN list = 1 .. Len(list) /\ Len(list) \in Nat BY <1>1, LenProperties DEF IsSeq
<1>3. /\ DOMAIN l = 1 .. Len(list) - 1
      /\ \A k \in 1 .. Len(list) - 1 : l[k] = IF k < n THEN list[k] ELSE list[k + 1]
    BY <1>1, RemoveEntries
<1>4. Take(u, "removing", list[n].job, l) BY DEF RemoveIndex
<1> HIDE DEF l
<1>5. ASSUME NEW i \in DOMAIN l PROVE \E k \in DOMAIN list : l[i] = list[k]
    <2>1. CASE i < n BY <1>2, <1>3, <1>5, <2>1
    <2>2. CASE ~(i < n)
        <3>1. i + 1 \in DOMAIN list /\ l[i] = list[i + 1] BY <1>2, <1>3, <1>5, <2>2
        <3> QED BY <3>1
    <2> QED BY <2>1, <2>2
<1> QED BY <1>4, <1>5, TakeSpaced

\* What a command writes over is the list it read, or that is counted; what it
\* adds has not fired for as long as matters.
LEMMA FinishSpaced ==
    ASSUME TInv, AtOnce, ~overlapped, NEW u \in Users, Finish(u), Numbers', SpacedFires',
           \A j \in Jobs : Paid(j) => Paid(j)', clobbers < clobbers' => \A j \in Jobs : Paid(j)'
    PROVE  AtOnce'
<1>1. /\ list' = seen[u] /\ UNCHANGED <<mem, dpc, since>>
      /\ upc[u] # "idle" /\ upc' = [upc EXCEPT ![u] = "idle"]
      /\ stale' = {q \in Daemons \cup Users : q # u /\ Busy(q)}
    BY DEF Finish, Done, Write, inside, daemon
<1>2. \A v \in Users : upc'[v] # "idle" => v \in stale'
    BY <1>1, ScheduleAssumption DEF Busy, TInv, Shaped
<1>3. Firing' = Firing /\ Running' = Running BY <1>1 DEF Firing, Running
<1>4. ASSUME NEW j \in Jobs
      PROVE  \/ gap'[j] = gap[j] /\ ~(upc[u] = "adding" /\ j \in about[u])
             \/ gap'[j] = Longest(j)
    <2>1. CASE upc[u] = "adding"
        <3>1. gap' = [k \in Jobs |-> IF k \in about[u] THEN Longest(k) ELSE gap[k]]
            BY <2>1 DEF Finish
        <3> QED BY <3>1
    <2>2. CASE upc[u] # "adding" BY <2>2 DEF Finish
    <2> QED BY <2>1, <2>2
<1>5. CASE u \in stale
    <2>1. \A j \in Jobs : Paid(j)' BY <1>5 DEF Finish, Write, TInv, Shaped
    <2>2. \A d \in Firing : \A j \in Jobs : since'[d] <= gap'[j]
        <3> SUFFICES ASSUME NEW d \in Firing, NEW j \in Jobs PROVE since[d] <= gap'[j]
            BY <1>1
        <3>1. d \in Daemons /\ since[d] \in Nat /\ since[d] <= MaxSpan /\ since[d] <= gap[j]
            BY DEF TInv, Numbers, AllSound, Firing, AtOnce
        <3> QED BY <1>4, <3>1, Bounds
    <2> QED BY <1>2, <1>3, <2>1, <2>2 DEF AtOnce
<1>6. CASE u \notin stale
    <2>1. Copied(u) BY <1>1, <1>6 DEF AtOnce
    <2>2. \A d \in Firing : \A j \in Jobs : since'[d] <= gap'[j]
        <3> SUFFICES ASSUME NEW d \in Firing, NEW j \in Jobs PROVE since[d] <= gap'[j]
            BY <1>1
        <3>1. d \in Daemons /\ since[d] \in Nat /\ since[d] <= MaxSpan /\ since[d] <= gap[j]
            BY DEF TInv, Numbers, AllSound, Firing, AtOnce
        <3> QED BY <1>4, <3>1, Bounds
    <2>3. ASSUME NEW j \in Jobs, Kind(j) PROVE Kind(j)'
        <3>1. CASE gap'[j] = Longest(j) BY <3>1 DEF Kind, Spaced, Longest
        <3>2. CASE gap'[j] = gap[j] /\ ~(upc[u] = "adding" /\ j \in about[u])
            <4>1. ASSUME Firing = {}, NEW i \in DOMAIN seen[u], seen[u][i].job = j
                  PROVE  gap[j] + seen[u][i].in - 0 >= Every[j] \/ gap[j] = Longest(j)
                <5>1. PICK k \in DOMAIN list : seen[u][i] = list[k]
                    BY <2>1, <3>2, <4>1 DEF Copied
                <5> QED BY <2>3, <4>1, <5>1 DEF Kind, Spaced
            <4> QED BY <1>1, <1>3, <2>3, <3>2, <4>1 DEF Kind, Spaced, Longest
        <3> QED BY <1>4, <3>1, <3>2
    <2> QED BY <1>2, <1>3, <2>2, <2>3 DEF AtOnce
<1> QED BY <1>5, <1>6

LEMMA AbandonSpaced ==
    ASSUME TInv, AtOnce, NEW u \in Users, Abandon(u), SpacedFires',
           \A j \in Jobs : Paid(j) => Paid(j)'
    PROVE  AtOnce'
<1>1. /\ UNCHANGED <<list, mem, dpc, since, gap>>
      /\ upc' = [upc EXCEPT ![u] = "idle"] /\ about' = [about EXCEPT ![u] = {}]
      /\ seen' = [seen EXCEPT ![u] = <<>>] /\ stale' = stale \ {u}
    BY DEF Abandon, Done, Forget, inside, daemon, fires
<1>2. ASSUME NEW v \in Users, upc'[v] # "idle", v \notin stale' PROVE Copied(v)'
    <2>1. v # u BY <1>1, <1>2 DEF TInv, Shaped
    <2>2. upc'[v] = upc[v] /\ about'[v] = about[v] /\ seen'[v] = seen[v]
        BY <1>1, <2>1 DEF TInv, AllSound, Shaped
    <2>3. Copied(v) BY <1>1, <1>2, <2>1, <2>2 DEF AtOnce
    <2> QED BY <1>1, <2>2, <2>3 DEF Copied
<1>3. Firing' = Firing /\ Running' = Running BY <1>1 DEF Firing, Running
<1>4. \A j \in Jobs : Kind(j) => Kind(j)' BY <1>1, <1>3 DEF Kind, Spaced, Longest
<1> QED BY <1>1, <1>2, <1>3, <1>4 DEF AtOnce

\* Time passes for a list and for what is counted of its jobs alike.
LEMMA TickSpaced ==
    ASSUME TInv, AtOnce, Tick, SpacedFires', \A j \in Jobs : Paid(j) => Paid(j)'
    PROVE  AtOnce'
<1>1. /\ list' = Aged(list, 1) /\ seen' = [u \in Users |-> Aged(seen[u], 1)]
      /\ since' = [d \in Daemons |-> IF d \in Firing THEN since[d] + 1 ELSE since[d]]
      /\ gap' = [j \in Jobs |-> Up(j)]
      /\ UNCHANGED <<mem, dpc, upc, about, stale>>
      /\ \A d \in Firing : since[d] < MaxSpan
    BY DEF Tick
<1>2. Firing' = Firing /\ Running' = Running /\ Firing \subseteq Daemons
    BY <1>1 DEF Firing, Running
<1>3. \A d \in Firing : since[d] \in Nat /\ since'[d] = since[d] + 1
    BY <1>1, <1>2 DEF TInv, AllSound
<1>4. \A j \in Jobs : /\ gap[j] \in Nat /\ gap[j] <= Longest(j) /\ gap'[j] \in Nat
                      /\ \/ gap[j] # Longest(j) /\ gap'[j] = gap[j] + 1
                         \/ gap[j] = Longest(j) /\ gap'[j] = Longest(j)
    BY <1>1, Bounds DEF Up, TInv, Numbers
<1>5. IsSeq(list) /\ (\A d \in Daemons : IsSeq(mem[d])) /\ (\A u \in Users : IsSeq(seen[u]))
    BY DEF TInv, AllSound, Sound, IsSeq
<1>6. ASSUME NEW d \in Firing, NEW j \in Jobs PROVE since'[d] <= gap'[j]
    <2>1. since[d] <= gap[j] /\ since[d] < MaxSpan BY <1>1 DEF AtOnce
    <2> QED BY <1>3, <1>4, <2>1, Bounds
<1>7. ASSUME NEW u \in Users, Copied(u) PROVE Copied(u)'
    <2> SUFFICES ASSUME NEW i \in DOMAIN seen'[u]
                 PROVE  \/ upc[u] = "adding" /\ seen'[u][i].job \in about[u]
                        \/ \E k \in DOMAIN list' : seen'[u][i] = list'[k]
        BY <1>1 DEF Copied
    <2>1. seen'[u] = Aged(seen[u], 1) BY <1>1
    <2>2. /\ i \in DOMAIN seen[u] /\ seen'[u][i].job = seen[u][i].job
        BY <1>5, <2>1, AgedEntries
    <2>3. CASE upc[u] = "adding" /\ seen[u][i].job \in about[u] BY <2>2, <2>3
    <2>4. ASSUME NEW k \in DOMAIN list, seen[u][i] = list[k]
          PROVE  k \in DOMAIN list' /\ seen'[u][i] = list'[k]
        <3>1. k \in DOMAIN list' BY <1>1, <1>5, AgedEntries
        <3>2. Aged(seen[u], 1)[i] = Aged(list, 1)[k] BY <2>2, <2>4, AgedAlike
        <3> QED BY <1>1, <2>1, <3>1, <3>2
    <2> QED BY <1>7, <2>2, <2>3, <2>4 DEF Copied
<1>8. ASSUME NEW j \in Jobs, Kind(j) PROVE Kind(j)'
    <2>0. Every[j] \in Nat BY Bounds
    <2>1. ASSUME NEW d \in Firing, NEW i \in DOMAIN mem[d], mem[d][i].job = j
          PROVE  gap'[j] + mem[d][i].in - since'[d] >= Every[j] \/ gap'[j] = Longest(j)
        <3>1. Spaced(mem[d][i], since[d]) /\ mem[d][i].in \in Int
            BY <1>2, <1>5, <1>8, <2>1, Entries DEF Kind
        <3>2. PICK x \in Int, n \in Nat : x = mem[d][i].in /\ n = since[d] BY <1>3, <3>1
        <3>3. gap[j] + x - n >= Every[j] \/ gap[j] = Longest(j) BY <2>1, <3>1, <3>2 DEF Spaced
        <3>4. since'[d] = n + 1 BY <1>3, <3>2
        <3>5. gap'[j] + x - (n + 1) >= Every[j] \/ gap'[j] = Longest(j)
            BY <1>4, <2>0, <3>3
        <3> QED BY <3>2, <3>4, <3>5
    <2>2. ASSUME Firing = {}, NEW i \in DOMAIN list', list'[i].job = j
          PROVE  gap'[j] + list'[i].in - 0 >= Every[j] \/ gap'[j] = Longest(j)
        <3>1. /\ i \in DOMAIN list /\ list[i].job = j /\ list'[i].in >= list[i].in - 1
              /\ list'[i] \in Records
            BY <1>1, <1>5, <2>2, AgedEntries
        <3>2. Spaced(list[i], 0) /\ list[i].in \in Int /\ list'[i].in \in Int
            BY <1>5, <1>8, <2>2, <3>1, Entries DEF Kind, Records
        <3>3. PICK x \in Int, y \in Int : x = list[i].in /\ y = list'[i].in BY <3>2
        <3>4. gap[j] + x - 0 >= Every[j] \/ gap[j] = Longest(j) BY <3>1, <3>2, <3>3 DEF Spaced
        <3>5. y >= x - 1 BY <3>1, <3>3
        <3>6. gap'[j] + y - 0 >= Every[j] \/ gap'[j] = Longest(j) BY <1>4, <2>0, <3>4, <3>5
        <3> QED BY <3>3, <3>6
    <2> QED BY <1>1, <1>2, <2>1, <2>2 DEF Kind, Spaced, Longest
<1> QED BY <1>1, <1>2, <1>6, <1>7, <1>8 DEF AtOnce

LEMMA NextSpaced == TInv /\ [Next]_vars => TInv'
<1> SUFFICES ASSUME TInv, [Next]_vars PROVE SpacedFires' /\ (~overlapped' => AtOnce')
    BY NextSound, NextShaped, NextNumbers DEF TInv
<1>1. /\ Shaped' /\ Numbers' /\ mishaps <= mishaps' /\ clobbers <= clobbers'
    BY NextShaped, NextNumbers, ClobbersGrow DEF TInv
<1>2. ASSUME early' = early
      PROVE  /\ SpacedFires' /\ \A j \in Jobs : Paid(j) => Paid(j)'
             /\ mishaps < mishaps' \/ clobbers < clobbers' => \A j \in Jobs : Paid(j)'
    BY <1>1, <1>2, StillPaid
<1>3. CASE \E d \in Daemons : Fire(d)
    <2>1. PICK d \in Daemons : Fire(d) BY <1>3
    <2>2. UNCHANGED overlapped BY <2>1 DEF Fire
    <2>3. CASE overlapped
        <3> DEFINE j == mem[d][pos[d]].job
        <3>1. early' = [early EXCEPT ![j] = early[j]] BY <2>1, <2>3 DEF Fire
        <3> HIDE DEF j
        <3>2. early' = early BY <3>1 DEF TInv, Numbers
        <3> QED BY <1>2, <2>2, <2>3, <3>2
    <2>4. CASE ~overlapped BY <1>1, <2>1, <2>4, FireSpaced DEF TInv
    <2> QED BY <2>3, <2>4
<1>4. CASE ~(\E d \in Daemons : Fire(d))
    <2>1. early' = early BY <1>4, EarlyByFire
    <2> SUFFICES ASSUME ~overlapped' PROVE AtOnce' BY <1>2, <2>1
    <2>2. ~overlapped
        <3>1. ASSUME NEW d \in Daemons, Enter(d), overlapped PROVE overlapped'
            <4>1. overlapped' = (overlapped \/ Running # {}) \/ overlapped' = overlapped
                BY <3>1 DEF Enter
            <4> QED BY <3>1, <4>1, Zenon
        <3>2. ASSUME NEW d \in Daemons, Step(d) \/ Interrupt(d) \/ Crash(d), ~Enter(d)
              PROVE  UNCHANGED overlapped
            BY <3>2 DEF Step, Start, Poll, Fire, Fail, Skip, Save, Leave, Unname, Interrupt, Crash
        <3>3. ASSUME NEW u \in Users, NEW j, NEW verb, NEW l, Take(u, verb, j, l)
              PROVE  UNCHANGED overlapped
            BY <3>3 DEF Take, inside
        <3>4. ASSUME NEW u \in Users, Finish(u) \/ Abandon(u) PROVE UNCHANGED overlapped
            BY <3>4 DEF Finish, Abandon, Done, inside
        <3>5. CASE Tick \/ UNCHANGED vars BY <3>5 DEF Tick, vars
        <3> QED BY <3>1, <3>2, <3>3, <3>4, <3>5 DEF Next, Add, RemoveIndex
    <2>3. AtOnce BY <2>2 DEF TInv
    <2>4. ASSUME NEW d \in Daemons,
                 Start(d) \/ Enter(d) \/ Skip(d) \/ Leave(d) \/ Unname(d) \/ Interrupt(d)
          PROVE  AtOnce'
        <3>1. UNCHANGED <<list, seen, stale, upc, about, gap, since, mem>>
            BY <2>4 DEF Start, Enter, Skip, Leave, Unname, Interrupt, outside, command, file, fires
        <3>2. Firing' = Firing
            BY <2>4 DEF Start, Enter, Skip, Leave, Unname, Interrupt, Goto, Firing, TInv, Shaped
        <3>3. \A x, y \in Running' : x = y
            <4>1. CASE Enter(d) /\ dpc'[d] = "ready"
                <5>1. Running = {}
                    <6>1. overlapped' = (overlapped \/ Running # {})
                        BY <4>1 DEF Enter, Goto, TInv, Shaped
                    <6> QED BY <6>1, Zenon
                <5>2. \A x \in Daemons : x # d => dpc'[x] = dpc[x]
                    BY <4>1 DEF Enter, Goto, TInv, Shaped
                <5> QED BY <5>1, <5>2 DEF Running
            <4>2. CASE ~(Enter(d) /\ dpc'[d] = "ready")
                <5>1. Running' \subseteq Running
                    BY <2>4, <4>2 DEF Start, Enter, Skip, Leave, Unname, Interrupt, Goto, Running,
                                      TInv, Shaped
                <5> QED BY <2>3, <5>1 DEF AtOnce
            <4> QED BY <4>1, <4>2
        <3> QED BY <1>2, <2>1, <2>3, <3>1, <3>2, <3>3, QuietSpaced
    <2>5. ASSUME NEW d \in Daemons, Poll(d) PROVE AtOnce'
        BY <1>2, <2>1, <2>3, <2>5, PollSpaced
    <2>6. ASSUME NEW d \in Daemons, Fail(d) PROVE AtOnce'
        BY <1>2, <2>1, <2>3, <2>6, FailSpaced
    <2>7. ASSUME NEW d \in Daemons, Save(d) PROVE AtOnce'
        BY <1>2, <2>1, <2>3, <2>7, SaveSpaced
    <2>8. ASSUME NEW d \in Daemons, Crash(d) PROVE AtOnce'
        BY <1>2, <2>1, <2>3, <2>8, CrashSpaced
    <2>9. ASSUME NEW u \in Users, NEW j \in Jobs, Add(u, j) PROVE AtOnce'
        BY <1>2, <2>1, <2>3, <2>9, AddSpaced
    <2>10. ASSUME NEW u \in Users, NEW i \in 1 .. MaxSchedules, RemoveIndex(u, i) PROVE AtOnce'
        BY <1>2, <2>1, <2>3, <2>10, RemoveSpaced
    <2>11. ASSUME NEW u \in Users, Finish(u) PROVE AtOnce'
        BY <1>1, <1>2, <2>1, <2>2, <2>3, <2>11, FinishSpaced
    <2>12. ASSUME NEW u \in Users, Abandon(u) PROVE AtOnce'
        BY <1>2, <2>1, <2>3, <2>12, AbandonSpaced
    <2>13. CASE Tick BY <1>2, <2>1, <2>3, <2>13, TickSpaced
    <2>14. CASE UNCHANGED vars
        <3>1. UNCHANGED <<list, seen, stale, upc, about, gap, since, mem, dpc>>
            BY <2>14 DEF vars, file, daemon, command, fires
        <3> QED BY <1>2, <2>1, <2>3, <3>1, QuietSpaced DEF Firing, Running, AtOnce
    <2> QED BY <1>4, <2>4, <2>5, <2>6, <2>7, <2>8, <2>9, <2>10, <2>11, <2>12, <2>13, <2>14
            DEF Next, Step
<1> QED BY <1>3, <1>4

\* Whatever fires, fails, is interrupted or overslept, a schedule does not run
\* twice within its interval and does not catch up; each crash, failed write and
\* write over somebody else's list costs one early run at most, however many
\* commands there are and daemons after each other; after two daemons have
\* polled at once nothing is promised (fireSchedules, pollSchedules).
THEOREM FiresAreSpaced == Spec => []SpacedFires
<1>1. TInv => SpacedFires BY DEF TInv
<1> QED BY <1>1, InitSpaced, NextSpaced, PTL DEF Spec

-----------------------------------------------------------------------------
(* The lock.                                                               *)

\* Nobody comes to the lock file while it is being released: from the unlocking
\* to the removal of the name, no other daemon has it open or opens it.
Undisturbed ==
    \A d, e \in Daemons :
        d # e /\ LockOf[d] = LockOf[e] => /\ Leave(d) => dpc[e] # "open"
                                          /\ Start(e) => dpc[d] # "unlocked"

HasOpen(d) == dpc[d] = "open" \/ d \in Running

\* Whoever has the lock file open has the inode its name stands for, the one that
\* runs has its lock, and the one that is to remove the name is alone.
Guarded ==
    /\ \A d \in Daemons : HasOpen(d) => fd[d] # NoInode /\ fd[d] = path[LockOf[d]]
    /\ \A d \in Running : owner[fd[d]] = d
    /\ \A d \in Daemons : dpc[d] = "unlocked" =>
          \A e \in Daemons : e # d /\ LockOf[e] = LockOf[d] => ~HasOpen(e)

Phases == {"down", "open", "ready", "firing", "idle", "unlocked"}

LockInv == LockTypeOK /\ dpc \in [Daemons -> Phases] /\ Guarded

\* There are inodes enough: fewer than one for each name and process are in use.
LEMMA FreshExists ==
    ASSUME LockTypeOK
    PROVE  Fresh \in Inodes /\ Fresh # NoInode
<1>1. \E i \in Inodes : i \notin Range(path) \cup Range(fd)
  <2>1. path \in Surjection(Files, Range(path)) /\ fd \in Surjection(Daemons, Range(fd))
    BY DEF LockTypeOK, Surjection, Range
  <2>2. /\ IsFiniteSet(Range(path)) /\ Cardinality(Range(path)) <= Cardinality(Files)
        /\ IsFiniteSet(Range(fd)) /\ Cardinality(Range(fd)) <= Cardinality(Daemons)
    BY <2>1, FS_Surjection, LockAssumption
  <2> DEFINE used == Range(path) \cup Range(fd)
  <2> HIDE DEF used
  <2>3. /\ Cardinality(Range(path)) \in Nat /\ Cardinality(Range(fd)) \in Nat
        /\ Cardinality(Files) \in Nat /\ Cardinality(Daemons) \in Nat
        /\ Cardinality(Range(path) \cap Range(fd)) \in Nat
    <3>1. IsFiniteSet(Range(path) \cap Range(fd))
      BY <2>2, FS_Subset
    <3> QED BY <2>2, <3>1, LockAssumption, FS_CardinalityType
  <2>4. /\ IsFiniteSet(used)
        /\ Cardinality(used) <= Cardinality(Files) + Cardinality(Daemons)
    <3>1. /\ IsFiniteSet(used)
          /\ Cardinality(used) = Cardinality(Range(path)) + Cardinality(Range(fd))
                                    - Cardinality(Range(path) \cap Range(fd))
      BY <2>2, FS_Union DEF used
    <3> QED BY <2>2, <2>3, <3>1
  <2>5. Cardinality(Inodes) = Cardinality(Files) + Cardinality(Daemons) + 1
    BY <2>3, FS_Interval DEF Inodes
  <2>6. ASSUME Inodes \subseteq used PROVE FALSE
    <3>1. Cardinality(Inodes) <= Cardinality(used) /\ Cardinality(used) \in Nat
      BY <2>4, <2>6, FS_Subset, FS_CardinalityType
    <3> QED BY <2>3, <2>4, <2>5, <3>1
  <2> QED BY <2>6 DEF used
<1>2. Fresh \in Inodes
  BY <1>1 DEF Fresh
<1>3. Cardinality(Files) + Cardinality(Daemons) \in Nat
  BY LockAssumption, FS_CardinalityType
<1> QED BY <1>2, <1>3 DEF Inodes, NoInode

LEMMA NoInodeIsNone == NoInode \notin Inodes
<1>1. Cardinality(Files) + Cardinality(Daemons) \in Nat
  BY LockAssumption, FS_CardinalityType
<1> QED BY <1>1 DEF Inodes, NoInode

\* Two daemons that run have locked the same file, so they are one.
LEMMA GuardedOne ==
    ASSUME Guarded
    PROVE  OneDaemon
  BY DEF Guarded, OneDaemon, HasOpen, Running

LEMMA StartGuarded ==
    ASSUME LockInv, NEW d \in Daemons, Start(d), Undisturbed
    PROVE  LockInv'
<1> DEFINE f == LockOf[d]
           i == IF path[f] = NoInode THEN Fresh ELSE path[f]
<1>1. /\ f \in Files /\ i \in Inodes /\ i # NoInode
      /\ path' = [path EXCEPT ![f] = i] /\ fd' = [fd EXCEPT ![d] = i] /\ owner' = owner
      /\ dpc[d] = "down" /\ dpc' = [dpc EXCEPT ![d] = "open"]
  BY FreshExists, LockAssumption, NoInodeIsNone DEF Start, OpenLock, Goto, LockInv, LockTypeOK
<1>2. LockTypeOK' /\ dpc' \in [Daemons -> Phases]
  BY <1>1 DEF LockInv, LockTypeOK, Inodes, Phases
<1>3. /\ fd'[d] = i /\ path'[f] = i /\ dpc'[d] = "open"
      /\ \A e \in Daemons \ {d} : fd'[e] = fd[e] /\ dpc'[e] = dpc[e]
      /\ \A g \in Files \ {f} : path'[g] = path[g]
  BY <1>1 DEF LockInv, LockTypeOK
<1>4. \A e \in Daemons : HasOpen(e)' => e = d \/ HasOpen(e)
  BY <1>3 DEF HasOpen, Running
<1>5. ASSUME NEW e \in Daemons, HasOpen(e)'
      PROVE  fd'[e] # NoInode /\ fd'[e] = path'[LockOf[e]]
  <2>1. CASE e = d
    BY <1>1, <1>3, <2>1
  <2>2. CASE e # d
    <3>1. fd[e] # NoInode /\ fd[e] = path[LockOf[e]] /\ LockOf[e] \in Files
      BY <1>4, <1>5, <2>2, LockAssumption DEF LockInv, Guarded
    <3> QED BY <1>3, <2>2, <3>1
  <2> QED BY <2>1, <2>2
<1>6. \A e \in Running' : owner'[fd'[e]] = e
  <2>1. \A e \in Running' : e # d /\ e \in Running
    BY <1>3 DEF Running
  <2> QED BY <1>1, <1>3, <2>1 DEF LockInv, Guarded, Running
<1>7. ASSUME NEW a \in Daemons, dpc'[a] = "unlocked", NEW e \in Daemons, e # a,
             LockOf[e] = LockOf[a], HasOpen(e)'
      PROVE  FALSE
  <2>1. a # d /\ dpc[a] = "unlocked"
    BY <1>3, <1>7
  <2>2. e # d
    BY <1>7, <2>1 DEF Undisturbed
  <2> QED BY <1>4, <1>7, <2>1, <2>2 DEF LockInv, Guarded
<1> QED BY <1>2, <1>5, <1>6, <1>7 DEF LockInv, Guarded

LEMMA EnterGuarded ==
    ASSUME LockInv, NEW d \in Daemons, Enter(d)
    PROVE  LockInv'
<1>1. dpc[d] = "open" /\ fd[d] \in Inodes /\ path' = path
  BY NoInodeIsNone DEF Enter, TakeLock, LockHeld, LockInv, LockTypeOK, Guarded, HasOpen
<1>2. CASE TakeLock(d) /\ Goto(d, "ready")
  <2>1. /\ owner[fd[d]] = NoDaemon /\ owner' = [owner EXCEPT ![fd[d]] = d] /\ fd' = fd
        /\ dpc' = [dpc EXCEPT ![d] = "ready"]
    BY <1>2 DEF TakeLock, Locked, Goto
  <2>2. LockTypeOK' /\ dpc' \in [Daemons -> Phases]
    BY <1>1, <2>1 DEF LockInv, LockTypeOK, Inodes, Phases
  <2>3. dpc'[d] = "ready" /\ \A e \in Daemons \ {d} : dpc'[e] = dpc[e]
    BY <2>1 DEF LockInv
  <2>4. \A e \in Daemons : HasOpen(e)' <=> HasOpen(e)
    BY <1>1, <2>3 DEF HasOpen, Running
  <2>5. ASSUME NEW e \in Running' PROVE owner'[fd'[e]] = e
    <3>1. CASE e = d
      BY <1>1, <2>1, <3>1 DEF LockInv, LockTypeOK
    <3>2. CASE e # d
      <4>1. e \in Daemons /\ owner[fd[e]] = e
        BY <2>3, <2>5, <3>2 DEF Running, LockInv, Guarded
      <4>2. fd[e] # fd[d]
        BY <2>1, <4>1, LockAssumption
      <4> QED BY <2>1, <4>1, <4>2 DEF LockInv, LockTypeOK
    <3> QED BY <3>1, <3>2
  <2> QED BY <1>1, <2>1, <2>2, <2>3, <2>4, <2>5 DEF LockInv, Guarded
<1>3. CASE LockHeld(d) /\ Goto(d, "down")
  <2>1. fd' = [fd EXCEPT ![d] = NoInode] /\ owner' = owner /\ dpc' = [dpc EXCEPT ![d] = "down"]
    BY <1>3 DEF LockHeld, Goto
  <2>2. LockTypeOK' /\ dpc' \in [Daemons -> Phases]
    BY <1>1, <2>1 DEF LockInv, LockTypeOK, Inodes, Phases
  <2>3. dpc'[d] = "down" /\ \A e \in Daemons \ {d} : dpc'[e] = dpc[e] /\ fd'[e] = fd[e]
    BY <2>1 DEF LockInv, LockTypeOK
  <2>4. \A e \in Daemons : HasOpen(e)' => HasOpen(e) /\ e # d
    BY <2>3 DEF HasOpen, Running
  <2>5. \A e \in Running' : e \in Running /\ e # d
    BY <2>3 DEF Running
  <2> QED BY <1>1, <2>1, <2>2, <2>3, <2>4, <2>5 DEF LockInv, Guarded, Running
<1> QED BY <1>2, <1>3 DEF Enter

\* A daemon that stops running, and leaves the name or has it removed later.
LEMMA DropGuarded ==
    ASSUME LockInv, NEW d \in Daemons, DropLock(d), NEW s \in {"down", "unlocked"}, Goto(d, s),
           s = "unlocked" => \A e \in Daemons : e # d /\ LockOf[e] = LockOf[d] => ~HasOpen(e)
    PROVE  LockInv'
<1>1. /\ owner' = [i \in Inodes |-> IF owner[i] = d THEN NoDaemon ELSE owner[i]]
      /\ fd' = [fd EXCEPT ![d] = NoInode] /\ path' = path /\ dpc' = [dpc EXCEPT ![d] = s]
  BY DEF DropLock, Goto
<1>2. LockTypeOK' /\ dpc' \in [Daemons -> Phases]
  BY <1>1 DEF LockInv, LockTypeOK, Inodes, Phases
<1>3. dpc'[d] = s /\ \A e \in Daemons \ {d} : dpc'[e] = dpc[e] /\ fd'[e] = fd[e]
  BY <1>1 DEF LockInv, LockTypeOK
<1>4. \A e \in Daemons : HasOpen(e)' => HasOpen(e) /\ e # d
  BY <1>3 DEF HasOpen, Running
<1>5. ASSUME NEW e \in Running' PROVE owner'[fd'[e]] = e
  <2>1. e \in Daemons /\ e \in Running /\ e # d
    BY <1>3, <1>5 DEF Running
  <2>2. owner[fd[e]] = e /\ fd[e] \in Inodes /\ fd'[e] = fd[e]
    BY <1>3, <2>1 DEF LockInv, LockTypeOK, Guarded, HasOpen
  <2> QED BY <1>1, <2>1, <2>2
<1>6. \A a \in Daemons : dpc'[a] = "unlocked" =>
          \A e \in Daemons : e # a /\ LockOf[e] = LockOf[a] => ~HasOpen(e)'
  BY <1>3, <1>4 DEF LockInv, Guarded
<1> QED BY <1>1, <1>2, <1>3, <1>4, <1>5, <1>6 DEF LockInv, Guarded

LEMMA UnnameGuarded ==
    ASSUME LockInv, NEW d \in Daemons, Unname(d)
    PROVE  LockInv'
<1>1. /\ path' = [path EXCEPT ![LockOf[d]] = NoInode] /\ UNCHANGED <<fd, owner>>
      /\ dpc[d] = "unlocked" /\ dpc' = [dpc EXCEPT ![d] = "down"]
  BY DEF Unname, RemoveLock, Goto
<1>2. LockTypeOK' /\ dpc' \in [Daemons -> Phases]
  BY <1>1 DEF LockInv, LockTypeOK, Inodes, Phases
<1>3. dpc'[d] = "down" /\ \A e \in Daemons \ {d} : dpc'[e] = dpc[e]
  BY <1>1 DEF LockInv
<1>4. \A e \in Daemons : HasOpen(e)' => HasOpen(e) /\ e # d
  BY <1>3 DEF HasOpen, Running
<1>5. \A e \in Daemons : HasOpen(e)' => LockOf[e] # LockOf[d] /\ path'[LockOf[e]] = path[LockOf[e]]
  BY <1>1, <1>4, LockAssumption DEF LockInv, Guarded, LockTypeOK
<1>6. \A e \in Running' : e \in Running
  BY <1>3 DEF Running
<1> QED BY <1>1, <1>2, <1>3, <1>4, <1>5, <1>6 DEF LockInv, Guarded

\* What leaves the lock alone, and moves a daemon only while it runs.
LEMMA PollingGuarded ==
    ASSUME LockInv, UNCHANGED lock,
           dpc' \in [Daemons -> Phases],
           \A e \in Daemons : dpc'[e] = dpc[e] \/ (e \in Running /\ e \in Running')
    PROVE  LockInv'
<1>1. UNCHANGED <<path, fd, owner>>
  BY DEF lock
<1>2. /\ LockTypeOK' /\ Running' = Running
      /\ \A e \in Daemons : dpc'[e] = "unlocked" <=> dpc[e] = "unlocked"
  BY <1>1 DEF LockInv, LockTypeOK, Running, Inodes
<1>3. \A e \in Daemons : HasOpen(e)' <=> HasOpen(e)
  BY <1>2 DEF HasOpen, Running
<1> QED BY <1>1, <1>2, <1>3 DEF LockInv, Guarded

LEMMA NextGuarded ==
    ASSUME LockInv, [Next]_vars, Undisturbed \/ UNCHANGED vars
    PROVE  LockInv'
<1>1. ASSUME NEW d \in Daemons, Poll(d) \/ Save(d) PROVE LockInv'
  <2>1. PICK s \in {"firing", "idle"} : dpc' = [dpc EXCEPT ![d] = s]
    BY <1>1 DEF Poll, Save, Goto
  <2>2. UNCHANGED lock /\ d \in Running
    BY <1>1 DEF Poll, Save, Running
  <2>3. \A e \in Daemons : dpc'[e] = IF e = d THEN s ELSE dpc[e]
    BY <2>1 DEF LockInv
  <2>4. dpc' \in [Daemons -> Phases]
    BY <2>1 DEF LockInv, Phases
  <2> QED BY <2>2, <2>3, <2>4, PollingGuarded DEF Running
<1>2. CASE UNCHANGED <<lock, dpc>>
  BY <1>2, PollingGuarded DEF LockInv
<1>3. ASSUME NEW d \in Daemons, Leave(d), Undisturbed PROVE LockInv'
  <2>1. DropLock(d) /\ Goto(d, "unlocked") /\ d \in Running
    BY <1>3 DEF Leave, Running
  <2>2. \A e \in Daemons : e # d /\ LockOf[e] = LockOf[d] => ~HasOpen(e)
    BY <1>3, <2>1, GuardedOne DEF Undisturbed, HasOpen, OneDaemon, LockInv
  <2> QED BY <2>1, <2>2, DropGuarded
<1>4. ASSUME NEW d \in Daemons, Crash(d) PROVE LockInv'
  BY <1>4, DropGuarded DEF Crash
<1>5. ASSUME NEW d \in Daemons, Fire(d) \/ Fail(d) \/ Skip(d) \/ Interrupt(d)
      PROVE  UNCHANGED <<lock, dpc>>
  BY <1>5 DEF Fire, Fail, Skip, Interrupt
<1>6. CASE Tick \/ UNCHANGED vars
  BY <1>2, <1>6 DEF Tick, vars, daemon
<1>7. ASSUME NEW u \in Users, NEW j \in Jobs, Add(u, j) PROVE UNCHANGED <<lock, dpc>>
  BY <1>7 DEF Add, Take, inside, daemon
<1>8. ASSUME NEW u \in Users, NEW i \in 1 .. MaxSchedules, RemoveIndex(u, i)
      PROVE  UNCHANGED <<lock, dpc>>
  BY <1>8 DEF RemoveIndex, Take, inside, daemon
<1>9. ASSUME NEW u \in Users, Finish(u) \/ Abandon(u) PROVE UNCHANGED <<lock, dpc>>
  BY <1>9 DEF Finish, Abandon, Done, inside, daemon
<1>10. CASE UNCHANGED vars
  BY <1>6, <1>10
<1>11. CASE Undisturbed /\ \E d \in Daemons : Step(d) \/ Interrupt(d) \/ Crash(d)
  BY <1>1, <1>2, <1>3, <1>4, <1>5, <1>11, StartGuarded, EnterGuarded, UnnameGuarded DEF Step
<1> QED BY <1>2, <1>6, <1>7, <1>8, <1>9, <1>10, <1>11 DEF Next

\* The lock does keep a second daemon off a watch file, however the daemons start,
\* stop, are interrupted and crash, as long as nobody comes to the lock file in the
\* moment between its unlocking and the removal of its name (acquireDaemonLock).
THEOREM LockExcludes ==
    Spec /\ [][Undisturbed]_vars => []OneDaemon
<1>1. Init => LockInv
  BY LockAssumption DEF Init, LockInit, LockInv, LockTypeOK, Guarded, HasOpen, Running, Phases
<1>2. LockInv /\ [Next]_vars /\ [Undisturbed]_vars => LockInv'
  BY NextGuarded
<1>3. LockInv => OneDaemon
  BY GuardedOne DEF LockInv
<1> QED BY <1>1, <1>2, <1>3, PTL DEF Spec

=============================================================================
