---------------------------- MODULE HoldsProofs -----------------------------
(***************************************************************************)
(* Proofs about Holds, for every set of holds, owners and commands and     *)
(* every bound.                                                            *)
(*                                                                         *)
(* The ledger implements the abstract one: each change of coverage.json is *)
(* one Record or one Remove, made of the ledger as it is when the change   *)
(* is stored (Locked, Due).                                                *)
(*                                                                         *)
(* The rest goes up in steps. KInv: what a command knows at each of its    *)
(* steps (Knows). AInv: the event of a hold, every command at work on it   *)
(* and the leave filed for it have one window and one status (Same). CInv: *)
(* a hold that was forgotten is in no copy of the ledger that is still to  *)
(* be written (Forgets). BInv: booked time is in every such copy (Lists).  *)
(*                                                                         *)
(* Last, what phrases mean and what Count counts, for every day: the       *)
(* function Count defines exists (CountIs gives it outright), and it is    *)
(* that one, because the last time at which two such functions differ      *)
(* would be followed by one at which they differ.                          *)
(***************************************************************************)
EXTENDS Holds, FiniteSetTheorems, TLAPS

Fields == {"at", "act", "hold", "owner", "held", "kept", "crowd", "warned"}

Windows == UNION {Accepted(MidMorning(d)) : d \in 1..LastDay}

\* What a command knows on its way to the ledger can be recorded, or removed.
Sound(c) ==
    /\ DOMAIN c = Fields
    /\ c.at \in {"save", "record", "delete", "lock", "store"} => c.hold \in Ids
    /\ c.at \in {"create", "save", "record"} => c.owner \in Owners
    /\ c.at = "lock" /\ c.act = "off" => c.owner \in Owners /\ c.held.window \in Windows
    /\ c.at = "create" => \E w \in Windows, show \in Shows : c.held = Event(w, show)
    /\ c.at \in {"save", "record"} =>
            (ValidWindow(c.held.window) => c.held.window \in Windows)
    /\ c.at = "delete" => c.act = "cancel"

\* The ledger about to be stored is what a Record or a Remove makes of it.
Due(kept) ==
    \/ \E e \in Entries : \E at \in 0..now : kept = {x \in ledger : x.end > at} \cup {e}
    \/ \E h \in Ids : kept = {x \in ledger : x.hold # h}

Commands == DOMAIN procs = Procs /\ \A p \in Procs : Sound(procs[p])

Locked == \A p \in Procs : procs[p].at = "store" => lock = p /\ Due(procs[p].kept)

OnTime == \E d \in 1..LastDay : now = MidMorning(d)

IInv == Commands /\ Locked /\ OnTime

-----------------------------------------------------------------------------
(* Facts about the data.                                                   *)

LEMMA TimeIsNat == ASSUME OnTime PROVE now \in Nat
BY HoldsAssumption DEF OnTime, MidMorning, DayLen

LEMMA IdleIsSound == Sound(Idle) /\ Idle.at = "idle"
BY DEF Sound, Idle, Fields

LEMMA ZeroIsNoWindow == ~ ValidWindow(Zero)
BY DEF ValidWindow, Zero

\* What a backend that patches returns for a new hold has the hold's window,
\* or none.
LEMMA ReadBack ==
    ASSUME NEW w, NEW show, backend \in Patches
    PROVE  Read(Written(Event(w, show))).window \in {w, Zero}
BY DEF Patches, Read, Written, Event, ToGraphEvent, FromGraphEvent, ToGoogleEvent,
       FromGoogleEvent

LEMMA EntryIsOne ==
    ASSUME NEW h \in Ids, NEW owner \in Owners, NEW w \in Windows
    PROVE  EntryOf(h, owner, w) \in Entries
BY DEF Entries, Windows

\* A command that moves, away from the ledger's file, disturbs no other.
LEMMA Moves ==
    ASSUME IInv, NEW p \in Procs,
           DOMAIN procs' = Procs,
           \A q \in Procs : q # p => procs'[q] = procs[q],
           Sound(procs'[p]), procs'[p].at # "store",
           UNCHANGED <<now, ledger, lock>>
    PROVE  IInv'
<1>1. Commands'
  BY DEF IInv, Commands
<1>2. Locked'
  <2> SUFFICES ASSUME NEW q \in Procs, procs'[q].at = "store"
               PROVE  lock' = q /\ Due(procs[q].kept)' 
    BY DEF Locked
  <2>1. q # p /\ procs'[q] = procs[q] OBVIOUS
  <2> QED BY <2>1 DEF IInv, Locked, Due
<1>3. OnTime'
  BY DEF IInv, OnTime
<1> QED BY <1>1, <1>2, <1>3 DEF IInv

-----------------------------------------------------------------------------
(* The steps.                                                              *)

LEMMA InitInv == Init => IInv
<1> SUFFICES ASSUME Init PROVE IInv
  OBVIOUS
<1>1. Commands
  BY IdleIsSound DEF Init, Commands
<1>2. Locked
  BY IdleIsSound DEF Init, Locked
<1>3. OnTime
  BY HoldsAssumption DEF Init, OnTime
<1> QED BY <1>1, <1>2, <1>3 DEF IInv

\* A command that ends, or has started, where it writes no ledger.
LEMMA Ends ==
    ASSUME IInv, NEW p \in Procs, End(p), UNCHANGED <<now, ledger, lock>>
    PROVE  IInv'
<1>1. DOMAIN procs' = Procs /\ procs'[p] = Idle
  BY DEF End, IInv, Commands
<1>2. \A q \in Procs : q # p => procs'[q] = procs[q]
  BY DEF End, IInv, Commands
<1> QED BY <1>1, <1>2, IdleIsSound, Moves

LEMMA OffInv ==
    ASSUME IInv, NEW p \in Procs, NEW owner \in Owners, NEW w \in Accepted(now),
           NEW show \in Shows, Off(p, owner, w, show)
    PROVE  IInv'
<1>1. w \in Windows
  BY DEF IInv, OnTime, Windows
<1>2. /\ DOMAIN procs' = Procs
      /\ \A q \in Procs : q # p => procs'[q] = procs[q]
      /\ UNCHANGED <<now, ledger, lock>>
  BY DEF Off, Start, IInv, Commands, fileVars
<1>3. /\ DOMAIN procs'[p] = Fields
      /\ procs'[p].at = "create" /\ procs'[p].owner = owner
      /\ procs'[p].held = Event(w, show)
  BY DEF Off, Start, IInv, Commands, Idle, Fields
<1>4. Sound(procs'[p])
  BY <1>1, <1>3 DEF Sound
<1> QED BY <1>2, <1>3, <1>4, Moves

LEMMA CancelInv ==
    ASSUME IInv, NEW p \in Procs, NEW h \in Ids, Cancel(p, h)
    PROVE  IInv'
<1>1. /\ DOMAIN procs' = Procs
      /\ \A q \in Procs : q # p => procs'[q] = procs[q]
      /\ UNCHANGED <<now, ledger, lock>>
  BY DEF Cancel, Start, IInv, Commands, fileVars
<1>2. /\ DOMAIN procs'[p] = Fields
      /\ procs'[p].at = "delete" /\ procs'[p].act = "cancel" /\ procs'[p].hold = h
  BY DEF Cancel, Start, IInv, Commands, Idle, Fields
<1>3. Sound(procs'[p])
  BY <1>2 DEF Sound
<1> QED BY <1>1, <1>2, <1>3, Moves

LEMMA ActInv ==
    ASSUME IInv, NEW p \in Procs, NEW h \in Ids, NEW act \in Acts, Act(p, h, act)
    PROVE  IInv'
<1>1. /\ DOMAIN procs' = Procs
      /\ \A q \in Procs : q # p => procs'[q] = procs[q]
      /\ UNCHANGED <<now, ledger, lock>>
  BY DEF Act, Start, IInv, Commands, fileVars
<1>2. DOMAIN procs'[p] = Fields /\ procs'[p].at = "get"
  BY DEF Act, Start, IInv, Commands, Idle, Fields
<1>3. Sound(procs'[p])
  BY <1>2 DEF Sound
<1> QED BY <1>1, <1>2, <1>3, Moves

LEMMA CreateHoldInv ==
    ASSUME IInv, NEW p \in Procs, NEW h \in Ids, CreateHold(p, h)
    PROVE  IInv'
<1> DEFINE hold == IF backend \in Patches THEN Read(Written(procs[p].held)) ELSE procs[p].held
<1>1. UNCHANGED <<now, ledger, lock>>
  BY DEF CreateHold, fileVars
<1>2. CASE End(p)
  BY <1>1, <1>2, Ends
<1>3. CASE procs' = [procs EXCEPT ![p].at = "save", ![p].hold = h, ![p].held = hold]
  <2>1. Sound(procs[p]) /\ procs[p].at = "create" /\ DOMAIN procs = Procs
    BY DEF IInv, Commands, CreateHold
  <2>2. PICK w \in Windows, show \in Shows : procs[p].held = Event(w, show)
    BY <2>1 DEF Sound
  <2>3. hold.window \in {w, Zero}
    <3>1. procs[p].held.window = w
      BY <2>2 DEF Event
    <3> QED BY <2>2, <3>1, ReadBack
  <2> HIDE DEF hold
  <2>4. /\ DOMAIN procs' = Procs
        /\ \A q \in Procs : q # p => procs'[q] = procs[q]
    BY <1>3, <2>1
  <2>5. /\ DOMAIN procs'[p] = Fields
        /\ procs'[p].at = "save" /\ procs'[p].hold = h
        /\ procs'[p].owner = procs[p].owner /\ procs'[p].held = hold
    BY <1>3, <2>1 DEF Sound, Fields
  <2>6. procs[p].owner \in Owners
    BY <2>1 DEF Sound
  <2>7. Sound(procs'[p])
    BY <2>2, <2>3, <2>5, <2>6, ZeroIsNoWindow DEF Sound
  <2> QED BY <1>1, <2>4, <2>5, <2>7, Moves
<1> QED BY <1>2, <1>3 DEF CreateHold

LEMMA SaveStateInv ==
    ASSUME IInv, NEW p \in Procs, SaveState(p)
    PROVE  IInv'
<1>1. Sound(procs[p]) /\ procs[p].at = "save" /\ DOMAIN procs = Procs
  BY DEF IInv, Commands, SaveState
<1>2. /\ DOMAIN procs' = Procs
      /\ \A q \in Procs : q # p => procs'[q] = procs[q]
      /\ UNCHANGED <<now, ledger, lock>>
  BY <1>1 DEF SaveState, Goto
<1>3. /\ DOMAIN procs'[p] = Fields /\ procs'[p].at = "record"
      /\ procs'[p].hold = procs[p].hold /\ procs'[p].owner = procs[p].owner
      /\ procs'[p].held = procs[p].held
  BY <1>1 DEF SaveState, Goto, Sound, Fields
<1>4. Sound(procs'[p])
  BY <1>1, <1>3 DEF Sound
<1> QED BY <1>2, <1>3, <1>4, Moves

\* Two ways to the ledger's lock: off records, cancel removes.
LEMMA ToLock ==
    ASSUME IInv, NEW p \in Procs, Goto(p, "lock"), UNCHANGED <<now, ledger, lock>>,
           \/ procs[p].at = "record" /\ ValidWindow(procs[p].held.window)
           \/ procs[p].at = "delete"
    PROVE  IInv'
<1>1. Sound(procs[p]) /\ DOMAIN procs = Procs
  BY DEF IInv, Commands
<1>2. /\ DOMAIN procs' = Procs
      /\ \A q \in Procs : q # p => procs'[q] = procs[q]
  BY <1>1 DEF Goto
<1>3. /\ DOMAIN procs'[p] = Fields /\ procs'[p].at = "lock"
      /\ procs'[p].act = procs[p].act
      /\ procs'[p].hold = procs[p].hold /\ procs'[p].owner = procs[p].owner
      /\ procs'[p].held = procs[p].held
  BY <1>1 DEF Goto, Sound, Fields
<1>4. Sound(procs'[p])
  BY <1>1, <1>3 DEF Sound
<1> QED BY <1>2, <1>3, <1>4, Moves

LEMMA RecordCoverageInv ==
    ASSUME IInv, NEW p \in Procs, RecordCoverage(p)
    PROVE  IInv'
<1>1. UNCHANGED <<now, ledger, lock>> /\ procs[p].at = "record"
  BY DEF RecordCoverage, fileVars
<1>2. CASE End(p)
  BY <1>1, <1>2, Ends
<1>3. CASE ValidWindow(procs[p].held.window) /\ Goto(p, "lock")
  BY <1>1, <1>3, ToLock
<1> QED BY <1>2, <1>3 DEF RecordCoverage

LEMMA DeleteHoldInv ==
    ASSUME IInv, NEW p \in Procs, DeleteHold(p)
    PROVE  IInv'
<1>1. UNCHANGED <<now, ledger, lock>> /\ procs[p].at = "delete"
  BY DEF DeleteHold, fileVars
<1>2. CASE End(p)
  BY <1>1, <1>2, Ends
<1>3. CASE Goto(p, "lock")
  BY <1>1, <1>3, ToLock
<1> QED BY <1>2, <1>3 DEF DeleteHold

\* Under the lock a command reads the ledger and prepares what it will store.
LEMMA KeptIsDue ==
    ASSUME IInv, NEW p \in Procs, procs[p].at = "lock"
    PROVE  Due(Kept(p))
<1>1. Sound(procs[p]) /\ procs[p].hold \in Ids
  BY DEF IInv, Commands, Sound
<1>2. CASE procs[p].act = "off"
  <2>1. EntryOf(procs[p].hold, procs[p].owner, procs[p].held.window) \in Entries
    BY <1>1, <1>2, EntryIsOne DEF Sound
  <2>2. now \in 0..now
    BY TimeIsNat DEF IInv
  <2> QED BY <1>2, <2>1, <2>2 DEF Due, Kept
<1>3. CASE procs[p].act # "off"
  BY <1>1, <1>3 DEF Due, Kept
<1> QED BY <1>2, <1>3

LEMMA LockLedgerInv ==
    ASSUME IInv, NEW p \in Procs, LockLedger(p)
    PROVE  IInv'
<1>1. Sound(procs[p]) /\ procs[p].at = "lock" /\ DOMAIN procs = Procs
  BY DEF IInv, Commands, LockLedger
<1>2. /\ DOMAIN procs' = Procs
      /\ \A q \in Procs : q # p => procs'[q] = procs[q]
      /\ UNCHANGED <<now, ledger>> /\ lock' = p
  BY <1>1 DEF LockLedger
<1> DEFINE kept == Kept(p)
<1>3. /\ DOMAIN procs'[p] = Fields /\ procs'[p].at = "store"
      /\ procs'[p].hold = procs[p].hold /\ procs'[p].kept = kept
  <2>1. procs' = [procs EXCEPT ![p].at = "store", ![p].kept = kept]
    BY DEF LockLedger
  <2> HIDE DEF kept
  <2> QED BY <1>1, <2>1 DEF Sound, Fields
<1>4. Commands'
  <2>1. Sound(procs'[p])
    BY <1>1, <1>3 DEF Sound
  <2> QED BY <1>2, <2>1 DEF IInv, Commands
<1>5. Locked'
  <2> HIDE DEF kept
  <2> SUFFICES ASSUME NEW q \in Procs, procs'[q].at = "store"
               PROVE  lock' = q /\ Due(procs[q].kept)'
    BY DEF Locked
  <2>1. q = p
    BY <1>1, <1>2, HoldsAssumption DEF IInv, Locked, LockLedger
  <2>2. Due(kept)
    BY <1>1, KeptIsDue DEF kept
  <2>3. Due(procs[p].kept)'
    BY <1>2, <1>3, <2>2 DEF Due
  <2> QED BY <1>2, <2>1, <2>3
<1>6. OnTime'
  BY <1>2 DEF IInv, OnTime
<1> QED BY <1>4, <1>5, <1>6 DEF IInv

LEMMA StoreLedgerInv ==
    ASSUME IInv, NEW p \in Procs, StoreLedger(p)
    PROVE  IInv'
<1>1. Sound(procs[p]) /\ procs[p].at = "store" /\ DOMAIN procs = Procs
  BY DEF IInv, Commands, StoreLedger
<1>2. \A q \in Procs : q # p => procs[q].at # "store"
  BY <1>1 DEF IInv, Locked
<1>3. now' = now /\ (End(p) \/ Goto(p, "load"))
  BY DEF StoreLedger
<1>4. /\ DOMAIN procs' = Procs
      /\ \A q \in Procs : q # p => procs'[q] = procs[q]
      /\ DOMAIN procs'[p] = Fields /\ procs'[p].at \in {"idle", "load"}
  BY <1>1, <1>3 DEF End, Goto, Idle, Sound, Fields
<1>5. Sound(procs'[p])
  BY <1>4 DEF Sound
<1>6. Commands'
  BY <1>4, <1>5 DEF IInv, Commands
<1>7. Locked'
  BY <1>2, <1>4 DEF Locked
<1>8. OnTime'
  BY <1>3 DEF IInv, OnTime
<1> QED BY <1>6, <1>7, <1>8 DEF IInv

\* Steps that touch neither the ledger nor the way to it.
LEMMA Elsewhere ==
    ASSUME IInv, NEW p \in Procs,
           \/ LoadState(p) \/ ClearState(p) \/ GetHold(p) \/ PromoteHold(p) \/ PatchHold(p)
           \/ FetchHold(p) \/ PutHold(p) \/ FileLeave(p) \/ Fail(p)
    PROVE  IInv'
<1>1. UNCHANGED <<now, ledger, lock>>
  BY DEF LoadState, ClearState, GetHold, PromoteHold, PatchHold, FetchHold, PutHold,
         FileLeave, Fail, fileVars
<1>2. CASE End(p)
  BY <1>1, <1>2, Ends
<1>3. CASE ~ End(p)
  <2>1. Sound(procs[p]) /\ DOMAIN procs = Procs
    BY DEF IInv, Commands
  <2>2. /\ DOMAIN procs' = Procs
        /\ \A q \in Procs : q # p => procs'[q] = procs[q]
        /\ DOMAIN procs'[p] = Fields
        /\ procs'[p].at \in {"clear", "file", "team", "patch", "fetch", "put"}
    <3>1. CASE LoadState(p)
      BY <1>3, <2>1, <3>1 DEF LoadState, Goto, Cancelled, Sound, Fields
    <3>2. CASE ClearState(p)
      BY <1>3, <3>2 DEF ClearState, Cancelled
    <3>3. CASE GetHold(p)
      BY <1>3, <2>1, <3>3 DEF GetHold, Sound, Fields
    <3>4. CASE PromoteHold(p)
      BY <1>3, <2>1, <3>4 DEF PromoteHold, Sound, Fields
    <3>5. CASE FetchHold(p)
      BY <1>3, <2>1, <3>5 DEF FetchHold, Goto, Sound, Fields
    <3>6. CASE PatchHold(p) \/ PutHold(p) \/ FileLeave(p) \/ Fail(p)
      BY <1>3, <3>6 DEF PatchHold, PutHold, FileLeave, Fail
    <3> QED BY <3>1, <3>2, <3>3, <3>4, <3>5, <3>6
  <2>3. Sound(procs'[p])
    BY <2>2 DEF Sound
  <2> QED BY <1>1, <2>2, <2>3, Moves
<1> QED BY <1>2, <1>3

\* The lock dies with its holder, and no other command holds it.
LEMMA CrashInv ==
    ASSUME IInv, NEW p \in Procs, Crash(p)
    PROVE  IInv'
<1>1. /\ DOMAIN procs' = Procs /\ procs'[p] = Idle
      /\ \A q \in Procs : q # p => procs'[q] = procs[q]
      /\ UNCHANGED <<now, ledger>>
      /\ lock' = IF lock = p THEN None ELSE lock
  BY DEF Crash, End, IInv, Commands
<1>2. Commands'
  BY <1>1, IdleIsSound DEF IInv, Commands
<1>3. Locked'
  <2> SUFFICES ASSUME NEW q \in Procs, procs'[q].at = "store"
               PROVE  lock' = q /\ Due(procs[q].kept)'
    BY DEF Locked
  <2>1. q # p /\ procs'[q] = procs[q]
    BY <1>1, IdleIsSound
  <2>2. lock = q /\ Due(procs[q].kept)
    BY <2>1 DEF IInv, Locked
  <2> QED BY <1>1, <2>1, <2>2 DEF Due
<1>4. OnTime'
  BY <1>1 DEF IInv, OnTime
<1> QED BY <1>2, <1>3, <1>4 DEF IInv

\* Time passes under a command that holds the lock: what its Record dropped
\* was over when it read the ledger, and still is.
LEMMA TickInv ==
    ASSUME IInv, Tick
    PROVE  IInv'
<1>1. UNCHANGED <<procs, ledger, lock>>
  BY DEF Tick, fileVars
<1>2. PICK d \in 1..LastDay : now = MidMorning(d)
  BY DEF IInv, OnTime
<1>3. d \in Nat /\ LastDay \in Nat /\ Day(now) = d
  BY <1>2, HoldsAssumption DEF Day, MidMorning, DayLen
<1>4. d + 1 \in 1..LastDay /\ now' = MidMorning(d + 1)
  BY <1>3 DEF Tick
<1>5. OnTime'
  BY <1>4 DEF OnTime
<1>6. now \in Nat /\ now' \in Nat /\ now <= now'
  BY <1>2, <1>3, <1>4 DEF MidMorning, DayLen
<1>7. Commands'
  BY <1>1 DEF IInv, Commands
<1>8. Locked'
  <2> SUFFICES ASSUME NEW q \in Procs, procs[q].at = "store"
               PROVE  lock = q /\ Due(procs[q].kept)'
    BY <1>1 DEF Locked
  <2>1. lock = q /\ Due(procs[q].kept)
    BY DEF IInv, Locked
  <2>2. 0..now \subseteq 0..now'
    BY <1>6
  <2> QED BY <1>1, <2>1, <2>2 DEF Due
<1> QED BY <1>5, <1>7, <1>8 DEF IInv

LEMMA OutsideInv ==
    ASSUME IInv, UNCHANGED <<now, procs, ledger, lock>>
    PROVE  IInv'
BY DEF IInv, Commands, Locked, Due, OnTime

LEMMA StepInv ==
    ASSUME IInv, NEW p \in Procs, Step(p)
    PROVE  IInv'
BY CreateHoldInv, SaveStateInv, RecordCoverageInv, LockLedgerInv, StoreLedgerInv,
   DeleteHoldInv, Elsewhere DEF Step

LEMMA NextInv == IInv /\ [Next]_vars => IInv'
<1> SUFFICES ASSUME IInv, [Next]_vars PROVE IInv'
  OBVIOUS
<1>1. ASSUME NEW p \in Procs, Step(p) \/ Crash(p) PROVE IInv'
  BY <1>1, StepInv, CrashInv
<1>2. ASSUME NEW p \in Procs, NEW owner \in Owners, NEW w \in Accepted(now),
             NEW show \in Shows, Off(p, owner, w, show)
      PROVE  IInv'
  BY <1>2, OffInv
<1>3. ASSUME NEW p \in Procs, NEW h \in Ids, Cancel(p, h) \/ \E act \in Acts : Act(p, h, act)
      PROVE  IInv'
  BY <1>3, CancelInv, ActInv
<1>4. ASSUME NEW h \in Ids,
             \/ \E a \in Answers : Answer(h, a)
             \/ \E stale \in SUBSET copies[h] : Sync(h, stale)
      PROVE  IInv'
  BY <1>4, OutsideInv DEF Answer, Sync, fileVars
<1>5. CASE Team
  BY <1>5, OutsideInv DEF Team
<1>6. CASE Tick
  BY <1>6, TickInv
<1>7. CASE UNCHANGED vars
  BY <1>7, OutsideInv DEF vars, fileVars
<1> QED BY <1>1, <1>2, <1>3, <1>4, <1>5, <1>6, <1>7 DEF Next

-----------------------------------------------------------------------------
(* The refinement.                                                         *)

\* Only a store changes the ledger, and it is a Record or a Remove.
LEMMA OnlyStores ==
    ASSUME [Next]_vars, ledger' # ledger
    PROVE  \E p \in Procs : StoreLedger(p)
<1>1. ASSUME NEW p \in Procs, Step(p)
      PROVE  StoreLedger(p)
  BY <1>1 DEF Step, CreateHold, SaveState, RecordCoverage, LockLedger, DeleteHold, LoadState,
     ClearState, GetHold, PromoteHold, PatchHold, FetchHold, PutHold, FileLeave, Fail, fileVars
<1>2. ASSUME NEW p \in Procs PROVE ~ Crash(p)
  BY DEF Crash
<1>3. ASSUME NEW p \in Procs, NEW owner, NEW w, NEW show PROVE ~ Off(p, owner, w, show)
  BY DEF Off, fileVars
<1>4. ASSUME NEW p \in Procs, NEW h, NEW act PROVE ~ Cancel(p, h) /\ ~ Act(p, h, act)
  BY DEF Cancel, Act, fileVars
<1>5. ASSUME NEW h, NEW a PROVE ~ Answer(h, a) /\ ~ Sync(h, a)
  BY DEF Answer, Sync, fileVars
<1>6. ~ Team /\ ~ Tick /\ ~ UNCHANGED vars
  BY DEF Team, Tick, vars, fileVars
<1> QED BY <1>1, <1>2, <1>3, <1>4, <1>5, <1>6 DEF Next

LEMMA StoreIsOneUpdate ==
    ASSUME IInv, NEW p \in Procs, StoreLedger(p)
    PROVE  L!Next
<1>1. Due(procs[p].kept) /\ ledger' = procs[p].kept
  BY DEF IInv, Locked, StoreLedger
<1>2. now \in Nat
  BY TimeIsNat DEF IInv
<1>3. CASE \E e \in Entries : \E at \in 0..now :
              procs[p].kept = {x \in ledger : x.end > at} \cup {e}
  <2>1. PICK e \in Entries, at \in 0..now :
            procs[p].kept = {x \in ledger : x.end > at} \cup {e}
    BY <1>3
  <2>2. L!Record(e, at)
    BY <1>1, <1>2, <2>1 DEF L!Record
  <2> QED BY <2>2 DEF L!Next
<1>4. CASE \E h \in Ids : procs[p].kept = {x \in ledger : x.hold # h}
  BY <1>1, <1>4 DEF L!Next, L!Remove
<1> QED BY <1>1, <1>3, <1>4 DEF Due

\* However many commands record, remove and die at once, the ledger's file
\* changes as if each Record and each Remove were one step, made of the ledger
\* as it was then (withFileLock).
THEOREM LedgerIsAtomic == Spec => LedgerAtomic
<1>1. Init => L!Init
  BY DEF Init, L!Init
<1>2. IInv /\ [Next]_vars => [L!Next]_ledger
  BY OnlyStores, StoreIsOneUpdate
<1> QED BY InitInv, NextInv, <1>1, <1>2, PTL DEF Spec, LedgerAtomic, L!Spec

-----------------------------------------------------------------------------
(* What a command knows of its hold.                                       *)

\* The points of a command that has read its hold and acts on it.
Updating == {"team", "patch", "fetch", "put", "file"}

Points == {"idle", "create", "save", "record", "lock", "store", "delete", "load", "clear",
           "get"} \cup Updating

Statuses ==
    {"free", "tentative", "busy", "oof", "transparent", "opaque", "TRANSPARENT", "OPAQUE"}

\* Holds, and the events kept for them.
Forms == [window : Windows \cup {Zero}, show : Statuses, team : BOOLEAN, stat : Answers]

\* The statuses the backend's events have.
Looks ==
    CASE backend = "graph" -> {"free", "tentative", "busy", "oof"}
      [] backend = "google" -> {"transparent", "opaque"}
      [] OTHER -> {"TRANSPARENT", "OPAQUE"}

Calendar ==
    /\ backend \in Backends
    /\ made \subseteq Ids /\ told \subseteq made /\ lastHold \in made \cup {None}
    /\ DOMAIN events = Ids
    /\ \A h \in Ids : events[h] # None => h \in made /\ events[h] \in Forms
    /\ answer \in [Ids -> Answers] /\ copies \in [Ids -> SUBSET Answers]
    /\ \A f \in filed : f.hold \in made

\* What a command knows at each point.
Knows(c) ==
    /\ c.at \in Points
    /\ c.hold \in IF c.at \in {"idle", "create"} THEN {None} ELSE made
    /\ c.at \in {"create", "save", "record"} => c.act = "off"
    /\ c.at \in {"lock", "store"} => c.act \in {"off", "cancel"}
    /\ c.at \in {"delete", "load", "clear"} => c.act = "cancel"
    /\ c.at \in {"get"} \cup Updating => c.act \in Acts
    /\ c.at \in Updating \/ (c.at # "idle" /\ c.act = "off") => c.held \in Forms
    /\ c.at \in {"patch", "fetch", "put"} => c.held.team = TRUE
    /\ c.at \in {"fetch", "put"} => backend \notin Patches

KInv == IInv /\ Calendar /\ \A p \in Procs : Knows(procs[p])

Agrees(c, w, s) ==
    /\ c.act = "off" /\ backend # "graph" => c.held.window = w
    /\ c.at \in Updating =>
            /\ backend # "graph" => c.held.window = w
            /\ Written(c.held).show = s

\* The event of a hold, the commands at work on it and the leave filed for it
\* have one window and one status.
Same(h, w, s) ==
    /\ events[h] # None => events[h].window = w /\ events[h].show = s
    /\ \A p \in Procs : procs[p].hold = h => Agrees(procs[p], w, s)
    /\ \A f \in filed : f.hold = h /\ backend # "graph" => f = Leave(h, w)

AInv == KInv /\ \A h \in made : \E w \in Windows, s \in Looks : Same(h, w, s)


-----------------------------------------------------------------------------
(* What the backends do to a hold.                                         *)

LEMMA ZeroIsForm ==
    ASSUME NEW w \in Windows, NEW show \in Shows
    PROVE  Event(w, show) \in Forms /\ Event(w, show).window = w
BY HoldsAssumption DEF Event, Forms, Statuses, Answers

LEMMA WrittenForm ==
    ASSUME NEW e \in Forms
    PROVE  /\ Written(e) \in Forms
           /\ Written(e).window = e.window /\ Written(e).team = e.team
           /\ Written(e).stat = e.stat
BY DEF Written, ToGraphEvent, ToGoogleEvent, ApplyHold, transparencyFromShowAs, transparency,
       Forms, Statuses

LEMMA WrittenLooks ==
    ASSUME NEW e \in Forms
    PROVE  Written(e).show \in Looks
BY DEF Written, ToGraphEvent, ToGoogleEvent, ApplyHold, transparencyFromShowAs, transparency,
       Forms, Statuses, Looks

LEMMA ReadForm ==
    ASSUME NEW e \in Forms
    PROVE  /\ Read(e) \in Forms /\ Read(e).stat = e.stat /\ Read(e).team = e.team
           /\ backend # "graph" => Read(e).window = e.window
BY DEF Read, FromGraphEvent, FromGoogleEvent, FromEvent, showAsFromTransparency, Forms,
       Statuses

\* A status that was read is written back as it was.
LEMMA ReadLooks ==
    ASSUME NEW e \in Forms, e.show \in Looks
    PROVE  Written(Read(e)).show = e.show
BY DEF Read, FromGraphEvent, FromGoogleEvent, FromEvent, showAsFromTransparency, Forms,
       Statuses, Written, ToGraphEvent, ToGoogleEvent, ApplyHold, transparencyFromShowAs,
       transparency, Looks

\* Of the answers of several copies the one with the highest rank is reported.
LEMMA Ranked ==
    ASSUME NEW a \in Answers
    PROVE  Rank(a) \in 1..4 /\ (Rank(a) = 4 => a = "declined")
BY DEF Answers, Rank

LEMMA DeclinedIsHighest == Rank("declined") = 4
BY DEF Rank

LEMMA StrongestIsOne ==
    ASSUME NEW answers \in SUBSET Answers, answers # {}
    PROVE  /\ Strongest(answers) \in answers
           /\ \A b \in answers : Rank(Strongest(answers)) >= Rank(b)
<1>1. /\ Rank("declined") = 4 /\ Rank("accepted") = 3
      /\ Rank("tentative") = 2 /\ Rank("needed") = 1
  BY DEF Rank
<1>2. \E a \in answers : \A b \in answers : Rank(a) >= Rank(b)
  <2>1. CASE "declined" \in answers
    <3>1. \A b \in answers : Rank("declined") >= Rank(b)
      BY <1>1, Ranked
    <3> QED BY <2>1, <3>1
  <2>2. CASE "declined" \notin answers /\ "accepted" \in answers
    <3>1. \A b \in answers : Rank("accepted") >= Rank(b)
      <4> SUFFICES ASSUME NEW b \in answers PROVE Rank("accepted") >= Rank(b)
        OBVIOUS
      <4>1. b \in {"accepted", "tentative", "needed"}
        BY <2>2 DEF Answers
      <4> QED BY <1>1, <4>1
    <3> QED BY <2>2, <3>1
  <2>3. CASE answers \subseteq {"tentative", "needed"} /\ "tentative" \in answers
    <3>1. \A b \in answers : b \in {"tentative", "needed"}
      BY <2>3
    <3>2. \A b \in answers : Rank("tentative") >= Rank(b)
      BY <1>1, <3>1
    <3> QED BY <2>3, <3>2
  <2>4. CASE answers = {"needed"}
    BY <1>1, <2>4
  <2> QED BY <2>1, <2>2, <2>3, <2>4 DEF Answers
<1> QED BY <1>2 DEF Strongest

LEMMA DeclinedIsStrongest ==
    ASSUME NEW answers \in SUBSET Answers, "declined" \in answers
    PROVE  Strongest(answers) = "declined"
<1> DEFINE a == Strongest(answers)
<1>1. a \in Answers /\ Rank(a) >= Rank("declined")
  BY StrongestIsOne
<1> HIDE DEF a
<1>2. Rank(a) \in 1..4 /\ (Rank(a) = 4 => a = "declined")
  BY <1>1, Ranked
<1> QED BY <1>1, <1>2, DeclinedIsHighest DEF a

LEMMA ReportedForm ==
    ASSUME Calendar, NEW h \in Ids, events[h] # None
    PROVE  /\ Reported(h) \in Forms
           /\ backend # "graph" => Reported(h).window = events[h].window
           /\ events[h].show \in Looks => Written(Reported(h)).show = events[h].show
<1>1. events[h] \in Forms /\ copies[h] \in SUBSET Answers
  BY DEF Calendar
<1>2. Read(events[h]) \in Forms
  BY <1>1, ReadForm
<1>3. CASE backend = "icloud" /\ copies[h] # {}
  <2> DEFINE read == Read(events[h])
             stat == Strongest(copies[h])
  <2>1. Reported(h) = [read EXCEPT !.stat = stat]
    BY <1>3 DEF Reported
  <2>2. stat \in Answers
    BY <1>1, <1>3, StrongestIsOne
  <2>3. Written(Reported(h)).show = Written(read).show
    <3> HIDE DEF stat, read
    <3> QED BY <2>1, <1>2, <1>3 DEF Written, ApplyHold, Forms, read
  <2>4. Reported(h) \in Forms /\ Reported(h).window = read.window
    <3> HIDE DEF stat, read
    <3> QED BY <2>1, <2>2, <1>2 DEF Forms, read
  <2> QED BY <1>1, <2>3, <2>4, ReadForm, ReadLooks
<1>4. CASE ~ (backend = "icloud" /\ copies[h] # {})
  BY <1>1, <1>4, ReadForm, ReadLooks DEF Reported
<1> QED BY <1>3, <1>4

-----------------------------------------------------------------------------
(* The steps keep what is known.                                           *)

LEMMA CalendarStays ==
    ASSUME Calendar, UNCHANGED <<backend, calendarVars, made, told, lastHold, filed>>
    PROVE  Calendar'
BY DEF Calendar, calendarVars, Forms, Windows

LEMMA FormsStay == Forms' = Forms /\ Windows' = Windows
BY DEF Forms, Windows

\* A command that moves changes what no other knows.
LEMMA KMoves ==
    ASSUME KInv, IInv', NEW p \in Procs,
           DOMAIN procs' = Procs,
           \A q \in Procs : q # p => procs'[q] = procs[q],
           backend' = backend, made \subseteq made', Calendar', Knows(procs[p])'
    PROVE  KInv'
<1> SUFFICES ASSUME NEW q \in Procs, q # p PROVE Knows(procs[q])'
  BY DEF KInv
<1>1. Knows(procs[q]) /\ procs'[q] = procs[q]
  BY DEF KInv
<1> QED BY <1>1 DEF Knows

LEMMA KnowsIdle == ASSUME NEW p \in Procs, procs'[p] = Idle PROVE Knows(procs[p])'
BY DEF Knows, Idle, Points, Updating

LEMMA KEnds ==
    ASSUME KInv, IInv', NEW p \in Procs, End(p), backend' = backend, made \subseteq made',
           Calendar'
    PROVE  KInv'
<1>1. DOMAIN procs' = Procs /\ procs'[p] = Idle
      /\ \A q \in Procs : q # p => procs'[q] = procs[q]
  BY DEF End, KInv, IInv, Commands
<1> QED BY <1>1, KnowsIdle, KMoves

LEMMA OffK ==
    ASSUME KInv, IInv', NEW p \in Procs, NEW owner \in Owners, NEW w \in Accepted(now),
           NEW show \in Shows, Off(p, owner, w, show)
    PROVE  KInv'
<1>1. w \in Windows
  BY DEF KInv, IInv, OnTime, Windows
<1>2. /\ DOMAIN procs' = Procs
      /\ \A q \in Procs : q # p => procs'[q] = procs[q]
      /\ UNCHANGED <<backend, calendarVars, made, told, lastHold, filed>>
  BY DEF Off, Start, KInv, IInv, Commands, fileVars, history
<1>3. /\ procs'[p].at = "create" /\ procs'[p].act = "off" /\ procs'[p].hold = None
      /\ procs'[p].held = Event(w, show)
  BY DEF Off, Start, KInv, IInv, Commands, Idle
<1>4. Knows(procs[p])'
  <2>1. Event(w, show) \in Forms'
    BY <1>1, ZeroIsForm, FormsStay
  <2> QED BY <1>3, <2>1 DEF Knows, Points, Updating
<1> QED BY <1>2, <1>4, CalendarStays, KMoves DEF KInv

LEMMA CancelK ==
    ASSUME KInv, IInv', NEW p \in Procs, NEW h \in Ids, Cancel(p, h)
    PROVE  KInv'
<1>1. /\ DOMAIN procs' = Procs
      /\ \A q \in Procs : q # p => procs'[q] = procs[q]
      /\ UNCHANGED <<backend, calendarVars, made, told, lastHold, filed>>
  BY DEF Cancel, Start, KInv, IInv, Commands, fileVars, history
<1>2. procs'[p].at = "delete" /\ procs'[p].act = "cancel" /\ procs'[p].hold = h
  BY DEF Cancel, Start, KInv, IInv, Commands, Idle
<1>3. h \in made
  BY HoldsAssumption DEF Cancel, KInv, Calendar
<1>4. Knows(procs[p])'
  BY <1>1, <1>2, <1>3 DEF Knows, Points, Updating
<1> QED BY <1>1, <1>4, CalendarStays, KMoves DEF KInv

LEMMA ActK ==
    ASSUME KInv, IInv', NEW p \in Procs, NEW h \in Ids, NEW act \in Acts, Act(p, h, act)
    PROVE  KInv'
<1>1. /\ DOMAIN procs' = Procs
      /\ \A q \in Procs : q # p => procs'[q] = procs[q]
      /\ UNCHANGED <<backend, calendarVars, made, told, lastHold, filed>>
  BY DEF Act, Start, KInv, IInv, Commands, fileVars, history
<1>2. procs'[p].at = "get" /\ procs'[p].act = act /\ procs'[p].hold = h
  BY DEF Act, Start, KInv, IInv, Commands, Idle
<1>3. h \in made
  BY DEF Act, KInv, Calendar
<1>4. Knows(procs[p])'
  BY <1>1, <1>2, <1>3 DEF Knows, Points, Updating, Acts
<1> QED BY <1>1, <1>4, CalendarStays, KMoves DEF KInv

\* An event is made, changed or deleted; the rest of the calendar stays.
LEMMA CalendarWrites ==
    ASSUME Calendar, NEW h \in Ids, NEW e,
           e = None \/ (e \in Forms /\ h \in made'),
           events' = [events EXCEPT ![h] = e],
           made \subseteq made', made' \subseteq Ids,
           UNCHANGED <<backend, answer, copies, told, lastHold, filed>>
    PROVE  Calendar'
<1>1. DOMAIN events' = Ids
  BY DEF Calendar
<1>2. ASSUME NEW g \in Ids, events'[g] # None PROVE g \in made' /\ events'[g] \in Forms'
  BY <1>2, FormsStay DEF Calendar
<1> QED BY <1>1, <1>2 DEF Calendar

LEMMA CreateHoldK ==
    ASSUME KInv, IInv', NEW p \in Procs, NEW h \in Ids, CreateHold(p, h)
    PROVE  KInv'
<1> DEFINE event == Written(procs[p].held)
           hold == IF backend \in Patches THEN Read(event) ELSE procs[p].held
<1>1. /\ procs[p].at = "create" /\ DOMAIN procs = Procs /\ DOMAIN procs[p] = Fields
      /\ procs[p].act = "off" /\ procs[p].held \in Forms
  BY DEF KInv, IInv, Commands, Sound, Knows, CreateHold
<1>2. event \in Forms /\ hold \in Forms
  BY <1>1, WrittenForm, ReadForm
<1> HIDE DEF event, hold
<1>3. /\ events' = [events EXCEPT ![h] = event]
      /\ made' = made \cup {h} /\ UNCHANGED <<backend, answer, copies, told, lastHold, filed>>
  BY DEF CreateHold, fileVars, event
<1>4. Calendar'
  <2>1. made \subseteq made' /\ made' \subseteq Ids /\ h \in made'
    BY <1>3 DEF KInv, Calendar
  <2> QED BY <1>2, <1>3, <2>1, CalendarWrites DEF KInv
<1>5. CASE End(p)
  BY <1>3, <1>4, <1>5, KEnds
<1>6. CASE procs' = [procs EXCEPT ![p].at = "save", ![p].hold = h, ![p].held = hold]
  <2>1. /\ DOMAIN procs' = Procs
        /\ \A q \in Procs : q # p => procs'[q] = procs[q]
    BY <1>1, <1>6
  <2>2. /\ procs'[p].at = "save" /\ procs'[p].hold = h /\ procs'[p].held = hold
        /\ procs'[p].act = "off"
    BY <1>1, <1>6 DEF Fields
  <2>3. Knows(procs[p])'
    BY <1>2, <1>3, <2>2, FormsStay DEF Knows, Points, Updating
  <2> QED BY <1>3, <1>4, <2>1, <2>3, KMoves
<1> QED BY <1>5, <1>6 DEF CreateHold, event, hold

\* A command that goes on to a point where it needs no more than it knows.
LEMMA KGoes ==
    ASSUME KInv, IInv', NEW p \in Procs, NEW point \in Points, Goto(p, point),
           backend' = backend, made \subseteq made', Calendar',
           procs[p].at \notin {"idle", "create"}, point \notin {"idle", "create"},
           \/ procs[p].act = "off" /\ point \in {"record", "lock"}
           \/ procs[p].act = "cancel" /\ point \in {"lock", "load", "clear"}
           \/ procs[p].at = "fetch" /\ point = "put"
    PROVE  KInv'
<1>1. Knows(procs[p]) /\ DOMAIN procs = Procs /\ DOMAIN procs[p] = Fields
  BY DEF KInv, IInv, Commands, Sound
<1>2. /\ DOMAIN procs' = Procs
      /\ \A q \in Procs : q # p => procs'[q] = procs[q]
  BY <1>1 DEF Goto
<1>3. /\ procs'[p].at = point /\ procs'[p].hold = procs[p].hold
      /\ procs'[p].held = procs[p].held /\ procs'[p].act = procs[p].act
  BY <1>1 DEF Goto, Fields
<1>4. Knows(procs[p])'
  BY <1>1, <1>3, FormsStay DEF Knows, Points, Updating
<1> QED BY <1>2, <1>4, KMoves

LEMMA SaveStateK ==
    ASSUME KInv, IInv', NEW p \in Procs, SaveState(p)
    PROVE  KInv'
<1>1. Knows(procs[p]) /\ procs[p].at = "save"
  BY DEF KInv, SaveState
<1>2. procs[p].hold \in made /\ procs[p].act = "off"
  BY <1>1 DEF Knows
<1>3. /\ lastHold' = procs[p].hold /\ told' = told \cup {procs[p].hold}
      /\ UNCHANGED <<backend, calendarVars, made, filed>> /\ Goto(p, "record")
  BY DEF SaveState
<1>4. Calendar'
  BY <1>2, <1>3, FormsStay DEF KInv, Calendar, calendarVars
<1> QED BY <1>1, <1>2, <1>3, <1>4, KGoes DEF Points

LEMMA RecordCoverageK ==
    ASSUME KInv, IInv', NEW p \in Procs, RecordCoverage(p)
    PROVE  KInv'
<1>1. Knows(procs[p]) /\ procs[p].at = "record"
  BY DEF KInv, RecordCoverage
<1>2. procs[p].act = "off"
  BY <1>1 DEF Knows
<1>3. UNCHANGED <<backend, calendarVars, made, told, lastHold, filed>>
  BY DEF RecordCoverage, fileVars
<1>4. Calendar'
  BY <1>3, CalendarStays DEF KInv
<1>5. CASE End(p)
  BY <1>3, <1>4, <1>5, KEnds
<1>6. CASE Goto(p, "lock")
  BY <1>1, <1>2, <1>3, <1>4, <1>6, KGoes DEF Points
<1> QED BY <1>5, <1>6 DEF RecordCoverage

LEMMA LockLedgerK ==
    ASSUME KInv, IInv', NEW p \in Procs, LockLedger(p)
    PROVE  KInv'
<1>1. Knows(procs[p]) /\ procs[p].at = "lock" /\ DOMAIN procs = Procs
      /\ DOMAIN procs[p] = Fields
  BY DEF KInv, IInv, Commands, Sound, LockLedger
<1>2. UNCHANGED <<backend, calendarVars, made, told, lastHold, filed>>
  BY DEF LockLedger, fileVars
<1>3. Calendar'
  BY <1>2, CalendarStays DEF KInv
<1> DEFINE kept == Kept(p)
<1>4. procs' = [procs EXCEPT ![p].at = "store", ![p].kept = kept]
  BY DEF LockLedger
<1> HIDE DEF kept
<1>5. /\ DOMAIN procs' = Procs
      /\ \A q \in Procs : q # p => procs'[q] = procs[q]
  BY <1>1, <1>4
<1>6. /\ procs'[p].at = "store" /\ procs'[p].hold = procs[p].hold
      /\ procs'[p].held = procs[p].held /\ procs'[p].act = procs[p].act
  BY <1>1, <1>4 DEF Fields
<1>7. Knows(procs[p])'
  BY <1>1, <1>2, <1>6, FormsStay DEF Knows, Points, Updating
<1> QED BY <1>2, <1>3, <1>5, <1>7, KMoves

LEMMA StoreLedgerK ==
    ASSUME KInv, IInv', NEW p \in Procs, StoreLedger(p)
    PROVE  KInv'
<1>1. procs[p].at = "store" /\ UNCHANGED <<backend, calendarVars, made, told, lastHold, filed>>
  BY DEF StoreLedger
<1>2. Calendar'
  BY <1>1, CalendarStays DEF KInv
<1>3. CASE End(p)
  BY <1>1, <1>2, <1>3, KEnds
<1>4. CASE procs[p].act = "cancel" /\ Goto(p, "load")
  BY <1>1, <1>2, <1>4, KGoes DEF Points
<1> QED BY <1>3, <1>4 DEF StoreLedger

LEMMA DeleteHoldK ==
    ASSUME KInv, IInv', NEW p \in Procs, DeleteHold(p)
    PROVE  KInv'
<1>1. Knows(procs[p]) /\ procs[p].at = "delete"
  BY DEF KInv, DeleteHold
<1>2. procs[p].act = "cancel" /\ procs[p].hold \in Ids
  BY <1>1 DEF Knows, KInv, Calendar
<1>3. UNCHANGED <<backend, answer, copies, made, told, lastHold, filed>>
  BY DEF DeleteHold, fileVars, history
<1>4. CASE End(p) /\ UNCHANGED events
  <2>1. Calendar'
    BY <1>3, <1>4, CalendarStays DEF KInv, calendarVars
  <2> QED BY <1>3, <1>4, <2>1, KEnds
<1>5. CASE Goto(p, "lock") /\ events' = [events EXCEPT ![procs[p].hold] = None]
  <2>1. PICK h \in Ids : h = procs[p].hold
    BY <1>2
  <2>2. Calendar'
    BY <1>3, <1>5, <2>1, CalendarWrites DEF KInv, Calendar
  <2> QED BY <1>1, <1>2, <1>3, <1>5, <2>2, KGoes DEF Points
<1> QED BY <1>4, <1>5 DEF DeleteHold

LEMMA LoadStateK ==
    ASSUME KInv, IInv', NEW p \in Procs, LoadState(p)
    PROVE  KInv'
<1>1. Knows(procs[p]) /\ procs[p].at = "load"
  BY DEF KInv, LoadState
<1>2. procs[p].act = "cancel"
  BY <1>1 DEF Knows
<1>3. UNCHANGED <<backend, calendarVars, made, told, lastHold, filed>>
  BY DEF LoadState, fileVars
<1>4. Calendar'
  BY <1>3, CalendarStays DEF KInv
<1>5. CASE End(p)
  BY <1>3, <1>4, <1>5, KEnds
<1>6. CASE Goto(p, "clear")
  BY <1>1, <1>2, <1>3, <1>4, <1>6, KGoes DEF Points
<1> QED BY <1>5, <1>6 DEF LoadState, Cancelled

LEMMA ClearStateK ==
    ASSUME KInv, IInv', NEW p \in Procs, ClearState(p)
    PROVE  KInv'
<1>1. lastHold' = None /\ UNCHANGED <<backend, calendarVars, made, told, filed>> /\ End(p)
  BY DEF ClearState, Cancelled
<1>2. Calendar'
  BY <1>1, FormsStay DEF KInv, Calendar, calendarVars
<1> QED BY <1>1, <1>2, KEnds

LEMMA GetHoldK ==
    ASSUME KInv, IInv', NEW p \in Procs, GetHold(p)
    PROVE  KInv'
<1>1. Knows(procs[p]) /\ procs[p].at = "get" /\ DOMAIN procs = Procs
      /\ DOMAIN procs[p] = Fields
  BY DEF KInv, IInv, Commands, Sound, GetHold
<1>2. UNCHANGED <<backend, calendarVars, made, told, lastHold, filed>>
  BY DEF GetHold, fileVars, history
<1>3. Calendar'
  BY <1>2, CalendarStays DEF KInv
<1>4. CASE End(p)
  BY <1>2, <1>3, <1>4, KEnds
<1>5. CASE ~ End(p)
  <2>1. PICK h \in Ids : h = procs[p].hold
    BY <1>1 DEF Knows, KInv, Calendar
  <2> DEFINE read == Reported(h)
             point == IF procs[p].act = "leave" THEN "file" ELSE "team"
  <2>2. events[h] # None
    BY <1>5, <2>1 DEF GetHold
  <2>3. read \in Forms
    BY <2>2, ReportedForm DEF KInv
  <2>4. procs' = [procs EXCEPT ![p].held = read, ![p].at = point]
    BY <1>5, <2>1 DEF GetHold
  <2> HIDE DEF read
  <2>5. /\ DOMAIN procs' = Procs
        /\ \A q \in Procs : q # p => procs'[q] = procs[q]
    BY <1>1, <2>4
  <2>6. /\ procs'[p].at = point /\ procs'[p].hold = procs[p].hold
        /\ procs'[p].held = read /\ procs'[p].act = procs[p].act
    BY <1>1, <2>4 DEF Fields
  <2>7. Knows(procs[p])'
    BY <1>1, <1>2, <2>3, <2>6, FormsStay DEF Knows, Points, Updating
  <2> QED BY <1>2, <1>3, <2>5, <2>7, KMoves
<1> QED BY <1>4, <1>5

LEMMA PromoteHoldK ==
    ASSUME KInv, IInv', NEW p \in Procs, PromoteHold(p)
    PROVE  KInv'
<1>1. Knows(procs[p]) /\ procs[p].at = "team" /\ DOMAIN procs = Procs
      /\ DOMAIN procs[p] = Fields
  BY DEF KInv, IInv, Commands, Sound, PromoteHold
<1>2. UNCHANGED <<backend, calendarVars, made, told, lastHold, filed>>
  BY DEF PromoteHold, fileVars, history
<1>3. Calendar'
  BY <1>2, CalendarStays DEF KInv
<1>4. CASE End(p)
  BY <1>2, <1>3, <1>4, KEnds
<1>5. CASE ~ End(p)
  <2> DEFINE held == procs[p].held
             point == IF backend \in Patches THEN "patch" ELSE "fetch"
  <2>1. held \in Forms
    BY <1>1 DEF Knows, Updating
  <2>2. procs' = [procs EXCEPT ![p].held.team = TRUE, ![p].at = point]
    BY <1>5 DEF PromoteHold
  <2>3. /\ DOMAIN procs' = Procs
        /\ \A q \in Procs : q # p => procs'[q] = procs[q]
    BY <1>1, <2>2
  <2>4. /\ procs'[p].at = point /\ procs'[p].hold = procs[p].hold
        /\ procs'[p].held = [held EXCEPT !.team = TRUE] /\ procs'[p].act = procs[p].act
    BY <1>1, <2>2 DEF Fields
  <2>5. procs'[p].held \in Forms /\ procs'[p].held.team = TRUE
    BY <2>1, <2>4 DEF Forms
  <2>6. Knows(procs[p])'
    BY <1>1, <1>2, <2>4, <2>5, FormsStay DEF Knows, Points, Updating
  <2> QED BY <1>2, <1>3, <2>3, <2>6, KMoves
<1> QED BY <1>4, <1>5

LEMMA PatchHoldK ==
    ASSUME KInv, IInv', NEW p \in Procs, PatchHold(p)
    PROVE  KInv'
<1>1. Knows(procs[p]) /\ procs[p].at = "patch" /\ End(p)
  BY DEF KInv, PatchHold
<1>2. UNCHANGED <<backend, answer, copies, made, told, lastHold, filed>>
  BY DEF PatchHold, fileVars, history
<1>3. PICK h \in Ids : h = procs[p].hold
  BY <1>1 DEF Knows, KInv, Calendar
<1>4. CASE events[h] = None
  <2>1. Calendar'
    BY <1>2, <1>3, <1>4, CalendarStays DEF PatchHold, KInv, calendarVars
  <2> QED BY <1>1, <1>2, <2>1, KEnds
<1>5. CASE events[h] # None
  <2> DEFINE e == [events[h] EXCEPT !.show = Written(procs[p].held).show,
                                    !.team = procs[p].held.team]
  <2>1. events' = [events EXCEPT ![h] = e]
    BY <1>3, <1>5 DEF PatchHold, KInv, Calendar
  <2>2. procs[p].held \in Forms
    BY <1>1 DEF Knows, Updating
  <2>3. Written(procs[p].held) \in Forms /\ events[h] \in Forms /\ h \in made
    BY <1>5, <2>2, WrittenForm DEF KInv, Calendar
  <2>4. e \in Forms
    BY <2>2, <2>3 DEF Forms
  <2> HIDE DEF e
  <2>5. Calendar'
    BY <1>2, <2>1, <2>3, <2>4, CalendarWrites DEF KInv, Calendar
  <2> QED BY <1>1, <1>2, <2>5, KEnds
<1> QED BY <1>4, <1>5

LEMMA PutHoldK ==
    ASSUME KInv, IInv', NEW p \in Procs, PutHold(p)
    PROVE  KInv'
<1>1. Knows(procs[p]) /\ procs[p].at = "put" /\ End(p)
  BY DEF KInv, PutHold
<1>2. UNCHANGED <<backend, answer, copies, made, told, lastHold, filed>>
  BY DEF PutHold, fileVars, history
<1>3. PICK h \in Ids : h = procs[p].hold /\ h \in made
  BY <1>1 DEF Knows, KInv, Calendar
<1> DEFINE e == ApplyHold(procs[p].held)
<1>4. events' = [events EXCEPT ![h] = e]
  BY <1>3 DEF PutHold
<1>5. procs[p].held \in Forms
  BY <1>1 DEF Knows, Updating
<1>6. e \in Forms
  BY <1>5 DEF Forms, ApplyHold, transparency, Statuses
<1> HIDE DEF e
<1>7. Calendar'
  BY <1>2, <1>3, <1>4, <1>6, CalendarWrites DEF KInv, Calendar
<1> QED BY <1>1, <1>2, <1>7, KEnds

LEMMA FetchHoldK ==
    ASSUME KInv, IInv', NEW p \in Procs, FetchHold(p)
    PROVE  KInv'
<1>1. procs[p].at = "fetch"
      /\ UNCHANGED <<backend, calendarVars, made, told, lastHold, filed>>
  BY DEF FetchHold, fileVars, history
<1>2. Calendar'
  BY <1>1, CalendarStays DEF KInv
<1>3. CASE End(p)
  BY <1>1, <1>2, <1>3, KEnds
<1>4. CASE Goto(p, "put")
  BY <1>1, <1>2, <1>4, KGoes DEF Points, Updating
<1> QED BY <1>3, <1>4 DEF FetchHold

LEMMA FileLeaveK ==
    ASSUME KInv, IInv', NEW p \in Procs, FileLeave(p)
    PROVE  KInv'
<1>1. Knows(procs[p]) /\ procs[p].at = "file" /\ End(p)
  BY DEF KInv, FileLeave
<1>2. UNCHANGED <<backend, calendarVars, made, told, lastHold>>
  BY DEF FileLeave, fileVars, history
<1>3. \A f \in filed' : f.hold \in made
  <2>1. procs[p].hold \in made
    BY <1>1 DEF Knows
  <2> QED BY <2>1 DEF FileLeave, Leave, KInv, Calendar
<1>4. Calendar'
  BY <1>2, <1>3, FormsStay DEF KInv, Calendar, calendarVars
<1> QED BY <1>1, <1>2, <1>4, KEnds

LEMMA DiesK ==
    ASSUME KInv, IInv', NEW p \in Procs, Fail(p) \/ Crash(p)
    PROVE  KInv'
<1>1. End(p) /\ UNCHANGED <<backend, calendarVars, made, told, lastHold, filed>>
  BY DEF Fail, Crash, fileVars, history
<1>2. Calendar'
  BY <1>1, CalendarStays DEF KInv
<1> QED BY <1>1, <1>2, KEnds

LEMMA KOutside ==
    ASSUME KInv, IInv', UNCHANGED <<backend, procs, made>>, Calendar'
    PROVE  KInv'
BY DEF KInv, Knows, Forms, Windows

LEMMA AnswerK ==
    ASSUME KInv, IInv', NEW h \in Ids, NEW a \in Answers, Answer(h, a)
    PROVE  KInv'
<1>1. UNCHANGED <<backend, copies, made, told, lastHold, filed, procs>>
  BY DEF Answer, fileVars, history
<1>2. events[h] \in Forms /\ h \in made
  BY DEF KInv, Calendar, Answer
<1> DEFINE e == [events[h] EXCEPT !.stat = a]
<1>3. e \in Forms
  BY <1>2 DEF Forms
<1>4. events' = events \/ events' = [events EXCEPT ![h] = e]
  BY DEF Answer, KInv, Calendar
<1> HIDE DEF e
<1>5. DOMAIN events' = Ids
  BY <1>4 DEF KInv, Calendar
<1>6. \A g \in Ids : events'[g] # None => g \in made' /\ events'[g] \in Forms'
  BY <1>1, <1>2, <1>3, <1>4, FormsStay DEF KInv, Calendar
<1>7. answer' \in [Ids -> Answers]
  BY DEF Answer, KInv, Calendar
<1>8. Calendar'
  BY <1>1, <1>5, <1>6, <1>7 DEF KInv, Calendar
<1> QED BY <1>1, <1>8, KOutside

LEMMA SyncK ==
    ASSUME KInv, IInv', NEW h \in Ids, NEW stale \in SUBSET copies[h], Sync(h, stale)
    PROVE  KInv'
<1>1. UNCHANGED <<backend, events, answer, made, told, lastHold, filed, procs>>
  BY DEF Sync, fileVars, history
<1>2. copies' \in [Ids -> SUBSET Answers]
  BY DEF Sync, KInv, Calendar
<1>3. Calendar'
  BY <1>1, <1>2, FormsStay DEF KInv, Calendar
<1> QED BY <1>1, <1>3, KOutside

LEMMA StepK ==
    ASSUME KInv, IInv', NEW p \in Procs, Step(p)
    PROVE  KInv'
BY CreateHoldK, SaveStateK, RecordCoverageK, LockLedgerK, StoreLedgerK, DeleteHoldK,
   LoadStateK, ClearStateK, GetHoldK, PromoteHoldK, PatchHoldK, FetchHoldK, PutHoldK,
   FileLeaveK, DiesK DEF Step

LEMMA InitK == Init => KInv
<1> SUFFICES ASSUME Init PROVE KInv
  OBVIOUS
<1>1. Calendar
  BY DEF Init, Calendar, Answers
<1>2. \A p \in Procs : Knows(procs[p])
  BY DEF Init, Knows, Idle, Points, Updating
<1> QED BY <1>1, <1>2, InitInv DEF KInv

LEMMA NextK == KInv /\ [Next]_vars => KInv'
<1> SUFFICES ASSUME KInv, [Next]_vars PROVE KInv'
  OBVIOUS
<1>0. IInv'
  BY NextInv DEF KInv
<1>1. ASSUME NEW p \in Procs, Step(p) \/ Crash(p) PROVE KInv'
  BY <1>0, <1>1, StepK, DiesK
<1>2. ASSUME NEW p \in Procs, NEW owner \in Owners, NEW w \in Accepted(now),
             NEW show \in Shows, Off(p, owner, w, show)
      PROVE  KInv'
  BY <1>0, <1>2, OffK
<1>3. ASSUME NEW p \in Procs, NEW h \in Ids, Cancel(p, h) \/ \E act \in Acts : Act(p, h, act)
      PROVE  KInv'
  BY <1>0, <1>3, CancelK, ActK
<1>4. ASSUME NEW h \in Ids,
             \/ \E a \in Answers : Answer(h, a)
             \/ \E stale \in SUBSET copies[h] : Sync(h, stale)
      PROVE  KInv'
  BY <1>0, <1>4, AnswerK, SyncK
<1>5. CASE Team \/ Tick \/ UNCHANGED vars
  <2>1. UNCHANGED <<backend, calendarVars, made, told, lastHold, filed, procs>>
    BY <1>5 DEF Team, Tick, vars, fileVars, history
  <2> QED BY <1>0, <2>1, CalendarStays, KOutside DEF KInv
<1> QED BY <1>1, <1>2, <1>3, <1>4, <1>5 DEF Next

-----------------------------------------------------------------------------
(* What needs no more than that.                                           *)

\* On a backend that patches no step brings a deleted event back.
LEMMA NothingComesBack ==
    ASSUME KInv, [Next]_vars, NEW h \in made, backend \in {"graph", "google"},
           events[h] = None
    PROVE  events'[h] = None
<1>0. h \in Ids /\ DOMAIN events = Ids
  BY DEF KInv, Calendar
<1>1. ASSUME NEW p \in Procs, Step(p) PROVE events'[h] = None
  <2>1. CASE \E g \in Ids : CreateHold(p, g)
    BY <1>0, <2>1 DEF CreateHold
  <2>2. CASE DeleteHold(p)
    BY <1>0, <2>2 DEF DeleteHold
  <2>3. CASE PatchHold(p)
    BY <1>0, <2>3 DEF PatchHold
  <2>4. CASE PutHold(p)
    BY <2>4 DEF PutHold, KInv, Knows, Patches
  <2>5. CASE UNCHANGED events
    BY <2>5
  <2> QED BY <1>1, <2>1, <2>2, <2>3, <2>4, <2>5 DEF Step, SaveState, RecordCoverage,
       LockLedger, StoreLedger, LoadState, ClearState, GetHold, PromoteHold, FetchHold,
       FileLeave, Fail, calendarVars
<1>2. ASSUME NEW g \in Ids, NEW a \in Answers, Answer(g, a) PROVE events'[h] = None
  BY <1>0, <1>2 DEF Answer
<1>3. ASSUME NEW p \in Procs, Crash(p) PROVE events'[h] = None
  BY <1>3 DEF Crash, calendarVars
<1>4. ASSUME NEW p \in Procs, NEW owner, NEW w, NEW show, Off(p, owner, w, show)
      PROVE  events'[h] = None
  BY <1>4 DEF Off, calendarVars
<1>5. ASSUME NEW p \in Procs, NEW g \in Ids, NEW act, Cancel(p, g) \/ Act(p, g, act)
      PROVE  events'[h] = None
  BY <1>5 DEF Cancel, Act, calendarVars
<1>6. ASSUME NEW g \in Ids, NEW stale, Sync(g, stale) PROVE events'[h] = None
  BY <1>6 DEF Sync
<1>7. CASE Team \/ Tick \/ UNCHANGED vars
  BY <1>7 DEF Team, Tick, vars, calendarVars
<1> QED BY <1>1, <1>2, <1>3, <1>4, <1>5, <1>6, <1>7 DEF Next

\* An event that was deleted on Graph or Google stays deleted, whatever updates
\* were under way and whoever died (DeleteHold, UpdateHold).
THEOREM DeletedIsGone == Spec => DeletedStaysGone
<1>1. KInv /\ [Next]_vars =>
        \A h \in made : backend \in {"graph", "google"} /\ events[h] = None => events'[h] = None
  BY NothingComesBack
<1>2. KInv /\ [Next]_vars =>
        [\A h \in made : backend \in {"graph", "google"} /\ events[h] = None
                            => events'[h] = None]_vars
  BY <1>1
<1> QED BY InitK, NextK, <1>2, PTL DEF Spec, DeletedStaysGone

\* Only a command's own steps move it.
LEMMA OnlyGets ==
    ASSUME KInv, [Next]_vars, NEW p \in Procs,
           procs[p].at = "get", procs'[p].at \in {"team", "file"}
    PROVE  GetHold(p)
<1>0. DOMAIN procs = Procs
  BY DEF KInv, IInv, Commands
<1>1. procs'[p] # procs[p] /\ procs'[p] # Idle
  BY DEF Idle
<1>2. ASSUME NEW q \in Procs, Step(q) PROVE GetHold(p)
  <2>1. q = p
    BY <1>0, <1>1, <1>2 DEF Step, CreateHold, SaveState, RecordCoverage, LockLedger,
       StoreLedger, DeleteHold, LoadState, ClearState, GetHold, PromoteHold, PatchHold,
       FetchHold, PutHold, FileLeave, Fail, End, Goto, Cancelled
  <2> QED BY <1>0, <1>1, <1>2, <2>1 DEF Step, CreateHold, SaveState, RecordCoverage,
       LockLedger, StoreLedger, DeleteHold, LoadState, ClearState, GetHold, PromoteHold,
       PatchHold, FetchHold, PutHold, FileLeave, Fail, End
<1>3. ASSUME NEW q \in Procs PROVE ~ Crash(q)
  BY <1>0, <1>1 DEF Crash, End
<1>4. ASSUME NEW q \in Procs, NEW owner, NEW w, NEW show PROVE ~ Off(q, owner, w, show)
  BY <1>0, <1>1 DEF Off, Start, Idle
<1>5. ASSUME NEW q \in Procs, NEW h, NEW act PROVE ~ Cancel(q, h) /\ ~ Act(q, h, act)
  BY <1>0, <1>1 DEF Cancel, Act, Start, Idle
<1>6. ASSUME NEW h, NEW a PROVE ~ Answer(h, a) /\ ~ Sync(h, a)
  BY <1>1 DEF Answer, Sync
<1>7. ~ Team /\ ~ Tick /\ ~ UNCHANGED vars
  BY <1>1 DEF Team, Tick, vars
<1> QED BY <1>2, <1>3, <1>4, <1>5, <1>6, <1>7 DEF Next

LEMMA DeclinesCount ==
    ASSUME KInv, NEW p \in Procs, GetHold(p), procs'[p].at \in {"team", "file"},
           procs[p].act # "force"
    PROVE  "declined" \notin copies[procs[p].hold] \/ events[procs[p].hold].stat = "accepted"
<1>1. DOMAIN procs = Procs /\ Knows(procs[p]) /\ procs[p].at = "get"
  BY DEF KInv, IInv, Commands, GetHold
<1>2. PICK h \in Ids : h = procs[p].hold
  BY <1>1 DEF Knows, KInv, Calendar
<1>3. events[h] # None /\ Reported(h).stat = "accepted"
  BY <1>1, <1>2 DEF GetHold, End, Idle
<1>4. events[h] \in Forms /\ copies[h] \in SUBSET Answers
  BY <1>3 DEF KInv, Calendar
<1>5. Read(events[h]) \in Forms /\ Read(events[h]).stat = events[h].stat
  BY <1>4, ReadForm
<1>6. CASE backend = "icloud" /\ copies[h] # {}
  <2> DEFINE read == Read(events[h])
             stat == Strongest(copies[h])
  <2>1. Reported(h) = [read EXCEPT !.stat = stat]
    BY <1>6 DEF Reported
  <2>2. read \in Forms
    BY <1>5
  <2> HIDE DEF read, stat
  <2>3. stat = "accepted"
    BY <1>3, <2>1, <2>2 DEF Forms
  <2> QED BY <1>2, <1>4, <2>3, DeclinedIsStrongest DEF stat
<1>7. CASE backend # "icloud"
  BY <1>2, <1>3, <1>5, <1>7 DEF Reported
<1> QED BY <1>2, <1>6, <1>7

\* Whatever the copies of Calendar.app say, and whoever writes meanwhile, no
\* command without --force acts on a hold that one of them has as declined,
\* except where the event itself says accepted (responseRank, GetHold).
THEOREM DeclinesAreHeard == Spec => NoDeclineOverruled
<1> DEFINE A == \A p \in Procs :
        procs[p].at = "get" /\ procs'[p].at \in {"team", "file"} /\ procs[p].act # "force" =>
            LET h == procs[p].hold
            IN  "declined" \notin copies[h] \/ events[h].stat = "accepted"
<1>1. KInv /\ [Next]_vars => A
  BY OnlyGets, DeclinesCount
<1>2. KInv /\ [Next]_vars => [A]_vars
  BY <1>1
<1> QED BY InitK, NextK, <1>2, PTL DEF Spec, NoDeclineOverruled

-----------------------------------------------------------------------------
(* One window and one status for a hold, wherever they are written.        *)

LEMMA LooksStay == ASSUME backend' = backend PROVE Looks' = Looks
BY DEF Looks

LEMMA HoldsAreNames == ASSUME KInv, NEW h \in made PROVE h \in Ids /\ h # None
BY HoldsAssumption DEF KInv, Calendar

\* A step that makes no hold keeps the window and the status of each.
LEMMA AKeeps ==
    ASSUME AInv, KInv', backend' = backend, made' = made,
           \A h \in made : \A w \in Windows, s \in Looks : Same(h, w, s) => Same(h, w, s)'
    PROVE  AInv'
<1> SUFFICES ASSUME NEW h \in made
             PROVE  \E w \in Windows', s \in Looks' : Same(h, w, s)'
  BY DEF AInv
<1>1. PICK w \in Windows, s \in Looks : Same(h, w, s)
  BY DEF AInv
<1> QED BY <1>1, LooksStay, FormsStay

\* What one command's step has to show for one hold.
LEMMA SameMoves ==
    ASSUME KInv, NEW p \in Procs, NEW h \in made, NEW w, NEW s, Same(h, w, s),
           \A q \in Procs : q # p => procs'[q] = procs[q], backend' = backend,
           events'[h] = events[h] \/ events'[h] = None
                \/ (events'[h].window = w /\ events'[h].show = s),
           \A f \in filed' : f \in filed \/ (f.hold = h /\ backend # "graph" => f = Leave(h, w)),
           procs'[p].hold = h => Agrees(procs[p], w, s)'
    PROVE  Same(h, w, s)'
<1>1. events'[h] # None => events'[h].window = w /\ events'[h].show = s
  BY DEF Same
<1>2. ASSUME NEW q \in Procs, procs'[q].hold = h PROVE Agrees(procs[q], w, s)'
  <2>1. CASE q = p
    BY <1>2, <2>1
  <2>2. CASE q # p
    <3>1. procs'[q] = procs[q] /\ Agrees(procs[q], w, s)
      BY <1>2, <2>2 DEF Same
    <3> QED BY <3>1 DEF Agrees, Written
  <2> QED BY <2>1, <2>2
<1>3. \A f \in filed' : f.hold = h /\ backend' # "graph" => f = Leave(h, w)
  BY DEF Same
<1> QED BY <1>1, <1>2, <1>3 DEF Same

LEMMA SameEnds ==
    ASSUME KInv, NEW p \in Procs, NEW h \in made, NEW w, NEW s, Same(h, w, s),
           End(p), backend' = backend,
           events'[h] = events[h] \/ events'[h] = None
                \/ (events'[h].window = w /\ events'[h].show = s),
           \A f \in filed' : f \in filed \/ (f.hold = h /\ backend # "graph" => f = Leave(h, w))
    PROVE  Same(h, w, s)'
<1>1. procs'[p] = Idle /\ \A q \in Procs : q # p => procs'[q] = procs[q]
  BY DEF End, KInv, IInv, Commands
<1>2. procs'[p].hold # h
  BY <1>1, HoldsAreNames DEF Idle
<1> QED BY <1>1, <1>2, SameMoves

\* A command that goes on with the hold as it has it.
LEMMA SameGoes ==
    ASSUME KInv, NEW p \in Procs, NEW h \in made, NEW w, NEW s, Same(h, w, s),
           NEW point, Goto(p, point), point \in Updating => procs[p].at \in Updating,
           backend' = backend, filed' = filed,
           events'[h] = events[h] \/ events'[h] = None
    PROVE  Same(h, w, s)'
<1>1. DOMAIN procs = Procs /\ DOMAIN procs[p] = Fields
  BY DEF KInv, IInv, Commands, Sound
<1>2. /\ \A q \in Procs : q # p => procs'[q] = procs[q]
      /\ procs'[p].at = point /\ procs'[p].hold = procs[p].hold
      /\ procs'[p].held = procs[p].held /\ procs'[p].act = procs[p].act
  BY <1>1 DEF Goto, Fields
<1>3. ASSUME procs'[p].hold = h PROVE Agrees(procs[p], w, s)'
  <2>1. Agrees(procs[p], w, s)
    BY <1>2, <1>3 DEF Same
  <2> QED BY <1>2, <2>1 DEF Agrees, Written
<1> QED BY <1>2, <1>3, SameMoves

LEMMA CreateHoldA ==
    ASSUME AInv, KInv', NEW p \in Procs, NEW g \in Ids, CreateHold(p, g)
    PROVE  AInv'
<1> DEFINE event == Written(procs[p].held)
           hold == IF backend \in Patches THEN Read(event) ELSE procs[p].held
<1>0. KInv /\ g \notin made
  BY DEF AInv, CreateHold
<1>1. /\ procs[p].at = "create" /\ DOMAIN procs = Procs /\ DOMAIN procs[p] = Fields
      /\ procs[p].act = "off" /\ procs[p].held \in Forms
      /\ \E w \in Windows, show \in Shows : procs[p].held = Event(w, show)
  BY <1>0 DEF KInv, IInv, Commands, Sound, Knows, CreateHold
<1>2. PICK w \in Windows : procs[p].held.window = w
  BY <1>1, ZeroIsForm
<1>3. event \in Forms /\ event.window = w /\ event.show \in Looks
  BY <1>1, <1>2, WrittenForm, WrittenLooks
<1>4. backend # "graph" => hold.window = w
  BY <1>2, <1>3, ReadForm
<1> HIDE DEF event, hold
<1>5. /\ events' = [events EXCEPT ![g] = event]
      /\ made' = made \cup {g} /\ UNCHANGED <<backend, filed>>
  BY DEF CreateHold, event
<1>6. End(p) \/ procs' = [procs EXCEPT ![p].at = "save", ![p].hold = g, ![p].held = hold]
  BY DEF CreateHold, event, hold
<1>7. /\ \A q \in Procs : q # p => procs'[q] = procs[q]
      /\ \/ procs'[p] = Idle
         \/ procs'[p].at = "save" /\ procs'[p].hold = g /\ procs'[p].held = hold
  BY <1>1, <1>6 DEF End, Fields
<1>8. ASSUME NEW h \in made, NEW v \in Windows, NEW s \in Looks, Same(h, v, s)
      PROVE  Same(h, v, s)'
  <2>1. h # g /\ h # None /\ events'[h] = events[h]
    BY <1>0, <1>5, HoldsAreNames DEF KInv, Calendar
  <2>2. procs'[p].hold # h
    BY <1>7, <2>1 DEF Idle
  <2> QED BY <1>0, <1>5, <1>7, <1>8, <2>1, <2>2, SameMoves
<1>9. PICK s \in Looks : s = event.show
  BY <1>3
<1>10. Same(g, w, s)'
  <2>1. events'[g] = event
    BY <1>0, <1>5 DEF KInv, Calendar
  <2>2. ASSUME NEW q \in Procs, procs'[q].hold = g PROVE Agrees(procs[q], w, s)'
    <3>1. q = p
      <4>1. g # None
        BY HoldsAssumption
      <4>2. procs[q].hold \in made \cup {None}
        BY <1>0 DEF KInv, Knows
      <4> QED BY <1>0, <1>7, <2>2, <4>1, <4>2
    <3>2. g # None
      BY HoldsAssumption
    <3>3. procs'[p].at = "save" /\ procs'[p].held = hold
      BY <1>7, <2>2, <3>1, <3>2 DEF Idle
    <3> QED BY <1>4, <1>5, <3>1, <3>3 DEF Agrees, Updating
  <2>3. \A f \in filed' : f.hold # g
    BY <1>0, <1>5 DEF KInv, Calendar
  <2> QED BY <1>3, <1>9, <2>1, <2>2, <2>3 DEF Same
<1>11. ASSUME NEW h \in made'
       PROVE  \E v \in Windows', look \in Looks' : Same(h, v, look)'
  <2>1. Looks' = Looks /\ Windows' = Windows
    BY <1>5, LooksStay, FormsStay
  <2>2. CASE h = g
    BY <1>10, <2>1, <2>2
  <2>3. CASE h \in made
    <3>1. PICK v \in Windows, look \in Looks : Same(h, v, look)
      BY <2>3 DEF AInv
    <3> QED BY <1>8, <2>1, <2>3, <3>1
  <2> QED BY <1>5, <2>2, <2>3
<1> QED BY <1>11 DEF AInv

\* Steps of a command that ends, goes on, or starts.
LEMMA QuietA ==
    ASSUME KInv, NEW p \in Procs, NEW h \in made, NEW w, NEW s, Same(h, w, s),
           \/ SaveState(p) \/ RecordCoverage(p) \/ LockLedger(p) \/ StoreLedger(p)
           \/ LoadState(p) \/ ClearState(p) \/ FetchHold(p) \/ Fail(p) \/ Crash(p)
           \/ DeleteHold(p)
    PROVE  Same(h, w, s)'
<1>0. h \in Ids /\ DOMAIN events = Ids /\ DOMAIN procs = Procs /\ DOMAIN procs[p] = Fields
  BY HoldsAreNames DEF KInv, Calendar, IInv, Commands, Sound
<1>1. UNCHANGED <<backend, filed>> /\ (events'[h] = events[h] \/ events'[h] = None)
  BY <1>0 DEF SaveState, RecordCoverage, LockLedger, StoreLedger, LoadState, ClearState,
     FetchHold, Fail, Crash, DeleteHold, calendarVars
<1>2. CASE End(p)
  BY <1>1, <1>2, SameEnds
<1>3. CASE \E point \in {"record", "lock", "load", "clear"} : Goto(p, point)
  BY <1>1, <1>3, SameGoes DEF Updating
<1>4. CASE FetchHold(p) /\ Goto(p, "put")
  BY <1>1, <1>4, SameGoes DEF Updating, FetchHold
<1>5. CASE LockLedger(p)
  <2> DEFINE kept == Kept(p)
  <2>1. procs' = [procs EXCEPT ![p].at = "store", ![p].kept = kept]
    BY <1>5 DEF LockLedger
  <2> HIDE DEF kept
  <2>2. /\ \A q \in Procs : q # p => procs'[q] = procs[q]
        /\ procs'[p].at = "store" /\ procs'[p].hold = procs[p].hold
        /\ procs'[p].held = procs[p].held /\ procs'[p].act = procs[p].act
    BY <1>0, <2>1 DEF Fields
  <2>3. ASSUME procs'[p].hold = h PROVE Agrees(procs[p], w, s)'
    <3>1. Agrees(procs[p], w, s)
      BY <2>2, <2>3 DEF Same
    <3> QED BY <1>1, <2>2, <3>1 DEF Agrees, Updating
  <2> QED BY <1>1, <2>2, <2>3, SameMoves
<1> QED BY <1>2, <1>3, <1>4, <1>5 DEF SaveState, RecordCoverage, StoreLedger, LoadState,
     ClearState, FetchHold, Fail, Crash, DeleteHold, Cancelled

\* A command starts with what it was typed with, beside the others.
LEMMA StartsAs ==
    ASSUME KInv, NEW p \in Procs, NEW command, Start(p, command)
    PROVE  procs'[p] = command /\ \A q \in Procs : q # p => procs'[q] = procs[q]
<1>1. DOMAIN procs = Procs
  BY DEF KInv, IInv, Commands
<1> QED BY <1>1 DEF Start

LEMMA CancelStarts ==
    ASSUME KInv, NEW p \in Procs, NEW g, Cancel(p, g)
    PROVE  /\ \A q \in Procs : q # p => procs'[q] = procs[q]
           /\ procs'[p].at = "delete" /\ procs'[p].act = "cancel" /\ procs'[p].crowd = FALSE
<1> DEFINE command == [Idle EXCEPT !.at = "delete", !.act = "cancel", !.hold = g]
<1>1. command.at = "delete" /\ command.act = "cancel" /\ command.crowd = FALSE
  BY DEF Idle
<1>2. Start(p, command)
  BY DEF Cancel
<1> HIDE DEF command
<1> QED BY <1>1, <1>2, StartsAs

LEMMA ActStarts ==
    ASSUME KInv, NEW p \in Procs, NEW g, NEW act, Act(p, g, act)
    PROVE  /\ \A q \in Procs : q # p => procs'[q] = procs[q]
           /\ procs'[p].at = "get" /\ procs'[p].act = act /\ procs'[p].crowd = FALSE
<1> DEFINE command == [Idle EXCEPT !.at = "get", !.act = act, !.hold = g]
<1>1. command.at = "get" /\ command.act = act /\ command.crowd = FALSE
  BY DEF Idle
<1>2. Start(p, command)
  BY DEF Act
<1> HIDE DEF command
<1> QED BY <1>1, <1>2, StartsAs

LEMMA OffStarts ==
    ASSUME KInv, NEW p \in Procs, NEW owner, NEW v, NEW show, Off(p, owner, v, show)
    PROVE  /\ \A q \in Procs : q # p => procs'[q] = procs[q]
           /\ procs'[p].at = "create" /\ procs'[p].hold = None
<1>1. PICK crowd, warned :
        Start(p, [Idle EXCEPT !.at = "create", !.act = "off", !.owner = owner,
                              !.held = Event(v, show), !.crowd = crowd, !.warned = warned])
  BY DEF Off
<1> DEFINE command == [Idle EXCEPT !.at = "create", !.act = "off", !.owner = owner,
                              !.held = Event(v, show), !.crowd = crowd, !.warned = warned]
<1>2. command.at = "create" /\ command.hold = None
  BY DEF Idle
<1>3. Start(p, command)
  BY <1>1
<1> HIDE DEF command
<1> QED BY <1>2, <1>3, StartsAs

\* A command that starts has no hold, or is not to record one.
LEMMA CommandStarts ==
    ASSUME KInv, NEW p \in Procs,
           \/ \E owner \in Owners, v \in Accepted(now), show \in Shows : Off(p, owner, v, show)
           \/ \E g \in Ids : Cancel(p, g) \/ \E act \in Acts : Act(p, g, act)
    PROVE  /\ \A q \in Procs : q # p => procs'[q] = procs[q]
           /\ procs'[p].at \in {"create", "delete", "get"}
           /\ procs'[p].hold = None \/ procs'[p].act \in {"cancel"} \cup Acts
<1>1. CASE \E owner \in Owners, v \in Accepted(now), show \in Shows : Off(p, owner, v, show)
  BY <1>1, OffStarts
<1>2. CASE \E g \in Ids : Cancel(p, g)
  BY <1>2, CancelStarts
<1>3. CASE \E g \in Ids : \E act \in Acts : Act(p, g, act)
  BY <1>3, ActStarts
<1> QED BY <1>1, <1>2, <1>3

LEMMA StartA ==
    ASSUME KInv, NEW p \in Procs, NEW h \in made, NEW w, NEW s, Same(h, w, s),
           \/ \E owner \in Owners, v \in Accepted(now), show \in Shows : Off(p, owner, v, show)
           \/ \E g \in Ids : Cancel(p, g) \/ \E act \in Acts : Act(p, g, act)
    PROVE  Same(h, w, s)'
<1>1. UNCHANGED <<backend, filed, events>>
  BY DEF Off, Cancel, Act, calendarVars
<1>2. /\ \A q \in Procs : q # p => procs'[q] = procs[q]
      /\ procs'[p].at \in {"create", "delete", "get"}
      /\ procs'[p].hold = None \/ procs'[p].act \in {"cancel"} \cup Acts
  BY CommandStarts
<1>3. procs'[p].hold = h => Agrees(procs[p], w, s)'
  BY <1>2, HoldsAreNames DEF Agrees, Acts, Updating
<1> QED BY <1>1, <1>2, <1>3, SameMoves

LEMMA GetHoldA ==
    ASSUME KInv, KInv', NEW p \in Procs, NEW h \in made, NEW w, NEW s \in Looks, Same(h, w, s),
           GetHold(p)
    PROVE  Same(h, w, s)'
<1>1. Knows(procs[p]) /\ procs[p].at = "get" /\ DOMAIN procs = Procs
      /\ DOMAIN procs[p] = Fields
  BY DEF KInv, IInv, Commands, Sound, GetHold
<1>2. UNCHANGED <<backend, events, filed>>
  BY DEF GetHold, calendarVars
<1>3. CASE End(p)
  BY <1>2, <1>3, SameEnds
<1>4. CASE ~ End(p)
  <2>1. PICK g \in Ids : g = procs[p].hold
    BY <1>1 DEF Knows, KInv, Calendar
  <2> DEFINE read == Reported(g)
             point == IF procs[p].act = "leave" THEN "file" ELSE "team"
  <2>2. events[g] # None /\ procs' = [procs EXCEPT ![p].held = read, ![p].at = point]
    BY <1>4, <2>1 DEF GetHold
  <2>3. /\ backend # "graph" => read.window = events[g].window
        /\ events[g].show \in Looks => Written(read).show = events[g].show
    BY <2>2, ReportedForm DEF KInv
  <2>r. PICK r \in Forms : r = read
    BY <2>2, ReportedForm DEF KInv
  <2> HIDE DEF read
  <2>4. /\ \A q \in Procs : q # p => procs'[q] = procs[q]
        /\ procs'[p].hold = procs[p].hold
        /\ procs'[p].held = read /\ procs'[p].act = procs[p].act
    BY <1>1, <2>2 DEF Fields
  <2>5. ASSUME procs'[p].hold = h PROVE Agrees(procs[p], w, s)'
    <3>1. h = g
      BY <2>1, <2>4, <2>5
    <3>2. events[h].window = w /\ events[h].show = s
      BY <2>2, <3>1 DEF Same
    <3>3. procs'[p].act # "off"
      BY <1>1, <2>4 DEF Knows, Acts
    <3>4. Written(r).show = s
      BY <2>3, <2>r, <3>1, <3>2
    <3>5. Written(procs[p].held)'.show = s
      BY <1>2, <2>4, <2>r, <3>4 DEF Written
    <3> QED BY <1>2, <2>3, <2>4, <3>1, <3>2, <3>3, <3>5 DEF Agrees
  <2> QED BY <1>2, <2>4, <2>5, SameMoves
<1> QED BY <1>3, <1>4

LEMMA PromoteHoldA ==
    ASSUME KInv, NEW p \in Procs, NEW h \in made, NEW w, NEW s, Same(h, w, s), PromoteHold(p)
    PROVE  Same(h, w, s)'
<1>1. Knows(procs[p]) /\ procs[p].at = "team" /\ DOMAIN procs = Procs
      /\ DOMAIN procs[p] = Fields
  BY DEF KInv, IInv, Commands, Sound, PromoteHold
<1>2. UNCHANGED <<backend, events, filed>>
  BY DEF PromoteHold, calendarVars
<1>3. CASE End(p)
  BY <1>2, <1>3, SameEnds
<1>4. CASE ~ End(p)
  <2> DEFINE held == procs[p].held
             point == IF backend \in Patches THEN "patch" ELSE "fetch"
  <2>1. held \in Forms
    BY <1>1 DEF Knows, Updating
  <2>2. procs' = [procs EXCEPT ![p].held.team = TRUE, ![p].at = point]
    BY <1>4 DEF PromoteHold
  <2>3. /\ \A q \in Procs : q # p => procs'[q] = procs[q]
        /\ procs'[p].hold = procs[p].hold
        /\ procs'[p].held = [held EXCEPT !.team = TRUE] /\ procs'[p].act = procs[p].act
    BY <1>1, <2>2 DEF Fields
  <2>4. procs'[p].held.window = held.window /\ procs'[p].held.show = held.show
        /\ procs'[p].held \in Forms
    BY <2>1, <2>3 DEF Forms
  <2>5. ASSUME procs'[p].hold = h PROVE Agrees(procs[p], w, s)'
    <3>1. Agrees(procs[p], w, s)
      BY <2>3, <2>5 DEF Same
    <3>2. Written(procs[p].held)'.show = Written(held).show
      BY <1>2, <2>1, <2>4 DEF Written, ToGraphEvent, ToGoogleEvent, ApplyHold, Forms
    <3> QED BY <1>1, <1>2, <2>3, <2>4, <3>1, <3>2 DEF Agrees, Updating
  <2> QED BY <1>2, <2>3, <2>5, SameMoves
<1> QED BY <1>3, <1>4

LEMMA PatchHoldA ==
    ASSUME KInv, NEW p \in Procs, NEW h \in made, NEW w, NEW s, Same(h, w, s), PatchHold(p)
    PROVE  Same(h, w, s)'
<1>1. procs[p].at = "patch" /\ End(p) /\ UNCHANGED <<backend, filed>>
  BY DEF PatchHold
<1>2. h \in Ids /\ DOMAIN events = Ids /\ (events[h] # None => events[h] \in Forms)
  BY HoldsAreNames DEF KInv, Calendar
<1>3. events'[h] = events[h] \/ (events'[h].window = w /\ events'[h].show = s)
  <2>1. CASE procs[p].hold = h /\ events[h] # None
    <3> DEFINE show == Written(procs[p].held).show
               team == procs[p].held.team
    <3>1. events'[h] = [events[h] EXCEPT !.show = show, !.team = team]
      BY <1>2, <2>1 DEF PatchHold
    <3>2. show = s /\ events[h].window = w
      BY <1>1, <2>1 DEF Same, Agrees, Updating
    <3> HIDE DEF show, team
    <3> QED BY <1>2, <2>1, <3>1, <3>2 DEF Forms
  <2>2. CASE ~ (procs[p].hold = h /\ events[h] # None)
    BY <1>2, <2>2 DEF PatchHold
  <2> QED BY <2>1, <2>2
<1> QED BY <1>1, <1>3, SameEnds

LEMMA PutHoldA ==
    ASSUME KInv, NEW p \in Procs, NEW h \in made, NEW w, NEW s, Same(h, w, s), PutHold(p)
    PROVE  Same(h, w, s)'
<1>1. procs[p].at = "put" /\ End(p) /\ UNCHANGED <<backend, filed>>
  BY DEF PutHold
<1>2. h \in Ids /\ DOMAIN events = Ids
  BY HoldsAreNames DEF KInv, Calendar
<1>3. procs[p].held \in Forms /\ backend \notin Patches
  BY <1>1 DEF KInv, Knows, Updating
<1>4. events'[h] = events[h] \/ (events'[h].window = w /\ events'[h].show = s)
  <2>1. CASE procs[p].hold = h
    <3> DEFINE e == ApplyHold(procs[p].held)
    <3>1. events'[h] = e
      BY <1>2, <2>1 DEF PutHold
    <3>2. e = Written(procs[p].held) /\ backend # "graph"
      BY <1>3 DEF Written, Patches
    <3>3. procs[p].held.window = w /\ e.show = s
      BY <1>1, <2>1, <3>2 DEF Same, Agrees, Updating
    <3>4. e.window = procs[p].held.window
      BY <1>3, <3>2, WrittenForm
    <3> QED BY <3>1, <3>3, <3>4
  <2>2. CASE procs[p].hold # h
    BY <1>2, <2>2 DEF PutHold
  <2> QED BY <2>1, <2>2
<1> QED BY <1>1, <1>4, SameEnds

LEMMA FileLeaveA ==
    ASSUME KInv, NEW p \in Procs, NEW h \in made, NEW w, NEW s, Same(h, w, s), FileLeave(p)
    PROVE  Same(h, w, s)'
<1>1. procs[p].at = "file" /\ End(p) /\ UNCHANGED <<backend, events>>
      /\ filed' = filed \cup {Leave(procs[p].hold, procs[p].held.window)}
  BY DEF FileLeave, calendarVars
<1>2. Leave(procs[p].hold, procs[p].held.window).hold = procs[p].hold
  BY DEF Leave
<1>3. procs[p].hold = h /\ backend # "graph" => procs[p].held.window = w
  BY <1>1 DEF Same, Agrees, Updating
<1>4. \A f \in filed' : f \in filed \/ (f.hold = h /\ backend # "graph" => f = Leave(h, w))
  BY <1>1, <1>2, <1>3
<1> QED BY <1>1, <1>4, SameEnds

LEMMA OutsideA ==
    ASSUME KInv, NEW h \in made, NEW w, NEW s, Same(h, w, s),
           \/ \E g \in Ids : \/ \E a \in Answers : Answer(g, a)
                             \/ \E stale \in SUBSET copies[g] : Sync(g, stale)
           \/ Team \/ Tick \/ UNCHANGED vars
    PROVE  Same(h, w, s)'
<1>1. UNCHANGED <<backend, procs, filed>>
  BY DEF Answer, Sync, Team, Tick, vars
<1>2. h \in Ids /\ DOMAIN events = Ids /\ (events[h] # None => events[h] \in Forms)
  BY HoldsAreNames DEF KInv, Calendar
<1>3. \/ events'[h] = events[h]
      \/ events[h] # None /\ events'[h].window = events[h].window
            /\ events'[h].show = events[h].show
  BY <1>2 DEF Answer, Sync, Team, Tick, vars, calendarVars, Forms
<1> QED BY <1>1, <1>3 DEF Same, Agrees, Written

LEMMA StepA ==
    ASSUME KInv, KInv', NEW p \in Procs, NEW h \in made, NEW w, NEW s \in Looks, Same(h, w, s),
           Step(p) \/ Crash(p), ~ \E g \in Ids : CreateHold(p, g)
    PROVE  Same(h, w, s)'
BY QuietA, GetHoldA, PromoteHoldA, PatchHoldA, PutHoldA, FileLeaveA DEF Step

LEMMA InitA == Init => AInv
BY InitK DEF Init, AInv

LEMMA NextA == AInv /\ [Next]_vars => AInv'
<1> SUFFICES ASSUME AInv, [Next]_vars PROVE AInv'
  OBVIOUS
<1>0. KInv /\ KInv'
  BY NextK DEF AInv
<1>1. CASE \E p \in Procs : \E g \in Ids : CreateHold(p, g)
  BY <1>0, <1>1, CreateHoldA
<1>2. CASE ~ \E p \in Procs : \E g \in Ids : CreateHold(p, g)
  <2>1. UNCHANGED <<backend, made>>
    <3>1. ASSUME NEW p \in Procs, Step(p) PROVE UNCHANGED <<backend, made>>
      BY <1>2, <3>1 DEF Step, SaveState, RecordCoverage, LockLedger, StoreLedger, DeleteHold,
         LoadState, ClearState, GetHold, PromoteHold, PatchHold, FetchHold, PutHold,
         FileLeave, Fail, history
    <3>2. ASSUME NEW p \in Procs, Crash(p) PROVE UNCHANGED <<backend, made>>
      BY <3>2 DEF Crash, history
    <3>3. ASSUME NEW p \in Procs,
                 \/ \E owner, v, show : Off(p, owner, v, show)
                 \/ \E g : Cancel(p, g) \/ \E act : Act(p, g, act)
          PROVE  UNCHANGED <<backend, made>>
      BY <3>3 DEF Off, Cancel, Act, history
    <3>4. CASE \/ \E h \in Ids : (\E a : Answer(h, a)) \/ \E stale : Sync(h, stale)
               \/ Team \/ Tick \/ UNCHANGED vars
      BY <3>4 DEF Answer, Sync, Team, Tick, vars, history
    <3> QED BY <3>1, <3>2, <3>3, <3>4 DEF Next
  <2>2. ASSUME NEW h \in made, NEW w \in Windows, NEW s \in Looks, Same(h, w, s)
        PROVE  Same(h, w, s)'
    <3>1. ASSUME NEW p \in Procs, Step(p) \/ Crash(p) PROVE Same(h, w, s)'
      BY <1>0, <1>2, <2>2, <3>1, StepA
    <3>2. ASSUME NEW p \in Procs,
                 \/ \E owner \in Owners, v \in Accepted(now), show \in Shows :
                        Off(p, owner, v, show)
                 \/ \E g \in Ids : Cancel(p, g) \/ \E act \in Acts : Act(p, g, act)
          PROVE  Same(h, w, s)'
      BY <1>0, <2>2, <3>2, StartA
    <3>3. CASE \/ \E g \in Ids : \/ \E a \in Answers : Answer(g, a)
                                 \/ \E stale \in SUBSET copies[g] : Sync(g, stale)
               \/ Team \/ Tick \/ UNCHANGED vars
      BY <1>0, <2>2, <3>3, OutsideA
    <3> QED BY <3>1, <3>2, <3>3 DEF Next
  <2> QED BY <1>0, <2>1, <2>2, AKeeps
<1> QED BY <1>1, <1>2

\* However answers, commands and daemons overlap, leave that was filed covers
\* each day of its hold, on every backend that returns a hold's window, for
\* every window that can be typed (fileLeave).
THEOREM LeaveIsFiledWhole == Spec => []LeaveCoversHold
<1>1. AInv => LeaveCoversHold
  <2> SUFFICES ASSUME AInv, backend # "graph", NEW f \in filed, events[f.hold] # None
               PROVE  DaysOf(events[f.hold].window) \subseteq f.first..f.last
    BY DEF LeaveCoversHold
  <2>1. PICK h \in made : h = f.hold
    BY DEF AInv, KInv, Calendar
  <2>2. PICK w \in Windows, s \in Looks : Same(h, w, s)
    BY DEF AInv
  <2>3. events[h].window = w /\ f = Leave(h, w)
    BY <2>1, <2>2 DEF Same
  <2>4. f.first = Day(w.start) /\ f.last = Day(w.end)
    BY <2>3 DEF Leave
  <2> QED BY <2>1, <2>3, <2>4 DEF DaysOf
<1> QED BY InitA, NextA, <1>1, PTL DEF Spec

\* A step that writes an event writes the window and the status it has.
LEMMA OnlyTheTeam ==
    ASSUME AInv, AInv', [Next]_vars, NEW h \in Ids, events[h] # None, events'[h] # None
    PROVE  /\ events'[h].window = events[h].window
           /\ events'[h].show = events[h].show
           /\ events[h].team => events'[h].team
<1>0. KInv /\ h \in made /\ DOMAIN events = Ids /\ events[h] \in Forms
  BY DEF AInv, KInv, Calendar
<1>1. PICK w \in Windows, s \in Looks : Same(h, w, s)
  BY <1>0 DEF AInv
<1>2. events[h].window = w /\ events[h].show = s
  BY <1>1 DEF Same
<1>3. CASE events'[h] = events[h]
  BY <1>3
<1>4. ASSUME NEW p \in Procs, PatchHold(p), events'[h] # events[h]
      PROVE  /\ events'[h].window = w /\ events'[h].show = s
             /\ events[h].team => events'[h].team
  <2>1. procs[p].at = "patch" /\ procs[p].hold = h
    BY <1>0, <1>4 DEF PatchHold
  <2> DEFINE show == Written(procs[p].held).show
             team == procs[p].held.team
  <2>2. events'[h] = [events[h] EXCEPT !.show = show, !.team = team]
    BY <1>0, <1>4, <2>1 DEF PatchHold
  <2>3. show = s
    BY <1>1, <2>1 DEF Same, Agrees, Updating
  <2>4. team = TRUE
    BY <1>0, <2>1 DEF KInv, Knows
  <2> HIDE DEF show, team
  <2>5. events'[h].window = w /\ events'[h].show = s /\ events'[h].team = TRUE
    BY <1>0, <1>2, <2>2, <2>3, <2>4 DEF Forms
  <2> QED BY <2>5
<1>5. ASSUME NEW p \in Procs, PutHold(p), events'[h] # events[h]
      PROVE  /\ events'[h].window = w /\ events'[h].show = s
             /\ events[h].team => events'[h].team
  <2>1. procs[p].at = "put" /\ procs[p].hold = h
    BY <1>0, <1>5 DEF PutHold
  <2>2. /\ procs[p].held \in Forms /\ procs[p].held.team = TRUE /\ backend \notin Patches
        /\ backend # "graph"
    BY <1>0, <2>1 DEF KInv, Knows, Updating, Patches
  <2>3. events'[h] = Written(procs[p].held)
    BY <1>0, <1>5, <2>1, <2>2 DEF PutHold, Written, Patches
  <2>4. procs[p].held.window = w /\ Written(procs[p].held).show = s
    BY <1>1, <2>1, <2>2 DEF Same, Agrees, Updating
  <2>5. events'[h].team = TRUE /\ events'[h].window = w
    BY <2>2, <2>3, <2>4, WrittenForm
  <2> QED BY <2>3, <2>4, <2>5
<1>6. ASSUME NEW g \in Ids, NEW a \in Answers, Answer(g, a)
      PROVE  /\ events'[h].window = w /\ events'[h].show = s
             /\ events[h].team => events'[h].team
  BY <1>0, <1>2, <1>6 DEF Answer, Forms
<1>7. CASE /\ events'[h] # events[h]
           /\ ~ \E p \in Procs : PatchHold(p) \/ PutHold(p)
           /\ ~ \E g \in Ids : \E a \in Answers : Answer(g, a)
  <2>1. ASSUME NEW p \in Procs, NEW g \in Ids, CreateHold(p, g) PROVE FALSE
    BY <1>0, <1>7, <2>1 DEF CreateHold
  <2>2. ASSUME NEW p \in Procs, DeleteHold(p) PROVE FALSE
    BY <1>0, <1>7, <2>2 DEF DeleteHold
  <2> QED BY <1>7, <2>1, <2>2 DEF Next, Step, SaveState, RecordCoverage, LockLedger,
       StoreLedger, LoadState, ClearState, GetHold, PromoteHold, FetchHold, FileLeave, Fail,
       Crash, Off, Cancel, Act, Sync, Team, Tick, vars, calendarVars
<1> QED BY <1>2, <1>3, <1>4, <1>5, <1>6, <1>7

\* Whichever commands read and write an event at once, and whatever a backend
\* leaves out of what it returns, an update only adds the team: the window and
\* the status of the hold are those it was made with (UpdateHold).
THEOREM UpdatesAddTheTeam == Spec => UpdatesOnlyAdd
<1> DEFINE A == \A h \in Ids : events[h] # None /\ events'[h] # None =>
            /\ events'[h].window = events[h].window
            /\ events'[h].show = events[h].show
            /\ events[h].team => events'[h].team
<1>1. AInv /\ AInv' /\ [Next]_vars => A
  BY OnlyTheTeam
<1>2. AInv /\ AInv' /\ [Next]_vars => [A]_vars
  BY <1>1
<1> QED BY InitA, NextA, <1>2, PTL DEF Spec, UpdatesOnlyAdd

-----------------------------------------------------------------------------
(* What a cancel forgets stays forgotten.                                  *)

\* No command is about to record the hold, and nothing of it is kept.
Quiet(h) == \A p \in Procs : procs[p].hold = h => procs[p].act # "off"
Unlisted(h) == \A x \in ledger : x.hold # h
Forgotten(h) == h \in rushed \/ (Quiet(h) /\ Unlisted(h))

\* How far a command has come with recording or forgetting its hold.
Forgets(c) ==
    /\ c.at = "store" /\ c.act = "off" => \A x \in c.kept : x \in ledger \/ x.hold = c.hold
    /\ c.at = "store" /\ c.act = "cancel" =>
            /\ c.hold \in rushed \/ Quiet(c.hold)
            /\ \A x \in c.kept : x \in ledger /\ x.hold # c.hold
    /\ c.at \in {"load", "clear"} => Forgotten(c.hold)

CInv ==
    /\ KInv /\ cancelled \subseteq made
    /\ \A p \in Procs : Forgets(procs[p])
    /\ \A h \in cancelled : Forgotten(h) /\ (h \in rushed \/ lastHold # h)

\* No step takes up a hold again to record it: only its creation does.
LEMMA QuietStays ==
    ASSUME KInv, NEW p \in Procs, NEW h \in made, Quiet(h),
           \A q \in Procs : q # p => procs'[q] = procs[q],
           procs'[p].hold = h /\ procs'[p].act = "off" =>
                procs[p].hold = h /\ procs[p].act = "off"
    PROVE  Quiet(h)'
<1> SUFFICES ASSUME NEW q \in Procs, procs'[q].hold = h PROVE procs'[q].act # "off"
  BY DEF Quiet
<1> QED BY DEF Quiet

\* What one command's step has to show, where it leaves the ledger as it is.
LEMMA CMoves ==
    ASSUME CInv, KInv', NEW p \in Procs,
           \A q \in Procs : q # p => procs'[q] = procs[q],
           \A h \in made : procs'[p].hold = h /\ procs'[p].act = "off" =>
                procs[p].hold = h /\ procs[p].act = "off",
           ledger' = ledger, rushed \subseteq rushed', Forgets(procs[p])',
           \A h \in cancelled' : \/ h \in cancelled
                                 \/ h \in made /\ Forgotten(h),
           \A h \in cancelled' : h \in rushed' \/ lastHold' # h,
           made \subseteq made'
    PROVE  CInv'
<1>1. ASSUME NEW h \in made, Quiet(h) PROVE Quiet(h)'
  BY <1>1, QuietStays DEF CInv
<1>2. ASSUME NEW h \in made, Forgotten(h) PROVE Forgotten(h)'
  BY <1>1, <1>2 DEF Forgotten, Unlisted
<1>3. ASSUME NEW q \in Procs PROVE Forgets(procs[q])'
  <2>1. CASE q = p
    BY <2>1
  <2>2. CASE q # p
    <3>1. procs'[q] = procs[q] /\ Forgets(procs[q]) /\ Knows(procs[q])
      BY <2>2 DEF CInv, KInv
    <3>2. procs[q].at \in {"store", "load", "clear"} =>
            \E h \in made : h = procs[q].hold
      BY <3>1 DEF Knows
    <3>3. procs[q].at \in {"load", "clear"} => Forgotten(procs[q].hold)'
      <4> SUFFICES ASSUME procs[q].at \in {"load", "clear"} PROVE Forgotten(procs[q].hold)'
        OBVIOUS
      <4>1. PICK h \in made : h = procs[q].hold
        BY <3>2
      <4>2. Forgotten(h)'
        BY <1>2, <3>1, <4>1 DEF Forgets
      <4> QED BY <3>1, <4>1, <4>2 DEF Forgotten, Quiet, Unlisted
    <3>4. procs[q].at = "store" /\ procs[q].act = "cancel" =>
            procs[q].hold \in rushed' \/ Quiet(procs[q].hold)'
      <4> SUFFICES ASSUME procs[q].at = "store", procs[q].act = "cancel"
                   PROVE  procs[q].hold \in rushed' \/ Quiet(procs[q].hold)'
        OBVIOUS
      <4>1. PICK h \in made : h = procs[q].hold
        BY <3>2
      <4>2. h \in rushed' \/ Quiet(h)'
        BY <1>1, <3>1, <4>1 DEF Forgets
      <4> QED BY <3>1, <4>1, <4>2 DEF Quiet
    <3> QED BY <3>1, <3>3, <3>4 DEF Forgets
  <2> QED BY <2>1, <2>2
<1>4. \A h \in cancelled' : h \in made /\ Forgotten(h)'
  BY <1>2 DEF CInv
<1> QED BY <1>3, <1>4 DEF CInv

LEMMA CEnds ==
    ASSUME CInv, KInv', NEW p \in Procs, End(p), ledger' = ledger, rushed \subseteq rushed',
           \A h \in cancelled' : \/ h \in cancelled
                                 \/ h \in made /\ Forgotten(h),
           \A h \in cancelled' : h \in rushed' \/ lastHold' # h,
           made \subseteq made'
    PROVE  CInv'
<1>1. procs'[p] = Idle /\ \A q \in Procs : q # p => procs'[q] = procs[q]
  BY DEF End, CInv, KInv, IInv, Commands
<1>2. \A h \in made : procs'[p].hold # h
  BY <1>1, HoldsAreNames DEF Idle, CInv
<1>3. Forgets(procs[p])'
  BY <1>1 DEF Forgets, Idle
<1> QED BY <1>1, <1>2, <1>3, CMoves

\* A command that goes on, away from the ledger.
LEMMA CGoes ==
    ASSUME CInv, KInv', NEW p \in Procs, procs[p].at # "create",
           \A q \in Procs : q # p => procs'[q] = procs[q],
           procs'[p].hold = procs[p].hold, procs'[p].act = procs[p].act,
           procs'[p].at \notin {"store", "load", "clear"},
           UNCHANGED <<ledger, made, cancelled, rushed>>,
           \A h \in cancelled : h \in rushed \/ lastHold' # h
    PROVE  CInv'
<1>1. Forgets(procs[p])'
  BY DEF Forgets
<1> QED BY <1>1, CMoves

LEMMA CreateHoldC ==
    ASSUME CInv, KInv', NEW p \in Procs, NEW g \in Ids, CreateHold(p, g)
    PROVE  CInv'
<1> DEFINE hold == IF backend \in Patches THEN Read(Written(procs[p].held)) ELSE procs[p].held
<1>1. DOMAIN procs = Procs /\ DOMAIN procs[p] = Fields /\ g \notin made
  BY DEF CInv, KInv, IInv, Commands, Sound, CreateHold
<1>2. UNCHANGED <<ledger, lastHold, cancelled, rushed>> /\ made' = made \cup {g}
  BY DEF CreateHold, fileVars
<1>3. End(p) \/ procs' = [procs EXCEPT ![p].at = "save", ![p].hold = g, ![p].held = hold]
  BY DEF CreateHold
<1> HIDE DEF hold
<1>4. CASE End(p)
  BY <1>2, <1>4, CEnds DEF CInv
<1>5. CASE procs' = [procs EXCEPT ![p].at = "save", ![p].hold = g, ![p].held = hold]
  <2>1. procs'[p].at = "save" /\ procs'[p].hold = g
        /\ \A q \in Procs : q # p => procs'[q] = procs[q]
    BY <1>1, <1>5 DEF Fields
  <2>2. \A h \in made : procs'[p].hold # h
    BY <1>1, <2>1
  <2>3. Forgets(procs[p])'
    BY <2>1 DEF Forgets
  <2> QED BY <1>2, <2>1, <2>2, <2>3, CMoves DEF CInv
<1> QED BY <1>3, <1>4, <1>5

LEMMA SaveStateC ==
    ASSUME CInv, KInv', NEW p \in Procs, SaveState(p)
    PROVE  CInv'
<1>1. /\ DOMAIN procs = Procs /\ DOMAIN procs[p] = Fields
      /\ procs[p].at = "save" /\ procs[p].act = "off" /\ procs[p].hold \in made
  BY DEF CInv, KInv, IInv, Commands, Sound, Knows, SaveState
<1>2. /\ lastHold' = procs[p].hold /\ Goto(p, "record")
      /\ UNCHANGED <<ledger, made, cancelled, rushed>>
  BY DEF SaveState
<1>3. \A h \in cancelled : h \in rushed \/ lastHold' # h
  BY <1>1, <1>2 DEF CInv, Forgotten, Quiet
<1>4. /\ \A q \in Procs : q # p => procs'[q] = procs[q]
      /\ procs'[p].hold = procs[p].hold /\ procs'[p].act = procs[p].act
      /\ procs'[p].at = "record"
  BY <1>1, <1>2 DEF Goto, Fields
<1> QED BY <1>1, <1>2, <1>3, <1>4, CGoes

LEMMA OnwardsC ==
    ASSUME CInv, KInv', NEW p \in Procs,
           \/ RecordCoverage(p) \/ DeleteHold(p) \/ GetHold(p) \/ PromoteHold(p)
           \/ PatchHold(p) \/ FetchHold(p) \/ PutHold(p) \/ FileLeave(p) \/ Fail(p) \/ Crash(p)
    PROVE  CInv'
<1>1. DOMAIN procs = Procs /\ DOMAIN procs[p] = Fields
  BY DEF CInv, KInv, IInv, Commands, Sound
<1>2. UNCHANGED <<ledger, lastHold, made, cancelled, rushed>>
  BY DEF RecordCoverage, DeleteHold, GetHold, PromoteHold, PatchHold, FetchHold, PutHold,
     FileLeave, Fail, Crash, fileVars, history
<1>3. CASE End(p)
  BY <1>2, <1>3, CEnds DEF CInv
<1>4. CASE ~ End(p)
  <2>1. /\ \A q \in Procs : q # p => procs'[q] = procs[q]
        /\ procs'[p].hold = procs[p].hold /\ procs'[p].act = procs[p].act
        /\ procs'[p].at \notin {"store", "load", "clear"}
        /\ procs[p].at # "create"
    <3>1. CASE RecordCoverage(p)
      BY <1>1, <1>4, <3>1 DEF RecordCoverage, Goto, Fields
    <3>2. CASE DeleteHold(p)
      BY <1>1, <1>4, <3>2 DEF DeleteHold, Goto, Fields
    <3>3. CASE GetHold(p)
      <4> DEFINE read == Reported(procs[p].hold)
      <4>1. procs' = [procs EXCEPT ![p].held = read,
                                   ![p].at = IF procs[p].act = "leave" THEN "file" ELSE "team"]
        BY <1>4, <3>3 DEF GetHold
      <4> HIDE DEF read
      <4> QED BY <1>1, <3>3, <4>1 DEF GetHold, Fields
    <3>4. CASE PromoteHold(p)
      BY <1>1, <1>4, <3>4 DEF PromoteHold, Fields
    <3>5. CASE FetchHold(p)
      BY <1>1, <1>4, <3>5 DEF FetchHold, Goto, Fields
    <3>6. CASE PatchHold(p) \/ PutHold(p) \/ FileLeave(p) \/ Fail(p) \/ Crash(p)
      BY <1>4, <3>6 DEF PatchHold, PutHold, FileLeave, Fail, Crash
    <3> QED BY <3>1, <3>2, <3>3, <3>4, <3>5, <3>6
  <2> QED BY <1>2, <2>1, CGoes DEF CInv
<1> QED BY <1>3, <1>4

\* Under the lock a cancel sees every command that may still record its hold.
LEMMA LockLedgerC ==
    ASSUME CInv, KInv', NEW p \in Procs, LockLedger(p)
    PROVE  CInv'
<1>1. /\ DOMAIN procs = Procs /\ DOMAIN procs[p] = Fields /\ procs[p].at = "lock"
      /\ procs[p].hold \in made
  BY DEF CInv, KInv, IInv, Commands, Sound, Knows, LockLedger
<1>2. /\ UNCHANGED <<ledger, lastHold, made, cancelled>>
      /\ rushed' = IF \E q \in Procs \ {p} : procs[q].act = "off" /\ procs[q].hold = procs[p].hold
                   THEN rushed \cup {procs[p].hold} ELSE rushed
  BY DEF LockLedger
<1> DEFINE kept == Kept(p)
<1>3. procs' = [procs EXCEPT ![p].at = "store", ![p].kept = kept]
  BY DEF LockLedger
<1>4. /\ procs[p].act = "off" => \A x \in kept : x \in ledger \/ x.hold = procs[p].hold
      /\ procs[p].act # "off" => \A x \in kept : x \in ledger /\ x.hold # procs[p].hold
  BY DEF Kept, EntryOf
<1> HIDE DEF kept
<1>5. /\ \A q \in Procs : q # p => procs'[q] = procs[q]
      /\ procs'[p].hold = procs[p].hold /\ procs'[p].act = procs[p].act
      /\ procs'[p].at = "store" /\ procs'[p].kept = kept
  BY <1>1, <1>3 DEF Fields
<1>6. procs[p].act = "cancel" => procs[p].hold \in rushed' \/ Quiet(procs[p].hold)'
  <2> SUFFICES ASSUME procs[p].act = "cancel", procs[p].hold \notin rushed'
               PROVE  Quiet(procs[p].hold)'
    OBVIOUS
  <2> SUFFICES ASSUME NEW q \in Procs, procs'[q].hold = procs'[p].hold
               PROVE  procs'[q].act # "off"
    BY <1>5 DEF Quiet
  <2> QED BY <1>2, <1>5
<1>7. Forgets(procs[p])'
  BY <1>2, <1>4, <1>5, <1>6 DEF Forgets, Quiet
<1> QED BY <1>1, <1>2, <1>5, <1>7, CMoves DEF CInv

\* A store changes the ledger for its own hold only, and no other is under way.
LEMMA StoreLedgerC ==
    ASSUME CInv, KInv', NEW p \in Procs, StoreLedger(p)
    PROVE  CInv'
<1>1. /\ DOMAIN procs = Procs /\ DOMAIN procs[p] = Fields /\ procs[p].at = "store"
      /\ procs[p].hold \in made /\ Forgets(procs[p])
  BY DEF CInv, KInv, IInv, Commands, Sound, Knows, StoreLedger
<1>2. /\ ledger' = procs[p].kept /\ UNCHANGED <<lastHold, made, cancelled, rushed>>
      /\ \/ procs[p].act = "off" /\ End(p)
         \/ procs[p].act = "cancel" /\ Goto(p, "load")
  BY DEF StoreLedger
<1>3. /\ \A q \in Procs : q # p => procs'[q] = procs[q]
      /\ \/ procs[p].act = "off" /\ procs'[p] = Idle
         \/ /\ procs[p].act = "cancel" /\ procs'[p].at = "load"
            /\ procs'[p].hold = procs[p].hold /\ procs'[p].act = "cancel"
  BY <1>1, <1>2 DEF End, Goto, Fields
<1>4. \A q \in Procs : q # p => procs[q].at # "store"
  BY <1>1 DEF CInv, KInv, IInv, Locked
<1>5. ASSUME NEW h \in made, Quiet(h) PROVE Quiet(h)'
  <2>1. procs'[p].hold = h => procs'[p].act # "off"
    BY <1>3, HoldsAreNames DEF Idle, CInv
  <2> QED BY <1>3, <1>5, <2>1, QuietStays DEF CInv
<1>6. ASSUME NEW h \in made, Quiet(h), Unlisted(h) PROVE Unlisted(h)'
  <2>1. CASE procs[p].act = "off"
    <3>1. procs[p].hold # h
      BY <1>6, <2>1 DEF Quiet
    <3>2. \A x \in procs[p].kept : x \in ledger \/ x.hold = procs[p].hold
      BY <1>1, <2>1 DEF Forgets
    <3> QED BY <1>2, <1>6, <3>1, <3>2 DEF Unlisted
  <2>2. CASE procs[p].act = "cancel"
    <3>1. \A x \in procs[p].kept : x \in ledger
      BY <1>1, <2>2 DEF Forgets
    <3> QED BY <1>2, <1>6, <3>1 DEF Unlisted
  <2> QED BY <1>2, <2>1, <2>2
<1>7. ASSUME NEW h \in made, Forgotten(h) PROVE Forgotten(h)'
  BY <1>2, <1>5, <1>6, <1>7 DEF Forgotten
<1>8. ASSUME NEW q \in Procs PROVE Forgets(procs[q])'
  <2>1. CASE q # p
    <3>1. procs'[q] = procs[q] /\ Forgets(procs[q]) /\ Knows(procs[q]) /\ procs[q].at # "store"
      BY <1>3, <1>4, <2>1 DEF CInv, KInv
    <3>2. procs[q].at \in {"load", "clear"} => Forgotten(procs[q].hold)'
      <4> SUFFICES ASSUME procs[q].at \in {"load", "clear"} PROVE Forgotten(procs[q].hold)'
        OBVIOUS
      <4>1. PICK h \in made : h = procs[q].hold
        BY <3>1 DEF Knows
      <4>2. Forgotten(h)'
        BY <1>7, <3>1, <4>1 DEF Forgets
      <4> QED BY <3>1, <4>1, <4>2 DEF Forgotten, Quiet, Unlisted
    <3> QED BY <3>1, <3>2 DEF Forgets
  <2>2. CASE q = p /\ procs[p].act = "off" /\ procs'[p] = Idle
    BY <2>2 DEF Forgets, Idle
  <2>3. CASE q = p /\ procs[p].act = "cancel" /\ procs'[p].at = "load"
             /\ procs'[p].hold = procs[p].hold
    <3>1. PICK h \in made : h = procs[p].hold
      BY <1>1
    <3>2. (h \in rushed \/ Quiet(h)) /\ \A x \in procs[p].kept : x.hold # h
      BY <1>1, <2>3, <3>1 DEF Forgets
    <3>3. Forgotten(h)'
      BY <1>2, <1>5, <3>2 DEF Forgotten, Unlisted
    <3>4. Forgotten(procs[p].hold)'
      BY <2>3, <3>1, <3>3 DEF Forgotten, Quiet, Unlisted
    <3> QED BY <2>3, <3>4 DEF Forgets
  <2> QED BY <1>3, <2>1, <2>2, <2>3
<1>9. \A h \in cancelled' : h \in made' /\ Forgotten(h)' /\ (h \in rushed' \/ lastHold' # h)
  BY <1>2, <1>7 DEF CInv
<1> QED BY <1>8, <1>9 DEF CInv

LEMMA LoadStateC ==
    ASSUME CInv, KInv', NEW p \in Procs, LoadState(p)
    PROVE  CInv'
<1>1. /\ DOMAIN procs = Procs /\ DOMAIN procs[p] = Fields /\ procs[p].at = "load"
      /\ procs[p].hold \in made /\ Forgotten(procs[p].hold) /\ procs[p].act = "cancel"
  BY DEF CInv, KInv, IInv, Commands, Sound, Knows, Forgets, LoadState
<1>2. UNCHANGED <<ledger, lastHold, made, rushed>>
  BY DEF LoadState, fileVars
<1>3. CASE lastHold # procs[p].hold /\ Cancelled(p)
  BY <1>1, <1>2, <1>3, CEnds DEF Cancelled, CInv
<1>4. CASE Goto(p, "clear") /\ UNCHANGED cancelled
  <2>1. /\ \A q \in Procs : q # p => procs'[q] = procs[q]
        /\ procs'[p].hold = procs[p].hold /\ procs'[p].act = "cancel"
        /\ procs'[p].at = "clear"
    BY <1>1, <1>4 DEF Goto, Fields
  <2>2. Forgotten(procs[p].hold)'
    <3>1. PICK h \in made : h = procs[p].hold
      BY <1>1
    <3>2. Quiet(h) => Quiet(h)'
      BY <2>1, QuietStays DEF CInv
    <3>3. Forgotten(h)'
      BY <1>1, <1>2, <3>1, <3>2 DEF Forgotten, Unlisted
    <3> QED BY <2>1, <3>1, <3>3 DEF Forgotten, Quiet, Unlisted
  <2>3. Forgets(procs[p])'
    BY <2>1, <2>2 DEF Forgets
  <2> QED BY <1>2, <1>4, <2>1, <2>3, CMoves DEF CInv
<1> QED BY <1>3, <1>4 DEF LoadState

LEMMA ClearStateC ==
    ASSUME CInv, KInv', NEW p \in Procs, ClearState(p)
    PROVE  CInv'
<1>1. /\ procs[p].at = "clear" /\ procs[p].hold \in made /\ Forgotten(procs[p].hold)
  BY DEF CInv, KInv, Knows, Forgets, ClearState
<1>2. lastHold' = None /\ UNCHANGED <<ledger, made, rushed>> /\ Cancelled(p)
  BY DEF ClearState
<1>3. \A h \in cancelled' : h \in made
  BY <1>1, <1>2 DEF Cancelled, CInv
<1>4. \A h \in cancelled' : lastHold' # h
  BY <1>2, <1>3, HoldsAreNames DEF CInv
<1> QED BY <1>1, <1>2, <1>4, CEnds DEF Cancelled

LEMMA StartC ==
    ASSUME CInv, KInv', NEW p \in Procs,
           \/ \E owner \in Owners, v \in Accepted(now), show \in Shows : Off(p, owner, v, show)
           \/ \E g \in Ids : Cancel(p, g) \/ \E act \in Acts : Act(p, g, act)
    PROVE  CInv'
<1>1. UNCHANGED <<ledger, lastHold, made, cancelled, rushed>>
  BY DEF Off, Cancel, Act, fileVars, history
<1>2. /\ \A q \in Procs : q # p => procs'[q] = procs[q]
      /\ procs'[p].at \in {"create", "delete", "get"}
      /\ procs'[p].hold = None \/ procs'[p].act \in {"cancel"} \cup Acts
  BY CommandStarts DEF CInv
<1>3. \A h \in made : ~ (procs'[p].hold = h /\ procs'[p].act = "off")
  BY <1>2, HoldsAreNames DEF Acts, CInv
<1>4. Forgets(procs[p])'
  BY <1>2 DEF Forgets
<1> QED BY <1>1, <1>2, <1>3, <1>4, CMoves DEF CInv

LEMMA COutside ==
    ASSUME CInv, KInv', UNCHANGED <<procs, ledger, lastHold, made, cancelled, rushed>>
    PROVE  CInv'
BY DEF CInv, Forgets, Forgotten, Quiet, Unlisted

LEMMA InitC == Init => CInv
<1> SUFFICES ASSUME Init PROVE CInv
  OBVIOUS
<1>1. \A p \in Procs : Forgets(procs[p])
  BY DEF Init, Idle, Forgets
<1> QED BY <1>1, InitK DEF Init, CInv

LEMMA NextC == CInv /\ [Next]_vars => CInv'
<1> SUFFICES ASSUME CInv, [Next]_vars PROVE CInv'
  OBVIOUS
<1>0. KInv'
  BY NextK DEF CInv
<1>1. ASSUME NEW p \in Procs, Step(p) \/ Crash(p) PROVE CInv'
  BY <1>0, <1>1, CreateHoldC, SaveStateC, OnwardsC, LockLedgerC, StoreLedgerC, LoadStateC,
     ClearStateC DEF Step
<1>2. ASSUME NEW p \in Procs,
             \/ \E owner \in Owners, v \in Accepted(now), show \in Shows : Off(p, owner, v, show)
             \/ \E g \in Ids : Cancel(p, g) \/ \E act \in Acts : Act(p, g, act)
      PROVE  CInv'
  BY <1>0, <1>2, StartC
<1>3. CASE \/ \E g \in Ids : \/ \E a \in Answers : Answer(g, a)
                             \/ \E stale \in SUBSET copies[g] : Sync(g, stale)
           \/ Team \/ Tick \/ UNCHANGED vars
  <2>1. UNCHANGED <<procs, ledger, lastHold, made, cancelled, rushed>>
    BY <1>3 DEF Answer, Sync, Team, Tick, vars, fileVars, history
  <2> QED BY <1>0, <2>1, COutside
<1> QED BY <1>1, <1>2, <1>3 DEF Next

\* Once a cancel has ended, nothing of its hold is in the ledger or the state
\* file, however many commands wrote to both since, but for a hold whose own
\* command was still to record it when the cancel forgot it (forgetHold).
THEOREM CancelsForget == Spec => []CancelledForgotten
<1>1. CInv => CancelledForgotten
  BY DEF CInv, Forgotten, Unlisted, CancelledForgotten
<1> QED BY InitC, NextC, <1>1, PTL DEF Spec

-----------------------------------------------------------------------------
(* What is booked is counted.                                              *)

\* Time off that is not over is in what a command is about to store, except
\* what a cancel takes out of it.
Lists(entries, c) ==
    \A x \in booked : x.end > now => x \in entries \/ (c.act = "cancel" /\ x.hold = c.hold)

Counts(c) ==
    /\ backend # "graph" /\ c.crowd => c.warned
    /\ c.at = "store" /\ c.act = "off" =>
            c.owner \in Owners /\ EntryOf(c.hold, c.owner, c.held.window) \in c.kept
    /\ c.at = "store" /\ backend # "graph" => Lists(c.kept, c)

BInv ==
    /\ AInv /\ IsFiniteSet(ledger) /\ booked \subseteq Entries
    /\ backend # "graph" => \A x \in booked : x.end > now => x \in ledger
    /\ \A p \in Procs : Counts(procs[p])

Interval(w) == w.start \in Int /\ w.end \in Int /\ w.start < w.end

LEMMA WholeDay == ASSUME NEW t \in Int PROVE Interval(Whole(t)) /\ StartOfDay(t) \in Int
BY DEF Interval, Whole, AddDays, DayLen, StartOfDay

LEMMA NextDayIsInt ==
    ASSUME NEW t \in Int, NEW target \in Int PROVE NextWeekday(t, target) \in Int
<1>1. Weekday(t) \in Int
  BY DEF Weekday, Day, DayLen
<1>2. DaysAhead(t, target) \in Int
  BY <1>1 DEF DaysAhead
<1> QED BY <1>2, WholeDay DEF NextWeekday, AddDays, DayLen

\* Whatever is typed, the window that is read begins before it ends.
LEMMA WindowIsInterval == ASSUME NEW w \in Windows PROVE Interval(w)
<1>1. PICK d \in 1..LastDay : w \in Accepted(MidMorning(d))
  BY DEF Windows
<1> DEFINE t == MidMorning(d)
<1>2. t \in Int
  BY HoldsAssumption DEF MidMorning, DayLen
<1> HIDE DEF t
<1>3. ASSUME NEW word \in Words PROVE Interval(ResolveWord(t, word))
  <2>1. StartOfDay(t) \in Int /\ AddDays(StartOfDay(t), 1) \in Int
    BY <1>2, WholeDay DEF AddDays, DayLen
  <2>2. NextWeekday(t, Monday) \in Int
    BY <1>2, NextDayIsInt DEF Monday
  <2>3. CASE word = "today"
    BY <2>1, <2>3, WholeDay DEF ResolveWord
  <2>4. CASE word = "tomorrow"
    BY <2>1, <2>4, WholeDay DEF ResolveWord
  <2>5. CASE word = "next week"
    <3>1. PICK monday \in Int : monday = NextWeekday(t, Monday)
      BY <2>2
    <3>2. ResolveWord(t, word) = [start |-> monday, end |-> AddDays(monday, 5)]
      BY <2>5, <3>1 DEF ResolveWord
    <3>3. AddDays(monday, 5) \in Int /\ monday < AddDays(monday, 5)
      BY <3>1 DEF AddDays, DayLen
    <3> QED BY <3>2, <3>3 DEF Interval
  <2>6. word = "today" \/ word = "tomorrow" \/ word = "next week"
    BY <1>3 DEF Words
  <2> QED BY <2>3, <2>4, <2>5, <2>6
<1>4. ASSUME NEW v \in Typed(t) PROVE Interval(v)
  <2>1. CASE \E word \in Phrases : v = ResolveWord(t, word)
    BY <1>3, <2>1, HoldsAssumption
  <2>2. CASE \E f \in DateFlags : v = ParseDates(f[1], f[2]) /\ ValidWindow(v)
    BY <2>2, HoldsAssumption DEF ParseDates, ValidWindow, Interval, AddDays, DayLen
  <2> QED BY <2>1, <2>2 DEF Typed
<1>5. ASSUME NEW v \in Typed(t), NEW portion PROVE Interval(HalfDay(v, portion))
  <2>1. StartOfDay(v.start) \in Int
    BY <1>4, WholeDay DEF Interval
  <2> QED BY <2>1 DEF HalfDay, Interval
<1> QED BY <1>1, <1>4, <1>5 DEF Accepted, t

LEMMA EntryEnds == ASSUME NEW x \in Entries PROVE x.end \in Int
BY WindowIsInterval DEF Entries, EntryOf, Windows, Interval

LEMMA TimeIsInt == ASSUME IInv PROVE now \in Int
BY TimeIsNat DEF IInv

\* More entries, no fewer people off.
LEMMA OwnersAreFinite ==
    ASSUME NEW S, IsFiniteSet(S) PROVE IsFiniteSet(OwnersIn(S))
<1> DEFINE f == [x \in S |-> x.owner]
<1>1. f \in Surjection(S, OwnersIn(S))
  BY DEF Surjection, OwnersIn
<1> QED BY <1>1, FS_Surjection

LEMMA MoreAreOff ==
    ASSUME NEW S, NEW T, S \subseteq T, IsFiniteSet(T), NEW w, WarnCoverage(S, w)
    PROVE  WarnCoverage(T, w)
<1> DEFINE s == OwnersIn({x \in S : Overlaps(x, w)})
           t == OwnersIn({x \in T : Overlaps(x, w)})
<1>1. IsFiniteSet({x \in T : Overlaps(x, w)})
  BY FS_Subset
<1>2. IsFiniteSet(t) /\ s \subseteq t
  BY <1>1, OwnersAreFinite DEF OwnersIn
<1> HIDE DEF s, t
<1>3. Cardinality(s) \in Nat /\ Cardinality(t) \in Nat /\ Cardinality(s) <= Cardinality(t)
  BY <1>2, FS_Subset, FS_CardinalityType
<1> QED BY <1>3, HoldsAssumption DEF WarnCoverage, CountOff, s, t

\* What one command's step has to show, where nothing is booked or recorded.
LEMMA BMoves ==
    ASSUME BInv, AInv', NEW p \in Procs,
           \A q \in Procs : q # p => procs'[q] = procs[q],
           UNCHANGED <<backend, now, ledger, booked>>, Counts(procs[p])'
    PROVE  BInv'
<1>1. ASSUME NEW q \in Procs PROVE Counts(procs[q])'
  <2>1. CASE q = p
    BY <2>1
  <2>2. CASE q # p
    <3>1. procs'[q] = procs[q] /\ Counts(procs[q])
      BY <2>2 DEF BInv
    <3> QED BY <3>1 DEF Counts, Lists
  <2> QED BY <2>1, <2>2
<1>2. booked' \subseteq Entries'
  BY DEF BInv, Entries
<1> QED BY <1>1, <1>2 DEF BInv

LEMMA CountsIdle == ASSUME NEW p \in Procs, procs'[p] = Idle PROVE Counts(procs[p])'
<1>1. procs'[p].at = "idle" /\ procs'[p].crowd = FALSE
  BY DEF Idle
<1> QED BY <1>1 DEF Counts

LEMMA BEnds ==
    ASSUME BInv, AInv', NEW p \in Procs, End(p),
           UNCHANGED <<backend, now, ledger, booked>>
    PROVE  BInv'
<1>1. procs'[p] = Idle /\ \A q \in Procs : q # p => procs'[q] = procs[q]
  BY DEF End, BInv, AInv, KInv, IInv, Commands
<1> QED BY <1>1, CountsIdle, BMoves

LEMMA BGoes ==
    ASSUME BInv, AInv', NEW p \in Procs,
           \A q \in Procs : q # p => procs'[q] = procs[q],
           procs'[p].at # "store", procs'[p].crowd = procs[p].crowd,
           procs'[p].warned = procs[p].warned,
           UNCHANGED <<backend, now, ledger, booked>>
    PROVE  BInv'
<1>1. Counts(procs[p])
  BY DEF BInv
<1>2. Counts(procs[p])'
  BY <1>1 DEF Counts
<1> QED BY <1>2, BMoves

\* The hold of an off command has the window it was made with, which is a
\* window to record on every backend that returns it.
LEMMA OffWindow ==
    ASSUME AInv, NEW p \in Procs, procs[p].at \in {"record", "lock", "store"},
           procs[p].act = "off"
    PROVE  /\ procs[p].hold \in made
           /\ backend # "graph" => procs[p].held.window \in Windows
           /\ events[procs[p].hold] # None =>
                /\ events[procs[p].hold].window \in Windows
                /\ backend # "graph" => events[procs[p].hold].window = procs[p].held.window
<1>1. PICK h \in made : h = procs[p].hold
  BY DEF AInv, KInv, Knows
<1>2. PICK w \in Windows, s \in Looks : Same(h, w, s)
  BY DEF AInv
<1>3. backend # "graph" => procs[p].held.window = w
  BY <1>1, <1>2 DEF Same, Agrees
<1>4. events[h] # None => events[h].window = w
  BY <1>2 DEF Same
<1> QED BY <1>1, <1>3, <1>4

\* What off books is an entry, and the one it has recorded.
LEMMA BookedEntry ==
    ASSUME AInv, NEW p \in Procs, procs[p].at \in {"record", "store"}, procs[p].act = "off",
           procs[p].owner \in Owners, Booked(p)
    PROVE  \/ booked' = booked
           \/ \E e \in Entries :
                /\ booked' = booked \cup {e}
                /\ backend # "graph" =>
                        e = EntryOf(procs[p].hold, procs[p].owner, procs[p].held.window)
<1>1. PICK h \in Ids : h = procs[p].hold
  BY OffWindow, HoldsAreNames DEF AInv
<1>2. CASE events[h] = None
  BY <1>1, <1>2 DEF Booked
<1>3. CASE events[h] # None
  <2>1. PICK w \in Windows : w = events[h].window
    BY <1>1, <1>3, OffWindow
  <2>2. PICK owner \in Owners : owner = procs[p].owner
    OBVIOUS
  <2>3. EntryOf(h, owner, w) \in Entries
    BY EntryIsOne
  <2>4. booked' = booked \cup {EntryOf(h, owner, w)}
    BY <1>1, <1>3, <2>1, <2>2 DEF Booked
  <2>5. backend # "graph" => w = procs[p].held.window
    BY <1>1, <1>3, <2>1, OffWindow
  <2> QED BY <1>1, <2>2, <2>3, <2>4, <2>5
<1> QED BY <1>2, <1>3

LEMMA OffB ==
    ASSUME BInv, AInv', NEW p \in Procs, NEW owner \in Owners, NEW w \in Accepted(now),
           NEW show \in Shows, Off(p, owner, w, show)
    PROVE  BInv'
<1>0. DOMAIN procs = Procs
  BY DEF BInv, AInv, KInv, IInv, Commands
<1> DEFINE crowd == WarnCoverage({x \in booked : x.end > now}, w)
           warned == WarnCoverage(ledger, w)
<1>1. procs' = [procs EXCEPT ![p] = [Idle EXCEPT !.at = "create", !.act = "off",
                        !.owner = owner, !.held = Event(w, show), !.crowd = crowd,
                        !.warned = warned]]
      /\ UNCHANGED <<backend, now, ledger, booked>>
  BY DEF Off, Start, fileVars, history
<1>2. backend # "graph" /\ crowd => warned
  <2> SUFFICES ASSUME backend # "graph", crowd PROVE warned
    OBVIOUS
  <2>1. {x \in booked : x.end > now} \subseteq ledger /\ IsFiniteSet(ledger)
    BY DEF BInv
  <2> QED BY <2>1, MoreAreOff
<1> HIDE DEF crowd, warned
<1>3. /\ \A q \in Procs : q # p => procs'[q] = procs[q]
      /\ procs'[p].at = "create" /\ procs'[p].crowd = crowd /\ procs'[p].warned = warned
  BY <1>0, <1>1 DEF Idle
<1>4. backend # "graph" /\ procs'[p].crowd => procs'[p].warned
  BY <1>2, <1>3, Zenon
<1>5. Counts(procs[p])'
  BY <1>1, <1>3, <1>4 DEF Counts
<1> QED BY <1>1, <1>3, <1>5, BMoves

LEMMA StartB ==
    ASSUME BInv, AInv', NEW p \in Procs,
           \E g \in Ids : Cancel(p, g) \/ \E act \in Acts : Act(p, g, act)
    PROVE  BInv'
<1>1. UNCHANGED <<backend, now, ledger, booked>>
  BY DEF Cancel, Act, fileVars, history
<1>2. /\ \A q \in Procs : q # p => procs'[q] = procs[q]
      /\ procs'[p].at \in {"delete", "get"} /\ procs'[p].crowd = FALSE
  BY CancelStarts, ActStarts DEF BInv, AInv
<1>3. Counts(procs[p])'
  BY <1>2 DEF Counts
<1> QED BY <1>1, <1>2, <1>3, BMoves

LEMMA RecordCoverageB ==
    ASSUME BInv, AInv', NEW p \in Procs, RecordCoverage(p)
    PROVE  BInv'
<1>1. /\ DOMAIN procs = Procs /\ DOMAIN procs[p] = Fields /\ procs[p].at = "record"
      /\ procs[p].act = "off" /\ procs[p].owner \in Owners
  BY DEF BInv, AInv, KInv, IInv, Commands, Sound, Knows, RecordCoverage
<1>2. UNCHANGED <<backend, now, ledger>>
  BY DEF RecordCoverage, fileVars
<1>3. CASE Goto(p, "lock") /\ UNCHANGED booked
  <2>1. /\ \A q \in Procs : q # p => procs'[q] = procs[q]
        /\ procs'[p].at = "lock" /\ procs'[p].crowd = procs[p].crowd
        /\ procs'[p].warned = procs[p].warned
    BY <1>1, <1>3 DEF Goto, Fields
  <2> QED BY <1>2, <1>3, <2>1, BGoes
<1>4. CASE End(p) /\ UNCHANGED booked
  BY <1>2, <1>4, BEnds
<1>5. CASE ~ ValidWindow(procs[p].held.window) /\ End(p) /\ Booked(p)
  <2>1. backend = "graph"
    <3> SUFFICES ASSUME backend # "graph" PROVE FALSE
      OBVIOUS
    <3>1. procs[p].held.window \in Windows
      BY <1>1, OffWindow DEF BInv
    <3> QED BY <1>5, <3>1, WindowIsInterval DEF Interval, ValidWindow
  <2>2. booked' \subseteq Entries'
    BY <1>1, <1>5, BookedEntry DEF BInv, Entries
  <2>3. procs'[p] = Idle /\ \A q \in Procs : q # p => procs'[q] = procs[q]
    BY <1>1, <1>5 DEF End
  <2>4. ASSUME NEW q \in Procs PROVE Counts(procs[q])'
    <3>1. CASE q = p
      BY <2>3, <3>1, CountsIdle
    <3>2. CASE q # p
      <4>1. procs'[q] = procs[q] /\ Counts(procs[q])
        BY <2>3, <3>2 DEF BInv
      <4> QED BY <1>2, <2>1, <4>1 DEF Counts
    <3> QED BY <3>1, <3>2
  <2> QED BY <1>2, <2>1, <2>2, <2>4 DEF BInv
<1> QED BY <1>3, <1>4, <1>5 DEF RecordCoverage

LEMMA LockLedgerB ==
    ASSUME BInv, AInv', NEW p \in Procs, LockLedger(p)
    PROVE  BInv'
<1>1. /\ DOMAIN procs = Procs /\ DOMAIN procs[p] = Fields /\ procs[p].at = "lock"
      /\ procs[p].act \in {"off", "cancel"}
      /\ procs[p].act = "off" => procs[p].owner \in Owners
  BY DEF BInv, AInv, KInv, IInv, Commands, Sound, Knows, LockLedger
<1>2. UNCHANGED <<backend, now, ledger, booked>>
  BY DEF LockLedger
<1> DEFINE kept == Kept(p)
           entry == EntryOf(procs[p].hold, procs[p].owner, procs[p].held.window)
<1>3. procs' = [procs EXCEPT ![p].at = "store", ![p].kept = kept]
  BY DEF LockLedger
<1>4. procs[p].act = "off" => entry \in kept
  BY DEF Kept
<1>5. backend # "graph" => Lists(kept, procs[p])
  BY <1>1 DEF Kept, Lists, BInv
<1> HIDE DEF kept
<1>6. /\ \A q \in Procs : q # p => procs'[q] = procs[q]
      /\ procs'[p].hold = procs[p].hold /\ procs'[p].act = procs[p].act
      /\ procs'[p].owner = procs[p].owner /\ procs'[p].held = procs[p].held
      /\ procs'[p].at = "store" /\ procs'[p].kept = kept
      /\ procs'[p].crowd = procs[p].crowd /\ procs'[p].warned = procs[p].warned
  BY <1>1, <1>3 DEF Fields
<1>7. Counts(procs[p])
  BY DEF BInv
<1>8. procs'[p].act = "off" =>
        EntryOf(procs'[p].hold, procs'[p].owner, procs'[p].held.window) \in procs'[p].kept
  BY <1>4, <1>6
<1>9. backend' # "graph" => Lists(procs[p].kept, procs[p])'
  BY <1>2, <1>5, <1>6 DEF Lists
<1>10. Counts(procs[p])'
  BY <1>1, <1>2, <1>6, <1>7, <1>8, <1>9 DEF Counts, EntryOf
<1> QED BY <1>2, <1>6, <1>10, BMoves

\* The ledger that is stored has all that is booked and not over.
LEMMA StoreLedgerB ==
    ASSUME BInv, AInv', NEW p \in Procs, StoreLedger(p)
    PROVE  BInv'
<1>1. /\ DOMAIN procs = Procs /\ DOMAIN procs[p] = Fields /\ procs[p].at = "store"
      /\ Counts(procs[p]) /\ Due(procs[p].kept)
  BY DEF BInv, AInv, KInv, IInv, Commands, Sound, Locked, StoreLedger
<1>2. ledger' = procs[p].kept /\ UNCHANGED <<backend, now>>
  BY DEF StoreLedger
<1>3. IsFiniteSet(ledger')
  <2>1. IsFiniteSet(ledger)
    BY DEF BInv
  <2>2. CASE \E e \in Entries : \E at \in 0..now :
                procs[p].kept = {x \in ledger : x.end > at} \cup {e}
    <3>1. PICK e \in Entries, at \in 0..now :
                procs[p].kept = {x \in ledger : x.end > at} \cup {e}
      BY <2>2
    <3>2. IsFiniteSet({x \in ledger : x.end > at})
      BY <2>1, FS_Subset
    <3> QED BY <1>2, <3>1, <3>2, FS_AddElement
  <2>3. CASE \E h \in Ids : procs[p].kept = {x \in ledger : x.hold # h}
    BY <1>2, <2>1, <2>3, FS_Subset
  <2> QED BY <1>1, <2>2, <2>3 DEF Due
<1>4. \A q \in Procs : q # p => procs[q].at # "store"
  BY <1>1 DEF BInv, AInv, KInv, IInv, Locked
<1>5. CASE procs[p].act = "off" /\ End(p) /\ Booked(p)
  <2>1. procs'[p] = Idle /\ \A q \in Procs : q # p => procs'[q] = procs[q]
    BY <1>1, <1>5 DEF End
  <2>2. /\ procs[p].owner \in Owners
        /\ EntryOf(procs[p].hold, procs[p].owner, procs[p].held.window) \in procs[p].kept
    BY <1>1, <1>5 DEF Counts
  <2>3. \/ booked' = booked
        \/ \E e \in Entries :
            /\ booked' = booked \cup {e}
            /\ backend # "graph" =>
                    e = EntryOf(procs[p].hold, procs[p].owner, procs[p].held.window)
    BY <1>1, <1>5, <2>2, BookedEntry DEF BInv
  <2>4. booked' \subseteq Entries'
    BY <2>3 DEF BInv, Entries
  <2>5. backend' # "graph" => \A x \in booked' : x.end > now' => x \in ledger'
    <3>1. backend # "graph" => \A x \in booked : x.end > now => x \in procs[p].kept
      BY <1>1, <1>5 DEF Counts, Lists
    <3> QED BY <1>2, <2>2, <2>3, <3>1
  <2>6. ASSUME NEW q \in Procs PROVE Counts(procs[q])'
    <3>1. CASE q = p
      BY <2>1, <3>1, CountsIdle
    <3>2. CASE q # p
      <4>1. procs'[q] = procs[q] /\ Counts(procs[q]) /\ procs[q].at # "store"
        BY <1>4, <2>1, <3>2 DEF BInv
      <4> QED BY <1>2, <4>1 DEF Counts
    <3> QED BY <3>1, <3>2
  <2> QED BY <1>3, <2>4, <2>5, <2>6 DEF BInv
<1>6. CASE /\ procs[p].act = "cancel" /\ Goto(p, "load")
           /\ booked' = {x \in booked : x.hold # procs[p].hold}
  <2>1. /\ \A q \in Procs : q # p => procs'[q] = procs[q]
        /\ procs'[p].at = "load" /\ procs'[p].crowd = procs[p].crowd
        /\ procs'[p].warned = procs[p].warned
    BY <1>1, <1>6 DEF Goto, Fields
  <2>2. booked' \subseteq Entries'
    BY <1>6 DEF BInv, Entries
  <2>3. backend' # "graph" => \A x \in booked' : x.end > now' => x \in ledger'
    BY <1>1, <1>2, <1>6 DEF Counts, Lists
  <2>4. ASSUME NEW q \in Procs PROVE Counts(procs[q])'
    <3>1. CASE q = p
      BY <1>1, <1>2, <2>1, <3>1 DEF Counts
    <3>2. CASE q # p
      <4>1. procs'[q] = procs[q] /\ Counts(procs[q]) /\ procs[q].at # "store"
        BY <1>4, <2>1, <3>2 DEF BInv
      <4> QED BY <1>2, <4>1 DEF Counts
    <3> QED BY <3>1, <3>2
  <2> QED BY <1>3, <2>2, <2>3, <2>4 DEF BInv
<1> QED BY <1>5, <1>6 DEF StoreLedger

LEMMA OnwardsB ==
    ASSUME BInv, AInv', NEW p \in Procs,
           \/ \E g \in Ids : CreateHold(p, g)
           \/ SaveState(p) \/ DeleteHold(p) \/ LoadState(p) \/ ClearState(p) \/ GetHold(p)
           \/ PromoteHold(p) \/ PatchHold(p) \/ FetchHold(p) \/ PutHold(p) \/ FileLeave(p)
           \/ Fail(p) \/ Crash(p)
    PROVE  BInv'
<1>1. DOMAIN procs = Procs /\ DOMAIN procs[p] = Fields
  BY DEF BInv, AInv, KInv, IInv, Commands, Sound
<1>2. UNCHANGED <<backend, now, ledger, booked>>
  BY DEF CreateHold, SaveState, DeleteHold, LoadState, ClearState, GetHold, PromoteHold,
     PatchHold, FetchHold, PutHold, FileLeave, Fail, Crash, fileVars, history
<1>3. CASE End(p)
  BY <1>2, <1>3, BEnds
<1>4. CASE ~ End(p)
  <2>1. /\ \A q \in Procs : q # p => procs'[q] = procs[q]
        /\ procs'[p].at # "store" /\ procs'[p].crowd = procs[p].crowd
        /\ procs'[p].warned = procs[p].warned
    <3>1. CASE \E point \in Points \ {"store"} : Goto(p, point)
      BY <1>1, <3>1 DEF Goto, Fields
    <3>2. CASE \E g \in Ids : CreateHold(p, g)
      <4> DEFINE hold == IF backend \in Patches THEN Read(Written(procs[p].held))
                         ELSE procs[p].held
      <4>1. \E g \in Ids :
                procs' = [procs EXCEPT ![p].at = "save", ![p].hold = g, ![p].held = hold]
        BY <1>4, <3>2 DEF CreateHold
      <4> HIDE DEF hold
      <4> QED BY <1>1, <4>1 DEF Fields
    <3>3. CASE GetHold(p)
      <4> DEFINE read == Reported(procs[p].hold)
      <4>1. procs' = [procs EXCEPT ![p].held = read,
                                   ![p].at = IF procs[p].act = "leave" THEN "file" ELSE "team"]
        BY <1>4, <3>3 DEF GetHold
      <4> HIDE DEF read
      <4> QED BY <1>1, <4>1 DEF Fields
    <3>4. CASE PromoteHold(p)
      BY <1>1, <1>4, <3>4 DEF PromoteHold, Fields
    <3> QED BY <1>4, <3>1, <3>2, <3>3, <3>4 DEF SaveState, DeleteHold, LoadState, ClearState,
         PatchHold, FetchHold, PutHold, FileLeave, Fail, Crash, Cancelled, Points, Updating
  <2> QED BY <1>2, <2>1, BGoes
<1> QED BY <1>3, <1>4

\* What is over stays over.
LEMMA TickB ==
    ASSUME BInv, AInv', Tick
    PROVE  BInv'
<1>1. UNCHANGED <<backend, procs, ledger, booked>>
  BY DEF Tick, fileVars, history
<1>2. now \in Int /\ now' \in Int /\ now < now'
  <2>1. now \in Nat
    BY TimeIsNat DEF BInv, AInv, KInv, IInv
  <2> QED BY <2>1 DEF Tick, MidMorning, Day, DayLen
<1>3. ASSUME NEW x \in booked, x.end > now' PROVE x.end > now
  <2>1. x.end \in Int
    BY EntryEnds DEF BInv
  <2> QED BY <1>2, <1>3, <2>1
<1>4. ASSUME NEW q \in Procs PROVE Counts(procs[q])'
  <2>1. Counts(procs[q])
    BY DEF BInv
  <2> QED BY <1>1, <1>3, <2>1 DEF Counts, Lists
<1>5. booked' \subseteq Entries'
  BY <1>1 DEF BInv, Entries
<1> QED BY <1>1, <1>3, <1>4, <1>5 DEF BInv

LEMMA BOutside ==
    ASSUME BInv, AInv', UNCHANGED <<backend, now, procs, ledger, booked>>
    PROVE  BInv'
BY DEF BInv, Counts, Lists, Entries

LEMMA InitB == Init => BInv
<1> SUFFICES ASSUME Init PROVE BInv
  OBVIOUS
<1>1. \A p \in Procs : Counts(procs[p])
  BY DEF Init, Idle, Counts
<1> QED BY <1>1, InitA, FS_EmptySet DEF Init, BInv

LEMMA NextB == BInv /\ [Next]_vars => BInv'
<1> SUFFICES ASSUME BInv, [Next]_vars PROVE BInv'
  OBVIOUS
<1>0. AInv'
  BY NextA DEF BInv
<1>1. ASSUME NEW p \in Procs, Step(p) \/ Crash(p) PROVE BInv'
  BY <1>0, <1>1, OnwardsB, RecordCoverageB, LockLedgerB, StoreLedgerB DEF Step
<1>2. ASSUME NEW p \in Procs, NEW owner \in Owners, NEW w \in Accepted(now),
             NEW show \in Shows, Off(p, owner, w, show)
      PROVE  BInv'
  BY <1>0, <1>2, OffB
<1>3. ASSUME NEW p \in Procs,
             \E g \in Ids : Cancel(p, g) \/ \E act \in Acts : Act(p, g, act)
      PROVE  BInv'
  BY <1>0, <1>3, StartB
<1>4. CASE \/ \E g \in Ids : \/ \E a \in Answers : Answer(g, a)
                             \/ \E stale \in SUBSET copies[g] : Sync(g, stale)
           \/ Team \/ UNCHANGED vars
  <2>1. UNCHANGED <<backend, now, procs, ledger, booked>>
    BY <1>4 DEF Answer, Sync, Team, vars, fileVars, history
  <2> QED BY <1>0, <2>1, BOutside
<1>5. CASE Tick
  BY <1>0, <1>5, TickB
<1> QED BY <1>1, <1>2, <1>3, <1>4, <1>5 DEF Next

\* However many commands book, cancel, promote and die at once, on every
\* backend that returns a hold's window, what was booked without an error is in
\* the ledger until it is over or a cancel of it reaches the ledger, and a
\* window that enough of it overlaps is warned of (recordCoverage, warnCoverage).
THEOREM TimeOffIsCounted == Spec => []BookedIsCounted
<1>1. BInv => BookedIsCounted
  BY DEF BInv, Counts, BookedIsCounted
<1> QED BY InitB, NextB, <1>1, PTL DEF Spec
-----------------------------------------------------------------------------
(* The days of a phrase, and the working days of a window.                 *)

\* A time lies in its day.
LEMMA DayOf ==
    ASSUME NEW t \in Int
    PROVE  /\ Day(t) \in Int /\ StartOfDay(t) = 4 * Day(t)
           /\ 4 * Day(t) <= t /\ t < 4 * Day(t) + 4
BY DEF Day, StartOfDay, DayLen

LEMMA DayOfMidnight == ASSUME NEW d \in Int PROVE Day(4 * d) = d
BY DayOf DEF Day, DayLen

\* A weekday is some day in any seven, and only one of them.
LEMMA OneInAWeek ==
    ASSUME NEW d \in Int, NEW target \in 0..6, NEW ahead,
           LET m == (target - (d % 7) + 7) % 7 IN ahead = IF m = 0 THEN 7 ELSE m
    PROVE  /\ ahead \in 1..7 /\ (d + ahead) % 7 = target
           /\ \A x \in (d + 1)..(d + 7) : x % 7 = target => x = d + ahead
OBVIOUS

\* NextWeekday is midnight of the first such day after the one it is typed on.
LEMMA NextWeekdayIs ==
    ASSUME NEW d \in Nat, NEW target \in 0..6
    PROVE  \E x \in (d + 1)..(d + 7) :
                /\ x % 7 = target /\ NextWeekday(MidMorning(d), target) = 4 * x
                /\ \A y \in (d + 1)..(d + 7) : y % 7 = target => y = x
<1> DEFINE t == MidMorning(d)
           ahead == DaysAhead(t, target)
<1>1. t \in Int /\ Day(t) = d /\ StartOfDay(t) = 4 * d
  BY DEF MidMorning, Day, StartOfDay, DayLen
<1>2. ahead = LET m == (target - (d % 7) + 7) % 7 IN IF m = 0 THEN 7 ELSE m
  BY <1>1 DEF DaysAhead, Weekday
<1> HIDE DEF ahead
<1>3. /\ ahead \in 1..7 /\ (d + ahead) % 7 = target
      /\ \A x \in (d + 1)..(d + 7) : x % 7 = target => x = d + ahead
  BY <1>2, OneInAWeek
<1>4. NextWeekday(t, target) = 4 * (d + ahead)
  <2> HIDE DEF t
  <2> QED BY <1>1, <1>3 DEF NextWeekday, AddDays, DayLen, ahead
<1>5. d + ahead \in (d + 1)..(d + 7)
  BY <1>3
<1> QED BY <1>3, <1>4, <1>5

\* The days of a window that begins and ends at midnight.
LEMMA DaysOfDays ==
    ASSUME NEW w, NEW a \in Int, NEW b \in Int, a <= b,
           w.start = 4 * a, w.end = 4 * b + 4
    PROVE  DaysOf(w) = a..b
<1>1. Day(w.start) = a /\ Day(w.end) = b + 1
  BY DayOfMidnight DEF Day, DayLen
<1>2. ASSUME NEW x \in a..(b + 1)
      PROVE  Overlaps(w, Whole(x * DayLen)) <=> x \in a..b
  BY DEF Overlaps, Whole, AddDays, DayLen
<1>3. DaysOf(w) = {x \in a..(b + 1) : x \in a..b}
  BY <1>1, <1>2 DEF DaysOf
<1>4. {x \in a..(b + 1) : x \in a..b} = a..b
  OBVIOUS
<1> QED BY <1>3, <1>4

\* A non-empty set of naturals has a least element.
LEMMA LeastNatural ==
    ASSUME NEW T \in SUBSET Nat, T # {}
    PROVE  \E x \in T : \A y \in T : x <= y
<1> DEFINE R == {ss \in Nat \X Nat : ss[1] < ss[2]}
<1>1. IsWellFoundedOn(R, Nat)
  BY NatLessThanWellFounded DEF OpToRel
<1>2. PICK x \in T : \A y \in T : <<y, x>> \notin R
  <2> HIDE DEF R
  <2> QED BY <1>1, WFMin
<1>3. ASSUME NEW y \in T, y < x PROVE FALSE
  <2>1. <<y, x>> \in Nat \X Nat
    OBVIOUS
  <2>2. <<y, x>> \in R
    BY <2>1, <1>3
  <2> QED BY <1>2, <2>2
<1> QED BY <1>3

\* The working days that are still to be counted at a time, before an end.
WorkdaysLeft(t, end) ==
    {x \in Day(t)..end : IsWorkday(x) /\ t + 4 * (x - Day(t)) < end}

LEMMA LeftIsFinite ==
    ASSUME NEW t \in Nat, NEW end \in Int
    PROVE  IsFiniteSet(WorkdaysLeft(t, end)) /\ Cardinality(WorkdaysLeft(t, end)) \in Nat
<1>1. Day(t) \in Int /\ IsFiniteSet(Day(t)..end)
  BY DayOf, FS_Interval
<1>2. WorkdaysLeft(t, end) \in SUBSET (Day(t)..end)
  BY DEF WorkdaysLeft
<1>3. IsFiniteSet(WorkdaysLeft(t, end))
  BY <1>1, <1>2, FS_Subset
<1> QED BY <1>3, FS_CardinalityType

LEMMA NoneLeft ==
    ASSUME NEW t \in Nat, NEW end \in Int, t >= end
    PROVE  Cardinality(WorkdaysLeft(t, end)) = 0
<1>1. Day(t) \in Int
  BY DayOf
<1>2. ASSUME NEW x \in Day(t)..end PROVE ~(t + 4 * (x - Day(t)) < end)
  BY <1>1
<1>3. WorkdaysLeft(t, end) = {}
  BY <1>2 DEF WorkdaysLeft
<1> QED BY <1>3, FS_EmptySet

\* The day itself, if it is worked, and those left a day later.
LEMMA DayByDay ==
    ASSUME NEW t \in Nat, NEW end \in Int, t < end
    PROVE  Cardinality(WorkdaysLeft(t, end)) =
                (IF IsWorkday(Day(t)) THEN 1 ELSE 0)
                    + Cardinality(WorkdaysLeft(t + 4, end))
<1> DEFINE later == WorkdaysLeft(t + 4, end)
           d == Day(t)
<1>1. d \in Int /\ 4 * d <= t /\ t < 4 * d + 4 /\ 0 <= d /\ d <= end /\ Day(t + 4) = d + 1
  BY DayOf DEF Day, DayLen
<1> HIDE DEF d
<1>2. later = {x \in (d + 1)..end : IsWorkday(x) /\ t + 4 * (x - d) < end}
  <2>1. ASSUME NEW x \in (d + 1)..end
        PROVE  t + 4 + 4 * (x - (d + 1)) = t + 4 * (x - d)
    BY <1>1
  <2> QED BY <1>1, <2>1 DEF WorkdaysLeft
<1>3. WorkdaysLeft(t, end) = {x \in d..end : IsWorkday(x) /\ t + 4 * (x - d) < end}
  BY DEF WorkdaysLeft, d
<1>4. d \in d..end /\ t + 4 * (d - d) < end /\ d \notin (d + 1)..end
  BY <1>1
<1>5. d..end = {d} \cup ((d + 1)..end)
  BY <1>1
<1>6. IsFiniteSet(later) /\ Cardinality(later) \in Nat
  BY LeftIsFinite
<1> HIDE DEF later
<1>7. CASE IsWorkday(d)
  <2>1. WorkdaysLeft(t, end) = later \cup {d}
    BY <1>2, <1>3, <1>4, <1>5, <1>7
  <2>2. d \notin later
    BY <1>2, <1>4
  <2> QED BY <1>6, <1>7, <2>1, <2>2, FS_AddElement DEF d, later
<1>8. CASE ~ IsWorkday(d)
  <2>1. WorkdaysLeft(t, end) = later
    BY <1>2, <1>3, <1>4, <1>5, <1>8
  <2> QED BY <1>6, <1>8, <2>1 DEF d, later
<1> QED BY <1>7, <1>8

\* Count, from a midnight.
LEMMA CountIs ==
    ASSUME NEW w, w.start \in Nat, w.end \in Int
    PROVE  Count(w) = Cardinality(WorkdaysLeft(StartOfDay(w.start), w.end))
<1> DEFINE end == w.end
           Is(f) == f = [t \in Nat |-> IF t >= end THEN 0
                            ELSE (IF IsWorkday(Day(t)) THEN 1 ELSE 0) + f[AddDays(t, 1)]]
           f == CHOOSE f : Is(f)
           g == [t \in Nat |-> Cardinality(WorkdaysLeft(t, end))]
<1>1. Count(w) = f[StartOfDay(w.start)]
  BY DEF Count
<1>2. StartOfDay(w.start) \in Nat
  BY DEF StartOfDay, DayLen
<1>3. Is(g)
  <2>1. ASSUME NEW t \in Nat
        PROVE  g[t] = IF t >= end THEN 0
                      ELSE (IF IsWorkday(Day(t)) THEN 1 ELSE 0) + g[AddDays(t, 1)]
    <3>1. CASE t >= end
      BY <3>1, NoneLeft
    <3>2. CASE t < end
      <4>1. AddDays(t, 1) = t + 4 /\ t + 4 \in Nat
        BY DEF AddDays, DayLen
      <4> QED BY <3>2, <4>1, DayByDay
    <3> QED BY <3>1, <3>2
  <2> HIDE DEF g
  <2>2. g = [t \in Nat |-> g[t]]
    BY DEF g
  <2> QED BY <2>1, <2>2
<1>4. Is(f)
  <2> HIDE DEF g, Is
  <2> QED BY <1>3
<1> HIDE DEF f, g
<1>5. ASSUME NEW t \in Nat
      PROVE  f[t] = IF t >= end THEN 0
                    ELSE (IF IsWorkday(Day(t)) THEN 1 ELSE 0) + f[t + 4]
  BY <1>4 DEF AddDays, DayLen
<1>6. ASSUME NEW t \in Nat
      PROVE  g[t] = IF t >= end THEN 0
                    ELSE (IF IsWorkday(Day(t)) THEN 1 ELSE 0) + g[t + 4]
  BY <1>3 DEF AddDays, DayLen
<1>7. ASSUME NEW t \in Nat PROVE f[t] = g[t]
  <2> DEFINE T == {n \in Nat : end - n \in Nat /\ f[end - n] # g[end - n]}
  <2>1. SUFFICES ASSUME f[t] # g[t] PROVE FALSE
    OBVIOUS
  <2>2. t < end
    BY <1>5, <1>6, <2>1
  <2>3. end - t \in T
    <3>1. end - t \in Nat /\ end - (end - t) = t
      BY <2>2
    <3> QED BY <2>1, <3>1
  <2>4. PICK n \in T : \A y \in T : n <= y
    <3>1. T \in SUBSET Nat /\ T # {}
      BY <2>3
    <3> HIDE DEF T
    <3> QED BY <3>1, LeastNatural
  <2> DEFINE s == end - n
  <2>5. s \in Nat /\ s + 4 \in Nat /\ f[s] # g[s]
    BY <2>4
  <2>6. f[s + 4] = g[s + 4]
    <3>1. CASE s + 4 >= end
      BY <1>5, <1>6, <2>5, <3>1
    <3>2. CASE s + 4 < end
      <4>1. n - 4 \in Nat /\ end - (n - 4) = s + 4 /\ ~(n <= n - 4)
        BY <3>2
      <4>2. n - 4 \notin T
        BY <2>4, <4>1
      <4> QED BY <2>5, <4>1, <4>2
    <3> QED BY <2>5, <3>1, <3>2
  <2> HIDE DEF s
  <2> QED BY <1>5, <1>6, <2>5, <2>6
<1> QED BY <1>1, <1>2, <1>7 DEF g

\* The days left at a window's first midnight are its working days.
LEMMA WorkdaysOf ==
    ASSUME NEW w, w.start \in Nat, w.end \in Int
    PROVE  WorkdaysLeft(StartOfDay(w.start), w.end) = {x \in DaysOf(w) : IsWorkday(x)}
<1> DEFINE s == StartOfDay(w.start)
           a == Day(w.start)
           b == Day(w.end)
<1>1. /\ a \in Int /\ b \in Int /\ s = 4 * a /\ Day(s) = a
      /\ w.start < 4 * a + 4 /\ 4 * b <= w.end /\ w.end < 4 * b + 4 /\ 0 <= a
  BY DayOf, DayOfMidnight DEF Day, DayLen
<1> HIDE DEF s, a, b
<1>2. ASSUME NEW x \in Int
      PROVE  x \in a..w.end /\ s + 4 * (x - a) < w.end
                <=> x \in a..b /\ w.start < x * 4 + 4 /\ x * 4 < w.end
  BY <1>1
<1>3. ASSUME NEW x \in Int
      PROVE  Overlaps(w, Whole(x * DayLen)) <=> w.start < x * 4 + 4 /\ x * 4 < w.end
  BY DEF Overlaps, Whole, AddDays, DayLen
<1>4. a..w.end \subseteq Int /\ a..b \subseteq Int
  BY <1>1
<1>5. WorkdaysLeft(s, w.end) = {x \in a..w.end : IsWorkday(x) /\ s + 4 * (x - a) < w.end}
  BY <1>1 DEF WorkdaysLeft
<1>6. DaysOf(w) = {x \in a..b : Overlaps(w, Whole(x * DayLen))}
  BY DEF DaysOf, a, b
<1> QED BY <1>2, <1>3, <1>4, <1>5, <1>6 DEF s

\* The Monday "next week" begins on.
LEMMA NextMonday ==
    ASSUME NEW d \in Nat
    PROVE  \E x \in (d + 1)..(d + 7) :
                x % 7 = Monday /\ NextWeekday(MidMorning(d), Monday) = 4 * x
<1>1. Monday \in 0..6
  BY DEF Monday
<1> QED BY <1>1, NextWeekdayIs

\* Whatever is typed on a day, the window that is read begins on a day that is
\* counted from 0 and ends at some time.
LEMMA WindowStart ==
    ASSUME NEW d \in Nat, NEW w \in Accepted(MidMorning(d))
    PROVE  w.start \in Nat /\ w.end \in Int
<1> DEFINE t == MidMorning(d)
<1>1. StartOfDay(t) = 4 * d
  BY DEF MidMorning, StartOfDay, DayLen
<1>2. ASSUME NEW word \in Words
      PROVE  ResolveWord(t, word).start \in Nat /\ ResolveWord(t, word).end \in Int
  <2>1. PICK x \in (d + 1)..(d + 7) : NextWeekday(t, Monday) = 4 * x
    BY NextMonday
  <2>2. 4 * x \in Nat
    BY <2>1
  <2> HIDE DEF t
  <2>3. CASE word = "today"
    <3>1. ResolveWord(t, word) = Whole(4 * d)
      BY <1>1, <2>3 DEF ResolveWord
    <3> QED BY <3>1 DEF Whole, AddDays, DayLen
  <2>4. CASE word = "tomorrow"
    <3>1. ResolveWord(t, word) = Whole(4 * d + 1 * 4)
      BY <1>1, <2>4 DEF ResolveWord, AddDays, DayLen
    <3> QED BY <3>1 DEF Whole, AddDays, DayLen
  <2>5. CASE word = "next week"
    <3>1. ResolveWord(t, word) = [start |-> 4 * x, end |-> 4 * x + 5 * 4]
      BY <2>1, <2>5 DEF ResolveWord, AddDays, DayLen
    <3> QED BY <2>2, <3>1
  <2> QED BY <2>3, <2>4, <2>5 DEF Words
<1>3. ASSUME NEW v \in Typed(t) PROVE v.start \in Nat /\ v.end \in Int
  <2>1. CASE \E word \in Phrases : v = ResolveWord(t, word)
    BY <1>2, <2>1, HoldsAssumption
  <2>2. CASE \E f \in DateFlags : v = ParseDates(f[1], f[2])
    BY <2>2, HoldsAssumption DEF ParseDates, AddDays, DayLen
  <2> QED BY <2>1, <2>2 DEF Typed
<1>4. ASSUME NEW v \in Typed(t), NEW portion
      PROVE  HalfDay(v, portion).start \in Nat /\ HalfDay(v, portion).end \in Int
  <2>1. StartOfDay(v.start) \in Nat
    BY <1>3 DEF StartOfDay, DayLen
  <2> QED BY <2>1 DEF HalfDay
<1> QED BY <1>3, <1>4 DEF Accepted, t

\* "next week", on any day.
LEMMA NextWeekIs ==
    ASSUME NEW d \in Nat
    PROVE  LET w == ResolveWord(MidMorning(d), "next week")
           IN  /\ Day(w.start) \in (d + 1)..(d + 7) /\ Day(w.start) % 7 = Monday
               /\ DaysOf(w) = Day(w.start)..(Day(w.start) + 4)
<1>1. PICK x \in (d + 1)..(d + 7) :
            x % 7 = Monday /\ NextWeekday(MidMorning(d), Monday) = 4 * x
  BY NextMonday
<1> DEFINE w == ResolveWord(MidMorning(d), "next week")
<1>2. w.start = 4 * x /\ w.end = 4 * (x + 4) + 4
  BY <1>1 DEF ResolveWord, AddDays, DayLen
<1> HIDE DEF w
<1>3. x \in Int /\ x + 4 \in Int /\ x <= x + 4
  BY <1>1
<1>4. Day(w.start) = x
  BY <1>2, <1>3, DayOfMidnight
<1>5. DaysOf(w) = x..(x + 4)
  BY <1>2, <1>3, DaysOfDays
<1> QED BY <1>1, <1>4, <1>5 DEF w

\* A weekday, on any day.
LEMMA WeekdayIs ==
    ASSUME NEW d \in Nat, NEW target \in 0..6
    PROVE  DaysOf(ResolveWeekday(MidMorning(d), target)) =
                {CHOOSE x \in (d + 1)..(d + 7) : x % 7 = target}
<1>1. PICK x \in (d + 1)..(d + 7) :
            /\ x % 7 = target /\ NextWeekday(MidMorning(d), target) = 4 * x
            /\ \A y \in (d + 1)..(d + 7) : y % 7 = target => y = x
  BY NextWeekdayIs
<1>2. x \in Int
  BY <1>1
<1> DEFINE w == ResolveWeekday(MidMorning(d), target)
<1>3. w.start = 4 * x /\ w.end = 4 * x + 4
  BY <1>1, <1>2 DEF ResolveWeekday, Whole, AddDays, DayLen
<1> HIDE DEF w
<1>4. DaysOf(w) = x..x
  BY <1>2, <1>3, DaysOfDays
<1>5. x..x = {x}
  BY <1>2
<1>6. (CHOOSE y \in (d + 1)..(d + 7) : y % 7 = target) = x
  BY <1>1
<1> QED BY <1>4, <1>5, <1>6 DEF w

\* On every day, whatever words and dates are typed and whatever weekend and
\* holidays are set, "next week" is five days from a Monday after today, a
\* weekday is its first day after today, and the working days reported for a
\* window are exactly the days of it that are worked (resolveRelative, Count).
THEOREM PhrasesAreRead == Spec => []PhrasesRead
<1>1. IInv => PhrasesRead
  <2> SUFFICES ASSUME IInv, NEW d \in Day(now)..(Day(now) + 13)
               PROVE  /\ LET w == ResolveWord(MidMorning(d), "next week") IN
                            /\ Day(w.start) \in (d + 1)..(d + 7)
                            /\ Day(w.start) % 7 = Monday
                            /\ DaysOf(w) = Day(w.start)..(Day(w.start) + 4)
                      /\ \A target \in 0..6 :
                            DaysOf(ResolveWeekday(MidMorning(d), target)) =
                                {CHOOSE x \in (d + 1)..(d + 7) : x % 7 = target}
                      /\ \A w \in Accepted(MidMorning(d)) :
                            Count(w) = Cardinality({x \in DaysOf(w) : IsWorkday(x)})
    BY DEF PhrasesRead
  <2>1. d \in Nat
    <3>1. now \in Nat
      BY TimeIsNat DEF IInv
    <3> QED BY <3>1 DEF Day, DayLen
  <2>2. ASSUME NEW w \in Accepted(MidMorning(d))
        PROVE  Count(w) = Cardinality({x \in DaysOf(w) : IsWorkday(x)})
    <3>1. w.start \in Nat /\ w.end \in Int
      BY <2>1, WindowStart
    <3> QED BY <3>1, CountIs, WorkdaysOf
  <2> QED BY <2>1, <2>2, NextWeekIs, WeekdayIs
<1> QED BY InitInv, NextInv, <1>1, PTL DEF Spec
=============================================================================
