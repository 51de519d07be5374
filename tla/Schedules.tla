----------------------------- MODULE Schedules ------------------------------
(***************************************************************************)
(* Recurring workflows: daemons that fire what is due in schedules.json,   *)
(* and commands (the command line, the dashboard, the agent server) that   *)
(* add and remove entries.  Nothing locks the file: each of them reads it  *)
(* whole and later writes it whole.                                        *)
(*                                                                         *)
(* Code: cmd/schedule.go, runDaemon (cmd/daemon.go) around it, and the     *)
(* lock of DaemonLock.  A time is kept as the distance from now, in ticks: *)
(* an entry's `in` is NextRun minus now.                                   *)
(***************************************************************************)
EXTENDS DaemonLock, SequencesExt

CONSTANTS
    Once,         \* the daemons run with --once
    Users,        \* the commands that may run at once
    Jobs,         \* workflow, provider, interval and phrase: what add compares
    Every,        \* the interval of each
    MaxSchedules, \* the code's maxSchedules
    MaxLate,      \* bound on how far past its time an entry is told apart
    MaxSpan,      \* bound on the ticks a pass lasts (pollItemTimeout each)
    MaxCommands,  \* bound on the commands given
    MaxRefusals,  \* bound on failed runs and interrupts
    MaxMishaps    \* bound on crashes and failed writes

ASSUME ScheduleAssumption ==
    /\ Every \in [Jobs -> Nat \ {0}]
    /\ {MaxSchedules, MaxLate, MaxSpan, MaxCommands, MaxRefusals, MaxMishaps} \subseteq Nat
    /\ Once \subseteq Daemons
    /\ Users \cap Daemons = {}

VARIABLES
    list,      \* schedules.json
    dpc,       \* what each daemon is at
    mem,       \* the list its pass loaded, entries fired so far advanced
    pos,       \* the entry of it the pass is at
    since,     \* the ticks since the pass read the clock
    stopped,   \* its context is cancelled
    upc,       \* what each command is at
    about,     \* the job it adds or removes
    seen,      \* the list it is about to write
    commands, refusals, mishaps,  \* how much of each bound is used
    told,      \* history: the jobs the commands said are scheduled
    stale,     \* history: who holds a copy of a list since overwritten
    clobbers,  \* history: the writes over a list other than the one read
    overlapped,\* history: two daemons have run at once
    gap,       \* history: the ticks since the clock reading a job last fired on
    early      \* history: how often it fired sooner than its interval

daemon == <<dpc, mem, pos, since, stopped>>
command == <<upc, about, seen>>
bounds == <<commands, refusals, mishaps>>
file == <<list, stale, clobbers>>
fires == <<gap, early>>

vars == <<lock, file, daemon, command, bounds, told, overlapped, fires>>

-----------------------------------------------------------------------------
Entry == {e \in [job : Jobs, in : Int] : -MaxLate <= e.in /\ e.in <= Every[e.job]}

\* The gap of a job that has not fired, or not for as long as matters.
Longest(j) == Every[j] + MaxSpan

JobsOf(l) == {l[i].job : i \in DOMAIN l}

IsList(l) ==
    /\ DOMAIN l = 1 .. Len(l)
    /\ \A i \in DOMAIN l : l[i] \in Entry

\* Past the lock: the daemons that poll.
Running == {d \in Daemons : dpc[d] \in {"ready", "firing", "idle"}}

TypeOK ==
    /\ LockTypeOK
    /\ IsList(list)
    /\ dpc \in [Daemons -> {"down", "open", "ready", "firing", "idle", "unlocked"}]
    /\ \A d \in Daemons : IsList(mem[d])
    /\ pos \in [Daemons -> 1 .. MaxSchedules + 1]
    /\ since \in [Daemons -> 0 .. MaxSpan]
    /\ stopped \in [Daemons -> BOOLEAN]
    /\ upc \in [Users -> {"idle", "adding", "removing"}]
    /\ about \in [Users -> SUBSET Jobs]
    /\ \A u \in Users : IsList(seen[u])
    /\ commands \in 0 .. MaxCommands
    /\ refusals \in 0 .. MaxRefusals
    /\ mishaps \in 0 .. MaxMishaps
    /\ told \subseteq Jobs
    /\ stale \subseteq Daemons \cup Users
    /\ clobbers \in Nat
    /\ overlapped \in BOOLEAN
    /\ \A j \in Jobs : gap[j] \in 0 .. Longest(j)
    /\ early \in [Jobs -> Nat]

Init ==
    /\ LockInit
    /\ list = <<>>
    /\ dpc = [d \in Daemons |-> "down"]
    /\ mem = [d \in Daemons |-> <<>>]
    /\ pos = [d \in Daemons |-> 1]
    /\ since = [d \in Daemons |-> 0]
    /\ stopped = [d \in Daemons |-> FALSE]
    /\ upc = [u \in Users |-> "idle"]
    /\ about = [u \in Users |-> {}]
    /\ seen = [u \in Users |-> <<>>]
    /\ commands = 0 /\ refusals = 0 /\ mishaps = 0
    /\ told = {} /\ stale = {} /\ clobbers = 0 /\ overlapped = FALSE
    /\ gap = [j \in Jobs |-> Longest(j)]
    /\ early = [j \in Jobs |-> 0]

-----------------------------------------------------------------------------
(* The file.                                                               *)

Later(x, n) == IF x - n < -MaxLate THEN -MaxLate ELSE x - n

Aged(l, n) == [i \in DOMAIN l |-> [l[i] EXCEPT !.in = Later(@, n)]]

Busy(p) == IF p \in Daemons THEN dpc[p] = "firing" ELSE upc[p] # "idle"

\* saveSchedules.
Write(p, l) ==
    /\ list' = l
    /\ stale' = {q \in Daemons \cup Users : q # p /\ Busy(q)}
    /\ clobbers' = IF p \in stale /\ ~overlapped THEN clobbers + 1 ELSE clobbers

\* A copy is given up without being written.
Forget(p) ==
    /\ stale' = stale \ {p}
    /\ UNCHANGED <<list, clobbers>>

-----------------------------------------------------------------------------
(* The daemon.                                                             *)

Goto(d, s) == dpc' = [dpc EXCEPT ![d] = s]

outside == <<command, bounds, told, fires>>

\* runDaemon up to its lock file.
Start(d) ==
    /\ dpc[d] = "down"
    /\ OpenLock(d)
    /\ Goto(d, "open")
    /\ UNCHANGED <<file, mem, pos, since, stopped, outside, overlapped>>

\* acquireDaemonLock: it runs, or another daemon does and it exits.
Enter(d) ==
    /\ dpc[d] = "open"
    /\ \/ /\ TakeLock(d)
          /\ Goto(d, "ready")
          /\ overlapped' = (overlapped \/ Running # {})
       \/ /\ LockHeld(d)
          /\ Goto(d, "down")
          /\ UNCHANGED overlapped
    /\ UNCHANGED <<file, mem, pos, since, stopped, outside>>

\* pollSchedules: the list is read, and then the clock.
Poll(d) ==
    /\ dpc[d] = "ready" \/ (dpc[d] = "idle" /\ d \notin Once)
    /\ IF list = <<>>
       THEN /\ Goto(d, "idle")
            /\ UNCHANGED <<mem, stale>>
       ELSE /\ Goto(d, "firing")
            /\ mem' = [mem EXCEPT ![d] = list]
            /\ stale' = stale \ {d}
    /\ UNCHANGED <<lock, list, clobbers, pos, since, stopped, outside, overlapped>>

AtEntry(d) == dpc[d] = "firing" /\ pos[d] <= Len(mem[d])
Due(d) == mem[d][pos[d]].in <= 0

\* Mutant: from the time it was due, missed intervals are made up for.
CatchesUp(e) == [e EXCEPT !.in = @ + Every[e.job]]

\* NextRun becomes the pass's clock reading plus the interval.
Advanced(e) == [e EXCEPT !.in = Every[e.job]]

Onward(d) == pos' = [pos EXCEPT ![d] = @ + 1]

\* The workflow runs, for however long that takes.
Fire(d) ==
    LET e == mem[d][pos[d]]
        j == e.job
    IN /\ AtEntry(d) /\ Due(d) /\ ~stopped[d]
       /\ mem' = [mem EXCEPT ![d][pos[d]] = Advanced(e)]
       /\ Onward(d)
       /\ gap' = [gap EXCEPT ![j] = since[d]]
       /\ early' = [early EXCEPT ![j] =
                       IF gap[j] - since[d] < Every[j] /\ ~overlapped THEN @ + 1 ELSE @]
       /\ UNCHANGED <<lock, file, dpc, since, stopped, command, bounds, told, overlapped>>

\* Mutant: an entry whose run fails is not put on the updated list.
FailDrops(d) ==
    /\ AtEntry(d) /\ Due(d) /\ ~stopped[d]
    /\ mem' = [mem EXCEPT ![d] = RemoveAt(@, pos[d])]
    /\ refusals < MaxRefusals /\ refusals' = refusals + 1
    /\ UNCHANGED <<lock, file, dpc, pos, since, stopped, command, commands, mishaps, told,
                   overlapped, fires>>

\* The workflow does not run; its entry is advanced all the same.  A cancelled
\* context fails each of them.
Fail(d) ==
    /\ AtEntry(d) /\ Due(d)
    /\ mem' = [mem EXCEPT ![d][pos[d]] = Advanced(@)]
    /\ Onward(d)
    /\ \/ stopped[d] /\ UNCHANGED refusals
       \/ ~stopped[d] /\ refusals < MaxRefusals /\ refusals' = refusals + 1
    /\ UNCHANGED <<lock, file, dpc, since, stopped, command, commands, mishaps, told,
                   overlapped, fires>>

Skip(d) ==
    /\ AtEntry(d) /\ ~Due(d)
    /\ Onward(d)
    /\ UNCHANGED <<lock, file, dpc, mem, since, stopped, outside, overlapped>>

\* The pass is over for d.
Rest(d) ==
    /\ mem' = [mem EXCEPT ![d] = <<>>]
    /\ pos' = [pos EXCEPT ![d] = 1]
    /\ since' = [since EXCEPT ![d] = 0]

\* The whole list is written back, or the write fails and the daemon goes on.
Save(d) ==
    /\ dpc[d] = "firing" /\ pos[d] > Len(mem[d])
    /\ \/ Write(d, Aged(mem[d], since[d])) /\ UNCHANGED mishaps
       \/ mishaps < MaxMishaps /\ mishaps' = mishaps + 1 /\ Forget(d)
    /\ Rest(d)
    /\ Goto(d, "idle")
    /\ UNCHANGED <<lock, stopped, command, commands, refusals, told, overlapped, fires>>

\* With --once, or interrupted: release unlocks ...
Leave(d) ==
    /\ dpc[d] = "idle"
    /\ d \in Once \/ stopped[d]
    /\ DropLock(d)
    /\ Goto(d, "unlocked")
    /\ stopped' = [stopped EXCEPT ![d] = FALSE]
    /\ UNCHANGED <<file, mem, pos, since, outside, overlapped>>

\* ... and acquireDaemonLock's release then removes the file.
Unname(d) ==
    /\ dpc[d] = "unlocked"
    /\ RemoveLock(d)
    /\ Goto(d, "down")
    /\ UNCHANGED <<file, mem, pos, since, stopped, outside, overlapped>>

\* SIGINT or SIGTERM.
Interrupt(d) ==
    /\ d \in Running /\ ~stopped[d]
    /\ refusals < MaxRefusals
    /\ refusals' = refusals + 1
    /\ stopped' = [stopped EXCEPT ![d] = TRUE]
    /\ UNCHANGED <<lock, file, dpc, mem, pos, since, command, commands, mishaps, told,
                   overlapped, fires>>

\* Mutant: a lock that outlives its process, such as a file that is there or not.
CrashKeepsLock(d) ==
    /\ dpc[d] # "down"
    /\ mishaps < MaxMishaps
    /\ mishaps' = mishaps + 1
    /\ fd' = [fd EXCEPT ![d] = NoInode]
    /\ Forget(d)
    /\ Rest(d)
    /\ Goto(d, "down")
    /\ stopped' = [stopped EXCEPT ![d] = FALSE]
    /\ UNCHANGED <<path, owner, command, commands, refusals, told, overlapped, fires>>

Crash(d) ==
    /\ dpc[d] # "down"
    /\ mishaps < MaxMishaps
    /\ mishaps' = mishaps + 1
    /\ DropLock(d)
    /\ Forget(d)
    /\ Rest(d)
    /\ Goto(d, "down")
    /\ stopped' = [stopped EXCEPT ![d] = FALSE]
    /\ UNCHANGED <<command, commands, refusals, told, overlapped, fires>>

-----------------------------------------------------------------------------
(* The commands.                                                           *)

inside == <<lock, daemon, overlapped>>

\* A copy of the list is made, as it will be written.
Take(u, verb, j, l) ==
    /\ upc[u] = "idle"
    /\ commands < MaxCommands
    /\ commands' = commands + 1
    /\ upc' = [upc EXCEPT ![u] = verb]
    /\ about' = [about EXCEPT ![u] = {j}]
    /\ seen' = [seen EXCEPT ![u] = l]
    /\ stale' = stale \ {u}
    /\ UNCHANGED <<inside, list, clobbers, refusals, mishaps, told, fires>>

\* Mutant: without the search for an identical schedule.
AddTwin(u, j) ==
    /\ Len(list) < MaxSchedules
    /\ Take(u, "adding", j, Append(list, [job |-> j, in |-> 0]))

\* addSchedule, past its two checks: the entry goes last, due now.
Add(u, j) ==
    /\ Len(list) < MaxSchedules
    /\ j \notin JobsOf(list)
    /\ Take(u, "adding", j, Append(list, [job |-> j, in |-> 0]))

\* removeScheduleAt; the caller has the index from an earlier look.
RemoveIndex(u, i) ==
    /\ i \in DOMAIN list
    /\ Take(u, "removing", list[i].job, RemoveAt(list, i))

Done(u) ==
    /\ upc' = [upc EXCEPT ![u] = "idle"]
    /\ about' = [about EXCEPT ![u] = {}]
    /\ seen' = [seen EXCEPT ![u] = <<>>]
    /\ UNCHANGED <<inside, bounds>>

\* The list is written and the user told.  A job that is added counts from
\* nothing: it is due at once.
Finish(u) ==
    /\ upc[u] # "idle"
    /\ Write(u, seen[u])
    /\ IF upc[u] = "adding"
       THEN /\ told' = told \cup about[u]
            /\ gap' = [j \in Jobs |-> IF j \in about[u] THEN Longest(j) ELSE gap[j]]
       ELSE /\ told' = told \ about[u]
            /\ UNCHANGED gap
    /\ Done(u)
    /\ UNCHANGED early

\* The write fails, or the command dies before it.
Abandon(u) ==
    /\ upc[u] # "idle"
    /\ Forget(u)
    /\ Done(u)
    /\ UNCHANGED <<told, fires>>

-----------------------------------------------------------------------------
Up(j) == IF gap[j] < Longest(j) THEN gap[j] + 1 ELSE gap[j]

Firing == {d \in Daemons : dpc[d] = "firing"}

Tick ==
    /\ \A d \in Firing : since[d] < MaxSpan
    /\ list' = Aged(list, 1)
    /\ seen' = [u \in Users |-> Aged(seen[u], 1)]
    /\ since' = [d \in Daemons |-> IF d \in Firing THEN since[d] + 1 ELSE since[d]]
    /\ gap' = [j \in Jobs |-> Up(j)]
    /\ UNCHANGED <<lock, stale, clobbers, dpc, mem, pos, stopped, upc, about, bounds, told,
                   overlapped, early>>

\* What a daemon does of itself.
Step(d) ==
    \/ Start(d) \/ Enter(d) \/ Poll(d)
    \/ Fire(d) \/ Fail(d) \/ Skip(d) \/ Save(d)
    \/ Leave(d) \/ Unname(d)

Next ==
    \/ \E d \in Daemons : Step(d) \/ Interrupt(d) \/ Crash(d)
    \/ \E u \in Users :
        \/ \E j \in Jobs : Add(u, j)
        \/ \E i \in 1 .. MaxSchedules : RemoveIndex(u, i)
        \/ Finish(u)
        \/ Abandon(u)
    \/ Tick

Spec == Init /\ [][Next]_vars

\* The poll loop is a ticker, every run in a pass has a deadline, and a service
\* manager starts the daemon again.  When the ticker and the interrupt are both
\* ready, select picks either, but not the ticker for ever.  Commands are given
\* as users please.
FairSpec ==
    /\ Spec
    /\ WF_vars(Tick)
    /\ \A d \in Daemons : WF_vars(Step(d)) /\ SF_vars(Leave(d))

-----------------------------------------------------------------------------
(* Properties.                                                             *)

\* However commands and passes write over each other, no schedule is on the
\* list, or in a pass, twice: it would fire twice (addSchedule).
ListSound ==
    \A l \in {list} \cup {mem[d] : d \in Daemons} : IsInjective([i \in DOMAIN l |-> l[i].job])

\* A schedule does not fire twice within its interval, nor catch up on what was
\* missed while nothing ran, but for one time after each crash or failed write
\* and each write over somebody else's, as long as no two daemons have polled at
\* once, from when early is not counted (fireSchedules, pollSchedules).
SpacedFires == \A j \in Jobs : early[j] <= mishaps + clobbers

\* As long as nobody wrote over a list he had not read, exactly what the users
\* were told is scheduled is on it: no pass drops an entry or brings one back
\* (pollSchedules, addSchedule, removeScheduleAt).
KeptAsTold == clobbers = 0 /\ ~overlapped => JobsOf(list) = told

\* What stays scheduled fires again and again, whatever stops, crashes and
\* fails a finite number of times (runDaemon, fireSchedules).
FiresEventually ==
    \A j \in Jobs : <>[](j \in JobsOf(list)) => []<><<gap'[j] < gap[j]>>_vars

\* One daemon at a time advances a watch file (acquireDaemonLock: "a second
\* daemon on the same watches exits with a clear error").
OneDaemon == \A d, e \in Running : LockOf[d] = LockOf[e] => d = e

\* Daemons with watch files of their own are not about to run the same schedule
\* (runDaemon: "per-user daemons with their own files ... do not collide").
NoCollision ==
    \A d, e \in Firing :
        /\ LockOf[d] # LockOf[e]
        /\ AtEntry(d) /\ AtEntry(e) /\ Due(d) /\ Due(e)
        => mem[d][pos[d]].job # mem[e][pos[e]].job

=============================================================================
