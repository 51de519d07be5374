--------------------------- MODULE SlackApproval ----------------------------
(***************************************************************************)
(* The Slack server in per-user mode: slash commands run as the person who *)
(* typed them, Approve and Decline buttons run as the owner of the hold,   *)
(* and a poll loop that runs one daemon pass per linked user.  Each of     *)
(* them is a goroutine that shells out to vamoose, so each is several      *)
(* steps, and a step may find what an earlier one read changed: the owner  *)
(* unlinked, the hold withdrawn, the approver's mind.                      *)
(*                                                                         *)
(* Code: internal/slack/slack.go, cmd/slack.go, cmd/promote.go and         *)
(* cmd/cancel.go as run by a click.  One daemon pass over a user's file is *)
(* one step here; its own steps and its race with addWatch are in Daemon.  *)
(***************************************************************************)
EXTENDS Naturals, FiniteSets

CONSTANTS
    People,         \* Slack users who link a calendar and ask for time off
    Approver,       \* the Slack user the workflow sends holds to
    Server,         \* the identity of the server's own environment
    Providers,
    ServerProvider, \* the provider that environment selects
    SignedIn,       \* providers the server's own environment is signed in to
    Reports,        \* providers that report an attendee's answer
    Holds,          \* hold ids
    Nothing,        \* no link, no calendar, no hold
    Jobs,           \* goroutines running at once
    Budgets         \* bounds on commands typed, links and unlinks, answers on
                    \* the calendar, clicks, and runs cut short or calls that fail

ASSUME SlackAssumption ==
    /\ Approver \notin People /\ Server \notin People \cup {Approver}
    /\ ServerProvider \in Providers
    /\ SignedIn \subseteq Providers /\ Reports \subseteq Providers
    /\ Nothing \notin Providers \cup Holds \cup People
    /\ Nothing \notin (People \cup {Server}) \X Providers
    /\ Budgets \subseteq
        [commands : Nat, links : Nat, answers : Nat, clicks : Nat, kills : Nat]

VARIABLES
    installed,  \* the workspace's bot token is stored
    links,      \* the provider each user linked
    calendar,   \* the account each hold is on, or Nothing
    team,       \* holds the team was added to
    answer,     \* the approver's answer on the calendar, per hold
    watchFile,  \* the watch file of each user, and the server's own
    buttons,    \* messages with buttons
    jobs,       \* the goroutines
    round,      \* the users the poll loop has still to serve this minute
    left,       \* what is left of each bound
    made,       \* history: holds ever created
    watched,    \* history: holds a run has put on a watch file
    accepted,   \* history: holds the approver once accepted
    decisions,  \* history: who a hold was promoted or deleted for
    said        \* history: what the edited messages claim

holdVars == <<calendar, team, answer>>
history == <<made, watched, accepted, decisions, said>>
vars == <<installed, links, holdVars, watchFile, buttons, jobs, round, left, history>>

-----------------------------------------------------------------------------
Accounts == (People \cup {Server}) \X Providers
Acts == {"approve", "decline"}
\* What a button carries, signed: the hold, its owner, who may click.
Payload(h, u) == [hold |-> h, owner |-> u, approver |-> Approver]

\* A goroutine: the phase its command is in, whom it runs for, the payload it
\* acts on and the account its command opens.
NoPayload == [hold |-> Nothing, owner |-> Nothing, approver |-> Nothing]
Idle == [at |-> "idle", by |-> Nothing, act |-> Nothing, hold |-> Nothing,
         msg |-> NoPayload, as |-> Nothing, ok |-> TRUE]

Phases == {"create", "watch", "get", "promote", "delete", "forget"}

\* The account userEnv gives a command of u; mint says the refresh worked.
AccountOf(u, mint) ==
    IF links[u] # Nothing /\ mint THEN <<u, links[u]>> ELSE Nothing

\* A click whose owner has no account runs in the server's own environment.
ActAs(u, mint) ==
    IF AccountOf(u, mint) # Nothing THEN AccountOf(u, mint)
    ELSE IF ServerProvider \in SignedIn THEN <<Server, ServerProvider>>
    ELSE Nothing

\* What a pass for u opens for an item of provider p: the link's token is for
\* one provider, the server's own sign-in for the others.
Opens(u, p) ==
    IF p = links[u] THEN <<u, p>>
    ELSE IF p \in SignedIn THEN <<Server, p>>
    ELSE Nothing

\* The approver's answer as a command reads it.
Seen(a, h) == IF a[2] \in Reports THEN answer[h] ELSE "needed"

Use(what) == left[what] > 0 /\ left' = [left EXCEPT ![what] = @ - 1]
MayFail(fails) == IF fails THEN Use("kills") ELSE UNCHANGED left

\* A new goroutine; which one is all the same.
Spare == {j \in Jobs : jobs[j].at = "idle"}
Start(job) ==
    /\ Spare # {}
    /\ LET j == CHOOSE k \in Spare : TRUE IN jobs' = [jobs EXCEPT ![j] = job]

Goto(j, phase) == jobs' = [jobs EXCEPT ![j].at = phase]
Finish(j) == jobs' = [jobs EXCEPT ![j] = Idle]

-----------------------------------------------------------------------------
(* Commands typed in Slack. *)

\* "run --watch" or "off", dispatched to a goroutine.
HandleCommand(u, act) ==
    /\ Use("commands")
    /\ Start([Idle EXCEPT !.at = "env", !.by = u, !.act = act])
    /\ UNCHANGED <<installed, links, holdVars, watchFile, buttons, round, history>>

\* Without an account the user is told to link one, and that is all.
RunAsUser(j, mint) ==
    LET a == AccountOf(jobs[j].by, mint) IN
    /\ jobs[j].at = "env"
    /\ IF a = Nothing THEN Finish(j)
       ELSE jobs' = [jobs EXCEPT ![j].at = "create", ![j].as = a]
    /\ MayFail(~mint)
    /\ UNCHANGED <<installed, links, holdVars, watchFile, buttons, round, history>>

CreateHold(j, h) ==
    /\ jobs[j].at = "create"
    /\ h \notin made
    /\ calendar' = [calendar EXCEPT ![h] = jobs[j].as]
    /\ made' = made \cup {h}
    /\ jobs' = [jobs EXCEPT ![j].at = IF jobs[j].act = "run" THEN "watch" ELSE "reply",
                            ![j].hold = h]
    /\ UNCHANGED <<installed, links, team, answer, watchFile, buttons, round, left,
                   watched, accepted, decisions, said>>

AddWatch(j) ==
    LET b == jobs[j] IN
    /\ b.at = "watch"
    /\ watchFile' = [watchFile EXCEPT ![b.by] = @ \cup {<<b.as[2], b.hold>>}]
    /\ watched' = watched \cup {b.hold}
    /\ Goto(j, "reply")
    /\ UNCHANGED <<installed, links, holdVars, buttons, round, left,
                   made, accepted, decisions, said>>

\* The command's output becomes a message with buttons, if the approver's
\* Slack id can be looked up with the workspace's token.
Reply(j) ==
    /\ jobs[j].at = "reply"
    /\ buttons' = IF installed THEN buttons \cup {Payload(jobs[j].hold, jobs[j].by)}
                  ELSE buttons
    /\ Finish(j)
    /\ UNCHANGED <<installed, links, holdVars, watchFile, round, left, history>>

Install ==
    /\ ~installed
    /\ installed' = TRUE
    /\ UNCHANGED <<links, holdVars, watchFile, buttons, jobs, round, left, history>>

-----------------------------------------------------------------------------
(* Clicks. *)

HandleInteractivity(b, who, act) ==
    /\ Use("clicks")
    /\ Start([Idle EXCEPT !.at = "click", !.by = who, !.act = act,
                          !.hold = b.hold, !.msg = b])
    /\ UNCHANGED <<installed, links, holdVars, watchFile, buttons, round, history>>

StartAction(j, mint) ==
    LET b == jobs[j] IN
    /\ jobs' = [jobs EXCEPT ![j].at = IF b.act = "approve" THEN "get" ELSE "delete",
                            ![j].as = ActAs(b.msg.owner, mint)]
    /\ MayFail(~mint)
    /\ UNCHANGED <<installed, links, holdVars, watchFile, buttons, round, history>>

\* Mutant of RunAction: the clicker is not compared with the approver.
RunActionAnyone(j, mint) == jobs[j].at = "click" /\ StartAction(j, mint)

\* Only the approver bound to the button gets further.
RunAction(j, mint) ==
    /\ jobs[j].at = "click"
    /\ \/ jobs[j].by = jobs[j].msg.approver /\ StartAction(j, mint)
       \/ /\ jobs[j].by # jobs[j].msg.approver
          /\ mint
          /\ Finish(j)
          /\ UNCHANGED <<installed, links, holdVars, watchFile, buttons, round, left, history>>

\* Mutant of Fail: the error of the command is not looked at.
FailUnseen(j) == jobs' = [jobs EXCEPT ![j].at = "tell"]

\* The command behind a click ends with an error.
Fail(j) == jobs' = [jobs EXCEPT ![j].at = "tell", ![j].ok = FALSE]

GetHold(j) ==
    LET b == jobs[j] IN
    /\ b.at = "get"
    /\ IF b.as # Nothing /\ calendar[b.hold] = b.as /\ Seen(b.as, b.hold) = "accepted"
       THEN Goto(j, "promote")
       ELSE Fail(j)
    /\ UNCHANGED <<installed, links, holdVars, watchFile, buttons, round, left, history>>

Decide(how, who, act, h) == [by |-> how, who |-> who, act |-> act, hold |-> h]

\* The update reaches the hold only if it is still there.
PromoteHold(j) ==
    LET b == jobs[j] IN
    /\ b.at = "promote"
    /\ \/ /\ calendar[b.hold] = b.as
          /\ team' = team \cup {b.hold}
          /\ decisions' = decisions \cup {Decide("click", b.by, "approve", b.hold)}
          /\ Goto(j, "tell")
       \/ /\ calendar[b.hold] # b.as
          /\ Fail(j)
          /\ UNCHANGED <<team, decisions>>
    /\ UNCHANGED <<installed, links, calendar, answer, watchFile, buttons, round, left,
                   made, watched, accepted, said>>

DeleteHold(j) ==
    LET b == jobs[j] IN
    /\ b.at = "delete"
    /\ \/ /\ b.as # Nothing /\ calendar[b.hold] = b.as
          /\ calendar' = [calendar EXCEPT ![b.hold] = Nothing]
          /\ decisions' = decisions \cup {Decide("click", b.by, "decline", b.hold)}
          /\ Goto(j, "forget")
       \/ /\ b.as = Nothing \/ calendar[b.hold] # b.as
          /\ Fail(j)
          /\ UNCHANGED <<calendar, decisions>>
    /\ UNCHANGED <<installed, links, team, answer, watchFile, buttons, round, left,
                   made, watched, accepted, said>>

\* A click's command has the server's own watch file, whoever it runs as.
ForgetHold(j) ==
    LET b == jobs[j] IN
    /\ b.at = "forget"
    /\ watchFile' = [watchFile EXCEPT ![Server] = @ \ {<<b.as[2], b.hold>>}]
    /\ Goto(j, "tell")
    /\ UNCHANGED <<installed, links, holdVars, buttons, round, left, history>>

\* The message is replaced, buttons and all.
Tell(j) ==
    LET b == jobs[j] IN
    /\ b.at = "tell"
    /\ buttons' = buttons \ {b.msg}
    /\ said' = IF b.ok THEN said \cup {<<b.hold, b.act>>} ELSE said
    /\ Finish(j)
    /\ UNCHANGED <<installed, links, holdVars, watchFile, round, left,
                   made, watched, accepted, decisions>>

\* runTimeout ends the command, or one of its calls fails: a typed command is
\* reported as failed, a click's message edited.
Killed(j) ==
    /\ jobs[j].at \in Phases
    /\ IF jobs[j].act \in Acts THEN Fail(j) ELSE Finish(j)
    /\ Use("kills")
    /\ UNCHANGED <<installed, links, holdVars, watchFile, buttons, round, history>>

-----------------------------------------------------------------------------
(* The poll loop. *)

Linked == {u \in People : links[u] # Nothing}

\* Mutant of PollStart: one user a minute.
PollStartOne ==
    /\ round = {}
    /\ Linked # {}
    /\ round' = {CHOOSE u \in Linked : TRUE}
    /\ UNCHANGED <<installed, links, holdVars, watchFile, buttons, jobs, left, history>>

PollStart ==
    /\ round = {}
    /\ Linked # {}
    /\ round' = Linked
    /\ UNCHANGED <<installed, links, holdVars, watchFile, buttons, jobs, left, history>>

\* A user who unlinked meanwhile, or whose refresh fails, is passed over.
PollSkip(u) ==
    /\ u \in round
    /\ MayFail(links[u] # Nothing)
    /\ round' = round \ {u}
    /\ UNCHANGED <<installed, links, holdVars, watchFile, buttons, jobs, history>>

\* Mutant of Gone: an error of any kind reads as a hold that is not there.
GoneOnError(u, x) == Opens(u, x[1]) = Nothing \/ calendar[x[2]] # Opens(u, x[1])

\* An item leaves the list when its calendar can be opened and has no such hold.
Gone(u, x) == Opens(u, x[1]) # Nothing /\ calendar[x[2]] # Opens(u, x[1])

\* The gate's answer, for an item whose hold a pass has fetched.
Verdict(u, x) ==
    IF Opens(u, x[1]) # Nothing /\ calendar[x[2]] = Opens(u, x[1])
    THEN Seen(Opens(u, x[1]), x[2]) ELSE "needed"

\* "daemon --once" as u, over u's watch file: an acceptance adds the team, a
\* decline ends the watch.
PollUser(u) ==
    LET items == watchFile[u]
        yes == {x \in items : Verdict(u, x) = "accepted"}
        over == yes \cup {x \in items : Verdict(u, x) = "declined" \/ Gone(u, x)}
    IN
    /\ u \in round
    /\ links[u] # Nothing
    /\ round' = round \ {u}
    /\ team' = team \cup {x[2] : x \in yes}
    /\ decisions' = decisions \cup {Decide("poll", u, "approve", x[2]) : x \in yes}
    /\ watchFile' = [watchFile EXCEPT ![u] = items \ over]
    /\ UNCHANGED <<installed, links, calendar, answer, buttons, jobs, left,
                   made, watched, accepted, said>>

-----------------------------------------------------------------------------
(* Users and the approver. *)

SetLink(u, p) ==
    /\ Use("links")
    /\ links' = [links EXCEPT ![u] = p]
    /\ UNCHANGED <<installed, holdVars, watchFile, buttons, jobs, round, history>>

HandleUnlink(u) == links[u] # Nothing /\ SetLink(u, Nothing)

Link(u, p) == links[u] # p /\ SetLink(u, p)

Answer(h, r) ==
    /\ calendar[h] # Nothing
    /\ answer[h] # r
    /\ Use("answers")
    /\ answer' = [answer EXCEPT ![h] = r]
    /\ accepted' = IF r = "accepted" THEN accepted \cup {h} ELSE accepted
    /\ UNCHANGED <<installed, links, calendar, team, watchFile, buttons, jobs, round,
                   made, watched, decisions, said>>

Init ==
    /\ installed = FALSE
    /\ links = [u \in People |-> Nothing]
    /\ calendar = [h \in Holds |-> Nothing]
    /\ team = {}
    /\ answer = [h \in Holds |-> "needed"]
    /\ watchFile = [u \in People \cup {Server} |-> {}]
    /\ buttons = {}
    /\ jobs = [j \in Jobs |-> Idle]
    /\ round = {}
    /\ left \in Budgets
    /\ made = {} /\ watched = {} /\ accepted = {} /\ decisions = {} /\ said = {}

\* What a goroutine does next; once started it is not held up for ever.
Work(j) ==
    \/ \E mint \in BOOLEAN : RunAsUser(j, mint) \/ RunAction(j, mint)
    \/ \E h \in Holds : CreateHold(j, h)
    \/ AddWatch(j) \/ Reply(j)
    \/ GetHold(j) \/ PromoteHold(j) \/ DeleteHold(j) \/ ForgetHold(j) \/ Tell(j)

Next ==
    \/ \E j \in Jobs : Work(j) \/ Killed(j)
    \/ \E u \in People, act \in {"run", "off"} : HandleCommand(u, act)
    \/ \E b \in buttons, who \in People \cup {Approver}, act \in Acts :
            HandleInteractivity(b, who, act)
    \/ Install
    \/ PollStart
    \/ \E u \in People : PollSkip(u) \/ PollUser(u) \/ HandleUnlink(u)
    \/ \E u \in People, p \in Providers : Link(u, p)
    \/ \E h \in Holds, r \in {"accepted", "declined"} : Answer(h, r)

Spec == Init /\ [][Next]_vars

\* The server keeps its goroutines and its minute ticker running; a pass that
\* is not skipped for an error runs.
FairSpec ==
    /\ Spec
    /\ WF_vars(PollStart)
    /\ \A u \in People : WF_vars(PollSkip(u) \/ PollUser(u))
    /\ \A j \in Jobs : WF_vars(Work(j))

-----------------------------------------------------------------------------
\* A hold is promoted or deleted through Slack by the approver it was sent
\* to and by nobody else in the channel, and the team is added to it only if
\* the approver once accepted, whichever of a click and a poll came first and
\* whatever became of the answer or the link meanwhile (runAction, promote).
OnlyTheApprover ==
    /\ \A d \in decisions :
        /\ d.by = "click" => d.who = Approver
        /\ d.act = "approve" => d.hold \in accepted
    /\ \A h \in made : h \in team \/ calendar[h] = Nothing => \E d \in decisions : d.hold = h

\* What the edited message tells the channel is so: "Approved." over a hold
\* the team has, "Declined." over one that is gone from the calendar, even
\* when the command behind it ran as the wrong account or was killed
\* (runAction's text).
SaidIsSo ==
    \A c \in said :
        /\ c[2] = "approve" => c[1] \in team
        /\ c[2] = "decline" => calendar[c[1]] = Nothing

\* A hold a run has put on watch stays on its owner's file, under the
\* provider that holds it, until the approver answers or it leaves the
\* calendar: neither clicks, nor another user's pass, nor unlinking and
\* linking another provider drop it.  The exception is a provider the server
\* itself is signed in to (Opens), where a pass looks in the wrong calendar.
WatchedUntilDecided ==
    \A h \in watched, a \in Accounts :
        calendar[h] = a /\ answer[h] = "needed" /\ a[2] \notin SignedIn
        => <<a[2], h>> \in watchFile[a[1]]

\* A watched hold whose approver accepts reaches the team, or the approver
\* changes their mind, it is declined, or its owner moves to another link
\* (PollUsers).
AcceptedReachesTeam ==
    \A u \in People, p \in Reports, h \in Holds :
        (<<p, h>> \in watchFile[u] /\ calendar[h] = <<u, p>> /\ answer[h] = "accepted")
        ~> (h \in team \/ calendar[h] = Nothing \/ answer[h] # "accepted" \/ links[u] # p)

\* The documentation's claim for the button: a click by the approver on a
\* hold that is on the calendar the click opens is not refused for want of an
\* answer on the calendar, when nothing fails (docs/slack.md).
ApproveNeedsNoAccept ==
    \A j \in Jobs :
        LET b == jobs[j] IN
        ~ (b.at = "tell" /\ ~b.ok /\ b.act = "approve" /\ b.by = Approver
           /\ calendar[b.hold] = b.as)
=============================================================================
