------------------------ MODULE SlackApprovalProofs -------------------------
(***************************************************************************)
(* What the Slack server promises of approvals, for any users, holds,      *)
(* goroutines and bounds: who decides, what the edited messages say, and   *)
(* what stays on the watch files.                                          *)
(*                                                                         *)
(* A goroutine acts on what it found out some steps before (Fit).  That is *)
(* still good when it acts because decisions are not taken back: a hold is *)
(* made once, an acceptance is remembered, the team stays on a hold, and a *)
(* hold that is gone does not return (Settled).                            *)
(***************************************************************************)
EXTENDS SlackApproval, TLAPS

Owners == People \cup {Server}
Payloads == [hold : Holds, owner : People, approver : {Approver}]
Clicking == {"click", "get", "promote", "delete", "forget", "tell"}

Job ==
    [at : Phases \cup {"idle", "env", "reply", "click", "tell"},
     by : People \cup {Approver, Nothing},
     act : Acts \cup {"run", "off", Nothing},
     hold : Holds \cup {Nothing}, msg : Payloads \cup {NoPayload},
     as : Accounts \cup {Nothing}, ok : BOOLEAN]

Stores ==
    /\ links \in [People -> Providers \cup {Nothing}]
    /\ calendar \in [Holds -> Accounts \cup {Nothing}]
    /\ answer \in [Holds -> {"needed", "accepted", "declined"}]
    /\ watchFile \in [Owners -> SUBSET (Providers \X Holds)]
    /\ buttons \subseteq Payloads

\* What is on the calendar, on a watch file's way there, or was decided, was
\* made; an answer of the calendar is on record.
Recorded ==
    /\ \A h \in Holds : calendar[h] # Nothing => h \in made
    /\ \A h \in Holds : answer[h] = "accepted" => h \in accepted
    /\ team \subseteq made /\ watched \subseteq made /\ made \subseteq Holds

\* What a goroutine acts on, as it is now.
Fit(b) ==
    /\ b.at \in {"env", "create", "watch", "reply"} =>
            b.by \in People /\ b.act \in {"run", "off"}
    /\ b.at \in {"create", "watch"} => b.as \in Accounts /\ b.as[1] = b.by
    /\ b.at \in {"watch", "reply"} => b.hold \in Holds
    /\ b.at = "watch" => b.hold \in made /\ calendar[b.hold] \in {b.as, Nothing}
    /\ b.at \in Clicking => b.act \in Acts /\ b.hold \in Holds /\ b.msg \in Payloads
    /\ b.at \in {"get", "promote", "delete", "forget"} => b.by = Approver
    /\ b.at \in {"get", "promote"} => b.act = "approve"
    /\ b.at \in {"delete", "forget"} => b.act = "decline"
    /\ b.at = "promote" => b.as \in Accounts /\ b.hold \in accepted
    /\ b.at = "forget" => b.as \in Accounts
    /\ b.at = "tell" /\ b.ok /\ b.act = "approve" => b.hold \in team
    /\ b.at = "forget" \/ (b.at = "tell" /\ b.ok /\ b.act = "decline") =>
            b.hold \in made /\ calendar[b.hold] = Nothing

\* What was said and is still so.
Told ==
    \A c \in said :
        /\ c[1] \in Holds
        /\ c[2] = "approve" => c[1] \in team
        /\ c[2] = "decline" => c[1] \in made /\ calendar[c[1]] = Nothing

IInv ==
    /\ Stores /\ Recorded /\ OnlyTheApprover /\ Told /\ WatchedUntilDecided
    /\ jobs \in [Jobs -> Job]
    /\ \A j \in Jobs : Fit(jobs[j])

\* What no step takes back.
Settled ==
    /\ made \subseteq made' /\ accepted \subseteq accepted' /\ team \subseteq team'
    /\ \A h \in made : calendar'[h] \in {calendar[h], Nothing}

-----------------------------------------------------------------------------
(* Goroutines.                                                             *)

LEMMA IdleIsJob == Idle \in Job /\ Idle.at = "idle"
BY DEF Idle, Job

LEMMA StaysFit ==
    ASSUME Settled, NEW b, Fit(b)
    PROVE  Fit(b)'
<1>1. /\ b.hold \in made => b.hold \in made' /\ calendar'[b.hold] \in {calendar[b.hold], Nothing}
      /\ b.hold \in accepted => b.hold \in accepted'
      /\ b.hold \in team => b.hold \in team'
  BY DEF Settled
<1> QED BY <1>1 DEF Fit

\* One goroutine goes on.
LEMMA JobBecomes ==
    ASSUME IInv, NEW j \in Jobs, NEW c \in Job, jobs' = [jobs EXCEPT ![j] = c]
    PROVE  /\ jobs' \in [Jobs -> Job] /\ jobs'[j] = c
           /\ \A k \in Jobs : k # j => jobs'[k] = jobs[k]
BY DEF IInv

LEMMA JobStep ==
    ASSUME IInv, NEW j \in Jobs, NEW c \in Job, jobs' = [jobs EXCEPT ![j] = c],
           Fit(jobs[j])', Settled,
           Stores', Recorded', OnlyTheApprover', Told', WatchedUntilDecided'
    PROVE  IInv'
<1>1. (\A k \in Jobs : Fit(jobs[k]))'
  <2> SUFFICES ASSUME NEW k \in Jobs, k # j PROVE Fit(jobs[k])'
    OBVIOUS
  <2>1. PICK b : b = jobs[k] OBVIOUS
  <2>2. jobs'[k] = b
    BY <2>1, JobBecomes
  <2>3. Fit(b)'
    BY <2>1, StaysFit DEF IInv
  <2> QED BY <2>2, <2>3 DEF Fit
<1> QED BY <1>1, JobBecomes DEF IInv

\* Nothing but the goroutine, the links and the buttons changes.
LEMMA JobOnly ==
    ASSUME IInv, NEW j \in Jobs, NEW c \in Job, jobs' = [jobs EXCEPT ![j] = c],
           Fit(jobs[j])', UNCHANGED <<links, holdVars, watchFile, history>>,
           buttons' \subseteq Payloads
    PROVE  IInv'
<1>1. Settled
  BY DEF Settled, holdVars, history
<1>2. Stores' /\ Recorded'
  BY DEF IInv, Stores, Recorded, holdVars, history
<1>3. OnlyTheApprover' /\ Told' /\ WatchedUntilDecided'
  BY DEF IInv, OnlyTheApprover, Told, WatchedUntilDecided, holdVars, history
<1> QED BY <1>1, <1>2, <1>3, JobStep

\* No goroutine moves.
LEMMA NoJob ==
    ASSUME IInv, UNCHANGED jobs, Settled,
           Stores', Recorded', OnlyTheApprover', Told', WatchedUntilDecided'
    PROVE  IInv'
<1>1. (\A k \in Jobs : Fit(jobs[k]))'
  <2> SUFFICES ASSUME NEW k \in Jobs PROVE Fit(jobs[k])'
    OBVIOUS
  <2>1. PICK b : b = jobs[k] OBVIOUS
  <2>2. Fit(b)'
    BY <2>1, StaysFit DEF IInv
  <2> QED BY <2>1, <2>2 DEF Fit
<1> QED BY <1>1 DEF IInv

\* What is known of a goroutine before a step.
LEMMA Known ==
    ASSUME IInv, NEW j \in Jobs
    PROVE  jobs[j] \in Job /\ Fit(jobs[j])
BY DEF IInv

LEMMA FinishInv ==
    ASSUME IInv, NEW j \in Jobs, Finish(j),
           UNCHANGED <<links, holdVars, watchFile, history>>, buttons' \subseteq Payloads
    PROVE  IInv'
<1>1. jobs' = [jobs EXCEPT ![j] = Idle] /\ Idle \in Job
  BY IdleIsJob DEF Finish
<1>2. Fit(jobs[j])'
  <2>1. jobs'[j] = Idle
    BY <1>1, JobBecomes
  <2> QED BY <2>1, IdleIsJob DEF Fit, Clicking
<1> QED BY <1>1, <1>2, JobOnly

LEMMA FailInv ==
    ASSUME IInv, NEW j \in Jobs, Fail(j), jobs[j].at \in Clicking,
           UNCHANGED <<links, holdVars, watchFile, buttons, history>>
    PROVE  IInv'
<1> DEFINE c == [jobs[j] EXCEPT !.at = "tell", !.ok = FALSE]
<1>1. /\ c \in Job /\ c.at = "tell" /\ ~ c.ok /\ c.act = jobs[j].act
      /\ c.hold = jobs[j].hold /\ c.msg = jobs[j].msg
  BY Known DEF Job
<1>2. jobs' = [jobs EXCEPT ![j] = c]
  BY DEF Fail
<1> HIDE DEF c
<1>3. Fit(jobs[j])'
  <2>1. jobs'[j] = c
    BY <1>1, <1>2, JobBecomes
  <2> QED BY <1>1, <2>1, Known DEF Fit, Clicking
<1>4. buttons' \subseteq Payloads
  BY DEF IInv, Stores
<1> QED BY <1>1, <1>2, <1>3, <1>4, JobOnly

LEMMA StartInv ==
    ASSUME IInv, NEW c \in Job, Start(c), Fit(c)',
           UNCHANGED <<links, holdVars, watchFile, buttons, history>>
    PROVE  IInv'
<1>1. PICK j \in Jobs : jobs' = [jobs EXCEPT ![j] = c]
  <2>1. (CHOOSE k \in Spare : TRUE) \in Jobs
    BY DEF Start, Spare
  <2> QED BY <2>1 DEF Start
<1>2. Fit(jobs[j])'
  <2>1. jobs'[j] = c
    BY <1>1, JobBecomes
  <2> QED BY <2>1 DEF Fit
<1>3. buttons' \subseteq Payloads
  BY DEF IInv, Stores
<1> QED BY <1>1, <1>2, <1>3, JobOnly

-----------------------------------------------------------------------------
(* Commands typed in Slack.                                                *)

LEMMA AccountIsOwn ==
    ASSUME IInv, NEW u \in People, NEW mint
    PROVE  /\ AccountOf(u, mint) \in Accounts \cup {Nothing}
           /\ AccountOf(u, mint) # Nothing => AccountOf(u, mint)[1] = u
<1>1. links[u] \in Providers \cup {Nothing}
  BY DEF IInv, Stores
<1> QED BY <1>1 DEF AccountOf, Accounts

LEMMA HandleCommandInv ==
    ASSUME IInv, NEW u \in People, NEW act \in {"run", "off"}, HandleCommand(u, act)
    PROVE  IInv'
<1> DEFINE c == [Idle EXCEPT !.at = "env", !.by = u, !.act = act]
<1>1. c \in Job /\ c.at = "env" /\ c.by = u /\ c.act = act
  BY DEF Idle, Job
<1>2. Start(c)
  BY DEF HandleCommand
<1> HIDE DEF c
<1>3. PICK d \in Job : d = c
  BY <1>1
<1>4. Fit(d)'
  BY <1>1, <1>3 DEF Fit, Clicking
<1> QED BY <1>2, <1>3, <1>4, StartInv DEF HandleCommand

LEMMA RunAsUserInv ==
    ASSUME IInv, NEW j \in Jobs, NEW mint \in BOOLEAN, RunAsUser(j, mint)
    PROVE  IInv'
<1> DEFINE a == AccountOf(jobs[j].by, mint)
           c == [jobs[j] EXCEPT !.at = "create", !.as = a]
<1>1. jobs[j].by \in People /\ jobs[j].act \in {"run", "off"}
  BY Known DEF RunAsUser, Fit
<1>2. a \in Accounts \cup {Nothing} /\ (a # Nothing => a[1] = jobs[j].by)
  BY <1>1, AccountIsOwn
<1>3. buttons' \subseteq Payloads /\ UNCHANGED <<links, holdVars, watchFile, history>>
  BY DEF RunAsUser, IInv, Stores
<1>4. CASE a = Nothing
  BY <1>3, <1>4, FinishInv DEF RunAsUser
<1>5. CASE a # Nothing
  <2>1. jobs' = [jobs EXCEPT ![j] = c]
    BY <1>5 DEF RunAsUser
  <2> HIDE DEF a
  <2>2. c \in Job /\ c.at = "create" /\ c.as = a /\ c.by = jobs[j].by /\ c.act = jobs[j].act
    BY <1>2, Known DEF Job, Phases
  <2> HIDE DEF c
  <2>3. Fit(jobs[j])'
    <3>1. jobs'[j] = c
      BY <2>1, <2>2, JobBecomes
    <3> QED BY <1>1, <1>2, <1>5, <2>2, <3>1 DEF Fit, Clicking
  <2> QED BY <1>3, <2>1, <2>2, <2>3, JobOnly
<1> QED BY <1>4, <1>5

LEMMA CreateHoldInv ==
    ASSUME IInv, NEW j \in Jobs, NEW h \in Holds, CreateHold(j, h)
    PROVE  IInv'
<1> DEFINE at == IF jobs[j].act = "run" THEN "watch" ELSE "reply"
           c == [jobs[j] EXCEPT !.at = at, !.hold = h]
<1>1. /\ jobs[j].by \in People /\ jobs[j].act \in {"run", "off"}
      /\ jobs[j].as \in Accounts /\ jobs[j].as[1] = jobs[j].by
  BY Known DEF CreateHold, Fit
<1>2. /\ jobs' = [jobs EXCEPT ![j] = c]
      /\ h \notin made /\ made' = made \cup {h}
      /\ calendar' = [calendar EXCEPT ![h] = jobs[j].as]
      /\ UNCHANGED <<links, team, answer, watchFile, buttons, watched, accepted, decisions, said>>
  BY DEF CreateHold
<1>3. /\ c \in Job /\ c.at \in {"watch", "reply"} /\ c.hold = h
      /\ c.as = jobs[j].as /\ c.by = jobs[j].by /\ c.act = jobs[j].act
  BY Known DEF Job, Phases
<1> HIDE DEF c
<1>4. calendar \in [Holds -> Accounts \cup {Nothing}]
  BY DEF IInv, Stores
<1>5. Nothing \notin Accounts
  BY SlackAssumption DEF Accounts
<1>6. Settled
  BY <1>2, <1>4 DEF Settled, IInv, Recorded
<1>7. Stores'
  BY <1>1, <1>2, <1>4 DEF IInv, Stores
<1>8. Recorded'
  BY <1>2, <1>4 DEF IInv, Recorded
<1>9. OnlyTheApprover'
  <2>1. \A g \in made' : g \in team' \/ calendar'[g] = Nothing => \E d \in decisions' : d.hold = g
    BY <1>1, <1>2, <1>4, <1>5 DEF IInv, Recorded, OnlyTheApprover
  <2> QED BY <1>2, <2>1 DEF IInv, OnlyTheApprover
<1>10. Told'
  BY <1>2, <1>4 DEF IInv, Told
<1>11. WatchedUntilDecided'
  BY <1>2, <1>4 DEF IInv, Recorded, WatchedUntilDecided
<1>12. Fit(jobs[j])'
  <2>1. jobs'[j] = c
    BY <1>2, <1>3, JobBecomes
  <2>2. calendar'[h] = jobs[j].as
    BY <1>2, <1>4
  <2> QED BY <1>1, <1>2, <1>3, <2>1, <2>2 DEF Fit, Clicking
<1> QED BY <1>2, <1>3, <1>6, <1>7, <1>8, <1>9, <1>10, <1>11, <1>12, JobStep

LEMMA AddWatchInv ==
    ASSUME IInv, NEW j \in Jobs, AddWatch(j)
    PROVE  IInv'
<1> DEFINE b == jobs[j]
           c == [jobs[j] EXCEPT !.at = "reply"]
<1>1. /\ b.by \in People /\ b.act \in {"run", "off"} /\ b.hold \in Holds
      /\ b.as \in Accounts /\ b.as[1] = b.by
      /\ b.hold \in made /\ calendar[b.hold] \in {b.as, Nothing}
  BY Known DEF AddWatch, Fit
<1>2. /\ jobs' = [jobs EXCEPT ![j] = c]
      /\ watchFile' = [watchFile EXCEPT ![b.by] = watchFile[b.by] \cup {<<b.as[2], b.hold>>}]
      /\ watched' = watched \cup {b.hold}
      /\ UNCHANGED <<links, calendar, team, answer, buttons, made, accepted, decisions, said>>
  BY DEF AddWatch, Goto, holdVars
<1>3. c \in Job /\ c.at = "reply" /\ c.hold = b.hold /\ c.by = b.by /\ c.act = b.act
  BY Known DEF Job
<1> HIDE DEF c
<1>4. /\ watchFile \in [Owners -> SUBSET (Providers \X Holds)] /\ b.by \in Owners
      /\ b.as[2] \in Providers
  BY <1>1 DEF IInv, Stores, Owners, Accounts
<1>5. /\ watchFile'[b.by] = watchFile[b.by] \cup {<<b.as[2], b.hold>>}
      /\ watchFile' \in [Owners -> SUBSET (Providers \X Holds)]
      /\ \A u \in Owners : watchFile[u] \subseteq watchFile'[u]
  BY <1>1, <1>2, <1>4
<1>6. Settled
  BY <1>2 DEF Settled
<1>7. Stores' /\ Recorded' /\ OnlyTheApprover' /\ Told'
  BY <1>1, <1>2, <1>5 DEF IInv, Stores, Recorded, OnlyTheApprover, Told
<1>8. WatchedUntilDecided'
  <2> SUFFICES ASSUME NEW h \in watched', NEW a \in Accounts,
                      calendar[h] = a, answer[h] = "needed", a[2] \notin SignedIn
               PROVE  <<a[2], h>> \in watchFile'[a[1]]
    BY <1>2 DEF WatchedUntilDecided
  <2>1. CASE h \in watched
    <3>1. <<a[2], h>> \in watchFile[a[1]] /\ a[1] \in Owners
      BY <2>1 DEF IInv, WatchedUntilDecided, Accounts, Owners
    <3> QED BY <1>5, <3>1
  <2>2. CASE h = b.hold
    <3>1. a = b.as
      BY <1>1, <2>2, SlackAssumption DEF Accounts
    <3> QED BY <1>1, <1>5, <2>2, <3>1
  <2> QED BY <1>2, <2>1, <2>2
<1>9. Fit(jobs[j])'
  <2>1. jobs'[j] = c
    BY <1>2, <1>3, JobBecomes
  <2> QED BY <1>1, <1>3, <2>1 DEF Fit, Clicking
<1> QED BY <1>2, <1>3, <1>6, <1>7, <1>8, <1>9, JobStep

LEMMA ReplyInv ==
    ASSUME IInv, NEW j \in Jobs, Reply(j)
    PROVE  IInv'
<1>1. jobs[j].by \in People /\ jobs[j].hold \in Holds
  BY Known DEF Reply, Fit
<1>2. Payload(jobs[j].hold, jobs[j].by) \in Payloads
  BY <1>1 DEF Payload, Payloads
<1>3. buttons' \subseteq Payloads
  BY <1>2 DEF Reply, IInv, Stores
<1> QED BY <1>3, FinishInv DEF Reply

-----------------------------------------------------------------------------
(* Clicks.                                                                 *)

LEMMA HandleInteractivityInv ==
    ASSUME IInv, NEW b \in buttons, NEW who \in People \cup {Approver}, NEW act \in Acts,
           HandleInteractivity(b, who, act)
    PROVE  IInv'
<1> DEFINE c == [Idle EXCEPT !.at = "click", !.by = who, !.act = act,
                             !.hold = b.hold, !.msg = b]
<1>1. b \in Payloads /\ b.hold \in Holds
  BY DEF IInv, Stores, Payloads
<1>2. /\ c \in Job /\ c.at = "click" /\ c.by = who /\ c.act = act
      /\ c.hold = b.hold /\ c.msg = b
  BY <1>1 DEF Idle, Job
<1>3. Start(c)
  BY DEF HandleInteractivity
<1> HIDE DEF c
<1>4. PICK d \in Job : d = c
  BY <1>2
<1>5. Fit(d)'
  BY <1>1, <1>2, <1>4 DEF Fit, Clicking
<1> QED BY <1>3, <1>4, <1>5, StartInv DEF HandleInteractivity

LEMMA ActsAsAccount ==
    ASSUME IInv, NEW u \in People, NEW mint
    PROVE  ActAs(u, mint) \in Accounts \cup {Nothing}
BY AccountIsOwn, SlackAssumption DEF ActAs, Accounts

\* Past the check of the clicker, whoever clicks is the approver.
LEMMA RunActionInv ==
    ASSUME IInv, NEW j \in Jobs, NEW mint \in BOOLEAN, RunAction(j, mint)
    PROVE  IInv'
<1> DEFINE b == jobs[j]
           a == ActAs(b.msg.owner, mint)
           at == IF b.act = "approve" THEN "get" ELSE "delete"
           c == [jobs[j] EXCEPT !.at = at, !.as = a]
<1>1. /\ b.act \in Acts /\ b.hold \in Holds /\ b.msg \in Payloads
      /\ b.msg.approver = Approver /\ b.msg.owner \in People
  BY Known DEF RunAction, Fit, Clicking, Payloads
<1>2. a \in Accounts \cup {Nothing}
  BY <1>1, ActsAsAccount
<1>3. buttons' \subseteq Payloads /\ UNCHANGED <<links, holdVars, watchFile, history>>
  BY DEF RunAction, StartAction, IInv, Stores
<1>4. CASE b.by = b.msg.approver /\ StartAction(j, mint)
  <2>1. jobs' = [jobs EXCEPT ![j] = c]
    BY <1>4 DEF StartAction
  <2>2. b.by = Approver
    BY <1>1, <1>4
  <2> HIDE DEF a
  <2>3. c \in Job /\ c.at = at /\ c.by = b.by /\ c.act = b.act /\ c.hold = b.hold /\ c.msg = b.msg
    BY <1>2, Known DEF Job, Phases
  <2> HIDE DEF c
  <2>4. Fit(jobs[j])'
    <3>1. jobs'[j] = c
      BY <2>1, <2>3, JobBecomes
    <3> QED BY <1>1, <2>2, <2>3, <3>1 DEF Fit, Clicking, Acts
  <2> QED BY <1>3, <2>1, <2>3, <2>4, JobOnly
<1>5. CASE Finish(j)
  BY <1>3, <1>5, FinishInv
<1> QED BY <1>4, <1>5 DEF RunAction

LEMMA GetHoldInv ==
    ASSUME IInv, NEW j \in Jobs, GetHold(j)
    PROVE  IInv'
<1> DEFINE b == jobs[j]
           c == [jobs[j] EXCEPT !.at = "promote"]
<1>1. /\ b.act = "approve" /\ b.act \in Acts /\ b.hold \in Holds /\ b.msg \in Payloads
      /\ b.by = Approver /\ b.at \in Clicking /\ b.as \in Accounts \cup {Nothing}
  BY Known DEF GetHold, Fit, Clicking, Job
<1>2. buttons' \subseteq Payloads /\ UNCHANGED <<links, holdVars, watchFile, history>>
  BY DEF GetHold, IInv, Stores
<1>3. CASE Fail(j)
  BY <1>1, <1>2, <1>3, FailInv DEF GetHold
<1>4. CASE /\ b.as # Nothing /\ calendar[b.hold] = b.as /\ Seen(b.as, b.hold) = "accepted"
           /\ Goto(j, "promote")
  <2>1. b.hold \in accepted'
    BY <1>1, <1>2, <1>4 DEF Seen, IInv, Recorded, history
  <2>2. jobs' = [jobs EXCEPT ![j] = c]
    BY <1>4 DEF Goto
  <2>3. /\ c \in Job /\ c.at = "promote" /\ c.by = b.by /\ c.act = b.act /\ c.hold = b.hold
        /\ c.msg = b.msg /\ c.as = b.as
    BY Known DEF Job, Phases
  <2> HIDE DEF c
  <2>4. Fit(jobs[j])'
    <3>1. jobs'[j] = c
      BY <2>2, <2>3, JobBecomes
    <3> QED BY <1>1, <1>4, <2>1, <2>3, <3>1 DEF Fit, Clicking
  <2> QED BY <1>2, <2>2, <2>3, <2>4, JobOnly
<1> QED BY <1>3, <1>4 DEF GetHold

LEMMA PromoteHoldInv ==
    ASSUME IInv, NEW j \in Jobs, PromoteHold(j)
    PROVE  IInv'
<1> DEFINE b == jobs[j]
           c == [jobs[j] EXCEPT !.at = "tell"]
           d == Decide("click", b.by, "approve", b.hold)
<1>1. /\ b.act = "approve" /\ b.act \in Acts /\ b.hold \in Holds /\ b.msg \in Payloads
      /\ b.by = Approver /\ b.at \in Clicking /\ b.as \in Accounts /\ b.hold \in accepted
  BY Known DEF PromoteHold, Fit, Clicking
<1>2. CASE Fail(j) /\ UNCHANGED <<team, decisions>>
  BY <1>1, <1>2, FailInv DEF PromoteHold, holdVars, history
<1>3. CASE /\ calendar[b.hold] = b.as /\ team' = team \cup {b.hold}
           /\ decisions' = decisions \cup {d} /\ Goto(j, "tell")
  <2>1. /\ jobs' = [jobs EXCEPT ![j] = c]
        /\ UNCHANGED <<links, calendar, answer, watchFile, buttons, made, watched, accepted, said>>
    BY <1>3 DEF Goto, PromoteHold
  <2>2. /\ c \in Job /\ c.at = "tell" /\ c.by = b.by /\ c.act = b.act /\ c.hold = b.hold
        /\ c.msg = b.msg
    BY Known DEF Job
  <2> HIDE DEF c
  <2>3. d.by = "click" /\ d.who = Approver /\ d.act = "approve" /\ d.hold = b.hold
    BY <1>1 DEF Decide
  <2> HIDE DEF d
  <2>4. b.hold \in made
    BY <1>1, <1>3, SlackAssumption DEF IInv, Recorded, Accounts
  <2>5. Settled /\ Stores' /\ Recorded' /\ Told' /\ WatchedUntilDecided'
    BY <1>3, <2>1, <2>4 DEF Settled, IInv, Stores, Recorded, Told, WatchedUntilDecided
  <2>6. OnlyTheApprover'
    BY <1>1, <1>3, <2>1, <2>3 DEF IInv, OnlyTheApprover
  <2>7. Fit(jobs[j])'
    <3>1. jobs'[j] = c
      BY <2>1, <2>2, JobBecomes
    <3> QED BY <1>1, <1>3, <2>2, <3>1 DEF Fit, Clicking
  <2> QED BY <2>1, <2>2, <2>5, <2>6, <2>7, JobStep
<1> QED BY <1>2, <1>3 DEF PromoteHold

LEMMA DeleteHoldInv ==
    ASSUME IInv, NEW j \in Jobs, DeleteHold(j)
    PROVE  IInv'
<1> DEFINE b == jobs[j]
           c == [jobs[j] EXCEPT !.at = "forget"]
           d == Decide("click", b.by, "decline", b.hold)
<1>1. /\ b.act = "decline" /\ b.act \in Acts /\ b.hold \in Holds /\ b.msg \in Payloads
      /\ b.by = Approver /\ b.at \in Clicking /\ b.as \in Accounts \cup {Nothing}
  BY Known DEF DeleteHold, Fit, Clicking, Job
<1>2. CASE Fail(j) /\ UNCHANGED <<calendar, decisions>>
  BY <1>1, <1>2, FailInv DEF DeleteHold, holdVars, history
<1>3. CASE /\ b.as # Nothing /\ calendar[b.hold] = b.as
           /\ calendar' = [calendar EXCEPT ![b.hold] = Nothing]
           /\ decisions' = decisions \cup {d} /\ Goto(j, "forget")
  <2>1. /\ jobs' = [jobs EXCEPT ![j] = c]
        /\ UNCHANGED <<links, team, answer, watchFile, buttons, made, watched, accepted, said>>
    BY <1>3 DEF Goto, DeleteHold
  <2>2. /\ c \in Job /\ c.at = "forget" /\ c.by = b.by /\ c.act = b.act /\ c.hold = b.hold
        /\ c.msg = b.msg /\ c.as = b.as
    BY Known DEF Job, Phases
  <2> HIDE DEF c
  <2>3. d.by = "click" /\ d.who = Approver /\ d.act = "decline" /\ d.hold = b.hold
    BY <1>1 DEF Decide
  <2> HIDE DEF d
  <2>4. b.hold \in made /\ calendar \in [Holds -> Accounts \cup {Nothing}]
    BY <1>1, <1>3 DEF IInv, Recorded, Stores
  <2>5. Settled /\ Stores' /\ Recorded' /\ Told'
    BY <1>1, <1>3, <2>1, <2>4 DEF Settled, IInv, Stores, Recorded, Told
  <2>6. OnlyTheApprover'
    BY <1>1, <1>3, <2>1, <2>3, <2>4 DEF IInv, OnlyTheApprover, Recorded
  <2>7. WatchedUntilDecided'
    <3>1. Nothing \notin Accounts
      BY SlackAssumption DEF Accounts
    <3> QED BY <1>3, <2>1, <2>4, <3>1 DEF IInv, WatchedUntilDecided, Recorded
  <2>8. Fit(jobs[j])'
    <3>1. jobs'[j] = c
      BY <2>1, <2>2, JobBecomes
    <3> QED BY <1>1, <1>3, <2>1, <2>2, <2>4, <3>1 DEF Fit, Clicking
  <2> QED BY <2>1, <2>2, <2>5, <2>6, <2>7, <2>8, JobStep
<1> QED BY <1>2, <1>3 DEF DeleteHold

\* What a click takes off a watch file is gone from the calendar.
LEMMA ForgetHoldInv ==
    ASSUME IInv, NEW j \in Jobs, ForgetHold(j)
    PROVE  IInv'
<1> DEFINE b == jobs[j]
           c == [jobs[j] EXCEPT !.at = "tell"]
           x == <<b.as[2], b.hold>>
<1>1. /\ b.act = "decline" /\ b.act \in Acts /\ b.hold \in Holds /\ b.msg \in Payloads
      /\ b.as \in Accounts /\ b.hold \in made /\ calendar[b.hold] = Nothing
  BY Known DEF ForgetHold, Fit, Clicking
<1>2. /\ jobs' = [jobs EXCEPT ![j] = c]
      /\ watchFile' = [watchFile EXCEPT ![Server] = watchFile[Server] \ {x}]
      /\ UNCHANGED <<links, calendar, team, answer, buttons, made, watched, accepted,
                     decisions, said>>
  BY DEF Goto, ForgetHold, holdVars, history
<1>3. c \in Job /\ c.at = "tell" /\ c.act = b.act /\ c.hold = b.hold /\ c.msg = b.msg
  BY Known DEF Job
<1> HIDE DEF c
<1>4. watchFile \in [Owners -> SUBSET (Providers \X Holds)] /\ Server \in Owners
  BY DEF IInv, Stores, Owners
<1>5. watchFile' \in [Owners -> SUBSET (Providers \X Holds)]
  BY <1>2, <1>4
<1>6. Settled /\ Stores' /\ Recorded' /\ OnlyTheApprover' /\ Told'
  BY <1>2, <1>5 DEF Settled, IInv, Stores, Recorded, OnlyTheApprover, Told
<1>7. WatchedUntilDecided'
  <2> SUFFICES ASSUME NEW h \in watched, NEW a \in Accounts,
                      calendar[h] = a, answer[h] = "needed", a[2] \notin SignedIn
               PROVE  <<a[2], h>> \in watchFile'[a[1]]
    BY <1>2 DEF WatchedUntilDecided
  <2>1. <<a[2], h>> \in watchFile[a[1]] /\ a[1] \in Owners
    BY DEF IInv, WatchedUntilDecided, Accounts, Owners
  <2>2. h # b.hold
    BY <1>1, SlackAssumption DEF Accounts
  <2>3. <<a[2], h>> # x
    BY <2>2
  <2> QED BY <1>2, <1>4, <2>1, <2>3
<1>8. Fit(jobs[j])'
  <2>1. jobs'[j] = c
    BY <1>2, <1>3, JobBecomes
  <2> QED BY <1>1, <1>2, <1>3, <2>1 DEF Fit, Clicking
<1> QED BY <1>2, <1>3, <1>6, <1>7, <1>8, JobStep

\* What a message says is so when it is said.
LEMMA TellInv ==
    ASSUME IInv, NEW j \in Jobs, Tell(j)
    PROVE  IInv'
<1> DEFINE b == jobs[j]
<1>1. /\ b.hold \in Holds /\ b.ok /\ b.act = "approve" => b.hold \in team
      /\ b.ok /\ b.act = "decline" => b.hold \in made /\ calendar[b.hold] = Nothing
      /\ b.hold \in Holds
  BY Known DEF Tell, Fit, Clicking
<1>2. /\ jobs' = [jobs EXCEPT ![j] = Idle] /\ buttons' \subseteq buttons
      /\ said' = IF b.ok THEN said \cup {<<b.hold, b.act>>} ELSE said
      /\ UNCHANGED <<links, calendar, team, answer, watchFile, made, watched, accepted, decisions>>
  BY DEF Tell, Finish, holdVars
<1>3. Settled /\ Stores' /\ Recorded' /\ OnlyTheApprover' /\ WatchedUntilDecided'
  BY <1>2 DEF Settled, IInv, Stores, Recorded, OnlyTheApprover, WatchedUntilDecided
<1>4. Told'
  <2> SUFFICES ASSUME NEW s \in said'
               PROVE  /\ s[1] \in Holds
                      /\ s[2] = "approve" => s[1] \in team
                      /\ s[2] = "decline" => s[1] \in made /\ calendar[s[1]] = Nothing
    BY <1>2 DEF Told
  <2>1. CASE s \in said
    BY <2>1 DEF IInv, Told
  <2>2. CASE b.ok /\ s = <<b.hold, b.act>>
    BY <1>1, <2>2
  <2> QED BY <1>2, <2>1, <2>2
<1>5. Fit(jobs[j])'
  <2>1. jobs'[j] = Idle
    BY <1>2, IdleIsJob, JobBecomes
  <2> QED BY <2>1, IdleIsJob DEF Fit, Clicking
<1> QED BY <1>2, <1>3, <1>4, <1>5, IdleIsJob, JobStep

LEMMA KilledInv ==
    ASSUME IInv, NEW j \in Jobs, Killed(j)
    PROVE  IInv'
<1>1. buttons' \subseteq Payloads /\ UNCHANGED <<links, holdVars, watchFile, buttons, history>>
  BY DEF Killed, IInv, Stores
<1>2. CASE Finish(j)
  BY <1>1, <1>2, FinishInv
<1>3. CASE jobs[j].act \in Acts /\ Fail(j)
  <2>1. jobs[j].at \in Clicking
    BY <1>3, Known DEF Killed, Phases, Fit, Acts, Clicking
  <2> QED BY <1>1, <1>3, <2>1, FailInv
<1> QED BY <1>2, <1>3 DEF Killed

-----------------------------------------------------------------------------
(* The poll loop, users and the approver.                                  *)

\* The links, the round and the install are no part of what is promised.
LEMMA Elsewhere ==
    ASSUME IInv, UNCHANGED <<holdVars, watchFile, buttons, jobs, history>>,
           links' \in [People -> Providers \cup {Nothing}]
    PROVE  IInv'
<1>1. Settled /\ Stores' /\ Recorded'
  BY DEF IInv, Settled, Stores, Recorded, holdVars, history
<1>2. OnlyTheApprover' /\ Told' /\ WatchedUntilDecided'
  BY DEF IInv, OnlyTheApprover, Told, WatchedUntilDecided, holdVars, history
<1> QED BY <1>1, <1>2, NoJob

\* A pass takes no item off a file whose hold is undecided and on the calendar
\* of the link, or of a provider that only a link opens.
LEMMA PollUserInv ==
    ASSUME IInv, NEW u \in People, PollUser(u)
    PROVE  IInv'
<1> DEFINE items == watchFile[u]
           yes == {x \in items : Verdict(u, x) = "accepted"}
           over == yes \cup {x \in items : Verdict(u, x) = "declined" \/ Gone(u, x)}
<1>1. /\ team' = team \cup {x[2] : x \in yes}
      /\ decisions' = decisions \cup {Decide("poll", u, "approve", x[2]) : x \in yes}
      /\ watchFile' = [watchFile EXCEPT ![u] = items \ over]
      /\ UNCHANGED <<links, calendar, answer, buttons, jobs, made, watched, accepted, said>>
  BY DEF PollUser
<1>2. /\ watchFile \in [Owners -> SUBSET (Providers \X Holds)] /\ u \in Owners
      /\ links[u] \in Providers \cup {Nothing}
      /\ calendar \in [Holds -> Accounts \cup {Nothing}]
  BY DEF IInv, Stores, Owners
<1>3. watchFile' \in [Owners -> SUBSET (Providers \X Holds)]
  BY <1>1, <1>2
<1>4. \A x \in yes : x[2] \in made /\ x[2] \in accepted
  <2> SUFFICES ASSUME NEW x \in yes PROVE x[2] \in made /\ x[2] \in accepted
    OBVIOUS
  <2>1. x[1] \in Providers /\ x[2] \in Holds
    BY <1>2
  <2>2. /\ Opens(u, x[1]) # Nothing /\ calendar[x[2]] = Opens(u, x[1])
        /\ Seen(Opens(u, x[1]), x[2]) = "accepted"
    BY DEF Verdict
  <2> QED BY <2>1, <2>2 DEF Seen, IInv, Recorded
<1>5. \A x \in items : answer[x[2]] = "needed" => Verdict(u, x) = "needed"
  BY DEF Verdict, Seen
<1>6. Settled
  BY <1>1 DEF Settled
<1>7. Stores' /\ Told'
  BY <1>1, <1>3 DEF IInv, Stores, Told
<1>8. Recorded'
  BY <1>1, <1>4 DEF IInv, Recorded
<1>9. OnlyTheApprover'
  <2>1. \A d \in decisions' : /\ d.by = "click" => d.who = Approver
                              /\ d.act = "approve" => d.hold \in accepted
    BY <1>1, <1>4 DEF IInv, OnlyTheApprover, Decide
  <2>2. \A x \in yes : \E d \in decisions' : d.hold = x[2]
    <3> SUFFICES ASSUME NEW x \in yes PROVE \E d \in decisions' : d.hold = x[2]
      OBVIOUS
    <3>1. Decide("poll", u, "approve", x[2]) \in decisions'
      BY <1>1
    <3> QED BY <3>1 DEF Decide
  <2>3. \A h \in made : h \in team' \/ calendar[h] = Nothing => \E d \in decisions' : d.hold = h
    BY <1>1, <2>2 DEF IInv, OnlyTheApprover
  <2> QED BY <1>1, <2>1, <2>3 DEF OnlyTheApprover
<1>10. WatchedUntilDecided'
  <2> SUFFICES ASSUME NEW h \in watched, NEW a \in Accounts,
                      calendar[h] = a, answer[h] = "needed", a[2] \notin SignedIn
               PROVE  <<a[2], h>> \in watchFile'[a[1]]
    BY <1>1 DEF WatchedUntilDecided
  <2>1. PICK x : x = <<a[2], h>>
    OBVIOUS
  <2>2. x \in watchFile[a[1]] /\ a[1] \in Owners /\ a = <<a[1], a[2]>> /\ x[1] = a[2] /\ x[2] = h
    BY <2>1 DEF IInv, WatchedUntilDecided, Accounts, Owners
  <2>3. CASE a[1] # u
    BY <1>1, <1>2, <2>1, <2>2, <2>3
  <2>4. CASE a[1] = u
    <3>1. Opens(u, x[1]) \in {a, Nothing}
      BY <2>2, <2>4 DEF Opens
    <3>2. ~ Gone(u, x)
      BY <2>2, <3>1 DEF Gone
    <3>3. Verdict(u, x) = "needed"
      BY <1>5, <2>2, <2>4
    <3>4. x \notin over
      BY <3>2, <3>3
    <3> QED BY <1>1, <1>2, <2>1, <2>2, <2>4, <3>4
  <2> QED BY <2>3, <2>4
<1> QED BY <1>1, <1>6, <1>7, <1>8, <1>9, <1>10, NoJob

LEMMA SetLinkInv ==
    ASSUME IInv, NEW u \in People, NEW p \in Providers \cup {Nothing}, SetLink(u, p)
    PROVE  IInv'
<1>1. links' \in [People -> Providers \cup {Nothing}]
  BY DEF SetLink, IInv, Stores
<1> QED BY <1>1, Elsewhere DEF SetLink

LEMMA AnswerInv ==
    ASSUME IInv, NEW h \in Holds, NEW r \in {"accepted", "declined"}, Answer(h, r)
    PROVE  IInv'
<1>1. /\ answer' = [answer EXCEPT ![h] = r]
      /\ accepted' = IF r = "accepted" THEN accepted \cup {h} ELSE accepted
      /\ UNCHANGED <<links, calendar, team, watchFile, buttons, jobs, made, watched,
                     decisions, said>>
  BY DEF Answer
<1>2. answer \in [Holds -> {"needed", "accepted", "declined"}]
  BY DEF IInv, Stores
<1>3. Settled /\ Stores' /\ Told'
  BY <1>1, <1>2 DEF Settled, IInv, Stores, Told
<1>4. Recorded' /\ OnlyTheApprover'
  BY <1>1, <1>2 DEF IInv, Recorded, OnlyTheApprover
<1>5. WatchedUntilDecided'
  BY <1>1, <1>2 DEF IInv, WatchedUntilDecided, Recorded
<1> QED BY <1>1, <1>3, <1>4, <1>5, NoJob

-----------------------------------------------------------------------------

LEMMA InitInv == Init => IInv
<1> SUFFICES ASSUME Init PROVE IInv
  OBVIOUS
<1>1. Stores /\ jobs \in [Jobs -> Job] /\ \A j \in Jobs : jobs[j] = Idle
  BY IdleIsJob DEF Init, Stores, Owners
<1>2. \A j \in Jobs : Fit(jobs[j])
  BY <1>1, IdleIsJob DEF Fit, Clicking
<1>3. Recorded /\ OnlyTheApprover /\ Told /\ WatchedUntilDecided
  BY DEF Init, Recorded, OnlyTheApprover, Told, WatchedUntilDecided
<1> QED BY <1>1, <1>2, <1>3 DEF IInv

LEMMA NextInv == IInv /\ [Next]_vars => IInv'
<1> SUFFICES ASSUME IInv, [Next]_vars PROVE IInv'
  OBVIOUS
<1>1. links \in [People -> Providers \cup {Nothing}]
  BY DEF IInv, Stores
<1>2. ASSUME NEW j \in Jobs, Work(j) \/ Killed(j) PROVE IInv'
  BY <1>2, RunAsUserInv, RunActionInv, CreateHoldInv, AddWatchInv, ReplyInv, GetHoldInv,
     PromoteHoldInv, DeleteHoldInv, ForgetHoldInv, TellInv, KilledInv DEF Work
<1>3. ASSUME NEW u \in People, NEW act \in {"run", "off"}, HandleCommand(u, act) PROVE IInv'
  BY <1>3, HandleCommandInv
<1>4. ASSUME NEW b \in buttons, NEW who \in People \cup {Approver}, NEW act \in Acts,
             HandleInteractivity(b, who, act)
      PROVE  IInv'
  BY <1>4, HandleInteractivityInv
<1>5. CASE Install \/ PollStart \/ UNCHANGED vars
  BY <1>1, <1>5, Elsewhere DEF Install, PollStart, vars
<1>6. ASSUME NEW u \in People, PollSkip(u) \/ PollUser(u) \/ HandleUnlink(u) PROVE IInv'
  <2>1. CASE PollSkip(u)
    BY <1>1, <2>1, Elsewhere DEF PollSkip
  <2> QED BY <1>6, <2>1, PollUserInv, SetLinkInv DEF HandleUnlink
<1>7. ASSUME NEW u \in People, NEW p \in Providers, Link(u, p) PROVE IInv'
  BY <1>7, SetLinkInv DEF Link
<1>8. ASSUME NEW h \in Holds, NEW r \in {"accepted", "declined"}, Answer(h, r) PROVE IInv'
  BY <1>8, AnswerInv
<1> QED BY <1>2, <1>3, <1>4, <1>5, <1>6, <1>7, <1>8 DEF Next

LEMMA Inductive == Spec => []IInv
BY InitInv, NextInv, PTL DEF Spec

-----------------------------------------------------------------------------
(* The theorems.                                                           *)

\* Whoever clicks, whichever of a click and a poll comes first, and whatever
\* becomes of links and answers between the steps of a command, a hold is
\* decided through Slack by its approver only, and the team is added only
\* after an acceptance (runAction, promote, PollUsers).
THEOREM ApproverDecides == Spec => []OnlyTheApprover
<1>1. IInv => OnlyTheApprover
  BY DEF IInv
<1> QED BY <1>1, Inductive, PTL

\* An edited message never claims an approval or a decline that did not happen,
\* or that anything later undid (runAction's text).
THEOREM MessagesAreTrue == Spec => []SaidIsSo
<1>1. IInv => SaidIsSo
  BY DEF IInv, Told, SaidIsSo
<1> QED BY <1>1, Inductive, PTL

\* No click, pass or change of link drops a hold that its approver has not
\* answered from its owner's watch file (PollUsers, forgetHold).
THEOREM StaysWatched == Spec => []WatchedUntilDecided
<1>1. IInv => WatchedUntilDecided
  BY DEF IInv
<1> QED BY <1>1, Inductive, PTL
=============================================================================
