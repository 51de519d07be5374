----------------------------- MODULE SlackLinks -----------------------------
(***************************************************************************)
(* Linking Slack users to their calendars.  A user asks for a link and     *)
(* gets a consent address that carries a state; the provider's redirect    *)
(* brings the state back, the server trades the code for credentials and   *)
(* stores them.  iCloud links by a form instead, for which the app must be *)
(* installed.  Commands, buttons and a poll run as the user a link is of.  *)
(*                                                                         *)
(* Requests are handled at once with each other.  States live in memory    *)
(* and go with a restart; links live in a file that is read, changed and   *)
(* written back under a mutex, or in a database that writes one key.       *)
(* There is one workspace, so a user's id is the key.                      *)
(*                                                                         *)
(* Code: internal/slack/link.go, oauth.go, userlink.go, boltstore.go, the  *)
(* link handlers of slack.go, cmd/slacklink.go, internal/boltstore.        *)
(***************************************************************************)
EXTENDS Integers, Sequences

CONSTANTS
    Users, Handlers,
    Backings,       \* stores to consider: "file", "bolt"
    NoHandler,
    TTL,            \* how long a state is good for
    MaxTime,        \* bound on the clock
    MaxStates       \* bound on states issued

ASSUME LinkAssumption ==
    /\ Backings \subseteq {"file", "bolt"}
    /\ NoHandler \notin Handlers
    /\ {TTL, MaxTime, MaxStates} \subseteq Nat
    /\ TTL > 0

VARIABLES
    backing,    \* VAMOOSE_DB_PATH is set, or not
    now,
    asked,      \* history: what each state was issued for, in order
    pending,    \* link states not yet brought back, by number
    installs,   \* install states not yet brought back
    taken,      \* history: how often, and how late, a state was accepted
    links,      \* on disk
    bot,        \* on disk: the workspace's bot token
    forms,      \* users with an iCloud form open
    mu,         \* the handler inside the file store
    reqs,       \* requests being handled
    poll        \* PollUsers: users to do, and history of the pass

memory == <<asked, pending, installs, taken>>
vars == <<backing, now, memory, links, bot, forms, mu, reqs, poll>>

NoLink == [provider |-> "none", by |-> 0]
Quiet == [at |-> "idle", op |-> "none", user |-> "none", link |-> NoLink, saw |-> <<>>]
NoPoll == [todo |-> {}, ran |-> {}, steady |-> {}]

Goto(h, point) == reqs' = [reqs EXCEPT ![h].at = point]
Done(h) == reqs' = [reqs EXCEPT ![h] = Quiet]

-----------------------------------------------------------------------------
(* States: issue, reapLocked, consume. *)

\* Mutant: what runs out stays.
ReapNot(states) == states

Reap(states) == {s \in states : now < asked[s].until}

Issue(kind, u) ==
    /\ Len(asked) < MaxStates
    /\ asked' = Append(asked, [kind |-> kind, user |-> u, until |-> now + TTL])
    /\ taken' = Append(taken, [times |-> 0, late |-> FALSE])
    /\ IF kind = "install"
       THEN installs' = Reap(installs) \cup {Len(asked')} /\ UNCHANGED pending
       ELSE pending' = Reap(pending) \cup {Len(asked')} /\ UNCHANGED installs

\* Mutant: a state stays good once it was used.
LeavesState(states, s) == states

Without(states, s) == states \ {s}
InTime(s) == now < asked[s].until

\* A state of a set is taken out of it; it is accepted in time.
Accept(s) ==
    taken' = IF InTime(s)
             THEN [taken EXCEPT ![s] = [times |-> @.times + 1,
                                        late |-> @.late \/ now >= asked[s].until]]
             ELSE taken

-----------------------------------------------------------------------------
(* Linking and unlinking. *)

\* handleLink for a provider with consent.
AskLink(u) ==
    /\ Issue("link", u)
    /\ UNCHANGED <<backing, now, links, bot, forms, mu, reqs, poll>>

\* handleLink for iCloud: a state is issued all the same, then the form opens
\* if the app is installed and Slack accepts it.
AskForm(u) ==
    /\ Issue("form", u)
    /\ forms' = IF bot THEN forms \cup {u} ELSE forms
    /\ UNCHANGED <<backing, now, links, bot, mu, reqs, poll>>

\* handleLinkCallback, with a state the user was given: once, again, or late.
Callback(h, s) ==
    /\ reqs[h].at = "idle" /\ s \in pending /\ asked[s].kind = "link"
    /\ pending' = Without(pending, s)
    /\ Accept(s)
    /\ IF InTime(s)
       THEN reqs' = [reqs EXCEPT ![h] = [Quiet EXCEPT
                !.at = "exchange", !.op = "link", !.user = asked[s].user,
                !.link = [provider |-> "oauth", by |-> s]]]
       ELSE UNCHANGED reqs
    /\ UNCHANGED <<backing, now, asked, installs, links, bot, forms, mu, poll>>

\* The code is traded for a refresh token, or the provider refuses.
Exchange(h) ==
    /\ reqs[h].at = "exchange"
    /\ Goto(h, "lock") \/ Done(h)
    /\ UNCHANGED <<backing, now, memory, links, bot, forms, mu, poll>>

\* handleViewSubmission and handleUnlink.
Submit(h, u) ==
    /\ reqs[h].at = "idle" /\ u \in forms
    /\ forms' = forms \ {u}
    /\ reqs' = [reqs EXCEPT ![h] = [Quiet EXCEPT
            !.at = "lock", !.op = "link", !.user = u,
            !.link = [provider |-> "icloud", by |-> 0]]]
    /\ UNCHANGED <<backing, now, memory, links, bot, mu, poll>>

Unlink(h, u) ==
    /\ reqs[h].at = "idle"
    /\ reqs' = [reqs EXCEPT ![h] = [Quiet EXCEPT !.at = "lock", !.op = "link", !.user = u]]
    /\ UNCHANGED <<backing, now, memory, links, bot, forms, mu, poll>>

\* handleInstall, and handleOAuthCallback with the exchange and the save.
AskInstall ==
    /\ Issue("install", "none")
    /\ UNCHANGED <<backing, now, links, bot, forms, mu, reqs, poll>>

Install(s) ==
    /\ s \in installs
    /\ installs' = Without(installs, s)
    /\ Accept(s)
    /\ bot' = (bot \/ InTime(s)) \/ UNCHANGED bot
    /\ UNCHANGED <<backing, now, asked, pending, links, forms, mu, reqs, poll>>

-----------------------------------------------------------------------------
(* SaveLink and DeleteLink. *)

\* What is in place after u's link was written: who is steady in a pass.
Written(u) == poll' = [poll EXCEPT !.steady = @ \ {u}]

\* Mutant: two requests are in the file at once.
LockNot(h) ==
    /\ reqs[h].at = "lock" /\ backing = "file"
    /\ Goto(h, "load")
    /\ UNCHANGED <<backing, now, memory, links, bot, forms, mu, poll>>

Lock(h) ==
    /\ reqs[h].at = "lock" /\ backing = "file" /\ mu = NoHandler
    /\ mu' = h
    /\ Goto(h, "load")
    /\ UNCHANGED <<backing, now, memory, links, bot, forms, poll>>

\* The file is read, or cannot be.
Load(h) ==
    /\ reqs[h].at = "load"
    /\ \/ reqs' = [reqs EXCEPT ![h].at = "store", ![h].saw = links] /\ UNCHANGED mu
       \/ Done(h) /\ mu' = NoHandler
    /\ UNCHANGED <<backing, now, memory, links, bot, forms, poll>>

\* Mutant: the mutex stays locked when the file is not written.
StoreLocked(h) ==
    LET u == reqs[h].user IN
    /\ reqs[h].at = "store"
    /\ \/ links' = [reqs[h].saw EXCEPT ![u] = reqs[h].link] /\ Written(u) /\ mu' = NoHandler
       \/ UNCHANGED <<links, poll, mu>>
    /\ Done(h)
    /\ UNCHANGED <<backing, now, memory, bot, forms>>

\* The file is written, or not; either way the mutex is released.
Store(h) ==
    LET u == reqs[h].user IN
    /\ reqs[h].at = "store"
    /\ \/ links' = [reqs[h].saw EXCEPT ![u] = reqs[h].link] /\ Written(u)
       \/ UNCHANGED <<links, poll>>
    /\ mu' = NoHandler
    /\ Done(h)
    /\ UNCHANGED <<backing, now, memory, bot, forms>>

\* One key in one transaction.
Put(h) ==
    LET u == reqs[h].user IN
    /\ reqs[h].at = "lock" /\ backing = "bolt"
    /\ \/ links' = [links EXCEPT ![u] = reqs[h].link] /\ Written(u)
       \/ UNCHANGED <<links, poll>>
    /\ Done(h)
    /\ UNCHANGED <<backing, now, memory, bot, forms, mu>>

-----------------------------------------------------------------------------
(* userEnv: what a command, a button or the poll runs as. *)

CanRead == backing = "bolt" \/ mu = NoHandler

\* A command of u, or a click on a button of a hold of u.
Ask(h, op, u) ==
    /\ reqs[h].at = "idle"
    /\ reqs' = [reqs EXCEPT ![h] = [Quiet EXCEPT !.at = "get", !.op = op, !.user = u]]
    /\ UNCHANGED <<backing, now, memory, links, bot, forms, mu, poll>>

\* The link is read and its access token refreshed.  Without either a command
\* is refused, and a button runs as the server.
GetLink(h) ==
    LET u == reqs[h].user IN
    /\ reqs[h].at = "get" /\ CanRead
    /\ \/ /\ links[u] # NoLink
          /\ reqs' = [reqs EXCEPT ![h].at = "run", ![h].link = links[u]]
       \/ IF reqs[h].op = "click" THEN Goto(h, "run") ELSE Done(h)
    /\ UNCHANGED <<backing, now, memory, links, bot, forms, mu, poll>>

Run(h) ==
    /\ reqs[h].at = "run"
    /\ Done(h)
    /\ UNCHANGED <<backing, now, memory, links, bot, forms, mu, poll>>

\* PollUsers lists the linked users,
PollStart ==
    LET linked == {u \in Users : links[u] # NoLink} IN
    /\ poll = NoPoll /\ CanRead /\ linked # {}
    /\ poll' = [todo |-> linked, ran |-> {}, steady |-> linked]
    /\ UNCHANGED <<backing, now, memory, links, bot, forms, mu, reqs>>

\* Mutant: the first user who cannot be run as ends the pass.
SkipEnds(u) == [poll EXCEPT !.todo = {}, !.steady = @ \ {u}]

Skip(u) == [poll EXCEPT !.todo = @ \ {u}, !.steady = @ \ {u}]

\* takes them in any order, and runs a pass of the daemon as each whose link is
\* still there and whose access token is refreshed.
PollUser(u) ==
    /\ u \in poll.todo /\ CanRead
    /\ \/ links[u] # NoLink /\ poll' = [poll EXCEPT !.todo = @ \ {u}, !.ran = @ \cup {u}]
       \/ poll' = Skip(u)
    /\ UNCHANGED <<backing, now, memory, links, bot, forms, mu, reqs>>

PollEnd ==
    /\ poll # NoPoll /\ poll.todo = {}
    /\ poll' = NoPoll
    /\ UNCHANGED <<backing, now, memory, links, bot, forms, mu, reqs>>

-----------------------------------------------------------------------------
Tick ==
    /\ now < MaxTime
    /\ now' = now + 1
    /\ UNCHANGED <<backing, memory, links, bot, forms, mu, reqs, poll>>

\* A crash, or a shutdown, which does not wait for requests under way.
Restart ==
    /\ pending' = {} /\ installs' = {}
    /\ mu' = NoHandler
    /\ reqs' = [h \in Handlers |-> Quiet]
    /\ poll' = NoPoll
    /\ UNCHANGED <<backing, now, asked, taken, links, bot, forms>>

Init ==
    /\ backing \in Backings
    /\ now = 0
    /\ asked = <<>> /\ taken = <<>> /\ pending = {} /\ installs = {}
    /\ links = [u \in Users |-> NoLink]
    /\ bot = FALSE /\ forms = {}
    /\ mu = NoHandler
    /\ reqs = [h \in Handlers |-> Quiet]
    /\ poll = NoPoll

Next ==
    \/ \E u \in Users : AskLink(u) \/ AskForm(u)
    \/ \E h \in Handlers, s \in pending : Callback(h, s)
    \/ \E h \in Handlers, u \in Users :
        Submit(h, u) \/ Unlink(h, u) \/ \E op \in {"command", "click"} : Ask(h, op, u)
    \/ \E h \in Handlers : 
        \/ Exchange(h)
        \/ Lock(h) \/ Load(h) \/ Store(h) \/ Put(h)
        \/ GetLink(h) \/ Run(h)
    \/ AskInstall \/ \E s \in installs : Install(s)
    \/ PollStart \/ PollEnd \/ \E u \in Users : PollUser(u)
    \/ Tick \/ Restart

Spec == Init /\ [][Next]_vars

-----------------------------------------------------------------------------
(* Properties. *)

Link == [provider : {"none", "oauth", "icloud"}, by : 0..MaxStates]

\* Every variable has its values, no state is both a link's and an install's,
\* and the file store is locked by the request that is inside it and by no
\* other: a failed read or write, or a restart, shuts nobody out for good (the
\* deferred unlocks of UserLinkFileStore).
TypeOK ==
    /\ backing \in Backings /\ now \in 0..MaxTime /\ mu \in Handlers \cup {NoHandler}
    /\ Len(asked) <= MaxStates /\ Len(taken) = Len(asked)
    /\ pending \cup installs \subseteq 1..Len(asked)
    /\ pending \cap installs = {}
    /\ links \in [Users -> Link]
    /\ \A h \in Handlers :
        /\ reqs[h].at \in {"idle", "exchange", "lock", "load", "store", "get", "run"}
        /\ reqs[h].link \in Link /\ reqs[h].user \in Users \cup {"none"}
        /\ reqs[h].op \in {"none", "link", "command", "click"}
        /\ (reqs[h].at \in {"load", "store"}) = (mu = h)

\* A stored link, and one a request is about to store or runs with, was asked
\* for by that user, and the state it came by was accepted once and in time;
\* an iCloud link needs the app installed (consume, openCredentialModal).
LinksByRequest ==
    LET Asked(u, l) ==
            /\ l.provider = "oauth" =>
                   /\ asked[l.by].user = u /\ asked[l.by].kind = "link"
                   /\ taken[l.by].times = 1 /\ ~taken[l.by].late
            /\ l.provider = "icloud" => bot
    IN  /\ \A u \in Users : Asked(u, links[u])
        /\ \A h \in Handlers : reqs[h].at # "idle" => Asked(reqs[h].user, reqs[h].link)

\* A user's link changes only when a request of that user writes it, whatever
\* other requests write at the same time (UserLinkFileStore, BoltUserLinkStore).
OnlyOwnLink ==
    [][\A u \in Users : links'[u] # links[u] =>
          \E h \in Handlers :
              /\ reqs[h].op = "link" /\ reqs[h].user = u /\ links'[u] = reqs[h].link
              /\ reqs'[h].at = "idle"]_vars

\* States nobody brings back do not pile up: those kept were issued within a
\* state's time of the newest (reapLocked).
PendingBounded ==
    \A states \in {pending, installs} :
        \A s, t \in states : asked[s].until - asked[t].until < TTL

\* In a pass, a user whose link stays and whose token is renewed is run, or is
\* still to be, whatever happens to the others (PollUsers).
PollReachesAll == poll.steady \subseteq poll.ran \cup poll.todo

\* What docs/slack.md says of the buttons: they "run as the hold's owner"
\* (runAction, which goes on without the environment userEnv could not give).
ButtonsAsOwner ==
    \A h \in Handlers :
        reqs[h].at = "run" /\ reqs[h].op = "click" => reqs[h].link # NoLink
=============================================================================
