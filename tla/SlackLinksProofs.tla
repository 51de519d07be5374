-------------------------- MODULE SlackLinksProofs --------------------------
(***************************************************************************)
(* Links are their users' own, for every set of users and requests and     *)
(* every bound: whoever is inside the file store has read what is there,   *)
(* and a state that is still to be brought back has not been accepted yet. *)
(*                                                                         *)
(* States do not pile up, since none lives longer than one issued now      *)
(* (PInv); and no pass leaves out a user whose link stays (Passing).       *)
(***************************************************************************)
EXTENDS SlackLinks, TLAPS

Request ==
    [at : {"idle", "exchange", "lock", "load", "store", "get", "run"},
     op : {"none", "link", "command", "click"}, user : Users \cup {"none"},
     link : Link, saw : {<<>>} \cup [Users -> Link]]
State == [kind : {"link", "form", "install"}, user : Users \cup {"none"}, until : Nat]
Taking == [times : Nat, late : BOOLEAN]

Typed ==
    /\ backing \in Backings /\ now \in 0..MaxTime /\ mu \in Handlers \cup {NoHandler}
    /\ links \in [Users -> Link] /\ reqs \in [Handlers -> Request]
    /\ bot \in BOOLEAN /\ forms \subseteq Users

\* A state that can still be brought back was never accepted.
States ==
    /\ asked \in Seq(State) /\ taken \in Seq(Taking)
    /\ Len(asked) <= MaxStates /\ Len(taken) = Len(asked)
    /\ pending \cup installs \subseteq 1..Len(asked)
    /\ pending \cap installs = {}
    /\ \A s \in pending \cup installs : taken[s].times = 0 /\ ~ taken[s].late

\* Only one request is inside the file store, and it has seen what is there.
Writing ==
    \A h \in Handlers :
        /\ reqs[h].at \in {"exchange", "lock", "load", "store"} => reqs[h].op = "link"
        /\ reqs[h].at \in {"load", "store"} <=> mu = h
        /\ reqs[h].at \in {"load", "store"} => backing = "file"
        /\ reqs[h].at = "store" => reqs[h].saw = links
        /\ reqs[h].at = "get" => reqs[h].user \in Users

\* A link of u was asked for by u, once and in time.
Vouched(u, l) ==
    /\ l.provider = "oauth" =>
        /\ l.by \in 1..Len(asked)
        /\ asked[l.by].user = u /\ asked[l.by].kind = "link"
        /\ taken[l.by].times = 1 /\ ~ taken[l.by].late
    /\ l.provider = "icloud" => bot

Vouching ==
    /\ \A u \in Users : Vouched(u, links[u])
    /\ \A h \in Handlers : reqs[h].at # "idle" => Vouched(reqs[h].user, reqs[h].link)
    /\ forms # {} => bot

IInv == Typed /\ States /\ Writing /\ Vouching

-----------------------------------------------------------------------------
(* Facts about the data.                                                   *)

LEMMA QuietIsRequest == Quiet \in Request /\ NoLink \in Link
BY LinkAssumption DEF Quiet, Request, NoLink, Link

LEMMA NoLinkIsVouched == ASSUME NEW u PROVE Vouched(u, NoLink)
BY DEF Vouched, NoLink

\* What vouches for a link stays: states are only added, one that was accepted
\* is not accepted again, and the app stays installed.
LEMMA StaysVouched ==
    ASSUME NEW u, NEW l, Vouched(u, l),
           Len(asked) \in Nat, Len(asked') \in Nat, Len(asked) <= Len(asked'),
           \A i \in 1..Len(asked) :
                asked'[i] = asked[i] /\ (taken[i].times = 1 => taken'[i] = taken[i]),
           bot => bot'
    PROVE  Vouched(u, l)'
BY DEF Vouched

LEMMA InitInv == Init => IInv
<1> SUFFICES ASSUME Init PROVE IInv
  OBVIOUS
<1>1. Typed
  <2>1. backing \in Backings /\ mu \in Handlers \cup {NoHandler}
    BY DEF Init
  <2>2. now \in 0..MaxTime
    BY LinkAssumption DEF Init
  <2>3. links \in [Users -> Link] /\ reqs \in [Handlers -> Request]
    BY QuietIsRequest DEF Init
  <2>4. bot \in BOOLEAN /\ forms \subseteq Users
    BY DEF Init
  <2> QED BY <2>1, <2>2, <2>3, <2>4 DEF Typed
<1>2. States
  BY LinkAssumption DEF Init, States
<1>3. Writing
  BY LinkAssumption DEF Init, Writing, Quiet
<1>4. Vouching
  BY NoLinkIsVouched DEF Init, Vouching, Quiet
<1> QED BY <1>1, <1>2, <1>3, <1>4 DEF IInv

-----------------------------------------------------------------------------
(* States.                                                                 *)

LEMMA IssueStates ==
    ASSUME IInv, NEW kind \in {"link", "form", "install"}, NEW u \in Users \cup {"none"},
           Issue(kind, u)
    PROVE  /\ States'
           /\ Len(asked) \in Nat /\ Len(asked') \in Nat /\ Len(asked) <= Len(asked')
           /\ \A i \in 1..Len(asked) : asked'[i] = asked[i] /\ taken'[i] = taken[i]
<1> DEFINE new == [kind |-> kind, user |-> u, until |-> now + TTL]
           none == [times |-> 0, late |-> FALSE]
           n == Len(asked) + 1
<1>1. asked \in Seq(State) /\ taken \in Seq(Taking) /\ Len(asked) = Len(taken)
  BY DEF IInv, States
<1>2. new \in State /\ none \in Taking
  BY LinkAssumption DEF IInv, Typed, State, Taking
<1>3. asked' = Append(asked, new) /\ taken' = Append(taken, none)
  BY DEF Issue
<1> HIDE DEF new, none
<1>4. /\ asked' \in Seq(State) /\ taken' \in Seq(Taking)
      /\ Len(asked') = n /\ Len(taken') = n /\ Len(asked) \in Nat
      /\ \A i \in 1..Len(asked) : asked'[i] = asked[i] /\ taken'[i] = taken[i]
      /\ taken'[n] = none
  BY <1>1, <1>2, <1>3
<1>5. /\ pending' \subseteq pending \cup {n} /\ installs' \subseteq installs \cup {n}
      /\ pending' \cap installs' = {}
  <2>1. n \notin pending /\ n \notin installs /\ pending \cap installs = {}
    BY <1>4 DEF IInv, States
  <2> QED BY <1>4, <2>1 DEF Issue, Reap
<1>6. Len(asked') <= MaxStates
  BY <1>4, LinkAssumption DEF Issue
<1>7. \A s \in pending' \cup installs' : taken'[s].times = 0 /\ ~ taken'[s].late
  <2>1. none.times = 0 /\ ~ none.late
    BY DEF none
  <2> QED BY <1>4, <1>5, <2>1 DEF IInv, States
<1>8. pending' \cup installs' \subseteq 1..Len(asked')
  BY <1>4, <1>5 DEF IInv, States
<1> QED BY <1>4, <1>5, <1>6, <1>7, <1>8 DEF States

\* A state is issued, and no request moves.
LEMMA IssueInv ==
    ASSUME IInv, NEW kind \in {"link", "form", "install"}, NEW u \in Users \cup {"none"},
           Issue(kind, u), UNCHANGED <<backing, now, links, bot, mu, reqs>>,
           forms' \subseteq Users, forms' # {} => bot
    PROVE  IInv'
<1>1. States'
  BY IssueStates
<1>2. Typed'
  BY DEF IInv, Typed
<1>3. Writing'
  BY DEF IInv, Writing
<1>4. \A v, l : Vouched(v, l) => Vouched(v, l)'
  BY IssueStates, StaysVouched
<1>5. Vouching'
  BY <1>4 DEF IInv, Vouching
<1> QED BY <1>1, <1>2, <1>3, <1>5 DEF IInv

-----------------------------------------------------------------------------
(* Requests.                                                               *)

\* A request moves on without a write, and without entering or leaving the
\* file store.
LEMMA Moves ==
    ASSUME IInv, NEW h \in Handlers, NEW r \in Request,
           reqs' \in [Handlers -> Request], reqs'[h] = r,
           \A g \in Handlers : g # h => reqs'[g] = reqs[g],
           UNCHANGED <<backing, now, memory, links, bot, mu>>, forms' \subseteq forms,
           r.at \in {"exchange", "lock"} => r.op = "link",
           r.at \notin {"load", "store"}, mu # h,
           r.at = "get" => r.user \in Users,
           r.at # "idle" => Vouched(r.user, r.link)
    PROVE  IInv'
<1>1. Typed'
  BY DEF IInv, Typed
<1>2. States'
  BY DEF IInv, States, memory
<1>4. Writing'
  BY DEF IInv, Writing
<1>5. \A v, l : Vouched(v, l)' <=> Vouched(v, l)
  BY DEF Vouched, memory
<1>6. Vouching'
  <2>1. \A u \in Users : Vouched(u, links[u])'
    BY <1>5 DEF IInv, Vouching
  <2>2. \A g \in Handlers : reqs'[g].at # "idle" => Vouched(reqs'[g].user, reqs'[g].link)
    BY DEF IInv, Vouching
  <2>3. \A g \in Handlers : reqs'[g].at # "idle" => Vouched(reqs[g].user, reqs[g].link)'
    BY <1>5, <2>2
  <2>4. forms' # {} => bot'
    BY DEF IInv, Vouching
  <2> QED BY <2>1, <2>3, <2>4 DEF Vouching
<1> QED BY <1>1, <1>2, <1>4, <1>6 DEF IInv

LEMMA AtOf ==
    ASSUME IInv, NEW h \in Handlers
    PROVE  /\ reqs[h] \in Request /\ reqs[h].link \in Link
           /\ reqs[h].user \in Users \cup {"none"}
           /\ reqs[h].at \notin {"load", "store"} => mu # h
BY DEF IInv, Typed, Writing, Request

\* A request that starts, for u, with a link that is vouched for.
LEMMA Starts ==
    ASSUME IInv, NEW h \in Handlers, NEW u \in Users \cup {"none"}, NEW l \in Link,
           NEW at \in {"exchange", "lock"},
           Vouched(u, l), reqs[h].at = "idle",
           reqs' = [reqs EXCEPT ![h] =
                        [Quiet EXCEPT !.at = at, !.op = "link", !.user = u, !.link = l]],
           UNCHANGED <<backing, now, memory, links, bot, mu>>, forms' \subseteq forms
    PROVE  IInv'
<1> DEFINE r == [Quiet EXCEPT !.at = at, !.op = "link", !.user = u, !.link = l]
<1>1. r \in Request /\ r.at = at /\ r.op = "link" /\ r.user = u /\ r.link = l
  BY DEF Quiet, Request
<1>2. mu # h
  BY AtOf
<1>3. Vouched(r.user, r.link)
  BY <1>1
<1>4. reqs' = [reqs EXCEPT ![h] = r]
  OBVIOUS
<1> HIDE DEF r
<1>5. /\ reqs' \in [Handlers -> Request] /\ reqs'[h] = r
      /\ \A g \in Handlers : g # h => reqs'[g] = reqs[g]
  BY <1>1, <1>4 DEF IInv, Typed
<1> QED BY <1>1, <1>2, <1>3, <1>5, Moves

\* The same, for one that brings no link.
LEMMA StartsBare ==
    ASSUME IInv, NEW h \in Handlers, NEW u \in Users,
           NEW at \in {"lock", "get"}, NEW op \in {"link", "command", "click"},
           at # "get" => op = "link", reqs[h].at = "idle",
           reqs' = [reqs EXCEPT ![h] = [Quiet EXCEPT !.at = at, !.op = op, !.user = u]],
           UNCHANGED <<backing, now, memory, links, bot, mu>>, forms' \subseteq forms
    PROVE  IInv'
<1> DEFINE r == [Quiet EXCEPT !.at = at, !.op = op, !.user = u]
<1>1. r \in Request /\ r.at = at /\ r.op = op /\ r.user = u /\ r.link = NoLink
  BY QuietIsRequest DEF Quiet, Request
<1>2. mu # h
  BY AtOf
<1>3. Vouched(r.user, r.link)
  BY <1>1, NoLinkIsVouched
<1>4. reqs' = [reqs EXCEPT ![h] = r]
  OBVIOUS
<1> HIDE DEF r
<1>5. /\ reqs' \in [Handlers -> Request] /\ reqs'[h] = r
      /\ \A g \in Handlers : g # h => reqs'[g] = reqs[g]
  BY <1>1, <1>4 DEF IInv, Typed
<1> QED BY <1>1, <1>2, <1>3, <1>5, Moves

\* A request that ends outside the file store.
LEMMA Ends ==
    ASSUME IInv, NEW h \in Handlers, Done(h), reqs[h].at \notin {"load", "store"},
           UNCHANGED <<backing, now, memory, links, bot, forms, mu>>
    PROVE  IInv'
<1>1. /\ reqs' \in [Handlers -> Request] /\ reqs'[h] = Quiet
      /\ \A g \in Handlers : g # h => reqs'[g] = reqs[g]
  BY QuietIsRequest DEF Done, IInv, Typed
<1>2. mu # h /\ Quiet.at = "idle"
  BY AtOf DEF Quiet
<1> QED BY <1>1, <1>2, QuietIsRequest, Moves

\* A request that goes on with the link it has.
LEMMA GoesOn ==
    ASSUME IInv, NEW h \in Handlers, NEW at \in {"lock", "run"}, Goto(h, at),
           reqs[h].at \in {"exchange", "get"}, at = "lock" => reqs[h].at = "exchange",
           UNCHANGED <<backing, now, memory, links, bot, forms, mu>>
    PROVE  IInv'
<1> DEFINE r == [reqs[h] EXCEPT !.at = at]
<1>1. /\ Vouched(reqs[h].user, reqs[h].link) /\ mu # h
      /\ at = "lock" => reqs[h].op = "link"
  BY AtOf DEF IInv, Writing, Vouching
<1>2. /\ r \in Request /\ r.at = at /\ r.op = reqs[h].op
      /\ r.user = reqs[h].user /\ r.link = reqs[h].link
  BY AtOf DEF Request
<1>3. Vouched(r.user, r.link)
  BY <1>1, <1>2
<1>4. reqs' = [reqs EXCEPT ![h] = r]
  BY DEF Goto
<1> HIDE DEF r
<1>5. /\ reqs' \in [Handlers -> Request] /\ reqs'[h] = r
      /\ \A g \in Handlers : g # h => reqs'[g] = reqs[g]
  BY <1>2, <1>4 DEF IInv, Typed
<1> QED BY <1>1, <1>2, <1>3, <1>5, Moves

LEMMA ExchangeInv ==
    ASSUME IInv, NEW h \in Handlers, Exchange(h)
    PROVE  IInv'
BY Ends, GoesOn DEF Exchange

LEMMA RunInv ==
    ASSUME IInv, NEW h \in Handlers, Run(h)
    PROVE  IInv'
BY Ends DEF Run

LEMMA UnlinkInv ==
    ASSUME IInv, NEW h \in Handlers, NEW u \in Users, Unlink(h, u)
    PROVE  IInv'
BY StartsBare DEF Unlink

LEMMA AskInv ==
    ASSUME IInv, NEW h \in Handlers, NEW u \in Users, NEW op \in {"command", "click"},
           Ask(h, op, u)
    PROVE  IInv'
BY StartsBare DEF Ask

LEMMA SubmitInv ==
    ASSUME IInv, NEW h \in Handlers, NEW u \in Users, Submit(h, u)
    PROVE  IInv'
<1>1. PICK l \in Link : l = [provider |-> "icloud", by |-> 0]
  <2>1. [provider |-> "icloud", by |-> 0] \in Link
    BY LinkAssumption DEF Link
  <2> QED BY <2>1, Zenon
<1>2. bot
  BY DEF IInv, Vouching, Submit
<1>3. Vouched(u, l)
  BY <1>1, <1>2 DEF Vouched
<1>4. reqs' = [reqs EXCEPT ![h] = [Quiet EXCEPT !.at = "lock", !.op = "link", !.user = u,
                                               !.link = l]]
  BY <1>1 DEF Submit
<1>5. reqs[h].at = "idle" /\ forms' \subseteq forms
  BY DEF Submit
<1> QED BY <1>1, <1>3, <1>4, <1>5, Starts DEF Submit

LEMMA GetLinkInv ==
    ASSUME IInv, NEW h \in Handlers, GetLink(h)
    PROVE  IInv'
<1>1. reqs[h].at = "get" /\ UNCHANGED <<backing, now, memory, links, bot, forms, mu, poll>>
  BY DEF GetLink
<1>2. CASE Goto(h, "run")
  BY <1>1, <1>2, GoesOn
<1>3. CASE Done(h)
  BY <1>1, <1>3, Ends
<1>4. CASE /\ links[reqs[h].user] # NoLink
           /\ reqs' = [reqs EXCEPT ![h].at = "run", ![h].link = links[reqs[h].user]]
  <2> DEFINE l == links[reqs[h].user]
             r == [reqs[h] EXCEPT !.at = "run", !.link = l]
  <2>1. reqs[h].user \in Users /\ l \in Link /\ Vouched(reqs[h].user, l) /\ mu # h
    BY <1>1, AtOf DEF IInv, Writing, Vouching, Typed
  <2>2. r \in Request /\ r.at = "run" /\ r.user = reqs[h].user /\ r.link = l
    BY <2>1, AtOf DEF Request
  <2>3. reqs' = [reqs EXCEPT ![h] = r]
    BY <1>4
  <2>4. Vouched(r.user, r.link)
    BY <2>1, <2>2
  <2> HIDE DEF r, l
  <2>5. /\ reqs' \in [Handlers -> Request] /\ reqs'[h] = r
        /\ \A g \in Handlers : g # h => reqs'[g] = reqs[g]
    BY <2>2, <2>3 DEF IInv, Typed
  <2> QED BY <1>1, <2>1, <2>2, <2>4, <2>5, Moves
<1> QED BY <1>1, <1>2, <1>3, <1>4 DEF GetLink

\* A state is taken out: accepted if it is in time, and never again.
LEMMA AcceptStates ==
    ASSUME IInv, NEW s \in pending \cup installs, Accept(s), asked' = asked,
           pending' \subseteq pending, installs' \subseteq installs,
           s \notin pending' \cup installs'
    PROVE  /\ States'
           /\ Len(asked) \in Nat
           /\ \A i \in 1..Len(asked) : taken[i].times = 1 => taken'[i] = taken[i]
           /\ InTime(s) => taken'[s].times = 1 /\ ~ taken'[s].late
<1>1. /\ s \in 1..Len(asked) /\ Len(asked) \in Nat /\ Len(taken) = Len(asked)
      /\ asked \in Seq(State) /\ taken \in Seq(Taking)
  BY DEF IInv, States
<1>2. asked[s] \in State /\ taken[s] \in Taking /\ taken[s].times = 0 /\ ~ taken[s].late
  BY <1>1 DEF IInv, States
<1>3. now \in Nat /\ asked[s].until \in Nat
  BY <1>2, LinkAssumption DEF IInv, Typed, State
<1>4. CASE InTime(s)
  <2> DEFINE t == [times |-> taken[s].times + 1, late |-> taken[s].late \/ now >= asked[s].until]
  <2>1. taken' = [taken EXCEPT ![s] = t]
    BY <1>4 DEF Accept
  <2>2. t.times = 1
    BY <1>2
  <2>3. ~ t.late
    <3>1. ~ (now >= asked[s].until)
      BY <1>3, <1>4 DEF InTime
    <3>2. ~ (taken[s].late \/ now >= asked[s].until)
      BY <1>2, <3>1, Zenon
    <3> QED BY <3>2, Zenon
  <2>4. t \in Taking
    <3>1. taken[s].times + 1 \in Nat
      BY <1>2
    <3>2. (taken[s].late \/ now >= asked[s].until) \in BOOLEAN
      OBVIOUS
    <3> QED BY <3>1, <3>2 DEF Taking
  <2> HIDE DEF t
  <2>5. /\ taken' \in Seq(Taking) /\ Len(taken') = Len(taken) /\ taken'[s] = t
        /\ \A i \in 1..Len(taken) : i # s => taken'[i] = taken[i]
    BY <1>1, <2>1, <2>4
  <2>6. States'
    BY <1>1, <2>5 DEF IInv, States
  <2> QED BY <1>1, <1>2, <2>2, <2>3, <2>5, <2>6
<1>5. CASE ~ InTime(s)
  <2>1. taken' = taken
    BY <1>5 DEF Accept
  <2>2. States'
    BY <2>1 DEF IInv, States
  <2> QED BY <1>1, <1>5, <2>1, <2>2
<1> QED BY <1>4, <1>5

LEMMA InstallInv ==
    ASSUME IInv, NEW s \in installs, Install(s)
    PROVE  IInv'
<1>1. /\ Accept(s) /\ s \notin pending' \cup installs'
      /\ installs' \subseteq installs
      /\ UNCHANGED <<backing, now, asked, pending, links, forms, mu, reqs>>
  BY DEF Install, Without, IInv, States
<1>2. /\ States' /\ Len(asked) \in Nat
      /\ \A i \in 1..Len(asked) : taken[i].times = 1 => taken'[i] = taken[i]
  BY <1>1, AcceptStates
<1>3. (bot => bot') /\ bot' \in BOOLEAN
  <2>1. bot \in BOOLEAN
    BY DEF IInv, Typed
  <2>2. bot' = (bot \/ InTime(s)) \/ bot' = bot
    BY DEF Install
  <2>3. (bot \/ InTime(s)) \in BOOLEAN
    OBVIOUS
  <2> QED BY <2>1, <2>2, <2>3, Zenon
<1>4. \A u, l : Vouched(u, l) => Vouched(u, l)'
  BY <1>1, <1>2, <1>3, StaysVouched
<1>5. Typed'
  <2>1. backing \in Backings /\ now \in 0..MaxTime /\ mu \in Handlers \cup {NoHandler}
        /\ links \in [Users -> Link] /\ reqs \in [Handlers -> Request] /\ forms \subseteq Users
    BY DEF IInv, Typed
  <2> QED BY <1>1, <1>3, <2>1, Zenon DEF Typed
<1>6. Writing'
  BY <1>1 DEF IInv, Writing
<1>7. Vouching'
  BY <1>1, <1>3, <1>4 DEF IInv, Vouching
<1> QED BY <1>2, <1>5, <1>6, <1>7 DEF IInv

LEMMA CallbackInv ==
    ASSUME IInv, NEW h \in Handlers, NEW s \in pending, Callback(h, s)
    PROVE  IInv'
<1>1. /\ Accept(s) /\ s \notin pending' \cup installs' /\ reqs[h].at = "idle"
      /\ pending' \subseteq pending /\ asked[s].kind = "link"
      /\ UNCHANGED <<backing, now, asked, installs, links, bot, forms, mu>>
  BY DEF Callback, Without, IInv, States
<1>2. /\ States' /\ Len(asked) \in Nat
      /\ \A i \in 1..Len(asked) : taken[i].times = 1 => taken'[i] = taken[i]
      /\ InTime(s) => taken'[s].times = 1 /\ ~ taken'[s].late
  BY <1>1, AcceptStates
<1>3. \A u, l : Vouched(u, l) => Vouched(u, l)'
  BY <1>1, <1>2, StaysVouched
<1>4. CASE InTime(s)
  <2>1. s \in 1..Len(asked) /\ Len(asked) <= MaxStates /\ asked[s] \in State
    BY DEF IInv, States
  <2>2. PICK u \in Users \cup {"none"} : u = asked[s].user
    BY <2>1 DEF State
  <2>3. PICK l \in Link : l = [provider |-> "oauth", by |-> s]
    <3>1. s \in 0..MaxStates
      BY <1>2, <2>1, LinkAssumption
    <3>2. [provider |-> "oauth", by |-> s] \in Link
      BY <3>1 DEF Link
    <3> QED BY <3>2, Zenon
  <2> DEFINE r == [Quiet EXCEPT !.at = "exchange", !.op = "link", !.user = u, !.link = l]
  <2>4. r \in Request /\ r.at = "exchange" /\ r.op = "link" /\ r.user = u /\ r.link = l
    BY DEF Quiet, Request
  <2>5. reqs' = [reqs EXCEPT ![h] = r]
    BY <1>4, <2>2, <2>3 DEF Callback
  <2> HIDE DEF r
  <2>6. /\ reqs' \in [Handlers -> Request] /\ reqs'[h] = r
        /\ \A g \in Handlers : g # h => reqs'[g] = reqs[g]
    BY <2>4, <2>5 DEF IInv, Typed
  <2>7. mu # h
    BY <1>1, AtOf
  <2>8. Typed'
    BY <1>1, <2>6 DEF IInv, Typed
  <2>9. Writing'
    BY <1>1, <2>4, <2>6, <2>7 DEF IInv, Writing
  <2>10. Vouched(u, l)'
    <3>1. l.provider = "oauth" /\ l.by = s
      BY <2>3
    <3> QED BY <1>1, <1>2, <1>4, <2>1, <2>2, <3>1 DEF Vouched
  <2>11. Vouching'
    <3>1. \A v \in Users : Vouched(v, links[v])'
      BY <1>1, <1>3 DEF IInv, Vouching
    <3>2. \A g \in Handlers : reqs'[g].at # "idle" => Vouched(reqs[g].user, reqs[g].link)'
      <4> SUFFICES ASSUME NEW g \in Handlers, reqs'[g].at # "idle"
                   PROVE  Vouched(reqs[g].user, reqs[g].link)'
        OBVIOUS
      <4>1. CASE g = h
        <5>1. reqs'[g].user = u /\ reqs'[g].link = l
          BY <2>4, <2>6, <4>1
        <5> QED BY <2>10, <5>1 DEF Vouched
      <4>2. CASE g # h
        BY <1>3, <2>6, <4>2 DEF IInv, Vouching
      <4> QED BY <4>1, <4>2
    <3>3. (forms # {} => bot)'
      BY <1>1 DEF IInv, Vouching
    <3> QED BY <3>1, <3>2, <3>3 DEF Vouching
  <2> QED BY <1>2, <2>8, <2>9, <2>11 DEF IInv
<1>5. CASE ~ InTime(s)
  <2>1. UNCHANGED reqs
    BY <1>5 DEF Callback
  <2>2. Typed' /\ Writing'
    BY <1>1, <2>1 DEF IInv, Typed, Writing
  <2>3. Vouching'
    BY <1>1, <1>3, <2>1 DEF IInv, Vouching
  <2> QED BY <1>2, <2>2, <2>3 DEF IInv
<1> QED BY <1>4, <1>5

-----------------------------------------------------------------------------
(* The stores.                                                             *)

LEMMA LockInv ==
    ASSUME IInv, NEW h \in Handlers, Lock(h)
    PROVE  IInv'
<1> DEFINE r == [reqs[h] EXCEPT !.at = "load"]
<1>1. /\ reqs[h].at = "lock" /\ backing = "file" /\ mu = NoHandler /\ mu' = h
      /\ UNCHANGED <<backing, now, memory, links, bot, forms>>
  BY DEF Lock
<1>2. /\ r \in Request /\ r.at = "load" /\ r.op = reqs[h].op
      /\ r.user = reqs[h].user /\ r.link = reqs[h].link
  BY AtOf DEF Request
<1>3. reqs' = [reqs EXCEPT ![h] = r]
  BY DEF Lock, Goto
<1> HIDE DEF r
<1>4. /\ reqs' \in [Handlers -> Request] /\ reqs'[h] = r
      /\ \A g \in Handlers : g # h => reqs'[g] = reqs[g]
  BY <1>2, <1>3 DEF IInv, Typed
<1>5. Typed' /\ States'
  BY <1>1, <1>4 DEF IInv, Typed, States, memory
<1>6. Writing'
  BY <1>1, <1>2, <1>4, LinkAssumption DEF IInv, Writing
<1>7. \A u, l : Vouched(u, l)' <=> Vouched(u, l)
  BY <1>1 DEF Vouched, memory
<1>8. Vouching'
  <2>1. \A g \in Handlers : reqs'[g].at # "idle" => Vouched(reqs'[g].user, reqs'[g].link)
    BY <1>1, <1>2, <1>4 DEF IInv, Vouching
  <2>2. \A g \in Handlers : reqs'[g].at # "idle" => Vouched(reqs[g].user, reqs[g].link)'
    BY <1>7, <2>1
  <2>3. \A u \in Users : Vouched(u, links[u])'
    BY <1>1, <1>7 DEF IInv, Vouching
  <2> QED BY <1>1, <2>2, <2>3 DEF IInv, Vouching
<1> QED BY <1>5, <1>6, <1>8 DEF IInv

LEMMA LoadInv ==
    ASSUME IInv, NEW h \in Handlers, reqs[h].at = "load",
           reqs' = [reqs EXCEPT ![h].at = "store", ![h].saw = links],
           UNCHANGED <<backing, now, memory, links, bot, forms, mu>>
    PROVE  IInv'
<1> DEFINE r == [reqs[h] EXCEPT !.at = "store", !.saw = links]
<1>1. links \in [Users -> Link]
  BY DEF IInv, Typed
<1>2. /\ r \in Request /\ r.at = "store" /\ r.op = reqs[h].op /\ r.saw = links
      /\ r.user = reqs[h].user /\ r.link = reqs[h].link
  BY <1>1, AtOf DEF Request
<1>3. reqs' = [reqs EXCEPT ![h] = r]
  OBVIOUS
<1> HIDE DEF r
<1>4. /\ reqs' \in [Handlers -> Request] /\ reqs'[h] = r
      /\ \A g \in Handlers : g # h => reqs'[g] = reqs[g]
  BY <1>2, <1>3 DEF IInv, Typed
<1>5. Typed' /\ States'
  BY <1>4 DEF IInv, Typed, States, memory
<1>6. Writing'
  BY <1>2, <1>4 DEF IInv, Writing
<1>7. \A u, l : Vouched(u, l)' <=> Vouched(u, l)
  BY DEF Vouched, memory
<1>8. Vouching'
  <2>1. \A g \in Handlers : reqs'[g].at # "idle" => Vouched(reqs'[g].user, reqs'[g].link)
    BY <1>2, <1>4 DEF IInv, Vouching
  <2>2. \A g \in Handlers : reqs'[g].at # "idle" => Vouched(reqs[g].user, reqs[g].link)'
    BY <1>7, <2>1
  <2>3. \A u \in Users : Vouched(u, links[u])'
    BY <1>7 DEF IInv, Vouching
  <2> QED BY <2>2, <2>3 DEF IInv, Vouching
<1> QED BY <1>5, <1>6, <1>8 DEF IInv

\* A request leaves a store, having written its user's link or nothing.
LEMMA Leaves ==
    ASSUME IInv, NEW h \in Handlers, Done(h), reqs[h].at # "idle",
           \/ mu = h /\ mu' = NoHandler
           \/ mu # h /\ mu' = mu,
           \/ links' = links
           \/ /\ links' = [links EXCEPT ![reqs[h].user] = reqs[h].link]
              /\ \A g \in Handlers : g # h => reqs[g].at # "store",
           UNCHANGED <<backing, now, memory, bot, forms>>
    PROVE  IInv'
<1>1. /\ reqs' \in [Handlers -> Request] /\ reqs'[h] = Quiet
      /\ \A g \in Handlers : g # h => reqs'[g] = reqs[g]
  BY QuietIsRequest DEF Done, IInv, Typed
<1>2. reqs[h].link \in Link /\ Vouched(reqs[h].user, reqs[h].link)
  BY AtOf DEF IInv, Vouching
<1>3. /\ links' \in [Users -> Link]
      /\ \A u \in Users : links'[u] = links[u] \/ (u = reqs[h].user /\ links'[u] = reqs[h].link)
  BY <1>2 DEF IInv, Typed
<1>4. Typed' /\ States'
  BY <1>1, <1>3 DEF IInv, Typed, States, memory
<1>5. Writing'
  BY <1>1, LinkAssumption DEF IInv, Writing, Quiet
<1>6. \A u, l : Vouched(u, l)' <=> Vouched(u, l)
  BY DEF Vouched, memory
<1>7. Vouching'
  <2>1. \A u \in Users : Vouched(u, links'[u])
    BY <1>2, <1>3 DEF IInv, Vouching
  <2>2. \A u \in Users : Vouched(u, links[u])'
    BY <1>6, <2>1
  <2>3. \A g \in Handlers : reqs'[g].at # "idle" => Vouched(reqs'[g].user, reqs'[g].link)
    BY <1>1 DEF IInv, Vouching, Quiet
  <2>4. \A g \in Handlers : reqs'[g].at # "idle" => Vouched(reqs[g].user, reqs[g].link)'
    BY <1>6, <2>3
  <2> QED BY <2>2, <2>4 DEF IInv, Vouching
<1> QED BY <1>4, <1>5, <1>7 DEF IInv

\* Whoever is inside the file store is alone there, and has seen what is there.
LEMMA Alone ==
    ASSUME IInv, NEW h \in Handlers, reqs[h].at \in {"load", "store"}
    PROVE  /\ mu = h
           /\ \A g \in Handlers : g # h => reqs[g].at \notin {"load", "store"}
           /\ reqs[h].at = "store" => reqs[h].saw = links
           /\ reqs[h].op = "link"
BY DEF IInv, Writing

LEMMA StoreInv ==
    ASSUME IInv, NEW h \in Handlers, Load(h) \/ Store(h) \/ Put(h)
    PROVE  IInv'
<1>1. CASE Load(h)
  <2>1. CASE reqs' = [reqs EXCEPT ![h].at = "store", ![h].saw = links] /\ UNCHANGED mu
    BY <1>1, <2>1, LoadInv DEF Load
  <2>2. CASE Done(h) /\ mu' = NoHandler
    BY <1>1, <2>2, Alone, Leaves DEF Load
  <2> QED BY <1>1, <2>1, <2>2 DEF Load
<1>2. CASE Store(h)
  <2>1. /\ mu = h /\ reqs[h].saw = links
        /\ \A g \in Handlers : g # h => reqs[g].at # "store"
    BY <1>2, Alone DEF Store
  <2> QED BY <1>2, <2>1, Leaves DEF Store
<1>3. CASE Put(h)
  <2>1. backing = "bolt" /\ reqs[h].at = "lock" /\ mu # h
    BY <1>3, AtOf DEF Put
  <2>2. \A g \in Handlers : reqs[g].at # "store"
    BY <2>1 DEF IInv, Writing
  <2> QED BY <1>3, <2>1, <2>2, Leaves DEF Put
<1> QED BY <1>1, <1>2, <1>3

-----------------------------------------------------------------------------
(* The rest.                                                               *)

LEMMA RestartInv ==
    ASSUME IInv, Restart
    PROVE  IInv'
<1>1. /\ pending' = {} /\ installs' = {} /\ mu' = NoHandler
      /\ reqs' = [h \in Handlers |-> Quiet]
      /\ UNCHANGED <<backing, now, asked, taken, links, bot, forms>>
  BY DEF Restart
<1>2. Typed'
  BY <1>1, QuietIsRequest DEF IInv, Typed
<1>3. States'
  BY <1>1 DEF IInv, States
<1>4. Writing'
  BY <1>1, LinkAssumption DEF Writing, Quiet
<1>5. Vouching'
  BY <1>1 DEF IInv, Vouching, Vouched, Quiet
<1> QED BY <1>2, <1>3, <1>4, <1>5 DEF IInv

\* The poll, the clock and a stutter leave everything the invariant is about.
LEMMA OutsideInv ==
    ASSUME IInv, UNCHANGED <<backing, memory, links, bot, forms, mu, reqs>>,
           now' \in 0..MaxTime
    PROVE  IInv'
<1>1. Typed'
  BY DEF IInv, Typed
<1>2. States'
  BY DEF IInv, States, memory
<1>3. Writing'
  BY DEF IInv, Writing
<1>4. Vouching'
  BY DEF IInv, Vouching, Vouched, memory
<1> QED BY <1>1, <1>2, <1>3, <1>4 DEF IInv

LEMMA NextInv == IInv /\ [Next]_vars => IInv'
<1> SUFFICES ASSUME IInv, [Next]_vars PROVE IInv'
  OBVIOUS
<1>1. now \in 0..MaxTime /\ MaxTime \in Nat /\ forms \subseteq Users /\ (forms # {} => bot)
  BY LinkAssumption DEF IInv, Typed, Vouching
<1>2. ASSUME NEW u \in Users, AskLink(u) PROVE IInv'
  BY <1>1, <1>2, IssueInv DEF AskLink
<1>3. ASSUME NEW u \in Users, AskForm(u) PROVE IInv'
  <2>1. forms' \subseteq Users /\ (forms' # {} => bot)
    BY <1>1, <1>3 DEF AskForm
  <2> QED BY <1>3, <2>1, IssueInv DEF AskForm
<1>4. ASSUME NEW h \in Handlers, NEW s \in pending, Callback(h, s) PROVE IInv'
  BY <1>4, CallbackInv
<1>5. ASSUME NEW h \in Handlers, NEW u \in Users,
             Submit(h, u) \/ Unlink(h, u) \/ \E op \in {"command", "click"} : Ask(h, op, u)
      PROVE  IInv'
  BY <1>5, SubmitInv, UnlinkInv, AskInv
<1>6. ASSUME NEW h \in Handlers,
             \/ Exchange(h)
             \/ Lock(h) \/ Load(h) \/ Store(h) \/ Put(h)
             \/ GetLink(h) \/ Run(h)
      PROVE  IInv'
  BY <1>6, ExchangeInv, LockInv, StoreInv, GetLinkInv, RunInv
<1>7. CASE AskInstall
  BY <1>1, <1>7, IssueInv DEF AskInstall
<1>8. ASSUME NEW s \in installs, Install(s) PROVE IInv'
  BY <1>8, InstallInv
<1>9. CASE PollStart \/ PollEnd \/ \E u \in Users : PollUser(u)
  BY <1>1, <1>9, OutsideInv DEF PollStart, PollEnd, PollUser
<1>10. CASE Tick
  BY <1>1, <1>10, OutsideInv DEF Tick
<1>11. CASE Restart
  BY <1>11, RestartInv
<1>12. CASE UNCHANGED vars
  BY <1>1, <1>12, OutsideInv DEF vars
<1> QED
  BY <1>2, <1>3, <1>4, <1>5, <1>6, <1>7, <1>8, <1>9, <1>10, <1>11, <1>12 DEF Next

-----------------------------------------------------------------------------
(* The theorems.                                                           *)

\* Every variable has its values, and the file store is locked by the request
\* inside it and no other (the deferred unlocks of UserLinkFileStore).
THEOREM TypeCorrect == Spec => []TypeOK
<1>1. IInv => TypeOK
  BY DEF IInv, Typed, States, Writing, TypeOK, Request
<1> QED BY InitInv, NextInv, <1>1, PTL DEF Spec

\* A link that is stored, about to be or in use was asked for by its user, by a
\* state accepted once and in time (consume, openCredentialModal).
THEOREM LinksAskedFor == Spec => []LinksByRequest
<1>1. IInv => LinksByRequest
  BY DEF IInv, Vouching, Vouched, LinksByRequest
<1> QED BY InitInv, NextInv, <1>1, PTL DEF Spec

\* Nobody's link changes but by a request of their own, in either store
\* (UserLinkFileStore, BoltUserLinkStore).
THEOREM LinksOwn == Spec => OnlyOwnLink
<1> DEFINE A == \A u \in Users : links'[u] # links[u] =>
                    \E h \in Handlers :
                        /\ reqs[h].op = "link" /\ reqs[h].user = u /\ links'[u] = reqs[h].link
                        /\ reqs'[h].at = "idle"
<1>1. IInv /\ [Next]_vars => [A]_vars
  <2> SUFFICES ASSUME IInv, [Next]_vars, NEW u \in Users, links'[u] # links[u]
               PROVE  \E h \in Handlers :
                        /\ reqs[h].op = "link" /\ reqs[h].user = u /\ links'[u] = reqs[h].link
                        /\ reqs'[h].at = "idle"
    OBVIOUS
  <2>1. PICK h \in Handlers : Store(h) \/ Put(h)
    BY DEF Next, vars, AskLink, AskForm, Callback, Submit, Unlink, Ask, Exchange, Lock, Load,
       GetLink, Run, AskInstall, Install, PollStart, PollEnd, PollUser, Tick, Restart
  <2>2. links' = [links EXCEPT ![reqs[h].user] = reqs[h].link]
    BY <2>1, Alone DEF Store, Put
  <2>3. reqs[h].op = "link"
    BY <2>1, Alone DEF Store, Put, IInv, Writing
  <2>4. reqs'[h].at = "idle"
    BY <2>1 DEF Store, Put, Done, Quiet, IInv, Typed
  <2> QED BY <2>2, <2>3, <2>4 DEF IInv, Typed
<1> QED BY InitInv, NextInv, <1>1, PTL DEF Spec, OnlyOwnLink
-----------------------------------------------------------------------------
(* States do not pile up.                                                  *)

\* No state outlasts one that is issued now.
PInv ==
    /\ IInv /\ PendingBounded
    /\ \A i \in 1..Len(asked) : asked[i].until <= now + TTL

LEMMA SetsOfStates ==
    ASSUME PInv, NEW states \in {pending, installs}
    PROVE  /\ states \subseteq 1..Len(asked)
           /\ \A s \in states : asked[s].until \in Nat /\ asked[s].until <= now + TTL
           /\ \A s, t \in states : asked[s].until - asked[t].until < TTL
<1>1. states \subseteq 1..Len(asked)
  BY DEF PInv, IInv, States
<1>2. \A s \in states : asked[s] \in State
  BY <1>1 DEF PInv, IInv, States
<1> QED BY <1>1, <1>2 DEF PInv, PendingBounded, State

\* A new state outlasts each that is still kept by less than its own time.
LEMMA IssueBounded ==
    ASSUME PInv, IInv', NEW kind \in {"link", "form", "install"}, NEW u \in Users \cup {"none"},
           Issue(kind, u), now' = now
    PROVE  PInv'
<1> DEFINE n == Len(asked) + 1
<1>1. now \in Nat /\ TTL \in Nat /\ TTL > 0
  BY LinkAssumption DEF PInv, IInv, Typed
<1>2. /\ Len(asked) \in Nat /\ Len(asked') = n /\ asked'[n].until = now + TTL
      /\ \A i \in 1..Len(asked) : asked'[i] = asked[i]
  BY DEF Issue, PInv, IInv, States
<1>3. ASSUME NEW old \in {pending, installs}, NEW s \in Reap(old) \cup {n},
             NEW t \in Reap(old) \cup {n}
      PROVE  asked'[s].until - asked'[t].until < TTL
  <2>1. \A i \in old : i \in 1..Len(asked) /\ asked'[i] = asked[i]
    BY <1>2, SetsOfStates
  <2>2. \A i \in Reap(old) : /\ asked'[i].until \in Nat /\ asked'[i].until <= now + TTL
                             /\ now < asked'[i].until /\ i \in old
    BY <2>1, SetsOfStates DEF Reap
  <2>3. CASE s \in old /\ t \in old
    BY <2>1, <2>3, SetsOfStates
  <2>4. CASE s = n
    BY <1>1, <1>2, <2>2, <2>4
  <2>5. CASE t = n
    BY <1>1, <1>2, <2>2, <2>5
  <2> QED BY <2>2, <2>3, <2>4, <2>5
<1>4. ASSUME NEW old \in {pending, installs}, NEW s \in old, NEW t \in old
      PROVE  asked'[s].until - asked'[t].until < TTL
  BY <1>2, SetsOfStates
<1>5. PendingBounded'
  <2>1. n = Len(asked')
    BY <1>2
  <2>2. /\ pending' = pending \/ pending' = Reap(pending) \cup {n}
        /\ installs' = installs \/ installs' = Reap(installs) \cup {n}
    BY <2>1 DEF Issue
  <2> QED BY <1>3, <1>4, <2>2 DEF PendingBounded
<1>6. \A i \in 1..Len(asked') : asked'[i].until <= now' + TTL
  <2>1. \A i \in 1..Len(asked') : i = n \/ i \in 1..Len(asked)
    BY <1>2
  <2> QED BY <1>1, <1>2, <2>1 DEF PInv
<1> QED BY <1>5, <1>6 DEF PInv

\* No other step adds one.
LEMMA NoneIssued ==
    ASSUME PInv, IInv', asked' = asked, now' \in Nat, now <= now',
           pending' \subseteq pending, installs' \subseteq installs
    PROVE  PInv'
<1>1. PendingBounded'
  BY DEF PInv, PendingBounded
<1>2. \A i \in 1..Len(asked') : asked'[i].until <= now' + TTL
  <2> SUFFICES ASSUME NEW i \in 1..Len(asked) PROVE asked[i].until <= now' + TTL
    OBVIOUS
  <2>1. asked[i].until <= now + TTL /\ asked[i].until \in Nat
    <3>1. asked[i] \in State
      BY DEF PInv, IInv, States
    <3> QED BY <3>1 DEF PInv, State
  <2>2. now \in Nat /\ TTL \in Nat
    BY LinkAssumption DEF PInv, IInv, Typed
  <2> QED BY <2>1, <2>2
<1> QED BY <1>1, <1>2 DEF PInv

LEMMA NextP == PInv /\ [Next]_vars => PInv'
<1> SUFFICES ASSUME PInv, [Next]_vars PROVE PInv'
  OBVIOUS
<1>1. IInv' /\ now \in Nat
  BY NextInv, LinkAssumption DEF PInv, IInv, Typed
<1>2. ASSUME NEW u \in Users, AskLink(u) \/ AskForm(u) PROVE PInv'
  BY <1>1, <1>2, IssueBounded DEF AskLink, AskForm
<1>3. CASE AskInstall
  BY <1>1, <1>3, IssueBounded DEF AskInstall
<1>4. CASE ~ AskInstall /\ ~ \E u \in Users : AskLink(u) \/ AskForm(u)
  <2>1. asked' = asked /\ pending' \subseteq pending /\ installs' \subseteq installs
    BY <1>4 DEF Next, vars, memory, Callback, Submit, Unlink, Ask, Exchange, Lock, Load, Store,
       Put, GetLink, Run, Install, PollStart, PollEnd, PollUser, Tick, Restart, Without
  <2>2. now' = now \/ now' = now + 1
    BY <1>4 DEF Next, vars, Callback, Submit, Unlink, Ask, Exchange, Lock, Load, Store, Put,
       GetLink, Run, Install, PollStart, PollEnd, PollUser, Tick, Restart
  <2> QED BY <1>1, <2>1, <2>2, NoneIssued
<1> QED BY <1>2, <1>3, <1>4

\* However many states are asked for and never brought back, those kept were
\* issued within one state's time of each other (reapLocked).
THEOREM StatesAreReaped == Spec => []PendingBounded
<1>1. Init => PInv
  BY InitInv DEF Init, PInv, PendingBounded
<1>2. PInv => PendingBounded
  BY DEF PInv
<1> QED BY <1>1, <1>2, NextP, PTL DEF Spec

-----------------------------------------------------------------------------
(* A pass over the users.                                                  *)

Passing ==
    /\ poll \in [todo : SUBSET Users, ran : SUBSET Users, steady : SUBSET Users]
    /\ PollReachesAll

LEMMA NextPassing == Passing /\ [Next]_vars => Passing'
<1> SUFFICES ASSUME Passing, [Next]_vars PROVE Passing'
  OBVIOUS
<1>1. ASSUME NEW u, Written(u) PROVE Passing'
  BY <1>1 DEF Passing, Written, PollReachesAll
<1>2. CASE PollStart
  BY <1>2 DEF Passing, PollStart, PollReachesAll
<1>3. CASE PollEnd \/ Restart
  BY <1>3 DEF Passing, PollEnd, Restart, NoPoll, PollReachesAll
<1>4. ASSUME NEW u \in Users, PollUser(u) PROVE Passing'
  <2>1. CASE poll' = [poll EXCEPT !.todo = @ \ {u}, !.ran = @ \cup {u}]
    BY <2>1 DEF Passing, PollReachesAll
  <2>2. CASE poll' = Skip(u)
    BY <2>2 DEF Passing, Skip, PollReachesAll
  <2> QED BY <1>4, <2>1, <2>2 DEF PollUser
<1>5. CASE UNCHANGED poll
  BY <1>5 DEF Passing, PollReachesAll
<1> QED BY <1>1, <1>2, <1>3, <1>4, <1>5 DEF Next, vars, AskLink, AskForm, Callback, Submit,
     Unlink, Ask, Exchange, Lock, Load, Store, Put, GetLink, Run, AskInstall, Install, Tick

\* In every pass, whatever is linked, unlinked and refused meanwhile and in
\* whichever order the users come, nobody whose link stays and whose token is
\* renewed is passed over (PollUsers).
THEOREM PollsReachAll == Spec => []PollReachesAll
<1>1. Init => Passing
  BY DEF Init, NoPoll, Passing, PollReachesAll
<1>2. Passing => PollReachesAll
  BY DEF Passing
<1> QED BY <1>1, <1>2, NextPassing, PTL DEF Spec
=============================================================================
