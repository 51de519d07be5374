------------------------------ MODULE MCDaemon ------------------------------
(***************************************************************************)
(* The workflows the daemon is checked on: the built-in shapes of          *)
(* internal/workflow/defaults and docs/workflows.md, with few steps.       *)
(***************************************************************************)
EXTENDS Daemon, Sequences, TLC

CONSTANTS Manager, Director, Mate

NoBranches == [o \in Outcomes |-> Unnamed]

Plain(verb) ==
    [verb |-> verb, id |-> Unnamed, next |-> Unnamed, on |-> NoBranches, approver |-> NoOne,
     timeout |-> NoTimeout, for |-> IF verb = "wait" THEN 1 ELSE 0, when |-> Unguarded]

Ends(s) == [s EXCEPT !.next = EndTarget]
Id(name, s) == [s EXCEPT !.id = name]
By(p) == [Plain("approve") EXCEPT !.approver = p]
Dated(s) == [s EXCEPT !.when.dated = TRUE]

Flow(steps) == [i \in 0 .. (Len(steps) - 1) |-> steps[i + 1]]

\* pto-two-level: the manager, then the director, then the team.
TwoLevel == Flow(<<Plain("hold"), Plain("approve"), By(Director), Ends(Plain("notify"))>>)

\* A gate with a branch for each outcome, one of which cancels the hold.
Branching ==
    Flow(<<Plain("hold"),
           [Plain("approve") EXCEPT !.timeout = 1,
               !.on = [accepted |-> "tell", declined |-> "denied", expired |-> "scrap"]],
           Id("tell", Dated(Plain("notify"))),
           Ends(Plain("leave")),
           Id("denied", Ends(Plain("note"))),
           Id("scrap", Plain("cancel"))>>)

\* An immediate step on some days, a wait, and a gate that falls through.
Waiting == Flow(<<Plain("hold"), Dated(Plain("message")), Plain("wait"), Plain("approve"),
                  Plain("message"), Ends(Plain("notify"))>>)

\* A meeting that is announced after a while, in two places.
Meeting == Flow(<<Plain("event"), Plain("wait"), Plain("message"), Ends(Plain("message"))>>)

\* One approval and a message to the team.
OneLevel == Flow(<<Plain("hold"), Plain("approve"), Ends(Plain("notify"))>>)

\* The team hears of it between the two approvals.
EarlyNotify == Flow(<<Plain("hold"), Plain("approve"), Plain("notify"), By(Director),
                      Ends(Plain("message"))>>)

\* A decline runs a note.
DeclineNote ==
    Flow(<<Plain("hold"),
           [Plain("approve") EXCEPT !.on = [NoBranches EXCEPT !["declined"] = "denied"]],
           Ends(Plain("notify")),
           Id("denied", Ends(Plain("note")))>>)

Chains == {TwoLevel, Branching, Waiting}
Shared == {TwoLevel, Meeting}
OnlyTwoLevel == {TwoLevel}
OnlyOneLevel == {OneLevel}
OnlyDeclineNote == {DeclineNote}
OnlyEarlyNotify == {EarlyNotify}

\* Holds differ only in their names; no choice is made among them.
HoldSymmetry == Permutations(Holds)
=============================================================================
