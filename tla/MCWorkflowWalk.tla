--------------------------- MODULE MCWorkflowWalk ---------------------------
(***************************************************************************)
(* Every definition of four steps over a few verbs: a hold, then any three *)
(* steps with any jumps between them, valid or not.                        *)
(***************************************************************************)
EXTENDS WorkflowWalk

CONSTANT Boss

Name(i) == IF i = 0 THEN "s0" ELSE IF i = 1 THEN "s1" ELSE IF i = 2 THEN "s2" ELSE "s3"

NoBranches == [o \in Outcomes |-> Unnamed]

Plain(verb) ==
    [verb |-> verb, id |-> Unnamed, next |-> Unnamed, on |-> NoBranches, approver |-> NoOne,
     timeout |-> NoTimeout, for |-> IF verb = "wait" THEN 1 ELSE 0, when |-> Unguarded]

Targets == {Name(i) : i \in 0 .. 3} \cup {Unnamed, EndTarget}

Weekdays == [dated |-> TRUE, min |-> 0, max |-> 0]
SmallTeams == [dated |-> FALSE, min |-> 1, max |-> 2]

\* Immediate steps with every jump and guard; the last step needs fewer.
Moves == {[Plain(v) EXCEPT !.next = t, !.when = g] :
            v \in {"notify", "cancel"}, t \in Targets, g \in {Unguarded, Weekdays}}
         \cup {[Plain("message") EXCEPT !.next = t, !.when = SmallTeams] :
                  t \in {Unnamed, "s1"}}
LastMoves == {[Plain("notify") EXCEPT !.next = t] : t \in {Unnamed, "s0", "s1"}}
             \cup {[Plain("message") EXCEPT !.when = Weekdays], Plain("cancel")}
Waiting == {[Plain("wait") EXCEPT !.next = t] : t \in {Unnamed, "s1"}}

\* Gates with every outcome branched, and gates that fall through on acceptance.
Gates == {[Plain("approve") EXCEPT !.approver = Boss, !.on = b, !.timeout = 1] :
            b \in [Outcomes -> {"s1", "s3", EndTarget}]}
         \cup {[Plain("approve") EXCEPT !.approver = a,
                                        !.on = [NoBranches EXCEPT !["declined"] = t]] :
                 a \in {Boss, NoOne}, t \in {Unnamed, "s2", "s3"}}

Named(s, i) == [s EXCEPT !.id = Name(i)]

MCDefinitions ==
    {[i \in 0 .. 3 |-> Named(IF i = 0 THEN [Plain("hold") EXCEPT !.next = h]
                             ELSE IF i = 1 THEN a ELSE IF i = 2 THEN b ELSE c, i)] :
        h \in {Unnamed, "s2"}, a \in Gates, b \in Moves \cup Waiting \cup Gates,
        c \in LastMoves}
=============================================================================
