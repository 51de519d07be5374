-------------------------- MODULE MCWorkflowCycle ---------------------------
(***************************************************************************)
(* Definitions of four steps with every combination of jumps of a message, *)
(* a gate with all three outcomes branched, and a last message.            *)
(***************************************************************************)
EXTENDS WorkflowCycle

Name(i) == IF i = 0 THEN "s0" ELSE IF i = 1 THEN "s1" ELSE IF i = 2 THEN "s2" ELSE "s3"

NoBranches == [o \in Outcomes |-> Unnamed]

Plain(verb) ==
    [verb |-> verb, id |-> Unnamed, next |-> Unnamed, on |-> NoBranches, approver |-> NoOne,
     timeout |-> NoTimeout, for |-> 0, when |-> Unguarded]

Targets == {Name(i) : i \in 0 .. 3} \cup {Unnamed, EndTarget}

Message(t) == [Plain("message") EXCEPT !.next = t]

\* A gate with every branch, and one whose decline falls through or not.
Gates == {[Plain("approve") EXCEPT !.on = b, !.timeout = 1] :
            b \in [Outcomes -> {"s1", "s3", EndTarget}]}
         \cup {[Plain("approve") EXCEPT !.next = t] : t \in Targets}

MCDefinitions ==
    {[i \in 0 .. 3 |-> [(IF i = 0 THEN [Plain("hold") EXCEPT !.next = h]
                         ELSE IF i = 1 THEN Message(m)
                         ELSE IF i = 2 THEN g ELSE Message(n)) EXCEPT !.id = Name(i)]] :
        h \in {Unnamed, "s3"}, m \in Targets, n \in Targets, g \in Gates}
=============================================================================
