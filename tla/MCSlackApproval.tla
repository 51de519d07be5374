-------------------------- MODULE MCSlackApproval ---------------------------
(***************************************************************************)
(* Small instances of SlackApproval.                                       *)
(***************************************************************************)
EXTENDS SlackApproval

Budget(commands, rest) == [commands |-> commands, links |-> rest[1], answers |-> rest[2],
                           clicks |-> rest[3], kills |-> rest[4]]

\* Many changes of mind and of link around one click, or two clicks at once.
MCBudgets == {Budget(1, <<2, 2, 1, 1>>), Budget(2, <<2, 1, 1, 0>>), Budget(1, <<1, 1, 2, 1>>)}

MCOneClick == {Budget(1, <<1, 1, 1, 0>>)}
=============================================================================
