---------------------------- MODULE MCSlackLinks ----------------------------
(***************************************************************************)
(* Users and handlers are alike.                                           *)
(***************************************************************************)
EXTENDS SlackLinks, TLC

MCSymmetry == Permutations(Users) \cup Permutations(Handlers)
=============================================================================
