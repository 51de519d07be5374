------------------------------ MODULE MCHolds -------------------------------
(***************************************************************************)
(* Small instances of Holds.  Day 1 is a Monday; the first holiday is the  *)
(* Wednesday of the next week.                                             *)
(***************************************************************************)
EXTENDS Holds, TLC

MCWeekend == {0, 6}
MCDates == {<<2, 4>>, <<4, 2>>}
MCSymmetry == Permutations(Procs) \cup Permutations(Owners)
=============================================================================
