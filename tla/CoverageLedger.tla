--------------------------- MODULE CoverageLedger ---------------------------
(***************************************************************************)
(* What the coverage ledger promises to the commands and daemons that      *)
(* share its file: each Record and each Remove takes effect at once, on    *)
(* what the one before it left, and only time off that is over is dropped. *)
(*                                                                         *)
(* Code: internal/coverage/coverage.go, its comments on withFileLock,      *)
(* Record and Remove.  Holds has the steps that carry it out.              *)
(***************************************************************************)
EXTENDS Naturals

CONSTANTS
    Entry,      \* what may be recorded: a hold, its owner and its window
    HoldIds

VARIABLES
    entries,    \* the ledger
    clock       \* the time

Record(e, at) ==
    /\ at <= clock
    /\ entries' = {x \in entries : x.end > at} \cup {e}

Remove(h) == entries' = {x \in entries : x.hold # h}

Init == entries = {}

Next ==
    \/ \E e \in Entry : \E at \in 0..clock : Record(e, at)
    \/ \E h \in HoldIds : Remove(h)

Spec == Init /\ [][Next]_entries
=============================================================================
