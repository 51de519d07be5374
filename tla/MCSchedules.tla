---------------------------- MODULE MCSchedules -----------------------------
(***************************************************************************)
(* Small instances of Schedules: the daemon of the machine, and the one    *)
(* the Slack server runs for a linked user, with a watch file of its own.  *)
(***************************************************************************)
EXTENDS Schedules

CONSTANTS Pto, Focus, Machine, PerUser

Intervals == [j \in Jobs |-> 1]

OneLock == [d \in Daemons |-> Machine]

OwnLocks ==
    [d \in Daemons |-> IF d = CHOOSE e \in Daemons : TRUE THEN Machine ELSE PerUser]

=============================================================================
