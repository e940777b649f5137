----------------------------- MODULE MCScheduler ----------------------------
(* Small instances of Scheduler for TLC. *)
EXTENDS Scheduler

MCCPUs == 0..1

\* Arguments that name a CPU, NO_AFF, or (refused by sys_set_affinity) one past
\* the last CPU.
ValidAffs == {-1, 0, 1}
RefusedAffs == {2}
MCSetAffs == ValidAffs \cup RefusedAffs

\* sys_set_affinity with an argument below NO_AFF
NegativeAffs == {-2}
=============================================================================
