------------------------------ MODULE MCSchedule ------------------------------
(***************************************************************************)
(* Small instances of Schedule for TLC. A unit of time stands for one      *)
(* second of the generic retry policy; delays of zero, within and at the   *)
(* health interval are there, and retries reach beyond it.                 *)
(***************************************************************************)
EXTENDS Schedule

MCHealth == 2
MCTtlDelays == {0, 3}
MCRetryDelays == {1, 2}
===============================================================================
