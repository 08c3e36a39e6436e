---------------------------- MODULE MCRuntimeState ----------------------------
(***************************************************************************)
(* Small instances of RuntimeState for TLC. Daemons, commands and AFTRs    *)
(* are interchangeable.                                                    *)
(***************************************************************************)
EXTENDS RuntimeState, TLC

Symmetry == Permutations(Daemon) \cup Permutations(Command) \cup Permutations(Aftr)
===============================================================================
