---------------------------- MODULE MCReconciler ----------------------------
(***************************************************************************)
(* Small instances of Reconciler for TLC.                                  *)
(***************************************************************************)
EXTENDS Reconciler, FiniteSets, TLC

Once(kinds) == [kind \in Kinds |-> IF kind \in kinds THEN 1 ELSE 0]

\* Every kind of disturbance once, but only so many in one behaviour. The
\* daemon does not look at the IPv4 part: its loss is combined with nothing. A
\* change of the offer, which may be anything at first, with one other.
SafetyBudget == Once(Kinds \ {"overflow", "dns"})
Spent == {kind \in Kinds : budget[kind] < Budget[kind]}
FewDisturbances ==
    LET spent == Spent
    IN  Cardinality(spent) <= IF "offer" \in spent THEN 2
                              ELSE IF "plumbing" \in spent THEN 1 ELSE 3

\* Addresses of a kind are interchangeable where none is configured.
Symmetry == Permutations(Local) \cup Permutations(Remote)

\* What the daemon must recover from by itself, and a request to stop.
LivenessBudget == Once({"tunnel", "dns", "overflow", "term"})

PlumbingBudget == Once({"plumbing"})
=============================================================================
