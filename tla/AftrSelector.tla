----------------------------- MODULE AftrSelector -----------------------------
(***************************************************************************)
(* The choice of an AFTR address among the candidates DNS gives (aftr.rs). *)
(***************************************************************************)
CONSTANT NoAddr    \* Option::None where an address may be missing

\* Mutant: the first candidate is always the choice.
Select_First(candidates, first, current, missing, over) ==
    [aftr |-> first, missing |-> FALSE]

(***************************************************************************)
(* AftrSelector::select, where "first" is the first candidate in DNS order *)
(* (NoAddr if there is none), "missing" says that missing_since is set,    *)
(* and "over" that the grace period has passed since then. The result is   *)
(* the selected address and whether missing_since is set afterwards.       *)
(***************************************************************************)
Select(candidates, first, current, missing, over) ==
    IF first = NoAddr \/ current = NoAddr THEN [aftr |-> first, missing |-> FALSE]
    ELSE IF current \in candidates THEN [aftr |-> current, missing |-> FALSE]
    ELSE IF missing /\ over THEN [aftr |-> first, missing |-> FALSE]
    ELSE [aftr |-> current, missing |-> TRUE]
===============================================================================
