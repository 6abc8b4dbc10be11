----------------------------- MODULE MCCheckout -----------------------------
(***************************************************************************)
(* A chain of three safe files: B depends on A, and C on B.                *)
(***************************************************************************)
EXTENDS Checkout

CONSTANTS A, B, C, v1

Chain == <<A, B, C>>

NoGroup == [f \in {A, B, C} |-> None]

Dependencies == {<<B, A>>, <<C, B>>}

OneVersion == [f \in {A, B, C} |-> v1]

\* Somebody else has a checkout from before any baseline, or resolves.
OldCheckout == {[cmd |-> "apply", tree |-> OneVersion], [cmd |-> "resolve", file |-> B]}

\* baseline, and baseline --keep-since B.
Cuts == {{}, {B}}

Gated == [drift |-> TRUE, base |-> FALSE]

FromBaseline == [drift |-> FALSE, base |-> TRUE]

KeepLeaves == {{}}

AllOptions == {Gated, FromBaseline}
=============================================================================
