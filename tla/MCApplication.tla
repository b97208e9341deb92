---------------------------- MODULE MCApplication -----------------------------
(***************************************************************************)
(* Application for three senders, one of whom has two exchanges, and a     *)
(* registry that holds two of them.                                        *)
(***************************************************************************)
EXTENDS Application, TLC

CONSTANTS e1, e2, d1, d2, b1, b2, b3

MCDeliveryOf == (e1 :> d1) @@ (e2 :> d2)
MCBindingOf  == [e \in Exchange |-> b1]

\* Callers are told apart by nothing but their names.
Symmetry == Permutations(Caller)

===============================================================================
