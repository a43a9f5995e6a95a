-------------------------- MODULE MCConfirmations --------------------------
(* Instances of Confirmations for TLC. *)
EXTENDS Confirmations, TLC

CONSTANTS c, d, p, k

MCCalls == {c, d, p}
MCIds   == {k}

\* Two calls of a child and one of its parent, all with one id.
MCIdOf  == [x \in MCCalls |-> k]
MCAsks  == (c :> {{"child"}, {"child", "parent"}})
           @@ (d :> {{}, {"parent"}}) @@ (p :> {{"parent"}})
=============================================================================
