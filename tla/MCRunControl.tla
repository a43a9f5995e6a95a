---------------------------- MODULE MCRunControl ----------------------------
(* Small instances of RunControl. *)
EXTENDS RunControl, TLC

CONSTANTS i1, i2

Request(i, op, ours, expect, deadline) ==
    [id |-> i, op |-> op, ours |-> ours, expect |-> expect, deadline |-> deadline]

(* Two steers, and an interrupt that reuses an id. *)
SteerAndInterrupt ==
    {Request(i1, "steer", TRUE, 0, 9), Request(i2, "steer", TRUE, 0, 9),
     Request(i2, "interrupt", TRUE, 0, 9)}

(* A steer that names a turn, one with a deadline, an interrupt that reuses *)
(* an id, and one for another run.                                          *)
MixedRequests ==
    {Request(i1, "steer", TRUE, 0, 9), Request(i2, "steer", TRUE, 1, 9),
     Request(i2, "steer", TRUE, 0, 0), Request(i2, "interrupt", TRUE, 0, 9),
     Request(i2, "interrupt", FALSE, 0, 9)}

Symmetric == Permutations(Callers)
=============================================================================
