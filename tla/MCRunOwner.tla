---------------------------- MODULE MCRunOwner ----------------------------
(***************************************************************************)
(* Instances of RunOwner for TLC.                                          *)
(***************************************************************************)
EXTENDS RunOwner

CONSTANTS h, closer

(* A host interferes with two streams, and with a blocking call; close()    *)
(* meets an operation without a run, a stream, and a blocking call.         *)
MCScenarios ==
    {[modes |-> <<"streaming", "streaming">>, askers |-> {h}],
     [modes |-> <<"blocking">>, askers |-> {h}],
     [modes |-> <<"fence", "streaming">>, askers |-> {closer}],
     [modes |-> <<"blocking">>, askers |-> {closer}]}
=============================================================================
