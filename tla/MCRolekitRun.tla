---------------------------- MODULE MCRolekitRun ----------------------------
(* Small instances of RolekitRun: the calls are interchangeable, and so are *)
(* the run ids and the signals, which lets the safety run reduce by         *)
(* symmetry.                                                                *)
EXTENDS RolekitRun, TLC

Symmetry == Permutations(Calls) \cup Permutations(RunIds) \cup Permutations(Signals)
=============================================================================
