----------------------------- MODULE MCCtrlPage -----------------------------
(* Instances of CtrlPage: a main thread and two more, so that a child can  *)
(* itself start a thread or a child.                                       *)
EXTENDS CtrlPage, TLC

CONSTANTS m, t1, t2

MCThread == {m, t1, t2}

ThreadSymmetry == Permutations({t1, t2})
=============================================================================
