---------------------------- MODULE MCTaskSystem ----------------------------
(* Instances of TaskSystem for TLC. *)
EXTENDS TaskSystem, TLC

CONSTANTS t1, t2, t3

MCTask == {t1, t2, t3}

\* Three tasks that are measured together: a campaign of src/carun.py, or the
\* children of a test.
Campaign == t1 :> RtSpin @@ t2 :> CaSpin @@ t3 :> TestChild

\* What the theorems of TaskSystem_proofs assume of the programs.
ASSUME ProgramsWaitOnce ==
  \A p \in {RtSpin, RtSpinCache, CaSpin, CaSpinV2, CaSpinWrite, CaThrash, CpuSpin,
             RtLaunch, BaseTask, RtThread, TestChild} :
    WaitsOnce(p) /\ JobsAfterWait(p)
=============================================================================
