---------------------------- MODULE LockPrograms ----------------------------
(***************************************************************************)
(* The programs that use real-time locks, as sequences of library calls    *)
(* with the answers they insist on: the lock tests of src/tests (locks.c,  *)
(* nesting.c, pcp.c, fdso.c) and rtspin with -X.  A call names the object  *)
(* descriptor (from 0) it is made with; "any" is an answer nobody looks    *)
(* at.  Processors and priorities are left out, and so are the tests whose *)
(* outcome depends on them.                                                *)
(***************************************************************************)
EXTENDS Integers, Sequences, Functions

Step(call, od, object, expect) ==
  [call |-> call, od |-> od, object |-> object, expect |-> expect]

NoObject == <<"none", 0>>

\* SYSCALL(...) and SYSCALL_FAILS(...) of tests.h.
Syscall(call, od) == <<Step(call, od, NoObject, "ok")>>
SyscallFails(error, call, od) == <<Step(call, od, NoObject, error)>>
Open(od, protocol, id) == <<Step("open", od, <<protocol, id>>, "ok")>>
OpenFails(error, protocol) == <<Step("open", 0, <<protocol, 0>>, error)>>

\* set_rt_task_param(), be_migrate_to_cpu() and task_mode(LITMUS_RT_TASK), by
\* themselves or in sporadic_partitioned().
BecomeRt == Syscall("rt", 0)
BecomeBackground == Syscall("background", 0)

LockUnlock(od) == Syscall("lock", od) \o Syscall("unlock", od)

-----------------------------------------------------------------------------
(* Tests.                                                                  *)

\* "... acquisition and release".
Acquisition(protocol) ==
  BecomeRt \o Open(0, protocol, 0) \o LockUnlock(0) \o LockUnlock(0) \o LockUnlock(0)
    \o SyscallFails("EINVAL", "unlock", 0) \o Syscall("close", 0)

\* "... nesting not allowed" and "... nesting allowed".
TwoLocks(p, q) ==
  BecomeRt \o Open(0, p, 0) \o Open(1, q, 1) \o LockUnlock(0) \o LockUnlock(1)
NoNesting(p, q) ==
  TwoLocks(p, q)
    \o Syscall("lock", 0) \o SyscallFails("EBUSY", "lock", 1) \o Syscall("unlock", 0)
    \o Syscall("lock", 1) \o SyscallFails("EBUSY", "lock", 0) \o Syscall("unlock", 1)
    \o Syscall("close", 0) \o Syscall("close", 1)
Nesting(p) ==
  TwoLocks(p, p)
    \o Syscall("lock", 0) \o LockUnlock(1) \o Syscall("unlock", 0)
    \o Syscall("lock", 1) \o LockUnlock(0) \o Syscall("unlock", 1)
    \o Syscall("close", 0) \o Syscall("close", 1)

\* "... task becomes non-RT task while holding lock": the child's calls.
ModeChange(p) ==
  BecomeRt \o Open(0, p, 0) \o Syscall("lock", 0) \o BecomeBackground
    \o Syscall("unlock", 0) \o Syscall("close", 0)

\* "... task exits while holding lock": the test calls exit(0) before it forks
\* the task, so that it makes no call on a lock.
Teardown(p) == <<>>

\* A test that forks a child, waits for it and looks at its exit status.
WithChild(child) == <<Syscall("fork", 0) \o Syscall("waitpid", 0), child>>

NotInheritParent ==
  Open(0, "FMLP", 0) \o Syscall("fork", 0) \o BecomeRt \o LockUnlock(0) \o LockUnlock(0)
    \o BecomeBackground \o Syscall("waitpid", 0) \o Syscall("close", 0)
NotInheritChild ==
  BecomeRt \o SyscallFails("EINVAL", "lock", 0) \o SyscallFails("EINVAL", "unlock", 0)
    \o BecomeBackground

InvalidOd ==
  SyscallFails("EINVAL", "lock", 3) \o SyscallFails("EINVAL", "unlock", 3)
    \o SyscallFails("EINVAL", "close", 3) \o SyscallFails("EINVAL", "lock", -1)
    \o SyscallFails("EINVAL", "unlock", -1) \o SyscallFails("EINVAL", "close", -1)

\* A test: the plugins it is for and the calls of the test and its child.
Test(plugins, programs) == [plugins |-> plugins, programs |-> programs]
Alone(plugins, program) == Test(plugins, <<program, <<>>>>)

Plugin == {"GSN_EDF", "PSN_EDF", "P_FP", "C_EDF", "PFAIR", "LINUX"}
Fmlp == {"GSN_EDF", "PSN_EDF", "P_FP"}
Srp == {"PSN_EDF", "P_FP"}
Pfp == {"P_FP"}

\* src/tests/locks.c.
LockTests ==
  [not_lock_fmlp_be |-> Alone(Fmlp, Open(0, "FMLP", 0) \o SyscallFails("EPERM", "lock", 0)
                          \o SyscallFails("EINVAL", "unlock", 0) \o Syscall("close", 0)),
   not_lock_srp_be |-> Alone(Srp, OpenFails("EPERM", "SRP")),
   lock_srp |-> Alone(Srp, Acquisition("SRP")),
   lock_fmlp |-> Alone(Fmlp, Acquisition("FMLP")),
   lock_dflp |-> Alone(Pfp, Acquisition("DFLP")),
   srp_lock_mode_change |-> Test(Srp, WithChild(ModeChange("SRP"))),
   dflp_lock_mode_change |-> Test(Pfp, WithChild(ModeChange("DFLP"))),
   fmlp_lock_mode_change |-> Test(Fmlp, WithChild(ModeChange("FMLP"))),
   srp_lock_teardown |-> Alone(Srp, Teardown("SRP")),
   fmlp_lock_teardown |-> Alone(Fmlp, Teardown("FMLP")),
   dflp_lock_teardown |-> Alone(Pfp, Teardown("DFLP"))]

\* src/tests/nesting.c.
NestingTests ==
  [lock_fmlp_nesting |-> Alone(Fmlp, NoNesting("FMLP", "FMLP")),
   lock_fmlp_srp_nesting |-> Alone(Srp, NoNesting("FMLP", "SRP")),
   lock_srp_nesting |-> Alone(Srp, Nesting("SRP")),
   lock_pcp_nesting |-> Alone(Pfp, Nesting("PCP"))]
LocalNestingTests ==
  [lock_mpcp_pcp_no_nesting |-> Alone(Pfp, NoNesting("PCP", "MPCP")),
   lock_fmlp_pcp_no_nesting |-> Alone(Pfp, NoNesting("PCP", "FMLP")),
   lock_dpcp_pcp_no_nesting |-> Alone(Pfp, NoNesting("PCP", "DPCP")),
   lock_mpcp_srp_no_nesting |-> Alone(Pfp, NoNesting("SRP", "MPCP")),
   lock_dpcp_srp_no_nesting |-> Alone(Pfp, NoNesting("SRP", "DPCP"))]
GlobalNestingTests ==
  [lock_fmlp_mpcp_no_nesting |-> Alone(Pfp, NoNesting("MPCP", "FMLP")),
   lock_fmlp_dpcp_no_nesting |-> Alone(Pfp, NoNesting("DPCP", "FMLP")),
   mpcp_nesting |-> Alone(Pfp, NoNesting("MPCP", "MPCP")),
   mpcpvs_nesting |-> Alone(Pfp, NoNesting("MPCP_VS", "MPCP_VS")),
   dpcp_nesting |-> Alone(Pfp, NoNesting("DPCP", "DPCP"))]
DflpNestingTests ==
  [dflp_nesting |-> Alone(Pfp, NoNesting("DFLP", "DFLP")),
   lock_fmlp_dflp_no_nesting |-> Alone(Pfp, NoNesting("DFLP", "FMLP")),
   lock_dflp_pcp_no_nesting |-> Alone(Pfp, NoNesting("PCP", "DFLP"))]

\* The lock tests of src/tests/pcp.c that do not depend on priorities.
PcpTests ==
  [lock_pcp |-> Alone(Pfp, Acquisition("PCP")),
   lock_dpcp |-> Alone(Pfp, Acquisition("DPCP")),
   lock_mpcp |-> Alone(Pfp, Acquisition("MPCP")),
   not_lock_pcp_be |-> Alone(Pfp, OpenFails("EPERM", "PCP") \o OpenFails("EPERM", "DPCP")
                          \o OpenFails("EPERM", "MPCP"))]
PcpModeChangeTests ==
  [pcp_lock_mode_change |-> Test(Pfp, WithChild(ModeChange("PCP"))),
   mpcp_lock_mode_change |-> Test(Pfp, WithChild(ModeChange("MPCP"))),
   dpcp_lock_mode_change |-> Test(Pfp, WithChild(ModeChange("DPCP")))]
PcpTeardownTests ==
  [pcp_lock_teardown |-> Alone(Pfp, Teardown("PCP")),
   dpcp_lock_teardown |-> Alone(Pfp, Teardown("DPCP")),
   mpcp_lock_teardown |-> Alone(Pfp, Teardown("MPCP"))]

\* src/tests/fdso.c.
FdsoTests ==
  [fmlp_not_active |-> Alone({"C_EDF", "PFAIR", "LINUX"}, OpenFails("ENXIO", "FMLP")),
   invalid_od |-> Alone(Plugin, InvalidOd),
   invalid_obj_type |-> Alone(Plugin, OpenFails("EINVAL", "-1") \o OpenFails("EINVAL", "10")),
   not_inherit_od |-> Test({"GSN_EDF", "PSN_EDF"}, <<NotInheritParent, NotInheritChild>>)]

\* The catalogue.
Tests ==
  UNION {Range(LockTests), Range(NestingTests), Range(LocalNestingTests),
         Range(GlobalNestingTests), Range(DflpNestingTests), Range(PcpTests),
         Range(PcpModeChangeTests), Range(PcpTeardownTests), Range(FdsoTests)}

-----------------------------------------------------------------------------
(* rtspin -X protocol.                                                     *)

\* job() does not look at what litmus_lock() answers.  The variant enters the
\* critical section first.
RtSpinJob_Late ==
  <<Step("critical", 0, NoObject, "any"), Step("lock", 0, NoObject, "any"),
    Step("unlock", 0, NoObject, "any")>>
RtSpinJob ==
  <<Step("lock", 0, NoObject, "any"), Step("critical", 0, NoObject, "any"),
    Step("unlock", 0, NoObject, "any")>>

\* Two jobs; a program that cannot open its lock ends at once.
RtSpin(protocol) ==
  BecomeRt \o Open(0, protocol, 0) \o RtSpinJob \o RtSpinJob \o BecomeBackground
=============================================================================
