----------------------------- MODULE RtPrograms -----------------------------
(***************************************************************************)
(* The real-time programs of src/bin and src/tests as sequences of library *)
(* calls, in the order of their main functions, with what a program does   *)
(* about a call that fails: bail out, or go on regardless.  Option parsing *)
(* and the calls between which nothing can fail are left out; a call that  *)
(* an option turns off is one that succeeds.  The programs are started     *)
(* with -w, as src/carun.py does.                                          *)
(***************************************************************************)
EXTENDS Naturals, Sequences

Call(c) == [call |-> c, fail |-> "bail"]      \* if (ret != 0) bail_out(...)
Try(c)  == [call |-> c, fail |-> "ignore"]    \* the result is only printed, or not looked at

-----------------------------------------------------------------------------
\* rtspin: init_litmus() is checked.
RtSpin ==
  << Call("migrate"), Call("set_rt_task_param"), Call("get_rt_task_param"),
     Call("init_litmus"), Call("task_mode_rt"), Call("litmus_open_lock"),
     Call("wait_for_ts_release"), Try("jobs"), Call("task_mode_bg") >>

RtSpinCache == RtSpin

\* The cache programs do not look at init_litmus(); they allocate and fill
\* the arena after the release, and wait for the next period.
CaSpin ==
  << Call("migrate"), Call("set_rt_task_param"), Call("get_rt_task_param"),
     Try("init_litmus"), Call("task_mode_rt"), Call("wait_for_ts_release"),
     Call("initialize"), Try("jobs"), Call("task_mode_bg") >>

CaSpinV2 == CaSpin
CaSpinWrite == CaSpin
CaThrash == CaSpin
CpuSpin == CaSpin

\* rt_launch becomes the program it is given; execvp() only returns when it
\* fails.
RtLaunch ==
  << Call("migrate"), Call("set_rt_task_param"), Try("init_litmus"),
     Call("task_mode_rt"), Call("wait_for_ts_release"), Call("execvp") >>

\* base_task: every call is made through CALL, which only prints.  Its job()
\* never asks to exit.
BaseTask ==
  << Try("init_litmus"), Try("set_rt_task_param"), Try("task_mode_rt"),
     Try("jobs_forever"), Try("task_mode_bg") >>

\* base_mt_task: one thread.
RtThread ==
  << Try("init_rt_thread"), Try("set_rt_task_param"), Try("task_mode_rt"),
     Try("jobs_forever"), Try("task_mode_bg") >>

\* The children of the synchronous-release tests (tests/pcp.c, tests/sched.c);
\* SYSCALL() ends the child.
TestChild ==
  << Call("set_rt_task_param"), Call("migrate"), Call("task_mode_rt"),
     Call("open_sem"), Call("wait_for_ts_release"), Call("jobs") >>

-----------------------------------------------------------------------------
\* A program waits for the release at most once, and does not go on when that
\* fails.
WaitsOnce(p) ==
  \A i, j \in 1..Len(p) :
    /\ p[i].call = "wait_for_ts_release"
    /\ p[j].call = "wait_for_ts_release"
    => i = j /\ p[i].fail = "bail"

\* A program comes to its jobs only through a wait for the release whose failure
\* ends it, and does not leave real-time mode in between.
JobsAfterWait(p) ==
  \A j \in 1..Len(p) : p[j].call = "jobs" =>
    \E i \in 1..j - 1 :
      /\ p[i].call = "wait_for_ts_release" /\ p[i].fail = "bail"
      /\ \A k \in i + 1..j - 1 : p[k].call # "task_mode_bg"
=============================================================================
