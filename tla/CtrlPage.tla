------------------------------ MODULE CtrlPage ------------------------------
(***************************************************************************)
(* The thread-local control-page pointer of src/src/kernel_iface.c: how    *)
(* map_file and init_kernel_iface set it, what get_ctrl_page returns, and  *)
(* what enter_np and exit_np do through it, over threads that are started  *)
(* with pthread_create (thread-local storage starts at NULL) and processes *)
(* that are started with fork (thread-local storage is copied).            *)
(*                                                                         *)
(* The calls are atomic here; NpSection has their loads and stores.        *)
(***************************************************************************)
EXTENDS Integers

CONSTANTS
  Thread,          \* threads; each has one control page, named after it
  Main,            \* the thread the system starts with
  NULL, MAP_FAILED,
  MaxNest,         \* bound: sections are nested at most this deep
  InitAfterFork,   \* TRUE: a forked child first calls init_rt_thread()
  MmapMayFail      \* TRUE: mmap() may fail after a successful open()

ASSUME CtrlPageAssumption ==
  /\ Main \in Thread
  /\ NULL \notin Thread /\ MAP_FAILED \notin Thread /\ NULL # MAP_FAILED
  /\ MaxNest \in Nat
  /\ InitAfterFork \in BOOLEAN /\ MmapMayFail \in BOOLEAN

VARIABLES
  status,     \* status[t]: "unborn", "forked" (not initialised), "live", "killed"
  process,    \* process[t]: the thread whose process t belongs to
  space,      \* space[p]: control pages mapped in the address space of process p
  ctrl_page,  \* ctrl_page[t]: the thread-local pointer
  flag,       \* flag[t]: np.flag in t's control page
  nest,       \* nest[t]: enter_np calls of t not yet matched by exit_np
  got         \* got[t]: what t's last get_ctrl_page() returned

vars == <<status, process, space, ctrl_page, flag, nest, got>>

Pointer == Thread \cup {NULL, MAP_FAILED}

TypeOK ==
  /\ status \in [Thread -> {"unborn", "forked", "live", "killed"}]
  /\ process \in [Thread -> Thread]
  /\ space \in [Thread -> SUBSET Thread]
  /\ ctrl_page \in [Thread -> Pointer]
  /\ flag \in [Thread -> Nat]
  /\ nest \in [Thread -> 0..MaxNest]
  /\ got \in [Thread -> Pointer]

Init ==
  /\ status = [t \in Thread |-> IF t = Main THEN "live" ELSE "unborn"]
  /\ process = [t \in Thread |-> t]
  /\ space = [t \in Thread |-> {}]
  /\ ctrl_page = [t \in Thread |-> NULL]
  /\ flag = [t \in Thread |-> 0]
  /\ nest = [t \in Thread |-> 0]
  /\ got = [t \in Thread |-> NULL]

-----------------------------------------------------------------------------
(* Mapping.                                                                *)

\* What map_file leaves in *addr: a failed open leaves the caller's NULL, a
\* failed mmap stores MAP_FAILED, success the page of the calling thread.
MapFile(t) == {NULL, t} \cup (IF MmapMayFail THEN {MAP_FAILED} ELSE {})

\* init_kernel_iface assigns ctrl_page before it looks at the error.  The
\* variant keeps a page that is mapped already.
InitKernelIface_Once(t, addr) ==
  LET keep == ctrl_page[t] \in Thread IN
  /\ ctrl_page' = [ctrl_page EXCEPT ![t] = IF keep THEN @ ELSE addr]
  /\ space' = [space EXCEPT ![process[t]] = @ \cup (IF keep THEN {} ELSE {addr} \cap Thread)]
InitKernelIface(t, addr) ==
  /\ ctrl_page' = [ctrl_page EXCEPT ![t] = addr]
  /\ space' = [space EXCEPT ![process[t]] = @ \cup ({addr} \cap Thread)]

\* t may call into the library.
Runs(t) == status[t] = "live" \/ (status[t] = "forked" /\ ~InitAfterFork)

\* init_litmus() and init_rt_thread(), outside sections.  Whether the caller
\* looks at the result or goes on regardless differs from program to program.
InitRtThread(t) ==
  /\ status[t] \in {"live", "forked"} /\ nest[t] = 0
  /\ \E addr \in MapFile(t) : InitKernelIface(t, addr)
  /\ status' = [status EXCEPT ![t] = "live"]
  /\ UNCHANGED <<process, flag, nest, got>>

-----------------------------------------------------------------------------
(* Access.                                                                 *)

\* The pointer can be dereferenced.
Mapped(t, addr) == addr \in space[process[t]]

\* A SIGSEGV ends the process with all its threads.
Fault(t) ==
  /\ status' = [u \in Thread |-> IF process[u] = process[t] /\ status[u] # "unborn"
                                 THEN "killed" ELSE status[u]]
  /\ UNCHANGED <<process, space, ctrl_page, flag, nest, got>>

\* np.flag++ through addr.
Increment(t, addr) ==
  /\ flag' = [flag EXCEPT ![addr] = @ + 1]
  /\ UNCHANGED <<status, process, got>>

\* enter_np(): the pointer is used when it is not NULL, and after a
\* successful mapping; otherwise a message is printed.  The caller goes on as
\* if in the section either way.
EnterNp(t) ==
  /\ Runs(t) /\ nest[t] < MaxNest
  /\ nest' = [nest EXCEPT ![t] = @ + 1]
  /\ \/ /\ ctrl_page[t] # NULL /\ Mapped(t, ctrl_page[t])
        /\ Increment(t, ctrl_page[t])
        /\ UNCHANGED <<space, ctrl_page>>
     \/ /\ ctrl_page[t] = NULL
        /\ InitKernelIface(t, t)
        /\ Increment(t, t)
     \/ /\ ctrl_page[t] = NULL
        /\ \E addr \in MapFile(t) \ {t} : InitKernelIface(t, addr)
        /\ UNCHANGED <<status, process, flag, got>>

\* exit_np(): decrements a flag that is set; the caller has left the section
\* either way.  The variant decrements without looking at the flag.
ExitNp_Unguarded(t) ==
  /\ Runs(t) /\ nest[t] > 0
  /\ nest' = [nest EXCEPT ![t] = @ - 1]
  /\ ctrl_page[t] = NULL \/ Mapped(t, ctrl_page[t])
  /\ flag' = [u \in Thread |-> IF u = ctrl_page[t] THEN flag[u] - 1 ELSE flag[u]]
  /\ UNCHANGED <<status, process, space, ctrl_page, got>>
ExitNp(t) ==
  /\ Runs(t) /\ nest[t] > 0
  /\ nest' = [nest EXCEPT ![t] = @ - 1]
  /\ ctrl_page[t] = NULL \/ Mapped(t, ctrl_page[t])
  /\ flag' = [u \in Thread |-> IF u = ctrl_page[t] /\ flag[u] # 0
                               THEN flag[u] - 1 ELSE flag[u]]
  /\ UNCHANGED <<status, process, space, ctrl_page, got>>

\* enter_np, exit_np or requested_to_preempt through a pointer that is not
\* NULL and not mapped.
WildAccess(t) ==
  /\ Runs(t)
  /\ ctrl_page[t] # NULL /\ ~Mapped(t, ctrl_page[t])
  /\ Fault(t)

\* get_ctrl_page().
GetCtrlPage(t) ==
  /\ Runs(t)
  /\ \/ /\ ctrl_page[t] # NULL
        /\ got' = [got EXCEPT ![t] = ctrl_page[t]]
        /\ UNCHANGED <<space, ctrl_page>>
     \/ /\ ctrl_page[t] = NULL
        /\ \E addr \in MapFile(t) :
             /\ InitKernelIface(t, addr)
             /\ got' = [got EXCEPT ![t] = IF addr = t THEN t ELSE NULL]
  /\ UNCHANGED <<status, process, flag, nest>>

-----------------------------------------------------------------------------
(* Threads and processes (external); the programs start both outside       *)
(* non-preemptive sections.                                                *)

\* pthread_create: same process, fresh thread-local storage.
PthreadCreate(t, c) ==
  /\ Runs(t) /\ status[c] = "unborn"
  /\ status' = [status EXCEPT ![c] = "live"]
  /\ process' = [process EXCEPT ![c] = process[t]]
  /\ UNCHANGED <<space, ctrl_page, flag, nest, got>>

\* fork: the child has a copy of the pointer.  Whether the kernel keeps the
\* mapping in the child is its choice.
Fork(t, c) ==
  /\ Runs(t) /\ nest[t] = 0 /\ status[c] = "unborn"
  /\ status' = [status EXCEPT ![c] = "forked"]
  /\ process' = [process EXCEPT ![c] = c]
  /\ ctrl_page' = [ctrl_page EXCEPT ![c] = ctrl_page[t]]
  /\ \E kept \in {{}, space[process[t]]} : space' = [space EXCEPT ![c] = kept]
  /\ UNCHANGED <<flag, nest, got>>

-----------------------------------------------------------------------------
Next ==
  \/ \E t \in Thread :
       \/ InitRtThread(t) \/ EnterNp(t) \/ ExitNp(t) \/ GetCtrlPage(t)
       \/ WildAccess(t)
  \/ \E t, c \in Thread : PthreadCreate(t, c) \/ Fork(t, c)

Spec == Init /\ [][Next]_vars

-----------------------------------------------------------------------------
(* Properties.                                                             *)

\* A task outside every section is preemptable: its flag is 0, whatever
\* mappings failed on the way, in whatever order threads and children were
\* started, and whoever else entered and left sections.  A flag that stays
\* set would keep the task on its processor for good.
NoStuckFlag == \A t \in Thread : status[t] # "killed" /\ nest[t] = 0 => flag[t] = 0

\* get_ctrl_page() returns "the current tasks control page" (include/litmus.h)
\* or, when it could not be mapped, no page: never the page of another task.
GetCtrlPageOwn == \A t \in Thread : got[t] \in {t, NULL, MAP_FAILED}

\* "For current thread" (include/litmus.h): the flag of a thread changes only
\* in enter_np and exit_np calls of its own, never in those of another.
OwnFlagOnly ==
  [][\A t \in Thread : flag'[t] # flag[t] => nest'[t] # nest[t]]_vars

\* No thread dies of a control page that could not be mapped: enter_np
\* reports "control page not mapped!" (line 122) instead.
NoWildAccess == \A t \in Thread : status[t] # "killed"
=============================================================================
