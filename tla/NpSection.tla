------------------------------ MODULE NpSection ------------------------------
(***************************************************************************)
(* Non-preemptive sections (src/src/kernel_iface.c): enter_np, exit_np and *)
(* requested_to_preempt of the tasks of one processor, at the granularity  *)
(* of their loads and stores of the control page, against the kernel on    *)
(* this processor (interrupts) and on other processors (remote requests).  *)
(*                                                                         *)
(* Stores go through the processor's store buffer (TSO); exit_np's         *)
(* __sync_synchronize() waits for it to drain.  The kernel and the layout  *)
(* of union np_flag are not part of the repository: SharedWord tells       *)
(* whether np.flag and np.preempt are bit-fields of one memory word, so    *)
(* that a store to one rewrites the other.                                 *)
(***************************************************************************)
EXTENDS Integers, Sequences

CONSTANTS
  Task,        \* real-time tasks (threads) of this processor
  Idle,        \* the processor runs none of them
  MaxNest,     \* bound: sections are nested at most this deep
  FlagMod,     \* np.flag counts modulo FlagMod (2^31 in the real layout)
  SbCap,       \* bound: stores the store buffer holds
  SharedWord   \* TRUE: np.flag and np.preempt share one memory word

ASSUME NpAssumption ==
  /\ Idle \notin Task
  /\ MaxNest \in Nat /\ FlagMod \in Nat /\ SbCap \in Nat
  /\ MaxNest < FlagMod
  /\ SharedWord \in BOOLEAN

VARIABLES
  page,      \* page[t]: the thread-local ctrl_page: unmapped, mapped, MAP_FAILED
  pc,        \* pc[t]: where t is inside enter_np or exit_np
  reg,       \* reg[t]: the word t loaded for its read-modify-write
  mem,       \* mem[t]: sched.np of t's control page, in memory
  sb,        \* stores of the running task not in memory yet, oldest first
  running,   \* the task that has the processor, or Idle
  depth,     \* depth[t]: sections t has entered and not left (history)
  owed       \* tasks the kernel delayed a preemption of, still due (history)

vars == <<page, pc, reg, mem, sb, running, depth, owed>>

Word == [flag : 0..FlagMod-1, preempt : BOOLEAN]
Page == {"null", "mapped", "map_failed"}
Pc   == {"idle", "enter", "exit", "fence", "check", "yield", "killed"}

TypeOK ==
  /\ page \in [Task -> Page]
  /\ pc \in [Task -> Pc]
  /\ reg \in [Task -> Word]
  /\ mem \in [Task -> Word]
  /\ sb \in Seq(Word)
  /\ running \in Task \cup {Idle}
  /\ depth \in [Task -> 0..MaxNest]
  /\ owed \in SUBSET Task

Init ==
  /\ page = [t \in Task |-> "null"]
  /\ pc = [t \in Task |-> "idle"]
  /\ reg = [t \in Task |-> [flag |-> 0, preempt |-> FALSE]]
  /\ mem = [t \in Task |-> [flag |-> 0, preempt |-> FALSE]]
  /\ sb = <<>>
  /\ running = Idle
  /\ depth = [t \in Task |-> 0]
  /\ owed = {}

-----------------------------------------------------------------------------
(* Memory.                                                                 *)

\* What one store of the flag leaves in memory.
CommitShared(word, store) == store
Commit(word, store) ==
  IF SharedWord THEN store ELSE [word EXCEPT !.flag = store.flag]

\* Memory once the buffered stores have all reached it.
Drained(t) == IF sb = <<>> THEN mem[t] ELSE Commit(mem[t], sb[Len(sb)])

\* What the running task's own loads return: the newest buffered store is
\* forwarded.
View(t) == Drained(t)

\* requested_to_preempt(): the unmapped page answers 0.
RequestedToPreempt(t) == page[t] = "mapped" /\ View(t).preempt

-----------------------------------------------------------------------------
(* The library, one action per access of the control page.                 *)

\* t is about to call into the library, its earlier calls have returned.
Calls(t) == running = t /\ pc[t] = "idle"

Goto(t, l) == pc' = [pc EXCEPT ![t] = l]

\* map_file + init_kernel_iface: a failed open leaves NULL, a failed mmap
\* leaves MAP_FAILED; only "mapped" is success.
InitKernelIface(t, r) == r \in Page /\ page' = [page EXCEPT ![t] = r]

\* init_litmus()/init_rt_thread(), called before any section.
InitRtThread(t) ==
  /\ Calls(t) /\ depth[t] = 0
  /\ \E r \in Page : InitKernelIface(t, r)
  /\ UNCHANGED <<pc, reg, mem, sb, running, depth, owed>>

Load(t, l) == Goto(t, l) /\ reg' = [reg EXCEPT ![t] = View(t)]

\* enter_np, up to the load of np.flag++.  Mapping on first use may fail:
\* the call then prints a message and returns outside any section.
EnterNp(t) ==
  /\ Calls(t) /\ depth[t] < MaxNest
  /\ \/ page[t] = "mapped" /\ Load(t, "enter") /\ UNCHANGED page
     \/ /\ page[t] = "null"
        /\ \/ InitKernelIface(t, "mapped") /\ Load(t, "enter")
           \/ InitKernelIface(t, "map_failed") /\ UNCHANGED <<pc, reg>>
  /\ UNCHANGED <<mem, sb, running, depth, owed>>

Store(t, n) ==
  /\ Len(sb) < SbCap
  /\ sb' = Append(sb, [reg[t] EXCEPT !.flag = n])

\* enter_np: the store of np.flag++.
EnterStore_Set(t) ==
  /\ running = t /\ pc[t] = "enter"
  /\ Store(t, 1)
  /\ depth' = [depth EXCEPT ![t] = @ + 1]
  /\ Goto(t, "idle")
  /\ UNCHANGED <<page, reg, mem, running, owed>>
EnterStore(t) ==
  /\ running = t /\ pc[t] = "enter"
  /\ Store(t, (reg[t].flag + 1) % FlagMod)
  /\ depth' = [depth EXCEPT ![t] = @ + 1]
  /\ Goto(t, "idle")
  /\ UNCHANGED <<page, reg, mem, running, owed>>

\* exit_np: its two guards and the load of --np.flag.  When the page is
\* unmapped or the flag is 0 the call returns and nothing changes.
ExitNp_Unguarded(t) ==
  /\ Calls(t)
  /\ page[t] = "mapped"
  /\ Load(t, "exit")
  /\ UNCHANGED <<page, mem, sb, running, depth, owed>>
ExitNp(t) ==
  /\ Calls(t)
  /\ page[t] = "mapped" /\ View(t).flag > 0
  /\ Load(t, "exit")
  /\ UNCHANGED <<page, mem, sb, running, depth, owed>>

\* exit_np: the store of --np.flag; an inner section returns here.
ExitStore(t) ==
  LET n == (reg[t].flag - 1) % FlagMod IN
  /\ running = t /\ pc[t] = "exit"
  /\ Store(t, n)
  /\ depth' = [depth EXCEPT ![t] = @ - 1]
  /\ Goto(t, IF n = 0 THEN "fence" ELSE "idle")
  /\ UNCHANGED <<page, reg, mem, running, owed>>

\* exit_np: __sync_synchronize().
ExitFence_Dropped(t) ==
  /\ running = t /\ pc[t] = "fence"
  /\ Goto(t, "check")
  /\ UNCHANGED <<page, reg, mem, sb, running, depth, owed>>
ExitFence(t) ==
  /\ running = t /\ pc[t] = "fence"
  /\ sb = <<>>
  /\ Goto(t, "check")
  /\ UNCHANGED <<page, reg, mem, sb, running, depth, owed>>

\* exit_np: if (np.preempt) sched_yield().
ExitCheck_Skipped(t) ==
  /\ running = t /\ pc[t] = "check"
  /\ Goto(t, "idle")
  /\ UNCHANGED <<page, reg, mem, sb, running, depth, owed>>
ExitCheck(t) ==
  /\ running = t /\ pc[t] = "check"
  /\ Goto(t, IF View(t).preempt THEN "yield" ELSE "idle")
  /\ UNCHANGED <<page, reg, mem, sb, running, depth, owed>>

\* A MAP_FAILED pointer passes the NULL tests: the next access faults.
Fault(t) ==
  /\ Calls(t) /\ page[t] = "map_failed"
  /\ Goto(t, "killed")
  /\ running' = Idle
  /\ UNCHANGED <<page, reg, mem, sb, depth, owed>>

-----------------------------------------------------------------------------
(* The kernel (external).                                                  *)

Runnable == {t \in Task : pc[t] # "killed"} \cup {Idle}

\* The processor goes to another task; a context switch drains the buffer,
\* and the preemption that was due has happened.
Switch(next) ==
  /\ running' = next
  /\ mem' = IF running = Idle THEN mem
            ELSE [mem EXCEPT ![running] = [Drained(running) EXCEPT !.preempt = FALSE]]
  /\ sb' = <<>>
  /\ owed' = owed \ {running}
  /\ UNCHANGED <<page, reg, depth>>

\* sched_yield() of exit_np, and the return from it.
SchedYield(t) ==
  /\ running = t /\ pc[t] = "yield"
  /\ \E next \in Runnable : Switch(next)
  /\ Goto(t, "idle")

\* An interrupt on this processor (timer, job release, rescheduling IPI)
\* finds the task preemptable and switches.
Preempt ==
  /\ running # Idle => View(running).flag = 0
  /\ \E next \in Runnable \ {running} : Switch(next)
  /\ UNCHANGED pc

\* The interrupt finds the task non-preemptive and delays the preemption.
DelayLocally ==
  /\ running # Idle /\ View(running).flag > 0
  /\ mem' = [mem EXCEPT ![running] = [Drained(running) EXCEPT !.preempt = TRUE]]
  /\ sb' = <<>>
  /\ owed' = owed \cup {running}
  /\ UNCHANGED <<page, pc, reg, running, depth>>

\* Another processor reads the flag from memory, and atomically with that
\* sets the preempt bit.  When it finds 0 it sends an IPI: see Preempt and
\* DelayLocally.
DelayRemotely ==
  /\ running # Idle /\ mem[running].flag > 0
  /\ mem' = [mem EXCEPT ![running].preempt = TRUE]
  /\ owed' = owed \cup {running}
  /\ UNCHANGED <<page, pc, reg, sb, running, depth>>

\* The oldest buffered store reaches memory.
CommitStore ==
  /\ running # Idle /\ sb # <<>>
  /\ mem' = [mem EXCEPT ![running] = Commit(@, Head(sb))]
  /\ sb' = Tail(sb)
  /\ UNCHANGED <<page, pc, reg, running, depth, owed>>

-----------------------------------------------------------------------------
Library(t) ==
  \/ InitRtThread(t)
  \/ EnterNp(t) \/ EnterStore(t)
  \/ ExitNp(t) \/ ExitStore(t) \/ ExitFence(t) \/ ExitCheck(t)
  \/ Fault(t)

Kernel ==
  \/ Preempt \/ DelayLocally \/ DelayRemotely \/ CommitStore
  \/ \E t \in Task : SchedYield(t)

Next == Kernel \/ \E t \in Task : Library(t)

Spec == Init /\ [][Next]_vars

-----------------------------------------------------------------------------
(* Properties.                                                             *)

\* While a task is between the end of enter_np's store and exit_np's last
\* decrement, nested sections included, it keeps the processor: no other
\* task of the processor runs, in a section or out of one.
NpExclusion == \A t \in Task : depth[t] > 0 => running = t

\* No delayed preemption is lost: a task that still owes one is inside a
\* section or inside exit_np, where it has yet to look for it.  This is what
\* "became preemptive, let's check for delayed preemptions" (line 131) and
\* the barrier before the check are for.
NoLostPreemption ==
  \A t \in owed : depth[t] > 0 \/ pc[t] \in {"fence", "check", "yield"}

\* requested_to_preempt() as include/litmus.h documents it: 1 iff the calling
\* task was requested to preempt while running non-preemptively, and has not
\* been preempted since.
RequestedIffOwed ==
  \A t \in Task : running = t => (RequestedToPreempt(t) <=> t \in owed)

\* The section as its callers see it: outside, inside, or inside exit_np
\* after the last decrement.
Mode(t) == IF pc[t] \in {"fence", "check", "yield"} THEN "closing"
           ELSE IF depth[t] > 0 THEN "in" ELSE "out"

Promise == INSTANCE DelayedPreemption WITH mode <- [t \in Task |-> Mode(t)]

\* Loads, stores, buffer and barrier implement the promise: sections keep the
\* processor, and none is left before the preemption it delayed.
ImplementsPromise == Promise!Spec

(* A running task executes its instructions, the store buffer drains, and  *)
(* sched_yield() reschedules.  That each section ends is the duty of the   *)
(* caller; as it may nest inner sections again and again, this needs       *)
(* strong fairness.                                                        *)
FairSpec ==
  /\ Spec
  /\ WF_vars(CommitStore)
  /\ \A t \in Task :
       /\ WF_vars(EnterStore(t)) /\ WF_vars(ExitStore(t))
       /\ WF_vars(ExitFence(t)) /\ WF_vars(ExitCheck(t))
       /\ WF_vars(SchedYield(t))
       /\ \A d \in 1..MaxNest : SF_vars(depth[t] = d /\ ExitNp(t))

\* Every delayed preemption is eventually carried out.
PreemptionServed == \A t \in Task : t \in owed ~> t \notin owed
=============================================================================
