--------------------------- MODULE NpSection_proofs ---------------------------
(***************************************************************************)
(* Proofs about NpSection for any set of tasks, any nesting bound below    *)
(* FlagMod and any store-buffer capacity.  TypeOK and NpExclusion hold in  *)
(* both layouts of np_flag; that no delayed preemption is lost is proved   *)
(* for the layout in which the flag and the preempt bit are stored         *)
(* separately.                                                             *)
(***************************************************************************)
EXTENDS NpSection, SequenceTheorems, TLAPS

\* Inside the read-modify-write and in exit_np: what t has in hand.
Closing(t) == pc[t] \in {"fence", "check", "yield"}

\* The flag the kernel finds by interrupting the task is its nesting depth.
FlagIsDepth ==
  /\ \A t \in Task : running = t => View(t).flag = depth[t]
  /\ \A t \in Task : running # t => mem[t].flag = 0 /\ depth[t] = 0

\* Where t stands in enter_np and exit_np agrees with its depth and register.
PcInv ==
  \A t \in Task :
    /\ pc[t] \in {"enter", "exit"} => reg[t].flag = depth[t]
    /\ pc[t] = "enter" => depth[t] < MaxNest
    /\ pc[t] = "exit" => depth[t] > 0
    /\ Closing(t) \/ pc[t] = "killed" => depth[t] = 0
    /\ depth[t] > 0 \/ pc[t] = "enter" \/ Closing(t) => page[t] = "mapped"

\* Only a task inside a section or ahead of its barrier has buffered stores.
BufferInv ==
  sb # <<>> =>
    running \in Task /\ (depth[running] > 0 \/ pc[running] = "fence")

\* The inductive invariant of either layout.
IInv == TypeOK /\ FlagIsDepth /\ PcInv /\ BufferInv

\* In the separate layout the preempt bit in memory is the preemption owed,
\* and the task that owes it still has to look for it.
OwedInv ==
  \A t \in Task :
    /\ mem[t].preempt <=> t \in owed
    /\ t \in owed => running = t /\ (depth[t] > 0 \/ Closing(t))

-----------------------------------------------------------------------------
LEMMA ModSmall ==
  ASSUME NEW n \in 0..FlagMod-1
  PROVE  n % FlagMod = n
BY NpAssumption

\* A store that reaches memory leaves a well-formed word with its flag.
LEMMA CommitWord ==
  ASSUME NEW w \in Word, NEW st \in Word
  PROVE  /\ Commit(w, st) \in Word
         /\ Commit(w, st).flag = st.flag
         /\ ~SharedWord => Commit(w, st).preempt = w.preempt
BY NpAssumption DEF Commit, Word

\* What the running task loads is a word.
LEMMA DrainedWord ==
  ASSUME TypeOK, NEW t \in Task
  PROVE  /\ Drained(t) \in Word
         /\ ~SharedWord => Drained(t).preempt = mem[t].preempt
BY CommitWord DEF Drained, TypeOK

LEMMA SetFlag ==
  ASSUME NEW w \in Word, NEW n \in 0..FlagMod-1
  PROVE  [w EXCEPT !.flag = n] \in Word /\ [w EXCEPT !.flag = n].flag = n
BY DEF Word

LEMMA AppendLast ==
  ASSUME NEW s \in Seq(Word), NEW w \in Word
  PROVE  /\ Append(s, w) \in Seq(Word) /\ Append(s, w) # <<>>
         /\ Append(s, w)[Len(Append(s, w))] = w
OBVIOUS

LEMMA TailLast ==
  ASSUME NEW s \in Seq(Word), s # <<>>
  PROVE  /\ Head(s) \in Word /\ s[Len(s)] \in Word /\ Tail(s) \in Seq(Word)
         /\ Tail(s) = <<>> => Head(s) = s[Len(s)]
         /\ Tail(s) # <<>> => Tail(s)[Len(Tail(s))] = s[Len(s)]
<1>1. Len(s) \in Nat \ {0} /\ Head(s) \in Word /\ s[Len(s)] \in Word
  OBVIOUS
<1>2. Tail(s) \in Seq(Word) /\ Len(Tail(s)) = Len(s) - 1
  OBVIOUS
<1>3. Tail(s) = <<>> => Head(s) = s[Len(s)]
  <2>1. Tail(s) = <<>> => Len(Tail(s)) = 0
    BY <1>2, EmptySeq
  <2>2. Head(s) = s[1]
    OBVIOUS
  <2>. QED
    BY <1>1, <1>2, <2>1, <2>2
<1>4. Tail(s) # <<>> => Tail(s)[Len(Tail(s))] = s[Len(s)]
  <2>1. \A i \in 1..Len(Tail(s)) : Tail(s)[i] = s[i+1]
    OBVIOUS
  <2>2. Tail(s) # <<>> => Len(Tail(s)) \in 1..Len(Tail(s))
    BY <1>2
  <2>. QED
    BY <1>1, <1>2, <2>1, <2>2
<1>. QED
  BY <1>1, <1>2, <1>3, <1>4

LEMMA InitIInv == Init => IInv /\ OwedInv
BY NpAssumption
   DEF Init, IInv, OwedInv, TypeOK, FlagIsDepth, PcInv, BufferInv, Closing, View,
       Drained, Word, Page, Pc

\* One step of the library keeps the invariant of either layout.
LEMMA LibraryIInv ==
  ASSUME IInv, NEW t \in Task, Library(t)
  PROVE  IInv'
<1> USE DEF IInv
<1>1. CASE InitRtThread(t)
  BY <1>1, NpAssumption
     DEF InitRtThread, Calls, InitKernelIface, TypeOK, FlagIsDepth, PcInv, BufferInv,
         Closing, View, Drained
<1>2. CASE EnterNp(t)
  <2>1. View(t) \in Word /\ View(t).flag = depth[t]
    BY <1>2, DrainedWord DEF View, EnterNp, Calls, FlagIsDepth
  <2>2. TypeOK'
    <3>1. pc' \in [Task -> Pc] /\ reg' \in [Task -> Word]
      BY <1>2, <2>1 DEF EnterNp, Load, Goto, TypeOK, Pc
    <3>2. page' \in [Task -> Page]
      BY <1>2 DEF EnterNp, InitKernelIface, TypeOK
    <3>. QED
      BY <1>2, <3>1, <3>2 DEF EnterNp, TypeOK
  <2>3. FlagIsDepth' /\ BufferInv'
    BY <1>2 DEF EnterNp, Calls, Load, Goto, FlagIsDepth, BufferInv, TypeOK, View, Drained
  <2>4. PcInv'
    BY <1>2, <2>1
       DEF EnterNp, Calls, Load, Goto, InitKernelIface, TypeOK, PcInv, Closing
  <2>. QED
    BY <2>2, <2>3, <2>4
<1>3. CASE EnterStore(t)
  <2>1. reg[t] \in Word /\ (reg[t].flag + 1) % FlagMod = depth[t] + 1
    BY <1>3, ModSmall, NpAssumption DEF EnterStore, PcInv, TypeOK, Word
  <2>2. /\ [reg[t] EXCEPT !.flag = depth[t] + 1] \in Word
        /\ [reg[t] EXCEPT !.flag = depth[t] + 1].flag = depth[t] + 1
    <3>1. depth[t] + 1 \in 0..FlagMod-1
      BY <1>3, NpAssumption DEF EnterStore, PcInv, TypeOK
    <3>. QED
      BY <2>1, <3>1, SetFlag
  <2>3. sb' = Append(sb, [reg[t] EXCEPT !.flag = depth[t] + 1])
    BY <1>3, <2>1 DEF EnterStore, Store
  <2>4. TypeOK'
    BY <1>3, <2>2, <2>3, NpAssumption DEF EnterStore, Goto, PcInv, TypeOK, Pc
  <2>5. View(t)'.flag = depth[t]'
    <3>1. sb' # <<>> /\ sb'[Len(sb')] = [reg[t] EXCEPT !.flag = depth[t] + 1]
      BY <2>2, <2>3, AppendLast DEF TypeOK
    <3>2. View(t)' = Commit(mem[t], sb'[Len(sb')])
      BY <1>3, <3>1 DEF EnterStore, View, Drained
    <3>3. View(t)'.flag = depth[t] + 1
      BY <2>1, <2>2, <3>1, <3>2, CommitWord DEF TypeOK, Word
    <3>. QED
      BY <1>3, <3>3 DEF EnterStore, TypeOK
  <2>6. FlagIsDepth' /\ PcInv' /\ BufferInv'
    BY <1>3, <2>5, NpAssumption
       DEF EnterStore, Goto, TypeOK, FlagIsDepth, PcInv, BufferInv, Closing
  <2>. QED
    BY <2>4, <2>6
<1>4. CASE ExitNp(t)
  <2>1. View(t) \in Word /\ View(t).flag = depth[t]
    BY <1>4, DrainedWord DEF View, ExitNp, Calls, FlagIsDepth
  <2>2. TypeOK'
    BY <1>4, <2>1 DEF ExitNp, Load, Goto, TypeOK, Pc
  <2>3. FlagIsDepth' /\ BufferInv'
    BY <1>4 DEF ExitNp, Calls, Load, Goto, FlagIsDepth, BufferInv, TypeOK, View, Drained
  <2>4. PcInv'
    BY <1>4, <2>1 DEF ExitNp, Calls, Load, Goto, TypeOK, PcInv, Closing
  <2>. QED
    BY <2>2, <2>3, <2>4
<1>5. CASE ExitStore(t)
  <2>1. reg[t] \in Word /\ (reg[t].flag - 1) % FlagMod = depth[t] - 1
    BY <1>5, ModSmall, NpAssumption DEF ExitStore, PcInv, TypeOK, Word
  <2>2. /\ [reg[t] EXCEPT !.flag = depth[t] - 1] \in Word
        /\ [reg[t] EXCEPT !.flag = depth[t] - 1].flag = depth[t] - 1
    <3>1. depth[t] - 1 \in 0..FlagMod-1
      BY <1>5, NpAssumption DEF ExitStore, PcInv, TypeOK
    <3>. QED
      BY <2>1, <3>1, SetFlag
  <2>3. sb' = Append(sb, [reg[t] EXCEPT !.flag = depth[t] - 1])
    BY <1>5, <2>1 DEF ExitStore, Store
  <2>4. TypeOK'
    BY <1>5, <2>2, <2>3, NpAssumption DEF ExitStore, Goto, PcInv, TypeOK, Pc
  <2>5. View(t)'.flag = depth[t]'
    <3>1. sb' # <<>> /\ sb'[Len(sb')] = [reg[t] EXCEPT !.flag = depth[t] - 1]
      BY <2>2, <2>3, AppendLast DEF TypeOK
    <3>2. View(t)' = Commit(mem[t], sb'[Len(sb')])
      BY <1>5, <3>1 DEF ExitStore, View, Drained
    <3>3. View(t)'.flag = depth[t] - 1
      BY <2>1, <2>2, <3>1, <3>2, CommitWord DEF TypeOK, Word
    <3>. QED
      BY <1>5, <3>3 DEF ExitStore, TypeOK
  <2>6. pc' = [pc EXCEPT ![t] = IF depth[t] = 1 THEN "fence" ELSE "idle"]
    <3>1. (reg[t].flag - 1) % FlagMod = 0 <=> depth[t] = 1
      BY <2>1 DEF TypeOK
    <3>. QED
      BY <1>5, <3>1 DEF ExitStore, Goto
  <2>7. FlagIsDepth' /\ PcInv' /\ BufferInv'
    BY <1>5, <2>5, <2>6, NpAssumption
       DEF ExitStore, TypeOK, FlagIsDepth, PcInv, BufferInv, Closing
  <2>. QED
    BY <2>4, <2>7
<1>6. CASE ExitFence(t)
  BY <1>6 DEF ExitFence, Goto, TypeOK, FlagIsDepth, PcInv, BufferInv, Closing, View,
              Drained, Pc
<1>7. CASE ExitCheck(t)
  BY <1>7 DEF ExitCheck, Goto, TypeOK, FlagIsDepth, PcInv, BufferInv, Closing, View,
              Drained, Pc
<1>8. CASE Fault(t)
  BY <1>8, NpAssumption
     DEF Fault, Calls, Goto, TypeOK, FlagIsDepth, PcInv, BufferInv, Closing, View,
         Drained, Pc
<1>. QED
  BY <1>1, <1>2, <1>3, <1>4, <1>5, <1>6, <1>7, <1>8 DEF Library

\* A context switch away from a task whose flag is 0 keeps the invariant,
\* whether or not the task returns from sched_yield() by it.
LEMMA SwitchIInv ==
  ASSUME IInv, NEW next \in Task \cup {Idle}, Switch(next),
         running # Idle => View(running).flag = 0,
         \/ pc' = pc
         \/ \E t \in Task : pc[t] = "yield" /\ pc' = [pc EXCEPT ![t] = "idle"]
  PROVE  IInv'
<1> USE DEF IInv
<1>1. \A t \in Task : Drained(t) \in Word
  BY DrainedWord
<1>2. \A t \in Task : /\ mem'[t] \in Word
                      /\ t # running => mem'[t].flag = mem[t].flag
                      /\ t = running => mem'[t].flag = 0
  <2>. SUFFICES ASSUME NEW t \in Task
                PROVE  /\ mem'[t] \in Word
                       /\ t # running => mem'[t].flag = mem[t].flag
                       /\ t = running => mem'[t].flag = 0
    OBVIOUS
  <2>1. CASE t = running
    <3>1. mem'[t] = [Drained(t) EXCEPT !.preempt = FALSE]
      BY <2>1, NpAssumption DEF Switch, TypeOK
    <3>2. Drained(t).flag = 0
      BY <2>1, NpAssumption DEF View
    <3>. QED
      BY <1>1, <2>1, <3>1, <3>2 DEF Word
  <2>2. CASE t # running
    BY <2>2 DEF Switch, TypeOK
  <2>. QED
    BY <2>1, <2>2
<1>3. \A t \in Task : depth[t] = 0
  BY NpAssumption DEF FlagIsDepth
<1>4. mem' \in [Task -> Word]
  <2>1. CASE running = Idle
    BY <2>1 DEF Switch, TypeOK
  <2>2. CASE running # Idle
    <3>1. [Drained(running) EXCEPT !.preempt = FALSE] \in Word
      BY <1>1, <2>2 DEF TypeOK, Word
    <3>. QED
      BY <2>2, <3>1 DEF Switch, TypeOK
  <2>. QED
    BY <2>1, <2>2
<1>5. TypeOK'
  <2>1. pc' \in [Task -> Pc]
    BY DEF TypeOK, Pc
  <2>. QED
    BY <1>4, <2>1 DEF Switch, TypeOK
<1>6. FlagIsDepth' /\ BufferInv'
  BY <1>2, <1>3 DEF Switch, TypeOK, FlagIsDepth, BufferInv, View, Drained
<1>7. PcInv'
  BY <1>3 DEF Switch, TypeOK, PcInv, Closing
<1>. QED
  BY <1>5, <1>6, <1>7

\* One step of the kernel keeps the invariant of either layout.
LEMMA KernelIInv ==
  ASSUME IInv, Kernel
  PROVE  IInv'
<1> USE DEF IInv
<1>1. CASE Preempt
  BY <1>1, SwitchIInv DEF Preempt, Runnable
<1>2. CASE \E t \in Task : SchedYield(t)
  <2>1. PICK t \in Task : SchedYield(t)
    BY <1>2
  <2>2. View(running).flag = 0
    BY <2>1 DEF SchedYield, FlagIsDepth, PcInv, Closing
  <2>. QED
    BY <2>1, <2>2, SwitchIInv DEF SchedYield, Goto, Runnable
<1>3. CASE DelayLocally
  <2>1. running \in Task /\ Drained(running) \in Word
    BY <1>3, DrainedWord DEF DelayLocally, TypeOK
  <2>2. mem'[running] \in Word /\ mem'[running].flag = Drained(running).flag
    BY <1>3, <2>1 DEF DelayLocally, TypeOK, Word
  <2>3. TypeOK'
    BY <1>3, <2>1, <2>2 DEF DelayLocally, TypeOK
  <2>4. FlagIsDepth' /\ PcInv' /\ BufferInv'
    BY <1>3, <2>1, <2>2
       DEF DelayLocally, TypeOK, FlagIsDepth, PcInv, BufferInv, Closing, View, Drained
  <2>. QED
    BY <2>3, <2>4
<1>4. CASE DelayRemotely
  <2>1. running \in Task
    BY <1>4 DEF DelayRemotely, TypeOK
  <2>2. mem'[running] \in Word /\ mem'[running].flag = mem[running].flag
    BY <1>4, <2>1 DEF DelayRemotely, TypeOK, Word
  <2>3. TypeOK'
    BY <1>4, <2>1, <2>2 DEF DelayRemotely, TypeOK
  <2>4. View(running)'.flag = View(running).flag
    <3>1. CASE sb = <<>>
      BY <1>4, <2>2, <3>1 DEF DelayRemotely, View, Drained
    <3>2. CASE sb # <<>>
      BY <1>4, <2>1, <2>2, <3>2, CommitWord, TailLast
         DEF DelayRemotely, TypeOK, View, Drained
    <3>. QED
      BY <3>1, <3>2
  <2>5. FlagIsDepth' /\ PcInv' /\ BufferInv'
    BY <1>4, <2>1, <2>4
       DEF DelayRemotely, TypeOK, FlagIsDepth, PcInv, BufferInv, Closing
  <2>. QED
    BY <2>3, <2>5
<1>5. CASE CommitStore
  <2>1. running \in Task /\ sb # <<>>
    BY <1>5 DEF CommitStore, TypeOK
  <2>2. /\ mem'[running] \in Word
        /\ mem'[running] = Commit(mem[running], Head(sb))
        /\ mem'[running].flag = Head(sb).flag
    BY <1>5, <2>1, CommitWord, TailLast DEF CommitStore, TypeOK
  <2>3. TypeOK'
    BY <1>5, <2>1, <2>2, TailLast DEF CommitStore, TypeOK
  <2>4. View(running)'.flag = View(running).flag
    <3>1. View(running).flag = sb[Len(sb)].flag
      BY <2>1, CommitWord, TailLast DEF View, Drained, TypeOK
    <3>2. CASE sb' = <<>>
      BY <1>5, <2>1, <2>2, <3>1, <3>2, TailLast DEF CommitStore, View, Drained, TypeOK
    <3>3. CASE sb' # <<>>
      <4>1. View(running)' = Commit(mem'[running], sb[Len(sb)])
        BY <1>5, <2>1, <3>3, TailLast DEF CommitStore, View, Drained, TypeOK
      <4>. QED
        BY <2>1, <2>2, <3>1, <4>1, CommitWord, TailLast DEF TypeOK
    <3>. QED
      BY <3>2, <3>3
  <2>5. FlagIsDepth' /\ PcInv' /\ BufferInv'
    BY <1>5, <2>1, <2>4
       DEF CommitStore, TypeOK, FlagIsDepth, PcInv, BufferInv, Closing
  <2>. QED
    BY <2>3, <2>5
<1>. QED
  BY <1>1, <1>2, <1>3, <1>4, <1>5 DEF Kernel

LEMMA NextIInv == IInv /\ [Next]_vars => IInv'
<1>1. CASE UNCHANGED vars
  BY <1>1 DEF vars, IInv, TypeOK, FlagIsDepth, PcInv, BufferInv, Closing, View, Drained
<1>. QED
  BY <1>1, LibraryIInv, KernelIInv DEF Next

\* Every state the library and the kernel reach is well-typed and satisfies
\* the inductive invariant, in either layout of np_flag.
THEOREM Invariance == Spec => []IInv
BY InitIInv, NextIInv, PTL DEF Spec

THEOREM TypeCorrect == Spec => []TypeOK
BY Invariance, PTL DEF IInv

\* A task inside a non-preemptive section, nested or not, keeps the
\* processor, in either layout and however deep the store buffer is.
THEOREM SectionsExclude == Spec => []NpExclusion
<1>1. IInv => NpExclusion
  BY NpAssumption DEF IInv, FlagIsDepth, NpExclusion, TypeOK
<1>. QED
  BY <1>1, Invariance, PTL

-----------------------------------------------------------------------------
(* The layout in which the flag and the preempt bit are stored apart.      *)

\* A task at depth 0 that is not ahead of its barrier has a flag of 0 in
\* memory: no remote request mistakes it for non-preemptive.
LEMMA RemoteSeesSection ==
  ASSUME IInv, running \in Task, mem[running].flag > 0
  PROVE  depth[running] > 0 \/ Closing(running)
<1>1. CASE sb = <<>>
  BY <1>1 DEF IInv, FlagIsDepth, View, Drained
<1>2. CASE sb # <<>>
  BY <1>2 DEF IInv, BufferInv, Closing
<1>. QED
  BY <1>1, <1>2

\* One step keeps the preempt bit and the preemption owed the same.
LEMMA NextOwedInv ==
  ASSUME ~SharedWord, IInv, OwedInv, [Next]_vars
  PROVE  OwedInv'
<1> USE DEF IInv
<1>1. CASE UNCHANGED vars
  BY <1>1 DEF vars, OwedInv, Closing
<1>2. CASE \E t \in Task : Library(t)
  <2>. SUFFICES ASSUME NEW t \in Task, Library(t) PROVE OwedInv'
    BY <1>2
  <2>1. CASE ExitStore(t)
    <3>1. reg[t] \in Word /\ (reg[t].flag - 1) % FlagMod = depth[t] - 1
      BY <2>1, ModSmall, NpAssumption DEF ExitStore, PcInv, TypeOK, Word
    <3>2. depth'[t] > 0 \/ Closing(t)'
      BY <2>1, <3>1 DEF ExitStore, Goto, TypeOK, PcInv, Closing
    <3>. QED
      BY <2>1, <3>2 DEF ExitStore, Goto, TypeOK, OwedInv, Closing
  <2>2. CASE ExitCheck(t)
    <3>1. View(t).preempt <=> t \in owed
      BY DrainedWord DEF View, OwedInv
    <3>. QED
      BY <2>2, <3>1 DEF ExitCheck, Goto, TypeOK, OwedInv, PcInv, Closing
  <2>3. CASE InitRtThread(t)
    BY <2>3 DEF InitRtThread, OwedInv, Closing
  <2>4. CASE EnterNp(t)
    BY <2>4 DEF EnterNp, Calls, Load, Goto, TypeOK, OwedInv, Closing
  <2>5. CASE EnterStore(t)
    BY <2>5 DEF EnterStore, Goto, TypeOK, OwedInv, Closing
  <2>6. CASE ExitNp(t)
    BY <2>6 DEF ExitNp, Calls, Load, Goto, TypeOK, OwedInv, Closing
  <2>7. CASE ExitFence(t)
    BY <2>7 DEF ExitFence, Goto, TypeOK, OwedInv, Closing
  <2>8. CASE Fault(t)
    BY <2>8 DEF Fault, Calls, Goto, TypeOK, OwedInv, PcInv, Closing
  <2>. QED
    BY <2>1, <2>2, <2>3, <2>4, <2>5, <2>6, <2>7, <2>8 DEF Library
<1>3. ASSUME NEW next, Switch(next)
      PROVE  \A t \in Task : t \notin owed' /\ (mem'[t].preempt <=> t \in owed')
  <2>. SUFFICES ASSUME NEW t \in Task
                PROVE  t \notin owed' /\ ~mem'[t].preempt
    BY <1>3 DEF Switch, TypeOK, Word
  <2>1. t \notin owed'
    BY <1>3 DEF Switch, OwedInv
  <2>2. CASE t = running
    BY <1>3, <2>2, DrainedWord, NpAssumption DEF Switch, TypeOK, Word
  <2>3. CASE t # running
    BY <1>3, <2>3 DEF Switch, OwedInv, TypeOK
  <2>. QED
    BY <2>1, <2>2, <2>3
<1>4. CASE Preempt
  BY <1>3, <1>4 DEF Preempt, OwedInv
<1>5. CASE \E t \in Task : SchedYield(t)
  BY <1>3, <1>5 DEF SchedYield, OwedInv
<1>6. CASE DelayLocally
  <2>1. running \in Task /\ Drained(running) \in Word /\ depth[running] > 0
    BY <1>6, DrainedWord DEF DelayLocally, TypeOK, FlagIsDepth
  <2>2. mem'[running].preempt
    BY <1>6, <2>1 DEF DelayLocally, TypeOK, Word
  <2>. QED
    BY <1>6, <2>1, <2>2 DEF DelayLocally, TypeOK, OwedInv, Closing
<1>7. CASE DelayRemotely
  <2>1. running \in Task /\ (depth[running] > 0 \/ Closing(running))
    BY <1>7, RemoteSeesSection DEF DelayRemotely, TypeOK
  <2>2. mem'[running].preempt
    BY <1>7, <2>1 DEF DelayRemotely, TypeOK, Word
  <2>. QED
    BY <1>7, <2>1, <2>2 DEF DelayRemotely, TypeOK, OwedInv, Closing
<1>8. CASE CommitStore
  <2>1. running \in Task /\ sb # <<>>
    BY <1>8 DEF CommitStore, TypeOK
  <2>2. mem'[running].preempt = mem[running].preempt
    BY <1>8, <2>1, CommitWord, TailLast DEF CommitStore, TypeOK
  <2>. QED
    BY <1>8, <2>1, <2>2 DEF CommitStore, TypeOK, OwedInv, Closing
<1>. QED
  BY <1>1, <1>2, <1>4, <1>5, <1>6, <1>7, <1>8 DEF Next, Kernel

LEMMA OwedInvariance ==
  ASSUME ~SharedWord
  PROVE  Spec => []OwedInv
<1>1. IInv /\ OwedInv /\ [Next]_vars => OwedInv'
  BY NextOwedInv
<1>. QED
  BY <1>1, InitIInv, Invariance, PTL DEF Spec

\* When the two fields are stored separately no delayed preemption is lost:
\* the barrier of exit_np orders the last decrement before the look.
THEOREM NothingLost ==
  ASSUME ~SharedWord
  PROVE  Spec => []NoLostPreemption
<1>1. TypeOK /\ OwedInv => NoLostPreemption
  BY DEF TypeOK, OwedInv, NoLostPreemption, Closing
<1>. QED
  BY <1>1, OwedInvariance, TypeCorrect, PTL

\* requested_to_preempt() tells the truth in that layout.
THEOREM RequestedIsOwed ==
  ASSUME ~SharedWord
  PROVE  Spec => []RequestedIffOwed
<1>1. IInv /\ OwedInv => RequestedIffOwed
  BY DrainedWord
     DEF IInv, OwedInv, PcInv, RequestedIffOwed, RequestedToPreempt, View, Closing
<1>. QED
  BY <1>1, OwedInvariance, Invariance, PTL

-----------------------------------------------------------------------------
(* The refinement of DelayedPreemption.                                    *)

\* A step of task t moves t alone from one mode to another.
LEMMA ModeChange ==
  ASSUME NEW t \in Task, NEW m, Mode(t)' = m,
         \A u \in Task : u # t => pc'[u] = pc[u] /\ depth'[u] = depth[u]
  PROVE  [u \in Task |-> Mode(u)]' = [[u \in Task |-> Mode(u)] EXCEPT ![t] = m]
<1>1. \A u \in Task : u # t => Mode(u)' = Mode(u)
  BY DEF Mode
<1>. QED
  BY <1>1

\* In the separate layout every step of the loads, stores and buffer is a
\* step of the promise or leaves it alone.
THEOREM Implements ==
  ASSUME ~SharedWord
  PROVE  Spec => ImplementsPromise
<1>1. Init => Promise!Init
  BY DEF Init, Promise!Init, Mode
<1>2. IInv /\ OwedInv /\ OwedInv' /\ [Next]_vars => [Promise!Next]_Promise!vars
  <2>. SUFFICES ASSUME IInv, OwedInv, OwedInv', [Next]_vars
                PROVE  [Promise!Next]_Promise!vars
    OBVIOUS
  <2>. USE DEF IInv
  <2>1. CASE UNCHANGED vars
    BY <2>1 DEF vars, Promise!vars, Mode
  <2>2. ASSUME NEW t \in Task, EnterStore(t), depth[t] = 0
        PROVE  Promise!Begin(t)
    <3>1. [u \in Task |-> Mode(u)]' = [[u \in Task |-> Mode(u)] EXCEPT ![t] = "in"]
      <4>1. Mode(t)' = "in"
        BY <2>2 DEF EnterStore, Goto, TypeOK, Mode
      <4>2. \A u \in Task : u # t => pc'[u] = pc[u] /\ depth'[u] = depth[u]
        BY <2>2 DEF EnterStore, Goto, TypeOK
      <4>. QED
        BY <4>1, <4>2, ModeChange
    <3>2. Mode(t) = "out"
      BY <2>2 DEF EnterStore, Mode
    <3>. QED
      BY <2>2, <3>1, <3>2 DEF EnterStore, Promise!Begin
  <2>3. ASSUME NEW t \in Task, EnterStore(t), depth[t] # 0
        PROVE  UNCHANGED Promise!vars
    BY <2>3 DEF EnterStore, Goto, TypeOK, Mode, Promise!vars
  <2>4. ASSUME NEW t \in Task, ExitStore(t)
        PROVE  Promise!Close(t) \/ UNCHANGED Promise!vars
    <3>1. (reg[t].flag - 1) % FlagMod = depth[t] - 1 /\ depth[t] > 0
      BY <2>4, ModSmall, NpAssumption DEF ExitStore, PcInv, TypeOK, Word
    <3>2. CASE depth[t] = 1
      <4>1. pc' = [pc EXCEPT ![t] = "fence"] /\ depth' = [depth EXCEPT ![t] = 0]
        <5>1. depth[t] - 1 = 0 /\ (reg[t].flag - 1) % FlagMod = 0
          BY <3>1, <3>2
        <5>. QED
          BY <2>4, <5>1 DEF ExitStore, Goto
      <4>2. [u \in Task |-> Mode(u)]' = [[u \in Task |-> Mode(u)] EXCEPT ![t] = "closing"]
        <5>1. Mode(t)' = "closing"
          BY <4>1 DEF Mode, TypeOK
        <5>2. \A u \in Task : u # t => pc'[u] = pc[u] /\ depth'[u] = depth[u]
          BY <4>1 DEF TypeOK
        <5>. QED
          BY <5>1, <5>2, ModeChange
      <4>3. Mode(t) = "in"
        BY <2>4, <3>2 DEF ExitStore, Mode
      <4>. QED
        BY <2>4, <4>2, <4>3 DEF ExitStore, Promise!Close
    <3>3. CASE depth[t] # 1
      <4>1. /\ pc' = [pc EXCEPT ![t] = "idle"]
            /\ depth' = [depth EXCEPT ![t] = depth[t] - 1]
            /\ depth[t] - 1 > 0
        <5>1. depth[t] - 1 > 0 /\ (reg[t].flag - 1) % FlagMod # 0
          BY <3>1, <3>3 DEF TypeOK
        <5>. QED
          BY <2>4, <5>1 DEF ExitStore, Goto
      <4>. QED
        BY <2>4, <4>1 DEF ExitStore, TypeOK, Mode, Promise!vars
    <3>. QED
      BY <3>2, <3>3
  <2>5. ASSUME NEW t \in Task, ExitCheck(t)
        PROVE  Promise!Leave(t) \/ UNCHANGED Promise!vars
    <3>1. (View(t).preempt <=> t \in owed) /\ depth[t] = 0
      BY <2>5, DrainedWord DEF View, OwedInv, ExitCheck, PcInv, Closing
    <3>2. CASE t \in owed
      BY <2>5, <3>1, <3>2 DEF ExitCheck, Goto, TypeOK, Mode, Promise!vars
    <3>3. CASE t \notin owed
      <4>1. /\ pc' = [pc EXCEPT ![t] = "idle"]
            /\ depth' = [depth EXCEPT ![t] = 0]
        BY <2>5, <3>1, <3>3 DEF ExitCheck, Goto, TypeOK
      <4>2. [u \in Task |-> Mode(u)]' = [[u \in Task |-> Mode(u)] EXCEPT ![t] = "out"]
        <5>1. Mode(t)' = "out"
          BY <4>1 DEF Mode, TypeOK
        <5>2. \A u \in Task : u # t => pc'[u] = pc[u] /\ depth'[u] = depth[u]
          BY <4>1 DEF TypeOK
        <5>. QED
          BY <5>1, <5>2, ModeChange
      <4>3. Mode(t) = "closing"
        BY <2>5 DEF ExitCheck, Mode
      <4>. QED
        BY <2>5, <3>3, <4>2, <4>3 DEF ExitCheck, Promise!Leave
    <3>. QED
      BY <3>2, <3>3
  <2>6. ASSUME NEW t \in Task, Fault(t)
        PROVE  Promise!Preempt(Idle)
    <3>1. depth[t] = 0 /\ t \notin owed
      <4>1. page[t] = "map_failed" /\ pc[t] = "idle"
        BY <2>6 DEF Fault, Calls
      <4>2. ~(depth[t] > 0)
        BY <4>1 DEF PcInv
      <4>3. depth[t] \in 0..MaxNest /\ MaxNest \in Nat
        BY NpAssumption DEF TypeOK
      <4>4. depth[t] = 0
        BY <4>2, <4>3
      <4>5. t \notin owed
        BY <4>1, <4>2 DEF OwedInv, Closing
      <4>. QED
        BY <4>4, <4>5
    <3>2. /\ running = t /\ running' = Idle
          /\ UNCHANGED <<depth, owed>>
          /\ pc[t] = "idle" /\ pc'[t] = "killed"
          /\ \A u \in Task : u # t => pc'[u] = pc[u]
      BY <2>6 DEF Fault, Calls, Goto, TypeOK
    <3>3. \A u \in Task : Mode(u)' = Mode(u)
      BY <3>2 DEF Mode
    <3>4. Mode(t) # "in"
      BY <3>1, <3>2 DEF Mode
    <3>5. owed' = owed \ {running}
      BY <3>1, <3>2
    <3>. QED
      BY <3>2, <3>3, <3>4, <3>5 DEF Promise!Preempt
  <2>7. ASSUME NEW t \in Task, InitRtThread(t) \/ EnterNp(t) \/ ExitNp(t) \/ ExitFence(t)
        PROVE  UNCHANGED Promise!vars
    BY <2>7 DEF InitRtThread, EnterNp, ExitNp, ExitFence, Calls, Load, Goto, TypeOK, Mode,
                Promise!vars
  <2>8. CASE \E t \in Task : Library(t)
    BY <2>2, <2>3, <2>4, <2>5, <2>6, <2>7, <2>8 DEF Library, Promise!Next
  <2>9. CASE Preempt
    <3>1. PICK next \in Task \cup {Idle} : Switch(next)
      BY <2>9 DEF Preempt, Runnable
    <3>2. running # Idle => Mode(running) # "in"
      BY <2>9 DEF Preempt, FlagIsDepth, TypeOK, Mode
    <3>3. Promise!Preempt(next)
      BY <2>9, <3>1, <3>2 DEF Preempt, Switch, TypeOK, Mode, Promise!Preempt
    <3>. QED
      BY <3>3 DEF Promise!Next
  <2>10. CASE \E t \in Task : SchedYield(t)
    <3>1. PICK t \in Task, next \in Task \cup {Idle} :
            /\ running = t /\ pc[t] = "yield" /\ Switch(next)
            /\ pc' = [pc EXCEPT ![t] = "idle"]
      BY <2>10 DEF SchedYield, Goto, Runnable
    <3>2. depth[t] = 0
      BY <3>1 DEF PcInv, Closing
    <3>3. Promise!Yield(t, next)
      <4>1. depth' = [depth EXCEPT ![t] = 0]
        BY <3>1, <3>2 DEF Switch, TypeOK
      <4>2. [u \in Task |-> Mode(u)]' = [[u \in Task |-> Mode(u)] EXCEPT ![t] = "out"]
        <5>1. Mode(t)' = "out"
          BY <3>1, <4>1 DEF Mode, TypeOK
        <5>2. \A u \in Task : u # t => pc'[u] = pc[u] /\ depth'[u] = depth[u]
          BY <3>1, <4>1 DEF TypeOK
        <5>. QED
          BY <5>1, <5>2, ModeChange
      <4>3. Mode(t) = "closing"
        BY <3>1 DEF Mode
      <4>. QED
        BY <3>1, <4>2, <4>3 DEF Switch, Promise!Yield
    <3>. QED
      BY <3>3 DEF Promise!Next
  <2>11. CASE DelayLocally \/ DelayRemotely
    <3>1. running \in Task /\ running \in owed'
      BY <2>11 DEF DelayLocally, DelayRemotely, TypeOK
    <3>2. Mode(running) # "out"
      BY <2>11, <3>1 DEF DelayLocally, DelayRemotely, OwedInv, Closing, Mode
    <3>3. Promise!Delay(running)
      BY <2>11, <3>1, <3>2 DEF DelayLocally, DelayRemotely, Mode, Promise!Delay
    <3>. QED
      BY <3>1, <3>3 DEF Promise!Next
  <2>12. CASE CommitStore
    BY <2>12 DEF CommitStore, Mode, Promise!vars
  <2>. QED
    BY <2>1, <2>8, <2>9, <2>10, <2>11, <2>12 DEF Next, Kernel
<1>. QED
  BY <1>1, <1>2, Invariance, OwedInvariance, PTL DEF Spec, ImplementsPromise, Promise!Spec
=============================================================================
