--------------------------- MODULE CtrlPage_proofs ---------------------------
(***************************************************************************)
(* What the discipline of the repository's own programs buys, for any set  *)
(* of threads and any nesting: a forked child calls init_rt_thread() before *)
(* anything else of the interface.                                         *)
(***************************************************************************)
EXTENDS CtrlPage, TLAPS

\* A process outlives the start of its threads only if it was started.
ProcessInv ==
  \A t \in Thread : status[t] # "unborn" => status[process[t]] # "unborn"

\* An initialised thread points nowhere or to its own mapped page; no page is
\* mapped at MAP_FAILED (TypeOK).
PointerInv ==
  \A t \in Thread :
    /\ status[t] = "unborn" => ctrl_page[t] = NULL
    /\ status[t] = "live" =>
         ctrl_page[t] \in {NULL, MAP_FAILED} \/ (ctrl_page[t] = t /\ t \in space[process[t]])
    /\ got[t] \in {t, NULL, MAP_FAILED}

\* The kernel never counts more sections than the caller, and none while the
\* thread has no pointer to its page.
CountInv ==
  \A t \in Thread :
    /\ flag[t] <= nest[t]
    /\ ctrl_page[t] # t => flag[t] = 0
    /\ status[t] \in {"unborn", "forked"} => nest[t] = 0

IInv == TypeOK /\ ProcessInv /\ PointerInv /\ CountInv

LEMMA InitIInv == Init => IInv
BY CtrlPageAssumption
   DEF Init, IInv, TypeOK, ProcessInv, PointerInv, CountInv, Pointer

LEMMA NextIInv ==
  ASSUME InitAfterFork, IInv, [Next]_vars
  PROVE  IInv'
<1> USE DEF IInv
<1>1. \A t \in Thread : MapFile(t) \subseteq {NULL, MAP_FAILED, t}
  BY DEF MapFile
<1>2. ASSUME NEW t \in Thread, InitRtThread(t)
      PROVE  IInv'
  <2>1. PICK addr \in {NULL, MAP_FAILED, t} : InitKernelIface(t, addr)
    BY <1>1, <1>2 DEF InitRtThread
  <2>2. TypeOK'
    BY <1>2, <2>1, CtrlPageAssumption DEF InitRtThread, InitKernelIface, TypeOK, Pointer
  <2>3. ProcessInv' /\ CountInv'
    BY <1>2, <2>1 DEF InitRtThread, InitKernelIface, TypeOK, ProcessInv, CountInv
  <2>4. PointerInv'
    BY <1>2, <2>1, CtrlPageAssumption
       DEF InitRtThread, InitKernelIface, TypeOK, PointerInv
  <2>. QED
    BY <2>2, <2>3, <2>4
<1>3. ASSUME NEW t \in Thread, EnterNp(t)
      PROVE  IInv'
  <2>1. status[t] = "live"
    BY <1>3 DEF EnterNp, Runs
  <2>2. CASE /\ ctrl_page[t] # NULL /\ Mapped(t, ctrl_page[t])
             /\ Increment(t, ctrl_page[t]) /\ UNCHANGED <<space, ctrl_page>>
    <3>1. ctrl_page[t] = t
      BY <2>1, <2>2, CtrlPageAssumption DEF PointerInv, Mapped, TypeOK
    <3>. QED
      BY <1>3, <2>1, <2>2, <3>1, CtrlPageAssumption
         DEF EnterNp, Increment, TypeOK, ProcessInv, PointerInv, CountInv
  <2>3. CASE InitKernelIface(t, t) /\ Increment(t, t)
    BY <1>3, <2>1, <2>3, CtrlPageAssumption
       DEF EnterNp, Increment, InitKernelIface, TypeOK, ProcessInv, PointerInv, CountInv,
           Pointer
  <2>4. ASSUME NEW addr \in {NULL, MAP_FAILED}, InitKernelIface(t, addr),
               ctrl_page[t] = NULL, UNCHANGED <<status, process, flag, got>>
        PROVE  IInv'
    BY <1>3, <2>1, <2>4, CtrlPageAssumption
       DEF EnterNp, InitKernelIface, TypeOK, ProcessInv, PointerInv, CountInv, Pointer
  <2>. QED
    BY <1>1, <1>3, <2>2, <2>3, <2>4 DEF EnterNp
<1>4. ASSUME NEW t \in Thread, ExitNp(t)
      PROVE  IInv'
  <2>1. status[t] = "live" /\ (ctrl_page[t] = NULL \/ ctrl_page[t] = t)
    BY <1>4, CtrlPageAssumption DEF ExitNp, Runs, PointerInv, Mapped, TypeOK
  <2>2. \A u \in Thread : flag'[u] = IF u = ctrl_page[t] /\ flag[u] # 0
                                     THEN flag[u] - 1 ELSE flag[u]
    BY <1>4 DEF ExitNp
  <2>3. flag' \in [Thread -> Nat]
    BY <1>4 DEF ExitNp, TypeOK
  <2>4. TypeOK'
    <3>1. nest' \in [Thread -> 0..MaxNest]
      BY <1>4, CtrlPageAssumption DEF ExitNp, TypeOK
    <3>. QED
      BY <1>4, <2>3, <3>1 DEF ExitNp, TypeOK
  <2>5. CountInv'
    <3>. SUFFICES ASSUME NEW u \in Thread
                  PROVE  /\ flag'[u] <= nest'[u]
                         /\ ctrl_page'[u] # u => flag'[u] = 0
                         /\ status'[u] \in {"unborn", "forked"} => nest'[u] = 0
      BY DEF CountInv
    <3>1. CASE u = t
      BY <1>4, <2>1, <2>2, <3>1 DEF ExitNp, TypeOK, CountInv
    <3>2. CASE u # t
      BY <1>4, <2>2, <3>2 DEF ExitNp, TypeOK, CountInv
    <3>. QED
      BY <3>1, <3>2
  <2>6. ProcessInv' /\ PointerInv'
    BY <1>4 DEF ExitNp, ProcessInv, PointerInv
  <2>. QED
    BY <2>4, <2>5, <2>6
<1>5. ASSUME NEW t \in Thread, GetCtrlPage(t)
      PROVE  IInv'
  <2>1. status[t] = "live"
    BY <1>5 DEF GetCtrlPage, Runs
  <2>2. CASE ctrl_page[t] # NULL
    BY <1>5, <2>1, <2>2
       DEF GetCtrlPage, TypeOK, ProcessInv, PointerInv, CountInv, Pointer
  <2>3. CASE ctrl_page[t] = NULL
    <3>1. PICK addr \in {NULL, MAP_FAILED, t} :
            /\ InitKernelIface(t, addr)
            /\ got' = [got EXCEPT ![t] = IF addr = t THEN t ELSE NULL]
      BY <1>1, <1>5, <2>3 DEF GetCtrlPage
    <3>2. TypeOK'
      BY <1>5, <3>1, CtrlPageAssumption DEF GetCtrlPage, InitKernelIface, TypeOK, Pointer
    <3>3. PointerInv'
      BY <1>5, <2>1, <3>1, CtrlPageAssumption
         DEF GetCtrlPage, InitKernelIface, TypeOK, PointerInv
    <3>4. flag[t] = 0
      BY <2>3, CtrlPageAssumption DEF CountInv
    <3>5. UNCHANGED <<status, process, flag, nest>>
      BY <1>5 DEF GetCtrlPage
    <3>6. \A u \in Thread : u # t => ctrl_page'[u] = ctrl_page[u]
      BY <3>1 DEF InitKernelIface, TypeOK
    <3>7. ProcessInv'
      BY <3>5 DEF ProcessInv
    <3>8. CountInv'
      BY <3>4, <3>5, <3>6 DEF CountInv
    <3>. QED
      BY <3>2, <3>3, <3>7, <3>8
  <2>. QED
    BY <2>2, <2>3
<1>6. ASSUME NEW t \in Thread, WildAccess(t)
      PROVE  IInv'
  <2>1. /\ UNCHANGED <<process, space, ctrl_page, flag, nest, got>>
        /\ status' \in [Thread -> {"unborn", "forked", "live", "killed"}]
        /\ \A u \in Thread : status'[u] = status[u]
                           \/ (status[u] # "unborn" /\ status'[u] = "killed")
    BY <1>6 DEF WildAccess, Fault, TypeOK
  <2>2. TypeOK' /\ CountInv'
    BY <2>1 DEF TypeOK, CountInv
  <2>3. PointerInv'
    BY <2>1 DEF PointerInv
  <2>4. ProcessInv'
    BY <2>1 DEF ProcessInv, TypeOK
  <2>. QED
    BY <2>2, <2>3, <2>4
<1>7. ASSUME NEW t \in Thread, NEW c \in Thread, PthreadCreate(t, c)
      PROVE  IInv'
  BY <1>7 DEF PthreadCreate, Runs, TypeOK, ProcessInv, PointerInv, CountInv
<1>8. ASSUME NEW t \in Thread, NEW c \in Thread, Fork(t, c)
      PROVE  IInv'
  <2>1. \A u \in Thread : status[u] = "live" => process[u] # c
    BY <1>8 DEF Fork, ProcessInv
  <2>2. TypeOK'
    BY <1>8 DEF Fork, TypeOK
  <2>3. ProcessInv' /\ CountInv'
    BY <1>8 DEF Fork, TypeOK, ProcessInv, CountInv
  <2>4. PointerInv'
    BY <1>8, <2>1 DEF Fork, TypeOK, PointerInv
  <2>. QED
    BY <2>2, <2>3, <2>4
<1>9. CASE UNCHANGED vars
  BY <1>9 DEF vars, TypeOK, ProcessInv, PointerInv, CountInv
<1>. QED
  BY <1>2, <1>3, <1>4, <1>5, <1>6, <1>7, <1>8, <1>9 DEF Next

LEMMA Invariance ==
  ASSUME InitAfterFork
  PROVE  Spec => []IInv
<1>1. IInv /\ [Next]_vars => IInv'
  BY NextIInv
<1>. QED
  BY <1>1, InitIInv, PTL DEF Spec

\* Every state is of the types, discipline or not: whatever pointers a forked
\* child inherits, no flag is decremented below zero, because exit_np() looks at
\* np.flag before it decrements it (src/src/kernel_iface.c:129-130).
THEOREM TypeCorrect == Spec => []TypeOK
<1>1. Init => TypeOK
  BY CtrlPageAssumption DEF Init, TypeOK, Pointer
<1>2. TypeOK /\ [Next]_vars => TypeOK'
  <2>. SUFFICES ASSUME TypeOK, [Next]_vars
                PROVE  TypeOK'
    OBVIOUS
  <2>. USE CtrlPageAssumption
  <2>1. \A t \in Thread : MapFile(t) \subseteq Pointer
    BY DEF MapFile, Pointer
  <2>2. ASSUME NEW t \in Thread, NEW addr \in Pointer, InitKernelIface(t, addr)
        PROVE  /\ ctrl_page' \in [Thread -> Pointer]
               /\ space' \in [Thread -> SUBSET Thread]
    BY <2>2 DEF InitKernelIface, TypeOK
  <2>3. ASSUME NEW t \in Thread, InitRtThread(t)
        PROVE  TypeOK'
    <3>1. ctrl_page' \in [Thread -> Pointer] /\ space' \in [Thread -> SUBSET Thread]
      BY <2>1, <2>2, <2>3 DEF InitRtThread
    <3>. QED
      BY <2>3, <3>1 DEF InitRtThread, TypeOK
  <2>4. ASSUME NEW t \in Thread, EnterNp(t)
        PROVE  TypeOK'
    <3>1. nest' \in [Thread -> 0..MaxNest]
      BY <2>4 DEF EnterNp, TypeOK
    <3>2. CASE /\ ctrl_page[t] # NULL /\ Mapped(t, ctrl_page[t])
               /\ Increment(t, ctrl_page[t]) /\ UNCHANGED <<space, ctrl_page>>
      <4>1. ctrl_page[t] \in Thread
        BY <3>2 DEF Mapped, TypeOK
      <4>. QED
        BY <3>1, <3>2, <4>1 DEF Increment, TypeOK
    <3>3. CASE InitKernelIface(t, t) /\ Increment(t, t)
      <4>1. ctrl_page' \in [Thread -> Pointer] /\ space' \in [Thread -> SUBSET Thread]
        BY <2>2, <3>3 DEF Pointer
      <4>2. flag' \in [Thread -> Nat] /\ UNCHANGED <<status, process, got>>
        BY <3>3 DEF Increment, TypeOK
      <4>. QED
        BY <3>1, <4>1, <4>2 DEF TypeOK
    <3>4. CASE /\ \E addr \in MapFile(t) \ {t} : InitKernelIface(t, addr)
               /\ UNCHANGED <<status, process, flag, got>>
      <4>1. PICK addr \in MapFile(t) : InitKernelIface(t, addr)
        BY <3>4
      <4>2. ctrl_page' \in [Thread -> Pointer] /\ space' \in [Thread -> SUBSET Thread]
        BY <2>1, <2>2, <4>1
      <4>. QED
        BY <3>1, <3>4, <4>2 DEF TypeOK
    <3>. QED
      BY <2>4, <3>2, <3>3, <3>4 DEF EnterNp
  <2>5. ASSUME NEW t \in Thread, ExitNp(t)
        PROVE  TypeOK'
    <3>1. nest' \in [Thread -> 0..MaxNest]
      BY <2>5 DEF ExitNp, TypeOK
    <3>2. flag' \in [Thread -> Nat]
      BY <2>5 DEF ExitNp, TypeOK
    <3>. QED
      BY <2>5, <3>1, <3>2 DEF ExitNp, TypeOK
  <2>6. ASSUME NEW t \in Thread, GetCtrlPage(t)
        PROVE  TypeOK'
    <3>1. CASE got' = [got EXCEPT ![t] = ctrl_page[t]] /\ UNCHANGED <<space, ctrl_page>>
      BY <2>6, <3>1 DEF GetCtrlPage, TypeOK
    <3>2. CASE \E addr \in MapFile(t) :
                 /\ InitKernelIface(t, addr)
                 /\ got' = [got EXCEPT ![t] = IF addr = t THEN t ELSE NULL]
      <4>1. ctrl_page' \in [Thread -> Pointer] /\ space' \in [Thread -> SUBSET Thread]
        BY <2>1, <2>2, <3>2
      <4>2. got' \in [Thread -> Pointer]
        BY <3>2 DEF TypeOK, Pointer
      <4>. QED
        BY <2>6, <4>1, <4>2 DEF GetCtrlPage, TypeOK
    <3>. QED
      BY <2>6, <3>1, <3>2 DEF GetCtrlPage
  <2>7. ASSUME NEW t \in Thread, WildAccess(t)
        PROVE  TypeOK'
    BY <2>7 DEF WildAccess, Fault, TypeOK
  <2>8. ASSUME NEW t \in Thread, NEW c \in Thread, PthreadCreate(t, c) \/ Fork(t, c)
        PROVE  TypeOK'
    BY <2>8 DEF PthreadCreate, Fork, TypeOK
  <2>9. CASE UNCHANGED vars
    BY <2>9 DEF vars, TypeOK
  <2>. QED
    BY <2>3, <2>4, <2>5, <2>6, <2>7, <2>8, <2>9 DEF Next
<1>. QED
  BY <1>1, <1>2, PTL DEF Spec

\* Under the discipline a thread outside every section is preemptable.
THEOREM Unstuck ==
  ASSUME InitAfterFork
  PROVE  Spec => []NoStuckFlag
<1>1. IInv => NoStuckFlag
  BY DEF IInv, TypeOK, CountInv, NoStuckFlag
<1>. QED
  BY <1>1, Invariance, PTL

\* Under the discipline get_ctrl_page() never returns another thread's page.
THEOREM OwnPage ==
  ASSUME InitAfterFork
  PROVE  Spec => []GetCtrlPageOwn
<1>1. IInv => GetCtrlPageOwn
  BY DEF IInv, PointerInv, GetCtrlPageOwn
<1>. QED
  BY <1>1, Invariance, PTL

\* When mmap() of an open device does not fail either, no thread dies of its
\* control page.
THEOREM NobodyFaults ==
  ASSUME InitAfterFork, ~MmapMayFail
  PROVE  Spec => []NoWildAccess
<1> DEFINE NoneFailed == \A t \in Thread : ctrl_page[t] # MAP_FAILED /\ status[t] # "killed"
<1>1. Init => NoneFailed
  BY CtrlPageAssumption DEF Init
<1>2. IInv /\ NoneFailed /\ [Next]_vars => NoneFailed'
  <2>. SUFFICES ASSUME IInv, NoneFailed, [Next]_vars
                PROVE  NoneFailed'
    OBVIOUS
  <2>. USE DEF IInv
  <2>1. \A t \in Thread : MapFile(t) = {NULL, t}
    BY DEF MapFile
  <2>2. ASSUME NEW t \in Thread, InitRtThread(t) \/ EnterNp(t) \/ GetCtrlPage(t)
        PROVE  NoneFailed'
    <3>1. \A u \in Thread : status'[u] \in {status[u], "live"}
      BY <2>2 DEF InitRtThread, EnterNp, GetCtrlPage, Increment, TypeOK
    <3>2. UNCHANGED ctrl_page \/ \E addr \in {NULL, t} : InitKernelIface(t, addr)
      BY <2>1, <2>2 DEF InitRtThread, EnterNp, GetCtrlPage
    <3>3. \A u \in Thread : ctrl_page'[u] \in {ctrl_page[u], NULL, t}
      BY <3>2 DEF InitKernelIface, TypeOK
    <3>. QED
      BY <3>1, <3>3, CtrlPageAssumption
  <2>3. ASSUME NEW t \in Thread
        PROVE  ~WildAccess(t)
    BY DEF WildAccess, Runs, Mapped, PointerInv
  <2>4. ASSUME NEW t \in Thread, NEW c \in Thread,
               ExitNp(t) \/ PthreadCreate(t, c) \/ Fork(t, c)
        PROVE  NoneFailed'
    BY <2>4 DEF ExitNp, PthreadCreate, Fork, TypeOK
  <2>5. CASE UNCHANGED vars
    BY <2>5 DEF vars
  <2>. QED
    BY <2>2, <2>3, <2>4, <2>5 DEF Next
<1>3. NoneFailed => NoWildAccess
  BY DEF NoWildAccess
<1>. QED
  BY <1>1, <1>2, <1>3, Invariance, PTL DEF Spec

\* Under the discipline no call of one thread touches the flag of another.
THEOREM OwnFlags ==
  ASSUME InitAfterFork
  PROVE  Spec => OwnFlagOnly
<1>1. IInv /\ [Next]_vars =>
        [\A t \in Thread : flag'[t] # flag[t] => nest'[t] # nest[t]]_vars
  <2>. SUFFICES ASSUME IInv, Next, NEW u \in Thread, flag'[u] # flag[u]
                PROVE  nest'[u] # nest[u]
    BY DEF vars
  <2>1. PICK t \in Thread : EnterNp(t) \/ ExitNp(t)
    BY DEF Next, InitRtThread, GetCtrlPage, WildAccess, Fault, PthreadCreate, Fork
  <2>2. ctrl_page[t] \in {NULL, MAP_FAILED} \/ ctrl_page[t] = t
    BY <2>1 DEF IInv, PointerInv, EnterNp, ExitNp, Runs
  <2>3. u = t
    BY <2>1, <2>2, CtrlPageAssumption DEF EnterNp, ExitNp, Increment, Mapped, IInv, TypeOK
  <2>. QED
    BY <2>1, <2>3 DEF EnterNp, ExitNp, IInv, TypeOK
<1>. QED
  BY <1>1, Invariance, PTL DEF Spec, OwnFlagOnly
=============================================================================
