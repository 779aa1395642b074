------------------------------ MODULE Admission ------------------------------
(***************************************************************************)
(* How tasks get to their processors and into real-time mode: by           *)
(* be_migrate_to_domain and domain_to_first_cpu (sporadic_partitioned,     *)
(* sporadic_clustered and the programs that look up their domain), by      *)
(* be_migrate_to_cpu (the other programs and the tests), or admitted by a  *)
(* parent while they run or sleep (tests/core_api.c).  Meanwhile the       *)
(* kernel moves tasks within their affinity, and setsched may switch the   *)
(* scheduler plugin, which changes the domains.                            *)
(***************************************************************************)
EXTENDS CpuMapping

CONSTANTS
  Task, Parent,
  Child,           \* Child[p]: the task that parent p admits
  Asked,           \* Asked[t]: the domain or processor task t asks for
  Kinds,           \* the kinds of tasks that are no parent's child
  Plugins,         \* the domains of each plugin: functions from numbers to sets
  Onlines,         \* the possible sets of processors that are online
  DigitCounts      \* in how many digits the kernel may write masks

Actor == Task \cup Parent

\* The processors that exist.
Cpu == (UNION Onlines) \cup UNION {UNION {d[i] : i \in DOMAIN d} : d \in Plugins}

\* Each parent forks its own child, and no domain has a higher number than the
\* processors have.
ASSUME AdmissionAssumption ==
  /\ Task \cap Parent = {}
  /\ Child \in [Parent -> Task] /\ IsInjective(Child)
  /\ Asked \in [Task -> Nat]
  /\ Kinds \subseteq {"domain", "processor", "test"}
  /\ \A set \in Onlines : IsFiniteSet(set) /\ set # {}
  /\ Cpu \subseteq Nat
  /\ \A d \in Plugins : \A i \in DOMAIN d : i \in Nat /\ \E c \in Cpu : i <= c
  /\ DigitCounts \subseteq Nat \ {0}

\* The calls of each kind of task, in order.  "domain": sporadic_partitioned
\* and rtspin.  "processor": ca_spin and the like.  "test": tests that set the
\* parameters first.  The children and parents of core_api.c: "running" and
\* "suspended".
PlanWith(running, suspended_parent) ==
  [domain    |-> <<"read_mapping", "setaffinity", "first_cpu", "param", "mode", "job", "leave">>,
   processor |-> <<"migrate", "param", "mode", "job", "leave">>,
   test      |-> <<"param", "migrate", "mode", "job", "leave">>,
   running   |-> running,
   suspended |-> <<"migrate", "read", "check", "job">>,
   running_parent   |-> <<"read", "sleep", "param", "mode", "check", "wait">>,
   suspended_parent |-> suspended_parent]

Running == <<"migrate", "write", "poll", "job">>
SuspendedParent == <<"sleep", "param", "mode", "check", "write", "wait">>

\* Variants: the running child wakes its parent before it has migrated; the
\* parent never wakes the suspended child.
Plan_TokenFirst == PlanWith(<<"write", "migrate", "poll", "job">>, SuspendedParent)
Plan_NoToken == PlanWith(Running, <<"sleep", "param", "mode", "check", "wait">>)
Plan == PlanWith(Running, SuspendedParent)

ParentKind(k) == IF k = "running" THEN "running_parent" ELSE "suspended_parent"

VARIABLES
  todo,      \* todo[a]: the calls a still has to make
  kind,      \* kind[t]: what t does
  failed,    \* the actors that gave up after a failed call
  token,     \* token[p]: tokens in the pipe of parent p
  mask,      \* mask[t]: the set read_mapping() returned
  cpu,       \* cpu[t]: params.cpu in t's own memory
  affinity, at,   \* the processors t may use, the one it is on
  rt_cpu,    \* rt_cpu[t]: the cpu parameter the kernel has, -1 when none
  policy,    \* policy[t]: "SCHED_NORMAL" or "SCHED_LITMUS"
  domains,   \* the files of the active plugin: domain -> processors
  online, digits,  \* of the machine
  switched,  \* history: actors that were at work, or had given up, at a switch
  late       \* history: children that had not suspended when their parent woke up

library == <<todo, kind, failed, token, mask, cpu>>
kernel == <<affinity, at, rt_cpu, policy, domains, online, digits>>
vars == <<library, kernel, switched, late>>

IsChild(t) == \E p \in Parent : Child[p] = t
ParentOf(t) == CHOOSE p \in Parent : Child[p] = t

TypeOK ==
  /\ kind \in [Task -> DOMAIN Plan]
  /\ \A a \in Actor : \E k \in DOMAIN Plan : \E n \in 1..Len(Plan[k])+1 :
       todo[a] = SubSeq(Plan[k], n, Len(Plan[k]))
  /\ failed \subseteq Actor
  /\ token \in [Parent -> 0..1]
  /\ mask \in [Task -> SUBSET Cpu]
  /\ \A t \in Task : cpu[t] \in Cpu \cup {-1, 0, Asked[t]}
  /\ affinity \in [Task -> SUBSET Cpu] /\ at \in [Task -> online]
  /\ rt_cpu \in [Task -> online \cup {-1}]
  /\ policy \in [Task -> {"SCHED_NORMAL", "SCHED_LITMUS"}]
  /\ domains \in Plugins /\ online \in Onlines /\ digits \in DigitCounts
  /\ switched \subseteq Actor /\ late \subseteq Task

\* Children inherit what a test starts with; the others start as they like.
Init ==
  /\ online \in Onlines /\ domains \in Plugins
  /\ digits \in {n \in DigitCounts : \A c \in Cpu : c < n * CharBits}
  /\ kind \in [Task -> {"domain", "processor", "test", "running", "suspended"}]
  /\ \A t \in Task : IF IsChild(t) THEN kind[t] \in {"running", "suspended"}
                                   ELSE kind[t] \in Kinds
  /\ todo = [a \in Actor |-> IF a \in Task THEN Plan[kind[a]]
                                           ELSE Plan[ParentKind(kind[Child[a]])]]
  /\ failed = {} /\ switched = {} /\ late = {}
  /\ token = [p \in Parent |-> 0]
  /\ mask = [t \in Task |-> {}]
  /\ cpu = [t \in Task |-> IF kind[t] \in {"processor", "test"} THEN Asked[t] ELSE 0]
  /\ affinity = [t \in Task |-> online] /\ at = [t \in Task |-> Min(online)]
  /\ rt_cpu = [t \in Task |-> -1]
  /\ policy = [t \in Task |-> "SCHED_NORMAL"]

-----------------------------------------------------------------------------
(* The kernel (external).                                                  *)

\* Linux places a best-effort task anywhere within its affinity.
Balance(t) ==
  /\ policy[t] = "SCHED_NORMAL" /\ todo[t] # <<>>
  /\ \E c \in (affinity[t] \cap online) \ {at[t]} : at' = [at EXCEPT ![t] = c]
  /\ UNCHANGED <<library, affinity, rt_cpu, policy, domains, online, digits, switched, late>>

\* setsched: the plugin changes only while there is no real-time task.
SetSched ==
  /\ \A t \in Task : policy[t] = "SCHED_NORMAL"
  /\ \E d \in Plugins \ {domains} : domains' = d
  /\ switched' = switched \cup failed \cup {t \in Task : todo[t] \notin {Plan[kind[t]], <<>>}}
  /\ UNCHANGED <<library, affinity, at, rt_cpu, policy, online, digits, late>>

\* What sched_setaffinity and set_rt_task_param accept.
AffinityAllowed(set) == set \cap online # {}
ParamAllowed(t, c) == c \in online /\ policy[t] = "SCHED_NORMAL"

\* Whether the plugin admits t: t must have parameters and be on a processor of
\* the domain of its cpu parameter.
Admitted(t) ==
  /\ rt_cpu[t] # -1
  /\ \E i \in DOMAIN domains : {rt_cpu[t], at[t]} \subseteq domains[i]

-----------------------------------------------------------------------------
(* The steps of a call.                                                    *)

Calls(a, call) == a \notin failed /\ todo[a] # <<>> /\ Head(todo[a]) = call

Return(a) == todo' = [todo EXCEPT ![a] = Tail(@)] /\ UNCHANGED failed

\* bail_out() and the SYSCALL macro of the tests end the caller.
Fail(a) == failed' = failed \cup {a} /\ UNCHANGED todo

\* The first half of be_migrate_to_domain().
ReadDomain(t) ==
  /\ Calls(t, "read_mapping")
  /\ LET mapping == ReadMapping(online, domains, Asked[t], digits) IN
       /\ mask' = [mask EXCEPT ![t] = mapping.set]
       /\ IF mapping.ret = 0 THEN Return(t) ELSE Fail(t)
  /\ UNCHANGED <<kind, token, cpu, kernel, switched, late>>

\* sched_setaffinity() succeeds and moves a task that is not in the set.
MoveTo(t, set) ==
  /\ affinity' = [affinity EXCEPT ![t] = set]
  /\ \E c \in set \cap online :
       /\ at[t] \in set => c = at[t]
       /\ at' = [at EXCEPT ![t] = c]
  /\ UNCHANGED <<rt_cpu, policy, domains, online, digits>>

\* The second half.
SetAffinity(t) ==
  /\ Calls(t, "setaffinity")
  /\ \/ AffinityAllowed(mask[t]) /\ MoveTo(t, mask[t]) /\ Return(t)
     \/ ~AffinityAllowed(mask[t]) /\ Fail(t) /\ UNCHANGED kernel
  /\ UNCHANGED <<kind, token, mask, cpu, switched, late>>

\* be_migrate_to_cpu(); the children of core_api.c do not look at the result.
\* Whether a task that is real-time already may still migrate is the kernel's choice.
MigrateToCpu(t) ==
  LET allowed == MigratableCpu(online, cpu[t]) /\ AffinityAllowed({cpu[t]}) IN
  /\ Calls(t, "migrate")
  /\ \/ allowed /\ MoveTo(t, {cpu[t]}) /\ Return(t)
     \/ /\ ~allowed \/ policy[t] = "SCHED_LITMUS"
        /\ IsChild(t) /\ Return(t) /\ UNCHANGED kernel
     \/ ~allowed /\ ~IsChild(t) /\ Fail(t) /\ UNCHANGED kernel
  /\ UNCHANGED <<kind, token, mask, cpu, switched, late>>

\* param.cpu = domain_to_first_cpu(); -1 becomes the largest unsigned int.
LookUpFirstCpu(t) ==
  /\ Calls(t, "first_cpu")
  /\ cpu' = [cpu EXCEPT ![t] = DomainToFirstCpu(online, domains, Asked[t], digits)]
  /\ Return(t)
  /\ UNCHANGED <<kind, token, mask, kernel, switched, late>>

\* set_rt_task_param(), by actor a for task t with c as the processor.
SetParam(a, t, c) ==
  /\ Calls(a, "param")
  /\ \/ /\ ParamAllowed(t, c)
        /\ rt_cpu' = [rt_cpu EXCEPT ![t] = c]
        /\ Return(a)
     \/ /\ ~ParamAllowed(t, c)
        /\ Fail(a) /\ UNCHANGED rt_cpu
  /\ UNCHANGED <<kind, token, mask, cpu, affinity, at, policy, domains, online, digits, switched, late>>

\* task_mode(LITMUS_RT_TASK), or the parent's sched_setscheduler().
BecomeRealTime(a, t) ==
  /\ Calls(a, "mode")
  /\ \/ /\ policy[t] = "SCHED_NORMAL" /\ Admitted(t)
        /\ policy' = [policy EXCEPT ![t] = "SCHED_LITMUS"]
        /\ Return(a)
     \/ /\ policy[t] # "SCHED_NORMAL" \/ ~Admitted(t)
        /\ Fail(a) /\ UNCHANGED policy
  /\ UNCHANGED <<kind, token, mask, cpu, affinity, at, rt_cpu, domains, online, digits, switched, late>>

\* sleep_next_period() fails with EINVAL outside real-time mode.  It is the
\* children's last call before exit().
Job(t) ==
  /\ Calls(t, "job")
  /\ IF policy[t] = "SCHED_LITMUS" THEN Return(t) ELSE Fail(t)
  /\ policy' = [policy EXCEPT ![t] = IF IsChild(t) THEN "SCHED_NORMAL" ELSE @]
  /\ UNCHANGED <<kind, token, mask, cpu, affinity, at, rt_cpu, domains, online, digits, switched, late>>

\* task_mode(BACKGROUND_TASK), and exit().
BecomeBackground(t) ==
  /\ Calls(t, "leave")
  /\ policy' = [policy EXCEPT ![t] = "SCHED_NORMAL"]
  /\ Return(t)
  /\ UNCHANGED <<kind, token, mask, cpu, affinity, at, rt_cpu, domains, online, digits, switched, late>>

-----------------------------------------------------------------------------
(* Parents and children (tests/core_api.c).                                *)

\* write() of the token to the pipe of p, by p or its child.
WriteToken(a, p) ==
  /\ Calls(a, "write")
  /\ token' = [token EXCEPT ![p] = 1]
  /\ Return(a)
  /\ UNCHANGED <<kind, mask, cpu, kernel, switched, late>>

\* The blocking read() of the other.
ReadToken(a, p) ==
  /\ Calls(a, "read")
  /\ token[p] = 1 /\ token' = [token EXCEPT ![p] = 0]
  /\ Return(a)
  /\ UNCHANGED <<kind, mask, cpu, kernel, switched, late>>

\* while (scheduler != SCHED_LITMUS).
Poll(t) ==
  /\ Calls(t, "poll")
  /\ policy[t] = "SCHED_LITMUS"
  /\ Return(t)
  /\ UNCHANGED <<kind, token, mask, cpu, kernel, switched, late>>

\* lt_sleep() of the parent.  The parent of a running child has heard of it
\* before; that of a suspended child gives it "some time to suspend", which may
\* not be enough.
LtSleep(p) ==
  /\ Calls(p, "sleep")
  /\ late' = late \cup {t \in {Child[p]} : kind[t] = "suspended" /\ ~Calls(t, "read")}
  /\ Return(p)
  /\ UNCHANGED <<kind, token, mask, cpu, kernel, switched>>

\* ASSERT(sched_getscheduler(child) == SCHED_LITMUS).  What the kernel answers
\* for a child that has exited is its choice.
CheckMode(a, t) ==
  /\ Calls(a, "check")
  /\ \/ (policy[t] = "SCHED_LITMUS" \/ todo[t] = <<>>) /\ Return(a)
     \/ policy[t] # "SCHED_LITMUS" /\ Fail(a)
  /\ UNCHANGED <<kind, token, mask, cpu, kernel, switched, late>>

\* waitpid(), and the assertion that the child ended well.
WaitForChild(p) ==
  /\ Calls(p, "wait")
  /\ \/ todo[Child[p]] = <<>> /\ Return(p)
     \/ Child[p] \in failed /\ Fail(p)
  /\ UNCHANGED <<kind, token, mask, cpu, kernel, switched, late>>

-----------------------------------------------------------------------------
OwnStep(t) ==
  \/ ReadDomain(t) \/ SetAffinity(t) \/ MigrateToCpu(t) \/ LookUpFirstCpu(t)
  \/ SetParam(t, t, cpu[t]) \/ BecomeRealTime(t, t) \/ Job(t) \/ BecomeBackground(t)

ChildStep(t) ==
  /\ IsChild(t)
  /\ \/ WriteToken(t, ParentOf(t)) \/ ReadToken(t, ParentOf(t))
     \/ Poll(t) \/ CheckMode(t, t)

ParentStep(p) ==
  \/ ReadToken(p, p) \/ WriteToken(p, p) \/ LtSleep(p)
  \/ SetParam(p, Child[p], 0) \/ BecomeRealTime(p, Child[p])
  \/ CheckMode(p, Child[p]) \/ WaitForChild(p)

Next ==
  \/ \E t \in Task : OwnStep(t) \/ ChildStep(t) \/ Balance(t)
  \/ \E p \in Parent : ParentStep(p)
  \/ SetSched

Spec == Init /\ [][Next]_vars

\* Linux runs every task that can run: parents and their children make steps.
Fairness ==
  \A p \in Parent :
    /\ WF_vars(MigrateToCpu(Child[p]) \/ Job(Child[p]) \/ ChildStep(Child[p]))
    /\ WF_vars(ParentStep(p))

FairSpec == Spec /\ Fairness

-----------------------------------------------------------------------------
(* Properties.                                                             *)

\* The task is sent to exactly the processors of the domain it asks for,
\* whatever the number of digits in the first group of the file ("Bits are MSB
\* to LSB, left to right", migration.c:53).
SentToDomain ==
  \A t \in Task : Calls(t, "setaffinity") /\ t \notin switched =>
    mask[t] = domains[Asked[t]]

\* The domains a processor belongs to: the files below /proc/litmus/cpus.
CpuFiles == [c \in online |-> {i \in DOMAIN domains : c \in domains[i]}]

\* domain_to_cpus() and cpu_to_domains() agree about who is where, up to the
\* number of bits in their results.
MasksAgree ==
  LET cpus == [i \in DOMAIN domains |-> ToMask(online, domains, i, digits)]
      doms == [c \in online |-> ToMask(online, CpuFiles, c, digits)]
  IN  \A i \in DOMAIN domains \cap 0..UllBits-1, c \in online \cap 0..UllBits-1 :
        (c \in cpus[i].set <=> i \in doms[c].set)

\* The invariant of the mapping: types, and who is where, read from both sides.
MappingInv == TypeOK /\ SentToDomain /\ MasksAgree

\* A task that found its domain through the library is in real-time mode only
\* on a processor of that domain, with the domain's first processor as its
\* parameter ("set tp->cpu to the first CPU in the assigned cluster",
\* litmus.c:103): the two reads of the mapping and the kernel agree unless the
\* plugin was switched in between.
InAskedDomain ==
  \A t \in Task :
    policy[t] = "SCHED_LITMUS" /\ kind[t] = "domain" /\ t \notin switched =>
      /\ at[t] \in domains[Asked[t]]
      /\ rt_cpu[t] = Min(domains[Asked[t]])

\* A task that asks for what there is becomes a real-time task: no call of its
\* set-up is refused, unless the plugin was switched meanwhile.
NotRefused ==
  \A t \in Task \cap failed :
    \/ t \in switched
    \/ IsChild(t)
    \/ kind[t] = "domain" /\ (Asked[t] \notin DOMAIN domains
                                \/ domains[Asked[t]] \cap online = {})
    \/ kind[t] # "domain" /\ cpu[t] \notin online

\* "@pre tid is not yet in real-time mode" (migration.h:18): no task calls the
\* be_migrate functions after it was admitted, by itself or by its parent, unless
\* its parent woke up too early.
MigratesBefore ==
  \A t \in Task \ late :
    Calls(t, "migrate") \/ Calls(t, "setaffinity") => policy[t] = "SCHED_NORMAL"

\* "when we wake up, we should be a real-time task" (core_api.c:193): a child
\* that was let go finds itself in real-time mode, however long it took, and
\* whether its parent admitted it while it slept or before.
WakesRealTime ==
  \A t \in Task : IsChild(t) /\ (Calls(t, "check") \/ Calls(t, "job")) =>
    policy[t] = "SCHED_LITMUS"

\* A real-time task is on a processor of the domain it was admitted to, also when
\* it migrates too late.
StaysInDomain ==
  \A t \in Task : policy[t] = "SCHED_LITMUS" =>
    \E i \in DOMAIN domains : {rt_cpu[t], at[t]} \subseteq domains[i]

\* Parent and child take turns in the order of core_api.c, and where that is a
\* matter of time (line 202) a late child is admitted all the same.
InTurn == MigratesBefore /\ WakesRealTime /\ StaysInDomain

\* The parent has done all that its child waits for: made it a real-time task or,
\* when it sleeps, written the token.
LetGo(p) ==
  \A n \in DOMAIN todo[p] :
    todo[p][n] # (IF kind[Child[p]] = "running" THEN "mode" ELSE "write")

\* A child that waits for its admission gets to its end, whatever becomes of its
\* parent: only a parent that failed before it let the child go leaves it behind.
ChildrenEnd ==
  \A p \in Parent : <>(todo[Child[p]] = <<>> \/ (p \in failed /\ ~LetGo(p)))
=============================================================================
