----------------------------- MODULE CacheArena -----------------------------
(***************************************************************************)
(* The arena of the cache programs (src/bin/ca_spin_v2.c, and the same     *)
(* code in ca_spin.c, ca_spinwrite.c, cpu_spin.c and ca_thrash.c): an      *)
(* array of cache lines whose first int links each to the next one to      *)
(* read, in a random order that init_arena draws with randrange, and whose *)
(* second int does so for the first, hot, lines.                           *)
(*                                                                         *)
(* rand() is a choice from 0..RAND_MAX.                                    *)
(***************************************************************************)
EXTENDS Integers

CONSTANTS
  NumArenaElem,   \* lines of the arena
  NumHotElem,     \* lines of its hot part (0 in the programs without one)
  RAND_MAX

ASSUME ArenaAssumption ==
  /\ NumArenaElem \in Nat \ {0}
  /\ NumHotElem \in 0..NumArenaElem
  /\ RAND_MAX \in Nat
  /\ NumArenaElem <= RAND_MAX          \* randrange divides by RAND_MAX / limit

VARIABLES
  shuffle,  \* the program's -r option
  phase,    \* "fill", "shuffle", "shuffle_hot", "idle", "walk", "walk_hot",
            \* "overrun": a line outside the arena was accessed
  i,        \* init_arena's loop counter
  line0,    \* line0[e]: arena[e].line[0]
  line1,    \* line1[e]: arena[e].line[1]
  next,     \* the walk's position
  reads     \* reads[e]: how often the current walk has read line e (history)

vars == <<shuffle, phase, i, line0, line1, next, reads>>

Elem == 0..NumArenaElem - 1
Hot  == 0..NumHotElem - 1
Garbage == -1      \* an int that was never written

Phase == {"fill", "shuffle", "shuffle_hot", "idle", "walk", "walk_hot", "overrun"}

TypeOK ==
  /\ shuffle \in BOOLEAN
  /\ phase \in Phase
  /\ i \in 0..NumArenaElem
  /\ line0 \in [Elem -> Elem \cup {Garbage}]
  /\ line1 \in [Elem -> Elem \cup {Garbage}]
  /\ next \in Elem \cup {Garbage}
  /\ reads \in [Elem -> Nat]

Init ==
  /\ shuffle \in BOOLEAN
  /\ phase = "fill" /\ i = 0
  /\ line0 = [e \in Elem |-> Garbage]
  /\ line1 = [e \in Elem |-> Garbage]
  /\ next = 0
  /\ reads = [e \in Elem |-> 0]

-----------------------------------------------------------------------------
\* The results of randrange(0, limit), limit > 0.  rand() / divisor is drawn
\* again when it is limit, and only then.
RandRange_NoRetry(limit) ==
  LET divisor == RAND_MAX \div limit IN
  {r \div divisor : r \in 0..RAND_MAX}
RandRange(limit) ==
  LET divisor == RAND_MAX \div limit IN
  {r \div divisor : r \in 0..RAND_MAX} \ {limit}

\* The links after arena[j] and arena[k] are exchanged; nothing that can be
\* said when one of them is outside the arena.
Swapped_Unsaved(line, j, k) ==
  IF j \in Elem THEN [line EXCEPT ![j] = line[k]] ELSE line
Swapped(line, j, k) ==
  IF j \in Elem THEN [line EXCEPT ![j] = line[k], ![k] = line[j]] ELSE line

-----------------------------------------------------------------------------
(* init_arena.                                                             *)

\* In order: each line leads to the one after it.  (Only the hot lines get a
\* second int.)
FillInOrder ==
  /\ phase = "fill" /\ ~shuffle
  /\ line0' = [e \in Elem |-> (e + 1) % NumArenaElem]
  /\ line1' = [e \in Elem |-> IF e \in Hot THEN (e + 1) % NumArenaElem ELSE Garbage]
  /\ phase' = "idle"
  /\ UNCHANGED <<shuffle, i, next, reads>>

\* Shuffled: each line leads to itself at first.
FillShuffled ==
  /\ phase = "fill" /\ shuffle
  /\ line0' = [e \in Elem |-> e]
  /\ line1' = [e \in Elem |-> e]
  /\ phase' = "shuffle" /\ i' = NumArenaElem
  /\ UNCHANGED <<shuffle, next, reads>>

\* One iteration of while (1 < i--), or the end of the loop.
ShuffleStep ==
  /\ phase = "shuffle" /\ i > 1
  /\ i' = i - 1
  /\ \E j \in RandRange(i - 1) :
       /\ phase' = IF j \in Elem THEN phase ELSE "overrun"
       /\ line0' = Swapped(line0, j, i - 1)
  /\ UNCHANGED <<shuffle, line1, next, reads>>

ShuffleEnd ==
  /\ phase = "shuffle" /\ i <= 1
  /\ phase' = "shuffle_hot" /\ i' = NumHotElem
  /\ UNCHANGED <<shuffle, line0, line1, next, reads>>

\* The second loop shuffles the hot lines among themselves.
HotShuffleStep ==
  /\ phase = "shuffle_hot" /\ i > 1
  /\ i' = i - 1
  /\ \E j \in RandRange(i - 1) :
       /\ phase' = IF j \in Elem THEN phase ELSE "overrun"
       /\ line1' = Swapped(line1, j, i - 1)
  /\ UNCHANGED <<shuffle, line0, next, reads>>

HotShuffleEnd ==
  /\ phase = "shuffle_hot" /\ i <= 1
  /\ phase' = "idle"
  /\ UNCHANGED <<shuffle, i, line0, line1, next, reads>>

-----------------------------------------------------------------------------
(* The walks of a job: loops over the arena, and over its hot part.        *)

\* cacheline_start of ca_thrash; the other programs start at line 0.
CachelineStart == IF shuffle THEN RandRange(NumArenaElem) ELSE {0}

StartWalk(walk, start) ==
  /\ phase = "idle"
  /\ phase' = walk
  /\ i' = 0
  /\ next' = start
  /\ reads' = [e \in Elem |-> 0]
  /\ UNCHANGED <<shuffle, line0, line1>>

\* One iteration of cacheline_walk: numlines is NumArenaElem.
Walk ==
  /\ phase = "walk" /\ i < NumArenaElem
  /\ phase' = IF next \in Elem THEN phase ELSE "overrun"
  /\ next' = IF next \in Elem THEN line0[next] ELSE Garbage
  /\ reads' = [e \in Elem |-> IF e = next THEN reads[e] + 1 ELSE reads[e]]
  /\ i' = i + 1
  /\ UNCHANGED <<shuffle, line0, line1>>

\* One iteration of cacheline_walk_hot.
WalkHot ==
  /\ phase = "walk_hot" /\ i < NumHotElem
  /\ phase' = IF next \in Elem THEN phase ELSE "overrun"
  /\ next' = IF next \in Elem THEN line1[next] ELSE Garbage
  /\ reads' = [e \in Elem |-> IF e = next THEN reads[e] + 1 ELSE reads[e]]
  /\ i' = i + 1
  /\ UNCHANGED <<shuffle, line0, line1>>

EndWalk ==
  /\ \/ phase = "walk" /\ i = NumArenaElem
     \/ phase = "walk_hot" /\ i = NumHotElem
  /\ phase' = "idle"
  /\ UNCHANGED <<shuffle, i, line0, line1, next, reads>>

-----------------------------------------------------------------------------
Next ==
  \/ FillInOrder \/ FillShuffled
  \/ ShuffleStep \/ ShuffleEnd \/ HotShuffleStep \/ HotShuffleEnd
  \/ \E start \in {0} \cup CachelineStart : StartWalk("walk", start)
  \/ StartWalk("walk_hot", 0)
  \/ Walk \/ WalkHot \/ EndWalk

Spec == Init /\ [][Next]_vars

-----------------------------------------------------------------------------
(* Properties.                                                             *)

\* "0th int used to enumerate whole array" (ca_spin_v2.c:139): a walk reads
\* every line of the arena exactly once, whatever rand() drew and wherever
\* the walk starts.  A shorter cycle would leave a working set other than
\* the one that is measured.
EnumeratesArena ==
  phase = "walk" /\ i = NumArenaElem => \A e \in Elem : reads[e] = 1

\* "1th int used to enumerate the first hot_wss_B array" (line 140): a hot
\* walk reads every hot line exactly once, and no other line.
EnumeratesHot ==
  phase = "walk_hot" /\ i = NumHotElem =>
    \A e \in Elem : reads[e] = IF e \in Hot THEN 1 ELSE 0

\* Neither the shuffle nor a walk leaves the arena.
NoOverrun == phase # "overrun"
=============================================================================
