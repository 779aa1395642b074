----------------------------- MODULE CpuMapping -----------------------------
(***************************************************************************)
(* The files below /proc/litmus/domains and /proc/litmus/cpus, and how     *)
(* src/src/migration.c reads them.  A file holds a mask of processors (or  *)
(* of domains) in hexadecimal digits, most significant first, in groups    *)
(* that are separated by commas; the leftmost group may be shorter.        *)
(*                                                                         *)
(* A digit is the set of its bits, so the code's 8 digits of 4 bits in a   *)
(* group are parameters and can be made small.                             *)
(***************************************************************************)
EXTENDS Integers, Sequences, FiniteSetsExt

CONSTANTS
  GroupChars,   \* digits in a full group (8)
  CharBits,     \* bits in a digit (4)
  WordBits,     \* bits in a word of a cpu_set_t (64)
  MaxCpus,      \* processors that the buffer of read_mapping has room for (4096)
  UllBits,      \* bits in an unsigned long long (64)
  Comma         \* the separator

ASSUME CpuMappingAssumption ==
  /\ {GroupChars, CharBits, WordBits, MaxCpus, UllBits} \subseteq Nat \ {0}
  /\ \A digit \in SUBSET (0..CharBits-1) : digit # Comma

-----------------------------------------------------------------------------
(* The kernel's side (external).                                           *)

\* The text for a mask, in the given number of digits.
MaskText(mask, digits) ==
  LET length == digits + (digits - 1) \div GroupChars
      Char(r) ==  \* the r-th character from the right
        LET digit == (r \div (GroupChars + 1)) * GroupChars + (r % (GroupChars + 1))
        IN  IF (r % (GroupChars + 1)) = GroupChars
            THEN Comma
            ELSE {b \in 0..CharBits-1 : digit * CharBits + b \in mask}
  IN  [p \in 1..length |-> Char(length - p)]

-----------------------------------------------------------------------------
(* read_mapping().                                                         *)

\* strtoul(chunk_str, NULL, 16), as the set of bits of the result: the digits
\* from a position (counted from 0) up to the next comma or the end.
Strtoul(text, from) ==
  LET stop == Min({Len(text)} \cup {p \in from..Len(text)-1 : text[p + 1] = Comma})
  IN  UNION {{(stop - 1 - p) * CharBits + b : b \in text[p + 1]} : p \in from..stop-1}

\* Where chunk_str points in iteration i: GroupChars from the end, and a group
\* and a comma further to the left each time, but not before the text.
ChunkStr(len, i) == Max({0, len - GroupChars - (GroupChars + 1) * i})

\* The iterations of the do-while loop: after a chunk at the very beginning,
\* chunk_str would be more than GroupChars before the text.  The variant asks
\* whether it is before the text at all.
Iterations_Early(len) ==
  {i \in 0..len : i = 0 \/ ChunkStr(len, i - 1) >= GroupChars + 1}
Iterations(len) == {i \in 0..len : i = 0 \/ ChunkStr(len, i - 1) >= 1}

\* The bits CPU_ALLOC(nbits) has room for, nbits accounting for the commas.
RoundUp(n, m) == ((n + m - 1) \div m) * m
AllocatedBits(len) ==
  RoundUp(GroupChars * CharBits * (len \div (GroupChars + 1))
            + CharBits * (len % (GroupChars + 1)), WordBits)

\* The set read_mapping builds from a text; CPU_SET_S ignores what does not fit.
ParseMapping(text) ==
  {x \in UNION {{i * GroupChars * CharBits + j : j \in Strtoul(text, ChunkStr(Len(text), i))}
                 : i \in Iterations(Len(text))}
     : x < AllocatedBits(Len(text))}

\* read_mapping(idx, which, ...) with online processors, of files given as a
\* function from the numbers that exist to masks, written in so many digits.
\* Failing leaves the empty set.  The variant has no room for as many processors
\* as there may be.
ReadMapping_AtLimit(online, files, idx, digits) ==
  IF Cardinality(online) >= MaxCpus \/ idx \notin DOMAIN files
  THEN [ret |-> -1, set |-> {}]
  ELSE [ret |-> 0, set |-> ParseMapping(MaskText(files[idx], digits))]
ReadMapping(online, files, idx, digits) ==
  IF Cardinality(online) > MaxCpus \/ idx \notin DOMAIN files
  THEN [ret |-> -1, set |-> {}]
  ELSE [ret |-> 0, set |-> ParseMapping(MaskText(files[idx], digits))]

-----------------------------------------------------------------------------
(* Its callers.                                                            *)

\* domain_to_cpus() and cpu_to_domains(): the bits that an unsigned long long
\* has, -1 when there are more processors than that.
ToMask(online, files, idx, digits) ==
  LET mapping == ReadMapping(online, files, idx, digits)
  IN  IF Cardinality(online) > UllBits THEN [ret |-> -1, set |-> {}]
      ELSE [mapping EXCEPT !.set = @ \cap 0..UllBits-1]

\* The search of domain_to_first_cpu(), -1 when it finds nothing.  The variant
\* goes on to the last processor.
FirstAmong_NoBreak(set, n_online) ==
  LET found == {i \in 0..n_online-1 : i \in set}
  IN  IF found = {} THEN -1 ELSE Max(found)
FirstAmong(set, n_online) ==
  LET found == {i \in 0..n_online-1 : i \in set}
  IN  IF found = {} THEN -1 ELSE Min(found)

DomainToFirstCpu(online, files, domain, digits) ==
  LET mapping == ReadMapping(online, files, domain, digits)
  IN  IF mapping.ret # 0 THEN mapping.ret
      ELSE FirstAmong(mapping.set, Cardinality(online))

\* The target_cpu that be_migrate_thread_to_cpu() passes on to the kernel; it
\* compares the number of a processor with the count of those online.
MigratableCpu(online, target_cpu) == target_cpu \in 0..Cardinality(online)-1
=============================================================================
