----------------------------- MODULE MCSpinJobs -----------------------------
(***************************************************************************)
(* Instances of SpinJobs for TLC.                                          *)
(***************************************************************************)
EXTENDS SpinJobs

\* One or two columns, blanks before and between, commas with and without
\* blanks, comments with and without numbers, blank and unfinished lines.
MCLines ==
  {<<"1", "nl">>, <<"1", "sp", "4", "nl">>, <<"sp", "4", ",", "sp", "1", "nl">>,
   <<"1", ",", "4", "nl">>, <<"#", "nl">>, <<"#", "sp", "4", "nl">>, <<"nl">>,
   <<"4", "sp", "1">>}

MCValue == [text \in {"1", "4"} |-> IF text = "1" THEN 1 ELSE 4]

AllPrograms == {"rtspin", "rtspin -f", "ca_spin", "ca_spin_v2", "ca_thrash", "rtspin_cache"}

\* Two partitions of sixteen, the last ones among them; or one.
MCMasks == {{0, 1}, {14, 15}, {3}}
=============================================================================
