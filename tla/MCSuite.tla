------------------------------ MODULE MCSuite ------------------------------
(***************************************************************************)
(* Instances of Suite for TLC.                                             *)
(***************************************************************************)
EXTENDS Suite

\* One test of each kind, for the plugins its model is for: invalid_od,
\* pcp_lock_mode_change, rt_fork_non_rt, jobs_are_rate_limited_synch,
\* preempt_on_resume, pcp_inheritance.
OfKind == [
  alone   |-> [kind |-> "alone", plugins |-> {"ALL"}],
  child   |-> [kind |-> "child", plugins |-> {"P_FP"}],
  lenient |-> [kind |-> "lenient", plugins |-> {"LITMUS"}],
  rate    |-> [kind |-> "rate", plugins |-> {"LITMUS"}],
  resume  |-> [kind |-> "resume", plugins |-> {"P_FP", "PSN_EDF"}],
  ceiling |-> [kind |-> "ceiling", plugins |-> {"P_FP"}]]

Pairs == {<<OfKind[j], OfKind[k]>> : j \in DOMAIN Kind \ {"ceiling"}, k \in DOMAIN Kind \ {"child"}}

\* Three children by themselves, and what two of a test leave behind for two more.
MCCatalogs ==
  (Pairs \ {<<OfKind["resume"], OfKind["ceiling"]>>})
    \cup {<<OfKind["ceiling"]>>, <<OfKind["child"], OfKind["child"]>>,
          <<OfKind["rate"], OfKind["rate"], OfKind["resume"]>>}
MCPlugins == {"P_FP", "GSN_EDF", "LINUX"}
=============================================================================
