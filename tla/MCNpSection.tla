----------------------------- MODULE MCNpSection -----------------------------
(* Instances of NpSection.  Two tasks suffice for one to be kept waiting by *)
(* the other; nesting depth 2 has an inner and an outer section; FlagMod is *)
(* the smallest the assumption allows.                                      *)
EXTENDS NpSection

CONSTANTS t1, t2

MCTask == {t1, t2}
=============================================================================
