---------------------------- MODULE MCAdmission ----------------------------
(***************************************************************************)
(* Instances of Admission for TLC.                                         *)
(***************************************************************************)
EXTENDS Admission, TLC

CONSTANTS own, child, parent

\* One task that sets itself up, one that its parent admits.
OwnAndChild == {own, child}
OneParent == {parent}
ChildOf == parent :> child

\* Five processors in three groups of digits: partitions, clusters that are
\* not contiguous, and one global domain.
Partitioned == [i \in 0..4 |-> {i}]
Clustered == (0 :> {0, 2}) @@ (1 :> {1, 3, 4})
Global == 0 :> 0..4

PluginsOfThree == {Partitioned, Clustered, Global}

\* The task asks for number 1.
AskedOne == own :> 1 @@ child :> 0

AllOnline == {0..4}
=============================================================================
