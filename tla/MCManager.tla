------------------------------ MODULE MCManager ------------------------------
(***************************************************************************)
(* An instance of Manager for TLC.                                         *)
(***************************************************************************)
EXTENDS MCReconciler, Manager

\* From the operator's own claim to no cache at all.
TakeoverSpecs == {SpecOf(m2, Managed, 1), SpecOf(m1, NoCache, 1)}
FirstManaged == {SpecOf(m2, Managed, 1)}

\* The user edits the object or deletes it, not both.
OneIntervention == edits + deletes <= 1
=============================================================================
