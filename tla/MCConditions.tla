---------------------------- MODULE MCConditions ----------------------------
(***************************************************************************)
(* Condition types for model checking.                                     *)
(***************************************************************************)
EXTENDS Conditions

\* The types of the tenant API and one that comes before them.
MCAlphabet == <<"Available", "Provisioned", "Ready">>
=============================================================================
