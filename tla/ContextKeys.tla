----------------------------- MODULE ContextKeys -----------------------------
(***************************************************************************)
(* The context keys: what the stores and the registry have in common.      *)
(***************************************************************************)

CONSTANT Keys

=============================================================================
