-------------------------- MODULE MCRegistryAccess --------------------------
(***************************************************************************)
(* RegistryAccess for TLC: one key that the program registers with two     *)
(* types, two versions, as local-only, and with contradictory options, and *)
(* migrations to and from both types and versions.                         *)
(***************************************************************************)
EXTENDS RegistryAccess

CONSTANTS t1, k1, old, new, json, label

MCRegistrations ==
  {[key |-> k1, type |-> new, opts |-> DefaultOptions],
   [key |-> k1, type |-> new, opts |-> [DefaultOptions EXCEPT !.version = 2,
                                                              !.codec = json,
                                                              !.metadata = {label}]],
   [key |-> k1, type |-> new, opts |-> [DefaultOptions EXCEPT !.local_only = TRUE]],
   [key |-> k1, type |-> old, opts |-> [DefaultOptions EXCEPT !.local_only = TRUE,
                                                              !.codec = json]]}

MCMigrations ==
  {[key |-> k1, old |-> 1, reads |-> old, gives |-> new],
   [key |-> k1, old |-> 2, reads |-> new, gives |-> old],
   [key |-> k1, old |-> 2, reads |-> old, gives |-> new]}

=============================================================================
