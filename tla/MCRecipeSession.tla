--------------------------- MODULE MCRecipeSession ---------------------------
(***************************************************************************)
(* A 3-bit u64 and a device of three erase blocks of two bytes: offsets    *)
(* and lengths run over the whole type, so unaligned, too long, empty and  *)
(* overflowing requests all occur.                                         *)
(***************************************************************************)
EXTENDS RecipeSession

MCRequests ==
  {[offset |-> o, length |-> l, readonly |-> f, powerup_lock_enabled |-> ~f] :
     o \in U64, l \in U64, f \in BOOLEAN}
=============================================================================
