------------------------------- MODULE Recipe -------------------------------
(***************************************************************************)
(* struct mtd_recipe and the operations that run under recipe->lock: the   *)
(* list of parts a client prepares, and its counter.                       *)
(*                                                                         *)
(* A request is what userspace passes in struct ext_mtd_partition_info.    *)
(* Names are left out: the code only copies them.                          *)
(***************************************************************************)
EXTENDS PartitionRange, SequencesExt

Request == [offset : U64, length : U64, readonly : BOOLEAN, powerup_lock_enabled : BOOLEAN]

\* struct mtd_recipe_part
RecipePart ==
  [offset : U64, length : U64, writable : BOOLEAN, powerup_lock_enabled : BOOLEAN]

EmptyRecipe == [partitions |-> <<>>, parts_count |-> 0]

-----------------------------------------------------------------------------
(* add_recipe_part                                                         *)

\* verify_partition_params_locked
OverlapsRecipe(recipe, req) ==
  \E i \in DOMAIN recipe.partitions :
    RangesOverlap(recipe.partitions[i], req.offset, req.length)

PartAccepted(recipe, req) ==
  /\ BasicConditionsHold(req.offset, req.length)
  /\ ~OverlapsRecipe(recipe, req)

NewPart(req) ==
  [offset |-> req.offset,
   length |-> req.length,
   writable |-> ~req.readonly,
   powerup_lock_enabled |-> req.powerup_lock_enabled]

PartAdded(recipe, req) ==
  [partitions  |-> Append(recipe.partitions, NewPart(req)),
   parts_count |-> recipe.parts_count + 1]

-----------------------------------------------------------------------------
(* del_recipe_part: the index counts from 0, an index past the end is      *)
(* -ENOENT, and the counter keeps its value.                               *)

PartExists(recipe, index) == index < Len(recipe.partitions)

PartDeleted(recipe, index) ==
  [recipe EXCEPT !.partitions = RemoveAt(@, index + 1)]

-----------------------------------------------------------------------------
(* convert_recipe_to_mtd_partitions_locked                                 *)

\* An element of the array of struct mtd_partition. The array comes zeroed
\* from kvzalloc: an element the loop does not reach has a null name.
MtdPartition ==
  [named : BOOLEAN, offset : U64, size : U64,
   mask_writeable : BOOLEAN, add_powerup_lock : BOOLEAN]

\* Variant: the array comes from kvmalloc, with what was in the memory before.
UnclearedPartition ==
  [named |-> TRUE, offset |-> 0, size |-> 0,
   mask_writeable |-> FALSE, add_powerup_lock |-> FALSE]

ZeroedPartition ==
  [named |-> FALSE, offset |-> 0, size |-> 0,
   mask_writeable |-> FALSE, add_powerup_lock |-> FALSE]

\* Variant: the flag is masked for the parts that are writable.
AsInvertedMtdPartition(part) ==
  [named |-> TRUE,
   offset |-> part.offset,
   size |-> part.length,
   mask_writeable |-> part.writable,
   add_powerup_lock |-> part.powerup_lock_enabled]

AsMtdPartition(part) ==
  [named |-> TRUE,
   offset |-> part.offset,
   size |-> part.length,
   mask_writeable |-> ~part.writable,
   add_powerup_lock |-> part.powerup_lock_enabled]

\* parts_count = 0 is refused with -EINVAL.
ConversionRefused(recipe) == recipe.parts_count = 0

\* BUG_ON(list_empty(&recipe->partitions)), reached once the count is not 0.
ConversionBug(recipe) == recipe.parts_count # 0 /\ recipe.partitions = <<>>

Converted(recipe) ==
  [i \in 1..recipe.parts_count |->
     IF i \in DOMAIN recipe.partitions
     THEN AsMtdPartition(recipe.partitions[i])
     ELSE ZeroedPartition]

-----------------------------------------------------------------------------
(* copy_recipe_parts_list_to_user: the first parts_count parts, in order.  *)

AsListed(part) ==
  [offset |-> part.offset,
   length |-> part.length,
   readonly |-> ~part.writable,
   powerup_lock_enabled |-> part.powerup_lock_enabled]

Listed(recipe, count) ==
  LET read == IF count < Len(recipe.partitions) THEN count ELSE Len(recipe.partitions)
  IN  [i \in 1..read |-> AsListed(recipe.partitions[i])]
=============================================================================
