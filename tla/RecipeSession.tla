--------------------------- MODULE RecipeSession ---------------------------
(***************************************************************************)
(* The control device as its clients see it: open, release and the ioctls  *)
(* that touch only the recipe. Each ioctl runs between mutex_lock and      *)
(* mutex_unlock of recipe->lock, so it is one action; open is two, the     *)
(* compare-and-swap of already_open and then restart_recipe.               *)
(*                                                                         *)
(* A client is a process; the kernel calls release when the last reference *)
(* to its open file goes, also when the process dies, and never while an   *)
(* ioctl on that file is still running.                                    *)
(***************************************************************************)
EXTENDS Recipe

CONSTANTS
  Client,     \* the processes that open the control device
  Nobody,     \* stands for no client
  Requests,   \* the requests a client may send
  MaxParts,   \* bound on the parts of a recipe
  MaxCount    \* bound on parts_count

ASSUME SessionAssumption ==
  /\ Requests \subseteq Request
  /\ Nobody \notin Client
  /\ MaxParts \in Nat
  /\ MaxCount \in Nat

VARIABLES
  already_open,   \* mtdpartctl_device.already_open
  fd,             \* per client: where its open call stands
  recipe,         \* mtdpartctl_device.recipe
  array,          \* the partitions a create has converted and not yet freed
  bug             \* a BUG_ON stopped the thread that holds recipe->lock

vars == <<already_open, fd, recipe, array, bug>>

Init ==
  /\ already_open = 0
  /\ fd = [c \in Client |-> "closed"]
  /\ recipe = EmptyRecipe
  /\ array = <<>>
  /\ bug = FALSE

-----------------------------------------------------------------------------
\* recipe->lock is free: no create is at work on its array, and none died.
RecipeUnlocked == array = <<>> /\ ~bug

\* Client c has the device open, and a call of its gets recipe->lock.
Calling(c) == fd[c] = "open" /\ RecipeUnlocked

\* Variant: already_open is set without having been compared.
OpenUnclaimed(c) ==
  /\ fd[c] = "closed"
  /\ already_open' = 1
  /\ fd' = [fd EXCEPT ![c] = "opening"]
  /\ UNCHANGED <<recipe, array, bug>>

\* mtdpartctl_chrdev_open, first part: atomic_cmpxchg; the loser gets -EBUSY.
OpenClaim(c) ==
  /\ fd[c] = "closed"
  /\ already_open = 0
  /\ already_open' = 1
  /\ fd' = [fd EXCEPT ![c] = "opening"]
  /\ UNCHANGED <<recipe, array, bug>>

\* Variant: open leaves the recipe of the last client.
OpenWithoutRestart(c) ==
  /\ fd[c] = "opening"
  /\ fd' = [fd EXCEPT ![c] = "open"]
  /\ UNCHANGED <<already_open, recipe, array, bug>>

\* mtdpartctl_chrdev_open, second part: "Start with a clean recipe".
OpenRestart(c) ==
  /\ fd[c] = "opening"
  /\ RecipeUnlocked
  /\ recipe' = EmptyRecipe
  /\ fd' = [fd EXCEPT ![c] = "open"]
  /\ UNCHANGED <<already_open, array, bug>>

\* mtdpartctl_chrdev_release; a process that a BUG_ON killed releases as well.
Release(c) ==
  /\ fd[c] = "open"
  /\ array = <<>>
  /\ already_open' = 0
  /\ fd' = [fd EXCEPT ![c] = "closed"]
  /\ UNCHANGED <<recipe, array, bug>>

\* MTDPARTCTL_IOC_RECIPE_ADD_PART; a refused request changes nothing.
AddRecipePart(c, req) ==
  /\ Calling(c)
  /\ Len(recipe.partitions) < MaxParts
  /\ recipe.parts_count < MaxCount
  /\ PartAccepted(recipe, req)
  /\ recipe' = PartAdded(recipe, req)
  /\ UNCHANGED <<already_open, fd, array, bug>>

\* Variant: the part is counted off before it is looked for.
DelCountsFirst(c, index) ==
  /\ Calling(c)
  /\ recipe' = [partitions  |-> IF PartExists(recipe, index)
                               THEN RemoveAt(recipe.partitions, index + 1)
                               ELSE recipe.partitions,
                parts_count |-> recipe.parts_count - 1]
  /\ UNCHANGED <<already_open, fd, array, bug>>

\* MTDPARTCTL_IOC_RECIPE_DEL_PART
DelRecipePart(c, index) ==
  /\ Calling(c)
  /\ PartExists(recipe, index)
  /\ recipe' = PartDeleted(recipe, index)
  /\ UNCHANGED <<already_open, fd, array, bug>>

\* Variant: the counter is reset and the list is not emptied.
RestartCountOnly(c) ==
  /\ Calling(c)
  /\ recipe' = [recipe EXCEPT !.parts_count = 0]
  /\ UNCHANGED <<already_open, fd, array, bug>>

\* MTDPARTCTL_IOC_RESTART_RECIPE
RestartRecipe(c) ==
  /\ Calling(c)
  /\ recipe' = EmptyRecipe
  /\ UNCHANGED <<already_open, fd, array, bug>>

\* MTDPARTCTL_IOC_RECIPE_CREATE_PARTITIONS up to the call of
\* respawn_proxy_mtd_locked: recipe->lock stays taken, the recipe as it is.
CreatePartitions(c) ==
  /\ Calling(c)
  /\ ~ConversionRefused(recipe)
  /\ IF ConversionBug(recipe)
     THEN bug' = TRUE /\ UNCHANGED array
     ELSE array' = Converted(recipe) /\ UNCHANGED bug
  /\ UNCHANGED <<already_open, fd, recipe>>

\* The respawn has come back, with whatever result: kvfree and unlock.
CreateDone ==
  /\ array # <<>>
  /\ array' = <<>>
  /\ UNCHANGED <<already_open, fd, recipe, bug>>

Next ==
  \/ CreateDone
  \/ \E c \in Client :
       \/ OpenClaim(c)
       \/ OpenRestart(c)
       \/ Release(c)
       \/ \E req \in Requests : AddRecipePart(c, req)
       \/ \E index \in 0..MaxParts : DelRecipePart(c, index)
       \/ RestartRecipe(c)
       \/ CreatePartitions(c)

Spec == Init /\ [][Next]_vars

-----------------------------------------------------------------------------
(* Properties                                                              *)

\* The variables hold what struct mtdpartctl_device declares for them.
TypeOK ==
  /\ already_open \in {0, 1}
  /\ fd \in [Client -> {"closed", "opening", "open"}]
  /\ recipe \in [partitions : Seq(RecipePart), parts_count : Nat]
  /\ array \in Seq(MtdPartition)
  /\ bug \in BOOLEAN

\* already_open keeps out a second client ("Don't allow opening more than
\* once"): no two clients are past the compare-and-swap, and the flag is
\* clear exactly when no client is.
OneClient ==
  /\ \A c, d \in Client : fd[c] # "closed" /\ fd[d] # "closed" => c = d
  /\ already_open = 0 <=> \A c \in Client : fd[c] = "closed"

\* No byte of the device is in two parts of a recipe, whatever was added and
\* deleted before (verify_partition_params_locked).
PartsDisjoint ==
  \A i, j \in DOMAIN recipe.partitions :
    i # j => Bytes(recipe.partitions[i].offset, recipe.partitions[i].length)
               \intersect
             Bytes(recipe.partitions[j].offset, recipe.partitions[j].length) = {}

\* Every part covers whole erase blocks of the device, even for requests
\* whose end wraps in u64 (verify_partition_basic_conditions). This is also
\* what keeps the BUG_ON of existing_partition_contains_range unreachable.
PartsFit ==
  \A i \in DOMAIN recipe.partitions :
    RangeFits(recipe.partitions[i].offset, recipe.partitions[i].length)

\* The array that convert_recipe_to_mtd_partitions_locked allocates from
\* parts_count has room for every part of the list it then walks.
CountCoversList == Len(recipe.partitions) <= recipe.parts_count

\* The list and the flags that MTDPARTCTL_IOC_LIST_RECIPE_PARTS reports are
\* the requests that were accepted: the recipe implements RecipePlan.
Owner ==
  IF \E c \in Client : fd[c] = "open"
  THEN CHOOSE c \in Client : fd[c] = "open"
  ELSE Nobody

Plan == INSTANCE RecipePlan WITH
          owner <- Owner,
          plan  <- Listed(recipe, Len(recipe.partitions))

ImplementsPlan == Plan!Spec

\* A create hands the MTD core the plan as it was listed, with readonly as a
\* mask of MTD_WRITEABLE and powerup_lock as an added MTD_POWERUP_LOCK
\* (chrdev_ioctl.h), in the order of the list. What the array has beyond the
\* plan, because a deletion does not lower parts_count, has no name: the MTD
\* core refuses it, so no create ever makes a partition nobody asked for.
CreateHandsOverPlan ==
  [][array = <<>> /\ array' # <<>> =>
       LET shown == Listed(recipe, Len(recipe.partitions))
       IN  /\ \A i \in DOMAIN shown :
                array'[i] = [named |-> TRUE,
                             offset |-> shown[i].offset,
                             size |-> shown[i].length,
                             mask_writeable |-> shown[i].readonly,
                             add_powerup_lock |-> shown[i].powerup_lock_enabled]
           /\ \A i \in DOMAIN array' \ DOMAIN shown : ~array'[i].named]_vars

\* The assertion at ctrl_dev.c:247: a recipe whose counter is not 0 is not
\* empty when it is converted.
NoEmptyConversion == ~bug
=============================================================================
