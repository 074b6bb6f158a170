----------------------------- MODULE ProxyDevice -----------------------------
(***************************************************************************)
(* One control device and the proxy MTD behind it, with the threads that   *)
(* call into both: control threads run ioctls on the one open file they    *)
(* share, users get and put the proxy MTD or one of its partitions through *)
(* the MTD core. Four mutexes order them: recipe->lock and proxy.lock of   *)
(* this module, partitions_lock of the proxy MTD and mtd_table_mutex of    *)
(* the MTD core.                                                           *)
(*                                                                         *)
(* A thread's pc is the point of the code it is about to run, and Held     *)
(* names the mutexes it holds there. A step that begins to hold a mutex    *)
(* waits until no thread holds it. The parts that belong to the MTD core   *)
(* (drivers/mtd/mtdcore.c, mtdpart.c) are what this module relies on: who   *)
(* holds what when the hooks of the proxy MTD are called, and when a       *)
(* partition enters and leaves the list and the table.                     *)
(***************************************************************************)
EXTENDS Recipe

CONSTANTS
  Ctl,          \* threads that share the open control device
  User,         \* threads that use the proxy MTD
  Commands,     \* the ioctls the control threads call
  Requests,     \* the requests they add to the recipe
  Immediates,   \* the ranges they add at once
  Index,        \* the indexes mtd_table_mutex's table has to give
  MayFail,      \* whether an allocation, a registration or an unregistration may fail
  MaxParts,     \* bound on the parts of the recipe
  MaxCount,     \* bound on parts_count
  MaxChildren   \* bound on the partitions of the proxy MTD

Command ==
  {"get_info", "add", "del", "recipe_add", "recipe_del", "create", "delete",
   "restart", "list_recipe", "list_parts"}

ASSUME ProxyAssumption ==
  /\ Ctl \intersect User = {}
  /\ Commands \subseteq Command
  /\ Requests \subseteq Request
  /\ Immediates \subseteq [offset : U64, length : U64]
  /\ Index \subseteq Nat /\ Index # {}
  /\ MayFail \in BOOLEAN
  /\ MaxParts \in Nat /\ MaxCount \in Nat /\ MaxChildren \in Nat

VARIABLES
  pc,                 \* per thread: the point of the code it is at
  about_to_respawn,   \* proxy.about_to_respawn
  use_refcnt,         \* proxy.use_refcnt
  registered,         \* the proxy MTD is in the MTD table
  index,              \* proxy.mtd->index, kept after it leaves the table
  children,           \* proxy.mtd->partitions
  recipe,             \* mtdpartctl_device.recipe
  array,              \* the partitions given to respawn_proxy_mtd_locked
  ret,                \* ret of respawn_proxy_mtd_locked, "ok" outside it
  target              \* the index DEL_MTD_PARTITION works on, 0 outside it

proxyVars == <<about_to_respawn, use_refcnt>>
mtdVars == <<registered, index, children>>
recipeVars == <<recipe, array>>
callVars == <<ret, target>>
vars == <<pc, proxyVars, mtdVars, recipeVars, callVars>>

Thread == Ctl \union User

\* A partition that is linked but has not entered the table has no index.
NoIndex == -1
Child == [index : Index \union {NoIndex}, offset : U64, size : U64]

-----------------------------------------------------------------------------
(* Mutexes                                                                 *)

Lock == {"recipe", "proxy", "partitions", "table"}

\* The points at which a thread is in respawn_proxy_mtd_locked.
Respawning ==
  {"respawn", "check", "unregister", "unregister_child", "unregister_master",
   "register_master", "register_parts", "register_child", "unlink_child", "end"}

\* Variant: proxy.lock is kept over the whole respawn.
HeldWithProxyKept(point) ==
  CASE point = "unregister_child" -> {"recipe", "proxy", "partitions"}
    [] point \in Respawning \ {"respawn", "unregister_child"} -> {"recipe", "proxy"}
    [] point \in {"respawn", "died"} -> {"recipe"}
    [] point \in {"read_info", "copy_parts"} -> {"proxy"}
    [] point \in {"get_hook", "put_hook"} -> {"table"}
    [] OTHER -> {}

Held(point) ==
  CASE point \in {"unregister_child"} -> {"recipe", "partitions"}
    [] point \in (Respawning \ {"unregister_child"}) \union {"died"} -> {"recipe"}
    [] point \in {"read_info", "copy_recipe", "copy_parts", "add_link",
                  "add_register", "add_unlink", "resolve", "del_find"} -> {"proxy"}
    [] point = "del_remove" -> {"proxy", "partitions"}
    [] point \in {"get_hook", "put_hook"} -> {"table"}
    [] OTHER -> {}

Free(lock) == \A t \in Thread : lock \notin Held(pc[t])

\* Thread t runs on from one point to another.
Step(t, from, to) ==
  /\ pc[t] = from
  /\ \A lock \in Held(to) \ Held(from) : Free(lock)
  /\ pc' = [pc EXCEPT ![t] = to]

Return(t, from) == Step(t, from, "idle")

Init ==
  /\ pc = [t \in Thread |-> "idle"]
  /\ about_to_respawn = FALSE
  /\ use_refcnt = 0
  /\ registered = TRUE
  /\ index \in Index
  /\ \A i \in Index : index <= i
  /\ children = <<>>
  /\ recipe = EmptyRecipe
  /\ array = <<>>
  /\ ret = "ok"
  /\ target = 0

-----------------------------------------------------------------------------
(* The MTD core's table                                                    *)

UsedIndexes ==
  (IF registered THEN {index} ELSE {}) \union
  {children[i].index : i \in DOMAIN children}

\* add_mtd_device, under mtd_table_mutex: idr_alloc gives the lowest index.
LowestFree(i) ==
  /\ i \in Index \ UsedIndexes
  /\ \A j \in Index \ UsedIndexes : i <= j

\* It fails for want of memory or of an index, or below a parent that is gone.
AddMayFail == MayFail \/ Index \subseteq UsedIndexes \/ ~registered

LinkChild(offset, size) ==
  children' = Append(children, [index |-> NoIndex, offset |-> offset, size |-> size])

IndexLastChild(i) == children' = [children EXCEPT ![Len(children)].index = i]

-----------------------------------------------------------------------------
(* mtdpartctl_chrdev_ioctl                                                 *)

Call(t, command) ==
  /\ Step(t, "idle", command)
  /\ UNCHANGED <<proxyVars, mtdVars, recipeVars, callVars>>

InUse == about_to_respawn \/ use_refcnt # 0

\* The commands that answer -EBUSY under proxy.lock.
Busy(t) ==
  /\ Free("proxy")
  /\ \/ InUse /\ \E command \in {"add", "del"} : Return(t, command)
     \/ about_to_respawn /\ \E command \in {"list_recipe", "list_parts"} : Return(t, command)
  /\ UNCHANGED <<proxyVars, mtdVars, recipeVars, callVars>>

\* MTDPARTCTL_IOC_GET_INFO: at read_info it reads proxy.mtd->index.
GetInfo(t) ==
  /\ Step(t, "get_info", "read_info") \/ Return(t, "read_info")
  /\ UNCHANGED <<proxyVars, mtdVars, recipeVars, callVars>>

\* MTDPARTCTL_IOC_ADD_MTD_PARTITION: ranges are judged before proxy.lock.
AddRefuse(t) ==
  /\ \E r \in Immediates : ~ImmediateAccepted(r.offset, r.length)
  /\ Return(t, "add")
  /\ UNCHANGED <<proxyVars, mtdVars, recipeVars, callVars>>

\* Variant: only the users are asked for, not the respawn.
AddEnterDuringRespawn(t) ==
  /\ use_refcnt = 0
  /\ Step(t, "add", "add_link")
  /\ UNCHANGED <<proxyVars, mtdVars, recipeVars, callVars>>

AddEnter(t) ==
  /\ ~InUse
  /\ Step(t, "add", "add_link")
  /\ UNCHANGED <<proxyVars, mtdVars, recipeVars, callVars>>

\* mtd_add_partition: the list under partitions_lock, then the table. At the
\* bound, and wherever MayFail allows it, there is no memory for the partition.
AddLink(t) ==
  /\ \/ /\ Step(t, "add_link", "add_register")
        /\ Free("partitions")
        /\ Len(children) < MaxChildren
        /\ \E r \in Immediates :
             /\ ImmediateAccepted(r.offset, r.length)
             /\ LinkChild(r.offset, AdaptedLength(r.offset, r.length))
     \/ /\ Return(t, "add_link")
        /\ MayFail \/ Len(children) >= MaxChildren
        /\ UNCHANGED children
  /\ UNCHANGED <<proxyVars, registered, index, recipeVars, callVars>>

AddRegister(t) ==
  /\ Free("table")
  /\ \/ /\ Return(t, "add_register")
        /\ \E i \in Index : LowestFree(i) /\ IndexLastChild(i)
     \/ /\ Step(t, "add_register", "add_unlink")
        /\ AddMayFail
        /\ UNCHANGED children
  /\ UNCHANGED <<proxyVars, registered, index, recipeVars, callVars>>

AddUnlink(t) ==
  /\ Return(t, "add_unlink")
  /\ Free("partitions")
  /\ children' = Front(children)
  /\ UNCHANGED <<proxyVars, registered, index, recipeVars, callVars>>

\* Variant: only the users are asked for, not the respawn.
DelEnterDuringRespawn(t, idx) ==
  /\ use_refcnt = 0
  /\ Step(t, "del", "resolve")
  /\ target' = idx
  /\ UNCHANGED <<proxyVars, mtdVars, recipeVars, ret>>

\* MTDPARTCTL_IOC_DEL_MTD_PARTITION
DelEnter(t, idx) ==
  /\ ~InUse
  /\ Step(t, "del", "resolve")
  /\ target' = idx
  /\ UNCHANGED <<proxyVars, mtdVars, recipeVars, ret>>

\* Variant: the loop goes on to the last child.
ResolveLast(t) ==
  /\ Free("partitions")
  /\ IF target = 0 /\ children # <<>>
     THEN Step(t, "resolve", "del_find") /\ target' = Last(children).index
     ELSE Return(t, "resolve") /\ target' = 0
  /\ UNCHANGED <<proxyVars, mtdVars, recipeVars, ret>>

\* mtd_relative_master_index_to_absolute_index: tmp_idx stays 0, so the loop
\* stops at the first child or finds none, which is -EINVAL.
Resolve(t) ==
  /\ Free("partitions")
  /\ IF target = 0 /\ children # <<>>
     THEN Step(t, "resolve", "del_find") /\ target' = Head(children).index
     ELSE Return(t, "resolve") /\ target' = 0
  /\ UNCHANGED <<proxyVars, mtdVars, recipeVars, ret>>

\* mtd_del_partition: the list and the table under partitions_lock. A target
\* that is not in the list any more is -EINVAL.
DelFind(t) ==
  /\ Free("partitions")
  /\ IF \E i \in DOMAIN children : children[i].index = target
     THEN Step(t, "del_find", "del_remove") /\ UNCHANGED target
     ELSE Return(t, "del_find") /\ target' = 0
  /\ UNCHANGED <<proxyVars, mtdVars, recipeVars, ret>>

DelRemove(t) ==
  /\ Free("table")
  /\ Return(t, "del_remove")
  /\ \E i \in DOMAIN children :
       children[i].index = target /\ children' = RemoveAt(children, i)
  /\ target' = 0
  /\ UNCHANGED <<proxyVars, registered, index, recipeVars, ret>>

\* MTDPARTCTL_IOC_RECIPE_ADD_PART: at the bounds there is no memory left.
RecipeFull == Len(recipe.partitions) >= MaxParts \/ recipe.parts_count >= MaxCount

RecipeAdd(t, req) ==
  /\ Return(t, "recipe_add")
  /\ \/ ~BasicConditionsHold(req.offset, req.length) /\ UNCHANGED recipe
     \/ /\ Free("recipe")
        /\ BasicConditionsHold(req.offset, req.length)
        /\ recipe' = IF OverlapsRecipe(recipe, req) \/ RecipeFull
                     THEN recipe
                     ELSE PartAdded(recipe, req)
  /\ UNCHANGED <<proxyVars, mtdVars, array, callVars>>

\* MTDPARTCTL_IOC_RECIPE_DEL_PART
RecipeDel(t, idx) ==
  /\ Return(t, "recipe_del")
  /\ Free("recipe")
  /\ recipe' = IF PartExists(recipe, idx) THEN PartDeleted(recipe, idx) ELSE recipe
  /\ UNCHANGED <<proxyVars, mtdVars, array, callVars>>

\* MTDPARTCTL_IOC_RESTART_RECIPE
Restart(t) ==
  /\ Return(t, "restart")
  /\ Free("recipe")
  /\ recipe' = EmptyRecipe
  /\ UNCHANGED <<proxyVars, mtdVars, array, callVars>>

\* MTDPARTCTL_IOC_LIST_RECIPE_PARTS: recipe->lock inside proxy.lock.
ListRecipe(t) ==
  /\ \/ ~about_to_respawn /\ Step(t, "list_recipe", "copy_recipe")
     \/ Free("recipe") /\ Return(t, "copy_recipe")
  /\ UNCHANGED <<proxyVars, mtdVars, recipeVars, callVars>>

\* Variant: the partitions are listed whether or not a respawn is at work.
ListPartsDuringRespawn(t) ==
  /\ \/ Step(t, "list_parts", "copy_parts")
     \/ Free("partitions") /\ Return(t, "copy_parts")
  /\ UNCHANGED <<proxyVars, mtdVars, recipeVars, callVars>>

\* MTDPARTCTL_IOC_GET_PARTITION_LIST: partitions_lock inside proxy.lock.
ListParts(t) ==
  /\ \/ ~about_to_respawn /\ Step(t, "list_parts", "copy_parts")
     \/ Free("partitions") /\ Return(t, "copy_parts")
  /\ UNCHANGED <<proxyVars, mtdVars, recipeVars, callVars>>

-----------------------------------------------------------------------------
(* respawn_proxy_mtd_locked and its two callers                            *)

\* MTDPARTCTL_IOC_RECIPE_CREATE_PARTITIONS
CreateRefuse(t) ==
  /\ Return(t, "create")
  /\ Free("recipe")
  /\ ConversionRefused(recipe) \/ (MayFail /\ ~ConversionBug(recipe))
  /\ UNCHANGED <<proxyVars, mtdVars, recipeVars, callVars>>

CreateDie(t) ==
  /\ ConversionBug(recipe)
  /\ Step(t, "create", "died")
  /\ UNCHANGED <<proxyVars, mtdVars, recipeVars, callVars>>

CreateEnter(t) ==
  /\ ~ConversionRefused(recipe)
  /\ ~ConversionBug(recipe)
  /\ Step(t, "create", "respawn")
  /\ array' = Converted(recipe)
  /\ UNCHANGED <<proxyVars, mtdVars, recipe, callVars>>

\* MTDPARTCTL_IOC_DELETE_MTD_PARTITIONS: a respawn with no partitions.
DeleteEnter(t) ==
  /\ Step(t, "delete", "respawn")
  /\ array' = <<>>
  /\ UNCHANGED <<proxyVars, mtdVars, recipe, callVars>>

\* Variant: the users are not kept out.
RespawnBeginSilently(t) ==
  /\ Step(t, "respawn", "check")
  /\ Free("proxy")
  /\ UNCHANGED <<proxyVars, mtdVars, recipeVars, callVars>>

RespawnBegin(t) ==
  /\ Step(t, "respawn", "check")
  /\ Free("proxy")
  /\ about_to_respawn' = TRUE
  /\ UNCHANGED <<use_refcnt, mtdVars, recipeVars, callVars>>

\* Variant: the users there are already are not asked for.
RespawnCheckNobody(t) ==
  /\ Step(t, "check", "unregister")
  /\ UNCHANGED <<proxyVars, mtdVars, recipeVars, callVars>>

\* Variant: -EBUSY returns past the cleanup.
RespawnCheckReturns(t) ==
  /\ IF use_refcnt = 0
     THEN Step(t, "check", "unregister")
     ELSE Return(t, "check")
  /\ UNCHANGED <<proxyVars, mtdVars, recipeVars, callVars>>

\* Variant: the respawn waits for the users to leave.
RespawnCheckWaits(t) ==
  /\ use_refcnt = 0
  /\ Step(t, "check", "unregister")
  /\ UNCHANGED <<proxyVars, mtdVars, recipeVars, callVars>>

\* use_refcnt is read without proxy.lock.
RespawnCheck(t) ==
  /\ IF use_refcnt = 0
     THEN Step(t, "check", "unregister") /\ UNCHANGED ret
     ELSE Step(t, "check", "end") /\ ret' = "busy"
  /\ UNCHANGED <<proxyVars, mtdVars, recipeVars, target>>

\* mtd_device_unregister fails for the MTD core's own reasons: ctrl_dev.c:297
\* then leaves the proxy MTD as the core has left it. What undoes a registration
\* that failed (ret is "failed" then) is taken to succeed.
UnregistrationMayFail == MayFail /\ ret = "ok"

\* mtd_device_unregister: partitions_lock from here to the last child.
Unregister(t) ==
  /\ Step(t, "unregister", "unregister_child")
  /\ UNCHANGED <<proxyVars, mtdVars, recipeVars, callVars>>

\* Variant: the result of the unregistration is not looked at.
UnregisterChildUnchecked(t) ==
  /\ children # <<>> => Free("table")
  /\ \/ /\ Step(t, "unregister_child", "unregister_child")
        /\ \E i \in DOMAIN children :
             /\ i = 1 \/ UnregistrationMayFail
             /\ children' = RemoveAt(children, i)
     \/ /\ Step(t, "unregister_child", "register_master")
        /\ children # <<>>
        /\ UnregistrationMayFail
        /\ UNCHANGED children
     \/ /\ Step(t, "unregister_child", "unregister_master")
        /\ children = <<>>
        /\ UNCHANGED children
  /\ UNCHANGED <<proxyVars, registered, index, recipeVars, callVars>>

\* It goes through the list and passes over the partitions that do not leave the
\* table. These are still there when it fails, and so is the proxy MTD.
UnregisterChild(t) ==
  /\ children # <<>> => Free("table")
  /\ \/ /\ Step(t, "unregister_child", "unregister_child")
        /\ \E i \in DOMAIN children :
             /\ i = 1 \/ UnregistrationMayFail
             /\ children' = RemoveAt(children, i)
        /\ UNCHANGED ret
     \/ /\ Step(t, "unregister_child", "end")
        /\ children # <<>>
        /\ UnregistrationMayFail
        /\ ret' = "stuck"
        /\ UNCHANGED children
     \/ /\ Step(t, "unregister_child", "unregister_master")
        /\ children = <<>>
        /\ UNCHANGED <<children, ret>>
  /\ UNCHANGED <<proxyVars, registered, index, recipeVars, target>>

\* After a failed registration the same steps undo what was registered.
UnregisterMaster(t) ==
  /\ registered => Free("table")
  /\ \/ /\ Step(t, "unregister_master", IF ret = "ok" THEN "register_master" ELSE "end")
        /\ registered' = FALSE
        /\ UNCHANGED ret
     \/ /\ Step(t, "unregister_master", "end")
        /\ UnregistrationMayFail
        /\ ret' = "stuck"
        /\ UNCHANGED registered
  /\ UNCHANGED <<proxyVars, index, children, recipeVars, target>>

\* mtd_device_parse_register: the master enters the table, then each part.
RegisterMaster(t) ==
  /\ Free("table")
  /\ \/ /\ Step(t, "register_master", "register_parts")
        /\ index' \in Index /\ LowestFree(index')
        /\ registered' = TRUE
        /\ UNCHANGED ret
     \/ /\ Step(t, "register_master", "end")
        /\ MayFail
        /\ ret' = "failed"
        /\ UNCHANGED <<index, registered>>
  /\ UNCHANGED <<proxyVars, children, recipeVars, target>>

\* add_mtd_partitions; kstrdup of a null name gives no partition.
RegisterParts(t) ==
  /\ \/ /\ Len(children) = Len(array)
        /\ Step(t, "register_parts", "end")
        /\ UNCHANGED <<children, ret>>
     \/ /\ Len(children) < Len(array)
        /\ array[Len(children) + 1].named
        /\ Free("partitions")
        /\ LinkChild(array[Len(children) + 1].offset, array[Len(children) + 1].size)
        /\ Step(t, "register_parts", "register_child")
        /\ UNCHANGED ret
     \/ /\ Len(children) < Len(array)
        /\ ~array[Len(children) + 1].named \/ MayFail
        /\ Step(t, "register_parts", "unregister")
        /\ ret' = "failed"
        /\ UNCHANGED children
  /\ UNCHANGED <<proxyVars, registered, index, recipeVars, target>>

RegisterChild(t) ==
  /\ Free("table")
  /\ \/ /\ Step(t, "register_child", "register_parts")
        /\ \E i \in Index : LowestFree(i) /\ IndexLastChild(i)
        /\ UNCHANGED ret
     \/ /\ Step(t, "register_child", "unlink_child")
        /\ AddMayFail
        /\ ret' = "failed"
        /\ UNCHANGED children
  /\ UNCHANGED <<proxyVars, registered, index, recipeVars, target>>

UnlinkChild(t) ==
  /\ Step(t, "unlink_child", "unregister")
  /\ Free("partitions")
  /\ children' = Front(children)
  /\ UNCHANGED <<proxyVars, registered, index, recipeVars, callVars>>

\* The cleanup label, kvfree of the array and the unlock of recipe->lock.
RespawnEnd(t) ==
  /\ Return(t, "end")
  /\ Free("proxy")
  /\ about_to_respawn' = FALSE
  /\ array' = <<>>
  /\ ret' = "ok"
  /\ UNCHANGED <<use_refcnt, mtdVars, recipe, target>>

-----------------------------------------------------------------------------
(* get_mtd_device and put_mtd_device on the proxy MTD or a partition of it  *)
(* hold mtd_table_mutex around the proxy MTD's hooks.                      *)

Get(u) ==
  /\ UsedIndexes \ {NoIndex} # {}
  /\ Step(u, "idle", "get_hook")
  /\ UNCHANGED <<proxyVars, mtdVars, recipeVars, callVars>>

\* Variant: the user is counted before the respawn is asked for.
GetHookCountsFirst(u) ==
  /\ Free("proxy")
  /\ IF about_to_respawn
     THEN Return(u, "get_hook")
     ELSE Step(u, "get_hook", "using")
  /\ use_refcnt' = use_refcnt + 1
  /\ UNCHANGED <<about_to_respawn, mtdVars, recipeVars, callVars>>

\* Variant: the user is not counted.
GetHookUncounted(u) ==
  /\ Free("proxy")
  /\ IF about_to_respawn
     THEN Return(u, "get_hook")
     ELSE Step(u, "get_hook", "using")
  /\ UNCHANGED <<proxyVars, mtdVars, recipeVars, callVars>>

\* proxy_mtd_get_device
GetHook(u) ==
  /\ Free("proxy")
  /\ IF about_to_respawn
     THEN Return(u, "get_hook") /\ UNCHANGED use_refcnt
     ELSE Step(u, "get_hook", "using") /\ use_refcnt' = use_refcnt + 1
  /\ UNCHANGED <<about_to_respawn, mtdVars, recipeVars, callVars>>

Put(u) ==
  /\ Step(u, "using", "put_hook")
  /\ UNCHANGED <<proxyVars, mtdVars, recipeVars, callVars>>

\* proxy_mtd_put_device: its BUG_ON fires when this makes use_refcnt negative.
PutHook(u) ==
  /\ Free("proxy")
  /\ Return(u, "put_hook")
  /\ use_refcnt' = use_refcnt - 1
  /\ UNCHANGED <<about_to_respawn, mtdVars, recipeVars, callVars>>

-----------------------------------------------------------------------------
CtlStep(t) ==
  \/ Busy(t) \/ GetInfo(t)
  \/ AddRefuse(t) \/ AddEnter(t) \/ AddLink(t) \/ AddRegister(t) \/ AddUnlink(t)
  \/ \E idx \in 0..MaxChildren : DelEnter(t, idx)
  \/ Resolve(t) \/ DelFind(t) \/ DelRemove(t)
  \/ \E req \in Requests : RecipeAdd(t, req)
  \/ \E idx \in 0..MaxParts : RecipeDel(t, idx)
  \/ Restart(t) \/ ListRecipe(t) \/ ListParts(t)
  \/ CreateRefuse(t) \/ CreateDie(t) \/ CreateEnter(t) \/ DeleteEnter(t)
  \/ RespawnBegin(t) \/ RespawnCheck(t)
  \/ Unregister(t) \/ UnregisterChild(t) \/ UnregisterMaster(t)
  \/ RegisterMaster(t) \/ RegisterParts(t) \/ RegisterChild(t) \/ UnlinkChild(t)
  \/ RespawnEnd(t)

HookStep(u) == GetHook(u) \/ PutHook(u)

Next ==
  \/ \E t \in Ctl : CtlStep(t) \/ \E command \in Commands : Call(t, command)
  \/ \E u \in User : HookStep(u) \/ Get(u) \/ Put(u)

Spec == Init /\ [][Next]_vars

\* A kernel mutex is handed to a thread that waits for it, so no thread is
\* kept out of one for ever. When to call, get and put is the callers' choice.
Fairness ==
  /\ \A t \in Ctl : SF_vars(CtlStep(t))
  /\ \A u \in User : SF_vars(HookStep(u))

FairSpec == Spec /\ Fairness

-----------------------------------------------------------------------------
(* Properties                                                              *)

CtlPoint ==
  Command \union Respawning \union
  {"idle", "died", "read_info", "copy_recipe", "copy_parts", "add_link",
   "add_register", "add_unlink", "resolve", "del_find", "del_remove"}

UserPoint == {"idle", "get_hook", "using", "put_hook"}

Outcome == {"ok", "busy", "failed", "stuck"}

\* The variables hold what the structs declare for them. That use_refcnt is
\* a natural number is the BUG_ON of proxy_mtd_put_device (proxy_mtd_dev.c:31)
\* and of respawn_proxy_mtd_locked (ctrl_dev.c:287).
TypeOK ==
  /\ pc \in [Thread -> CtlPoint \union UserPoint]
  /\ \A t \in Ctl : pc[t] \in CtlPoint
  /\ \A u \in User : pc[u] \in UserPoint
  /\ about_to_respawn \in BOOLEAN
  /\ use_refcnt \in Nat
  /\ registered \in BOOLEAN
  /\ index \in Index
  /\ children \in Seq(Child)
  /\ recipe \in [partitions : Seq(RecipePart), parts_count : Nat]
  /\ array \in Seq(MtdPartition)
  /\ ret \in Outcome
  /\ target \in Index \union {NoIndex} \union Nat

\* A user holds the proxy MTD from the moment proxy_mtd_get_device counts it
\* until proxy_mtd_put_device takes it off the count.
Using(u) == pc[u] \in {"using", "put_hook"}

\* use_refcnt counts the users of the proxy MTD and of its partitions, so the
\* -EBUSY it decides is given exactly when somebody would lose a device.
RefcountCountsUsers == use_refcnt = Cardinality({u \in User : Using(u)})

\* The points at which a respawn takes the proxy MTD apart and rebuilds it.
Rebuilding == Respawning \ {"respawn", "check", "end"}

\* The lock-free read of use_refcnt at ctrl_dev.c:288 is good enough: once a
\* respawn has seen 0, no user holds the proxy MTD until it ends, although it
\* holds no lock that keeps a user out.
RespawnHasNoUsers ==
  (\E t \in Ctl : pc[t] \in Rebuilding) => about_to_respawn /\ \A u \in User : ~Using(u)

\* ADD_MTD and DEL_MTD change the partitions under proxy.lock alone, and a
\* respawn under recipe->lock alone: never are two of them at it at a time.
Changing == Rebuilding \union
  {"add_link", "add_register", "add_unlink", "resolve", "del_find", "del_remove"}

OneChanger == \A s, t \in Ctl : pc[s] \in Changing /\ pc[t] \in Changing => s = t

\* The listing of GET_PARTITION_LIST never shows a partition that is on its
\* way into the proxy MTD or out of it: what it copies is all in the table.
ListShowsTable ==
  \A t \in Ctl : pc[t] = "copy_parts" =>
    /\ \A i \in DOMAIN children : children[i].index # NoIndex
    /\ \A s \in Ctl : pc[s] \notin Changing

\* The race that the comment at ctrl_dev.c:572 admits between finding the
\* absolute index and mtd_del_partition never happens inside this module.
DeleteFindsTarget ==
  \A t \in Ctl : pc[t] \in {"del_find", "del_remove"} =>
    \E i \in DOMAIN children : children[i].index = target

\* A respawn ends with all of what was asked, the partitions of the array in its
\* order, or, if one of them cannot be registered, with a proxy MTD that is gone.
\* If the MTD core does not unregister what was there, the partitions that are
\* left are all in the table; AtomicOperations says which ones they are.
AllOrNothing ==
  \A t \in Ctl : pc[t] = "end" =>
    /\ ret = "ok" =>
         /\ registered
         /\ Len(children) = Len(array)
         /\ \A i \in DOMAIN children :
              /\ children[i].index \in Index
              /\ children[i].offset = array[i].offset
              /\ children[i].size = array[i].size
    /\ ret = "failed" => ~registered /\ children = <<>>
    /\ ret = "stuck" => \A i \in DOMAIN children : children[i].index \in Index

\* Whichever ioctl made it, every partition lies on whole erase blocks inside
\* the device (verify_partition_basic_conditions guards both ways in).
ChildrenFit ==
  \A i \in DOMAIN children : RangeFits(children[i].offset, children[i].size)

\* The set of devices a user can open never changes under a user: the steps
\* of this module implement ProxyContract.
Master == [index |-> index, offset |-> 0, size |-> MtdSize]

Devices ==
  (IF registered THEN {Master} ELSE {}) \union
  {children[i] : i \in {j \in DOMAIN children : children[j].index # NoIndex}}

FirstIndex == CHOOSE i \in Index : \A j \in Index : i <= j

Contract == INSTANCE ProxyContract WITH
  Device  <- [index : Index, offset : U64, size : U64],
  First   <- [index |-> FirstIndex, offset |-> 0, size |-> MtdSize],
  users   <- {u \in User : Using(u)},
  closed  <- about_to_respawn,
  devices <- Devices

ImplementsContract == Contract!Spec

\* The mutexes a thread may have to wait for to get on from its point.
Wants(t) ==
  CASE pc[t] \in {"get_info", "add", "del", "list_recipe", "list_parts",
                  "respawn", "end", "get_hook", "put_hook"} -> {"proxy"}
    [] pc[t] \in {"recipe_add", "recipe_del", "restart", "create", "delete",
                  "copy_recipe"} -> {"recipe"}
    [] pc[t] \in {"copy_parts", "add_link", "add_unlink", "resolve", "del_find",
                  "unregister", "register_parts", "unlink_child"} -> {"partitions"}
    [] \/ pc[t] \in {"add_register", "del_remove", "register_master", "register_child"}
       \/ pc[t] = "unregister_child" /\ children # <<>>
       \/ pc[t] = "unregister_master" /\ registered -> {"table"}
    [] OTHER -> {}

\* No threads wait for each other in a circle, nor one for itself. The order of
\* the mutexes alone does not give this: GET_PARTITION_LIST takes partitions_lock
\* inside proxy.lock, a respawn mtd_table_mutex inside partitions_lock, a user
\* proxy.lock inside mtd_table_mutex.
NoCircularWait ==
  \A S \in SUBSET Thread :
    (\A t \in S : \E s \in S : Wants(t) \intersect Held(pc[s]) # {}) => S = {}

\* Nothing but a mutex keeps a call from going on: none waits for users to
\* leave (-EBUSY, ctrl_dev.c:288) or for memory.
OnlyMutexesBlock ==
  /\ \A t \in Ctl :
       pc[t] \notin {"idle", "died"} /\ (\A lock \in Wants(t) : Free(lock)) => ENABLED CtlStep(t)
  /\ \A u \in User :
       pc[u] \in {"get_hook", "put_hook"} /\ (\A lock \in Wants(u) : Free(lock)) =>
         ENABLED HookStep(u)

\* Every ioctl comes back ("@return negative (errno) if ioctl call failed,
\* otherwise 0", dev.h:165), and so does every get and put.
CallsReturn ==
  /\ \A t \in Ctl : pc[t] # "idle" ~> pc[t] = "idle"
  /\ \A u \in User : pc[u] \in {"get_hook", "put_hook"} ~> pc[u] \in {"idle", "using"}

\* A respawn always opens the proxy MTD to users again, on every way out.
RespawnReopens == about_to_respawn ~> ~about_to_respawn

\* "We lock the proxy lock, so we have a coherent `proxy.mtd->index` number"
\* (ctrl_dev.c:510): the index GET_INFO reads is that of a registered MTD.
InfoIsCoherent == \A t \in Ctl : pc[t] = "read_info" => registered
=============================================================================
