------------------------- MODULE ProxyContractProofs -------------------------
(***************************************************************************)
(* The partitions of the proxy MTD: which of them are in the MTD table,    *)
(* what a delete finds, what a respawn leaves, and that users see no more  *)
(* of all this than ProxyContract allows. For any number of threads, and   *)
(* whatever allocation or registration fails.                              *)
(***************************************************************************)
EXTENDS ProxyDeviceProofs

-----------------------------------------------------------------------------
(* The inductive invariant                                                 *)

\* The one partition without an index is the last, linked by a thread that has
\* yet to register or to unlink it.
Indexed(list, linked) ==
  \A i \in DOMAIN list : list[i].index = NoIndex <=> (i = Len(list) /\ linked)

IndexInv == Indexed(children, \E t \in Ctl : pc[t] \in Linked)

\* A listing that saw no respawn keeps respawns from beginning.
ListInv == \A t \in Ctl : pc[t] = "copy_parts" => ~about_to_respawn

\* The partitions so far are the first ones of the array.
Built ==
  /\ Len(children) <= Len(array)
  /\ \A i \in DOMAIN children :
       children[i].offset = array[i].offset /\ children[i].size = array[i].size

\* What a respawn has done at each of its points, and how it has fared.
RespawnInv ==
  /\ ret # "ok" => \E t \in Ctl : pc[t] \in Respawning
  /\ \A t \in Ctl :
       /\ pc[t] \in Respawning /\ ret \in {"busy", "stuck"} => pc[t] = "end"
       /\ pc[t] \in {"respawn", "check", "register_master", "register_parts", "register_child"} =>
            ret = "ok"
       /\ pc[t] = "unlink_child" => ret = "failed"
       /\ pc[t] \in {"unregister_master", "register_master"} => children = <<>>
       /\ pc[t] = "register_master" => ~registered
       /\ pc[t] \in {"register_parts", "register_child"} => registered /\ Built
       /\ pc[t] = "end" /\ ret = "ok" =>
            registered /\ Built /\ Len(children) = Len(array)
       /\ pc[t] = "end" /\ ret = "failed" => ~registered /\ children = <<>>

PartitionsInv == IndexInv /\ ListInv /\ DeleteFindsTarget /\ RespawnInv

-----------------------------------------------------------------------------
(* Who may change what                                                     *)

\* A thread that is not changing the proxy MTD leaves it alone, one outside a
\* respawn leaves the respawn's fields alone, one outside an editing the target.
LEMMA CtlEffects ==
  ASSUME PointsTyped, NEW t \in Ctl, CtlStep(t) \/ \E command \in Commands : Call(t, command)
  PROVE  /\ pc[t] \notin Changing =>
              /\ UNCHANGED mtdVars
              /\ pc'[t] \notin Linked \union {"del_find", "del_remove"}
         /\ pc[t] \notin Respawning => UNCHANGED ret
         /\ pc[t] \notin Respawning /\ pc'[t] \notin Respawning => UNCHANGED array
         /\ pc[t] \notin Respawning /\ pc'[t] \in Respawning =>
              pc'[t] = "respawn" /\ Free("recipe")
         /\ pc[t] \notin Editing /\ pc'[t] \notin Editing => UNCHANGED target
         /\ pc[t] # "copy_parts" /\ pc'[t] = "copy_parts" => ~about_to_respawn
  <1> USE DEF PointsTyped, Thread, Step, Return, Changing, Rebuilding, Respawning, Editing, Linked,
              mtdVars, recipeVars, callVars
  <1>1. CASE \E command \in Commands : Call(t, command)
    BY <1>1, ProxyAssumption DEF Call, Command
  <1>2. CASE Busy(t) \/ GetInfo(t) \/ AddRefuse(t) \/ AddEnter(t)
    BY <1>2 DEF Busy, GetInfo, AddRefuse, AddEnter
  <1>3. CASE AddLink(t) \/ AddRegister(t) \/ AddUnlink(t)
    BY <1>3 DEF AddLink, AddRegister, AddUnlink
  <1>4. CASE \/ \E idx \in 0..MaxChildren : DelEnter(t, idx)
             \/ Resolve(t) \/ DelFind(t) \/ DelRemove(t)
    BY <1>4 DEF DelEnter, Resolve, DelFind, DelRemove
  <1>5. CASE \/ \E req \in Requests : RecipeAdd(t, req)
             \/ \E idx \in 0..MaxParts : RecipeDel(t, idx)
             \/ Restart(t)
    BY <1>5 DEF RecipeAdd, RecipeDel, Restart
  <1>6. CASE ListRecipe(t) \/ ListParts(t)
    BY <1>6 DEF ListRecipe, ListParts
  <1>7. CASE CreateRefuse(t) \/ CreateDie(t)
    BY <1>7 DEF CreateRefuse, CreateDie
  <1>8. CASE CreateEnter(t) \/ DeleteEnter(t)
    <2>1. Free("recipe") /\ pc[t] \in {"create", "delete"} /\ pc'[t] = "respawn"
      BY <1>8 DEF CreateEnter, DeleteEnter, Held
    <2> QED
      BY <1>8, <2>1 DEF CreateEnter, DeleteEnter
  <1>9. CASE RespawnBegin(t) \/ RespawnCheck(t)
    BY <1>9 DEF RespawnBegin, RespawnCheck
  <1>10. CASE Unregister(t) \/ UnregisterChild(t) \/ UnregisterMaster(t)
    BY <1>10 DEF Unregister, UnregisterChild, UnregisterMaster
  <1>11. CASE RegisterMaster(t) \/ RegisterParts(t)
    BY <1>11 DEF RegisterMaster, RegisterParts
  <1>12. CASE RegisterChild(t) \/ UnlinkChild(t) \/ RespawnEnd(t)
    BY <1>12 DEF RegisterChild, UnlinkChild, RespawnEnd
  <1> QED
    BY <1>1, <1>2, <1>3, <1>4, <1>5, <1>6, <1>7, <1>8, <1>9, <1>10, <1>11, <1>12 DEF CtlStep

\* While one thread is in a respawn no other one is, and from its begin on none
\* changes the proxy MTD either.
LEMMA RespawnAlone ==
  ASSUME ProxyInv, NEW s \in Ctl, NEW t \in Ctl, s # t, pc[s] \in Respawning
  PROVE  /\ pc[t] \notin Respawning
         /\ ~Free("recipe")
         /\ pc[s] \in Flagged => pc[t] \notin Changing
  <1>1. s \in Thread /\ t \in Thread /\ "recipe" \in Held(pc[s])
    BY RecipeHeld DEF Thread
  <1>2. pc[t] \notin Respawning
    BY <1>1, RecipeHeld DEF ProxyInv, MutexInv
  <1>3. pc[s] \in Flagged => about_to_respawn
    BY DEF ProxyInv, FlagInv
  <1>4. pc[t] \in Editing => ~about_to_respawn
    BY DEF ProxyInv, EditInv
  <1>5. pc[t] \in Changing => pc[t] \in Respawning \union Editing
    BY DEF Changing, Rebuilding, Editing
  <1> QED
    BY <1>1, <1>2, <1>3, <1>4, <1>5 DEF Free

\* A thread that steps moves itself alone.
LEMMA CtlMovesOne ==
  ASSUME PointsTyped, NEW t \in Ctl, CtlStep(t) \/ \E command \in Commands : Call(t, command)
  PROVE  CtlMove(t) /\ \A s \in Ctl : s # t => pc'[s] = pc[s]
  BY CtlMoves DEF CtlMove, Step, PointsTyped, Thread

-----------------------------------------------------------------------------
(* Partitions and their indexes                                            *)

\* What linking, registering, unlinking and removing a partition do to the
\* indexes of the list.
LEMMA IndexedLists ==
  ASSUME children \in Seq(Child)
  PROVE  /\ \A o \in U64, l \in U64 :
              Indexed(children, FALSE) /\ LinkChild(o, l) => Indexed(children', TRUE)
         /\ \A i \in Index :
              Indexed(children, TRUE) /\ IndexLastChild(i) => Indexed(children', FALSE)
         /\ Indexed(children, TRUE) /\ children # <<>> => Indexed(Front(children), FALSE)
         /\ Indexed(children, FALSE) =>
              /\ children # <<>> => Indexed(Tail(children), FALSE)
              /\ \A i \in DOMAIN children : Indexed(RemoveAt(children, i), FALSE)
  <1>1. Len(children) \in Nat /\ DOMAIN children = 1..Len(children)
    BY LenProperties
  <1>2. ASSUME NEW o \in U64, NEW l \in U64, Indexed(children, FALSE), LinkChild(o, l)
        PROVE  Indexed(children', TRUE)
    <2> DEFINE child == [index |-> NoIndex, offset |-> o, size |-> l]
    <2>1. child \in Child /\ child.index = NoIndex
      BY DEF Child
    <2>2. children' = Append(children, child)
      BY <1>2 DEF LinkChild
    <2> HIDE DEF child
    <2>3. /\ Len(children') = Len(children) + 1
          /\ DOMAIN children' = 1..(Len(children) + 1)
          /\ \A i \in 1..Len(children) : children'[i] = children[i]
          /\ children'[Len(children) + 1] = child
      BY <1>1, <2>1, <2>2, AppendProperties, LenProperties
    <2> QED
      BY <1>1, <1>2, <2>1, <2>3 DEF Indexed
  <1>3. ASSUME NEW i \in Index, Indexed(children, TRUE), IndexLastChild(i)
        PROVE  Indexed(children', FALSE)
    <2>1. /\ DOMAIN children' = DOMAIN children
          /\ \A k \in DOMAIN children : k # Len(children) => children'[k] = children[k]
      BY <1>3 DEF IndexLastChild
    <2>2. ASSUME Len(children) \in DOMAIN children
          PROVE  children'[Len(children)].index # NoIndex
      <3>1. children[Len(children)] \in Child
        BY <1>1, <2>2, ElementOfSeq
      <3>2. children'[Len(children)] = [children[Len(children)] EXCEPT !.index = i]
        BY <1>3, <2>2 DEF IndexLastChild
      <3>3. children'[Len(children)].index = i
        BY <3>1, <3>2 DEF Child
      <3> QED
        BY <3>3, ProxyAssumption DEF NoIndex
    <2> QED
      BY <1>3, <2>1, <2>2 DEF Indexed
  <1>4. ASSUME Indexed(children, TRUE), children # <<>> PROVE Indexed(Front(children), FALSE)
    <2>1. /\ DOMAIN Front(children) = 1..(Len(children) - 1)
          /\ \A k \in 1..(Len(children) - 1) : Front(children)[k] = children[k]
      BY <1>4, FrontProperties, LenProperties
    <2> QED
      BY <1>1, <1>4, <2>1 DEF Indexed
  <1>5. ASSUME Indexed(children, FALSE), children # <<>> PROVE Indexed(Tail(children), FALSE)
    <2>1. /\ DOMAIN Tail(children) = 1..(Len(children) - 1)
          /\ \A k \in 1..(Len(children) - 1) : Tail(children)[k] = children[k + 1]
      BY <1>5, HeadTailProperties, LenProperties
    <2>2. \A k \in 1..(Len(children) - 1) : k + 1 \in DOMAIN children
      BY <1>1
    <2> QED
      BY <1>5, <2>1, <2>2 DEF Indexed
  <1>6. ASSUME Indexed(children, FALSE), NEW i \in DOMAIN children
        PROVE  Indexed(RemoveAt(children, i), FALSE)
    <2>1. /\ RemoveAt(children, i) \in Seq(Child)
          /\ Len(RemoveAt(children, i)) = Len(children) - 1
          /\ \A k \in 1..(Len(children) - 1) :
               RemoveAt(children, i)[k] = IF k < i THEN children[k] ELSE children[k + 1]
      BY <1>1, RemoveAtProperties
    <2>2. DOMAIN RemoveAt(children, i) = 1..(Len(children) - 1)
      BY <2>1, LenProperties
    <2>3. \A k \in 1..(Len(children) - 1) : k \in DOMAIN children /\ k + 1 \in DOMAIN children
      BY <1>1
    <2> QED
      BY <1>6, <2>1, <2>2, <2>3 DEF Indexed
  <1> QED
    BY <1>2, <1>3, <1>4, <1>5, <1>6

\* The ranges given to the MTD core are u64.
LEMMA LinkTypes ==
  /\ \A r \in Immediates : ImmediateAccepted(r.offset, r.length) =>
       r.offset \in U64 /\ AdaptedLength(r.offset, r.length) \in U64
  /\ array \in Seq(MtdPartition) =>
       \A i \in 1..Len(array) : array[i].offset \in U64 /\ array[i].size \in U64
  <1>1. ASSUME NEW r \in Immediates, ImmediateAccepted(r.offset, r.length)
        PROVE  r.offset \in U64 /\ AdaptedLength(r.offset, r.length) \in U64
    BY <1>1, ProxyAssumption, AdaptedLengthType
  <1>2. ASSUME array \in Seq(MtdPartition), NEW i \in 1..Len(array)
        PROVE  array[i].offset \in U64 /\ array[i].size \in U64
    <2>1. array[i] \in MtdPartition
      BY <1>2, ElementOfSeq
    <2> QED
      BY <2>1 DEF MtdPartition
  <1> QED
    BY <1>1, <1>2

\* Whoever links a partition is the only one to change the list until it has
\* its index or is gone again.
LEMMA CtlKeepsIndexInv ==
  ASSUME ProxyInv, DataTypes, LinkedInv, IndexInv, NEW t \in Ctl,
         CtlStep(t) \/ \E command \in Commands : Call(t, command)
  PROVE  IndexInv'
  <1> DEFINE linked == \E s \in Ctl : pc[s] \in Linked
  <1>1. \A s \in Ctl : s # t => pc'[s] = pc[s]
    BY CtlMovesOne DEF ProxyInv
  <1>2. Linked \subseteq Changing
    BY DEF Linked, Changing, Rebuilding, Respawning
  <1>3. CASE pc[t] \notin Changing
    <2>1. UNCHANGED children /\ pc[t] \notin Linked /\ pc'[t] \notin Linked
      BY <1>2, <1>3, CtlEffects DEF ProxyInv, mtdVars
    <2>2. linked' <=> linked
      BY <1>1, <2>1
    <2> QED
      BY <2>1, <2>2 DEF IndexInv, Indexed
  <1>4. CASE pc[t] \in Changing
    <2>1. \A s \in Ctl : s # t => pc[s] \notin Linked
      BY <1>2, <1>4, ProxyInvOneChanger DEF OneChanger
    <2>2. (linked <=> pc[t] \in Linked) /\ (linked' <=> pc'[t] \in Linked)
      BY <1>1, <2>1
    <2>3. pc[t] \notin Linked => Indexed(children, FALSE)
      BY <2>2 DEF IndexInv, Indexed
    <2>4. pc[t] \in Linked => Indexed(children, TRUE) /\ children # <<>>
      BY <2>2 DEF IndexInv, Indexed, LinkedInv
    <2>5. /\ pc'[t] \notin Linked => Indexed(children', FALSE)
          /\ pc'[t] \in Linked => Indexed(children', TRUE)
      <3> USE DEF ProxyInv, PointsTyped, Thread, DataTypes, Step, Return, Linked, Changing,
                  Rebuilding, Respawning
      <3>1. CASE AddLink(t)
        BY <2>3, <3>1, IndexedLists, LinkTypes DEF AddLink
      <3>2. CASE AddRegister(t) \/ RegisterChild(t)
        BY <2>4, <3>2, IndexedLists DEF AddRegister, RegisterChild
      <3>3. CASE AddUnlink(t) \/ UnlinkChild(t)
        BY <2>4, <3>3, IndexedLists DEF AddUnlink, UnlinkChild
      <3>4. CASE DelRemove(t) \/ UnregisterChild(t)
        BY <2>3, <3>4, IndexedLists DEF DelRemove, UnregisterChild
      <3>5. CASE RegisterParts(t)
        <4>1. Len(children) < Len(array) => Len(children) + 1 \in 1..Len(array)
          BY LenProperties
        <4> QED
          BY <2>3, <3>5, <4>1, IndexedLists, LinkTypes DEF RegisterParts
      <3>6. CASE \/ Resolve(t) \/ DelFind(t)
                 \/ Unregister(t) \/ UnregisterMaster(t) \/ RegisterMaster(t)
        BY <2>3, <3>6 DEF Resolve, DelFind, Unregister, UnregisterMaster, RegisterMaster, mtdVars
      <3> QED
        BY <1>4, <3>1, <3>2, <3>3, <3>4, <3>5, <3>6, ProxyAssumption
        DEF CtlStep, Call, Busy, GetInfo, AddRefuse, AddEnter, DelEnter, RecipeAdd, RecipeDel,
            Restart, ListRecipe, ListParts, CreateRefuse, CreateDie, CreateEnter, DeleteEnter,
            RespawnBegin, RespawnCheck, RespawnEnd, Command
    <2> QED
      BY <2>2, <2>5 DEF IndexInv, Indexed
  <1> QED
    BY <1>3, <1>4

\* A respawn waits for the lock that a listing holds, and a listing gives up
\* when it finds a respawn.
LEMMA CtlKeepsListInv ==
  ASSUME ProxyInv, ListInv, NEW t \in Ctl,
         CtlStep(t) \/ \E command \in Commands : Call(t, command)
  PROVE  ListInv'
  <1> SUFFICES ASSUME NEW s \in Ctl, pc'[s] = "copy_parts" PROVE ~about_to_respawn'
    BY DEF ListInv
  <1>1. CtlMove(t) /\ \A r \in Ctl : r # t => pc'[r] = pc[r]
    BY CtlMovesOne DEF ProxyInv
  <1>2. CASE s = t
    <2>1. ~about_to_respawn
      BY <1>2, CtlEffects DEF ProxyInv, ListInv
    <2> QED
      BY <1>1, <1>2, <2>1 DEF CtlMove, proxyVars
  <1>3. CASE s # t
    <2>1. pc[s] = "copy_parts" /\ ~about_to_respawn
      BY <1>1, <1>3 DEF ListInv
    <2>2. ~Free("proxy")
      BY <2>1, ProxyHeld DEF Free, Thread
    <2> QED
      BY <1>1, <2>1, <2>2 DEF CtlMove, proxyVars
  <1> QED
    BY <1>2, <1>3

\* Nobody changes the list between mtd_relative_master_index_to_absolute_index
\* and mtd_del_partition.
LEMMA CtlKeepsTarget ==
  ASSUME ProxyInv, DataTypes, DeleteFindsTarget, NEW t \in Ctl,
         CtlStep(t) \/ \E command \in Commands : Call(t, command)
  PROVE  DeleteFindsTarget'
  <1> SUFFICES ASSUME NEW s \in Ctl, pc'[s] \in {"del_find", "del_remove"}
               PROVE  \E i \in DOMAIN children' : children'[i].index = target'
    BY DEF DeleteFindsTarget
  <1>1. \A r \in Ctl : r # t => pc'[r] = pc[r]
    BY CtlMovesOne DEF ProxyInv
  <1>2. ASSUME pc[s] \in {"del_find", "del_remove"}, UNCHANGED <<children, target>>
        PROVE  \E i \in DOMAIN children' : children'[i].index = target'
    BY <1>2 DEF DeleteFindsTarget
  <1>3. CASE s = t
    <2> USE DEF ProxyInv, PointsTyped, Thread, Step, Return
    <2>1. CASE Resolve(t) /\ pc[t] = "resolve"
      <3>1. children # <<>> /\ target' = Head(children).index /\ UNCHANGED children
        BY <1>3, <2>1 DEF Resolve, mtdVars
      <3>2. 1 \in DOMAIN children /\ Head(children) = children[1]
        BY <3>1, HeadTailProperties, EmptySeq, LenProperties DEF DataTypes
      <3> QED
        BY <3>1, <3>2
    <2>2. CASE DelFind(t)
      BY <1>2, <1>3, <2>2 DEF DelFind, mtdVars
    <2>3. pc[t] \in {"resolve", "del_find"}
      BY <1>3, ProxyAssumption
      DEF CtlStep, Call, Busy, GetInfo, AddRefuse, AddEnter, AddLink, AddRegister, AddUnlink,
          DelEnter, Resolve, DelFind, DelRemove, RecipeAdd, RecipeDel, Restart, ListRecipe,
          ListParts, CreateRefuse, CreateDie, CreateEnter, DeleteEnter, RespawnBegin,
          RespawnCheck, Unregister, UnregisterChild, UnregisterMaster, RegisterMaster,
          RegisterParts, RegisterChild, UnlinkChild, RespawnEnd, Command
    <2> QED
      BY <1>3, <2>1, <2>2, <2>3, ProxyAssumption
      DEF CtlStep, Call, Busy, GetInfo, AddRefuse, AddEnter, AddLink, AddRegister, AddUnlink,
          DelEnter, Resolve, DelFind, DelRemove, RecipeAdd, RecipeDel, Restart, ListRecipe,
          ListParts, CreateRefuse, CreateDie, CreateEnter, DeleteEnter, RespawnBegin,
          RespawnCheck, Unregister, UnregisterChild, UnregisterMaster, RegisterMaster,
          RegisterParts, RegisterChild, UnlinkChild, RespawnEnd, Command
  <1>4. CASE s # t
    <2>1. pc[s] \in {"del_find", "del_remove"}
      BY <1>1, <1>4
    <2>2. pc[t] \notin Changing
      BY <1>4, <2>1, ProxyInvOneChanger DEF OneChanger, Changing
    <2>3. pc'[t] \notin Editing
      <3>1. "proxy" \in Held(pc[s]) /\ ~Free("proxy")
        BY <2>1, ProxyHeld DEF Editing, Free, Thread
      <3>2. pc[t] \notin Editing
        BY <2>2 DEF Changing, Editing
      <3> QED
        BY <3>1, <3>2, CtlMovesOne DEF CtlMove, Editing, Respawning, ProxyInv
    <2>4. UNCHANGED <<children, target>>
      BY <2>2, <2>3, CtlEffects DEF ProxyInv, Changing, Editing, mtdVars
    <2> QED
      BY <1>2, <2>1, <2>4
  <1> QED
    BY <1>3, <1>4

-----------------------------------------------------------------------------
(* The respawn                                                             *)

\* The next partition of the array is linked behind the ones that were built;
\* its index changes nothing that was asked for.
LEMMA BuiltLists ==
  ASSUME children \in Seq(Child), array \in Seq(MtdPartition), Built, UNCHANGED array
  PROVE  /\ Len(children) < Len(array)
              /\ LinkChild(array[Len(children) + 1].offset, array[Len(children) + 1].size)
              => Built'
         /\ \A i \in Index : IndexLastChild(i) => Built'
  <1>1. /\ Len(children) \in Nat /\ DOMAIN children = 1..Len(children)
        /\ Len(array) \in Nat
    BY LenProperties
  <1>2. ASSUME Len(children) < Len(array),
               LinkChild(array[Len(children) + 1].offset, array[Len(children) + 1].size)
        PROVE  Built'
    <2> DEFINE o == array[Len(children) + 1].offset
               l == array[Len(children) + 1].size
               child == [index |-> NoIndex, offset |-> o, size |-> l]
    <2>1. o \in U64 /\ l \in U64
      <3>1. Len(children) + 1 \in 1..Len(array)
        BY <1>1, <1>2
      <3> QED
        BY <3>1, LinkTypes
    <2>2. child \in Child /\ child.offset = o /\ child.size = l
      BY <2>1 DEF Child
    <2>3. children' = Append(children, child)
      BY <1>2 DEF LinkChild
    <2> HIDE DEF child
    <2>4. /\ Len(children') = Len(children) + 1
          /\ DOMAIN children' = 1..(Len(children) + 1)
          /\ \A i \in 1..Len(children) : children'[i] = children[i]
          /\ children'[Len(children) + 1] = child
      BY <1>1, <2>2, <2>3, AppendProperties, LenProperties
    <2> QED
      BY <1>1, <1>2, <2>2, <2>4 DEF Built
  <1>3. ASSUME NEW i \in Index, IndexLastChild(i) PROVE Built'
    <2>1. children' \in Seq(Child)
      BY <1>3, ChildListTypes
    <2>2. DOMAIN children' = DOMAIN children /\ Len(children') = Len(children)
      <3>1. DOMAIN children' = DOMAIN children
        BY <1>3 DEF IndexLastChild
      <3> QED
        BY <1>1, <2>1, <3>1, LenProperties
    <2>3. ASSUME NEW k \in DOMAIN children
          PROVE  children'[k].offset = children[k].offset /\ children'[k].size = children[k].size
      <3>1. children[k] \in Child
        BY <1>1, ElementOfSeq
      <3>2. children'[k] = IF k = Len(children)
                           THEN [children[k] EXCEPT !.index = i] ELSE children[k]
        BY <1>3 DEF IndexLastChild
      <3> QED
        BY <3>1, <3>2 DEF Child
    <2> QED
      BY <2>2, <2>3 DEF Built
  <1> QED
    BY <1>2, <1>3

\* RespawnInv for one thread.
RespawnAt(t) ==
  /\ pc[t] \in Respawning /\ ret \in {"busy", "stuck"} => pc[t] = "end"
  /\ pc[t] \in {"respawn", "check", "register_master", "register_parts", "register_child"} =>
       ret = "ok"
  /\ pc[t] = "unlink_child" => ret = "failed"
  /\ pc[t] \in {"unregister_master", "register_master"} => children = <<>>
  /\ pc[t] = "register_master" => ~registered
  /\ pc[t] \in {"register_parts", "register_child"} => registered /\ Built
  /\ pc[t] = "end" /\ ret = "ok" => registered /\ Built /\ Len(children) = Len(array)
  /\ pc[t] = "end" /\ ret = "failed" => ~registered /\ children = <<>>

\* Each step of the respawn finds what the one before it left and leaves what
\* the next one needs.
LEMMA RespawnerKeepsRespawnInv ==
  ASSUME ProxyInv, DataTypes, RespawnInv, NEW t \in Ctl,
         CtlStep(t) \/ \E command \in Commands : Call(t, command)
  PROVE  RespawnAt(t)'
  <1> USE DEF ProxyInv, PointsTyped, Thread, Step, Return, RespawnAt, Respawning,
              mtdVars, recipeVars, callVars
  <1>1. RespawnAt(t) /\ (pc[t] \in Respawning /\ pc[t] # "end" => ret \notin {"busy", "stuck"})
    BY DEF RespawnInv
  <1>2. CASE pc'[t] \notin Respawning
    BY <1>2
  <1>3. CASE CreateEnter(t) \/ DeleteEnter(t)
    <2>1. pc[t] \in {"create", "delete"} /\ pc'[t] = "respawn" /\ Free("recipe") /\ ret' = ret
      BY <1>3 DEF CreateEnter, DeleteEnter, Held
    <2>2. \A s \in Ctl : pc[s] \notin Respawning
      BY <2>1, RecipeHeld DEF Free
    <2>3. ret = "ok"
      BY <2>2 DEF RespawnInv
    <2> QED
      BY <2>1, <2>3
  <1>4. CASE RespawnBegin(t) \/ RespawnCheck(t) \/ Unregister(t)
    BY <1>1, <1>4 DEF RespawnBegin, RespawnCheck, Unregister
  <1>5. CASE UnregisterChild(t)
    BY <1>1, <1>5 DEF UnregisterChild
  <1>6. CASE UnregisterMaster(t)
    BY <1>1, <1>6 DEF UnregisterMaster, DataTypes, Outcome
  <1>7. CASE RegisterMaster(t)
    <2>1. pc[t] = "register_master" /\ children = <<>> /\ children' = <<>> /\ array' = array
      BY <1>1, <1>7 DEF RegisterMaster
    <2>2. Built'
      <3>1. Len(<<>>) = 0 /\ DOMAIN <<>> = {} /\ Len(array) \in Nat
        BY EmptySeq, LenProperties DEF DataTypes
      <3> QED
        BY <2>1, <3>1 DEF Built
    <2> QED
      BY <1>1, <1>7, <2>1, <2>2 DEF RegisterMaster
  <1>8. CASE RegisterParts(t)
    <2>1. /\ pc[t] = "register_parts" /\ ret = "ok" /\ registered /\ Built
          /\ UNCHANGED <<registered, array>>
      BY <1>1, <1>8 DEF RegisterParts
    <2>2. children' = children => Built'
      BY <2>1 DEF Built
    <2> QED
      BY <1>8, <2>1, <2>2, BuiltLists DEF RegisterParts, DataTypes
  <1>9. CASE RegisterChild(t)
    <2>1. /\ pc[t] = "register_child" /\ ret = "ok" /\ registered /\ Built
          /\ UNCHANGED <<registered, array>>
      BY <1>1, <1>9 DEF RegisterChild
    <2> QED
      BY <1>9, <2>1, BuiltLists DEF RegisterChild, DataTypes
  <1>10. CASE UnlinkChild(t)
    BY <1>1, <1>10 DEF UnlinkChild
  <1> QED
    BY <1>2, <1>3, <1>4, <1>5, <1>6, <1>7, <1>8, <1>9, <1>10, ProxyAssumption
    DEF CtlStep, Call, Busy, GetInfo, AddRefuse, AddEnter, AddLink, AddRegister, AddUnlink,
        DelEnter, Resolve, DelFind, DelRemove, RecipeAdd, RecipeDel, Restart, ListRecipe,
        ListParts, CreateRefuse, CreateDie, RespawnEnd, Command

\* Nobody else touches what a respawn works on.
LEMMA CtlKeepsRespawnInv ==
  ASSUME ProxyInv, DataTypes, RespawnInv, NEW t \in Ctl,
         CtlStep(t) \/ \E command \in Commands : Call(t, command)
  PROVE  RespawnInv'
  <1>1. CtlMove(t) /\ \A r \in Ctl : r # t => pc'[r] = pc[r]
    BY CtlMovesOne DEF ProxyInv
  <1>2. ASSUME NEW s \in Ctl, s # t PROVE RespawnAt(s)'
    <2>1. RespawnAt(s) /\ pc'[s] = pc[s]
      BY <1>1, <1>2 DEF RespawnInv, RespawnAt
    <2>2. CASE pc[s] \notin Respawning
      BY <2>1, <2>2 DEF RespawnAt, Respawning
    <2>3. CASE pc[s] \in Respawning
      <3>1. UNCHANGED <<ret, array>>
        BY <1>2, <2>3, RespawnAlone, CtlEffects DEF ProxyInv
      <3>2. CASE pc[s] = "respawn"
        BY <2>1, <3>1, <3>2 DEF RespawnAt, Respawning
      <3>3. CASE pc[s] \in Flagged
        <4>1. UNCHANGED <<registered, children>>
          BY <1>2, <2>3, <3>3, RespawnAlone, CtlEffects DEF ProxyInv, mtdVars
        <4>2. Built <=> Built'
          BY <3>1, <4>1 DEF Built
        <4> QED
          BY <2>1, <3>1, <4>1, <4>2 DEF RespawnAt
      <3> QED
        BY <2>3, <3>2, <3>3 DEF Flagged
    <2> QED
      BY <2>2, <2>3
  <1>3. ASSUME ret' # "ok" PROVE \E s \in Ctl : pc'[s] \in Respawning
    <2>1. CASE pc[t] \in Respawning
      <3>1. pc'[t] \in Respawning \/ (pc[t] = "end" /\ ret' = "ok")
        BY <2>1, ProxyAssumption
        DEF CtlStep, Call, Busy, GetInfo, AddRefuse, AddEnter, AddLink, AddRegister, AddUnlink,
            DelEnter, Resolve, DelFind, DelRemove, RecipeAdd, RecipeDel, Restart, ListRecipe,
            ListParts, CreateRefuse, CreateDie, CreateEnter, DeleteEnter, RespawnBegin,
            RespawnCheck, Unregister, UnregisterChild, UnregisterMaster, RegisterMaster,
            RegisterParts, RegisterChild, UnlinkChild, RespawnEnd, Command, Step, Return,
            Respawning, ProxyInv, PointsTyped, Thread
      <3> QED
        BY <1>3, <3>1
    <2>2. CASE pc[t] \notin Respawning
      <3>1. ret # "ok"
        BY <1>3, <2>2, CtlEffects DEF ProxyInv
      <3>2. PICK s \in Ctl : pc[s] \in Respawning
        BY <3>1 DEF RespawnInv
      <3> QED
        BY <1>1, <2>2, <3>2
    <2> QED
      BY <2>1, <2>2
  <1> QED
    BY <1>2, <1>3, RespawnerKeepsRespawnInv DEF RespawnInv, RespawnAt

-----------------------------------------------------------------------------
(* The invariants                                                          *)

\* All that is known of a reachable state.
DeviceInv == ProxyInv /\ DataTypes /\ LinkedInv /\ PartitionsInv

\* A get or a put changes neither the partitions nor where a control thread is.
LEMMA UserKeepsDevice ==
  ASSUME PointsTyped, NEW u \in User, HookStep(u) \/ Get(u) \/ Put(u)
  PROVE  /\ UNCHANGED <<mtdVars, recipeVars, callVars, about_to_respawn>>
         /\ \A t \in Ctl : pc'[t] = pc[t]
  BY ProxyAssumption
  DEF HookStep, GetHook, PutHook, Get, Put, Step, Return, PointsTyped, Thread, proxyVars

\* No step of any thread leads out of DeviceInv.
LEMMA DeviceInvariance == Spec => []DeviceInv
  <1>1. Init => LinkedInv /\ PartitionsInv
    <2> SUFFICES ASSUME Init PROVE LinkedInv /\ PartitionsInv
      OBVIOUS
    <2>1. \A t \in Ctl : pc[t] = "idle"
      BY DEF Init, Thread
    <2>2. DOMAIN children = {}
      BY DEF Init
    <2> QED
      BY <2>1, <2>2
      DEF Init, LinkedInv, Linked, PartitionsInv, IndexInv, Indexed, ListInv, DeleteFindsTarget,
          RespawnInv, Respawning
  <1>2. /\ ProxyInv /\ DataTypes /\ LinkedInv /\ PartitionsInv
        /\ [Next]_vars
        => (LinkedInv /\ PartitionsInv)'
    <2> SUFFICES ASSUME ProxyInv, DataTypes, LinkedInv, PartitionsInv, [Next]_vars
                 PROVE  (LinkedInv /\ PartitionsInv)'
      OBVIOUS
    <2>1. ASSUME NEW t \in Ctl, CtlStep(t) \/ \E command \in Commands : Call(t, command)
          PROVE  (LinkedInv /\ PartitionsInv)'
      BY <2>1, CtlKeepsLinkedInv, CtlKeepsIndexInv, CtlKeepsListInv, CtlKeepsTarget,
         CtlKeepsRespawnInv
      DEF PartitionsInv
    <2>2. ASSUME UNCHANGED <<mtdVars, recipeVars, callVars, about_to_respawn>>,
                 \A t \in Ctl : pc'[t] = pc[t]
          PROVE  (LinkedInv /\ PartitionsInv)'
      BY <2>2
      DEF LinkedInv, PartitionsInv, IndexInv, Indexed, ListInv, DeleteFindsTarget, RespawnInv,
          Built, mtdVars, recipeVars, callVars
    <2>3. CASE UNCHANGED vars
      BY <2>2, <2>3 DEF vars, proxyVars
    <2> QED
      BY <2>1, <2>2, <2>3, UserKeepsDevice DEF Next, ProxyInv
  <1> QED
    BY <1>1, <1>2, ProxyInvariance, DataTypesInvariance, PTL DEF Spec, DeviceInv

\* GET_PARTITION_LIST copies the partitions under proxy.lock and partitions_lock,
\* neither of which a respawn holds on to; that it never shows one that is on
\* its way in or out is due to about_to_respawn (ctrl_dev.c:637-652).
THEOREM ListingsAreSettled == Spec => []ListShowsTable
  <1>1. DeviceInv => ListShowsTable
    <2> SUFFICES ASSUME DeviceInv, NEW t \in Ctl, pc[t] = "copy_parts"
                 PROVE  /\ \A i \in DOMAIN children : children[i].index # NoIndex
                        /\ \A s \in Ctl : pc[s] \notin Changing
      BY DEF ListShowsTable
    <2>1. ~about_to_respawn /\ "proxy" \in Held(pc[t])
      BY ProxyHeld DEF DeviceInv, PartitionsInv, ListInv
    <2>2. ASSUME NEW s \in Ctl PROVE pc[s] \notin Changing
      <3>1. pc[s] \notin Rebuilding
        BY <2>1 DEF DeviceInv, ProxyInv, FlagInv, Rebuilding, Flagged
      <3>2. pc[s] \notin Editing
        <4>1. pc[s] \in Editing => s # t /\ "proxy" \in Held(pc[s])
          BY ProxyHeld DEF Editing
        <4> QED
          BY <2>1, <4>1 DEF DeviceInv, ProxyInv, MutexInv, Thread
      <3> QED
        BY <3>1, <3>2 DEF Changing, Editing
    <2>3. \A s \in Ctl : pc[s] \notin Linked
      BY <2>2 DEF Linked, Changing, Rebuilding, Respawning
    <2> QED
      BY <2>2, <2>3 DEF DeviceInv, PartitionsInv, IndexInv, Indexed
  <1> QED
    BY <1>1, DeviceInvariance, PTL

\* The partition that DEL_MTD_PARTITION resolved is still there when
\* mtd_del_partition looks for it, however many threads add, delete and respawn
\* (the comment at ctrl_dev.c:572 fears otherwise).
THEOREM DeletesFindTarget == Spec => []DeleteFindsTarget
  <1>1. DeviceInv => DeleteFindsTarget
    BY DEF DeviceInv, PartitionsInv
  <1> QED
    BY <1>1, DeviceInvariance, PTL

\* Whichever registration of respawn_proxy_mtd_locked fails, it comes to its end
\* with the partitions asked for, in their order and in the MTD table, or with
\* none and without the proxy MTD. Where the unregistration fails it leaves no
\* partition that is not in the table (ctrl_dev.c:293-303); that all of these are
\* old ones, StepsAreOperations says.
THEOREM RespawnsAllOrNothing == Spec => []AllOrNothing
  <1>1. DeviceInv => AllOrNothing
    <2> SUFFICES ASSUME DeviceInv, NEW t \in Ctl, pc[t] = "end"
                 PROVE  /\ ret = "ok" =>
                             /\ registered
                             /\ Len(children) = Len(array)
                             /\ \A i \in DOMAIN children :
                                  /\ children[i].index \in Index
                                  /\ children[i].offset = array[i].offset
                                  /\ children[i].size = array[i].size
                        /\ ret = "failed" => ~registered /\ children = <<>>
                        /\ ret = "stuck" =>
                             \A i \in DOMAIN children : children[i].index \in Index
      BY DEF AllOrNothing
    <2>1. \A s \in Ctl : pc[s] \notin Linked
      <3>1. \A s \in Ctl : s # t => pc[s] \notin Changing
        BY RespawnAlone DEF DeviceInv, Flagged, Respawning
      <3> QED
        BY <3>1 DEF Linked, Changing, Rebuilding, Respawning
    <2>2. ASSUME NEW i \in DOMAIN children PROVE children[i].index \in Index
      <3>1. children[i] \in Child
        BY <2>2, ElementOfSeq, LenProperties DEF DeviceInv, DataTypes
      <3>2. children[i].index # NoIndex
        BY <2>1 DEF DeviceInv, PartitionsInv, IndexInv, Indexed
      <3> QED
        BY <3>1, <3>2 DEF Child
    <2> QED
      BY <2>2 DEF DeviceInv, PartitionsInv, RespawnInv, Built
  <1> QED
    BY <1>1, DeviceInvariance, PTL

-----------------------------------------------------------------------------
(* The contract                                                            *)

\* The partitions of a list that are in the MTD table.
InTable(list) == {list[i] : i \in {j \in DOMAIN list : list[j].index # NoIndex}}

MtdDevice == [index : Index, offset : U64, size : U64]

\* The devices a user can open are devices.
LEMMA DevicesTyped == DataTypes => Devices \subseteq MtdDevice
  <1> SUFFICES ASSUME DataTypes, NEW d \in Devices PROVE d \in MtdDevice
    OBVIOUS
  <1>1. Master \in MtdDevice
    BY RangeAssumption DEF Master, MtdDevice, DataTypes, U64
  <1>2. ASSUME NEW i \in DOMAIN children, children[i].index # NoIndex
        PROVE  children[i] \in MtdDevice
    <2>1. children[i] \in Child
      BY ElementOfSeq, LenProperties DEF DataTypes
    <2> QED
      BY <1>2, <2>1 DEF Child, MtdDevice
  <1> QED
    BY <1>1, <1>2 DEF Devices

\* What the changes of the list show of themselves in the table.
LEMMA TableLists ==
  ASSUME children \in Seq(Child)
  PROVE  /\ \A o \in U64, l \in U64 : LinkChild(o, l) => InTable(children') = InTable(children)
         /\ \A i \in Index :
              Indexed(children, TRUE) /\ children # <<>> /\ IndexLastChild(i) =>
                \E d \in MtdDevice : InTable(children') = InTable(children) \union {d}
         /\ Indexed(children, TRUE) /\ children # <<>> =>
              InTable(Front(children)) = InTable(children)
         /\ \A i \in DOMAIN children :
              Indexed(children, FALSE) =>
                /\ InTable(children) = InTable(RemoveAt(children, i)) \union {children[i]}
                /\ children[i] \in MtdDevice
  <1>1. /\ Len(children) \in Nat /\ DOMAIN children = 1..Len(children)
        /\ children # <<>> => Len(children) > 0
        /\ \A i \in 1..Len(children) : children[i] \in Child
    BY LenProperties, EmptySeq, ElementOfSeq
  <1>2. ASSUME NEW o \in U64, NEW l \in U64, LinkChild(o, l)
        PROVE  InTable(children') = InTable(children)
    <2> DEFINE child == [index |-> NoIndex, offset |-> o, size |-> l]
    <2>1. child \in Child /\ child.index = NoIndex
      BY DEF Child
    <2>2. children' = Append(children, child)
      BY <1>2 DEF LinkChild
    <2> HIDE DEF child
    <2>3. /\ DOMAIN children' = 1..(Len(children) + 1)
          /\ \A i \in 1..Len(children) : children'[i] = children[i]
          /\ children'[Len(children) + 1] = child
      BY <1>1, <2>1, <2>2, AppendProperties, LenProperties
    <2>4. {j \in DOMAIN children' : children'[j].index # NoIndex} =
          {j \in DOMAIN children : children[j].index # NoIndex}
      BY <1>1, <2>1, <2>3
    <2> QED
      BY <1>1, <2>3, <2>4 DEF InTable
  <1>3. ASSUME NEW i \in Index, Indexed(children, TRUE), children # <<>>, IndexLastChild(i)
        PROVE  \E d \in MtdDevice : InTable(children') = InTable(children) \union {d}
    <2> DEFINE n == Len(children)
               d == [children[n] EXCEPT !.index = i]
    <2>1. n \in DOMAIN children /\ children[n] \in Child /\ children[n].index = NoIndex
      BY <1>1, <1>3 DEF Indexed
    <2>2. d \in MtdDevice /\ d.index = i /\ i # NoIndex
      BY <2>1, ProxyAssumption DEF Child, MtdDevice, NoIndex
    <2>3. /\ DOMAIN children' = DOMAIN children
          /\ \A k \in DOMAIN children : k # n => children'[k] = children[k]
          /\ children'[n] = d
      BY <1>3, <2>1 DEF IndexLastChild
    <2> HIDE DEF d
    <2>4. {j \in DOMAIN children' : children'[j].index # NoIndex} =
          {j \in DOMAIN children : children[j].index # NoIndex} \union {n}
      BY <2>1, <2>2, <2>3
    <2>5. InTable(children') = InTable(children) \union {d}
      BY <2>1, <2>2, <2>3, <2>4 DEF InTable
    <2> QED
      BY <2>2, <2>5
  <1>4. ASSUME Indexed(children, TRUE), children # <<>>
        PROVE  InTable(Front(children)) = InTable(children)
    <2>1. /\ DOMAIN Front(children) = 1..(Len(children) - 1)
          /\ \A k \in 1..(Len(children) - 1) : Front(children)[k] = children[k]
      BY <1>4, FrontProperties, LenProperties
    <2>2. {j \in DOMAIN Front(children) : Front(children)[j].index # NoIndex} =
          {j \in DOMAIN children : children[j].index # NoIndex}
      BY <1>1, <1>4, <2>1 DEF Indexed
    <2> QED
      BY <1>1, <2>1, <2>2 DEF InTable
  <1>5. ASSUME NEW i \in DOMAIN children, Indexed(children, FALSE)
        PROVE  /\ InTable(children) = InTable(RemoveAt(children, i)) \union {children[i]}
               /\ children[i] \in MtdDevice
    <2> DEFINE rest == RemoveAt(children, i)
    <2>0. i \in 1..Len(children)
      BY <1>1
    <2>1. /\ rest \in Seq(Child)
          /\ Len(rest) = Len(children) - 1
          /\ \A k \in 1..(Len(children) - 1) :
               rest[k] = IF k < i THEN children[k] ELSE children[k + 1]
      BY ONLY children \in Seq(Child), <2>0, RemoveAtProperties
    <2>2. DOMAIN rest = 1..(Len(children) - 1)
      BY <2>1, LenProperties
    <2> HIDE DEF rest
    <2>3. \A k \in DOMAIN children : children[k].index # NoIndex
      BY <1>5 DEF Indexed
    <2>4. \A k \in DOMAIN rest : \E j \in DOMAIN children : rest[k] = children[j]
      <3>1. \A k \in 1..(Len(children) - 1) : k \in DOMAIN children /\ k + 1 \in DOMAIN children
        BY <1>1
      <3> QED
        BY <2>1, <2>2, <3>1
    <2>5. \A j \in DOMAIN children : j = i \/ \E k \in DOMAIN rest : rest[k] = children[j]
      <3> SUFFICES ASSUME NEW j \in DOMAIN children, j # i
                   PROVE  \E k \in DOMAIN rest : rest[k] = children[j]
        OBVIOUS
      <3>1. CASE j < i
        BY <1>1, <2>1, <2>2, <3>1
      <3>2. CASE j > i
        <4>1. j - 1 \in DOMAIN rest /\ ~(j - 1 < i) /\ (j - 1) + 1 = j
          BY <1>1, <2>2, <3>2
        <4> QED
          BY <2>1, <2>2, <4>1
      <3> QED
        BY <1>1, <3>1, <3>2
    <2>6. \A k \in DOMAIN rest : rest[k].index # NoIndex
      BY <2>3, <2>4
    <2>7. InTable(children) = {children[j] : j \in DOMAIN children}
      BY <2>3 DEF InTable
    <2>8. InTable(rest) = {rest[k] : k \in DOMAIN rest}
      BY <2>6 DEF InTable
    <2>9. InTable(children) = InTable(rest) \union {children[i]}
      BY <2>4, <2>5, <2>7, <2>8
    <2>10. children[i] \in MtdDevice
      BY <1>1, <2>3 DEF Child, MtdDevice
    <2> QED
      BY <2>9, <2>10 DEF rest
  <1> QED
    BY <1>2, <1>3, <1>4, <1>5

\* The set of devices only changes while nobody uses any of them: by one device
\* under proxy.lock, or at will in a respawn.
LEMMA CtlImplements ==
  ASSUME DeviceInv, (Devices \subseteq MtdDevice)', NEW t \in Ctl,
         CtlStep(t) \/ \E command \in Commands : Call(t, command)
  PROVE  [Contract!Next]_Contract!contractVars
  <1> USE DEF DeviceInv, ProxyInv, Contract!contractVars
  <1>1. CtlMove(t) /\ \A s \in Ctl : s # t => pc'[s] = pc[s]
    BY CtlMovesOne
  <1>2. {u \in User : Using(u)}' = {u \in User : Using(u)}
    <2>1. \A u \in User : pc'[u] = pc[u]
      BY <1>1, ProxyAssumption DEF CtlMove, Step, PointsTyped, Thread
    <2> QED
      BY <2>1 DEF Using
  <1>3. Devices = (IF registered THEN {Master} ELSE {}) \union InTable(children)
    BY DEF Devices, InTable
  <1>4. Devices' = (IF registered THEN {Master} ELSE {})' \union InTable(children')
    BY DEF Devices, InTable
  <1>5. pc[t] \in Rebuilding \union Editing => {u \in User : Using(u)} = {}
    BY DEF QuietInv
  <1>6. CASE pc[t] = "respawn" /\ pc'[t] = "check" /\ about_to_respawn' = TRUE
    <2>1. ~about_to_respawn
      <3>1. pc[t] \in Respawning /\ pc[t] \notin Flagged
        BY <1>6 DEF Flagged, Respawning
      <3>2. \A s \in Ctl : s # t => pc[s] \notin Respawning
        BY <3>1, RespawnAlone
      <3> QED
        BY <3>1, <3>2 DEF FlagInv, Flagged
    <2>2. UNCHANGED mtdVars
      BY <1>6, CtlEffects DEF Changing, Rebuilding, Respawning
    <2>3. Devices' = Devices
      BY <2>2 DEF mtdVars, Devices, Master
    <2>4. Contract!Close
      BY <1>2, <1>6, <2>1, <2>3 DEF Contract!Close
    <2> QED
      BY <2>4 DEF Contract!Next
  <1>7. CASE pc[t] = "end" /\ pc'[t] = "idle" /\ about_to_respawn' = FALSE
    <2>1. about_to_respawn
      BY <1>7 DEF FlagInv, Flagged, Respawning
    <2>2. UNCHANGED mtdVars
      BY <1>7, CtlEffects DEF Changing, Rebuilding, Respawning
    <2>3. Devices' = Devices
      BY <2>2 DEF mtdVars, Devices, Master
    <2>4. Contract!Reopen
      BY <1>2, <1>7, <2>1, <2>3 DEF Contract!Reopen
    <2> QED
      BY <2>4 DEF Contract!Next
  <1>8. CASE pc[t] \in Rebuilding /\ UNCHANGED about_to_respawn
    <2>1. about_to_respawn
      BY <1>8 DEF FlagInv, Flagged, Rebuilding
    <2>2. Contract!Reshape
      BY <1>2, <1>5, <1>8, <2>1 DEF Contract!Reshape, MtdDevice
    <2> QED
      BY <2>2 DEF Contract!Next
  <1>9. CASE pc[t] \in Editing /\ UNCHANGED about_to_respawn
    <2>1. ~about_to_respawn
      BY <1>9 DEF EditInv
    <2>2. Indexed(children, pc[t] \in Linked) /\ (pc[t] \in Linked => children # <<>>)
      <3>1. \A s \in Ctl : s # t => pc[s] \notin Linked
        BY <1>9, ProxyInvOneChanger
        DEF OneChanger, Editing, Linked, Changing, Rebuilding, Respawning
      <3> QED
        BY <3>1 DEF PartitionsInv, IndexInv, Indexed, LinkedInv
    <2>3. \/ Devices' = Devices
          \/ \E d \in MtdDevice : Devices' = Devices \union {d} \/ Devices' = Devices \ {d}
      <3> USE <1>3, <1>4 DEF Step, Return, Linked, Master
      <3>1. CASE AddLink(t)
        <4>1. UNCHANGED <<registered, index>>
          BY <3>1 DEF AddLink
        <4>2. InTable(children') = InTable(children)
          BY <3>1, LinkTypes, TableLists DEF AddLink, DataTypes
        <4> QED
          BY <4>1, <4>2
      <3>2. CASE AddRegister(t)
        <4>1. UNCHANGED <<registered, index>>
          BY <3>2 DEF AddRegister
        <4>2. Indexed(children, TRUE) /\ children # <<>>
          BY <2>2, <3>2 DEF AddRegister, Indexed
        <4>3. \/ InTable(children') = InTable(children)
              \/ \E d \in MtdDevice : InTable(children') = InTable(children) \union {d}
          BY <3>2, <4>2, TableLists DEF AddRegister, DataTypes
        <4> QED
          BY <4>1, <4>3
      <3>3. CASE AddUnlink(t)
        <4>1. UNCHANGED <<registered, index>>
          BY <3>3 DEF AddUnlink
        <4>2. Indexed(children, TRUE) /\ children # <<>>
          BY <2>2, <3>3 DEF AddUnlink, Indexed
        <4>3. InTable(children') = InTable(children)
          BY <3>3, <4>2, TableLists DEF AddUnlink, DataTypes
        <4> QED
          BY <4>1, <4>3
      <3>4. CASE DelRemove(t)
        <4>1. UNCHANGED <<registered, index>>
          BY <3>4 DEF DelRemove
        <4>2. Indexed(children, FALSE)
          BY <2>2, <3>4 DEF DelRemove, Indexed
        <4>3. PICK i \in DOMAIN children : children' = RemoveAt(children, i)
          BY <3>4 DEF DelRemove
        <4>4. /\ InTable(children) = InTable(children') \union {children[i]}
              /\ children[i] \in MtdDevice
          BY <4>2, <4>3, TableLists DEF DataTypes
        <4> QED
          BY <4>1, <4>4
      <3>5. CASE UNCHANGED mtdVars
        BY <3>5 DEF mtdVars
      <3> QED
        BY <1>9, <3>1, <3>2, <3>3, <3>4, <3>5, ProxyAssumption
        DEF CtlStep, Call, Busy, GetInfo, AddRefuse, AddEnter, DelEnter, Resolve, DelFind,
            RecipeAdd, RecipeDel, Restart, ListRecipe, ListParts, CreateRefuse, CreateDie,
            CreateEnter, DeleteEnter, RespawnBegin, RespawnCheck, Unregister, UnregisterChild,
            UnregisterMaster, RegisterMaster, RegisterParts, RegisterChild, UnlinkChild,
            RespawnEnd, Command, Editing
    <2>4. ASSUME NEW d \in MtdDevice, Devices' = Devices \union {d} PROVE Contract!Appear(d)
      BY <1>2, <1>5, <1>9, <2>1, <2>4 DEF Contract!Appear
    <2>5. ASSUME NEW d \in MtdDevice, Devices' = Devices \ {d} PROVE Contract!Vanish(d)
      BY <1>2, <1>5, <1>9, <2>1, <2>5 DEF Contract!Vanish
    <2> QED
      BY <1>2, <1>9, <2>3, <2>4, <2>5 DEF Contract!Next, MtdDevice
  <1>10. CASE UNCHANGED proxyVars /\ pc[t] \notin Changing
    <2>1. Devices' = Devices
      BY <1>10, CtlEffects DEF mtdVars, Devices, Master
    <2> QED
      BY <1>2, <1>10, <2>1 DEF proxyVars
  <1> QED
    BY <1>1, <1>6, <1>7, <1>8, <1>9, <1>10 DEF CtlMove, Changing, Editing, proxyVars

\* Users come and go as the contract says, and change nothing else.
LEMMA UserImplements ==
  ASSUME DeviceInv, NEW u \in User, HookStep(u) \/ Get(u) \/ Put(u)
  PROVE  [Contract!Next]_Contract!contractVars
  <1> USE DEF Contract!contractVars
  <1>1. UserMove(u) /\ UNCHANGED mtdVars
    BY UserMoves, UserKeepsDevice DEF DeviceInv, ProxyInv
  <1>2. Devices' = Devices
    BY <1>1 DEF mtdVars, Devices, Master
  <1>3. \A v \in User : v # u => (Using(v)' <=> Using(v))
    BY <1>1 DEF UserMove, Step, Using, DeviceInv, ProxyInv, PointsTyped, Thread
  <1>4. CASE ~about_to_respawn /\ ~Using(u) /\ Using(u)'
    <2>1. {v \in User : Using(v)}' = {v \in User : Using(v)} \union {u}
      BY <1>3, <1>4
    <2>2. Contract!Join(u)
      BY <1>1, <1>2, <1>4, <2>1 DEF UserMove, Contract!Join
    <2> QED
      BY <2>2 DEF Contract!Next
  <1>5. CASE Using(u) /\ ~Using(u)'
    <2>1. {v \in User : Using(v)}' = {v \in User : Using(v)} \ {u}
      BY <1>3, <1>5
    <2>2. Contract!Leave(u)
      BY <1>1, <1>2, <2>1 DEF UserMove, Contract!Leave
    <2> QED
      BY <2>2 DEF Contract!Next
  <1>6. CASE Using(u) <=> Using(u)'
    <2>1. {v \in User : Using(v)}' = {v \in User : Using(v)}
      BY <1>3, <1>6
    <2> QED
      BY <1>1, <1>2, <2>1 DEF UserMove
  <1> QED
    BY <1>1, <1>4, <1>5, <1>6 DEF UserMove

\* Users of the proxy MTD and of its partitions never see the set of devices
\* change under them, through every ioctl, failure and interleaving: the proxy
\* MTD implements ProxyContract.
THEOREM DeviceImplementsContract == Spec => ImplementsContract
  <1>1. Init => Contract!Init
    <2> SUFFICES ASSUME Init PROVE Contract!Init
      OBVIOUS
    <2>1. {u \in User : Using(u)} = {}
      BY DEF Init, Using, Thread
    <2>2. index = FirstIndex
      <3>1. index \in Index /\ \A j \in Index : index <= j
        BY DEF Init
      <3>2. FirstIndex \in Index /\ \A j \in Index : FirstIndex <= j
        BY <3>1 DEF FirstIndex
      <3> QED
        BY <3>1, <3>2, ProxyAssumption
    <2>3. Devices = {[index |-> FirstIndex, offset |-> 0, size |-> MtdSize]}
      BY <2>2 DEF Init, Devices, Master
    <2> QED
      BY <2>1, <2>3 DEF Init, Contract!Init
  <1>2. /\ DeviceInv
        /\ (Devices \subseteq MtdDevice)'
        /\ [Next]_vars
        => [Contract!Next]_Contract!contractVars
    <2> SUFFICES ASSUME DeviceInv, (Devices \subseteq MtdDevice)', [Next]_vars
                 PROVE  [Contract!Next]_Contract!contractVars
      OBVIOUS
    <2>1. CASE UNCHANGED vars
      BY <2>1 DEF vars, proxyVars, mtdVars, Contract!contractVars, Using, Devices, Master
    <2> QED
      BY <2>1, CtlImplements, UserImplements DEF Next
  <1> QED
    BY <1>1, <1>2, DeviceInvariance, DataTypesInvariance, DevicesTyped, PTL
    DEF Spec, ImplementsContract, Contract!Spec

-----------------------------------------------------------------------------
(* Waiting                                                                 *)

\* The commands that neither change a partition under proxy.lock nor take
\* recipe->lock inside it.
Ordered == {"get_info", "recipe_add", "recipe_del", "create", "delete", "restart", "list_parts"}

OrderedPoint == Ordered \union Respawning \union {"idle", "died", "read_info", "copy_parts"}

OrderInv == \A t \in Ctl : pc[t] \in OrderedPoint

\* These commands lead to no point of the others.
LEMMA CtlKeepsOrderInv ==
  ASSUME PointsTyped, OrderInv, Commands \subseteq Ordered, NEW t \in Ctl,
         CtlStep(t) \/ \E command \in Commands : Call(t, command)
  PROVE  OrderInv'
  <1>1. \A s \in Ctl : s # t => pc'[s] = pc[s]
    BY CtlMovesOne
  <1>2. pc'[t] \in OrderedPoint
    <2> USE DEF PointsTyped, Thread, Step, Return, OrderInv, OrderedPoint, Ordered, Respawning
    <2>1. CASE \E command \in Commands : Call(t, command)
      BY <2>1 DEF Call
    <2>2. CASE Busy(t) \/ GetInfo(t) \/ ListRecipe(t) \/ ListParts(t)
      BY <2>2 DEF Busy, GetInfo, ListRecipe, ListParts
    <2>3. CASE AddRefuse(t) \/ AddEnter(t) \/ AddLink(t) \/ AddRegister(t) \/ AddUnlink(t)
      BY <2>3 DEF AddRefuse, AddEnter, AddLink, AddRegister, AddUnlink
    <2>4. CASE \/ \E idx \in 0..MaxChildren : DelEnter(t, idx)
               \/ Resolve(t) \/ DelFind(t) \/ DelRemove(t)
      BY <2>4 DEF DelEnter, Resolve, DelFind, DelRemove
    <2>5. CASE \/ \E req \in Requests : RecipeAdd(t, req)
               \/ \E idx \in 0..MaxParts : RecipeDel(t, idx)
               \/ Restart(t)
      BY <2>5 DEF RecipeAdd, RecipeDel, Restart
    <2>6. CASE CreateRefuse(t) \/ CreateDie(t) \/ CreateEnter(t) \/ DeleteEnter(t)
      BY <2>6 DEF CreateRefuse, CreateDie, CreateEnter, DeleteEnter
    <2>7. CASE \/ RespawnBegin(t) \/ RespawnCheck(t) \/ Unregister(t) \/ UnregisterChild(t)
               \/ UnregisterMaster(t)
      BY <2>7 DEF RespawnBegin, RespawnCheck, Unregister, UnregisterChild, UnregisterMaster
    <2>8. CASE \/ RegisterMaster(t) \/ RegisterParts(t) \/ RegisterChild(t) \/ UnlinkChild(t)
               \/ RespawnEnd(t)
      BY <2>8 DEF RegisterMaster, RegisterParts, RegisterChild, UnlinkChild, RespawnEnd
    <2> QED
      BY <2>1, <2>2, <2>3, <2>4, <2>5, <2>6, <2>7, <2>8 DEF CtlStep
  <1> QED
    BY <1>1, <1>2 DEF OrderInv

\* Who holds a mutex is at one of few points, and may itself have to wait for
\* these mutexes only.
LEMMA HoldersWait ==
  ASSUME PointsTyped, OrderInv, NEW t \in Thread
  PROVE  /\ "recipe" \in Held(pc[t]) => t \in Ctl /\ pc[t] \in Respawning \union {"died"}
         /\ "proxy" \in Held(pc[t]) => t \in Ctl /\ pc[t] \in {"read_info", "copy_parts"}
         /\ "partitions" \in Held(pc[t]) => t \in Ctl /\ pc[t] = "unregister_child"
         /\ "table" \in Held(pc[t]) => pc[t] \in {"get_hook", "put_hook"}
         /\ pc[t] \in {"died", "read_info"} => Wants(t) = {}
         /\ pc[t] = "copy_parts" => Wants(t) = {"partitions"}
         /\ pc[t] \in {"get_hook", "put_hook"} => Wants(t) = {"proxy"}
         /\ pc[t] = "unregister_child" => Wants(t) \subseteq {"table"}
         /\ pc[t] \in Respawning => Wants(t) \subseteq {"proxy", "partitions", "table"}
         /\ Wants(t) \subseteq Lock
  <1>1. \/ t \in Ctl /\ pc[t] \in OrderedPoint
        \/ t \in User /\ pc[t] \in UserPoint
    BY DEF PointsTyped, OrderInv, Thread
  <1>2. CASE t \in Ctl /\ pc[t] \in OrderedPoint
    <2>1. /\ "recipe" \in Held(pc[t]) => pc[t] \in Respawning \union {"died"}
          /\ "proxy" \in Held(pc[t]) => pc[t] \in {"read_info", "copy_parts"}
          /\ "partitions" \in Held(pc[t]) => pc[t] = "unregister_child"
          /\ "table" \notin Held(pc[t])
      BY <1>2 DEF OrderedPoint, Ordered, Respawning, Held
    <2>2. pc[t] \notin {"get_hook", "put_hook"}
      BY <1>2 DEF OrderedPoint, Ordered, Respawning
    <2>3. /\ pc[t] \in {"died", "read_info"} => Wants(t) = {}
          /\ pc[t] = "copy_parts" => Wants(t) = {"partitions"}
          /\ pc[t] = "unregister_child" => Wants(t) \subseteq {"table"}
      BY DEF Wants
    <2>4. pc[t] \in Respawning => Wants(t) \subseteq {"proxy", "partitions", "table"}
      BY DEF Wants, Respawning
    <2>5. Wants(t) \subseteq Lock
      BY <1>2 DEF Wants, Lock, OrderedPoint, Ordered, Respawning
    <2> QED
      BY <1>2, <2>1, <2>2, <2>3, <2>4, <2>5
  <1>3. CASE t \in User /\ pc[t] \in UserPoint
    BY <1>3 DEF UserPoint, Held, Wants, Lock, Respawning
  <1> QED
    BY <1>1, <1>2, <1>3

\* A thread of a circle that held proxy.lock would list the partitions and wait
\* for a respawn that has begun, when a listing gives up (ListInv). So no user
\* is in a circle, and no respawn, since it waits for those or for itself.
LEMMA NoCircle == DeviceInv /\ OrderInv => NoCircularWait
  <1> SUFFICES ASSUME DeviceInv, OrderInv, NEW S \in SUBSET Thread,
                      \A t \in S : \E s \in S : Wants(t) \intersect Held(pc[s]) # {},
                      NEW x \in S
               PROVE  FALSE
    BY DEF NoCircularWait
  <1>1. PointsTyped /\ MutexInv
    BY DEF DeviceInv, ProxyInv
  <1>2. \A t \in S : t \in Thread
    OBVIOUS
  <1>3. \A t \in S : \E s \in S : \E lock \in Wants(t) : lock \in Held(pc[s])
    OBVIOUS
  <1>4. ASSUME NEW p \in S, "proxy" \in Held(pc[p]) PROVE FALSE
    <2>1. p \in Ctl /\ pc[p] = "copy_parts" /\ Wants(p) = {"partitions"}
      BY <1>1, <1>2, <1>3, <1>4, HoldersWait
    <2>2. PICK r \in S : "partitions" \in Held(pc[r])
      BY <1>3, <2>1
    <2>3. r \in Ctl /\ pc[r] = "unregister_child"
      BY <1>1, <1>2, <2>2, HoldersWait
    <2>4. ~about_to_respawn
      BY <2>1 DEF DeviceInv, PartitionsInv, ListInv
    <2>5. about_to_respawn
      BY <2>3 DEF DeviceInv, ProxyInv, FlagInv, Flagged, Respawning
    <2> QED
      BY <2>4, <2>5
  <1>5. ASSUME NEW t \in S, "proxy" \in Wants(t) PROVE Wants(t) # {"proxy"}
    BY <1>3, <1>4, <1>5
  <1>6. ASSUME NEW u \in S, "table" \in Held(pc[u]) PROVE FALSE
    BY <1>1, <1>2, <1>5, <1>6, HoldersWait
  <1>7. \A t \in S : \E s \in S : \E lock \in Wants(t) \intersect {"recipe", "partitions"} :
          lock \in Held(pc[s])
    <2> SUFFICES ASSUME NEW t \in S
                 PROVE  \E s \in S : \E lock \in Wants(t) \intersect {"recipe", "partitions"} :
                          lock \in Held(pc[s])
      OBVIOUS
    <2>1. PICK s \in S : \E lock \in Wants(t) : lock \in Held(pc[s])
      BY <1>3
    <2>2. Wants(t) \subseteq Lock
      BY <1>1, <1>2, HoldersWait DEF DeviceInv
    <2>3. "proxy" \notin Held(pc[s]) /\ "table" \notin Held(pc[s])
      BY <1>4, <1>6
    <2> QED
      BY <2>1, <2>2, <2>3 DEF Lock
  <1>8. ASSUME NEW r \in S, pc[r] \in Respawning, r \in Ctl PROVE FALSE
    <2>0. Wants(r) \subseteq {"proxy", "partitions", "table"}
      BY <1>1, <1>2, <1>8, HoldersWait
    <2>1. PICK s \in S : "partitions" \in Wants(r) /\ "partitions" \in Held(pc[s])
      BY <1>7, <2>0
    <2>2. s \in Ctl /\ pc[s] = "unregister_child"
      BY <1>1, <1>2, <2>1, HoldersWait
    <2>3. s # r
      BY <1>1, <1>2, <2>1, <2>2, HoldersWait
    <2> QED
      BY <1>8, <2>2, <2>3, RespawnAlone DEF Respawning, DeviceInv
  <1>9. PICK s \in S : "recipe" \in Held(pc[s]) \/ "partitions" \in Held(pc[s])
    BY <1>7
  <1>10. s \in Ctl /\ pc[s] \in Respawning \union {"died"}
    BY <1>1, <1>2, <1>9, HoldersWait DEF Respawning
  <1>11. pc[s] # "died"
    BY <1>1, <1>2, <1>3, HoldersWait
  <1> QED
    BY <1>8, <1>10, <1>11

\* Through the ioctls that do not edit the proxy MTD under its lock, no set of
\* threads waits in a circle, whatever their number: although the mutexes that
\* GET_PARTITION_LIST, a respawn and a user hold and want do form one
\* (ctrl_dev.c:280-303, 637-652; proxy_mtd_dev.c:36-52).
THEOREM NoThreadsWaitInACircle ==
  ASSUME Commands \subseteq Ordered
  PROVE  Spec => []NoCircularWait
  <1>1. Init => OrderInv
    BY DEF Init, OrderInv, OrderedPoint, Thread
  <1>2. DeviceInv /\ OrderInv /\ [Next]_vars => OrderInv'
    <2> SUFFICES ASSUME DeviceInv, OrderInv, [Next]_vars PROVE OrderInv'
      OBVIOUS
    <2>1. PointsTyped
      BY DEF DeviceInv, ProxyInv
    <2>2. CASE UNCHANGED vars
      BY <2>2 DEF vars, OrderInv
    <2>3. ASSUME NEW u \in User, HookStep(u) \/ Get(u) \/ Put(u) PROVE OrderInv'
      BY <2>1, <2>3, UserKeepsDevice DEF OrderInv
    <2> QED
      BY <2>1, <2>2, <2>3, CtlKeepsOrderInv DEF Next
  <1> QED
    BY <1>1, <1>2, NoCircle, DeviceInvariance, PTL DEF Spec
=============================================================================
