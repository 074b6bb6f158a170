-------------------------- MODULE ProxyAtomicProofs --------------------------
(***************************************************************************)
(* The steps of ProxyDevice have the effect of the operations of ProxyIO,  *)
(* for any number of threads and partitions, whatever fails.               *)
(***************************************************************************)
EXTENDS ProxyAtomic, ProxyContractProofs

-----------------------------------------------------------------------------
(* The inductive invariant                                                 *)

\* A device is open exactly while its user is counted.
HoldInv ==
  /\ DOMAIN hold = User
  /\ \A u \in User : hold[u] # {} <=> Using(u)

\* No two partitions have the same index.
Distinct(list) == \A i, j \in DOMAIN list : list[i].index = list[j].index => i = j

\* The partition a delete has resolved is the first.
FirstInv ==
  \A t \in Ctl : pc[t] \in {"del_find", "del_remove"} =>
    children # <<>> /\ target = children[1].index

\* A partition on its way into the table is the last, and was asked for.
LastAsked ==
  /\ Len(children) <= MaxChildren
  /\ \E r \in Immediates :
       /\ ImmediateAccepted(r.offset, r.length)
       /\ children[Len(children)].offset = r.offset
       /\ children[Len(children)].size = AdaptedLength(r.offset, r.length)

AddedInv == \A t \in Ctl : pc[t] = "add_register" => LastAsked

\* What a respawn has built so far had a name each.
BuiltNamed == \A i \in 1..Len(children) : array[i].named

NamedInv == \A t \in Ctl : pc[t] \in {"register_parts", "register_child"} => BuiltNamed

\* Who holds mtd_table_mutex in a get has found a device, and it stays.
FoundInv == \A u \in User : pc[u] = "get_hook" => UsedIndexes \ {NoIndex} # {}

\* The points of mtd_device_unregister.
Unregistering == {"unregister", "unregister_child", "unregister_master"}

\* What an unregistration has not taken out yet are the partitions there were at
\* the positions kept, in their order.
Keeping ==
  /\ kept \in Seq(DOMAIN shownChildren)
  /\ Len(kept) = Len(children)
  /\ Len(kept) <= Len(shownChildren)
  /\ \A i, j \in 1..Len(kept) : i < j => kept[i] < kept[j]
  /\ \A i \in 1..Len(kept) :
       /\ shownChildren[kept[i]].offset = children[i].offset
       /\ shownChildren[kept[i]].size = children[i].size
  /\ shownRegistered = registered

KeptInv == \A t \in Ctl : pc[t] \in Unregistering /\ ret = "ok" => Keeping

AtomicInv ==
  /\ shownChildren \in Seq(IO!Device)
  /\ HoldInv
  /\ Distinct(children)
  /\ FirstInv
  /\ AddedInv
  /\ NamedInv
  /\ FoundInv
  /\ ShownIsThere
  /\ KeptInv

-----------------------------------------------------------------------------
(* The list of partitions                                                  *)

\* What linking a partition, giving it an index, and taking one out do to the
\* elements of the list.
LEMMA LinkElements ==
  ASSUME children \in Seq(Child), NEW o \in U64, NEW l \in U64, LinkChild(o, l)
  PROVE  /\ Len(children') = Len(children) + 1
         /\ DOMAIN children' = 1..(Len(children) + 1)
         /\ \A k \in 1..Len(children) : children'[k] = children[k]
         /\ children'[Len(children) + 1] = [index |-> NoIndex, offset |-> o, size |-> l]
  <1> DEFINE child == [index |-> NoIndex, offset |-> o, size |-> l]
  <1>1. child \in Child
    BY DEF Child
  <1>2. children' = Append(children, child)
    BY DEF LinkChild
  <1> HIDE DEF child
  <1>3. Len(children) \in Nat /\ children' \in Seq(Child)
    BY <1>1, <1>2, AppendProperties, LenProperties
  <1>4. /\ Len(children') = Len(children) + 1
        /\ \A k \in 1..Len(children) : children'[k] = children[k]
        /\ children'[Len(children) + 1] = child
    BY <1>1, <1>2, AppendProperties
  <1> QED
    BY <1>3, <1>4, LenProperties DEF child

LEMMA IndexElements ==
  ASSUME children \in Seq(Child), NEW i \in Index, IndexLastChild(i)
  PROVE  /\ Len(children') = Len(children)
         /\ DOMAIN children' = 1..Len(children)
         /\ \A k \in 1..Len(children) :
              /\ children'[k].index = IF k = Len(children) THEN i ELSE children[k].index
              /\ children'[k].offset = children[k].offset
              /\ children'[k].size = children[k].size
  <1>1. Len(children) \in Nat /\ DOMAIN children = 1..Len(children)
    BY LenProperties
  <1>2. DOMAIN children' = DOMAIN children
    BY DEF IndexLastChild
  <1>3. children' \in Seq(Child)
    BY ChildListTypes
  <1>4. Len(children') = Len(children)
    BY <1>1, <1>2, <1>3, LenProperties
  <1>5. ASSUME NEW k \in 1..Len(children)
        PROVE  /\ children'[k].index = IF k = Len(children) THEN i ELSE children[k].index
               /\ children'[k].offset = children[k].offset
               /\ children'[k].size = children[k].size
    <2>1. children[k] \in Child
      BY ElementOfSeq
    <2>2. children'[k] = IF k = Len(children)
                         THEN [children[k] EXCEPT !.index = i] ELSE children[k]
      BY <1>1 DEF IndexLastChild
    <2> QED
      BY <2>1, <2>2 DEF Child
  <1> QED
    BY <1>1, <1>2, <1>4, <1>5

LEMMA RemovalElements ==
  ASSUME children \in Seq(Child), children # <<>>
  PROVE  /\ Len(children) \in Nat \ {0}
         /\ DOMAIN children = 1..Len(children)
         /\ Len(Front(children)) = Len(children) - 1
         /\ DOMAIN Front(children) = 1..(Len(children) - 1)
         /\ \A k \in 1..(Len(children) - 1) : Front(children)[k] = children[k]
         /\ Len(Tail(children)) = Len(children) - 1
         /\ DOMAIN Tail(children) = 1..(Len(children) - 1)
         /\ \A k \in 1..(Len(children) - 1) : Tail(children)[k] = children[k + 1]
         /\ RemoveAt(children, 1) = Tail(children)
  <1>1. Len(children) \in Nat \ {0} /\ DOMAIN children = 1..Len(children)
    BY EmptySeq, LenProperties
  <1>2. /\ Front(children) \in Seq(Child)
        /\ Len(Front(children)) = Len(children) - 1
        /\ \A k \in 1..(Len(children) - 1) : Front(children)[k] = children[k]
    BY FrontProperties
  <1>3. /\ Tail(children) \in Seq(Child)
        /\ Len(Tail(children)) = Len(children) - 1
        /\ \A k \in 1..(Len(children) - 1) : Tail(children)[k] = children[k + 1]
    BY <1>1, HeadTailProperties
  <1>4. 1 \in 1..Len(children)
    BY <1>1
  <1>5. /\ RemoveAt(children, 1) \in Seq(Child)
        /\ Len(RemoveAt(children, 1)) = Len(children) - 1
        /\ \A k \in 1..(Len(children) - 1) :
             RemoveAt(children, 1)[k] = IF k < 1 THEN children[k] ELSE children[k + 1]
    BY ONLY children \in Seq(Child), <1>4, RemoveAtProperties
  <1>6. ASSUME NEW k \in 1..(Len(children) - 1)
        PROVE  RemoveAt(children, 1)[k] = Tail(children)[k]
    <2>1. ~(k < 1)
      BY <1>1
    <2> QED
      BY <1>3, <1>5, <2>1
  <1>7. RemoveAt(children, 1) = Tail(children)
    BY <1>3, <1>5, <1>6, SeqEqual
  <1> QED
    BY <1>1, <1>2, <1>3, <1>7, LenProperties

\* The lowest free index is nobody's.
LEMMA DistinctLists ==
  ASSUME children \in Seq(Child), Distinct(children)
  PROVE  /\ \A o, l \in U64 :
              LinkChild(o, l) /\ Indexed(children, FALSE) => Distinct(children')
         /\ \A i \in Index : IndexLastChild(i) /\ LowestFree(i) => Distinct(children')
         /\ children # <<>> => Distinct(Front(children))
         /\ \A i \in DOMAIN children : Distinct(RemoveAt(children, i))
  <1>1. Len(children) \in Nat /\ DOMAIN children = 1..Len(children)
    BY LenProperties
  <1>2. ASSUME NEW o \in U64, NEW l \in U64, LinkChild(o, l), Indexed(children, FALSE)
        PROVE  Distinct(children')
    <2>1. /\ DOMAIN children' = 1..(Len(children) + 1)
          /\ \A k \in 1..Len(children) : children'[k] = children[k]
          /\ children'[Len(children) + 1].index = NoIndex
      <3>1. children'[Len(children) + 1] = [index |-> NoIndex, offset |-> o, size |-> l]
        BY <1>2, LinkElements
      <3> QED
        BY <1>2, <3>1, LinkElements
    <2>2. \A k \in 1..Len(children) : children[k].index # NoIndex
      BY <1>1, <1>2 DEF Indexed
    <2>3. \A k \in 1..(Len(children) + 1) : k \in 1..Len(children) \/ k = Len(children) + 1
      BY <1>1
    <2> QED
      BY <1>1, <2>1, <2>2, <2>3 DEF Distinct
  <1>3. ASSUME NEW i \in Index, IndexLastChild(i), LowestFree(i) PROVE Distinct(children')
    <2>1. /\ DOMAIN children' = 1..Len(children)
          /\ \A k \in 1..Len(children) :
               children'[k].index = IF k = Len(children) THEN i ELSE children[k].index
      BY <1>3, IndexElements
    <2>2. \A k \in 1..Len(children) : children[k].index # i
      BY <1>1, <1>3 DEF LowestFree, UsedIndexes
    <2> QED
      BY <1>1, <2>1, <2>2 DEF Distinct
  <1>4. ASSUME children # <<>> PROVE Distinct(Front(children))
    <2> DEFINE n == Len(children)
    <2>1. n \in Nat \ {0}
      BY <1>4, RemovalElements
    <2>2. /\ DOMAIN Front(children) = 1..(n - 1)
          /\ \A k \in 1..(n - 1) : Front(children)[k] = children[k]
      BY <1>4, RemovalElements
    <2>3. \A k \in 1..(n - 1) : k \in DOMAIN children
      BY <1>1, <2>1
    <2> QED
      BY <2>2, <2>3 DEF Distinct
  <1>5. ASSUME NEW i \in DOMAIN children PROVE Distinct(RemoveAt(children, i))
    <2> DEFINE n == Len(children)
               moved(k) == IF k < i THEN k ELSE k + 1
    <2>1. /\ DOMAIN RemoveAt(children, i) = 1..(n - 1)
          /\ \A k \in 1..(n - 1) :
               RemoveAt(children, i)[k] = IF k < i THEN children[k] ELSE children[k + 1]
      BY <1>1, RemoveAtProperties, LenProperties
    <2>2. \A k \in 1..(n - 1) :
            moved(k) \in DOMAIN children /\ RemoveAt(children, i)[k] = children[moved(k)]
      BY <1>1, <2>1
    <2>3. \A j, k \in 1..(n - 1) : moved(j) = moved(k) => j = k
      BY <1>1
    <2> HIDE DEF moved
    <2> QED
      BY <2>1, <2>2, <2>3 DEF Distinct
  <1> QED
    BY <1>2, <1>3, <1>4, <1>5

-----------------------------------------------------------------------------
(* The steps of a control thread                                           *)

\* Others than the thread that steps are where they were, and if it is changing
\* the proxy MTD they are not.
LEMMA OthersStay ==
  ASSUME ProxyInv, NEW t \in Ctl, CtlStep(t) \/ \E command \in Commands : Call(t, command)
  PROVE  \A s \in Ctl : s # t =>
           /\ pc'[s] = pc[s]
           /\ pc[t] \in Changing => pc[s] \notin Changing
  BY CtlMovesOne, ProxyInvOneChanger DEF ProxyInv, OneChanger

\* While a thread changes the proxy MTD, the last partition has no index just
\* when that thread has linked it.
LEMMA ChangerIndexed ==
  ASSUME DeviceInv, NEW t \in Ctl, pc[t] \in Changing
  PROVE  /\ pc[t] \notin Linked => Indexed(children, FALSE)
         /\ pc[t] \in Linked => Indexed(children, TRUE) /\ children # <<>>
  <1>1. \A s \in Ctl : pc[s] \in Linked => s = t
    BY ProxyInvOneChanger
    DEF DeviceInv, OneChanger, Linked, Changing, Rebuilding, Respawning
  <1>2. (\E s \in Ctl : pc[s] \in Linked) <=> pc[t] \in Linked
    BY <1>1
  <1> QED
    BY <1>2 DEF DeviceInv, PartitionsInv, IndexInv, Indexed, LinkedInv

\* A rebuilding goes on until the end of the respawn, and ends well only where
\* every element of the array has been registered.
LEMMA RebuildSteps ==
  ASSUME DeviceInv, NEW t \in Ctl, pc[t] \in Rebuilding,
         CtlStep(t) \/ \E command \in Commands : Call(t, command)
  PROVE  /\ pc'[t] \in Rebuilding \union {"end"}
         /\ UNCHANGED array
         /\ ret' \in {"ok", "failed", "stuck"}
         /\ pc'[t] = "end" /\ ret' = "ok" =>
              pc[t] = "register_parts" /\ Len(children) = Len(array)
         /\ ret' = "stuck" =>
              pc[t] \in Unregistering /\ ret = "ok" /\ UNCHANGED <<registered, children>>
  <1>1. PointsTyped
    BY DEF DeviceInv, ProxyInv
  <1>2. ret \in {"ok", "failed"}
    BY DEF DeviceInv, PartitionsInv, RespawnInv, DataTypes, Outcome, Rebuilding
  <1> USE DEF PointsTyped, Thread, Step, Return, Rebuilding, Respawning, recipeVars, callVars
  <1>3. CASE Unregister(t) \/ UnregisterChild(t) \/ UnregisterMaster(t)
    BY <1>1, <1>2, <1>3
    DEF Unregister, UnregisterChild, UnregisterMaster, UnregistrationMayFail, Unregistering
  <1>4. CASE RegisterMaster(t) \/ RegisterParts(t)
    BY <1>1, <1>2, <1>4 DEF RegisterMaster, RegisterParts
  <1>5. CASE RegisterChild(t) \/ UnlinkChild(t)
    BY <1>1, <1>2, <1>5 DEF RegisterChild, UnlinkChild
  <1> QED
    BY <1>3, <1>4, <1>5, ProxyAssumption
    DEF CtlStep, Call, Busy, GetInfo, AddRefuse, AddEnter, AddLink, AddRegister, AddUnlink,
        DelEnter, Resolve, DelFind, DelRemove, RecipeAdd, RecipeDel, Restart, ListRecipe,
        ListParts, CreateRefuse, CreateDie, CreateEnter, DeleteEnter, RespawnBegin,
        RespawnCheck, RespawnEnd, Command

\* A delete takes the first partition.
LEMMA DeleteTakesFirst ==
  ASSUME DeviceInv, Distinct(children), FirstInv, NEW t \in Ctl, DelRemove(t)
  PROVE  children # <<>> /\ children' = Tail(children)
  <1>1. children \in Seq(Child)
    BY DEF DeviceInv, DataTypes
  <1>2. children # <<>> /\ target = children[1].index
    BY DEF FirstInv, DelRemove, Return, Step
  <1>3. 1 \in DOMAIN children
    BY <1>1, <1>2, RemovalElements
  <1>4. PICK i \in DOMAIN children : children[i].index = target /\ children' = RemoveAt(children, i)
    BY DEF DelRemove
  <1>5. i = 1
    BY <1>2, <1>3, <1>4 DEF Distinct
  <1> QED
    BY <1>1, <1>2, <1>4, <1>5, RemovalElements

\* What a thread that changes the proxy MTD does to its list.
ListStep(t) ==
  \/ UNCHANGED children
  \/ pc[t] \notin Linked /\ \E o, l \in U64 : LinkChild(o, l)
  \/ pc[t] \in Linked /\ Free("table") /\ \E i \in Index : LowestFree(i) /\ IndexLastChild(i)
  \/ pc[t] \in Linked /\ children' = Front(children)
  \/ pc[t] \notin Linked /\ Free("table") /\ \E i \in DOMAIN children : children' = RemoveAt(children, i)

LEMMA ListSteps ==
  ASSUME DeviceInv, NEW t \in Ctl,
         CtlStep(t) \/ \E command \in Commands : Call(t, command)
  PROVE  ListStep(t)
  <1> USE DEF Step, Return, Linked, ListStep
  <1>1. array \in Seq(MtdPartition) /\ Len(children) \in Nat
    BY LenProperties DEF DeviceInv, DataTypes
  <1>2. CASE AddLink(t)
    BY <1>2, LinkTypes DEF AddLink
  <1>3. CASE AddRegister(t) \/ RegisterChild(t)
    BY <1>3 DEF AddRegister, RegisterChild
  <1>4. CASE AddUnlink(t) \/ UnlinkChild(t)
    BY <1>4 DEF AddUnlink, UnlinkChild
  <1>5. CASE DelRemove(t)
    BY <1>5 DEF DelRemove
  <1>6. CASE UnregisterChild(t)
    BY <1>6 DEF UnregisterChild
  <1>7. CASE RegisterParts(t)
    <2>1. CASE UNCHANGED children
      BY <2>1
    <2>2. CASE /\ Len(children) < Len(array)
               /\ LinkChild(array[Len(children) + 1].offset, array[Len(children) + 1].size)
      <3>1. Len(children) + 1 \in 1..Len(array)
        BY <1>1, <2>2, LenProperties
      <3>2. array[Len(children) + 1].offset \in U64 /\ array[Len(children) + 1].size \in U64
        BY <1>1, <3>1, LinkTypes
      <3>3. pc[t] \notin Linked
        BY <1>7 DEF RegisterParts
      <3> QED
        BY <2>2, <3>2, <3>3
    <2> QED
      BY <1>7, <2>1, <2>2 DEF RegisterParts
  <1>8. CASE \/ Resolve(t) \/ DelFind(t) \/ Unregister(t) \/ UnregisterMaster(t)
             \/ RegisterMaster(t)
    BY <1>8 DEF Resolve, DelFind, Unregister, UnregisterMaster, RegisterMaster, mtdVars
  <1>9. CASE pc[t] \notin Changing
    BY <1>9, CtlEffects DEF DeviceInv, ProxyInv, mtdVars
  <1> QED
    BY <1>2, <1>3, <1>4, <1>5, <1>6, <1>7, <1>8, <1>9, ProxyAssumption
    DEF CtlStep, Call, Busy, GetInfo, AddRefuse, AddEnter, DelEnter, RecipeAdd, RecipeDel,
        Restart, ListRecipe, ListParts, CreateRefuse, CreateDie, CreateEnter, DeleteEnter,
        RespawnBegin, RespawnCheck, RespawnEnd, Command, Changing, Rebuilding, Respawning

LEMMA CtlKeepsDistinct ==
  ASSUME DeviceInv, Distinct(children), FirstInv, NEW t \in Ctl,
         CtlStep(t) \/ \E command \in Commands : Call(t, command)
  PROVE  Distinct(children')
  <1>1. children \in Seq(Child)
    BY DEF DeviceInv, DataTypes
  <1>2. CASE UNCHANGED children
    BY <1>2
  <1>3. CASE pc[t] \in Changing
    <2>1. /\ pc[t] \notin Linked => Indexed(children, FALSE)
          /\ pc[t] \in Linked => children # <<>>
      BY <1>3, ChangerIndexed
    <2> QED
      BY <1>1, <1>2, <2>1, ListSteps, DistinctLists DEF ListStep
  <1>4. CASE pc[t] \notin Changing
    BY <1>2, <1>4, CtlEffects DEF DeviceInv, ProxyInv, mtdVars
  <1> QED
    BY <1>3, <1>4

\* What a delete has resolved stays resolved: the others leave list and target.
LEMMA CtlKeepsFirstInv ==
  ASSUME DeviceInv, FirstInv, NEW t \in Ctl,
         CtlStep(t) \/ \E command \in Commands : Call(t, command)
  PROVE  FirstInv'
  <1> SUFFICES ASSUME NEW s \in Ctl, pc'[s] \in {"del_find", "del_remove"}
               PROVE  children' # <<>> /\ target' = children'[1].index
    BY DEF FirstInv
  <1> USE DEF DeviceInv, ProxyInv
  <1>1. ASSUME pc[s] \in {"del_find", "del_remove"}, UNCHANGED <<children, target>>
        PROVE  children' # <<>> /\ target' = children'[1].index
    BY <1>1 DEF FirstInv
  <1>2. CASE s = t
    <2>1. CASE Resolve(t) /\ pc[t] = "resolve"
      <3>1. children # <<>> /\ target' = Head(children).index /\ UNCHANGED children
        BY <1>2, <2>1 DEF Resolve, Step, Return, mtdVars, PointsTyped, Thread
      <3>2. Head(children) = children[1]
        BY <3>1, HeadTailProperties DEF DataTypes
      <3> QED
        BY <3>1, <3>2
    <2>2. CASE DelFind(t)
      BY <1>1, <1>2, <2>2 DEF DelFind, Step, Return, mtdVars, PointsTyped, Thread
    <2> QED
      BY <1>2, <2>1, <2>2, ProxyAssumption
      DEF CtlStep, Call, Busy, GetInfo, AddRefuse, AddEnter, AddLink, AddRegister, AddUnlink,
          DelEnter, Resolve, DelFind, DelRemove, RecipeAdd, RecipeDel, Restart, ListRecipe,
          ListParts, CreateRefuse, CreateDie, CreateEnter, DeleteEnter, RespawnBegin,
          RespawnCheck, Unregister, UnregisterChild, UnregisterMaster, RegisterMaster,
          RegisterParts, RegisterChild, UnlinkChild, RespawnEnd, Command, Step, Return,
          PointsTyped, Thread
  <1>3. CASE s # t
    <2>1. pc[s] \in {"del_find", "del_remove"}
      BY <1>3, OthersStay
    <2>2. pc[t] \notin Changing
      BY <1>3, <2>1, ProxyInvOneChanger DEF OneChanger, Changing
    <2>3. ~Free("proxy")
      BY <2>1, ProxyHeld DEF Editing, Free, Thread
    <2>4. pc[t] \notin Editing /\ pc'[t] \notin Editing
      BY <2>2, <2>3, CtlMovesOne DEF CtlMove, Editing, Changing, Respawning
    <2>5. UNCHANGED <<children, target>>
      BY <2>2, <2>4, CtlEffects DEF mtdVars
    <2> QED
      BY <1>1, <2>1, <2>5
  <1> QED
    BY <1>2, <1>3

\* A partition that enters the list by ADD_MTD was asked for, and nobody else
\* changes the list before it is in the table.
LEMMA CtlKeepsAddedInv ==
  ASSUME DeviceInv, AddedInv, NEW t \in Ctl,
         CtlStep(t) \/ \E command \in Commands : Call(t, command)
  PROVE  AddedInv'
  <1> SUFFICES ASSUME NEW s \in Ctl, pc'[s] = "add_register" PROVE LastAsked'
    BY DEF AddedInv
  <1> USE DEF DeviceInv, ProxyInv
  <1>1. CASE s = t
    <2>1. AddLink(t) /\ pc[t] = "add_link"
      BY <1>1, ProxyAssumption
      DEF CtlStep, Call, Busy, GetInfo, AddRefuse, AddEnter, AddLink, AddRegister, AddUnlink,
          DelEnter, Resolve, DelFind, DelRemove, RecipeAdd, RecipeDel, Restart, ListRecipe,
          ListParts, CreateRefuse, CreateDie, CreateEnter, DeleteEnter, RespawnBegin,
          RespawnCheck, Unregister, UnregisterChild, UnregisterMaster, RegisterMaster,
          RegisterParts, RegisterChild, UnlinkChild, RespawnEnd, Command, Step, Return,
          PointsTyped, Thread
    <2>2. PICK r \in Immediates :
            /\ Len(children) < MaxChildren
            /\ ImmediateAccepted(r.offset, r.length)
            /\ LinkChild(r.offset, AdaptedLength(r.offset, r.length))
      BY <1>1, <2>1 DEF AddLink, Step, Return, PointsTyped, Thread
    <2>3. r.offset \in U64 /\ AdaptedLength(r.offset, r.length) \in U64
      BY <2>2, LinkTypes
    <2> DEFINE l == AdaptedLength(r.offset, r.length)
    <2> HIDE DEF l
    <2>4. /\ Len(children') = Len(children) + 1
          /\ children'[Len(children) + 1] = [index |-> NoIndex, offset |-> r.offset, size |-> l]
      BY <2>2, <2>3, LinkElements DEF DataTypes, l
    <2>5. /\ children'[Len(children')].offset = r.offset
          /\ children'[Len(children')].size = l
      BY <2>4
    <2>6. Len(children') <= MaxChildren
      BY <2>2, <2>4, LenProperties, ProxyAssumption DEF DataTypes
    <2> QED
      BY <2>2, <2>5, <2>6 DEF LastAsked, l
  <1>2. CASE s # t
    <2>1. pc[s] = "add_register"
      BY <1>2, OthersStay
    <2>2. pc[t] \notin Changing
      BY <1>2, <2>1, ProxyInvOneChanger DEF OneChanger, Changing
    <2>3. UNCHANGED children
      BY <2>2, CtlEffects DEF mtdVars
    <2> QED
      BY <2>1, <2>3 DEF AddedInv, LastAsked
  <1> QED
    BY <1>1, <1>2

\* A respawn links a partition only if it has a name.
LEMMA CtlKeepsNamedInv ==
  ASSUME DeviceInv, NamedInv, NEW t \in Ctl,
         CtlStep(t) \/ \E command \in Commands : Call(t, command)
  PROVE  NamedInv'
  <1> SUFFICES ASSUME NEW s \in Ctl, pc'[s] \in {"register_parts", "register_child"}
               PROVE  BuiltNamed'
    BY DEF NamedInv
  <1> USE DEF DeviceInv, ProxyInv
  <1>1. children \in Seq(Child) /\ Len(children) \in Nat
    BY LenProperties DEF DataTypes
  <1>2. CASE s = t
    <2> USE DEF Step, Return, PointsTyped, Thread
    <2>1. CASE RegisterMaster(t)
      <3>1. children = <<>> /\ UNCHANGED children
        BY <2>1 DEF RegisterMaster, PartitionsInv, RespawnInv
      <3>2. Len(children') = 0
        BY <3>1, EmptySeq
      <3> QED
        BY <3>2 DEF BuiltNamed
    <2>2. CASE RegisterParts(t)
      <3>1. BuiltNamed /\ UNCHANGED array /\ array \in Seq(MtdPartition)
        BY <2>2 DEF RegisterParts, NamedInv, recipeVars, DataTypes
      <3>2. /\ Len(children) < Len(array)
            /\ array[Len(children) + 1].named
            /\ LinkChild(array[Len(children) + 1].offset, array[Len(children) + 1].size)
        BY <1>2, <2>2 DEF RegisterParts
      <3>3. Len(children) + 1 \in 1..Len(array)
        BY <1>1, <3>1, <3>2, LenProperties
      <3>4. array[Len(children) + 1].offset \in U64 /\ array[Len(children) + 1].size \in U64
        BY <3>1, <3>3, LinkTypes
      <3>5. Len(children') = Len(children) + 1
        BY <1>1, <3>2, <3>4, LinkElements
      <3>6. \A i \in 1..Len(children') : i \in 1..Len(children) \/ i = Len(children) + 1
        BY <1>1, <3>5
      <3> QED
        BY <3>1, <3>2, <3>6 DEF BuiltNamed
    <2>3. CASE RegisterChild(t)
      <3>1. BuiltNamed /\ UNCHANGED array
        BY <2>3 DEF RegisterChild, NamedInv, recipeVars
      <3>2. Len(children') = Len(children)
        <4>1. PICK i \in Index : IndexLastChild(i)
          BY <1>2, <2>3 DEF RegisterChild
        <4> QED
          BY <1>1, <4>1, IndexElements
      <3> QED
        BY <3>1, <3>2 DEF BuiltNamed
    <2> QED
      BY <1>2, <2>1, <2>2, <2>3, ProxyAssumption
      DEF CtlStep, Call, Busy, GetInfo, AddRefuse, AddEnter, AddLink, AddRegister, AddUnlink,
          DelEnter, Resolve, DelFind, DelRemove, RecipeAdd, RecipeDel, Restart, ListRecipe,
          ListParts, CreateRefuse, CreateDie, CreateEnter, DeleteEnter, RespawnBegin,
          RespawnCheck, Unregister, UnregisterChild, UnregisterMaster, UnlinkChild, RespawnEnd,
          Command
  <1>3. CASE s # t
    <2>1. pc[s] \in {"register_parts", "register_child"}
      BY <1>3, OthersStay
    <2>2. pc[s] \in Respawning /\ pc[s] \in Flagged
      BY <2>1 DEF Respawning, Flagged
    <2>3. pc[t] \notin Respawning /\ ~Free("recipe") /\ pc[t] \notin Changing
      BY <1>3, <2>2, RespawnAlone
    <2>4. UNCHANGED <<children, array>>
      BY <2>3, CtlEffects DEF mtdVars
    <2> QED
      BY <2>1, <2>4 DEF NamedInv, BuiltNamed
  <1> QED
    BY <1>2, <1>3

\* The table has a device in it.
TableNotEmpty == registered \/ \E i \in DOMAIN children : children[i].index # NoIndex

LEMMA IndexesUsed == DataTypes => (UsedIndexes \ {NoIndex} # {} <=> TableNotEmpty)
  <1> SUFFICES ASSUME DataTypes PROVE UsedIndexes \ {NoIndex} # {} <=> TableNotEmpty
    OBVIOUS
  <1>1. index # NoIndex
    BY ProxyAssumption DEF DataTypes, NoIndex
  <1> QED
    BY <1>1 DEF UsedIndexes, TableNotEmpty

\* Nothing leaves the table without mtd_table_mutex.
LEMMA CtlKeepsTableNotEmpty ==
  ASSUME DeviceInv, Distinct(children), FirstInv, TableNotEmpty, ~Free("table"), NEW t \in Ctl,
         CtlStep(t) \/ \E command \in Commands : Call(t, command)
  PROVE  TableNotEmpty'
  <1>1. children \in Seq(Child) /\ DOMAIN children = 1..Len(children) /\ Len(children) \in Nat
    BY LenProperties DEF DeviceInv, DataTypes
  <1>2. registered => registered'
    BY ProxyAssumption
    DEF CtlStep, Call, Busy, GetInfo, AddRefuse, AddEnter, AddLink, AddRegister, AddUnlink,
        DelEnter, Resolve, DelFind, DelRemove, RecipeAdd, RecipeDel, Restart, ListRecipe,
        ListParts, CreateRefuse, CreateDie, CreateEnter, DeleteEnter, RespawnBegin,
        RespawnCheck, Unregister, UnregisterChild, UnregisterMaster, RegisterMaster,
        RegisterParts, RegisterChild, UnlinkChild, RespawnEnd, mtdVars
  <1>3. ASSUME NEW i \in DOMAIN children, children[i].index # NoIndex
        PROVE  \E k \in DOMAIN children' : children'[k].index # NoIndex
    <2>1. CASE UNCHANGED children
      BY <1>3, <2>1
    <2>2. ASSUME NEW o \in U64, NEW l \in U64, LinkChild(o, l)
          PROVE  \E k \in DOMAIN children' : children'[k].index # NoIndex
      <3>1. /\ DOMAIN children' = 1..(Len(children) + 1)
            /\ \A k \in 1..Len(children) : children'[k] = children[k]
        BY <1>1, <2>2, LinkElements
      <3>2. i \in 1..(Len(children) + 1)
        BY <1>1
      <3> QED
        BY <1>1, <1>3, <3>1, <3>2
    <2>3. CASE pc[t] \in Linked /\ children' = Front(children)
      <3>1. pc[t] \in Changing
        BY <2>3 DEF Linked, Changing, Rebuilding, Respawning
      <3>2. Indexed(children, TRUE) /\ children # <<>>
        BY <2>3, <3>1, ChangerIndexed
      <3>3. i # Len(children)
        BY <1>3, <3>2 DEF Indexed
      <3>4. i \in DOMAIN Front(children) /\ Front(children)[i] = children[i]
        <4>1. i \in 1..(Len(children) - 1)
          BY <1>1, <3>3
        <4> QED
          BY <1>1, <3>2, <4>1, RemovalElements
      <3> QED
        BY <1>3, <2>3, <3>4
    <2> QED
      BY <2>1, <2>2, <2>3, ListSteps DEF ListStep
  <1> QED
    BY <1>2, <1>3 DEF TableNotEmpty

LEMMA CtlKeepsFoundInv ==
  ASSUME DeviceInv, DataTypes', Distinct(children), FirstInv, FoundInv, NEW t \in Ctl,
         CtlStep(t) \/ \E command \in Commands : Call(t, command)
  PROVE  FoundInv'
  <1> SUFFICES ASSUME NEW u \in User, pc'[u] = "get_hook"
               PROVE  (UsedIndexes \ {NoIndex} # {})'
    BY DEF FoundInv
  <1>1. pc[u] = "get_hook"
    BY CtlMovesOne, ProxyAssumption
    DEF DeviceInv, ProxyInv, CtlMove, Step, PointsTyped, Thread
  <1>2. ~Free("table")
    BY <1>1 DEF Free, Held, Respawning, Thread
  <1>3. TableNotEmpty
    BY <1>1, IndexesUsed DEF FoundInv, DeviceInv
  <1>4. TableNotEmpty'
    BY <1>2, <1>3, CtlKeepsTableNotEmpty
  <1>5. DataTypes' => ((UsedIndexes \ {NoIndex} # {})' <=> TableNotEmpty')
    BY IndexesUsed, PTL
  <1> QED
    BY <1>4, <1>5

-----------------------------------------------------------------------------
(* The history and the table                                               *)

\* The history has the partitions of the list.
Shows(list) ==
  /\ Len(shownChildren) = Len(list)
  /\ \A i \in DOMAIN list :
       shownChildren[i].offset = list[i].offset /\ shownChildren[i].size = list[i].size

\* A thread that is adding a partition is the only one that is changing any.
LEMMA ThereOf ==
  ASSUME ProxyInv, NEW t \in Ctl, pc[t] \in Changing
  PROVE  There = IF pc[t] \in {"add_register", "add_unlink"} THEN Front(children) ELSE children
  <1>1. \A s \in Ctl : s # t => pc[s] \notin {"add_register", "add_unlink"}
    BY ProxyInvOneChanger DEF OneChanger, Changing
  <1> QED
    BY <1>1 DEF There

\* The same of the state after a step of that thread.
LEMMA ThereAfter ==
  ASSUME ProxyInv, NEW t \in Ctl, pc[t] \in Changing,
         CtlStep(t) \/ \E command \in Commands : Call(t, command)
  PROVE  There' = IF pc'[t] \in {"add_register", "add_unlink"} THEN Front(children') ELSE children'
  <1>1. \A s \in Ctl : s # t => pc'[s] \notin {"add_register", "add_unlink"}
    BY OthersStay DEF Changing
  <1> QED
    BY <1>1 DEF There

\* The array of a respawn as devices, one for each element.
LEMMA ArrayAsDevices ==
  ASSUME array \in Seq(MtdPartition)
  PROVE  LET s == [i \in DOMAIN array |-> IO!AsDevice(array[i])]
         IN  /\ s \in Seq(IO!Device)
             /\ Len(s) = Len(array)
             /\ \A i \in DOMAIN array : s[i].offset = array[i].offset /\ s[i].size = array[i].size
  <1> DEFINE s == [i \in DOMAIN array |-> IO!AsDevice(array[i])]
  <1>1. Len(array) \in Nat /\ DOMAIN array = 1..Len(array)
    BY LenProperties
  <1>2. ASSUME NEW i \in DOMAIN array
        PROVE  /\ IO!AsDevice(array[i]) \in IO!Device
               /\ IO!AsDevice(array[i]).offset = array[i].offset
               /\ IO!AsDevice(array[i]).size = array[i].size
    <2>1. array[i] \in MtdPartition
      BY <1>1, ElementOfSeq
    <2> QED
      BY <2>1 DEF MtdPartition, IO!AsDevice, IO!Device, IO!U64, U64
  <1>3. s \in [1..Len(array) -> IO!Device]
    BY <1>1, <1>2
  <1> HIDE DEF s
  <1>4. s \in Seq(IO!Device) /\ Len(s) = Len(array)
    BY <1>1, <1>3, IsASeq, LenProperties
  <1> QED
    BY <1>2, <1>4 DEF s

\* The partitions of shownChildren at the positions kept, as a list of their own.
LEMMA KeptDevices ==
  ASSUME shownChildren \in Seq(IO!Device), children \in Seq(Child), Keeping
  PROVE  LET left == [i \in DOMAIN kept |-> shownChildren[kept[i]]]
         IN  left \in Seq(IO!Device) /\ Len(left) = Len(children) /\
             \A i \in DOMAIN children :
               left[i].offset = children[i].offset /\ left[i].size = children[i].size
  <1> DEFINE left == [i \in DOMAIN kept |-> shownChildren[kept[i]]]
  <1>1. /\ kept \in Seq(DOMAIN shownChildren)
        /\ Len(kept) = Len(children)
        /\ \A i \in 1..Len(kept) : /\ shownChildren[kept[i]].offset = children[i].offset
                                   /\ shownChildren[kept[i]].size = children[i].size
    BY DEF Keeping
  <1>2. /\ Len(kept) \in Nat /\ DOMAIN kept = 1..Len(kept)
        /\ DOMAIN shownChildren = 1..Len(shownChildren)
        /\ DOMAIN children = 1..Len(kept)
    BY <1>1, LenProperties
  <1>3. \A i \in 1..Len(kept) : shownChildren[kept[i]] \in IO!Device
    <2> SUFFICES ASSUME NEW i \in 1..Len(kept) PROVE shownChildren[kept[i]] \in IO!Device
      OBVIOUS
    <2>1. kept[i] \in DOMAIN shownChildren
      BY ONLY <1>1, ElementOfSeq
    <2> QED
      BY <1>2, <2>1, ElementOfSeq
  <1>4. left \in [1..Len(kept) -> IO!Device]
    BY <1>2, <1>3
  <1>5. left \in Seq(IO!Device) /\ Len(left) = Len(kept)
    BY <1>2, <1>4, IsASeq, LenProperties
  <1> QED
    BY <1>1, <1>2, <1>5

\* What a removal leaves of the list is what it leaves of the positions.
LEMMA RemovalKeeps ==
  ASSUME children \in Seq(Child), Keeping, UNCHANGED <<shownVars, registered>>,
         NEW i \in DOMAIN children, children' = RemoveAt(children, i),
         kept' = RemoveAt(kept, i)
  PROVE  Keeping'
  <1> DEFINE n == Len(children)
             moved(k) == IF k < i THEN k ELSE k + 1
  <1>1. /\ kept \in Seq(DOMAIN shownChildren) /\ Len(kept) = n
        /\ n <= Len(shownChildren)
        /\ \A k, j \in 1..n : k < j => kept[k] < kept[j]
        /\ \A k \in 1..n : /\ shownChildren[kept[k]].offset = children[k].offset
                           /\ shownChildren[kept[k]].size = children[k].size
        /\ shownRegistered = registered
    BY DEF Keeping
  <1>2. n \in Nat /\ DOMAIN children = 1..n /\ i \in 1..n
    BY LenProperties
  <1>3. /\ Len(children') = n - 1
        /\ \A k \in 1..(n - 1) : children'[k] = IF k < i THEN children[k] ELSE children[k + 1]
    BY <1>2, RemoveAtProperties
  <1>4. /\ kept' \in Seq(DOMAIN shownChildren)
        /\ Len(kept') = n - 1
        /\ \A k \in 1..(n - 1) : kept'[k] = IF k < i THEN kept[k] ELSE kept[k + 1]
    <2> DEFINE S == DOMAIN shownChildren
    <2>1. kept \in Seq(S) /\ i \in 1..Len(kept)
      BY <1>1, <1>2
    <2> HIDE DEF S
    <2>2. /\ RemoveAt(kept, i) \in Seq(S)
          /\ Len(RemoveAt(kept, i)) = Len(kept) - 1
          /\ \A k \in 1..(Len(kept) - 1) :
               RemoveAt(kept, i)[k] = IF k < i THEN kept[k] ELSE kept[k + 1]
      BY ONLY <2>1, RemoveAtProperties
    <2>3. UNCHANGED shownChildren
      BY DEF shownVars
    <2> QED
      BY <1>1, <2>2, <2>3 DEF S
  <1>5. \A k \in 1..(n - 1) : /\ moved(k) \in 1..n
                             /\ children'[k] = children[moved(k)]
                             /\ kept'[k] = kept[moved(k)]
    <2> SUFFICES ASSUME NEW k \in 1..(n - 1)
                 PROVE  /\ moved(k) \in 1..n
                        /\ children'[k] = children[moved(k)]
                        /\ kept'[k] = kept[moved(k)]
      OBVIOUS
    <2>1. moved(k) \in 1..n
      BY ONLY <1>2, k \in 1..(n - 1)
    <2>2. children'[k] = IF k < i THEN children[k] ELSE children[k + 1]
      BY ONLY <1>3, k \in 1..(n - 1)
    <2>3. kept'[k] = IF k < i THEN kept[k] ELSE kept[k + 1]
      BY ONLY <1>4, k \in 1..(n - 1)
    <2> QED
      BY ONLY <2>1, <2>2, <2>3
  <1>6. \A k, j \in 1..(n - 1) : k < j => moved(k) < moved(j)
    BY <1>2
  <1> HIDE DEF moved
  <1>7. \A k, j \in 1..(n - 1) : k < j => kept'[k] < kept'[j]
    BY <1>1, <1>5, <1>6
  <1>8. \A k \in 1..(n - 1) : /\ shownChildren[kept'[k]].offset = children'[k].offset
                             /\ shownChildren[kept'[k]].size = children'[k].size
    BY <1>1, <1>5
  <1>9. shownChildren' = shownChildren /\ shownRegistered' = registered'
    BY <1>1 DEF shownVars
  <1>10. n - 1 <= Len(shownChildren')
    BY <1>1, <1>2, <1>9, LenProperties
  <1> QED
    BY <1>3, <1>4, <1>7, <1>8, <1>9, <1>10 DEF Keeping

\* Where a thread rebuilds, the history takes over what it has built.
LEMMA RebuiltShown ==
  ASSUME DeviceInv, shownChildren \in Seq(IO!Device), KeptInv,
         NEW t \in Ctl, pc[t] \in Rebuilding, pc'[t] = "end", Show(t),
         CtlStep(t) \/ \E command \in Commands : Call(t, command)
  PROVE  /\ shownChildren' \in Seq(IO!Device)
         /\ shownRegistered' = registered'
         /\ Shows(children)'
  <1>1. RespawnAt(t)'
    BY RespawnerKeepsRespawnInv DEF DeviceInv, PartitionsInv
  <1>2. UNCHANGED array /\ ret' \in {"ok", "failed", "stuck"} /\ array \in Seq(MtdPartition)
    BY RebuildSteps DEF DeviceInv, DataTypes
  <1>3. CASE ret' = "ok"
    <2>1. registered' /\ Built' /\ Len(children') = Len(array')
      BY <1>1, <1>3 DEF RespawnAt
    <2>2. shownRegistered' = TRUE /\ shownChildren' = [i \in DOMAIN array |-> IO!AsDevice(array[i])]
      BY <1>3 DEF Show, Rebuilt, Added, Deleted, shownVars, Rebuilding, Respawning
    <2>3. /\ shownChildren' \in Seq(IO!Device)
          /\ Len(shownChildren') = Len(array)
          /\ \A i \in DOMAIN array : /\ shownChildren'[i].offset = array[i].offset
                                     /\ shownChildren'[i].size = array[i].size
      BY <1>2, <2>2, ArrayAsDevices
    <2>4. children' \in Seq(Child) /\ registered' \in BOOLEAN
      BY CtlKeepsDataTypes DEF DeviceInv, DataTypes
    <2>5. DOMAIN children' = DOMAIN array
      BY <1>2, <2>1, <2>4, LenProperties
    <2> QED
      BY <1>2, <2>1, <2>2, <2>3, <2>4, <2>5 DEF Shows, Built
  <1>4. CASE ret' = "failed"
    <2>1. ~registered' /\ children' = <<>> /\ registered' \in BOOLEAN
      BY <1>1, <1>4, CtlKeepsDataTypes DEF RespawnAt, DeviceInv, DataTypes
    <2>2. shownRegistered' = FALSE /\ shownChildren' = <<>>
      BY <1>4 DEF Show, Rebuilt, Added, Deleted, shownVars, Rebuilding, Respawning
    <2> QED
      BY <2>1, <2>2, EmptySeq DEF Shows
  <1>5. CASE ret' = "stuck"
    <2>1. pc[t] \in Unregistering /\ ret = "ok" /\ UNCHANGED <<registered, children>>
      BY <1>5, RebuildSteps
    <2>2. Keeping /\ children \in Seq(Child)
      BY <2>1 DEF KeptInv, DeviceInv, DataTypes
    <2>3. /\ shownRegistered' = shownRegistered
          /\ shownChildren' = [i \in DOMAIN kept |-> shownChildren[kept[i]]]
      BY <1>5 DEF Show, Rebuilt, Added, Deleted, Rebuilding, Respawning
    <2>4. shownRegistered' = registered'
      BY <2>1, <2>2, <2>3 DEF Keeping
    <2> QED
      BY <2>1, <2>2, <2>3, <2>4, KeptDevices DEF Shows
  <1> QED
    BY <1>2, <1>3, <1>4, <1>5

\* An editing thread keeps the history up with the table.
LEMMA EditedShown ==
  ASSUME DeviceInv, Distinct(children), FirstInv, NEW t \in Ctl, pc[t] \in Editing,
         shownChildren \in Seq(IO!Device), shownRegistered = registered, Shows(There), Show(t),
         CtlStep(t) \/ \E command \in Commands : Call(t, command)
  PROVE  /\ shownChildren' \in Seq(IO!Device)
         /\ shownRegistered' = registered'
         /\ Shows(There)'
  <1>1. children \in Seq(Child) /\ Len(children) \in Nat /\ DOMAIN children = 1..Len(children)
    BY LenProperties DEF DeviceInv, DataTypes
  <1>2. pc[t] \in Changing /\ pc[t] \notin Rebuilding
    BY DEF Editing, Changing, Rebuilding, Respawning
  <1>3. /\ There = IF pc[t] \in {"add_register", "add_unlink"} THEN Front(children) ELSE children
        /\ There' = IF pc'[t] \in {"add_register", "add_unlink"} THEN Front(children') ELSE children'
    BY <1>2, ThereOf, ThereAfter DEF DeviceInv, ProxyInv
  <1>4. pc[t] \in {"add_register", "add_unlink"} => children # <<>>
    BY <1>2, ChangerIndexed DEF Linked
  <1>5. shownRegistered' = shownRegistered /\ ~Rebuilt(t)
    BY <1>2 DEF Show, Rebuilt, Added, Deleted, shownVars, Rebuilding, Respawning
  <1>6. PointsTyped
    BY DEF DeviceInv, ProxyInv
  <1> USE DEF Step, Return, PointsTyped, Thread
  <1>7. CASE AddLink(t)
    <2>1. shownChildren' = shownChildren /\ registered' = registered
      BY <1>5, <1>7 DEF Show, Added, Deleted, Rebuilt, shownVars, AddLink
    <2>2. CASE UNCHANGED children /\ pc'[t] = "idle"
      BY <1>3, <1>5, <1>7, <2>1, <2>2 DEF AddLink, Shows
    <2>3. ASSUME NEW r \in Immediates, pc'[t] = "add_register",
                 ImmediateAccepted(r.offset, r.length),
                 LinkChild(r.offset, AdaptedLength(r.offset, r.length))
          PROVE  Shows(There)'
      <3>1. r.offset \in U64 /\ AdaptedLength(r.offset, r.length) \in U64
        BY <2>3, LinkTypes
      <3>2. /\ Len(children') = Len(children) + 1
            /\ \A k \in 1..Len(children) : children'[k] = children[k]
        BY <1>1, <2>3, <3>1, LinkElements
      <3>3. children' \in Seq(Child)
        BY CtlKeepsDataTypes DEF DeviceInv, DataTypes
      <3>4. children' # <<>>
        BY <1>1, <3>2, EmptySeq
      <3>5. /\ Len(Front(children')) = Len(children') - 1
            /\ DOMAIN Front(children') = 1..(Len(children') - 1)
            /\ \A k \in 1..(Len(children') - 1) : Front(children')[k] = children'[k]
        BY <3>3, <3>4, FrontProperties, LenProperties
      <3>6. /\ Len(Front(children')) = Len(children)
            /\ DOMAIN Front(children') = 1..Len(children)
            /\ \A k \in 1..Len(children) : Front(children')[k] = children[k]
        BY <1>1, <3>2, <3>5
      <3>7. There = children /\ There' = Front(children')
        BY <1>3, <1>7, <2>3 DEF AddLink
      <3> QED
        BY <1>1, <2>1, <3>6, <3>7 DEF Shows
    <2> QED
      BY <1>5, <1>6, <1>7, <2>1, <2>2, <2>3 DEF AddLink
  <1>8. CASE AddRegister(t)
    <2>1. registered' = registered /\ pc[t] = "add_register" /\ There = Front(children)
      BY <1>3, <1>8 DEF AddRegister
    <2>2. CASE pc'[t] = "idle"
      <3>1. PICK i \in Index : IndexLastChild(i)
        BY <1>6, <1>8, <2>2 DEF AddRegister
      <3> DEFINE d == AsAdded(children[Len(children)])
                 n == Len(children)
      <3>2. n \in Nat \ {0} /\ children[n] \in Child
        BY <1>1, <1>4, <2>1, RemovalElements, ElementOfSeq
      <3>3. d \in IO!Device /\ d.offset = children[n].offset /\ d.size = children[n].size
        BY <3>2 DEF AsAdded, Child, IO!Device, IO!U64, U64
      <3>4. shownChildren' = Append(shownChildren, d)
        BY <1>5, <2>1, <2>2 DEF Show, Added, Deleted, Rebuilt, shownVars
      <3> HIDE DEF d
      <3>5. Len(shownChildren) = n - 1 /\ DOMAIN Front(children) = 1..(n - 1)
            /\ \A k \in 1..(n - 1) : Front(children)[k] = children[k]
        BY <1>1, <1>4, <2>1, RemovalElements DEF Shows
      <3>6. /\ shownChildren' \in Seq(IO!Device)
            /\ Len(shownChildren') = n
            /\ \A k \in 1..(n - 1) : shownChildren'[k] = shownChildren[k]
            /\ shownChildren'[n] = d
        BY <3>2, <3>3, <3>4, <3>5, AppendProperties, LenProperties
      <3>7. /\ Len(children') = n
            /\ DOMAIN children' = 1..n
            /\ \A k \in 1..n : /\ children'[k].offset = children[k].offset
                               /\ children'[k].size = children[k].size
        BY <1>1, <3>1, IndexElements
      <3>8. ASSUME NEW k \in 1..n
            PROVE  /\ shownChildren'[k].offset = children[k].offset
                   /\ shownChildren'[k].size = children[k].size
        <4>1. CASE k = n
          BY <3>3, <3>6, <4>1
        <4>2. CASE k # n
          <5>1. k \in 1..(n - 1)
            BY <3>2, <4>2
          <5> QED
            BY <2>1, <3>5, <3>6, <5>1 DEF Shows
        <4> QED
          BY <4>1, <4>2
      <3>9. There' = children'
        BY <1>3, <2>2
      <3> QED
        BY <1>5, <2>1, <3>6, <3>7, <3>8, <3>9 DEF Shows
    <2>3. CASE pc'[t] = "add_unlink" /\ UNCHANGED children
      <3>1. shownChildren' = shownChildren
        BY <1>5, <2>1, <2>3 DEF Show, Added, Deleted, Rebuilt, shownVars
      <3> QED
        BY <1>3, <1>5, <2>1, <2>3, <3>1 DEF Shows
    <2> QED
      BY <1>6, <1>8, <2>2, <2>3 DEF AddRegister
  <1>9. CASE AddUnlink(t)
    <2>1. /\ registered' = registered /\ pc[t] = "add_unlink" /\ pc'[t] = "idle"
          /\ children' = Front(children)
      BY <1>6, <1>9 DEF AddUnlink
    <2>2. shownChildren' = shownChildren
      BY <1>5, <2>1 DEF Show, Added, Deleted, Rebuilt, shownVars
    <2> QED
      BY <1>3, <1>5, <2>1, <2>2 DEF Shows
  <1>10. CASE Resolve(t) \/ DelFind(t)
    <2>1. /\ UNCHANGED mtdVars /\ pc[t] \in {"resolve", "del_find"}
          /\ pc'[t] \in {"idle", "del_find", "del_remove"}
      BY <1>6, <1>10 DEF Resolve, DelFind
    <2>2. shownChildren' = shownChildren
      BY <1>5, <2>1 DEF Show, Added, Deleted, Rebuilt, shownVars
    <2> QED
      BY <1>3, <1>5, <2>1, <2>2 DEF Shows, mtdVars
  <1>11. CASE DelRemove(t)
    <2>1. /\ registered' = registered /\ pc[t] = "del_remove" /\ pc'[t] = "idle"
          /\ children # <<>> /\ children' = Tail(children)
      BY <1>6, <1>11, DeleteTakesFirst DEF DelRemove
    <2>2. shownChildren' = Tail(shownChildren)
      BY <1>5, <2>1 DEF Show, Added, Deleted, Rebuilt, shownVars
    <2> DEFINE n == Len(children)
    <2>3. /\ n \in Nat \ {0}
          /\ Len(Tail(children)) = n - 1
          /\ DOMAIN Tail(children) = 1..(n - 1)
          /\ \A k \in 1..(n - 1) : Tail(children)[k] = children[k + 1]
      BY <1>1, <2>1, RemovalElements
    <2>4. Len(shownChildren) = n /\ There = children
      BY <1>3, <2>1 DEF Shows
    <2>5. shownChildren # <<>>
      BY <2>3, <2>4, EmptySeq
    <2>6. /\ Tail(shownChildren) \in Seq(IO!Device)
          /\ Len(Tail(shownChildren)) = n - 1
          /\ \A k \in 1..(n - 1) : Tail(shownChildren)[k] = shownChildren[k + 1]
      BY <2>4, <2>5, HeadTailProperties
    <2>7. \A k \in 1..(n - 1) : k + 1 \in DOMAIN children
      BY <1>1, <2>3
    <2> QED
      BY <1>3, <1>5, <2>1, <2>2, <2>3, <2>4, <2>6, <2>7 DEF Shows
  <1> QED
    BY <1>6, <1>7, <1>8, <1>9, <1>10, <1>11, ProxyAssumption
    DEF CtlStep, Call, Busy, GetInfo, AddRefuse, AddEnter, DelEnter, RecipeAdd, RecipeDel,
        Restart, ListRecipe, ListParts, CreateRefuse, CreateDie, CreateEnter, DeleteEnter,
        RespawnBegin, RespawnCheck, Unregister, UnregisterChild, UnregisterMaster,
        RegisterMaster, RegisterParts, RegisterChild, UnlinkChild, RespawnEnd, Command, Editing

\* Whoever steps, between two respawns the history is that of the table.
LEMMA CtlKeepsShown ==
  ASSUME DeviceInv, Distinct(children), FirstInv, KeptInv, shownChildren \in Seq(IO!Device),
         ShownIsThere, NEW t \in Ctl, Show(t), CtlStep(t) \/ \E command \in Commands : Call(t, command)
  PROVE  (shownChildren \in Seq(IO!Device))' /\ ShownIsThere'
  <1>1. CASE pc[t] \in Rebuilding
    <2>1. pc[t] \in Changing /\ pc[t] \notin {"add_register", "del_remove"}
      BY <1>1 DEF Changing, Rebuilding, Respawning
    <2>2. CASE pc'[t] = "end"
      <3>1. There' = children'
        BY <2>1, <2>2, ThereAfter DEF DeviceInv
      <3>2. /\ shownChildren' \in Seq(IO!Device)
            /\ shownRegistered' = registered'
            /\ Shows(children)'
        BY <1>1, <2>2, RebuiltShown
      <3> QED
        BY <3>1, <3>2 DEF ShownIsThere, Shows
    <2>3. CASE pc'[t] \in Rebuilding
      <3>1. pc'[t] # "end"
        BY <2>3 DEF Rebuilding
      <3>2. shownChildren' = shownChildren
        BY <2>1, <3>1 DEF Show, Rebuilt, Added, Deleted, shownVars
      <3>3. ShownIsThere'
        BY <2>3 DEF ShownIsThere
      <3> QED
        BY <3>2, <3>3
    <2> QED
      BY <1>1, <2>2, <2>3, RebuildSteps
  <1>2. CASE pc[t] \in Editing
    <2>1. \A s \in Ctl : pc[s] \notin Rebuilding
      <3>1. pc[t] \in Changing /\ pc[t] \notin Rebuilding
        BY <1>2 DEF Editing, Changing, Rebuilding, Respawning
      <3> QED
        BY <3>1, OthersStay DEF DeviceInv, Changing
    <2>2. shownRegistered = registered /\ Shows(There)
      BY <2>1 DEF ShownIsThere, Shows
    <2>3. /\ shownChildren' \in Seq(IO!Device)
          /\ shownRegistered' = registered'
          /\ Shows(There)'
      BY <1>2, <2>2, EditedShown
    <2> QED
      BY <2>3 DEF ShownIsThere, Shows
  <1>3. CASE pc[t] \notin Changing
    <2>1. UNCHANGED mtdVars /\ pc[t] \notin Linked /\ pc'[t] \notin Linked
      BY <1>3, CtlEffects
      DEF DeviceInv, ProxyInv, Linked, Changing, Rebuilding, Respawning
    <2>2. \A s \in Ctl : s # t => pc'[s] = pc[s]
      BY OthersStay DEF DeviceInv
    <2>3. There' = There
      BY <2>1, <2>2 DEF There, Linked, mtdVars
    <2>4. UNCHANGED shownVars
      BY <1>3 DEF Show, Rebuilt, Added, Deleted, shownVars, Changing
    <2>5. (\A s \in Ctl : pc'[s] \notin Rebuilding) => \A s \in Ctl : pc[s] \notin Rebuilding
      BY <1>3, <2>2 DEF Changing
    <2> QED
      BY <2>1, <2>3, <2>4, <2>5 DEF ShownIsThere, shownVars, mtdVars
  <1> QED
    BY <1>1, <1>2, <1>3 DEF Changing, Editing

\* A respawn begins its unregistration with all that there is, and what a child
\* is taken out of is what it is taken out of the positions kept.
LEMMA CtlKeepsKeptInv ==
  ASSUME DeviceInv, shownChildren \in Seq(IO!Device), ShownIsThere, KeptInv,
         NEW t \in Ctl, Show(t), Keep(t),
         CtlStep(t) \/ \E command \in Commands : Call(t, command)
  PROVE  KeptInv'
  <1> SUFFICES ASSUME NEW s \in Ctl, pc'[s] \in Unregistering, ret' = "ok"
               PROVE  Keeping'
    BY DEF KeptInv
  <1>1. DataTypes /\ PointsTyped
    BY DEF DeviceInv, ProxyInv
  <1>2. pc'[s] \in Rebuilding /\ pc'[s] # "end"
    BY DEF Unregistering, Rebuilding, Respawning
  <1>3. CASE s = t
    <2>1. \/ RespawnCheck(t) /\ pc[t] = "check"
          \/ Unregister(t) /\ pc[t] = "unregister"
          \/ UnregisterChild(t) /\ pc[t] = "unregister_child"
          \/ RegisterParts(t) /\ ret' = "failed"
          \/ UnlinkChild(t) /\ ret' = ret /\ pc[t] = "unlink_child"
      BY SMTT(30), <1>1, <1>3, ProxyAssumption
      DEF CtlStep, Call, Busy, GetInfo, AddRefuse, AddEnter, AddLink, AddRegister, AddUnlink,
          DelEnter, Resolve, DelFind, DelRemove, RecipeAdd, RecipeDel, Restart, ListRecipe,
          ListParts, CreateRefuse, CreateDie, CreateEnter, DeleteEnter, RespawnBegin,
          RespawnCheck, Unregister, UnregisterChild, UnregisterMaster, RegisterMaster,
          RegisterParts, RegisterChild, UnlinkChild, RespawnEnd, Command, Step, Return,
          Unregistering, PointsTyped, Thread, callVars
    <2>2. ret = "ok" /\ ~(UnlinkChild(t) /\ pc[t] = "unlink_child" /\ ret' = ret)
      <3>1. pc[t] = "unlink_child" => ret = "failed"
        BY DEF DeviceInv, PartitionsInv, RespawnInv
      <3>2. pc[t] = "check" => ret = "ok"
        BY DEF DeviceInv, PartitionsInv, RespawnInv
      <3>3. Unregister(t) \/ (UnregisterChild(t) /\ pc'[t] # "end") => ret = "ok"
        BY <1>1 DEF Unregister, UnregisterChild, Step, callVars, PointsTyped, Thread
      <3> QED
        BY <1>2, <1>3, <2>1, <3>1, <3>2, <3>3
    <2>3. pc[t] \in {"check", "unregister", "unregister_child"}
      BY <2>1, <2>2
    <2>4. UNCHANGED shownVars
      BY <1>2, <1>3, <2>3 DEF Show, Rebuilt, Added, Deleted, Rebuilding, Respawning
    <2>5. CASE RespawnCheck(t) /\ pc[t] = "check"
      <3>1. UNCHANGED mtdVars
        BY <2>5 DEF RespawnCheck
      <3>2. \A r \in Ctl : pc[r] \notin Changing
        <4>1. pc[t] \in Respawning /\ pc[t] \in Flagged /\ pc[t] \notin Changing
          BY <2>5 DEF Respawning, Flagged, Changing, Rebuilding
        <4> QED
          BY <4>1, RespawnAlone DEF DeviceInv
      <3>3. There = children
        BY <3>2 DEF There, Changing
      <3>4. shownRegistered = registered /\ Shows(children)
        BY <3>2, <3>3 DEF ShownIsThere, Shows, Changing
      <3>5. kept' = [i \in DOMAIN shownChildren |-> i]
        BY <2>5 DEF Keep
      <3>6. Len(shownChildren) \in Nat /\ DOMAIN shownChildren = 1..Len(shownChildren)
        BY LenProperties
      <3>7. /\ kept' \in Seq(DOMAIN shownChildren) /\ Len(kept') = Len(shownChildren)
            /\ \A i \in 1..Len(shownChildren) : kept'[i] = i
        BY <3>5, <3>6, IsASeq, LenProperties
      <3>8. DOMAIN children = 1..Len(shownChildren)
        BY <1>1, <3>4, LenProperties DEF DataTypes, Shows
      <3> QED
        BY <2>4, <3>1, <3>4, <3>6, <3>7, <3>8 DEF Keeping, Shows, shownVars, mtdVars
    <2>6. CASE Unregister(t) /\ pc[t] = "unregister"
      <3>1. Keeping
        BY <2>2, <2>6 DEF KeptInv, Unregistering
      <3>2. UNCHANGED mtdVars /\ kept' = kept
        BY <2>6 DEF Unregister, Keep
      <3> QED
        BY <2>4, <3>1, <3>2 DEF Keeping, shownVars, mtdVars
    <2>7. CASE UnregisterChild(t) /\ pc[t] = "unregister_child"
      <3>1. Keeping /\ registered' = registered
        BY <2>2, <2>7 DEF KeptInv, Unregistering, UnregisterChild
      <3>2. CASE children' = children
        <4>1. kept' = kept
          BY <2>7, <3>2 DEF Keep
        <4> QED
          BY <2>4, <3>1, <3>2, <4>1 DEF Keeping, shownVars
      <3>3. CASE children' # children
        <4>1. \E i \in DOMAIN children : children' = RemoveAt(children, i)
          BY <2>7, <3>3 DEF UnregisterChild
        <4> DEFINE at == CHOOSE i \in DOMAIN children : children' = RemoveAt(children, i)
        <4>2. at \in DOMAIN children /\ children' = RemoveAt(children, at)
          BY <4>1
        <4>3. kept' = RemoveAt(kept, at)
          BY <2>2, <2>7, <3>3 DEF Keep
        <4> HIDE DEF at
        <4> QED
          BY <1>1, <2>4, <3>1, <4>2, <4>3, RemovalKeeps DEF DataTypes
      <3> QED
        BY <3>2, <3>3
    <2> QED
      BY <2>1, <2>2, <2>5, <2>6, <2>7
  <1>4. CASE s # t
    <2>1. pc[s] = pc'[s]
      BY <1>4, OthersStay DEF DeviceInv
    <2>2. pc[s] \in Respawning /\ pc[s] \in Flagged
      BY <1>2, <2>1 DEF Rebuilding, Flagged, Respawning
    <2>3. pc[t] \notin Respawning /\ pc[t] \notin Changing
      BY <1>4, <2>2, RespawnAlone DEF DeviceInv
    <2>4. UNCHANGED mtdVars /\ ret' = ret
      BY <1>1, <2>3, CtlEffects
    <2>5. UNCHANGED shownVars
      BY <2>3 DEF Show, Rebuilt, Added, Deleted, Changing
    <2>6. kept' = kept
      BY <2>3 DEF Keep, Respawning
    <2>7. Keeping
      BY <2>1, <2>4 DEF KeptInv
    <2> QED
      BY <2>4, <2>5, <2>6, <2>7 DEF Keeping, mtdVars, shownVars
  <1> QED
    BY <1>3, <1>4

-----------------------------------------------------------------------------
(* The steps of a user                                                     *)

\* A user that joins has found a device, the proxy MTD or a partition.
LEMMA UserFinds ==
  ASSUME DeviceInv, AtomicInv, NEW u \in User, ~about_to_respawn, pc[u] = "get_hook"
  PROVE  IO!Openable # {}
  <1>1. children \in Seq(Child) /\ DOMAIN children = 1..Len(children) /\ Len(children) \in Nat
    BY LenProperties DEF DeviceInv, DataTypes
  <1>2. \A t \in Ctl : pc[t] \notin Rebuilding
    BY DEF DeviceInv, ProxyInv, FlagInv, Flagged, Rebuilding
  <1>3. shownRegistered = registered /\ Len(shownChildren) = Len(There)
    BY <1>2 DEF AtomicInv, ShownIsThere
  <1>4. TableNotEmpty
    BY IndexesUsed DEF AtomicInv, FoundInv, DeviceInv
  <1>5. CASE registered
    BY <1>3, <1>5 DEF IO!Openable
  <1>6. ASSUME NEW i \in DOMAIN children, children[i].index # NoIndex
        PROVE  IO!Openable # {}
    <2>1. Len(There) \in Nat /\ Len(There) # 0
      <3>1. CASE \E t \in Ctl : pc[t] \in {"add_register", "add_unlink"}
        <4>1. PICK t \in Ctl : pc[t] \in {"add_register", "add_unlink"}
          BY <3>1
        <4>2. Indexed(children, TRUE) /\ children # <<>>
          BY <4>1, ChangerIndexed DEF Changing, Linked
        <4>3. i # Len(children)
          BY <1>6, <4>2 DEF Indexed
        <4>4. Len(There) = Len(children) - 1
          BY <1>1, <3>1, <4>2, RemovalElements DEF There
        <4> QED
          BY <1>1, <4>3, <4>4
      <3>2. CASE ~\E t \in Ctl : pc[t] \in {"add_register", "add_unlink"}
        BY <1>1, <3>2 DEF There
      <3> QED
        BY <3>1, <3>2
    <2>2. 1 \in DOMAIN shownChildren
      <3>1. shownChildren \in Seq(IO!Device)
        BY DEF AtomicInv
      <3> QED
        BY <1>3, <2>1, <3>1, LenProperties
    <2> QED
      BY <2>2 DEF IO!Openable, IO!Range
  <1> QED
    BY <1>4, <1>5, <1>6 DEF TableNotEmpty

\* A user's step leaves the partitions and their history alone.
LEMMA UserKeepsAtomicInv ==
  ASSUME DeviceInv, AtomicInv, NEW u \in User, HookStep(u) \/ Get(u) \/ Put(u),
         Open(u), UNCHANGED <<shownVars, kept>>
  PROVE  AtomicInv'
  <1> USE DEF DeviceInv, ProxyInv, AtomicInv
  <1>1. UserMove(u)
    BY UserMoves
  <1>2. /\ UNCHANGED <<mtdVars, recipeVars, callVars, about_to_respawn>>
        /\ \A t \in Ctl : pc'[t] = pc[t]
    BY UserKeepsDevice
  <1>3. \A v \in User : v # u => pc'[v] = pc[v]
    BY <1>1 DEF UserMove, Step, PointsTyped, Thread
  <1>4. HoldInv'
    <2>1. \A v \in User : v # u => (Using(v)' <=> Using(v))
      BY <1>3 DEF Using
    <2>2. CASE ~Using(u) /\ Using(u)'
      <3>1. PICK d : hold' = [hold EXCEPT ![u] = {d}]
        BY <2>2 DEF Open
      <3> QED
        BY <2>1, <2>2, <3>1 DEF HoldInv
    <2>3. CASE Using(u) /\ ~Using(u)'
      <3>1. hold' = [hold EXCEPT ![u] = {}]
        BY <2>3 DEF Open
      <3> QED
        BY <2>1, <2>3, <3>1 DEF HoldInv
    <2>4. CASE Using(u) <=> Using(u)'
      <3>1. hold' = hold
        BY <2>4 DEF Open
      <3> QED
        BY <2>1, <2>4, <3>1 DEF HoldInv
    <2> QED
      BY <2>2, <2>3, <2>4
  <1>5. FoundInv'
    <2> SUFFICES ASSUME NEW v \in User, pc'[v] = "get_hook"
                 PROVE  (UsedIndexes \ {NoIndex} # {})'
      BY DEF FoundInv
    <2>1. UsedIndexes' = UsedIndexes
      BY <1>2 DEF UsedIndexes, mtdVars
    <2>2. pc[v] = "get_hook" \/ Get(u)
      BY <1>3 DEF HookStep, GetHook, PutHook, Put, Step, Return, PointsTyped, Thread
    <2> QED
      BY <2>1, <2>2 DEF FoundInv, Get
  <1>6. There' = There
    BY <1>2 DEF There, mtdVars
  <1>7. ShownIsThere' /\ (shownChildren \in Seq(IO!Device))'
    BY <1>2, <1>6 DEF ShownIsThere, shownVars, mtdVars
  <1>8. (Distinct(children) /\ FirstInv /\ AddedInv /\ NamedInv)'
    BY <1>2
    DEF FirstInv, AddedInv, LastAsked, NamedInv, BuiltNamed, mtdVars, recipeVars, callVars
  <1>9. KeptInv'
    BY <1>2 DEF KeptInv, Keeping, shownVars, mtdVars, callVars
  <1> QED
    BY <1>4, <1>5, <1>7, <1>8, <1>9

-----------------------------------------------------------------------------
(* The invariant                                                           *)

\* The history variables follow ProxyDevice and keep it from nothing it does.
LEMMA AtomicIsDevice == AtomicSpec => Spec
  <1>1. AtomicInit => Init
    BY DEF AtomicInit
  <1>2. [AtomicNext]_atomicVars => [Next]_vars
    BY DEF AtomicNext, Next, atomicVars
  <1> QED
    BY <1>1, <1>2, PTL DEF AtomicSpec, Spec

LEMMA AtomicInvariance == AtomicSpec => [](DeviceInv /\ AtomicInv)
  <1>1. AtomicInit => AtomicInv
    <2> SUFFICES ASSUME AtomicInit PROVE AtomicInv
      OBVIOUS
    <2>1. /\ \A t \in Ctl : pc[t] = "idle"
          /\ \A u \in User : pc[u] = "idle"
          /\ children = <<>> /\ shownChildren = <<>> /\ registered = TRUE
      BY DEF AtomicInit, Init, Thread
    <2>2. HoldInv /\ FoundInv
      BY <2>1 DEF AtomicInit, HoldInv, FoundInv, Using
    <2>3. Distinct(children) /\ FirstInv /\ AddedInv /\ NamedInv
      BY <2>1 DEF Distinct, FirstInv, AddedInv, NamedInv
    <2>4. There = <<>> /\ shownChildren \in Seq(IO!Device)
      BY <2>1 DEF There
    <2>5. ShownIsThere
      BY <2>1, <2>4 DEF AtomicInit, ShownIsThere
    <2>6. KeptInv
      BY <2>1 DEF KeptInv, Unregistering
    <2> QED
      BY <2>2, <2>3, <2>4, <2>5, <2>6 DEF AtomicInv
  <1>2. DeviceInv /\ AtomicInv /\ DeviceInv' /\ [AtomicNext]_atomicVars => AtomicInv'
    <2> SUFFICES ASSUME DeviceInv, AtomicInv, DeviceInv', [AtomicNext]_atomicVars
                 PROVE  AtomicInv'
      OBVIOUS
    <2>1. ASSUME NEW t \in Ctl, CtlStep(t) \/ \E command \in Commands : Call(t, command),
                 Show(t), Keep(t), UNCHANGED hold
          PROVE  AtomicInv'
      <3> USE DEF AtomicInv
      <3>1. (Distinct(children) /\ FirstInv /\ AddedInv /\ NamedInv)'
        BY <2>1, CtlKeepsDistinct, CtlKeepsFirstInv, CtlKeepsAddedInv, CtlKeepsNamedInv
      <3>2. FoundInv'
        <4>1. DataTypes'
          BY DEF DeviceInv
        <4> QED
          BY <2>1, <4>1, CtlKeepsFoundInv
      <3>3. (shownChildren \in Seq(IO!Device))' /\ ShownIsThere'
        BY <2>1, CtlKeepsShown
      <3>4. HoldInv'
        <4>1. \A u \in User : pc'[u] = pc[u]
          BY <2>1, CtlMovesOne, ProxyAssumption
          DEF DeviceInv, ProxyInv, CtlMove, Step, PointsTyped, Thread
        <4> QED
          BY <2>1, <4>1 DEF HoldInv, Using
      <3>5. KeptInv'
        BY <2>1, CtlKeepsKeptInv
      <3> QED
        BY <3>1, <3>2, <3>3, <3>4, <3>5
    <2>2. CASE UNCHANGED atomicVars
      <3> USE <2>2 DEF atomicVars, shownVars, vars, mtdVars, recipeVars, callVars
      <3>1. HoldInv'
        BY DEF AtomicInv, HoldInv, Using
      <3>2. (Distinct(children) /\ FirstInv)'
        BY DEF AtomicInv, FirstInv
      <3>3. (AddedInv /\ NamedInv)'
        BY DEF AtomicInv, AddedInv, LastAsked, NamedInv, BuiltNamed
      <3>4. FoundInv'
        BY DEF AtomicInv, FoundInv, UsedIndexes
      <3>5. There' = There
        BY DEF There
      <3>6. (shownChildren \in Seq(IO!Device))' /\ ShownIsThere'
        BY <3>5 DEF AtomicInv, ShownIsThere
      <3>7. KeptInv'
        BY DEF AtomicInv, KeptInv, Keeping
      <3> QED
        BY <3>1, <3>2, <3>3, <3>4, <3>6, <3>7 DEF AtomicInv
    <2> QED
      BY <2>1, <2>2, UserKeepsAtomicInv DEF AtomicNext
  <1> QED
    BY <1>1, <1>2, AtomicIsDevice, DeviceInvariance, PTL DEF AtomicSpec

\* Between two respawns the operations so far and the MTD table agree on the
\* proxy MTD and its partitions, whatever the threads are at (add_mtd_device
\* and its undoing in mtd_add_partition, del_mtd_device, ctrl_dev.c:279-318).
THEOREM HistoryIsOfTable == AtomicSpec => []ShownIsThere
  BY AtomicInvariance, PTL DEF AtomicInv

-----------------------------------------------------------------------------
(* The refinement                                                          *)

\* While the partitions are changed no user has a device open.
LEMMA NobodyHolds ==
  ASSUME DeviceInv, AtomicInv, NEW t \in Ctl, pc[t] \in Changing
  PROVE  ~IO!InUse
  <1>1. \A u \in User : ~Using(u)
    BY DEF DeviceInv, ProxyInv, QuietInv, Changing, Editing
  <1> QED
    BY <1>1 DEF AtomicInv, HoldInv, IO!InUse

\* Where a respawn is done rebuilding, it has all of the array or nothing, or it
\* has some of what there was.
LEMMA RebuiltIsRespawn ==
  ASSUME DeviceInv, AtomicInv, NEW t \in Ctl, Rebuilt(t), Show(t), UNCHANGED hold,
         CtlStep(t) \/ \E command \in Commands : Call(t, command)
  PROVE  IO!RespawnDone(array) \/ IO!RespawnRefused(array)
  <1>1. pc[t] \in Rebuilding /\ pc[t] \notin {"add_register", "del_remove"} /\ pc'[t] = "end"
    BY DEF Rebuilt, Rebuilding, Respawning
  <1>2. ~IO!InUse
    BY <1>1, NobodyHolds DEF Changing
  <1>3. /\ ret' \in {"ok", "failed", "stuck"}
        /\ ret' = "ok" => pc[t] = "register_parts" /\ Len(children) = Len(array)
    BY <1>1, RebuildSteps
  <1>4. CASE ret' = "ok"
    <2>1. shownRegistered' = TRUE /\ shownChildren' = [i \in DOMAIN array |-> IO!AsDevice(array[i])]
      BY <1>1, <1>4 DEF Show, Added, Deleted
    <2>2. \A i \in DOMAIN array : array[i].named
      BY <1>3, <1>4, LenProperties DEF AtomicInv, NamedInv, BuiltNamed, DeviceInv, DataTypes
    <2> QED
      BY <1>2, <2>1, <2>2 DEF IO!RespawnDone
  <1>5. CASE ret' = "failed"
    <2>1. shownRegistered' = FALSE /\ shownChildren' = <<>>
      BY <1>1, <1>5 DEF Show, Added, Deleted
    <2> QED
      BY <1>2, <2>1 DEF IO!RespawnRefused
  <1>6. CASE ret' = "stuck"
    <2>1. pc[t] \in Unregistering /\ ret = "ok"
      BY <1>1, <1>6, RebuildSteps
    <2>2. Keeping
      BY <2>1 DEF AtomicInv, KeptInv
    <2>3. /\ shownRegistered' = shownRegistered
          /\ shownChildren' = [i \in DOMAIN kept |-> shownChildren[kept[i]]]
      BY <1>1, <1>6 DEF Show, Added, Deleted
    <2>4. kept \in IO!Selections(shownChildren)
      <3>1. Len(kept) \in Nat /\ DOMAIN kept = 1..Len(kept) /\ Len(shownChildren) \in Nat
        BY <2>2, LenProperties DEF Keeping, AtomicInv
      <3>2. Len(kept) \in 0..Len(shownChildren)
        BY <2>2, <3>1 DEF Keeping
      <3>3. kept \in [1..Len(kept) -> DOMAIN shownChildren]
        BY <2>2, LenProperties DEF Keeping
      <3> QED
        BY <2>2, <3>2, <3>3 DEF Keeping, IO!Selections
    <2> QED
      BY <1>2, <2>3, <2>4 DEF IO!RespawnRefused
  <1> QED
    BY <1>3, <1>4, <1>5, <1>6

\* Both modules judge and adapt a range alike.
LEMMA SameRanges ==
  \A o, l : /\ IO!ImmediateAccepted(o, l) <=> ImmediateAccepted(o, l)
            /\ IO!AdaptedLength(o, l) = AdaptedLength(o, l)
  BY DEF ImmediateAccepted, FullLengthRefused, BasicConditionsHold, AddOverflows, Wrap,
         AdaptedLength, IO!ImmediateAccepted, IO!FullLengthRefused, IO!BasicConditionsHold,
         IO!AddOverflows, IO!Wrap, IO!AdaptedLength

\* A partition that enters the table is one that was asked for.
LEMMA AddedIsAdd ==
  ASSUME DeviceInv, AtomicInv, NEW t \in Ctl, Added(t), Show(t), UNCHANGED hold
  PROVE  \E r \in Immediates : IO!AddPartition(r.offset, r.length)
  <1>1. pc[t] \in Changing /\ pc[t] = "add_register" /\ pc[t] \notin Rebuilding
    BY DEF Added, Changing, Rebuilding, Respawning
  <1>2. ~IO!InUse
    BY <1>1, NobodyHolds
  <1>3. Len(children) <= MaxChildren
    BY <1>1 DEF AtomicInv, AddedInv, LastAsked
  <1>4. PICK r \in Immediates :
          /\ ImmediateAccepted(r.offset, r.length)
          /\ children[Len(children)].offset = r.offset
          /\ children[Len(children)].size = AdaptedLength(r.offset, r.length)
    BY <1>1 DEF AtomicInv, AddedInv, LastAsked
  <1>5. Len(shownChildren) < MaxChildren
    <2>1. children \in Seq(Child) /\ children # <<>>
      BY <1>1 DEF DeviceInv, DataTypes, LinkedInv, Linked
    <2>2. There = Front(children)
      BY <1>1, ThereOf DEF DeviceInv
    <2>3. \A s \in Ctl : pc[s] \notin Rebuilding
      BY <1>1, ProxyInvOneChanger DEF OneChanger, Changing, DeviceInv
    <2>4. Len(shownChildren) = Len(Front(children))
      BY <2>2, <2>3 DEF AtomicInv, ShownIsThere
    <2>5. Len(children) \in Nat \ {0} /\ Len(Front(children)) = Len(children) - 1
      BY <2>1, RemovalElements
    <2> QED
      BY <1>3, <2>4, <2>5, ProxyAssumption
  <1>6. /\ shownChildren' = Append(shownChildren, AsAdded(children[Len(children)]))
        /\ UNCHANGED shownRegistered
    BY <1>1 DEF Show, Rebuilt, Added, Deleted
  <1>7. AsAdded(children[Len(children)]) =
          [offset |-> r.offset, size |-> AdaptedLength(r.offset, r.length),
           writable |-> TRUE, powerup_lock |-> FALSE, by |-> "add"]
    BY <1>4 DEF AsAdded
  <1>8. /\ IO!ImmediateAccepted(r.offset, r.length)
        /\ IO!AdaptedLength(r.offset, r.length) = AdaptedLength(r.offset, r.length)
    BY <1>4, SameRanges
  <1> QED
    BY <1>2, <1>5, <1>6, <1>7, <1>8 DEF IO!AddPartition

\* The partition that leaves the table is the first.
LEMMA DeletedIsDel ==
  ASSUME DeviceInv, AtomicInv, NEW t \in Ctl, Deleted(t), Show(t), UNCHANGED hold
  PROVE  IO!DelPartition(0)
  <1>1. pc[t] \in Changing /\ pc[t] = "del_remove" /\ pc[t] \notin Rebuilding
    BY DEF Deleted, Changing, Rebuilding, Respawning
  <1>2. ~IO!InUse
    BY <1>1, NobodyHolds
  <1>3. shownChildren # <<>>
    <2>1. children \in Seq(Child) /\ children # <<>>
      BY <1>1 DEF DeviceInv, DataTypes, AtomicInv, FirstInv
    <2>2. There = children
      BY <1>1, ThereOf DEF DeviceInv
    <2>3. \A s \in Ctl : pc[s] \notin Rebuilding
      BY <1>1, ProxyInvOneChanger DEF OneChanger, Changing, DeviceInv
    <2>4. Len(shownChildren) = Len(children)
      BY <2>2, <2>3 DEF AtomicInv, ShownIsThere
    <2>5. Len(children) \in Nat \ {0}
      BY <2>1, RemovalElements
    <2> QED
      BY <2>4, <2>5, EmptySeq DEF AtomicInv
  <1>4. shownChildren' = Tail(shownChildren) /\ UNCHANGED shownRegistered
    BY <1>1 DEF Show, Rebuilt, Added, Deleted
  <1> QED
    BY <1>2, <1>3, <1>4 DEF IO!DelPartition

LEMMA CtlIsOperation ==
  ASSUME DeviceInv, AtomicInv, NEW t \in Ctl, Show(t), UNCHANGED hold,
         CtlStep(t) \/ \E command \in Commands : Call(t, command)
  PROVE  Operation \/ UNCHANGED IO!ioVars
  <1>1. CASE Rebuilt(t)
    BY <1>1, RebuiltIsRespawn DEF Operation
  <1>2. CASE Added(t)
    BY <1>2, AddedIsAdd DEF Operation
  <1>3. CASE Deleted(t)
    BY <1>3, DeletedIsDel DEF Operation
  <1>4. CASE ~(Rebuilt(t) \/ Added(t) \/ Deleted(t))
    <2>1. UNCHANGED shownVars
      BY <1>4 DEF Show
    <2> QED
      BY <2>1 DEF IO!ioVars, shownVars
  <1> QED
    BY <1>1, <1>2, <1>3, <1>4

LEMMA UserIsOperation ==
  ASSUME DeviceInv, AtomicInv, NEW u \in User, HookStep(u) \/ Get(u) \/ Put(u),
         Open(u), UNCHANGED shownVars
  PROVE  Operation \/ UNCHANGED IO!ioVars
  <1>1. CASE ~Using(u) /\ Using(u)'
    <2>1. pc[u] = "get_hook" /\ ~about_to_respawn
      BY <1>1
      DEF HookStep, GetHook, PutHook, Get, Put, Step, Return, Using, DeviceInv, ProxyInv,
          PointsTyped, Thread, FlagInv
    <2>2. IO!Openable # {}
      BY <2>1, UserFinds
    <2>3. PICK d \in IO!Openable : hold' = [hold EXCEPT ![u] = {d}]
      BY <1>1, <2>2 DEF Open, Found
    <2>4. hold[u] = {}
      BY <1>1 DEF AtomicInv, HoldInv
    <2>5. IO!OpenDevice(u, d)
      BY <2>3, <2>4 DEF IO!OpenDevice, shownVars
    <2> QED
      BY <2>3, <2>5 DEF Operation
  <1>2. CASE Using(u) /\ ~Using(u)'
    <2>1. hold' = [hold EXCEPT ![u] = {}]
      BY <1>2 DEF Open
    <2>2. hold[u] # {}
      BY <1>2 DEF AtomicInv, HoldInv
    <2>3. IO!CloseDevice(u)
      BY <2>1, <2>2 DEF IO!CloseDevice, shownVars
    <2> QED
      BY <2>3 DEF Operation
  <1>3. CASE Using(u) <=> Using(u)'
    <2>1. hold' = hold
      BY <1>3 DEF Open
    <2> QED
      BY <2>1 DEF IO!ioVars, shownVars
  <1> QED
    BY <1>1, <1>2, <1>3

\* However the threads interleave and whatever fails, each step does to the
\* partitions and to their users what one operation of ProxyIO does, or nothing:
\* the ioctls and the respawns of the control device are atomic.
THEOREM StepsAreOperations == AtomicSpec => AtomicOperations
  <1>1. AtomicInit => IO!ProxyIOInit
    BY DEF AtomicInit, IO!ProxyIOInit, IO!Byte
  <1>2. DeviceInv /\ AtomicInv /\ [AtomicNext]_atomicVars => [Operation]_(IO!ioVars)
    <2> SUFFICES ASSUME DeviceInv, AtomicInv, [AtomicNext]_atomicVars
                 PROVE  Operation \/ UNCHANGED IO!ioVars
      OBVIOUS
    <2>1. CASE UNCHANGED atomicVars
      BY <2>1 DEF atomicVars, shownVars, IO!ioVars
    <2> QED
      BY <2>1, CtlIsOperation, UserIsOperation DEF AtomicNext
  <1> QED
    BY <1>1, <1>2, AtomicInvariance, PTL DEF AtomicSpec, AtomicOperations
=============================================================================
