-------------------------- MODULE ProxyDeviceProofs --------------------------
(***************************************************************************)
(* The proxy MTD and its users, for any number of threads, any recipes and *)
(* any device.                                                             *)
(***************************************************************************)
EXTENDS ProxyDevice, RecipeProofs, FiniteSetTheorems

-----------------------------------------------------------------------------
(* Mutexes                                                                 *)

PointsTyped ==
  /\ pc \in [Thread -> CtlPoint \union UserPoint]
  /\ \A t \in Ctl : pc[t] \in CtlPoint
  /\ \A u \in User : pc[u] \in UserPoint

\* No mutex has two holders.
MutexInv == \A s, t \in Thread : s # t => Held(pc[s]) \intersect Held(pc[t]) = {}

\* The points between AddEnter or DelEnter and their return.
Editing == {"add_link", "add_register", "add_unlink", "resolve", "del_find", "del_remove"}

\* The points at which about_to_respawn is set.
Flagged == Respawning \ {"respawn"}

\* An ioctl holds proxy.lock while it edits or reads the proxy MTD, and neither
\* between calls nor during a respawn.
LEMMA ProxyHeld ==
  /\ \A p \in Editing \union {"read_info", "copy_recipe", "copy_parts"} : "proxy" \in Held(p)
  /\ \A p \in Command \union Respawning \union UserPoint \union {"idle", "died"} :
       "proxy" \notin Held(p)
  BY DEF Held, Editing, Command, Respawning, UserPoint

\* recipe->lock is held from one end of a respawn to the other.
LEMMA RecipeHeld == \A p \in Respawning : "recipe" \in Held(p)
  BY DEF Held, Respawning

\* A step of one thread takes only what the others do not hold.
LEMMA StepKeepsMutexInv ==
  ASSUME PointsTyped, MutexInv, NEW t \in Thread, NEW from, NEW to, Step(t, from, to)
  PROVE  MutexInv'
  <1>1. \A s \in Thread : pc'[s] = IF s = t THEN to ELSE pc[s]
    BY DEF Step, PointsTyped
  <1>2. ASSUME NEW s \in Thread, s # t PROVE Held(to) \intersect Held(pc[s]) = {}
    <2>1. Held(from) \intersect Held(pc[s]) = {}
      BY <1>2 DEF MutexInv, Step
    <2>2. \A lock \in Held(to) \ Held(from) : lock \notin Held(pc[s])
      BY DEF Step, Free
    <2> QED
      BY <2>1, <2>2
  <1>3. ASSUME NEW s \in Thread, NEW r \in Thread, s # r
        PROVE  Held(pc'[s]) \intersect Held(pc'[r]) = {}
    <2>1. CASE s = t
      BY <2>1, <1>1, <1>2, <1>3
    <2>2. CASE r = t
      BY <2>2, <1>1, <1>2, <1>3
    <2>3. CASE s # t /\ r # t
      BY <2>3, <1>1, <1>3 DEF MutexInv
    <2> QED
      BY <2>1, <2>2, <2>3
  <1> QED
    BY <1>3 DEF MutexInv

-----------------------------------------------------------------------------
(* What a step may do to the proxy                                         *)

\* A control thread moves between points. Only the begin and the end of a
\* respawn write about_to_respawn; a rebuilding begins where use_refcnt was
\* seen to be 0, an editing where neither users nor a respawn were seen.
CtlMove(t) ==
  /\ Step(t, pc[t], pc'[t])
  /\ pc'[t] \in CtlPoint
  /\ \/ /\ pc[t] = "respawn" /\ pc'[t] = "check"
        /\ Free("proxy")
        /\ about_to_respawn' = TRUE /\ UNCHANGED use_refcnt
     \/ /\ pc[t] = "end" /\ pc'[t] = "idle"
        /\ Free("proxy")
        /\ about_to_respawn' = FALSE /\ UNCHANGED use_refcnt
     \/ /\ UNCHANGED proxyVars
        /\ pc[t] \in Flagged <=> pc'[t] \in Flagged
        /\ pc'[t] \in Rebuilding => pc[t] \in Rebuilding \/ (pc[t] = "check" /\ use_refcnt = 0)
        /\ pc'[t] \in Editing => pc[t] \in Editing \/ (~InUse /\ Free("proxy"))

\* Every step of an ioctl is such a move.
LEMMA CtlMoves ==
  ASSUME PointsTyped, NEW t \in Ctl,
         CtlStep(t) \/ \E command \in Commands : Call(t, command)
  PROVE  CtlMove(t)
  <1> USE DEF PointsTyped, Thread, CtlMove, Step, Return, CtlPoint, Command,
              Respawning, Flagged, Rebuilding, Editing
  <1>1. CASE \E command \in Commands : Call(t, command)
    BY <1>1, ProxyAssumption DEF Call
  <1>2. CASE Busy(t)
    BY <1>2 DEF Busy
  <1>3. CASE GetInfo(t)
    BY <1>3 DEF GetInfo
  <1>4. CASE AddRefuse(t)
    BY <1>4 DEF AddRefuse
  <1>5. CASE AddEnter(t)
    <2>1. Free("proxy")
      BY <1>5, ProxyHeld DEF AddEnter
    <2> QED
      BY <1>5, <2>1 DEF AddEnter
  <1>6. CASE AddLink(t) \/ AddRegister(t) \/ AddUnlink(t)
    BY <1>6 DEF AddLink, AddRegister, AddUnlink
  <1>7. CASE \E idx \in 0..MaxChildren : DelEnter(t, idx)
    <2>1. Free("proxy")
      BY <1>7, ProxyHeld DEF DelEnter
    <2> QED
      BY <1>7, <2>1 DEF DelEnter
  <1>8. CASE Resolve(t) \/ DelFind(t) \/ DelRemove(t)
    BY <1>8 DEF Resolve, DelFind, DelRemove
  <1>9. CASE \/ \E req \in Requests : RecipeAdd(t, req)
             \/ \E idx \in 0..MaxParts : RecipeDel(t, idx)
             \/ Restart(t)
    BY <1>9 DEF RecipeAdd, RecipeDel, Restart
  <1>10. CASE ListRecipe(t) \/ ListParts(t)
    BY <1>10 DEF ListRecipe, ListParts
  <1>11. CASE CreateRefuse(t) \/ CreateDie(t) \/ CreateEnter(t) \/ DeleteEnter(t)
    BY <1>11 DEF CreateRefuse, CreateDie, CreateEnter, DeleteEnter
  <1>12. CASE RespawnBegin(t)
    BY <1>12 DEF RespawnBegin
  <1>13. CASE RespawnCheck(t)
    BY <1>13 DEF RespawnCheck, proxyVars
  <1>14. CASE Unregister(t) \/ UnregisterChild(t) \/ UnregisterMaster(t)
    BY <1>14 DEF Unregister, UnregisterChild, UnregisterMaster
  <1>15. CASE RegisterMaster(t) \/ RegisterParts(t)
    BY <1>15 DEF RegisterMaster, RegisterParts
  <1>16. CASE RegisterChild(t) \/ UnlinkChild(t)
    BY <1>16 DEF RegisterChild, UnlinkChild
  <1>17. CASE RespawnEnd(t)
    BY <1>17 DEF RespawnEnd
  <1> QED
    BY <1>1, <1>2, <1>3, <1>4, <1>5, <1>6, <1>7, <1>8, <1>9, <1>10, <1>11, <1>12,
       <1>13, <1>14, <1>15, <1>16, <1>17
    DEF CtlStep

Users == {u \in User : Using(u)}

\* A user joins where proxy_mtd_get_device found no respawn, leaves in
\* proxy_mtd_put_device, and is counted at both.
UserMove(u) ==
  /\ Step(u, pc[u], pc'[u])
  /\ pc'[u] \in UserPoint
  /\ UNCHANGED about_to_respawn
  /\ \/ /\ Free("proxy") /\ ~about_to_respawn
        /\ ~Using(u) /\ Using(u)'
        /\ use_refcnt' = use_refcnt + 1
     \/ /\ Using(u) /\ ~Using(u)'
        /\ use_refcnt' = use_refcnt - 1
     \/ /\ Using(u) <=> Using(u)'
        /\ UNCHANGED use_refcnt

\* So is every step of a get or a put.
LEMMA UserMoves ==
  ASSUME PointsTyped, NEW u \in User, HookStep(u) \/ Get(u) \/ Put(u)
  PROVE  UserMove(u)
  <1> USE DEF PointsTyped, Thread, UserMove, Step, Return, UserPoint, Using
  <1>1. CASE GetHook(u)
    BY <1>1 DEF GetHook
  <1>2. CASE PutHook(u)
    BY <1>2 DEF PutHook
  <1>3. CASE Get(u)
    BY <1>3 DEF Get, proxyVars
  <1>4. CASE Put(u)
    BY <1>4 DEF Put, proxyVars
  <1> QED
    BY <1>1, <1>2, <1>3, <1>4 DEF HookStep

-----------------------------------------------------------------------------
(* The inductive invariant                                                 *)

\* about_to_respawn says that a respawn is between its begin and its end.
FlagInv ==
  /\ about_to_respawn \in BOOLEAN
  /\ about_to_respawn <=> \E t \in Ctl : pc[t] \in Flagged

CountInv == IsFiniteSet(Users) /\ RefcountCountsUsers

\* Nobody uses the proxy MTD while it is changed.
QuietInv ==
  \A t \in Ctl : pc[t] \in Rebuilding \union Editing => \A u \in User : ~Using(u)

EditInv == \A t \in Ctl : pc[t] \in Editing => ~about_to_respawn

ProxyInv ==
  /\ PointsTyped
  /\ MutexInv
  /\ FlagInv
  /\ CountInv
  /\ QuietInv
  /\ EditInv

\* A proxy MTD that has just been created has no users and no callers.
LEMMA InitProxyInv == Init => ProxyInv
  <1> SUFFICES ASSUME Init PROVE ProxyInv
    OBVIOUS
  <1>1. \A t \in Thread : pc[t] = "idle"
    BY DEF Init
  <1>2. PointsTyped
    BY <1>1 DEF Init, PointsTyped, Thread, CtlPoint, UserPoint
  <1>3. MutexInv
    BY <1>1 DEF MutexInv, Held, Respawning
  <1>4. FlagInv
    BY <1>1 DEF Init, FlagInv, Thread, Flagged, Respawning
  <1>5. Users = {}
    BY <1>1 DEF Users, Using, Thread
  <1>6. CountInv
    BY <1>5, FS_EmptySet DEF Init, CountInv, RefcountCountsUsers, Users
  <1>7. QuietInv /\ EditInv
    BY <1>1 DEF QuietInv, EditInv, Thread, Rebuilding, Respawning, Editing
  <1> QED
    BY <1>2, <1>3, <1>4, <1>6, <1>7 DEF ProxyInv

\* A control thread that begins to change the proxy MTD saw use_refcnt 0, and
\* no two of them are past that point.
LEMMA CtlMoveKeepsProxyInv ==
  ASSUME ProxyInv, NEW t \in Ctl, CtlMove(t) PROVE ProxyInv'
  <1> USE DEF ProxyInv
  <1>1. /\ pc' = [pc EXCEPT ![t] = pc'[t]] /\ pc'[t] \in CtlPoint
        /\ t \in Thread /\ t \notin User
        /\ \A s \in Thread : s # t => pc'[s] = pc[s]
        /\ \A u \in User : u \in Thread /\ pc'[u] = pc[u]
    BY ProxyAssumption DEF CtlMove, Step, Thread, PointsTyped
  <1>2. PointsTyped'
    BY <1>1 DEF PointsTyped, Thread
  <1>3. MutexInv'
    BY <1>1, StepKeepsMutexInv DEF CtlMove
  <1>4. \A u \in User : Using(u)' <=> Using(u)
    BY <1>1 DEF Using
  <1>5. CountInv'
    <2>1. Users' = Users
      BY <1>4 DEF Users
    <2>2. use_refcnt' = use_refcnt
      BY DEF CtlMove, proxyVars
    <2> QED
      BY <2>1, <2>2 DEF CountInv, RefcountCountsUsers, Users
  <1>6. FlagInv'
    <2>1. CASE pc[t] = "respawn" /\ pc'[t] = "check" /\ about_to_respawn' = TRUE
      BY <2>1 DEF FlagInv, Flagged, Respawning
    <2>2. CASE pc[t] = "end" /\ pc'[t] = "idle" /\ about_to_respawn' = FALSE
      <3>1. ASSUME NEW s \in Ctl PROVE pc'[s] \notin Flagged
        <4>1. CASE s = t
          BY <2>2, <4>1 DEF Flagged, Respawning
        <4>2. CASE s # t
          <5>1. Held(pc[s]) \intersect Held(pc[t]) = {}
            BY <4>2, <1>1 DEF MutexInv, Thread
          <5>2. "recipe" \in Held(pc[t])
            BY <2>2, RecipeHeld DEF Respawning
          <5>3. pc[s] \notin Respawning
            BY <5>1, <5>2, RecipeHeld
          <5> QED
            BY <5>3, <4>2, <1>1 DEF Flagged, Thread
        <4> QED
          BY <4>1, <4>2
      <3> QED
        BY <2>2, <3>1 DEF FlagInv
    <2>3. CASE UNCHANGED proxyVars /\ (pc[t] \in Flagged <=> pc'[t] \in Flagged)
      BY <2>3, <1>1 DEF FlagInv, proxyVars, Thread
    <2> QED
      BY <2>1, <2>2, <2>3 DEF CtlMove
  <1>7. QuietInv'
    <2> SUFFICES ASSUME NEW s \in Ctl, pc'[s] \in Rebuilding \union Editing
                 PROVE  \A u \in User : ~Using(u)
      BY <1>4 DEF QuietInv
    <2>1. CASE pc[s] \in Rebuilding \union Editing
      BY <2>1 DEF QuietInv
    <2>2. CASE pc[s] \notin Rebuilding \union Editing
      <3>1. s = t
        BY <2>2, <1>1 DEF Thread
      <3>2. use_refcnt = 0
        BY <2>2, <3>1 DEF CtlMove, Rebuilding, Respawning, Editing, InUse
      <3>3. Users = {}
        BY <3>2, FS_EmptySet DEF CountInv, RefcountCountsUsers, Users
      <3> QED
        BY <3>3 DEF Users
    <2> QED
      BY <2>1, <2>2
  <1>8. EditInv'
    <2> SUFFICES ASSUME NEW s \in Ctl, pc'[s] \in Editing PROVE ~about_to_respawn'
      BY DEF EditInv
    <2>1. CASE s = t
      BY <2>1 DEF CtlMove, EditInv, Editing, InUse, proxyVars
    <2>2. CASE s # t
      <3>1. pc[s] \in Editing /\ "proxy" \in Held(pc[s]) /\ ~about_to_respawn
        BY <2>2, <1>1, ProxyHeld DEF Thread, EditInv
      <3>2. ~Free("proxy")
        BY <3>1 DEF Free, Thread
      <3> QED
        BY <3>1, <3>2 DEF CtlMove, proxyVars
    <2> QED
      BY <2>1, <2>2
  <1> QED
    BY <1>2, <1>3, <1>5, <1>6, <1>7, <1>8

\* A user that joins saw about_to_respawn clear, under the lock that every
\* editing holds.
LEMMA UserMoveKeepsProxyInv ==
  ASSUME ProxyInv, NEW u \in User, UserMove(u) PROVE ProxyInv'
  <1> USE DEF ProxyInv
  <1>1. /\ pc' = [pc EXCEPT ![u] = pc'[u]] /\ pc'[u] \in UserPoint
        /\ u \in Thread /\ u \notin Ctl
        /\ \A s \in Thread : s # u => pc'[s] = pc[s]
        /\ \A t \in Ctl : t \in Thread /\ pc'[t] = pc[t]
    BY ProxyAssumption DEF UserMove, Step, Thread, PointsTyped
  <1>2. PointsTyped'
    BY <1>1 DEF PointsTyped, Thread
  <1>3. MutexInv'
    BY <1>1, StepKeepsMutexInv DEF UserMove
  <1>4. \A v \in User : v # u => (Using(v)' <=> Using(v))
    BY <1>1 DEF Using, Thread
  <1>5. FlagInv'
    BY <1>1 DEF FlagInv, UserMove
  <1>6. IsFiniteSet(Users) /\ use_refcnt = Cardinality(Users)
    BY DEF CountInv, RefcountCountsUsers, Users
  <1>7. CASE /\ Free("proxy") /\ ~about_to_respawn
             /\ ~Using(u) /\ Using(u)'
             /\ use_refcnt' = use_refcnt + 1
    <2>1. Users' = Users \union {u} /\ u \notin Users
      BY <1>4, <1>7 DEF Users
    <2>2. CountInv'
      BY <1>6, <1>7, <2>1, FS_AddElement DEF CountInv, RefcountCountsUsers, Users
    <2>3. \A t \in Ctl : pc[t] \notin Editing
      BY <1>1, <1>7, ProxyHeld DEF Free
    <2>4. \A t \in Ctl : pc[t] \notin Rebuilding
      BY <1>7 DEF FlagInv, Flagged, Rebuilding
    <2>5. QuietInv' /\ EditInv'
      BY <1>1, <2>3, <2>4 DEF QuietInv, EditInv
    <2> QED
      BY <1>2, <1>3, <1>5, <2>2, <2>5
  <1>8. CASE Using(u) /\ ~Using(u)' /\ use_refcnt' = use_refcnt - 1
    <2>1. Users' = Users \ {u} /\ u \in Users
      BY <1>4, <1>8 DEF Users
    <2>2. CountInv'
      BY <1>6, <1>8, <2>1, FS_RemoveElement DEF CountInv, RefcountCountsUsers, Users
    <2>3. QuietInv' /\ EditInv'
      BY <1>1, <1>8 DEF QuietInv, EditInv, UserMove
    <2> QED
      BY <1>2, <1>3, <1>5, <2>2, <2>3
  <1>9. CASE (Using(u) <=> Using(u)') /\ UNCHANGED use_refcnt
    <2>1. Users' = Users
      BY <1>4, <1>9 DEF Users
    <2>2. CountInv'
      BY <1>6, <1>9, <2>1 DEF CountInv, RefcountCountsUsers, Users
    <2>3. QuietInv' /\ EditInv'
      BY <1>1, <1>4, <1>9 DEF QuietInv, EditInv, UserMove
    <2> QED
      BY <1>2, <1>3, <1>5, <2>2, <2>3
  <1> QED
    BY <1>7, <1>8, <1>9 DEF UserMove

\* Whoever takes a step, it is one of the two moves.
LEMMA NextMoves ==
  ASSUME PointsTyped, Next
  PROVE  (\E t \in Ctl : CtlMove(t)) \/ (\E u \in User : UserMove(u))
  BY CtlMoves, UserMoves DEF Next

\* use_refcnt and about_to_respawn together keep users and changes apart.
THEOREM ProxyInvariance == Spec => []ProxyInv
  <1>1. ProxyInv /\ [Next]_vars => ProxyInv'
    <2> SUFFICES ASSUME ProxyInv, [Next]_vars PROVE ProxyInv'
      OBVIOUS
    <2>1. CASE Next
      BY <2>1, NextMoves, CtlMoveKeepsProxyInv, UserMoveKeepsProxyInv DEF ProxyInv
    <2>2. CASE UNCHANGED vars
      BY <2>2
      DEF vars, proxyVars, ProxyInv, PointsTyped, MutexInv, FlagInv, CountInv, QuietInv,
          EditInv, RefcountCountsUsers, Users, Using
    <2> QED
      BY <2>1, <2>2
  <1> QED
    BY <1>1, InitProxyInv, PTL DEF Spec

-----------------------------------------------------------------------------
(* The safety properties it gives                                          *)

\* The reference count is the number of users, however many there are.
THEOREM RefcountCounts == Spec => []RefcountCountsUsers
  BY ProxyInvariance, PTL DEF ProxyInv, CountInv

\* The lock-free read of use_refcnt in respawn_proxy_mtd_locked is sound.
THEOREM RespawnQuiet == Spec => []RespawnHasNoUsers
  <1>1. ProxyInv => RespawnHasNoUsers
    BY DEF ProxyInv, QuietInv, FlagInv, RespawnHasNoUsers, Rebuilding, Flagged
  <1> QED
    BY <1>1, ProxyInvariance, PTL

\* Changing takes recipe->lock with about_to_respawn set, or proxy.lock with
\* it clear: there is no room for two.
LEMMA ProxyInvOneChanger == ProxyInv => OneChanger
  <1> SUFFICES ASSUME ProxyInv, NEW s \in Ctl, NEW t \in Ctl,
                      pc[s] \in Changing, pc[t] \in Changing, s # t
               PROVE  FALSE
    BY DEF OneChanger
  <1> USE DEF ProxyInv
  <1>1. Held(pc[s]) \intersect Held(pc[t]) = {}
    BY DEF MutexInv, Thread
  <1>2. \A r \in Ctl : pc[r] \in Changing => pc[r] \in Rebuilding \/ pc[r] \in Editing
    BY DEF Changing, Editing
  <1>3. \A r \in Ctl : pc[r] \in Rebuilding => about_to_respawn /\ "recipe" \in Held(pc[r])
    BY RecipeHeld DEF FlagInv, Flagged, Rebuilding
  <1>4. \A r \in Ctl : pc[r] \in Editing => ~about_to_respawn /\ "proxy" \in Held(pc[r])
    BY ProxyHeld DEF EditInv
  <1> QED
    BY <1>1, <1>2, <1>3, <1>4

\* Of all the threads that share the control device, one at a time changes
\* the partitions of the proxy MTD.
THEOREM ChangersExclude == Spec => []OneChanger
  BY ProxyInvOneChanger, ProxyInvariance, PTL

-----------------------------------------------------------------------------
(* Types                                                                   *)

\* What TypeOK says besides the points and the proxy's two fields.
DataTypes ==
  /\ registered \in BOOLEAN
  /\ index \in Index
  /\ children \in Seq(Child)
  /\ recipe \in RecipeType
  /\ array \in Seq(MtdPartition)
  /\ ret \in Outcome
  /\ target \in Index \union {NoIndex} \union Nat

\* The list operations of the MTD core keep a list of partitions.
LEMMA ChildListTypes ==
  ASSUME children \in Seq(Child)
  PROVE  /\ Front(children) \in Seq(Child)
         /\ children # <<>> => Tail(children) \in Seq(Child) /\ Head(children) \in Child
         /\ \A i \in DOMAIN children : RemoveAt(children, i) \in Seq(Child)
         /\ \A o \in U64, l \in U64 : LinkChild(o, l) => children' \in Seq(Child)
         /\ \A i \in Index : IndexLastChild(i) => children' \in Seq(Child)
  <1>1. Len(children) \in Nat /\ DOMAIN children = 1..Len(children)
    BY LenProperties
  <1>2. Front(children) \in Seq(Child)
    <2>1. \A i \in 1..(Len(children) - 1) : children[i] \in Child
      BY <1>1, ElementOfSeq
    <2> QED
      BY <1>1, <2>1, SubSeqProperties DEF Front
  <1>3. ASSUME NEW o \in U64, NEW l \in U64, LinkChild(o, l) PROVE children' \in Seq(Child)
    <2>1. [index |-> NoIndex, offset |-> o, size |-> l] \in Child
      BY DEF Child
    <2> QED
      BY <1>3, <2>1, AppendProperties DEF LinkChild
  <1>4. ASSUME NEW i \in Index, IndexLastChild(i) PROVE children' \in Seq(Child)
    <2>1. CASE Len(children) \in DOMAIN children
      <3>1. children[Len(children)] \in Child
        BY <2>1, ElementOfSeq, <1>1
      <3>2. [children[Len(children)] EXCEPT !.index = i] \in Child
        BY <3>1 DEF Child
      <3>3. children' = [children EXCEPT ![Len(children)] =
                                  [children[Len(children)] EXCEPT !.index = i]]
        BY <1>4 DEF IndexLastChild
      <3> QED
        BY <1>1, <2>1, <3>2, <3>3, ExceptSeq
    <2>2. CASE Len(children) \notin DOMAIN children
      <3>1. children' = children
        BY <1>1, <1>4, <2>2 DEF IndexLastChild
      <3> QED
        BY <3>1
    <2> QED
      BY <2>1, <2>2
  <1> QED
    BY <1>1, <1>2, <1>3, <1>4, HeadTailProperties, RemoveAtProperties

\* The length that an immediate request is adapted to is a u64.
LEMMA AdaptedLengthType ==
  ASSUME NEW o \in U64, NEW l \in U64, ImmediateAccepted(o, l)
  PROVE  AdaptedLength(o, l) \in U64
  BY RangeAssumption DEF ImmediateAccepted, FullLengthRefused, AdaptedLength, U64

\* No step of an ioctl takes a field out of its type.
LEMMA CtlKeepsDataTypes ==
  ASSUME DataTypes, NEW t \in Ctl,
         CtlStep(t) \/ \E command \in Commands : Call(t, command)
  PROVE  DataTypes'
  <1> USE DEF DataTypes, mtdVars, recipeVars, callVars
  <1>1. CASE \E command \in Commands : Call(t, command)
    BY <1>1 DEF Call
  <1>2. CASE Busy(t) \/ GetInfo(t) \/ ListRecipe(t) \/ ListParts(t) \/ AddRefuse(t) \/ AddEnter(t)
    BY <1>2 DEF Busy, GetInfo, ListRecipe, ListParts, AddRefuse, AddEnter
  <1>3. CASE AddLink(t)
    <2>1. children' \in Seq(Child)
      <3>1. ASSUME NEW r \in Immediates, ImmediateAccepted(r.offset, r.length),
                   LinkChild(r.offset, AdaptedLength(r.offset, r.length))
            PROVE  children' \in Seq(Child)
        <4>1. r.offset \in U64 /\ r.length \in U64
          BY ProxyAssumption
        <4> QED
          BY <3>1, <4>1, AdaptedLengthType, ChildListTypes
      <3> QED
        BY <1>3, <3>1 DEF AddLink
    <2> QED
      BY <1>3, <2>1 DEF AddLink
  <1>4. CASE AddRegister(t) \/ AddUnlink(t)
    BY <1>4, ChildListTypes DEF AddRegister, AddUnlink
  <1>5. CASE \E idx \in 0..MaxChildren : DelEnter(t, idx)
    BY <1>5 DEF DelEnter
  <1>6. CASE Resolve(t)
    BY <1>6, ChildListTypes DEF Resolve, Child
  <1>7. CASE DelFind(t)
    BY <1>7 DEF DelFind
  <1>8. CASE DelRemove(t)
    BY <1>8, ChildListTypes DEF DelRemove
  <1>9. CASE \E req \in Requests : RecipeAdd(t, req)
    BY <1>9, ProxyAssumption, PartAddedProperties DEF RecipeAdd
  <1>10. CASE \E idx \in 0..MaxParts : RecipeDel(t, idx)
    BY <1>10, ProxyAssumption, PartDeletedProperties DEF RecipeDel
  <1>11. CASE Restart(t)
    BY <1>11, EmptyRecipeType DEF Restart
  <1>12. CASE CreateRefuse(t) \/ CreateDie(t)
    BY <1>12 DEF CreateRefuse, CreateDie
  <1>13. CASE CreateEnter(t) \/ DeleteEnter(t)
    BY <1>13, ConvertedType, EmptySeq DEF CreateEnter, DeleteEnter
  <1>14. CASE RespawnBegin(t) \/ RespawnCheck(t) \/ Unregister(t) \/ RespawnEnd(t)
    BY <1>14, EmptySeq DEF RespawnBegin, RespawnCheck, Unregister, RespawnEnd, Outcome
  <1>15. CASE UnregisterChild(t) \/ UnlinkChild(t)
    BY <1>15, ChildListTypes DEF UnregisterChild, UnlinkChild, Outcome
  <1>16. CASE UnregisterMaster(t) \/ RegisterMaster(t)
    BY <1>16 DEF UnregisterMaster, RegisterMaster, Outcome
  <1>17. CASE RegisterParts(t)
    <2>1. ASSUME Len(children) < Len(array)
          PROVE  /\ array[Len(children) + 1].offset \in U64
                 /\ array[Len(children) + 1].size \in U64
      <3>1. Len(children) + 1 \in 1..Len(array)
        BY <2>1, LenProperties
      <3>2. array[Len(children) + 1] \in MtdPartition
        BY <3>1, ElementOfSeq
      <3> QED
        BY <3>2 DEF MtdPartition
    <2> QED
      BY <1>17, <2>1, ChildListTypes DEF RegisterParts, Outcome
  <1>18. CASE RegisterChild(t)
    BY <1>18, ChildListTypes DEF RegisterChild, Outcome
  <1> QED
    BY <1>1, <1>2, <1>3, <1>4, <1>5, <1>6, <1>7, <1>8, <1>9, <1>10, <1>11, <1>12,
       <1>13, <1>14, <1>15, <1>16, <1>17, <1>18
    DEF CtlStep

\* The fields keep their types for ever.
LEMMA DataTypesInvariance == Spec => []DataTypes
  <1>1. Init => DataTypes
    BY EmptySeq, EmptyRecipeType DEF Init, DataTypes, Outcome
  <1>2. DataTypes /\ [Next]_vars => DataTypes'
    <2> SUFFICES ASSUME DataTypes, [Next]_vars PROVE DataTypes'
      OBVIOUS
    <2>1. ASSUME NEW u \in User, HookStep(u) \/ Get(u) \/ Put(u) PROVE DataTypes'
      BY <2>1 DEF HookStep, GetHook, PutHook, Get, Put, DataTypes, mtdVars, recipeVars, callVars
    <2>2. CASE UNCHANGED vars
      BY <2>2 DEF vars, DataTypes, mtdVars, recipeVars, callVars
    <2> QED
      BY <2>1, <2>2, CtlKeepsDataTypes DEF Next
  <1> QED
    BY <1>1, <1>2, PTL DEF Spec

\* The types of the structs; in particular the BUG_ON on use_refcnt in
\* proxy_mtd_put_device is never reached.
THEOREM ProxyTypes == Spec => []TypeOK
  <1>1. ProxyInv /\ DataTypes => TypeOK
    <2> SUFFICES ASSUME ProxyInv, DataTypes PROVE TypeOK
      OBVIOUS
    <2>1. use_refcnt \in Nat
      BY FS_CardinalityType DEF ProxyInv, CountInv, RefcountCountsUsers, Users
    <2> QED
      BY <2>1 DEF TypeOK, ProxyInv, PointsTyped, FlagInv, DataTypes, RecipeType
  <1> QED
    BY <1>1, ProxyInvariance, DataTypesInvariance, PTL

-----------------------------------------------------------------------------
(* Ranges                                                                  *)

ListFits(list) == \A i \in DOMAIN list : RangeFits(list[i].offset, list[i].size)

\* Everything that is on its way into the proxy MTD fits the device too.
FitInv ==
  /\ RecipeFits(recipe)
  /\ \A i \in DOMAIN array : array[i].named => RangeFits(array[i].offset, array[i].size)
  /\ ListFits(children)

\* Taking partitions out and giving one its index leaves the ranges alone.
LEMMA ChildListFits ==
  ASSUME children \in Seq(Child), ListFits(children)
  PROVE  /\ children # <<>> => ListFits(Front(children)) /\ ListFits(Tail(children))
         /\ \A i \in DOMAIN children : ListFits(RemoveAt(children, i))
         /\ \A o \in U64, l \in U64 :
              LinkChild(o, l) /\ RangeFits(o, l) => ListFits(children')
         /\ \A i \in Index : IndexLastChild(i) => ListFits(children')
  <1>1. Len(children) \in Nat /\ DOMAIN children = 1..Len(children)
    BY LenProperties
  <1>2. ASSUME children # <<>> PROVE ListFits(Front(children))
    <2>1. /\ DOMAIN Front(children) = 1..(Len(children) - 1)
          /\ \A k \in 1..(Len(children) - 1) : Front(children)[k] = children[k]
      BY <1>2, FrontProperties, LenProperties
    <2> QED
      BY <1>1, <2>1 DEF ListFits
  <1>3. ASSUME children # <<>> PROVE ListFits(Tail(children))
    <2>1. /\ DOMAIN Tail(children) = 1..(Len(children) - 1)
          /\ \A k \in 1..(Len(children) - 1) : Tail(children)[k] = children[k + 1]
      BY <1>3, HeadTailProperties, LenProperties
    <2>2. \A k \in 1..(Len(children) - 1) : k + 1 \in DOMAIN children
      BY <1>1
    <2> QED
      BY <2>1, <2>2 DEF ListFits
  <1>4. ASSUME NEW i \in DOMAIN children PROVE ListFits(RemoveAt(children, i))
    <2>1. /\ RemoveAt(children, i) \in Seq(Child)
          /\ Len(RemoveAt(children, i)) = Len(children) - 1
          /\ \A k \in 1..(Len(children) - 1) :
               RemoveAt(children, i)[k] = IF k < i THEN children[k] ELSE children[k + 1]
      BY <1>1, RemoveAtProperties
    <2>2. DOMAIN RemoveAt(children, i) = 1..(Len(children) - 1)
      BY <2>1, LenProperties
    <2>3. \A k \in 1..(Len(children) - 1) : k \in DOMAIN children /\ k + 1 \in DOMAIN children
      BY <1>1
    <2> QED
      BY <2>1, <2>2, <2>3 DEF ListFits
  <1>5. ASSUME NEW o \in U64, NEW l \in U64, LinkChild(o, l), RangeFits(o, l)
        PROVE  ListFits(children')
    <2> DEFINE child == [index |-> NoIndex, offset |-> o, size |-> l]
    <2>1. child \in Child
      BY DEF Child
    <2>2. children' = Append(children, child)
      BY <1>5 DEF LinkChild
    <2>3. /\ DOMAIN children' = 1..(Len(children) + 1)
          /\ \A i \in 1..Len(children) : children'[i] = children[i]
          /\ children'[Len(children) + 1] = child
      BY <1>1, <2>1, <2>2, AppendProperties, LenProperties
    <2>4. ASSUME NEW i \in DOMAIN children' PROVE RangeFits(children'[i].offset, children'[i].size)
      <3>1. CASE i = Len(children) + 1
        BY <1>5, <2>3, <3>1
      <3>2. CASE i # Len(children) + 1
        <4>1. i \in DOMAIN children
          BY <1>1, <2>3, <3>2
        <4> QED
          BY <1>1, <2>3, <4>1 DEF ListFits
      <3> QED
        BY <3>1, <3>2
    <2> QED
      BY <2>4 DEF ListFits
  <1>6. ASSUME NEW i \in Index, IndexLastChild(i) PROVE ListFits(children')
    <2>1. DOMAIN children' = DOMAIN children
      BY <1>6 DEF IndexLastChild
    <2>2. ASSUME NEW k \in DOMAIN children
          PROVE  children'[k].offset = children[k].offset /\ children'[k].size = children[k].size
      <3>1. children[k] \in Child
        BY <1>1, ElementOfSeq
      <3>2. children'[k] = IF k = Len(children) THEN [children[k] EXCEPT !.index = i] ELSE children[k]
        BY <1>6 DEF IndexLastChild
      <3> QED
        BY <3>1, <3>2 DEF Child
    <2> QED
      BY <2>1, <2>2 DEF ListFits
  <1> QED
    BY <1>2, <1>3, <1>4, <1>5, <1>6

\* The two ways into the proxy MTD, ADD_MTD and a recipe, both check the range
\* first; no step after the check changes it.
LEMMA CtlKeepsFitInv ==
  ASSUME DataTypes, FitInv, PointsTyped, NEW t \in Ctl,
         CtlStep(t) \/ \E command \in Commands : Call(t, command),
         children = <<>> => pc[t] \notin {"add_unlink", "unlink_child"}
  PROVE  FitInv'
  <1> USE DEF DataTypes, FitInv, mtdVars, recipeVars, callVars
  <1>1. CASE UNCHANGED <<children, recipe, array>>
    BY <1>1 DEF ListFits
  <1>2. CASE AddLink(t) /\ children' # children
    <2>1. PICK r \in Immediates : /\ ImmediateAccepted(r.offset, r.length)
                                  /\ LinkChild(r.offset, AdaptedLength(r.offset, r.length))
      BY <1>2 DEF AddLink
    <2>2. r.offset \in U64 /\ AdaptedLength(r.offset, r.length) \in U64
      BY <2>1, ProxyAssumption, AdaptedLengthType
    <2>3. RangeFits(r.offset, AdaptedLength(r.offset, r.length))
      BY <2>1, <2>2, AcceptedFits DEF ImmediateAccepted
    <2> QED
      BY <1>2, <2>1, <2>2, <2>3, ChildListFits DEF AddLink
  <1>3. CASE AddRegister(t)
    BY <1>3, ChildListFits DEF AddRegister
  <1>4. CASE AddUnlink(t) \/ UnlinkChild(t)
    BY <1>4, ChildListFits DEF AddUnlink, UnlinkChild, Step, Return
  <1>5. CASE DelRemove(t)
    BY <1>5, ChildListFits DEF DelRemove
  <1>6. CASE \E req \in Requests : RecipeAdd(t, req)
    <2>1. PICK req \in Requests : RecipeAdd(t, req)
      BY <1>6
    <2>2. CASE recipe' = PartAdded(recipe, req) /\ PartAccepted(recipe, req)
      BY <2>1, <2>2, ProxyAssumption, PartAddedFits DEF RecipeAdd
    <2> QED
      BY <2>1, <2>2, <1>1 DEF RecipeAdd, PartAccepted
  <1>7. CASE \E idx \in 0..MaxParts : RecipeDel(t, idx)
    BY <1>7, ProxyAssumption, PartDeletedFits DEF RecipeDel
  <1>8. CASE Restart(t)
    BY <1>8 DEF Restart, EmptyRecipe, RecipeFits
  <1>9. CASE CreateEnter(t) \/ DeleteEnter(t) \/ RespawnEnd(t)
    BY <1>9, ConvertedFits DEF CreateEnter, DeleteEnter, RespawnEnd
  <1>10. CASE UnregisterChild(t)
    BY <1>10, ChildListFits DEF UnregisterChild
  <1>11. CASE RegisterParts(t) /\ children' # children
    <2>1. /\ Len(children) < Len(array) /\ array[Len(children) + 1].named
          /\ LinkChild(array[Len(children) + 1].offset, array[Len(children) + 1].size)
      BY <1>11 DEF RegisterParts
    <2>2. Len(children) + 1 \in DOMAIN array /\ array[Len(children) + 1] \in MtdPartition
      <3>1. Len(children) + 1 \in 1..Len(array)
        BY <2>1, LenProperties
      <3> QED
        BY <3>1, ElementOfSeq, LenProperties
    <2> QED
      BY <1>11, <2>1, <2>2, ChildListFits DEF RegisterParts, MtdPartition
  <1>12. CASE RegisterChild(t)
    BY <1>12, ChildListFits DEF RegisterChild
  <1> QED
    BY <1>1, <1>2, <1>3, <1>4, <1>5, <1>6, <1>7, <1>8, <1>9, <1>10, <1>11, <1>12
    DEF CtlStep, Call, Busy, GetInfo, ListRecipe, ListParts, AddRefuse, AddEnter, AddLink,
        DelEnter, Resolve, DelFind, CreateRefuse, CreateDie, RespawnBegin, RespawnCheck,
        Unregister, UnregisterMaster, RegisterMaster, RegisterParts

\* Between the link of a partition and its index or its unlink.
Linked == {"add_register", "add_unlink", "register_child", "unlink_child"}

LinkedInv == \A t \in Ctl : pc[t] \in Linked => children # <<>>

\* Nobody takes a partition away from the thread that has just linked it.
LEMMA CtlKeepsLinkedInv ==
  ASSUME ProxyInv, LinkedInv, DataTypes, NEW t \in Ctl,
         CtlStep(t) \/ \E command \in Commands : Call(t, command)
  PROVE  LinkedInv'
  <1>1. /\ \A s \in Ctl : pc'[s] = IF s = t THEN pc'[t] ELSE pc[s]
        /\ OneChanger
    <2>1. CtlMove(t)
      BY CtlMoves DEF ProxyInv
    <2> QED
      BY <2>1, ProxyInvOneChanger DEF CtlMove, Step, ProxyInv, PointsTyped, Thread
  <1>2. Linked \subseteq Changing
    BY DEF Linked, Changing, Rebuilding, Respawning
  <1>3. children' = children \/ pc[t] \in Changing
    BY DEF CtlStep, Call, Busy, GetInfo, AddRefuse, AddEnter, AddLink, AddRegister,
           AddUnlink, DelEnter, Resolve, DelFind, DelRemove, RecipeAdd, RecipeDel,
           Restart, ListRecipe, ListParts, CreateRefuse, CreateDie, CreateEnter,
           DeleteEnter, RespawnBegin, RespawnCheck, Unregister, UnregisterChild,
           UnregisterMaster, RegisterMaster, RegisterParts, RegisterChild,
           UnlinkChild, RespawnEnd, mtdVars, Step, Return, Changing, Rebuilding, Respawning
  <1>4. pc'[t] \in Linked => children' # <<>>
    <2> SUFFICES ASSUME pc'[t] \in Linked PROVE children' # <<>>
      OBVIOUS
    <2> USE DEF ProxyInv, PointsTyped, Thread, Step, Return, Linked
    <2>1. CASE AddLink(t) \/ RegisterParts(t)
      <3>1. \A o, l : LinkChild(o, l) => children' # <<>>
        <4> SUFFICES ASSUME NEW o, NEW l, LinkChild(o, l) PROVE children' # <<>>
          OBVIOUS
        <4>1. children' = Append(children, [index |-> NoIndex, offset |-> o, size |-> l])
          BY DEF LinkChild
        <4>2. Len(Append(children, [index |-> NoIndex, offset |-> o, size |-> l])) = Len(children) + 1
          BY DEF DataTypes
        <4> QED
          BY <4>1, <4>2, LenProperties DEF DataTypes
      <3> QED
        BY <2>1, <3>1 DEF AddLink, RegisterParts
    <2>2. CASE (AddRegister(t) \/ RegisterChild(t)) /\ UNCHANGED children
      BY <2>2 DEF AddRegister, RegisterChild, LinkedInv
    <2> QED
      BY <2>1, <2>2, ProxyAssumption
      DEF CtlStep, Call, Busy, GetInfo, AddRefuse, AddEnter, AddRegister, AddUnlink,
          DelEnter, Resolve, DelFind, DelRemove, RecipeAdd, RecipeDel, Restart,
          ListRecipe, ListParts, CreateRefuse, CreateDie, CreateEnter, DeleteEnter,
          RespawnBegin, RespawnCheck, Unregister, UnregisterChild, UnregisterMaster,
          RegisterMaster, RegisterChild, UnlinkChild, RespawnEnd, Command
  <1>5. ASSUME NEW s \in Ctl, s # t, pc[s] \in Linked PROVE children' = children
    BY <1>1, <1>2, <1>3, <1>5 DEF OneChanger
  <1> QED
    BY <1>1, <1>4, <1>5 DEF LinkedInv

\* However a partition came into the proxy MTD, it fits the device.
THEOREM ChildrenAlwaysFit == Spec => []ChildrenFit
  <1>1. Init => FitInv /\ LinkedInv
    BY DEF Init, FitInv, LinkedInv, ListFits, RecipeFits, EmptyRecipe, Linked, Thread
  <1>2. /\ ProxyInv /\ DataTypes /\ FitInv /\ LinkedInv
        /\ [Next]_vars
        => (FitInv /\ LinkedInv)'
    <2> SUFFICES ASSUME ProxyInv, DataTypes, FitInv, LinkedInv, [Next]_vars
                 PROVE  (FitInv /\ LinkedInv)'
      OBVIOUS
    <2>1. ASSUME NEW t \in Ctl, CtlStep(t) \/ \E command \in Commands : Call(t, command)
          PROVE  (FitInv /\ LinkedInv)'
      <3>1. children = <<>> => pc[t] \notin {"add_unlink", "unlink_child"}
        BY DEF LinkedInv, Linked
      <3> QED
        BY <2>1, <3>1, CtlKeepsFitInv, CtlKeepsLinkedInv DEF ProxyInv
    <2>2. ASSUME NEW u \in User, HookStep(u) \/ Get(u) \/ Put(u)
          PROVE  (FitInv /\ LinkedInv)'
      <3>1. UNCHANGED <<children, recipe, array>> /\ \A t \in Ctl : pc'[t] = pc[t]
        BY <2>2, ProxyAssumption
        DEF HookStep, GetHook, PutHook, Get, Put, mtdVars, recipeVars, Step, Return,
            ProxyInv, PointsTyped, Thread
      <3> QED
        BY <3>1 DEF FitInv, ListFits, LinkedInv
    <2>3. CASE UNCHANGED vars
      BY <2>3 DEF vars, FitInv, ListFits, LinkedInv, mtdVars, recipeVars
    <2> QED
      BY <2>1, <2>2, <2>3 DEF Next
  <1>3. FitInv => ChildrenFit
    BY DEF FitInv, ListFits, ChildrenFit
  <1> QED
    BY <1>1, <1>2, <1>3, ProxyInvariance, DataTypesInvariance, PTL DEF Spec
=============================================================================
