----------------------------- MODULE ProxyAtomic -----------------------------
(***************************************************************************)
(* What the threads of ProxyDevice do to the partitions, step by step and  *)
(* lock by lock, has the effect of the operations of ProxyIO, each done in *)
(* one step.                                                               *)
(*                                                                         *)
(* Four history variables follow ProxyDevice and keep it from nothing:    *)
(* three change in the step in which an operation takes effect, and say    *)
(* what it makes of the partitions, the fourth follows an unregistration.  *)
(* AtomicOperations says that ProxyIO     *)
(* allows such an operation there, ShownIsThere that what it made is what  *)
(* the MTD table has, whenever no respawn is rebuilding it.                *)
(***************************************************************************)
EXTENDS ProxyDevice

VARIABLES
  shownRegistered,  \* the proxy MTD is there, by the operations so far
  shownChildren,    \* its partitions, by the operations so far
  hold,             \* per user: the device it has open, as a set of one or none
  kept              \* which of shownChildren an unregistration has not taken out

shownVars == <<shownRegistered, shownChildren>>
atomicVars == <<vars, shownVars, hold, kept>>

\* An index may be wanting whatever MayFail says, so a registration may fail.
\* ProxyDevice follows no write and no erase.
IO == INSTANCE ProxyIO WITH
  MayFail    <- TRUE,
  registered <- shownRegistered,
  children   <- shownChildren,
  content    <- [b \in 0..(MtdSize - 1) |-> "erased"]

AtomicInit ==
  /\ Init
  /\ shownRegistered = TRUE
  /\ shownChildren = <<>>
  /\ hold = [u \in User |-> {}]
  /\ kept = <<>>

-----------------------------------------------------------------------------
(* Where an operation takes effect                                         *)

\* A respawn, in the step in which it has rebuilt the proxy MTD or given up.
Rebuilt(t) == pc[t] \in Rebuilding /\ pc'[t] = "end"

\* ADD_MTD, when the partition enters the table; DEL_MTD, when it leaves it.
Added(t) == pc[t] = "add_register" /\ pc'[t] = "idle"
Deleted(t) == pc[t] = "del_remove"

AsAdded(child) ==
  [offset |-> child.offset, size |-> child.size, writable |-> TRUE,
   powerup_lock |-> FALSE, by |-> "add"]

Show(t) ==
  \/ /\ Rebuilt(t) /\ ret' = "ok"
     /\ shownRegistered' = TRUE
     /\ shownChildren' = [i \in DOMAIN array |-> IO!AsDevice(array[i])]
  \/ /\ Rebuilt(t) /\ ret' = "failed"
     /\ shownRegistered' = FALSE
     /\ shownChildren' = <<>>
  \/ /\ Rebuilt(t) /\ ret' = "stuck"
     /\ shownChildren' = [i \in DOMAIN kept |-> shownChildren[kept[i]]]
     /\ UNCHANGED shownRegistered
  \/ /\ Added(t)
     /\ shownChildren' = Append(shownChildren, AsAdded(children[Len(children)]))
     /\ UNCHANGED shownRegistered
  \/ /\ Deleted(t)
     /\ shownChildren' = Tail(shownChildren)
     /\ UNCHANGED shownRegistered
  \/ /\ ~(Rebuilt(t) \/ Added(t) \/ Deleted(t))
     /\ UNCHANGED shownVars

\* All of them until mtd_device_unregister takes one child after the other.
Keep(t) ==
  kept' = CASE pc[t] = "check" -> [i \in DOMAIN shownChildren |-> i]
            [] pc[t] = "unregister_child" /\ ret = "ok" /\ children' # children ->
                 RemoveAt(kept, CHOOSE i \in DOMAIN children : children' = RemoveAt(children, i))
            [] pc[t] = "end" -> <<>>
            [] OTHER -> kept

\* What get_mtd_device has found when it calls the hook.
Found == IF IO!Openable = {} THEN {IO!ProxyMtd} ELSE IO!Openable

Open(u) ==
  IF ~Using(u) /\ Using(u)' THEN \E d \in Found : hold' = [hold EXCEPT ![u] = {d}]
  ELSE IF Using(u) /\ ~Using(u)' THEN hold' = [hold EXCEPT ![u] = {}]
  ELSE UNCHANGED hold

AtomicNext ==
  \/ \E t \in Ctl :
       /\ CtlStep(t) \/ \E command \in Commands : Call(t, command)
       /\ Show(t) /\ Keep(t)
       /\ UNCHANGED hold
  \/ \E u \in User :
       /\ HookStep(u) \/ Get(u) \/ Put(u)
       /\ Open(u)
       /\ UNCHANGED <<shownVars, kept>>

AtomicSpec == AtomicInit /\ [][AtomicNext]_atomicVars

-----------------------------------------------------------------------------
(* Properties                                                              *)

\* An operation of the control device or of a user, as ProxyIO has it.
Operation ==
  \/ IO!RespawnDone(array) \/ IO!RespawnRefused(array)
  \/ \E r \in Immediates : IO!AddPartition(r.offset, r.length)
  \/ IO!DelPartition(0)
  \/ \E u \in User : IO!CloseDevice(u) \/ \E d \in IO!Openable : IO!OpenDevice(u, d)

\* Whatever the threads do at the same time, what users see of it is one
\* operation after the other. A respawn gets all it was asked for or nothing, or
\* is refused with some of the old partitions left as they were, in their order; an
\* add puts its range last, a delete takes the first partition, and none of
\* them happens while a user has a device open.
AtomicOperations == IO!ProxyIOInit /\ [][Operation]_(IO!ioVars)

\* The partitions in the table; one on its way in or out is not among them.
There ==
  IF \E t \in Ctl : pc[t] \in {"add_register", "add_unlink"} THEN Front(children) ELSE children

\* Between two respawns the MTD table has what the operations have made: the
\* history is that of the real partitions. While a respawn rebuilds them, no
\* user can look (RespawnHasNoUsers).
ShownIsThere ==
  (\A t \in Ctl : pc[t] \notin Rebuilding) =>
    /\ shownRegistered = registered
    /\ Len(shownChildren) = Len(There)
    /\ \A i \in DOMAIN There :
         shownChildren[i].offset = There[i].offset /\ shownChildren[i].size = There[i].size
=============================================================================
