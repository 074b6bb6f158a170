------------------------------- MODULE ProxyIO -------------------------------
(***************************************************************************)
(* The proxy MTD as the users of its partitions see it: they open the      *)
(* proxy MTD or a partition, write and erase through it, and meanwhile the *)
(* partitions may be replaced.                                             *)
(*                                                                         *)
(* An ioctl is one step here, and so is a respawn; ProxyAtomic shows that  *)
(* the steps of ProxyDevice add up to these. A user that has a device open *)
(* is counted in use_refcnt, so InUse is use_refcnt # 0.                   *)
(*                                                                         *)
(* The module has no specification of its own: Mtdpartctl and ProxyAtomic  *)
(* put the actions defined here together.                                  *)
(***************************************************************************)
EXTENDS Recipe

CONSTANTS
  User,         \* threads that use the proxy MTD and its partitions
  MayFail,      \* whether an allocation, a registration or an unregistration may fail
  MaxChildren   \* bound on the partitions of the proxy MTD

VARIABLES
  registered,   \* the proxy MTD is in the MTD table
  children,     \* its partitions
  hold,         \* per user: the device it has open, as a set of one or none
  content       \* per byte of the backing MTD: erased, or written since

ioVars == <<registered, children, hold, content>>

Byte == 0..(MtdSize - 1)

\* An MTD device that users find; by says who asked for it and is in no code.
Device ==
  [offset : U64, size : U64, writable : BOOLEAN, powerup_lock : BOOLEAN,
   by : {"create", "recipe", "add"}]

\* proxy_mtd_create_device gives the proxy MTD the backing MTD's size and flags.
ProxyMtd ==
  [offset |-> 0, size |-> MtdSize, writable |-> TRUE, powerup_lock |-> FALSE,
   by |-> "create"]

ProxyIOInit ==
  /\ registered = TRUE
  /\ children = <<>>
  /\ hold = [u \in User |-> {}]
  /\ content = [b \in Byte |-> "erased"]

-----------------------------------------------------------------------------
(* Users                                                                   *)

Openable == (IF registered THEN {ProxyMtd} ELSE {}) \union Range(children)

\* Variant: only the users of the proxy MTD itself are counted.
InUseAsMaster == \E u \in User : ProxyMtd \in hold[u]

InUse == \E u \in User : hold[u] # {}

OpenDevice(u, d) ==
  /\ hold[u] = {}
  /\ hold' = [hold EXCEPT ![u] = {d}]
  /\ UNCHANGED <<registered, children, content>>

CloseDevice(u) ==
  /\ hold[u] # {}
  /\ hold' = [hold EXCEPT ![u] = {}]
  /\ UNCHANGED <<registered, children, content>>

\* The MTD core lets a user reach the bytes of its device if that is writable,
\* and hands the master a position that counts from the master's start.
Reached(u) == UNION {Bytes(d.offset, d.size) : d \in {w \in hold[u] : w.writable}}

\* proxy_mtd_write, proxy_mtd_write_oob: the backing MTD gets the position.
Write(u) ==
  /\ \E b \in Reached(u) : content' = [content EXCEPT ![b] = "written"]
  /\ UNCHANGED <<registered, children, hold>>

\* proxy_mtd_erase: the backing MTD erases the block the position lies in.
Erase(u) ==
  /\ \E at \in Reached(u) :
       content' = [b \in Byte |-> IF b \div EraseSize = at \div EraseSize
                                  THEN "erased" ELSE content[b]]
  /\ UNCHANGED <<registered, children, hold>>

-----------------------------------------------------------------------------
(* Changes of the partitions                                               *)

\* What add_mtd_partitions makes of an element of the array.
AsDevice(p) ==
  [offset |-> p.offset, size |-> p.size, writable |-> ~p.mask_writeable,
   powerup_lock |-> p.add_powerup_lock, by |-> "recipe"]

\* respawn_proxy_mtd_locked with the array it is given: all of it ...
RespawnDone(array) ==
  /\ ~InUse
  /\ \A i \in DOMAIN array : array[i].named
  /\ registered' = TRUE
  /\ children' = [i \in DOMAIN array |-> AsDevice(array[i])]
  /\ UNCHANGED <<hold, content>>

\* The ways to keep some elements of a list: the positions of those that stay.
Selections(list) ==
  UNION {{f \in [1..n -> DOMAIN list] : \A i, j \in 1..n : i < j => f[i] < f[j]} :
           n \in 0..Len(list)}

\* ... or -EBUSY, or a registration that fails after the unregistration, or an
\* unregistration that fails and leaves some of the partitions there were.
RespawnRefused(array) ==
  \/ InUse /\ UNCHANGED ioVars
  \/ /\ ~InUse
     /\ MayFail \/ \E i \in DOMAIN array : ~array[i].named
     /\ registered' = FALSE
     /\ children' = <<>>
     /\ UNCHANGED <<hold, content>>
  \/ /\ ~InUse
     /\ MayFail
     /\ \E f \in Selections(children) : children' = [i \in DOMAIN f |-> children[f[i]]]
     /\ UNCHANGED <<registered, hold, content>>

\* MTDPARTCTL_IOC_ADD_MTD_PARTITION: nothing asks whether it overlaps another
\* partition, nor whether the proxy MTD is still registered.
AddPartition(offset, length) ==
  /\ ImmediateAccepted(offset, length)
  /\ ~InUse
  /\ Len(children) < MaxChildren
  /\ children' = Append(children, [offset |-> offset, size |-> AdaptedLength(offset, length),
                                   writable |-> TRUE, powerup_lock |-> FALSE, by |-> "add"])
  /\ UNCHANGED <<registered, hold, content>>

\* MTDPARTCTL_IOC_DEL_MTD_PARTITION: only index 0 is ever resolved.
DelPartition(idx) ==
  /\ idx = 0 /\ children # <<>> /\ ~InUse
  /\ children' = Tail(children)
  /\ UNCHANGED <<registered, hold, content>>
=============================================================================
