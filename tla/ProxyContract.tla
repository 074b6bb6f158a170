---------------------------- MODULE ProxyContract ----------------------------
(***************************************************************************)
(* What the proxy MTD promises its users: the set of MTD devices they can   *)
(* open does not change while any of them is in use. One partition at a    *)
(* time may come or go at any other moment; to change more, the proxy is   *)
(* first closed to new users, and then nobody sees the set in between.     *)
(***************************************************************************)
EXTENDS Integers

CONSTANTS
  User,     \* threads that use the proxy MTD
  Device,   \* the MTD devices there may be: the proxy and its partitions
  First     \* the one there is at the start

VARIABLES
  users,    \* the users that hold one of the devices
  closed,   \* no user may join
  devices   \* the devices that can be found

contractVars == <<users, closed, devices>>

Init ==
  /\ users = {}
  /\ closed = FALSE
  /\ devices = {First}

Join(u) ==
  /\ ~closed
  /\ users' = users \union {u}
  /\ UNCHANGED <<closed, devices>>

Leave(u) ==
  /\ users' = users \ {u}
  /\ UNCHANGED <<closed, devices>>

Appear(d) ==
  /\ ~closed /\ users = {}
  /\ devices' = devices \union {d}
  /\ UNCHANGED <<users, closed>>

Vanish(d) ==
  /\ ~closed /\ users = {}
  /\ devices' = devices \ {d}
  /\ UNCHANGED <<users, closed>>

Close ==
  /\ ~closed
  /\ closed' = TRUE
  /\ UNCHANGED <<users, devices>>

Reshape ==
  /\ closed /\ users = {}
  /\ devices' \in SUBSET Device
  /\ UNCHANGED <<users, closed>>

Reopen ==
  /\ closed
  /\ closed' = FALSE
  /\ UNCHANGED <<users, devices>>

Next ==
  \/ \E u \in User : Join(u) \/ Leave(u)
  \/ \E d \in Device : Appear(d) \/ Vanish(d)
  \/ Close \/ Reshape \/ Reopen

Spec == Init /\ [][Next]_contractVars
=============================================================================
