-------------------------- MODULE ModuleLifeProofs --------------------------
(***************************************************************************)
(* The safety invariants of ModuleLife, for every MTD table, filter and    *)
(* number of clients. LifeInv says at which step of init or exit the       *)
(* module holds what; every invariant of the runs follows from it.         *)
(***************************************************************************)
EXTENDS ModuleLife, FiniteSetTheorems, TLAPS

-----------------------------------------------------------------------------
(* The inductive invariant                                                 *)

\* The steps with at least one device made or to be destroyed, and the steps
\* at which each of the resources of the module as a whole is held.
DeviceSteps ==
  {"next", "owner", "proxy", "cdev", "node", "loaded",
   "remove", "undo_node", "undo_cdev", "undo_proxy", "undo_owner"}
RegionSteps == DeviceSteps \union {"undo_region"}
ClassSteps == RegionSteps \union {"region", "undo_class"}
DevsSteps == ClassSteps \union {"class", "undo_devs"}
RefsSteps == DevsSteps \union {"devs", "put"}
MtdDevsSteps == RefsSteps \union {"refs", "put_locked"}
ParserSteps == MtdDevsSteps \union {"filter", "count", "mtd_devs", "undo_parser"}
Steps == ParserSteps \union {"parser", "failed", "unloaded"}

\* Each resource is held from the step that takes it to the one that gives it
\* back. Of the region only exit is sure to have given it back.
HeldInv ==
  /\ pc \in Steps
  /\ "parser" \in held <=> pc \in ParserSteps
  /\ "mtd_devs" \in held <=> pc \in MtdDevsSteps
  /\ "devs" \in held <=> pc \in DevsSteps
  /\ "class" \in held <=> pc \in ClassSteps
  /\ exiting /\ "region" \in held => pc \in RegionSteps

\* References are taken in the order of the table, and all of them are held
\* for as long as there is an array of devices.
RefsInv ==
  /\ pc \in {"parser", "filter", "count"} => count = 0
  /\ pc \in RefsSteps => refs = 1..count
  /\ pc \in {"refs", "put_locked"} => \E k \in 0..count : refs = 1..k
  /\ pc \notin MtdDevsSteps => refs = {}

\* Init makes the devices one after the other.
LoadInv ==
  /\ pc = "next" => \E k \in 0..count : nodes = 1..k
  /\ pc \in {"owner", "proxy", "cdev", "node"} =>
       \E k \in 0..(count - 1) : nodes = 1..k /\ dev = k + 1

\* What there is of a device, complete or not, at each step: the complete ones
\* have all of it, and dev is the only one that may have part of it.
PartsInv ==
  /\ nodes # {} => pc \in DeviceSteps
  /\ pc = "undo_node" => dev \in nodes
  /\ pc \in {"owner", "proxy", "cdev", "node", "undo_cdev", "undo_proxy", "undo_owner"} =>
       dev \in Device \ nodes
  /\ cdevs = IF pc \in {"node", "undo_cdev"} THEN nodes \union {dev} ELSE nodes
  /\ proxies = IF pc \in {"cdev", "node", "undo_cdev", "undo_proxy"}
               THEN nodes \union {dev} ELSE nodes
  /\ owners = IF pc \in {"proxy", "cdev", "node", "undo_cdev", "undo_proxy", "undo_owner"}
              THEN nodes \union {dev} ELSE nodes

\* Exit begins when no control device is open and no user pins the module, and
\* from then on none can.
ExitInv ==
  /\ exiting => pc \in {"remove", "undo_node", "undo_cdev", "undo_proxy", "undo_owner",
                        "undo_region", "undo_class", "undo_devs", "put", "undo_parser",
                        "unloaded"}
  /\ pc = "unloaded" => exiting
  /\ exiting => \A p \in Opener : file[p] = 0
  /\ exiting => \A u \in User : use[u] # 0 => ~IsNand(use[u])

LifeInv == TypeOK /\ HeldInv /\ RefsInv /\ LoadInv /\ PartsInv /\ ExitInv

-----------------------------------------------------------------------------
(* One lemma per part of the invariant                                     *)

\* The clients change nothing but what they hold.
ClientStep ==
  \/ \E p \in Opener : Open(p) \/ Close(p)
  \/ \E u \in User : GetProxy(u) \/ PutProxy(u)

\* Each step of init and exit takes or gives back the resource that the steps
\* from there on are to find held or free.
LEMMA HeldStep ==
  ASSUME LifeInv, Next
  PROVE  HeldInv'
  <1> USE DEF LifeInv, HeldInv, ExitInv, Steps, ParserSteps, MtdDevsSteps, RefsSteps, DevsSteps,
              ClassSteps, RegionSteps, DeviceSteps, Goto, Take, Give,
              loadVars, configVars, classVars, deviceVars, clientVars
  <1>1. CASE ParserInit
    BY <1>1 DEF ParserInit
  <1>2. CASE DetermineFilter
    BY <1>2 DEF DetermineFilter
  <1>3. CASE CountMtds
    BY <1>3 DEF CountMtds
  <1>4. CASE AllocMtdDevs
    BY <1>4 DEF AllocMtdDevs
  <1>5. CASE GetRef
    BY <1>5 DEF GetRef
  <1>6. CASE PutLocked
    BY <1>6 DEF PutLocked
  <1>7. CASE AllocDevs
    BY <1>7 DEF AllocDevs
  <1>8. CASE ClassCreate
    BY <1>8 DEF ClassCreate
  <1>9. CASE AllocRegion
    BY <1>9 DEF AllocRegion
  <1>10. CASE NextDevice
    BY <1>10 DEF NextDevice
  <1>11. CASE PinOwner \/ CreateProxy \/ CreateChrdev \/ CreateNode
    BY <1>11 DEF PinOwner, CreateProxy, CreateChrdev, CreateNode
  <1>12. CASE RemoveDevice
    BY <1>12 DEF RemoveDevice
  <1>13. CASE DestroyNode \/ DestroyChrdev \/ DestroyProxy \/ UnpinOwner
    BY <1>13 DEF DestroyNode, DestroyChrdev, DestroyProxy, UnpinOwner
  <1>14. CASE UnregisterRegion
    BY <1>14 DEF UnregisterRegion
  <1>15. CASE ClassDestroy
    BY <1>15 DEF ClassDestroy
  <1>16. CASE FreeDevs
    BY <1>16 DEF FreeDevs
  <1>17. CASE PutAll
    BY <1>17 DEF PutAll
  <1>18. CASE ParserDestroy
    BY <1>18 DEF ParserDestroy
  <1>19. CASE Unload
    BY <1>19 DEF Unload
  <1>20. CASE ClientStep
    BY <1>20 DEF ClientStep, Open, Close, GetProxy, PutProxy
  <1> QED
    BY <1>1, <1>2, <1>3, <1>4, <1>5, <1>6, <1>7, <1>8, <1>9, <1>10, <1>11, <1>12, <1>13,
       <1>14, <1>15, <1>16, <1>17, <1>18, <1>19, <1>20 DEF Next, ModuleInit, ModuleExit, ClientStep

\* A segment of the devices has as many of them as its last one says, and the
\* next one makes it one longer.
LEMMA Segment ==
  ASSUME NEW k \in Nat
  PROVE  /\ Cardinality(1..k) = k
         /\ 1..(k + 1) = (1..k) \union {k + 1}
  <1>1. Cardinality(1..k) = IF 1 > k THEN 0 ELSE k - 1 + 1
    BY FS_Interval
  <1> QED
    BY <1>1

\* The filter selects a number of backing MTDs.
LEMMA SelectedCount ==
  ASSUME table \in Seq(Mtd)
  PROVE  Cardinality(Selected) \in Nat
  <1>1. Len(table) \in Nat /\ IsFiniteSet(1..Len(table))
    BY FS_Interval
  <1>2. IsFiniteSet(Selected)
    <2>1. Selected \in SUBSET (1..Len(table))
      BY DEF Selected
    <2> QED
      BY <1>1, <2>1, FS_Subset
  <1> QED
    BY <1>2, FS_CardinalityType

\* Which device is a NAND one is fixed at load time.
LEMMA KindStays ==
  ASSUME UNCHANGED configVars, NEW i
  PROVE  IsNand(i)' <=> IsNand(i)
  BY DEF configVars, IsNand, Backing, Selected, Wanted

\* References are taken one by one up to count, and put all at once.
LEMMA RefsStep ==
  ASSUME LifeInv, Next
  PROVE  RefsInv'
  <1> USE DEF LifeInv, TypeOK, RefsInv, HeldInv, Device, Steps, ParserSteps, MtdDevsSteps,
              RefsSteps, DevsSteps, ClassSteps, RegionSteps, DeviceSteps, Goto, Take, Give,
              loadVars, configVars, classVars, deviceVars, clientVars
  <1>1. CASE ParserInit \/ DetermineFilter
    BY <1>1 DEF ParserInit, DetermineFilter
  <1>2. CASE CountMtds
    BY <1>2 DEF CountMtds
  <1>3. CASE AllocMtdDevs
    <2>1. refs' = 1..0 /\ 0 \in 0..count
      BY <1>3 DEF AllocMtdDevs
    <2> QED
      BY <1>3, <2>1 DEF AllocMtdDevs
  <1>4. CASE GetRef
    <2>1. PICK k \in 0..count : refs = 1..k
      BY <1>4 DEF GetRef
    <2>2. CASE refs # 1..count /\ refs' = refs \union {Cardinality(refs) + 1}
      <3>1. k + 1 \in 0..count
        BY <2>1, <2>2
      <3>2. refs' = 1..(k + 1)
        BY <2>1, <2>2, Segment
      <3> QED
        BY <1>4, <2>2, <3>1, <3>2 DEF GetRef
    <2>3. CASE UNCHANGED refs
      BY <1>4, <2>1, <2>3 DEF GetRef
    <2> QED
      BY <1>4, <2>2, <2>3 DEF GetRef
  <1>5. CASE PutLocked
    BY <1>5 DEF PutLocked
  <1>6. CASE AllocDevs \/ ClassCreate \/ AllocRegion
    BY <1>6 DEF AllocDevs, ClassCreate, AllocRegion
  <1>7. CASE NextDevice \/ PinOwner \/ CreateProxy \/ CreateChrdev \/ CreateNode
    BY <1>7 DEF NextDevice, PinOwner, CreateProxy, CreateChrdev, CreateNode
  <1>8. CASE RemoveDevice \/ DestroyNode \/ DestroyChrdev \/ DestroyProxy \/ UnpinOwner
    BY <1>8 DEF RemoveDevice, DestroyNode, DestroyChrdev, DestroyProxy, UnpinOwner
  <1>9. CASE UnregisterRegion \/ ClassDestroy \/ FreeDevs
    BY <1>9 DEF UnregisterRegion, ClassDestroy, FreeDevs
  <1>10. CASE PutAll
    BY <1>10 DEF PutAll
  <1>11. CASE ParserDestroy \/ Unload
    BY <1>11 DEF ParserDestroy, Unload
  <1>12. CASE ClientStep
    <2>1. /\ file' \in [Opener -> Device \union {0}]
          /\ use' \in [User -> Device \union {0}]
      BY <1>12 DEF ClientStep, Open, Close, GetProxy, PutProxy
    <2> QED
      BY <1>12, <2>1 DEF ClientStep, Open, Close, GetProxy, PutProxy
  <1> QED
    BY <1>1, <1>2, <1>3, <1>4, <1>5, <1>6, <1>7, <1>8, <1>9, <1>10, <1>11, <1>12
    DEF Next, ModuleInit, ModuleExit, ClientStep

\* Each turn of the loop of add_devices makes the device behind the last one.
LEMMA LoadStep ==
  ASSUME LifeInv, Next
  PROVE  LoadInv'
  <1> USE DEF LifeInv, TypeOK, LoadInv, PartsInv, RefsInv, Device, DeviceSteps, Goto, Take, Give,
              loadVars, configVars, classVars, deviceVars, clientVars
  <1>1. CASE ParserInit \/ DetermineFilter
    BY <1>1 DEF ParserInit, DetermineFilter
  <1>2. CASE CountMtds
    BY <1>2 DEF CountMtds
  <1>3. CASE AllocMtdDevs \/ GetRef \/ PutLocked \/ AllocDevs \/ ClassCreate
    BY <1>3 DEF AllocMtdDevs, GetRef, PutLocked, AllocDevs, ClassCreate
  <1>4. CASE AllocRegion
    <2>1. nodes' = 1..0 /\ 0 \in 0..count
      BY <1>4 DEF AllocRegion
    <2> QED
      BY <1>4, <2>1 DEF AllocRegion
  <1>5. CASE NextDevice
    BY <1>5, Segment DEF NextDevice
  <1>6. CASE PinOwner \/ CreateProxy \/ CreateChrdev
    BY <1>6 DEF PinOwner, CreateProxy, CreateChrdev
  <1>7. CASE CreateNode
    <2>1. PICK k \in 0..(count - 1) : nodes = 1..k /\ dev = k + 1
      BY <1>7 DEF CreateNode
    <2>2. 1..(k + 1) = nodes \union {dev} /\ k + 1 \in 0..count
      BY <2>1, Segment
    <2> QED
      BY <1>7, <2>2 DEF CreateNode
  <1>8. CASE RemoveDevice \/ DestroyNode \/ DestroyChrdev \/ DestroyProxy \/ UnpinOwner
    BY <1>8 DEF RemoveDevice, DestroyNode, DestroyChrdev, DestroyProxy, UnpinOwner
  <1>9. CASE UnregisterRegion \/ ClassDestroy \/ FreeDevs \/ PutAll \/ ParserDestroy \/ Unload
    BY <1>9 DEF UnregisterRegion, ClassDestroy, FreeDevs, PutAll, ParserDestroy, Unload
  <1>10. CASE ClientStep
    BY <1>10 DEF ClientStep, Open, Close, GetProxy, PutProxy
  <1> QED
    BY <1>1, <1>2, <1>3, <1>4, <1>5, <1>6, <1>7, <1>8, <1>9, <1>10
    DEF Next, ModuleInit, ModuleExit, ClientStep

\* A device gets its parts in one order and loses them in the opposite one,
\* wherever its creation fails.
LEMMA PartsStep ==
  ASSUME LifeInv, Next
  PROVE  PartsInv'
  <1> USE DEF LifeInv, TypeOK, LoadInv, PartsInv, RefsInv, Device, DeviceSteps, Goto, Take, Give,
              loadVars, configVars, classVars, deviceVars, clientVars
  <1>1. CASE ParserInit \/ DetermineFilter
    BY <1>1 DEF ParserInit, DetermineFilter
  <1>2. CASE CountMtds
    BY <1>2 DEF CountMtds
  <1>3. CASE AllocMtdDevs \/ GetRef \/ PutLocked \/ AllocDevs \/ ClassCreate \/ AllocRegion
    BY <1>3 DEF AllocMtdDevs, GetRef, PutLocked, AllocDevs, ClassCreate, AllocRegion
  <1>4. CASE NextDevice
    BY <1>4, Segment DEF NextDevice
  <1>5. CASE PinOwner
    BY <1>5 DEF PinOwner
  <1>6. CASE CreateProxy
    BY <1>6 DEF CreateProxy
  <1>7. CASE CreateChrdev
    BY <1>7 DEF CreateChrdev
  <1>8. CASE CreateNode
    BY <1>8 DEF CreateNode
  <1>9. CASE RemoveDevice
    BY <1>9 DEF RemoveDevice
  <1>10. CASE DestroyNode
    BY <1>10 DEF DestroyNode
  <1>11. CASE DestroyChrdev
    BY <1>11 DEF DestroyChrdev
  <1>12. CASE DestroyProxy
    BY <1>12 DEF DestroyProxy
  <1>13. CASE UnpinOwner
    BY <1>13 DEF UnpinOwner
  <1>14. CASE UnregisterRegion \/ ClassDestroy \/ FreeDevs \/ PutAll \/ ParserDestroy \/ Unload
    BY <1>14 DEF UnregisterRegion, ClassDestroy, FreeDevs, PutAll, ParserDestroy, Unload
  <1>15. CASE ClientStep
    BY <1>15 DEF ClientStep, Open, Close, GetProxy, PutProxy
  <1> QED
    BY <1>1, <1>2, <1>3, <1>4, <1>5, <1>6, <1>7, <1>8, <1>9, <1>10, <1>11, <1>12, <1>13,
       <1>14, <1>15
    DEF Next, ModuleInit, ModuleExit, ClientStep

\* What the kernel checks before it unloads the module cannot become untrue
\* while exit runs.
LEMMA ExitStep ==
  ASSUME LifeInv, Next
  PROVE  ExitInv'
  <1> USE DEF LifeInv, TypeOK, ExitInv, Goto, Take, Give, loadVars, configVars, classVars,
              deviceVars, clientVars
  <1>1. UNCHANGED configVars
    BY DEF Next, ModuleInit, ModuleExit, ParserInit, DetermineFilter, CountMtds, AllocMtdDevs,
           GetRef, PutLocked, AllocDevs, ClassCreate, AllocRegion, NextDevice, PinOwner,
           CreateProxy, CreateChrdev, CreateNode, RemoveDevice, DestroyNode, DestroyChrdev,
           DestroyProxy, UnpinOwner, UnregisterRegion, ClassDestroy, FreeDevs, PutAll,
           ParserDestroy, Unload, Open, Close, GetProxy, PutProxy
  <1>2. CASE ModuleInit
    BY <1>1, <1>2, KindStays
       DEF ModuleInit, ParserInit, DetermineFilter, CountMtds, AllocMtdDevs, GetRef, PutLocked,
           AllocDevs, ClassCreate, AllocRegion, NextDevice, PinOwner, CreateProxy, CreateChrdev,
           CreateNode
  <1>3. CASE ModuleExit
    BY <1>1, <1>3, KindStays
       DEF ModuleExit, RemoveDevice, DestroyNode, DestroyChrdev, DestroyProxy, UnpinOwner,
           UnregisterRegion, ClassDestroy, FreeDevs, PutAll, ParserDestroy
  <1>4. CASE Unload
    BY <1>1, <1>4, KindStays DEF Unload, PinsModule
  <1>5. CASE \E p \in Opener : Open(p) \/ Close(p)
    BY <1>1, <1>5, KindStays DEF Open, Close
  <1>6. CASE \E u \in User : GetProxy(u) \/ PutProxy(u)
    BY <1>1, <1>6, KindStays DEF GetProxy, PutProxy, PinsModule
  <1> QED
    BY <1>2, <1>3, <1>4, <1>5, <1>6 DEF Next

\* No step leaves the range of the devices.
LEMMA TypeStep ==
  ASSUME LifeInv, Next
  PROVE  TypeOK'
  <1> USE DEF LifeInv, TypeOK, Resource, RefsInv, LoadInv, PartsInv, Device, Goto, Take, Give,
              loadVars, configVars, classVars, deviceVars, clientVars
  <1>1. CASE ParserInit \/ DetermineFilter
    BY <1>1 DEF ParserInit, DetermineFilter
  <1>2. CASE CountMtds
    BY <1>2, SelectedCount DEF CountMtds
  <1>3. CASE AllocMtdDevs \/ AllocDevs \/ ClassCreate \/ AllocRegion
    BY <1>3 DEF AllocMtdDevs, AllocDevs, ClassCreate, AllocRegion
  <1>4. CASE GetRef
    <2>1. PICK k \in 0..count : refs = 1..k
      BY <1>4 DEF GetRef
    <2>2. refs # 1..count => Cardinality(refs) + 1 \in Device
      BY <2>1, Segment
    <2> QED
      BY <1>4, <2>2 DEF GetRef
  <1>5. CASE PutLocked
    BY <1>5 DEF PutLocked
  <1>6. CASE NextDevice
    <2>1. PICK k \in 0..count : nodes = 1..k
      BY <1>6 DEF NextDevice
    <2>2. Cardinality(nodes) = k
      BY <2>1, Segment
    <2>3. nodes # 1..count => Cardinality(nodes) + 1 \in Device
      BY <2>1, <2>2
    <2> QED
      BY <1>6, <2>3 DEF NextDevice
  <1>7. CASE PinOwner \/ CreateProxy \/ CreateChrdev \/ CreateNode
    BY <1>7 DEF PinOwner, CreateProxy, CreateChrdev, CreateNode
  <1>8. CASE RemoveDevice
    BY <1>8 DEF RemoveDevice
  <1>9. CASE DestroyNode \/ DestroyChrdev \/ DestroyProxy \/ UnpinOwner
    BY <1>9 DEF DestroyNode, DestroyChrdev, DestroyProxy, UnpinOwner
  <1>10. CASE UnregisterRegion \/ ClassDestroy \/ FreeDevs \/ PutAll \/ ParserDestroy
    BY <1>10 DEF UnregisterRegion, ClassDestroy, FreeDevs, PutAll, ParserDestroy
  <1>11. CASE Unload
    BY <1>11 DEF Unload
  <1>12. CASE ClientStep
    <2>1. /\ file' \in [Opener -> Device \union {0}]
          /\ use' \in [User -> Device \union {0}]
      BY <1>12 DEF ClientStep, Open, Close, GetProxy, PutProxy
    <2> QED
      BY <1>12, <2>1 DEF ClientStep, Open, Close, GetProxy, PutProxy
  <1> QED
    BY <1>1, <1>2, <1>3, <1>4, <1>5, <1>6, <1>7, <1>8, <1>9, <1>10, <1>11, <1>12
    DEF Next, ModuleInit, ModuleExit, ClientStep

-----------------------------------------------------------------------------
(* The invariants                                                          *)

\* LifeInv holds in every state of a load and unload.
LEMMA LifeInvariant == Spec => []LifeInv
  <1>1. Init => LifeInv
    <2> SUFFICES ASSUME Init PROVE LifeInv
      OBVIOUS
    <2>1. TypeOK
      BY LifeAssumption DEF Init, TypeOK, Device
    <2>2. HeldInv /\ RefsInv /\ LoadInv /\ PartsInv /\ ExitInv
      BY DEF Init, HeldInv, RefsInv, LoadInv, PartsInv, ExitInv, Steps, ParserSteps,
             MtdDevsSteps, RefsSteps, DevsSteps, ClassSteps, RegionSteps, DeviceSteps
    <2> QED
      BY <2>1, <2>2 DEF LifeInv
  <1>2. LifeInv /\ [Next]_vars => LifeInv'
    <2> SUFFICES ASSUME LifeInv, [Next]_vars PROVE LifeInv'
      OBVIOUS
    <2>1. CASE Next
      BY <2>1, HeldStep, RefsStep, LoadStep, PartsStep, ExitStep, TypeStep DEF LifeInv
    <2>2. CASE UNCHANGED vars
      <3>1. ExitInv'
        BY <2>2, KindStays
           DEF LifeInv, ExitInv, vars, loadVars, configVars, classVars, deviceVars, clientVars
      <3> QED
        BY <2>2, <3>1
           DEF LifeInv, TypeOK, HeldInv, RefsInv, LoadInv, PartsInv, Device, vars, loadVars,
               configVars, classVars, deviceVars, clientVars
    <2> QED
      BY <2>1, <2>2
  <1> QED
    BY <1>1, <1>2, PTL DEF Spec

\* Every number of a device that the module keeps, and every device a client has
\* in its hands, is below the count that the arrays were allocated for, for any
\* MTD table, filter and point of failure (ctrl_dev_class.c:30).
THEOREM TypeCorrect == Spec => []TypeOK
  <1>1. LifeInv => TypeOK
    BY DEF LifeInv
  <1> QED
    BY <1>1, LifeInvariant, PTL

\* A load that failed, at any step and with any number of devices made, and an
\* unload leave no reference, pinned module, device or registration behind, but
\* for the chrdev region of a failed load (the error labels of
\* mtdpartctl_device_class_init and mtdpartikr_exit).
THEOREM EverythingGivenBack == Spec => []GivenBack
  <1>1. LifeInv => GivenBack
    BY DEF LifeInv, GivenBack, TypeOK, Resource, HeldInv, RefsInv, PartsInv, ExitInv, ParserSteps,
           MtdDevsSteps, RefsSteps, DevsSteps, ClassSteps, RegionSteps, DeviceSteps
  <1> QED
    BY <1>1, LifeInvariant, PTL

\* A control device that can be opened has its proxy MTD, and the arrays and the
\* class that its file operations use (mtdpartctl_device_create adds the chrdev
\* last of these and mtdpartctl_device_destroy deletes it first).
THEOREM OpenableComplete == Spec => []OpenableIsComplete
  <1>1. LifeInv => OpenableIsComplete
    BY DEF LifeInv, OpenableIsComplete, TypeOK, HeldInv, PartsInv, MtdDevsSteps, RefsSteps,
           DevsSteps, ClassSteps, RegionSteps, DeviceSteps
  <1> QED
    BY <1>1, LifeInvariant, PTL

\* While a proxy MTD is registered, its backing MTD is referenced and that MTD's
\* module pinned, through every failure of init and all of exit
\* (ctrl_dev.c:700).
THEOREM BackingOutlives == Spec => []BackingOutlivesProxy
  <1>1. LifeInv => BackingOutlivesProxy
    BY DEF LifeInv, BackingOutlivesProxy, TypeOK, RefsInv, PartsInv, Device, RefsSteps,
           DevsSteps, ClassSteps, RegionSteps, DeviceSteps
  <1> QED
    BY <1>1, LifeInvariant, PTL

\* While exit runs no user of a NAND proxy MTD loses it and no control device is
\* open, whatever clients try meanwhile (proxy_mtd_dev.c:159-188 names the owner).
THEOREM UsersOutliveExit == Spec => []ExitLeavesUsersAlone
  <1>1. LifeInv => ExitLeavesUsersAlone
    BY DEF LifeInv, ExitLeavesUsersAlone, ExitInv
  <1> QED
    BY <1>1, LifeInvariant, PTL
=============================================================================
