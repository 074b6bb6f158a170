----------------------------- MODULE ModuleLife -----------------------------
(***************************************************************************)
(* The life of the kernel module: init takes what it needs step by step    *)
(* and gives it back when a step fails, exit gives all of it back. Each    *)
(* proxy MTD and control device can be used from the moment it exists,     *)
(* also while init is still at work on the next one.                       *)
(*                                                                         *)
(* Device i is the i-th backing MTD that the filter selects; its minor is  *)
(* i - 1. Every step of init or exit that another thread could tell from   *)
(* its neighbours is an action of its own. pc names the step that is next. *)
(***************************************************************************)
EXTENDS Integers, Sequences, FiniteSets

CONSTANTS
  Tables,      \* the MTD tables there may be at load time
  Filters,     \* the values of the parameter device_type_filter
  Opener,      \* processes that open control devices
  User,        \* threads that use proxy MTDs
  MayFail      \* whether a step that can fail may do so

\* Of a struct mtd_info in the table: its type, and whether it is a partition.
Mtd == [type : {"nor", "nand", "mlc", "ram"}, partition : BOOLEAN]

ASSUME LifeAssumption ==
  /\ Tables \subseteq Seq(Mtd)
  /\ MayFail \in BOOLEAN

VARIABLES
  pc,        \* the step of init or exit that is next
  exiting,   \* mtdpartikr_exit has begun
  table,     \* the MTD table
  filter,    \* device_type_filter
  dev,       \* the device that is being made or destroyed, 0 for none
  held,      \* the allocations and registrations of the module as a whole
  count,     \* s_all_devs.count
  refs,      \* devices whose backing MTD this module holds a reference on
  owners,    \* devices whose backing MTD's module is pinned
  proxies,   \* devices whose proxy MTD is registered
  cdevs,     \* devices whose control device can be opened
  nodes,     \* devices that mtdpartctl_device_create has completed
  file,      \* per opener: the control device it has open, 0 for none
  use        \* per user: the device whose proxy MTD it holds, 0 for none

loadVars == <<pc, exiting, dev>>
configVars == <<table, filter>>
classVars == <<held, count, refs>>
deviceVars == <<owners, proxies, cdevs, nodes>>
clientVars == <<file, use>>
vars == <<loadVars, configVars, classVars, deviceVars, clientVars>>

Resource == {"parser", "mtd_devs", "devs", "class", "region"}

Init ==
  /\ pc = "parser" /\ exiting = FALSE
  /\ table \in Tables
  /\ filter \in Filters
  /\ dev = 0
  /\ held = {} /\ count = 0
  /\ refs = {} /\ owners = {} /\ proxies = {} /\ cdevs = {} /\ nodes = {}
  /\ file = [p \in Opener |-> 0]
  /\ use = [u \in User |-> 0]

-----------------------------------------------------------------------------
(* Selecting the backing MTDs                                              *)

\* The three loops of mtd_for_each_master_device_filtered_locked.
Wanted(mtd) ==
  /\ ~mtd.partition
  /\ \/ filter = "all"
     \/ filter = "nor" /\ mtd.type = "nor"
     \/ filter = "nand" /\ mtd.type \in {"nor", "mlc"}

\* The places in the table of the backing MTDs, one per device.
Selected == {k \in 1..Len(table) : Wanted(table[k])}

\* Device i stands for the i-th of them in the order of the table.
Backing(i) == table[CHOOSE k \in Selected : Cardinality({j \in Selected : j <= k}) = i]

\* proxy_mtd_create_device makes a NAND device for these types. nanddev_init
\* then names this module as the owner of the proxy MTD, so its users pin the
\* module; the proxy MTD of any other type has no owner.
IsNand(i) == Backing(i).type \in {"nand", "mlc"}

\* Variant: nanddev_init is given no owner either.
PinsNothing(i) == FALSE

PinsModule(i) == IsNand(i)

-----------------------------------------------------------------------------
(* mtdpartikr_init and mtdpartctl_device_class_init                        *)

Goto(from, to) == pc = from /\ pc' = to

\* A step of the class as a whole: it takes a resource, or fails.
Take(from, resource, to, onFailure) ==
  /\ \/ Goto(from, to) /\ held' = held \union {resource}
     \/ MayFail /\ Goto(from, onFailure) /\ UNCHANGED held
  /\ UNCHANGED <<exiting, dev, configVars, count, refs, deviceVars, clientVars>>

Give(from, resource, to) ==
  /\ Goto(from, to)
  /\ held' = held \ {resource}
  /\ UNCHANGED <<exiting, dev, configVars, count, refs, deviceVars, clientVars>>

ParserInit == Take("parser", "parser", "filter", "failed")

DetermineFilter ==
  /\ Goto("filter", IF filter \in {"all", "nand", "nor"} THEN "count" ELSE "undo_parser")
  /\ UNCHANGED <<exiting, dev, configVars, classVars, deviceVars, clientVars>>

\* get_all_matching_mtd_devices, first walk, under mtd_table_mutex.
CountMtds ==
  /\ Goto("count", IF Selected = {} THEN "undo_parser" ELSE "mtd_devs")
  /\ count' = Cardinality(Selected)
  /\ UNCHANGED <<exiting, dev, configVars, held, refs, deviceVars, clientVars>>

AllocMtdDevs == Take("mtd_devs", "mtd_devs", "refs", "undo_parser")

\* Second walk: one reference after the other, in the order of the table.
GetRef ==
  /\ \/ /\ refs # 1..count
        /\ Goto("refs", "refs")
        /\ refs' = refs \union {Cardinality(refs) + 1}
     \/ /\ refs = 1..count
        /\ Goto("refs", "devs")
        /\ UNCHANGED refs
     \/ /\ MayFail /\ refs # 1..count
        /\ Goto("refs", "put_locked")
        /\ UNCHANGED refs
  /\ UNCHANGED <<exiting, dev, configVars, held, count, deviceVars, clientVars>>

\* put_all_mtd_devices with mtd_table_mutex held: put_mtd_device waits for it,
\* so this goes on only when there is nothing to put. The caller then frees the
\* array of references a second time; held says no more than that it is free.
PutLocked ==
  /\ refs = {}
  /\ Give("put_locked", "mtd_devs", "undo_parser")

AllocDevs == Take("devs", "devs", "class", "put")

\* Variant: the array of devices is forgotten when there is no class.
ClassCreateForgetsDevs == Take("class", "class", "region", "put")

ClassCreate == Take("class", "class", "region", "undo_devs")

AllocRegion == Take("region", "region", "next", "undo_class")

-----------------------------------------------------------------------------
(* add_devices and mtdpartctl_device_create                                *)

\* Variant: the loop runs once too often.
NextDeviceOneMore ==
  /\ \/ Goto("next", "owner") /\ dev' = Cardinality(nodes) + 1
     \/ Goto("next", "loaded") /\ nodes = 1..count /\ dev' = 0
  /\ UNCHANGED <<exiting, configVars, classVars, deviceVars, clientVars>>

NextDevice ==
  /\ IF nodes = 1..count
     THEN Goto("next", "loaded") /\ dev' = 0
     ELSE Goto("next", "owner") /\ dev' = Cardinality(nodes) + 1
  /\ UNCHANGED <<exiting, configVars, classVars, deviceVars, clientVars>>

\* Variant: a device that cannot be made is tried again.
PinOwnerTriesAgain ==
  /\ \/ Goto("owner", "proxy") /\ owners' = owners \union {dev}
     \/ MayFail /\ Goto("owner", "next") /\ UNCHANGED owners
  /\ UNCHANGED <<exiting, dev, configVars, classVars, proxies, cdevs, nodes, clientVars>>

\* try_module_get on the owner of the backing MTD.
PinOwner ==
  /\ \/ Goto("owner", "proxy") /\ owners' = owners \union {dev}
     \/ MayFail /\ Goto("owner", "remove") /\ UNCHANGED owners
  /\ UNCHANGED <<exiting, dev, configVars, classVars, proxies, cdevs, nodes, clientVars>>

\* proxy_mtd_create_device. The memory it takes is not tracked: a failed
\* registration and proxy_mtd_device_destroy free the mtd_info of a NAND proxy,
\* but not the bad block table that nanddev_init allocated.
CreateProxy ==
  /\ \/ Goto("proxy", "cdev") /\ proxies' = proxies \union {dev}
     \/ MayFail /\ Goto("proxy", "undo_owner") /\ UNCHANGED proxies
  /\ UNCHANGED <<exiting, dev, configVars, classVars, owners, cdevs, nodes, clientVars>>

\* mtdpartctl_chrdev_create: from cdev_add on the device can be opened.
CreateChrdev ==
  /\ \/ Goto("cdev", "node") /\ cdevs' = cdevs \union {dev}
     \/ MayFail /\ Goto("cdev", "undo_proxy") /\ UNCHANGED cdevs
  /\ UNCHANGED <<exiting, dev, configVars, classVars, owners, proxies, nodes, clientVars>>

CreateNode ==
  /\ \/ Goto("node", "next") /\ nodes' = nodes \union {dev}
     \/ MayFail /\ Goto("node", "undo_cdev") /\ UNCHANGED nodes
  /\ UNCHANGED <<exiting, dev, configVars, classVars, owners, proxies, cdevs, clientVars>>

-----------------------------------------------------------------------------
(* The error labels of init, which exit runs through as well               *)

\* remove_devices: the complete devices from the first on. On the way back
\* from a failure the chrdev region is not unregistered.
RemoveDevice ==
  /\ IF nodes = {}
     THEN Goto("remove", IF exiting THEN "undo_region" ELSE "undo_class") /\ dev' = 0
     ELSE /\ Goto("remove", "undo_node")
          /\ dev' \in nodes /\ \A i \in nodes : dev' <= i
  /\ UNCHANGED <<exiting, configVars, classVars, deviceVars, clientVars>>

\* Variant: the control device is deleted after the rest.
RemoveNodeFirst ==
  /\ Goto("undo_node", "undo_proxy")
  /\ nodes' = nodes \ {dev}
  /\ UNCHANGED <<exiting, dev, configVars, classVars, owners, proxies, cdevs, clientVars>>

DestroyNode ==
  /\ Goto("undo_node", "undo_cdev")
  /\ nodes' = nodes \ {dev}
  /\ UNCHANGED <<exiting, dev, configVars, classVars, owners, proxies, cdevs, clientVars>>

DestroyChrdev ==
  /\ Goto("undo_cdev", "undo_proxy")
  /\ cdevs' = cdevs \ {dev}
  /\ UNCHANGED <<exiting, dev, configVars, classVars, owners, proxies, nodes, clientVars>>

\* Variant: the proxy MTD is left registered.
DestroyProxyNot ==
  /\ Goto("undo_proxy", "undo_owner")
  /\ UNCHANGED <<exiting, dev, configVars, classVars, deviceVars, clientVars>>

\* proxy_mtd_device_destroy: unregistered and freed, whoever uses it.
DestroyProxy ==
  /\ Goto("undo_proxy", "undo_owner")
  /\ proxies' = proxies \ {dev}
  /\ UNCHANGED <<exiting, dev, configVars, classVars, owners, cdevs, nodes, clientVars>>

UnpinOwner ==
  /\ Goto("undo_owner", "remove")
  /\ owners' = owners \ {dev}
  /\ UNCHANGED <<exiting, dev, configVars, classVars, proxies, cdevs, nodes, clientVars>>

UnregisterRegion == Give("undo_region", "region", "undo_class")

ClassDestroy == Give("undo_class", "class", "undo_devs")

FreeDevs == Give("undo_devs", "devs", "put")

\* put_all_mtd_devices
PutAll ==
  /\ Goto("put", "undo_parser")
  /\ refs' = {}
  /\ held' = held \ {"mtd_devs"}
  /\ UNCHANGED <<exiting, dev, configVars, count, deviceVars, clientVars>>

ParserDestroy == Give("undo_parser", "parser", IF exiting THEN "unloaded" ELSE "failed")

-----------------------------------------------------------------------------
(* The clients, and the kernel's own rules: an open file of a control      *)
(* device pins the module that its file_operations name, and a module is   *)
(* unloaded only while nothing pins it.                                    *)

\* mtdpartctl_device_resolve_by_minor finds the device, and already_open lets
\* one process in.
Open(p) ==
  /\ file[p] = 0 /\ ~exiting
  /\ \E i \in cdevs : i \notin {file[q] : q \in Opener} /\ file' = [file EXCEPT ![p] = i]
  /\ UNCHANGED <<loadVars, configVars, classVars, deviceVars, use>>

Close(p) ==
  /\ file[p] # 0
  /\ file' = [file EXCEPT ![p] = 0]
  /\ UNCHANGED <<loadVars, configVars, classVars, deviceVars, use>>

GetProxy(u) ==
  /\ use[u] = 0
  /\ \E i \in proxies :
       /\ exiting => ~PinsModule(i)
       /\ use' = [use EXCEPT ![u] = i]
  /\ UNCHANGED <<loadVars, configVars, classVars, deviceVars, file>>

PutProxy(u) ==
  /\ use[u] # 0
  /\ use' = [use EXCEPT ![u] = 0]
  /\ UNCHANGED <<loadVars, configVars, classVars, deviceVars, file>>

Unload ==
  /\ Goto("loaded", "remove")
  /\ \A p \in Opener : file[p] = 0
  /\ \A u \in User : use[u] # 0 => ~PinsModule(use[u])
  /\ exiting' = TRUE
  /\ UNCHANGED <<dev, configVars, classVars, deviceVars, clientVars>>

-----------------------------------------------------------------------------
ModuleInit ==
  \/ ParserInit \/ DetermineFilter
  \/ CountMtds \/ AllocMtdDevs \/ GetRef \/ PutLocked
  \/ AllocDevs \/ ClassCreate \/ AllocRegion
  \/ NextDevice \/ PinOwner \/ CreateProxy \/ CreateChrdev \/ CreateNode

ModuleExit ==
  \/ RemoveDevice \/ DestroyNode \/ DestroyChrdev \/ DestroyProxy \/ UnpinOwner
  \/ UnregisterRegion \/ ClassDestroy \/ FreeDevs \/ PutAll \/ ParserDestroy

Next ==
  \/ ModuleInit \/ ModuleExit \/ Unload
  \/ \E p \in Opener : Open(p) \/ Close(p)
  \/ \E u \in User : GetProxy(u) \/ PutProxy(u)

Spec == Init /\ [][Next]_vars

\* The thread that loads or unloads the module is scheduled. Clients do as they
\* like: they may keep a device open for ever.
FairSpec == Spec /\ WF_vars(ModuleInit \/ ModuleExit)

-----------------------------------------------------------------------------
(* Properties                                                              *)

Device == 1..count

\* Every device number that the code keeps is one of the count devices, which
\* is what keeps devs[idx] and mtd_devs[idx] inside their arrays.
TypeOK ==
  /\ table \in Seq(Mtd) /\ filter \in Filters
  /\ exiting \in BOOLEAN
  /\ held \subseteq Resource
  /\ count \in Nat
  /\ dev \in Device \union {0}
  /\ refs \subseteq Device /\ owners \subseteq Device /\ proxies \subseteq Device
  /\ cdevs \subseteq Device /\ nodes \subseteq Device
  /\ file \in [Opener -> Device \union {0}]
  /\ use \in [User -> Device \union {0}]

\* Whatever failed and however far init had come, a load that fails and an
\* unload leave nothing behind of what is tracked here: no reference, no pinned
\* module, no device, no array. The chrdev region of a load that failed later is
\* the exception. That nothing is given back twice is not what this says.
GivenBack ==
  /\ pc \in {"failed", "unloaded"} =>
       refs = {} /\ owners = {} /\ proxies = {} /\ cdevs = {} /\ nodes = {}
  /\ pc = "failed" => held \subseteq {"region"}
  /\ pc = "unloaded" => held = {}

\* A control device can be opened, and looked up by its minor in the array of
\* devices, only while everything its ioctls work on is there.
OpenableIsComplete ==
  \A i \in cdevs :
    /\ {"devs", "mtd_devs", "class"} \subseteq held
    /\ i \in proxies

\* A proxy MTD never outlives the references on the backing MTD that its I/O
\* goes to ("we ensure that the MTD device can't disappear", ctrl_dev.c:700).
BackingOutlivesProxy == proxies \subseteq owners \intersect refs

\* Once the module has been loaded, the proxy MTD of a NAND device stays until
\* its last user is gone, and a control device until it is closed.
ExitLeavesUsersAlone ==
  exiting =>
    /\ \A u \in User : use[u] # 0 /\ IsNand(use[u]) => use[u] \in proxies
    /\ \A p \in Opener : file[p] = 0

\* Loading and unloading come to an end, through whatever error labels and with
\* whatever users do meanwhile; the exception is the init that waits for itself
\* at ctrl_dev_class.c:265.
Settled ==
  \/ pc \in {"loaded", "failed", "unloaded"}
  \/ pc = "put_locked" /\ refs # {}

LoadAndUnloadEnd == ~Settled ~> Settled

\* "so we can know for sure if something uses the MTD or not"
\* (proxy_mtd_dev.c:260): no proxy MTD is destroyed while something uses it.
UsedIsKept == \A u \in User : use[u] # 0 => use[u] \in proxies

\* "it needs to lock the mtd_table_mutex but we actually already locked it"
\* (ctrl_dev_class.c:160): no reference is put under mtd_table_mutex.
NoPutUnderTableMutex == pc = "put_locked" => refs = {}
=============================================================================
