# A verification development for mtdpartikr

`mtdpartikr` is a Linux kernel module that puts a *proxy MTD* in front of every
matching flash device (the *backing MTD*) and a *control device*
`/dev/mtdpartctlN` beside it. Through the control device a program adds and
deletes partitions of the proxy MTD one at a time, or prepares a *recipe* of
parts and has the module take the whole proxy MTD out of the system and register
it again with those partitions (a *respawn*). `mtdpartctl` is the program that
does it from a shell or from a configuration file.

This directory models the part of it where things can go wrong between two
lines of code, checks the models with TLC on small instances, and proves with
TLAPS, for every value of the constants, the invariants that matter most.

## 1. The system

| Component | State it keeps | Operations | Modules here |
|---|---|---|---|
| Partition ranges (`ctrl_dev.c` 76-159, 346-364) | none | bounds, alignment, overflow, overlap, "rest of the device" | `PartitionRange` |
| Recipe (`ctrl_dev.c` 33-44, 161-270, 393-441; `ctrl_dev.h`) | list of parts, `parts_count`, `recipe->lock` | add, delete, restart, convert to `mtd_partition`s, list | `Recipe` |
| Control device session (`ctrl_dev.c` 46-74) | `already_open`, the recipe | open, release, the recipe ioctls | `RecipeSession`, `RecipePlan` |
| ioctls and respawn (`ctrl_dev.c` 272-342, 366-661) | `about_to_respawn`, the proxy MTD and its partitions | ten ioctls, `respawn_proxy_mtd_locked` | `ProxyDevice`, `ProxyContract`, `ProxyAtomic` |
| Proxy MTD reference count (`proxy_mtd_dev.c` 14-52) | `use_refcnt`, `proxy.lock` | `proxy_mtd_get_device`, `proxy_mtd_put_device` | `ProxyDevice`, `ProxyContract` |
| Proxy MTD creation (`proxy_mtd_dev.c` 159-281) | the `mtd_info` of the proxy | create, destroy | `ModuleLife`; its outcome is `Init` of `ProxyDevice` |
| Proxy MTD I/O (`proxy_mtd_dev.c` 54-157) | none; it reaches the bytes of the backing MTD | erase, read, write, OOB, NAND operations | `ProxyIO` (writes and erases) |
| Device class and module life (`ctrl_dev_class.c`, `init.c`, `ctrl_dev.c` 670-746) | the arrays of devices, references on backing MTDs, module references | init with rollback, exit, enumeration | `ModuleLife` |
| MTD parser (`mtd_parser.c`) | none | a parser that always says `-ENOENT` | `ModuleLife` (registration); otherwise an assumption |
| User library (`user/common`) | none | one wrapper per ioctl | `Mtdpartctl` |
| `mtdpartctl` (`main.go`) | `recipePartsCount`, the place in a configuration file | a REPL, a configuration file, `-reset-proxy` | `Mtdpartctl` |
| Unit tests, build and VM scripts | - | - | not modelled |

How they interact: `mtdpartctl` calls the library, the library calls ioctls on
the one open file of the control device (threads of a program may share that
file, so two ioctls may run at the same moment). Ioctls edit the recipe under
`recipe->lock`, look at `about_to_respawn` and `use_refcnt` under `proxy.lock`,
and call the MTD core, which takes `partitions_lock` of the proxy MTD and
`mtd_table_mutex`. From the other side, whoever opens the proxy MTD or one of
its partitions comes through `get_mtd_device`, which holds `mtd_table_mutex` and
calls back into `proxy_mtd_get_device`.

What is hard here: four mutexes taken in three different orders; a read of
`use_refcnt` without its lock; a respawn that holds `recipe->lock` but not
`proxy.lock` while ADD and DEL hold `proxy.lock` but not `recipe->lock`; a
registration that may fail after the unregistration succeeded, and an unregistration
that may itself fail half way; two counts of one list (`parts_count` and the list
itself); u64 arithmetic on requests from userspace. The unit tests of the repository run one ioctl at a time.
`PROJECT.json` lists the hazards with their lines.

What makes each component correct:

- ranges: an accepted range lies on whole erase blocks inside the device, and
  two ranges overlap exactly when they share a byte;
- recipe and session: one client owns it, no byte is in two parts, the array
  made from the count has room for the list, and what is listed and created is
  what the client asked for and did not take back;
- ioctls and respawn: one thread at a time changes the partitions, a respawn leaves
  all of what it was asked for or none of it, calls return, a respawn always opens the
  proxy MTD again, and what the threads do step by step has the effect of one operation after the other;
- reference count: it is the number of users, and no user sees a device vanish;
- module life: what init took is given back on every way out;
- the tool: what it says of the recipe is what the kernel has, and a
  configuration file is put in force as a whole or not at all, also when a line
  is refused or the process is killed;
- the whole way from a line of text to the flash: a user who writes and erases
  a partition reaches no byte outside it, and no partition of another user's.

## 2. The modules

**`PartitionRange`** is arithmetic only. `U64Max` stands for the largest u64, and
sums are reduced modulo `U64Max + 1`, so an overflow that went unnoticed would
wrap in the model as well. `Bytes` and `RangeFits` are the meaning against which
the code's comparisons are judged.

**`Recipe`** is `struct mtd_recipe` as a record of a sequence and a counter.
`PartDeleted` leaves the counter alone, as `del_recipe_part` does. `Converted`
has `parts_count` elements; those beyond the list are zeroed and have no name.
Part names are otherwise left out: the code copies them and never compares them.

**`RecipeSession`** has the clients. An ioctl under `recipe->lock` is one action,
open is two (the compare-and-swap, then `restart_recipe`). A create is two as
well, so that the lock is held while the array exists. A `BUG_ON` is the variable
`bug`: the thread is dead, and the lock it held is never released.
**`RecipePlan`** is the abstract specification: an owner and the sequence of the
requests in force. `RecipeSession` implements it through what LIST_RECIPE_PARTS
reports (`Listed`).

**`ProxyDevice`** is the core. Every thread has a `pc`: the point of the code it is
about to run. `Held(point)` says which mutexes the code holds there, and
`Step(t, from, to)` lets a thread run on only when the mutexes it begins to hold
are free. So a lock order is not assumed but follows from the code's
`mutex_lock` calls, and deadlocks are reachable. A mutex that is taken and
released between two points appears as `Free(lock)` in the guard of the step.

| Code | Model |
|---|---|
| `proxy.about_to_respawn`, `proxy.use_refcnt` | the variables of these names |
| `proxy.mtd` in the MTD table, `proxy.mtd->index`, `proxy.mtd->partitions` | `registered`, `index`, `children` |
| `dev->recipe`, the array of `create_recipe_partitions` | `recipe`, `array` |
| `ret` of `respawn_proxy_mtd_locked`, the index of DEL | `ret`, `target` |
| the ten ioctls | `Call` and then the actions named after them (`AddEnter`, `ListParts`, ...) |
| `respawn_proxy_mtd_locked` | `RespawnBegin` to `RespawnEnd` |
| `mtd_device_unregister`, `mtd_device_parse_register`, `mtd_add_partition`, `mtd_del_partition`, `get_mtd_device`, `put_mtd_device` | external: modelled from what this module relies on, namely which mutexes are held when, when a partition enters and leaves list and table, and what a call that fails leaves behind |

A respawn ends in one of four ways, and `ret` says which (`Outcome`): `"ok"`; `"busy"`,
when the proxy MTD has users (`ctrl_dev.c:288-291`); `"failed"`, when the registration
fails, as it does for an element without a name, and the core takes back what it had
registered; `"stuck"`, when the unregistration fails and the respawn leaves at once
(`ctrl_dev.c:297-298`). The MTD core goes through the partitions and passes over those
that do not leave the table: a respawn that is stuck may have taken out any of them and
has the proxy MTD still registered, or all of them have gone and the proxy MTD has not.
`AllOrNothing` says what is left in each case. The model lets a partition that was passed
over leave later in the same call, which adds an order and no outcome. What undoes a
failed registration, inside `mtd_device_parse_register`, is taken to succeed.

**`ProxyContract`** is what the proxy MTD promises its users: the set of devices
that can be opened never changes while any is in use, and a change of more than
one device happens only while new users are kept out. `ProxyDevice` implements it.

**`ModuleLife`** is `mtdpartikr_init`, `mtdpartikr_exit` and everything they call in
`ctrl_dev_class.c`, `ctrl_dev.c` and `proxy_mtd_dev.c`. `pc` names the step that is
next; every step that may fail has a second disjunct that goes to the error
label the code goes to. `held` is the set of module-wide allocations, and `refs`,
`owners`, `proxies`, `cdevs`, `nodes` are the sets of devices for which a step has
been taken and not undone. `Selected` is the set of table entries that the filter
takes, and `Backing(i)` is the one that device `i` was made for: the enumeration
walks the table in order. Clients open control devices as soon as `cdev_add` has
run and use proxy MTDs as soon as they are registered, also during init. The
kernel's own rules (an open file pins the module, `get_mtd_device` pins the owner
of the MTD) are external.

`FairSpec` adds that the thread which loads or unloads is scheduled; a load and
an unload then come to an end.

What is taken is kept in sets, so `GivenBack` says that nothing is left behind, and not
that nothing is given back twice: the array of references that the enumeration's error
path frees a second time (`ctrl_dev_class.c:219`, then 266) is just free. Nor is the
memory inside a step tracked, and some of it is lost: `nanddev_init`
(`proxy_mtd_dev.c:174`) allocates a bad block table that neither the failed registration
(268-271) nor `proxy_mtd_device_destroy` (277-281) releases.

**`ProxyIO`** is the proxy MTD as seen by those who use its partitions: they open and
close a device, write and erase through it, and the partitions are replaced. It
keeps one value per byte of the backing MTD, for it is bytes that a wrong range or
a wrong moment would destroy. An ioctl and a respawn are one step each here, where
`ProxyDevice` has them lock by lock. `InUse` is `use_refcnt # 0`
(`RefcountCountsUsers`). `RespawnDone` and `RespawnRefused` are the outcomes of a respawn;
of an unregistration that fails any `Selections` of the partitions may be left. What the MTD core
does with a position is external: it adds the partition's offset and refuses what
lies outside the partition or is read-only. (The core also makes a writable
partition that is not aligned read-only by itself. That is left out, so that the
alignment has to come from this module's own checks.) `by` says who asked for a
partition; it exists in the model only.

**`ProxyAtomic`** ties the two together. It adds history variables to `ProxyDevice`,
which keep it from nothing: `shownRegistered` and `shownChildren` change in the one
step in which an operation takes effect (`Rebuilt`: a respawn is about to leave by
its cleanup label; `Added`, `Deleted`: a partition enters or leaves the MTD table), and
`hold` says which device a user has open. `kept` is which partitions a respawn has left
in place so far, by their positions, since an unregistration that fails does not say
which ones it took. Read with these variables for its own,
`ProxyIO` is the abstract specification: `AtomicOperations` says that every step of
`ProxyDevice` is one of its operations or none, and `ShownIsThere` that the history is
no fiction, but what the list of partitions has whenever no respawn is rebuilding it.
That a respawn may be one step in `Mtdpartctl` rests on this. (It also settles what ADD
needs: nothing in `ctrl_dev.c:531-562` asks whether the proxy MTD is in the table, and so
after a respawn that failed a partition can be added to, and opened on, a proxy MTD
that itself cannot be opened any more.)

**`Mtdpartctl`** composes everything a user meets: processes of the tool over an
instance of `RecipeSession`, the respawns that create and delete cause, and the
users of `ProxyIO`. An ioctl is one step, as are the conversions of one line.

| Code | Model |
|---|---|
| `openDevice`, the switch of `main`, `os.Exit` | `Launch`, `Opened`, `Exit` |
| a signal, or the end of a process that a `BUG_ON` stopped | `Kill`: between any two steps |
| `REPL.execute` and the handlers | `CmdAddRecipePart`, `CmdDeleteRecipePart`, `CmdRecipeReset`, `CmdAddImmediate`, `CmdDeleteImmediate`, `CmdExit`; `Create` and `CreateReturns`; `DeleteAll`; `Status` |
| `useConfigFile` | `ConfigLine` for every line, then `Create` and `CreateReturns` |
| `-reset-proxy`, `-info-only` | `DeleteAll`; nothing but `Exit` |
| `recipePartsCount` | `count` |
| `strconv.ParseUint`, `parseRecipeFlags`, `__go_mtdpartctl_recipe_add_part` | `Parses`, `LockupEnabled`, `RequestOf` |
| `u32 tmp = index` (`dev.c:121`) | the index modulo `U32Max + 1` |
| a struct passed to `ioctl` by value (`dev.c:87`) | the kernel reads any of `Immediates`, whatever was typed |

A command of the REPL that is refused prints a line and changes nothing, so it is
no step. A line of a configuration file that is refused ends the process.

The definitions marked "Variant" are mutated forms of the definition that
follows them. They belong to no specification; they show that each property
notices a plausible mistake (`PROJECT.json`, "mutants").

## 3. The runs

| Run | Shows | Result |
|---|---|---|
| `recipe_session` | the session with two clients, every offset and length of a 3-bit u64 | holds |
| `empty_conversion` | the `BUG_ON` at `ctrl_dev.c:247` | reached: add, delete, create |
| `proxy_safety` | two control threads, two users, every ioctl but GET_INFO, failing allocations; `ProxyDevice` against `ProxyContract` | holds |
| `proxy_atomic` | two control threads, two users: the steps of `ProxyDevice` are the operations of `ProxyIO` | holds |
| `proxy_liveness` | calls return and respawns end, for the ioctls whose lock orders agree; no threads wait in a circle, and only mutexes keep a call waiting | holds |
| `info_incoherent` | the comment at `ctrl_dev.c:510` | refuted: the index of an unregistered MTD |
| `add_open_deadlock` | ADD against a user that opens the proxy MTD | they deadlock |
| `module_life` | init and exit over four MTD tables, all filters, all failures, with two openers and two users; they come to an end | holds |
| `used_proxy_destroyed` | the comment at `proxy_mtd_dev.c:260` | refuted: a NOR proxy MTD is freed in use |
| `put_under_table_mutex` | the rule at `ctrl_dev_class.c:160` | broken: init waits for itself |
| `mtdpartctl` | two processes of the tool in every mode, killed at any point, two users that write and erase | holds |
| `flags_lost` | the flags of `src/README.md:60` | refuted: `powerup_lock` never arrives |

The six refuted ones are findings, each with the line of the repository it
contradicts. Safety holds in spite of them: a thread that waits for ever changes
nothing.

Further disagreements have no run of their own. Where another run has the same
root they are in the model; the rest shows by sight in the lines named.

*In the kernel.* A create after a deletion that left the list non-empty hands the
MTD core an element without a name: the registration fails after the
unregistration, and the proxy MTD is gone (the same two counts as in
`empty_conversion`; `RespawnRefused` and `RegisterParts` have that path). An
enumeration that fails under `mtd_table_mutex` puts devices before any was counted
(`WARN_ON` at `ctrl_dev_class.c:214`) and frees the array twice (lines 219 and 266); it
is the path of `put_under_table_mutex`. `CallsReturn` fails
in the same way as in `add_open_deadlock` when `Commands` is
`{"list_recipe", "delete"}`: LIST_RECIPE_PARTS takes `recipe->lock` inside
`proxy.lock` (`ctrl_dev.c:626-630`, 405), DELETE takes them the other way round
(`ctrl_dev.c:336-338`, 275), and two threads that share a file wait for each other.
DEL_MTD_PARTITION resolves no index but 0: the loop at `ctrl_dev.c:369-387` compares
`tmp_idx`, which nothing advances, where `dev.h:159` says "0 for first partition 1 for second
partitions, etc" (`Resolve`, and `DelPartition` of `ProxyIO`).
And `Wanted` shows that the filter `nand` takes NOR devices and leaves SLC NAND
out (`ctrl_dev_class.c:133`, against `init.c:25`).

*In user space.* `add_imm` passes its struct by value where the kernel reads through
a pointer (`dev.c:87`): it works on machines whose calling convention passes a large
struct by reference. An index of 2^32 deletes the first part (`dev.c:121`), and the
tool reports success; its count still follows the kernel's. The example
`rw,powerup_lock` of the help (`main.go:92`) is refused, for `rw` is no flag.
`open_mtdpartctl_device_by_argv_index` answers 1, a valid file descriptor, where
`dev.h:25` says an error is negative. `status` asks for 255 parts at most. Immediate
adds are checked against the device and never against the other partitions, and
so `RecipeIsolation` speaks of the partitions that recipes made.

**Bounds.** `MCRecipeSession`: u64 of 3 bits, a device of three erase blocks of two
bytes, at most 3 parts and a counter of at most 4. All alignments, empty, full,
too long and wrapping requests are among the 64 pairs, and three parts are the
most that fit. Two clients are enough for every race on `already_open`; the count
exceeds the list by up to four. `MCProxyDevice`: two erase blocks of two bytes and a u64 of
3 bits, so at most two partitions that are disjoint and requests that are not aligned;
the immediate adds have offsets and lengths inside the device, a length of 0 before its
end, at it and past it, too long a length, and one that wraps. There are four indexes for
three MTDs (an index may stay unused, and the lowest free one may be a different one after a
respawn). Two control threads and two users give every pair of critical sections,
and the refcount its values 0, 1 and 2. At the bounds `MaxParts`, `MaxCount` and
`MaxChildren` an allocation fails, which the code has to handle anyway.
The other runs of the proxy device have the same device and range over fewer commands.
`MCProxyAtomic` is the same device with the history variables, and without the ioctls
that touch neither the partitions nor the recipe (GET_PARTITION_LIST stays: it takes two
of the mutexes).
`MCModuleLife`: tables with no, one and two selected devices suffice for the loops
(first, last and neither), with every type and with partitions between the masters.
`MCMtdpartctl`: two erase blocks of two bytes, so that a block can be half in a
partition; a u64 of 3 bits and a u32 of 2, so that an index above the u32 exists; six
lines, among them one unaligned, one with a word that is no flag, one with a number
that is no u64; five files, two of which fail at their second line. Two processes
suffice, since the second only ever waits for the first or finds what it left;
two users are the least that can hurt each other.
Threads of a kind are interchangeable, and the safety runs of `MCProxyDevice`,
`MCProxyAtomic` and `MCMtdpartctl` use that symmetry; the liveness runs do not.

**Deadlock.** `proxy_liveness` checks for deadlock. The other runs say
`CHECK_DEADLOCK FALSE` because there the system really may stop: a `BUG_ON` leaves
`recipe->lock` taken for ever, and the two lock inversions above leave every
thread waiting, the life of a module ends, and behind a lock that a `BUG_ON` has
left taken, every process of the tool may come to a halt. TLC finds a deadlock only
when every thread is stuck; `NoCircularWait` says that no two or more of them are, the
rest going on. `OnlyMutexesBlock` is its other half: a thread whose mutexes are free can
go on, so a thread that cannot is waiting for the holder of one. `Wants` names the
mutexes a point waits for.

**Fairness.** `Fairness` is strong fairness of each control thread's steps inside an
ioctl and of each user's steps inside a hook. It says that a thread that can
again and again take the mutex it waits for gets it in the end; kernel mutexes
hand the lock to a waiter that has been passed over, and the scheduler runs
every runnable thread. It does not oblige anybody to call an ioctl, or to get or
put a device. `FairSpec` of `ModuleLife` is weak fairness of the one thread that runs
`init` or `exit`: nothing it waits for is modelled except `mtd_table_mutex`, which it
may hold itself (`put_under_table_mutex`), and `Settled` leaves that case out. A respawn
does not wait for users (`-EBUSY`), so its end needs no
fairness of theirs.

## 4. The proofs

| Module | Proves |
|---|---|
| `PartitionRangeProofs` | what the range checks decide |
| `RecipeProofs` | removal from and truncation of a sequence; what add, delete, convert and list do to a recipe |
| `RecipeSessionProofs` | the invariants of the session, the create, the refinement of `RecipePlan` |
| `ProxyDeviceProofs` | `ProxyInv`, types, reference count, exclusion, ranges |
| `ProxyContractProofs` | `PartitionsInv`, listing, deletion, respawn, the refinement of `ProxyContract`, waiting |
| `ProxyAtomicProofs` | `AtomicInv`, the history, the refinement of `ProxyIO`'s operations |
| `ModuleLifeProofs` | `LifeInv` and every invariant of `ModuleLife` |
| `MtdpartctlProofs` | the composition: counts, isolation, whole blocks, configuration files |

Every invariant and every action property of the passing runs is proved, and so
are the three refinements; liveness is not, nor is the one invariant that speaks of
ENABLED (below). Each inductive invariant was
checked as an invariant of the run of its module before it was proved.

The assumptions are the named `ASSUME`s: `RangeAssumption`
(size and erase size are positive u64s), `SessionAssumption`, `ProxyAssumption`
(threads of the two kinds are different, requests are u64s, there is an index),
`LifeAssumption` (an MTD table is a sequence of MTDs),
`ToolAssumption` (files are sequences of lines, what `Immediates` names are u64s, a
u32 is a u64).
Nothing is assumed of the number of clients, threads, processes, users, devices,
parts or indexes, of the lines typed, of the length of a file or an MTD table, or of
the size of the device being a multiple of its erase size.

*Ranges.* `AcceptedFits`: a range that passes the checks fits the device.
`OverlapIsSharedByte`: for ranges that fit, the two comparisons of
`existing_partition_contains_range` decide whether a byte is shared. From the
first also follows that its two `BUG_ON`s are not reached. `AcceptedIfFits` is the
converse of the first: no range that fits is refused. `ImmediateFits` says the same of
an immediate add, and that a length of 0 is the rest of the device.

*Session.* `OneClient` needs that `already_open` is 0 exactly when nobody is past the
compare-and-swap. `PartsFit` is inductive by `AcceptedFits`. `PartsDisjoint` needs
`PartsFit`, as `OverlapIsSharedByte` speaks of ranges that fit. `CountCoversList` is
inductive because both ends of the inequality move together except in a
deletion, which lowers only the list. `CreateHandsOver` needs it: the element for every
part is among the `parts_count` that the conversion fills, and the elements it does not
reach are zeroed. `AcceptedExactly` puts the
range theorems and `PartsFit` together: in every recipe that can be reached, a request
is accepted exactly when it fits and is disjoint from every part.

`SessionImplementsPlan` maps `Owner` and `Listed` to the variables of `RecipePlan`. An
open, a release, an add, a delete and a restart are each one step of the plan, and
the compare-and-swap, a create and its return are none. `OneClient` is what makes
`Owner` change hands as the plan says, and a step that the plan's `Add` allows has to
be disjoint from the plan, which is `AcceptedIsDisjoint`. `ListedAdded` and
`ListedDeleted` carry the steps of the list over to what is listed.

*Proxy.* The inductive invariant is `ProxyInv`:

- `MutexInv`: no mutex has two holders (for any function `Held` a `Step` keeps it);
- `FlagInv`: `about_to_respawn` is set exactly while a thread is between the begin
  and the end of a respawn (needs `MutexInv` of `recipe->lock`: when one respawn
  ends there is no other);
- `CountInv`: the users are finitely many and `use_refcnt` is their number;
- `QuietInv`: nobody uses the proxy MTD while a thread rebuilds or edits it;
- `EditInv`: no respawn has begun while a thread edits under `proxy.lock`.

None of the last four is inductive alone. A respawn that has begun keeps new
users out by the flag, and it goes on only after it has seen a count of 0; from
that point `QuietInv` holds without any lock: this is why the lock-free read at
`ctrl_dev.c:288` is sound. A step is first shown to be one of a few moves
(`CtlMove`, `UserMove`), and the invariant is proved for the moves. `OneChanger`,
`RespawnHasNoUsers` and `RefcountCountsUsers` follow from it, and `TypeOK` together
with `DataTypes`.

`ChildrenFit` needs `FitInv` (recipe, array and children fit) and `LinkedInv` (the
thread that has just linked a partition still finds one to unlink), and that
needs `OneChanger`.

*Partitions.* `ProxyContractProofs` adds `PartitionsInv` to these:

- `IndexInv`: the one partition without an index is the last, and it is there exactly
  while a thread has linked it and not yet registered or unlinked it;
- `ListInv`: a listing that saw no respawn keeps one from beginning, since it holds
  `proxy.lock`;
- `DeleteFindsTarget`, which is inductive with the rest: between finding and removing
  a partition the thread is the only one that changes any;
- `RespawnInv`: what a respawn has done at each of its points. While it registers, the
  children so far are the first elements of the array; when it ends they are all of
  it, or there is no proxy MTD, or it was refused before it touched anything, or the
  unregistration failed and what is left is in the table.

`ListShowsTable` and `AllOrNothing` follow. For the refinement, `Devices` (the proxy MTD
and the partitions that have an index) takes the place of the contract's set:
`CtlImplements` shows of each point of the code that it adds one device, removes one, or
does neither; that a thread adds or removes several only between the begin and
the end of a respawn, when `about_to_respawn` is the contract's `closed`; and that nobody
uses a device meanwhile (`QuietInv`). `UserImplements` does the same for the hooks.

*Waiting.* `NoThreadsWaitInACircle` is for any number of threads and any ioctls in
`Ordered`, that is, all but ADD and DEL (which wait for `mtd_table_mutex` inside
`proxy.lock`) and LIST_RECIPE_PARTS (`recipe->lock` inside `proxy.lock`); with those it
is false (`add_open_deadlock`). Even without them the order of the mutexes is a
circle: a listing takes `partitions_lock` inside `proxy.lock`, an unregistration
`mtd_table_mutex` inside `partitions_lock`, a user `proxy.lock` inside `mtd_table_mutex`.
What breaks it is no lock but the flag: `HoldersWait` says who may hold a mutex and
what he may want; in a circle that contains a listing there would be an
unregistration, so `about_to_respawn` would be set (`FlagInv`), and a listing that was
let in keeps it clear (`ListInv`). Without a listing nobody in the circle holds
`proxy.lock`, so no user is in it; a respawn could wait for another respawn only, and
there is one at a time (`recipe->lock`).

*Operations.* `StepsAreOperations` needs `AtomicInv` besides all of the above:

- `HoldInv`: a device is open exactly while its user is counted, so `InUse` of `ProxyIO`
  means what the count means, and `QuietInv` makes every change happen outside it;
- `Distinct`: no two partitions have the same index, for `LowestFree` gives one that is
  nobody's, and `FirstInv`: what a delete has resolved is the index of the first
  partition. Together they make a delete take the first;
- `AddedInv`: a partition on its way into the table is the last, was asked for and passed
  the checks, and `NamedInv`: what a respawn has linked so far had a name each. These
  carry the guards, checked several steps earlier, to the step of the effect;
- `KeptInv`: while a respawn takes the partitions out, `kept` selects those that are left
  from those that there were, in their order. It is what makes the end of an
  unregistration that fails the third disjunct of `RespawnRefused`;
- `FoundInv`: while a user is in its hook with `mtd_table_mutex`, the table keeps a
  device, so there is one to be opened;
- `ShownIsThere` itself. Through a rebuilding it is not maintained but restored:
  `RebuiltShown` takes the list from `RespawnInv` at the end, or from `KeptInv`.

`ListSteps` lists the five things a step may do to the list of partitions; the
invariants are proved for these.

*Module life.* The invariant is `LifeInv`, one part per kind of resource: `HeldInv` (which
of the module-wide allocations exist at which step), `RefsInv` (the references are
those on the first `count` masters, or on a first part of them while an enumeration
is undone), `LoadInv` (init makes the devices in order), `PartsInv` (each device but
the one at hand has all its parts or none, and how far the one at hand has got)
and `ExitInv` (exit begins when nobody pins the module, and from then on nobody can).
It has to say this for every step, since any step may fail and go to a label that
gives back exactly what was taken; the five invariants of the run are what it says
at the steps that matter. That the enumeration counts what it selects is
`SelectedCount`; the devices are never enumerated, so their number is arbitrary.

*Tool and users.* `ToolImplementsSession` shows that every ioctl the tool issues is one
that `RecipeSession` allows, with the set of all requests for `Requests`; an index that
was cut to 32 bits still is an index of the list or is refused. So the theorems of
`RecipeSessionProofs` are used as they stand, through the instance `Shared`. On
`OneClient` rests `CountInv`, the invariant behind `StatusShowsRecipe`: in the REPL the
tool's count is at least the length of the list. (It is not equal to it: `add_imm`
counts too.) It is inductive because no other process can touch the recipe
meanwhile, and because a delete lowers both. On `PartsFit` and `PartsDisjoint` rests
`UserInv`: the partitions fit, those of a recipe are disjoint, and whatever a user
holds can be opened still. A change of the partitions needs `~InUse`, when nobody
holds anything; that the create works on the recipe as it was checked needs
`ListInv` (`recipe->lock` is held while the array exists). `RecipeIsolation` follows.
`WritesStayInside` needs one more fact, `BlockInside`: the erase block of a byte in an
aligned range lies in the range.

`ConfigIsAtomic` needs `ConfigInv`: a process that works through a file is at a line such
that the recipe is the lines before it, each converted to a part, and the counter is
their number; once its create holds the lock there is no line left. `LineAdded` is the
step of one line; nobody else can step in between, by `OneClient`. If the create's
unregistration fails, some of the old partitions stay and none of the file's come
(`KeptGood`). `FileDelivered` then
follows each line through its four inversions of "ro" to the device it becomes. That
the two counts agree here, and `empty_conversion` is out of reach, is because a file
cannot delete. `ToolTypes` collects the types from all of these invariants.

*Only model-checked*: liveness (`CallsReturn`, `RespawnReopens`, `LoadAndUnloadEnd`) and
`OnlyMutexesBlock`, since the installed provers do not reason about fairness and
ENABLED. `NoThreadsWaitInACircle` is the part of `CallsReturn` that can be said without
them. Nothing is proved of the properties that are violated.

## 5. What is left out

- *Data*: names and file contents; the copies between kernel and userspace, which
  are taken to succeed (a failing one returns before or after the state changes
  and leaves them as they are).
- *Proxy MTD I/O beyond writes and erases*: reads keep no state. The NAND operations
  (`proxy_mtd_dev.c:98-157`) are set on the proxy's own `nand_device` or not at all;
  nothing that the MTD interface of the proxy offers leads to them.
- *Other ways to change partitions*: the BLKPG ioctl of the MTD character device
  reaches the proxy MTD past this module (the comment at `ctrl_dev.c:572`). Its
  caller has the proxy MTD open and so is counted as a user: ADD, DEL and a respawn
  answer `-EBUSY`. What remains is a listing or GET_INFO that shows the partitions
  of a moment ago, and the code that would have to be modelled is the MTD core's.
- *Words*: how the REPL splits a line and what it prints; names of partitions.
- *Unit tests, build files, VM scripts*: they contain no state of the system.

## 6. Plan

1. Done: ranges, recipe, session, proxy device with its abstract specifications,
   the life of the module; types, ranges, reference count and mutual exclusion proved.
2. Done: the tool, the library and the users of the partitions, composed with the
   session; isolation, whole erase blocks and the two counts proved; an end of
   loading and unloading.
3. Done: every invariant and action property of the passing runs proved, the
   refinements of `RecipePlan` and `ProxyContract`, the life of the module, and the
   exactness of the range checks.
4. Done: the steps of `ProxyDevice` as the operations of `ProxyIO`, and the safety half
   of the liveness argument: for the commands whose lock orders agree, no set of
   threads waits in a circle. What remains is with TLC: fairness and ENABLED.
