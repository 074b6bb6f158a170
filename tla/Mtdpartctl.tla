----------------------------- MODULE Mtdpartctl -----------------------------
(***************************************************************************)
(* The whole way from what is typed to the flash: processes of the tool    *)
(* mtdpartctl, each with its own count of the recipe, call the library,    *)
(* the library calls the ioctls of the control device (RecipeSession), a   *)
(* create or a delete respawns the proxy MTD, and users open, write and    *)
(* erase its partitions (ProxyIO).                                         *)
(*                                                                         *)
(* A process works through its own steps in order, and may be killed       *)
(* between any two of them; the kernel then closes its files. What a step  *)
(* only prints is left out: a command of the REPL that is refused changes  *)
(* nothing.                                                                *)
(***************************************************************************)
EXTENDS ProxyIO

CONSTANTS
  Tool,         \* the processes that run mtdpartctl
  Lines,        \* the lines typed after add_recipe_part
  Files,        \* the configuration files, as sequences of lines
  Immediates,   \* the ranges that ADD_MTD_PARTITION may be handed
  U32Max,       \* the largest u32
  MaxParts,     \* bound on the parts of a recipe
  MaxCount      \* bound on parts_count and recipePartsCount

\* The parts that status has room for.
StatusMax == 255

\* A partition as it is typed: numbers of any size, any words for flags.
Line == [offset : Nat, length : Nat, flags : SUBSET STRING]

ASSUME ToolAssumption ==
  /\ U32Max \in 0..U64Max
  /\ \A l \in Lines : l.offset \in Nat /\ l.length \in Nat /\ l.flags \subseteq STRING
  /\ Files \subseteq Seq(Lines)
  /\ Immediates \subseteq [offset : U64, length : U64]
  /\ MayFail \in BOOLEAN
  /\ MaxParts \in Nat /\ MaxCount \in Nat /\ MaxChildren \in Nat

VARIABLES
  already_open, fd, recipe, array, bug,   \* see RecipeSession
  at,      \* per process: what it is at, or how it has ended
  file,    \* per process: the configuration file it was given
  line,    \* per process: the next line of the file
  count    \* per process: recipePartsCount

Session == INSTANCE RecipeSession WITH
  Client <- Tool, Nobody <- "nobody", Requests <- {}

sessionVars == <<already_open, fd, recipe, array, bug>>
toolVars == <<at, file, line, count>>
vars == <<sessionVars, ioVars, toolVars>>

Init ==
  /\ Session!Init
  /\ ProxyIOInit
  /\ at = [c \in Tool |-> "none"]
  /\ file = [c \in Tool |-> <<>>]
  /\ line = [c \in Tool |-> 1]
  /\ count = [c \in Tool |-> 0]

-----------------------------------------------------------------------------
(* From a line to a request: addRecipePart and the library's wrapper       *)

\* strconv.ParseUint with 64 bits, and the keys of the map of flags.
Parses(l) ==
  /\ l.offset \in U64 /\ l.length \in U64
  /\ l.flags \subseteq {"ro", "powerup_lock"}

\* The map has no such key, and Go answers false for it.
LockupEnabled(l) == "lockup_enabled" \in l.flags

RequestOf(l) ==
  [offset |-> l.offset, length |-> l.length, readonly |-> "ro" \in l.flags,
   powerup_lock_enabled |-> LockupEnabled(l)]

LineRefused(l) ==
  \/ ~Parses(l)
  \/ ~PartAccepted(recipe, RequestOf(l))
  \/ MayFail

-----------------------------------------------------------------------------
(* main                                                                    *)

\* A process has the device open, is at its mode, and no call of its is on.
Ready(c, mode) == at[c] = mode /\ Session!Calling(c)

\* The REPL goes on after every command, the other modes end with its result.
Ended(c, how) == at' = [at EXCEPT ![c] = IF @ = "repl" THEN @ ELSE how]

\* openDevice. With -info-only there is nothing left to do but exit.
Launch(c) ==
  /\ at[c] = "none"
  /\ Session!OpenClaim(c)
  /\ \/ \E mode \in {"repl", "reset", "ok"} : at' = [at EXCEPT ![c] = mode] /\ UNCHANGED file
     \/ at' = [at EXCEPT ![c] = "config"] /\ \E f \in Files : file' = [file EXCEPT ![c] = f]
  /\ UNCHANGED <<ioVars, line, count>>

Opened(c) == Session!OpenRestart(c) /\ UNCHANGED <<ioVars, toolVars>>

Forget(c) ==
  /\ at' = [at EXCEPT ![c] = "none"]
  /\ file' = [file EXCEPT ![c] = <<>>]
  /\ line' = [line EXCEPT ![c] = 1]
  /\ count' = [count EXCEPT ![c] = 0]

Exit(c) ==
  /\ at[c] \in {"ok", "error"}
  /\ Session!Release(c) /\ Forget(c)
  /\ UNCHANGED ioVars

\* A signal, or the BUG_ON that has stopped the process inside an ioctl.
Kill(c) ==
  /\ at[c] \notin {"none", "ok", "error"}
  /\ Session!Release(c) /\ Forget(c)
  /\ UNCHANGED ioVars

-----------------------------------------------------------------------------
(* The commands of the REPL                                                *)

CmdAddRecipePart(c, l) ==
  /\ Ready(c, "repl")
  /\ Parses(l)
  /\ Session!AddRecipePart(c, RequestOf(l))
  /\ count' = [count EXCEPT ![c] = @ + 1]
  /\ UNCHANGED <<ioVars, at, file, line>>

\* Variant: the result of the ioctl is not looked at.
CmdDeleteRecipePartAnyway(c, index) ==
  /\ Ready(c, "repl")
  /\ Session!DelRecipePart(c, index % (U32Max + 1)) \/ UNCHANGED sessionVars
  /\ count' = [count EXCEPT ![c] = @ - 1]
  /\ UNCHANGED <<ioVars, at, file, line>>

\* The library's wrapper takes a size_t and passes a u32 on.
CmdDeleteRecipePart(c, index) ==
  /\ Ready(c, "repl")
  /\ Session!DelRecipePart(c, index % (U32Max + 1))
  /\ count' = [count EXCEPT ![c] = @ - 1]
  /\ UNCHANGED <<ioVars, at, file, line>>

CmdRecipeReset(c) ==
  /\ Ready(c, "repl")
  /\ Session!RestartRecipe(c)
  /\ count' = [count EXCEPT ![c] = 0]
  /\ UNCHANGED <<ioVars, at, file, line>>

\* __go_mtdpartctl_add_new_partition passes its struct by value to ioctl, which
\* takes a pointer: what the kernel reads need not be what was typed.
CmdAddImmediate(c) ==
  /\ Ready(c, "repl")
  /\ count[c] < MaxCount
  /\ \E r \in Immediates : AddPartition(r.offset, r.length)
  /\ count' = [count EXCEPT ![c] = @ + 1]
  /\ UNCHANGED <<sessionVars, at, file, line>>

CmdDeleteImmediate(c, idx) ==
  /\ Ready(c, "repl")
  /\ DelPartition(idx)
  /\ UNCHANGED <<sessionVars, toolVars>>

\* cmdRecipeStatus and mtdpartctl_recipe_print_parts: what status prints. The
\* kernel is asked only when the tool's own count is not 0.
Status(c) == IF count[c] = 0 THEN <<>> ELSE Listed(recipe, StatusMax)

CmdExit(c) ==
  /\ Ready(c, "repl")
  /\ at' = [at EXCEPT ![c] = "ok"]
  /\ UNCHANGED <<sessionVars, ioVars, file, line, count>>

-----------------------------------------------------------------------------
(* useConfigFile, -reset-proxy, and the commands they share with the REPL  *)

\* Variant: a line that is refused is passed over.
ConfigLinePassedOver(c) ==
  /\ Ready(c, "config")
  /\ line[c] <= Len(file[c])
  /\ LET l == file[c][line[c]]
     IN  \/ Parses(l) /\ Session!AddRecipePart(c, RequestOf(l))
         \/ LineRefused(l) /\ UNCHANGED sessionVars
  /\ line' = [line EXCEPT ![c] = @ + 1]
  /\ UNCHANGED <<ioVars, at, file, count>>

ConfigLine(c) ==
  /\ Ready(c, "config")
  /\ line[c] <= Len(file[c])
  /\ LET l == file[c][line[c]]
     IN  \/ /\ Parses(l)
            /\ Session!AddRecipePart(c, RequestOf(l))
            /\ line' = [line EXCEPT ![c] = @ + 1]
            /\ UNCHANGED at
         \/ /\ LineRefused(l)
            /\ Ended(c, "error")
            /\ UNCHANGED <<sessionVars, line>>
  /\ UNCHANGED <<ioVars, file, count>>

\* dispatch_recipe, and the end of a configuration file.
Create(c) ==
  /\ Ready(c, "repl") \/ (Ready(c, "config") /\ line[c] > Len(file[c]))
  /\ \/ Session!CreatePartitions(c) /\ UNCHANGED at
     \/ /\ ConversionRefused(recipe) \/ (MayFail /\ ~ConversionBug(recipe))
        /\ Ended(c, "error")
        /\ UNCHANGED sessionVars
  /\ UNCHANGED <<ioVars, file, line, count>>

CreateReturns(c) ==
  /\ fd[c] = "open"
  /\ Session!CreateDone
  /\ \/ RespawnDone(array) /\ Ended(c, "ok")
     \/ RespawnRefused(array) /\ Ended(c, "error")
  /\ UNCHANGED <<file, line, count>>

\* delete_all and -reset-proxy.
DeleteAll(c) ==
  /\ Ready(c, "repl") \/ Ready(c, "reset")
  /\ \/ RespawnDone(<<>>) /\ Ended(c, "ok")
     \/ RespawnRefused(<<>>) /\ Ended(c, "error")
  /\ UNCHANGED <<sessionVars, file, line, count>>

-----------------------------------------------------------------------------
ToolStep(c) ==
  \/ Launch(c) \/ Opened(c) \/ Exit(c) \/ Kill(c)
  \/ \E l \in Lines : CmdAddRecipePart(c, l)
  \/ \E index \in U64 : CmdDeleteRecipePart(c, index)
  \/ CmdRecipeReset(c) \/ CmdAddImmediate(c)
  \/ \E idx \in 0..U32Max : CmdDeleteImmediate(c, idx)
  \/ CmdExit(c) \/ ConfigLine(c)
  \/ Create(c) \/ CreateReturns(c) \/ DeleteAll(c)

UserStep(u) ==
  /\ \/ \E d \in Openable : OpenDevice(u, d)
     \/ CloseDevice(u) \/ Write(u) \/ Erase(u)
  /\ UNCHANGED <<sessionVars, toolVars>>

Next ==
  \/ \E c \in Tool : ToolStep(c)
  \/ \E u \in User : UserStep(u)

Spec == Init /\ [][Next]_vars

-----------------------------------------------------------------------------
(* Properties                                                              *)

\* The variables keep their types, and no count of the tool wraps below 0.
TypeOK ==
  /\ Session!TypeOK
  /\ registered \in BOOLEAN
  /\ children \in Seq(Device)
  /\ \A u \in User : hold[u] \subseteq Device
  /\ content \in [Byte -> {"erased", "written"}]
  /\ at \in [Tool -> {"none", "repl", "config", "reset", "ok", "error"}]
  /\ \A c \in Tool : line[c] \in 1..(Len(file[c]) + 1) /\ count[c] \in Nat

\* Before a recipe is dispatched, status shows the parts that would be
\* dispatched: "Empty table", which is answered from the tool's own count
\* (main.go:447), never stands for a recipe that has parts. Two counters in two
\* address spaces have to agree on this over every add, delete and reset.
StatusShowsRecipe ==
  \A c \in Tool : Ready(c, "repl") => Status(c) = Listed(recipe, StatusMax)

\* The devices are those the file asks for, in its order, and read-only where
\* it says so: "ro" is inverted four times on its way to mask_flags.
Delivered(devices, f) ==
  /\ Len(devices) = Len(f)
  /\ \A i \in DOMAIN f :
       /\ devices[i].offset = f[i].offset
       /\ devices[i].size = f[i].length
       /\ devices[i].writable <=> "ro" \notin f[i].flags

\* useConfigFile (main.go:512): a configuration file is put in force as a whole
\* and exactly when the tool says so. Whatever line is refused, whoever is
\* killed or uses the device, no partitions but the file's ever come from it.
\* The other changes are those of a failed respawn: none are left, or, if the
\* old ones could not all be unregistered (ctrl_dev.c:297), some of those.
ConfigAllOrNothing ==
  [][\A c \in Tool :
       at[c] = "config" /\ (at'[c] = "ok" \/ <<registered, children>>' # <<registered, children>>) =>
         \/ at'[c] = "ok" /\ registered' /\ Delivered(children', file[c])
         \/ at'[c] = "error" /\ ~registered' /\ children' = <<>>
         \/ /\ at'[c] = "error" /\ registered' = registered
            /\ Range(children') \subseteq Range(children)]_vars

\* Two users that have different partitions of recipes open share no byte,
\* though the recipe was dispatched again, reset or replaced in between
\* (verify_partition_params_locked, and use_refcnt at ctrl_dev.c:288).
RecipeIsolation ==
  \A u, v \in User :
    \A d \in hold[u], e \in hold[v] :
      d.by = "recipe" /\ e.by = "recipe" /\ d # e =>
        Bytes(d.offset, d.size) \intersect Bytes(e.offset, e.size) = {}

\* "to ensure erase semantics are always valid on all platforms and drivers"
\* (README.md:99): a byte changes only in a device that somebody has open for
\* writing, although the backing MTD erases whole blocks.
WritesStayInside ==
  [][\A b \in Byte : content'[b] # content[b] =>
       \E u \in User : \E d \in hold[u] : d.writable /\ b \in Bytes(d.offset, d.size)]_vars

\* "the ability of controlling flags like MTD_WRITABLE and MTD_POWERUP_LOCK"
\* (README.md:60): a partition has the flag if its line of the file says so.
FlagsArrive ==
  \A c \in Tool : at[c] = "ok" /\ file[c] # <<>> =>
    \A i \in DOMAIN file[c] :
      children[i].powerup_lock <=> "powerup_lock" \in file[c][i].flags
=============================================================================
