-------------------------- MODULE MtdpartctlProofs --------------------------
(***************************************************************************)
(* The tool, the recipe and the users of the partitions, for every number  *)
(* of processes and users, every file and every device.                    *)
(***************************************************************************)
EXTENDS Mtdpartctl, RecipeProofs

-----------------------------------------------------------------------------
(* The control device's session, with every request a client could send.   *)

\* Stands for no client.
Outsider == CHOOSE x : x \notin Tool

Shared == INSTANCE RecipeSessionProofs WITH
  Client <- Tool, Nobody <- Outsider, Requests <- Request

\* The assumptions that the theorems of RecipeSessionProofs rest on.
LEMMA SharedAssumption ==
  /\ Request \subseteq Shared!Request
  /\ Outsider \notin Tool
  /\ MaxParts \in Nat
  /\ MaxCount \in Nat
  <1>1. \E x : x \notin Tool
    BY NoSetContainsEverything
  <1>2. Request = Shared!Request
    BY DEF Request, Shared!Request, U64, Shared!U64
  <1> QED
    BY <1>1, <1>2, ToolAssumption DEF Outsider

\* A line that parses is a request.
LEMMA RequestOfType ==
  ASSUME NEW l, Parses(l)
  PROVE  RequestOf(l) \in Request
  BY DEF Parses, RequestOf, LockupEnabled, Request

-----------------------------------------------------------------------------
(* The recipe                                                              *)

\* The recipe keeps its type and its bound, and the array of a create is what
\* the recipe converts to for as long as recipe->lock is held.
ListInv ==
  /\ recipe \in RecipeType
  /\ Len(recipe.partitions) <= MaxParts
  /\ array # <<>> => array = Converted(recipe)

\* What a step does to recipe and array.
RecipeMove ==
  \/ recipe' = recipe /\ array' = array
  \/ recipe' = recipe /\ array' = Converted(recipe)
  \/ recipe' = recipe /\ array' = <<>>
  \/ /\ array = <<>> /\ array' = <<>>
     /\ \/ recipe' = EmptyRecipe
        \/ /\ Len(recipe.partitions) < MaxParts
           /\ \E req \in Request : recipe' = PartAdded(recipe, req)
        \/ \E index \in Nat : PartExists(recipe, index) /\ recipe' = PartDeleted(recipe, index)

\* An index that the library cuts to 32 bits is a number that the kernel may be
\* handed.
LEMMA IndexType == ASSUME NEW index \in U64 PROVE index % (U32Max + 1) \in Nat
  BY ToolAssumption, RangeAssumption DEF U64

\* The operators of Recipe mean the same in every instance of the session.
LEMMA SameDeletion ==
  ASSUME NEW r, NEW index
  PROVE  /\ Session!PartExists(r, index) <=> PartExists(r, index)
         /\ Shared!PartExists(r, index) <=> PartExists(r, index)
         /\ Session!PartDeleted(r, index) = PartDeleted(r, index)
         /\ Shared!PartDeleted(r, index) = PartDeleted(r, index)
  <1>1. \A s, i : Session!RemoveAt(s, i) = RemoveAt(s, i) /\ Shared!RemoveAt(s, i) = RemoveAt(s, i)
    BY DEF Session!RemoveAt, Shared!RemoveAt, RemoveAt
  <1> QED
    BY <1>1 DEF Session!PartExists, Shared!PartExists, PartExists,
        Session!PartDeleted, Shared!PartDeleted, PartDeleted

\* Every step, of whatever mode of the tool, moves recipe and array in one of
\* these ways.
LEMMA RecipeMoves == [Next]_vars => RecipeMove
  <1> SUFFICES ASSUME [Next]_vars PROVE RecipeMove
    OBVIOUS
  <1> USE DEF RecipeMove
  <1>1. ASSUME NEW c \in Tool, ToolStep(c) PROVE RecipeMove
    <2>1. CASE Launch(c)
      BY <2>1 DEF Launch, Session!OpenClaim
    <2>2. CASE Opened(c)
      BY <2>2
      DEF Opened, Session!OpenRestart, Session!RecipeUnlocked, Session!EmptyRecipe, EmptyRecipe
    <2>3. CASE Exit(c) \/ Kill(c)
      BY <2>3 DEF Exit, Kill, Session!Release
    <2>4. ASSUME NEW l, Parses(l), Session!AddRecipePart(c, RequestOf(l)) PROVE RecipeMove
      BY <2>4, RequestOfType
      DEF Session!AddRecipePart, Session!Calling, Session!RecipeUnlocked, Session!PartAdded,
          PartAdded, Session!NewPart, NewPart
    <2>5. ASSUME NEW index \in U64, CmdDeleteRecipePart(c, index) PROVE RecipeMove
      BY <2>5, IndexType, SameDeletion
      DEF CmdDeleteRecipePart, Session!DelRecipePart, Session!Calling, Session!RecipeUnlocked
    <2>6. CASE CmdRecipeReset(c)
      BY <2>6 DEF CmdRecipeReset, Session!RestartRecipe, Session!Calling, Session!RecipeUnlocked,
          Session!EmptyRecipe, EmptyRecipe
    <2>7. CASE Create(c)
      BY <2>7
      DEF Create, Session!CreatePartitions, Session!Converted, Converted, sessionVars,
          Session!AsMtdPartition, AsMtdPartition, Session!ZeroedPartition, ZeroedPartition
    <2>8. CASE CreateReturns(c)
      BY <2>8 DEF CreateReturns, Session!CreateDone
    <2>9. CASE UNCHANGED sessionVars
      BY <2>9 DEF sessionVars
    <2>10. CASE ConfigLine(c)
      BY <2>4, <2>9, <2>10 DEF ConfigLine
    <2>11. CASE \E l \in Lines : CmdAddRecipePart(c, l)
      BY <2>4, <2>11 DEF CmdAddRecipePart
    <2> QED
      BY <1>1, <2>1, <2>2, <2>3, <2>5, <2>6, <2>7, <2>8, <2>9, <2>10, <2>11
      DEF ToolStep, CmdAddImmediate, CmdDeleteImmediate, CmdExit, DeleteAll
  <1>2. CASE UNCHANGED <<recipe, array>>
    BY <1>2
  <1> QED
    BY <1>1, <1>2 DEF Next, UserStep, vars, sessionVars

\* The recipe has its type and its bound, and a create works on what the recipe
\* converts to: recipe->lock is held until the array is freed.
LEMMA ListInvariance == Spec => []ListInv
  <1>1. Init => ListInv
    BY EmptySeq, EmptyRecipeType, ToolAssumption
    DEF Init, Session!Init, Session!EmptyRecipe, EmptyRecipe, ListInv
  <1>2. ListInv /\ [Next]_vars => ListInv'
    <2> SUFFICES ASSUME ListInv, RecipeMove PROVE ListInv'
      BY RecipeMoves
    <2> USE DEF ListInv
    <2>1. CASE recipe' = recipe /\ array' \in {array, Converted(recipe), <<>>}
      BY <2>1 DEF Converted
    <2>2. CASE array' = <<>> /\ recipe' = EmptyRecipe
      BY <2>2, EmptyRecipeType, ToolAssumption, EmptySeq DEF EmptyRecipe
    <2>3. ASSUME NEW req \in Request, array' = <<>>, Len(recipe.partitions) < MaxParts,
                 recipe' = PartAdded(recipe, req)
          PROVE  ListInv'
      <3>1. recipe.partitions \in Seq(RecipePart) /\ Len(recipe.partitions) \in Nat
        BY LenProperties DEF RecipeType
      <3>2. Len(recipe'.partitions) = Len(recipe.partitions) + 1
        BY <2>3, <3>1, PartAddedProperties, AppendProperties
      <3>3. recipe' \in RecipeType
        BY <2>3, PartAddedProperties
      <3> QED
        BY <2>3, <3>1, <3>2, <3>3, ToolAssumption
    <2>4. ASSUME NEW index \in Nat, array' = <<>>, PartExists(recipe, index),
                 recipe' = PartDeleted(recipe, index)
          PROVE  ListInv'
      <3>1. recipe.partitions \in Seq(RecipePart) /\ Len(recipe.partitions) \in Nat
        BY LenProperties DEF RecipeType
      <3>2. /\ PartDeleted(recipe, index).partitions = RemoveAt(recipe.partitions, index + 1)
            /\ index + 1 \in 1..Len(recipe.partitions)
        BY <2>4, PartDeletedProperties
      <3>4. Len(recipe'.partitions) = Len(recipe.partitions) - 1
        BY <2>4, <3>1, <3>2, RemoveAtProperties
      <3>3. recipe' \in RecipeType
        BY <2>4, PartDeletedProperties
      <3> QED
        BY <2>4, <3>1, <3>3, <3>4, ToolAssumption
    <2> QED
      BY <2>1, <2>2, <2>3, <2>4 DEF RecipeMove
  <1> QED
    BY <1>1, <1>2, PTL DEF Spec

-----------------------------------------------------------------------------
(* The tool uses the control device as any client may                      *)

\* Every ioctl that a process of the tool issues, in whatever mode and with
\* whatever was typed, is one the session allows, and an index that was cut to
\* 32 bits still is an index.
LEMMA ToolStepIsShared ==
  ASSUME ListInv, NEW c \in Tool, ToolStep(c)
  PROVE  Shared!Next \/ UNCHANGED sessionVars
  <1> USE DEF Shared!Next
  <1>1. ASSUME Session!OpenClaim(c) PROVE Shared!OpenClaim(c)
    BY <1>1 DEF Session!OpenClaim, Shared!OpenClaim
  <1>2. ASSUME Session!OpenRestart(c) PROVE Shared!OpenRestart(c)
    BY <1>2 DEF Session!OpenRestart, Shared!OpenRestart, Session!EmptyRecipe, Shared!EmptyRecipe,
        Session!RecipeUnlocked, Shared!RecipeUnlocked
  <1>3. ASSUME Session!Release(c) PROVE Shared!Release(c)
    BY <1>3 DEF Session!Release, Shared!Release
  <1> USE DEF Session!Calling, Shared!Calling, Session!RecipeUnlocked, Shared!RecipeUnlocked
  <1>4. ASSUME NEW l, Parses(l), Session!AddRecipePart(c, RequestOf(l))
        PROVE  \E req \in Request : Shared!AddRecipePart(c, req)
    <2>1. RequestOf(l) \in Request
      BY <1>4, RequestOfType
    <2>2. \A req : Session!PartAccepted(recipe, req) <=> Shared!PartAccepted(recipe, req)
      BY DEF Session!PartAccepted, Shared!PartAccepted, Session!BasicConditionsHold,
          Shared!BasicConditionsHold, Session!AddOverflows, Shared!AddOverflows,
          Session!Wrap, Shared!Wrap, Session!OverlapsRecipe, Shared!OverlapsRecipe,
          Session!RangesOverlap, Shared!RangesOverlap
    <2>3. \A req : Session!PartAdded(recipe, req) = Shared!PartAdded(recipe, req)
      BY DEF Session!PartAdded, Shared!PartAdded, Session!NewPart, Shared!NewPart
    <2>4. Shared!AddRecipePart(c, RequestOf(l))
      BY <1>4, <2>2, <2>3 DEF Session!AddRecipePart, Shared!AddRecipePart
    <2> QED
      BY <2>1, <2>4
  <1>5. ASSUME NEW index \in Nat, Session!DelRecipePart(c, index)
        PROVE  \E i \in 0..MaxParts : Shared!DelRecipePart(c, i)
    <2>1. index < Len(recipe.partitions)
      BY <1>5 DEF Session!DelRecipePart, Session!PartExists
    <2>2. Len(recipe.partitions) \in Nat /\ Len(recipe.partitions) <= MaxParts
      BY LenProperties DEF ListInv, RecipeType
    <2>3. index \in 0..MaxParts
      BY <2>1, <2>2, ToolAssumption
    <2>4. Shared!DelRecipePart(c, index)
      BY <1>5, SameDeletion DEF Session!DelRecipePart, Shared!DelRecipePart
    <2> QED
      BY <2>3, <2>4
  <1>6. ASSUME Session!RestartRecipe(c) PROVE Shared!RestartRecipe(c)
    BY <1>6 DEF Session!RestartRecipe, Shared!RestartRecipe, Session!EmptyRecipe, Shared!EmptyRecipe
  <1>7. ASSUME Session!CreatePartitions(c) PROVE Shared!CreatePartitions(c)
    BY <1>7 DEF Session!CreatePartitions, Shared!CreatePartitions, Session!ConversionRefused,
        Shared!ConversionRefused, Session!ConversionBug, Shared!ConversionBug,
        Session!Converted, Shared!Converted, Session!AsMtdPartition, Shared!AsMtdPartition,
        Session!ZeroedPartition, Shared!ZeroedPartition
  <1>8. ASSUME Session!CreateDone PROVE Shared!CreateDone
    BY <1>8 DEF Session!CreateDone, Shared!CreateDone
  <1>9. CASE \E l \in Lines : CmdAddRecipePart(c, l)
    BY <1>4, <1>9 DEF CmdAddRecipePart
  <1>10. CASE \E index \in U64 : CmdDeleteRecipePart(c, index)
    BY <1>5, <1>10, IndexType DEF CmdDeleteRecipePart
  <1>11. CASE ConfigLine(c)
    BY <1>4, <1>11 DEF ConfigLine
  <1>12. CASE Launch(c) \/ Opened(c) \/ Exit(c) \/ Kill(c)
    BY <1>1, <1>2, <1>3, <1>12 DEF Launch, Opened, Exit, Kill
  <1>13. CASE CmdRecipeReset(c) \/ Create(c) \/ CreateReturns(c)
    BY <1>6, <1>7, <1>8, <1>13 DEF CmdRecipeReset, Create, CreateReturns
  <1>14. CASE UNCHANGED sessionVars
    BY <1>14
  <1> QED
    BY <1>9, <1>10, <1>11, <1>12, <1>13, <1>14
    DEF ToolStep, CmdAddImmediate, CmdDeleteImmediate, CmdExit, DeleteAll

\* The tool, the library and the users together implement the session that
\* RecipeSession describes, with a client that may send any request: what is
\* proved of the session holds while the tool uses it.
THEOREM ToolImplementsSession == Spec => Shared!Spec
  <1>1. Init => Shared!Init
    BY DEF Init, Session!Init, Shared!Init, Session!EmptyRecipe, Shared!EmptyRecipe
  <1>2. ListInv /\ [Next]_vars => [Shared!Next]_(Shared!vars)
    <2> SUFFICES ASSUME ListInv, [Next]_vars PROVE Shared!Next \/ UNCHANGED sessionVars
      BY DEF sessionVars, Shared!vars
    <2>1. ASSUME NEW c \in Tool, ToolStep(c) PROVE Shared!Next \/ UNCHANGED sessionVars
      BY <2>1, ToolStepIsShared
    <2> QED
      BY <2>1 DEF Next, UserStep, vars
  <1> QED
    BY <1>1, <1>2, ListInvariance, PTL DEF Spec, Shared!Spec

\* So one process has the device at a time, and no byte is in two parts.
LEMMA SharedInvariance ==
  Spec => [](Shared!TypeOK /\ Shared!OneClient /\ Shared!PartsFit /\ Shared!PartsDisjoint)
  BY SharedAssumption, RangeAssumption, ToolImplementsSession, Shared!SessionTypes,
     Shared!SessionOneClient, Shared!SessionPartsFit, Shared!SessionPartsDisjoint, PTL

-----------------------------------------------------------------------------
(* The two counts                                                          *)

\* In the REPL the tool's count is at least the number of parts. It may be
\* larger: add_imm counts as well, and delete_all forgets nothing.
CountInv ==
  /\ at \in [Tool -> {"none", "repl", "config", "reset", "ok", "error"}]
  /\ count \in [Tool -> Nat]
  /\ \A c \in Tool :
       fd[c] = "open" /\ at[c] = "repl" => Len(recipe.partitions) <= count[c]

\* A step of one process leaves the recipe and the counts of the others alone:
\* they have not got the device open.
LEMMA CountStep ==
  ASSUME ListInv, CountInv, Shared!TypeOK, Shared!OneClient,
         NEW c \in Tool, ToolStep(c)
  PROVE  CountInv'
  <1> DEFINE n == Len(recipe.partitions)
             n1 == Len(recipe'.partitions)
  <1>1. /\ fd \in [Tool -> {"closed", "opening", "open"}]
        /\ \A d \in Tool : fd[c] # "closed" /\ fd[d] # "closed" => c = d
    BY DEF Shared!TypeOK, Shared!OneClient
  <1>2. recipe.partitions \in Seq(RecipePart) /\ n \in Nat
    BY LenProperties DEF ListInv, RecipeType
  <1>3. ASSUME fd' = fd, at' = at \/ (\E how \in {"ok", "error"} : at' = [at EXCEPT ![c] = how]),
               fd[c] = "open", at[c] = "repl" => at' = at,
               count' \in [Tool -> Nat], \A d \in Tool \ {c} : count'[d] = count[d],
               at[c] = "repl" => n1 <= count'[c]
        PROVE  CountInv'
    BY <1>1, <1>3 DEF CountInv
  <1>4. Len(EmptyRecipe.partitions) = 0
    BY EmptySeq DEF EmptyRecipe
  <1>5. ASSUME NEW l, Parses(l), Session!AddRecipePart(c, RequestOf(l))
        PROVE  n1 = n + 1 /\ fd' = fd /\ fd[c] = "open"
    <2>1. recipe' = PartAdded(recipe, RequestOf(l))
      BY <1>5 DEF Session!AddRecipePart, Session!PartAdded, PartAdded, Session!NewPart, NewPart
    <2>2. n1 = n + 1
      BY <1>2, <1>5, <2>1, RequestOfType, PartAddedProperties, AppendProperties DEF ListInv
    <2> QED
      BY <1>5, <2>2 DEF Session!AddRecipePart, Session!Calling
  <1>6. CASE Launch(c)
    <2>1. at' \in [Tool -> {"none", "repl", "config", "reset", "ok", "error"}]
      BY <1>6 DEF Launch, CountInv
    <2>2. \A d \in Tool : fd'[d] = "open" => d # c /\ fd[d] = "open" /\ at'[d] = at[d]
      BY <1>1, <1>6 DEF Launch, Session!OpenClaim, CountInv
    <2> QED
      BY <1>6, <2>1, <2>2 DEF Launch, Session!OpenClaim, CountInv
  <1>7. CASE Opened(c)
    <2>1. recipe' = EmptyRecipe /\ n1 = 0
      BY <1>4, <1>7 DEF Opened, Session!OpenRestart, Session!EmptyRecipe, EmptyRecipe
    <2> QED
      BY <1>7, <2>1 DEF Opened, toolVars, CountInv
  <1>8. CASE Exit(c) \/ Kill(c)
    <2>1. /\ at' \in [Tool -> {"none", "repl", "config", "reset", "ok", "error"}]
          /\ count' \in [Tool -> Nat]
      BY <1>8 DEF Exit, Kill, Forget, CountInv
    <2>2. \A d \in Tool : fd'[d] = "open" =>
            d # c /\ fd[d] = "open" /\ at'[d] = at[d] /\ count'[d] = count[d]
      BY <1>1, <1>8 DEF Exit, Kill, Forget, Session!Release, CountInv
    <2> QED
      BY <1>8, <2>1, <2>2 DEF Exit, Kill, Session!Release, CountInv
  <1>9. ASSUME NEW l \in Lines, CmdAddRecipePart(c, l) PROVE CountInv'
    <2>1. n1 = n + 1 /\ fd' = fd /\ fd[c] = "open" /\ at' = at /\ at[c] = "repl"
      BY <1>5, <1>9 DEF CmdAddRecipePart, Ready
    <2>2. count' = [count EXCEPT ![c] = @ + 1] /\ count[c] \in Nat /\ n <= count[c]
      BY <1>9, <2>1 DEF CmdAddRecipePart, CountInv
    <2>3. count' \in [Tool -> Nat] /\ count'[c] = count[c] + 1
      BY <2>2 DEF CountInv
    <2> QED
      BY <1>2, <1>3, <2>1, <2>2, <2>3
  <1>10. ASSUME NEW index \in U64, CmdDeleteRecipePart(c, index) PROVE CountInv'
    <2> DEFINE i == index % (U32Max + 1)
    <2>1. i \in Nat
      BY IndexType
    <2> HIDE DEF i
    <2>2. PartExists(recipe, i) /\ recipe' = PartDeleted(recipe, i)
      BY <1>10, SameDeletion DEF CmdDeleteRecipePart, Session!DelRecipePart, i
    <2>3. n1 = n - 1 /\ n >= 1
      <3>1. /\ PartDeleted(recipe, i).partitions = RemoveAt(recipe.partitions, i + 1)
            /\ i + 1 \in 1..n
        BY <2>1, <2>2, PartDeletedProperties DEF ListInv
      <3>2. n1 = n - 1
        BY <1>2, <2>2, <3>1, RemoveAtProperties
      <3> QED
        BY <1>2, <2>1, <3>1, <3>2
    <2>4. fd' = fd /\ fd[c] = "open" /\ at' = at /\ at[c] = "repl"
      BY <1>10 DEF CmdDeleteRecipePart, Ready, Session!DelRecipePart, Session!Calling
    <2>5. count' = [count EXCEPT ![c] = @ - 1] /\ count[c] \in Nat /\ n <= count[c]
      BY <1>10, <2>4 DEF CmdDeleteRecipePart, CountInv
    <2>6. count[c] - 1 \in Nat
      BY <1>2, <2>3, <2>5
    <2>7. count' \in [Tool -> Nat] /\ count'[c] = count[c] - 1
      BY <2>5, <2>6 DEF CountInv
    <2> QED
      BY <1>2, <1>3, <2>3, <2>4, <2>5, <2>7
  <1>11. CASE CmdRecipeReset(c)
    <2>1. n1 = 0 /\ fd' = fd /\ fd[c] = "open" /\ at' = at
      BY <1>4, <1>11 DEF CmdRecipeReset, Ready, Session!RestartRecipe, Session!Calling,
          Session!EmptyRecipe, EmptyRecipe
    <2>2. count' = [count EXCEPT ![c] = 0] /\ count' \in [Tool -> Nat] /\ count'[c] = 0
      BY <1>11 DEF CmdRecipeReset, CountInv
    <2> QED
      BY <1>3, <2>1, <2>2
  <1>12. CASE CmdAddImmediate(c)
    <2>1. fd' = fd /\ fd[c] = "open" /\ at' = at /\ at[c] = "repl" /\ n1 = n
      BY <1>12 DEF CmdAddImmediate, Ready, Session!Calling, sessionVars
    <2>2. count' = [count EXCEPT ![c] = @ + 1] /\ count[c] \in Nat /\ n <= count[c]
      BY <1>12, <2>1 DEF CmdAddImmediate, CountInv
    <2>3. count' \in [Tool -> Nat] /\ count'[c] = count[c] + 1
      BY <2>2 DEF CountInv
    <2> QED
      BY <1>2, <1>3, <2>1, <2>2, <2>3
  <1>13. CASE ConfigLine(c)
    <2>1. at[c] = "config" /\ fd[c] = "open" /\ fd' = fd /\ count' = count
      BY <1>5, <1>13 DEF ConfigLine, Ready, Session!Calling, sessionVars
    <2>2. at' = at \/ at' = [at EXCEPT ![c] = "error"]
      BY <1>13, <2>1 DEF ConfigLine, Ended, CountInv
    <2> QED
      BY <1>3, <2>1, <2>2 DEF CountInv
  <1>14. CASE CmdExit(c)
    BY <1>1, <1>14 DEF CmdExit, Ready, sessionVars, CountInv
  <1>15. CASE Create(c) \/ CreateReturns(c) \/ DeleteAll(c)
    <2>1. fd[c] = "open" /\ fd' = fd /\ count' = count /\ recipe' = recipe
      BY <1>15 DEF Create, CreateReturns, DeleteAll, Ready, Session!Calling, sessionVars,
          Session!CreatePartitions, Session!CreateDone
    <2>2. at' = at \/ \E how \in {"ok", "error"} : Ended(c, how)
      BY <1>15 DEF Create, CreateReturns, DeleteAll
    <2>3. /\ at' = at \/ \E how \in {"ok", "error"} : at' = [at EXCEPT ![c] = how]
          /\ at[c] = "repl" => at' = at
      BY <2>2 DEF Ended, CountInv
    <2> QED
      BY <1>3, <2>1, <2>3 DEF CountInv
  <1>16. CASE \E idx \in 0..U32Max : CmdDeleteImmediate(c, idx)
    BY <1>16 DEF CmdDeleteImmediate, sessionVars, toolVars, CountInv
  <1> QED
    BY <1>6, <1>7, <1>8, <1>9, <1>10, <1>11, <1>12, <1>13, <1>14, <1>15, <1>16 DEF ToolStep

\* From launch to exit the tool's count covers the kernel's list.
LEMMA CountInvariance == Spec => []CountInv
  <1>1. Init => CountInv
    BY DEF Init, Session!Init, CountInv
  <1>2. /\ ListInv /\ Shared!TypeOK /\ Shared!OneClient /\ CountInv /\ [Next]_vars
        => CountInv'
    <2> SUFFICES ASSUME ListInv, Shared!TypeOK, Shared!OneClient, CountInv, [Next]_vars
                 PROVE  CountInv'
      OBVIOUS
    <2>1. CASE UNCHANGED <<sessionVars, toolVars>>
      BY <2>1 DEF sessionVars, toolVars, CountInv
    <2> QED
      BY <2>1, CountStep DEF Next, UserStep, vars
  <1> QED
    BY <1>1, <1>2, ListInvariance, SharedInvariance, PTL DEF Spec

\* status never answers "Empty table" for a recipe that has parts, however
\* many commands were refused, mixed or repeated before.
THEOREM StatusHidesNothing == Spec => []StatusShowsRecipe
  <1>1. ListInv /\ CountInv => StatusShowsRecipe
    <2> SUFFICES ASSUME ListInv, CountInv, NEW c \in Tool, Ready(c, "repl"), count[c] = 0
                 PROVE  Listed(recipe, StatusMax) = <<>>
      BY DEF StatusShowsRecipe, Status
    <2>1. Len(recipe.partitions) \in Nat
      BY LenProperties DEF ListInv, RecipeType
    <2>2. Len(recipe.partitions) = 0
      BY <2>1 DEF CountInv, Ready, Session!Calling
    <2> QED
      BY <2>2 DEF Listed, StatusMax
  <1> QED
    BY <1>1, ListInvariance, CountInvariance, PTL

-----------------------------------------------------------------------------
(* The partitions and their users                                          *)

\* Partitions fit the device, and those of a recipe share no byte.
ChildrenGood(s) ==
  /\ s \in Seq(Device)
  /\ \A i \in DOMAIN s : RangeFits(s[i].offset, s[i].size)
  /\ \A i, j \in DOMAIN s :
       i # j /\ s[i].by = "recipe" /\ s[j].by = "recipe" =>
         Bytes(s[i].offset, s[i].size) \intersect Bytes(s[j].offset, s[j].size) = {}

\* What is in use can be opened still: partitions go only when nobody is there.
UserInv ==
  /\ ChildrenGood(children)
  /\ hold \in [User -> SUBSET Openable]
  /\ content \in [Byte -> {"erased", "written"}]

LEMMA EmptyGood == ChildrenGood(<<>>)
  BY EmptySeq DEF ChildrenGood

\* A part of a recipe becomes a device with its offset and its length.
LEMMA DispatchedPart ==
  ASSUME NEW part \in RecipePart
  PROVE  /\ AsDevice(AsMtdPartition(part)) \in Device
         /\ AsDevice(AsMtdPartition(part)).offset = part.offset
         /\ AsDevice(AsMtdPartition(part)).size = part.length
  <1>1. AsMtdPartition(part) \in MtdPartition
    BY DEF AsMtdPartition, MtdPartition, RecipePart
  <1>2. ASSUME NEW p \in MtdPartition PROVE AsDevice(p) \in Device
    BY DEF AsDevice, MtdPartition, Device
  <1>3. /\ AsDevice(AsMtdPartition(part)).offset = part.offset
        /\ AsDevice(AsMtdPartition(part)).size = part.length
    BY DEF AsDevice, AsMtdPartition
  <1> QED
    BY <1>1, <1>2, <1>3

\* A recipe without gaps in its names becomes partitions that share no byte.
LEMMA DispatchedGood ==
  ASSUME ListInv, Shared!PartsFit, Shared!PartsDisjoint, array # <<>>,
         \A i \in DOMAIN array : array[i].named
  PROVE  ChildrenGood([i \in DOMAIN array |-> AsDevice(array[i])])
  <1> DEFINE s == recipe.partitions
             n == recipe.parts_count
             t == [i \in DOMAIN array |-> AsDevice(array[i])]
  <1>1. s \in Seq(RecipePart) /\ Len(s) \in Nat /\ DOMAIN s = 1..Len(s) /\ n \in Nat
    BY LenProperties DEF ListInv, RecipeType
  <1>2. array = Converted(recipe) /\ DOMAIN array = 1..n
    BY DEF ListInv, Converted
  <1>3. ASSUME NEW i \in 1..n
        PROVE  /\ i \in DOMAIN s /\ s[i] \in RecipePart
               /\ array[i] = AsMtdPartition(s[i])
    <2>1. i \in DOMAIN s
      BY <1>2, <1>3 DEF Converted, ZeroedPartition
    <2> QED
      BY <1>1, <1>2, <2>1, ElementOfSeq DEF Converted
  <1>4. ASSUME NEW i \in 1..n
        PROVE  /\ t[i] \in Device
               /\ t[i].offset = s[i].offset /\ t[i].size = s[i].length
    <2>1. t[i] = AsDevice(AsMtdPartition(s[i]))
      BY <1>2, <1>3
    <2> QED
      BY <1>3, <2>1, DispatchedPart
  <1>5. DOMAIN t = 1..n
    BY <1>2
  <1>6. t \in [1..n -> Device]
    BY <1>2, <1>4
  <1>7. t \in Seq(Device)
    BY <1>1, <1>6, IsASeq
  <1> HIDE DEF t
  <1>8. \A i \in 1..n : RangeFits(t[i].offset, t[i].size)
    BY <1>3, <1>4 DEF Shared!PartsFit, Shared!RangeFits, RangeFits, Shared!Bytes, Bytes
  <1>9. \A i, j \in 1..n :
          i # j => Bytes(t[i].offset, t[i].size) \intersect Bytes(t[j].offset, t[j].size) = {}
    BY <1>3, <1>4 DEF Shared!PartsDisjoint, Shared!Bytes, Bytes
  <1>10. ChildrenGood(t)
    BY <1>5, <1>7, <1>8, <1>9 DEF ChildrenGood
  <1> QED
    BY <1>10 DEF t

\* An immediate add puts a partition that fits at the end.
LEMMA AddedGood ==
  ASSUME ChildrenGood(children), NEW o \in U64, NEW l \in U64, AddPartition(o, l)
  PROVE  ChildrenGood(children')
  <1> DEFINE d == [offset |-> o, size |-> AdaptedLength(o, l), writable |-> TRUE,
                   powerup_lock |-> FALSE, by |-> "add"]
  <1>1. AdaptedLength(o, l) \in U64 /\ RangeFits(o, AdaptedLength(o, l))
    BY ImmediateFits DEF AddPartition
  <1>2. children' = Append(children, d) /\ d \in Device
    BY <1>1 DEF AddPartition, Device
  <1>3. d.offset = o /\ d.size = AdaptedLength(o, l) /\ d.by = "add"
    OBVIOUS
  <1> HIDE DEF d
  <1>4. /\ children \in Seq(Device) /\ Len(children) \in Nat
        /\ DOMAIN children = 1..Len(children)
    BY LenProperties DEF ChildrenGood
  <1>5. /\ children' \in Seq(Device) /\ DOMAIN children' = 1..(Len(children) + 1)
        /\ \A i \in 1..Len(children) : children'[i] = children[i]
        /\ children'[Len(children) + 1] = d
    BY <1>2, <1>4, AppendProperties, LenProperties
  <1>6. \A i \in 1..(Len(children) + 1) : i # Len(children) + 1 => i \in 1..Len(children)
    BY <1>4
  <1>7. ASSUME NEW i \in DOMAIN children'
        PROVE  RangeFits(children'[i].offset, children'[i].size)
    BY <1>1, <1>3, <1>4, <1>5, <1>6 DEF ChildrenGood
  <1>8. ASSUME NEW i \in DOMAIN children', NEW j \in DOMAIN children', i # j,
               children'[i].by = "recipe", children'[j].by = "recipe"
        PROVE  Bytes(children'[i].offset, children'[i].size)
                 \intersect Bytes(children'[j].offset, children'[j].size) = {}
    <2>1. i \in 1..Len(children) /\ j \in 1..Len(children)
      BY <1>3, <1>5, <1>6, <1>8
    <2> QED
      BY <2>1, <1>4, <1>5, <1>8 DEF ChildrenGood
  <1> QED
    BY <1>5, <1>7, <1>8 DEF ChildrenGood

\* A deletion takes the first partition away.
LEMMA DeletedGood ==
  ASSUME ChildrenGood(children), NEW idx, DelPartition(idx)
  PROVE  ChildrenGood(children')
  <1>1. /\ children \in Seq(Device) /\ Len(children) \in Nat
        /\ DOMAIN children = 1..Len(children)
    BY LenProperties DEF ChildrenGood
  <1>2. children' = Tail(children) /\ children # <<>>
    BY DEF DelPartition
  <1>3. /\ children' \in Seq(Device) /\ Len(children') = Len(children) - 1
        /\ \A i \in 1..(Len(children) - 1) : children'[i] = children[i + 1]
    BY <1>1, <1>2, HeadTailProperties
  <1>4. DOMAIN children' = 1..(Len(children) - 1)
    BY <1>3, LenProperties
  <1>5. \A i, j \in 1..(Len(children) - 1) :
          i + 1 \in 1..Len(children) /\ (i # j => i + 1 # j + 1)
    BY <1>1
  <1>6. ASSUME NEW i \in DOMAIN children'
        PROVE  RangeFits(children'[i].offset, children'[i].size)
    BY <1>1, <1>3, <1>4, <1>5 DEF ChildrenGood
  <1>7. ASSUME NEW i \in DOMAIN children', NEW j \in DOMAIN children', i # j,
               children'[i].by = "recipe", children'[j].by = "recipe"
        PROVE  Bytes(children'[i].offset, children'[i].size)
                 \intersect Bytes(children'[j].offset, children'[j].size) = {}
    <2>1. /\ children'[i] = children[i + 1] /\ children'[j] = children[j + 1]
          /\ i + 1 \in DOMAIN children /\ j + 1 \in DOMAIN children /\ i + 1 # j + 1
      BY <1>1, <1>3, <1>4, <1>5, <1>7
    <2> QED
      BY <1>7, <2>1 DEF ChildrenGood
  <1> QED
    BY <1>3, <1>6, <1>7 DEF ChildrenGood

\* The partitions that a failed unregistration leaves are different ones of those
\* there were.
LEMMA KeptGood ==
  ASSUME NEW list, ChildrenGood(list), NEW f \in Selections(list)
  PROVE  /\ ChildrenGood([i \in DOMAIN f |-> list[f[i]]])
         /\ Range([i \in DOMAIN f |-> list[f[i]]]) \subseteq Range(list)
  <1> DEFINE left == [i \in DOMAIN f |-> list[f[i]]]
  <1>1. PICK n \in 0..Len(list) :
          f \in {g \in [1..n -> DOMAIN list] : \A i, j \in 1..n : i < j => g[i] < g[j]}
    BY DEF Selections
  <1>2. /\ list \in Seq(Device) /\ DOMAIN list = 1..Len(list) /\ Len(list) \in Nat
        /\ n \in Nat
    BY <1>1, LenProperties DEF ChildrenGood
  <1>3. /\ DOMAIN f = 1..n /\ DOMAIN left = 1..n
        /\ \A i \in 1..n : f[i] \in DOMAIN list /\ left[i] = list[f[i]]
        /\ \A i, j \in 1..n : i < j => f[i] < f[j]
    BY <1>1
  <1> HIDE DEF left
  <1>4. \A i, j \in 1..n : i # j => f[i] # f[j]
    <2> SUFFICES ASSUME NEW i \in 1..n, NEW j \in 1..n, i # j PROVE f[i] # f[j]
      OBVIOUS
    <2>1. f[i] \in Int /\ f[j] \in Int
      BY <1>2, <1>3
    <2>2. i < j \/ j < i
      OBVIOUS
    <2> QED
      BY <1>3, <2>1, <2>2
  <1>5. left \in Seq(Device)
    <2>1. \A i \in 1..n : left[i] \in Device
      BY <1>2, <1>3, ElementOfSeq
    <2>2. left \in [1..n -> Device]
      BY <1>3, <2>1 DEF left
    <2> QED
      BY <1>2, <2>2, IsASeq
  <1>6. \A i \in DOMAIN left : RangeFits(left[i].offset, left[i].size)
    BY <1>3 DEF ChildrenGood
  <1>7. ASSUME NEW i \in DOMAIN left, NEW j \in DOMAIN left, i # j,
               left[i].by = "recipe", left[j].by = "recipe"
        PROVE  Bytes(left[i].offset, left[i].size)
                 \intersect Bytes(left[j].offset, left[j].size) = {}
    <2>1. /\ f[i] \in DOMAIN list /\ f[j] \in DOMAIN list /\ f[i] # f[j]
          /\ left[i] = list[f[i]] /\ left[j] = list[f[j]]
      BY <1>3, <1>4, <1>7
    <2> QED
      BY <1>7, <2>1 DEF ChildrenGood
  <1>8. Range(left) \subseteq Range(list)
    BY <1>3 DEF Range
  <1> QED
    BY <1>5, <1>6, <1>7, <1>8 DEF ChildrenGood, left

\* What a respawn that is refused does to the partitions.
LEMMA RefusedGood ==
  ASSUME ChildrenGood(children), NEW plan, RespawnRefused(plan)
  PROVE  \/ UNCHANGED ioVars
         \/ ~InUse /\ hold' = hold /\ ChildrenGood(children')
  <1>1. CASE UNCHANGED ioVars
    BY <1>1
  <1>2. CASE ~InUse /\ hold' = hold /\ children' = <<>>
    BY <1>2, EmptyGood
  <1>3. ASSUME ~InUse, hold' = hold, NEW f \in Selections(children),
               children' = [i \in DOMAIN f |-> children[f[i]]]
        PROVE  ~InUse /\ hold' = hold /\ ChildrenGood(children')
    BY <1>3, KeptGood
  <1> QED
    BY <1>1, <1>2, <1>3 DEF RespawnRefused

\* What a step does to the partitions and to their users.
LEMMA UserMoves ==
  ASSUME ListInv, Shared!PartsFit, Shared!PartsDisjoint, ChildrenGood(children), [Next]_vars
  PROVE  \/ /\ UNCHANGED <<registered, children>>
            /\ \/ hold' = hold
               \/ \E u \in User, d \in Openable : hold' = [hold EXCEPT ![u] = {d}]
               \/ \E u \in User : hold' = [hold EXCEPT ![u] = {}]
         \/ ~InUse /\ hold' = hold /\ ChildrenGood(children')
  <1> DEFINE Goal ==
               \/ /\ UNCHANGED <<registered, children>>
                  /\ \/ hold' = hold
                     \/ \E u \in User, d \in Openable : hold' = [hold EXCEPT ![u] = {d}]
                     \/ \E u \in User : hold' = [hold EXCEPT ![u] = {}]
               \/ ~InUse /\ hold' = hold /\ ChildrenGood(children')
  <1>1. CASE UNCHANGED <<registered, children, hold>>
    BY <1>1
  <1>2. ASSUME NEW u \in User, UserStep(u) PROVE Goal
    BY <1>2 DEF UserStep, OpenDevice, CloseDevice, Write, Erase
  <1>3. ASSUME NEW c \in Tool, CreateReturns(c) PROVE Goal
    <2>1. array # <<>>
      BY <1>3 DEF CreateReturns, Session!CreateDone
    <2>2. CASE RespawnDone(array)
      BY <2>1, <2>2, DispatchedGood DEF RespawnDone
    <2>3. CASE RespawnRefused(array)
      BY <2>3, RefusedGood, <1>1 DEF ioVars
    <2> QED
      BY <1>3, <2>2, <2>3 DEF CreateReturns
  <1>4. ASSUME NEW c \in Tool, DeleteAll(c) PROVE Goal
    <2>1. CASE RespawnDone(<<>>)
      <3>1. children' = <<>>
        BY <2>1 DEF RespawnDone
      <3> QED
        BY <2>1, <3>1, EmptyGood DEF RespawnDone
    <2>2. CASE RespawnRefused(<<>>)
      BY <2>2, RefusedGood, <1>1 DEF ioVars
    <2> QED
      BY <1>4, <2>1, <2>2 DEF DeleteAll
  <1>5. ASSUME NEW c \in Tool, CmdAddImmediate(c) PROVE Goal
    <2>1. PICK r \in Immediates : AddPartition(r.offset, r.length)
      BY <1>5 DEF CmdAddImmediate
    <2>2. r.offset \in U64 /\ r.length \in U64
      BY <2>1, ToolAssumption
    <2> QED
      BY <2>1, <2>2, AddedGood DEF AddPartition
  <1>6. ASSUME NEW c \in Tool, NEW idx, CmdDeleteImmediate(c, idx) PROVE Goal
    BY <1>6, DeletedGood DEF CmdDeleteImmediate, DelPartition
  <1> HIDE DEF Goal
  <1>7. ASSUME NEW c \in Tool, ToolStep(c) PROVE Goal \/ UNCHANGED <<registered, children, hold>>
    BY <1>3, <1>4, <1>5, <1>6, <1>7
    DEF ToolStep, Launch, Opened, Exit, Kill, CmdAddRecipePart, CmdDeleteRecipePart,
        CmdRecipeReset, CmdExit, ConfigLine, Create, ioVars
  <1> QED
    BY <1>1, <1>2, <1>7 DEF Next, vars, ioVars, Goal

\* Bytes of the backing MTD change state, and none is added or lost.
LEMMA ContentType ==
  ASSUME content \in [Byte -> {"erased", "written"}], [Next]_vars
  PROVE  content' \in [Byte -> {"erased", "written"}]
  <1>1. CASE UNCHANGED content
    BY <1>1
  <1>2. ASSUME NEW u \in User, UserStep(u) PROVE content' \in [Byte -> {"erased", "written"}]
    BY <1>2 DEF UserStep, OpenDevice, CloseDevice, Write, Erase
  <1>3. ASSUME NEW c \in Tool, ToolStep(c) PROVE UNCHANGED content
    BY <1>3
    DEF ToolStep, Launch, Opened, Exit, Kill, CmdAddRecipePart, CmdDeleteRecipePart,
        CmdRecipeReset, CmdExit, ConfigLine, Create, CreateReturns, DeleteAll, CmdAddImmediate,
        CmdDeleteImmediate, AddPartition, DelPartition, RespawnDone, RespawnRefused, ioVars
  <1> QED
    BY <1>1, <1>2, <1>3 DEF Next, vars, ioVars

\* Every user holds a device that can be opened still, and all of them fit.
LEMMA UserInvariance == Spec => []UserInv
  <1>1. Init => UserInv
    BY EmptyGood DEF Init, ProxyIOInit, UserInv
  <1>2. /\ ListInv /\ Shared!PartsFit /\ Shared!PartsDisjoint /\ UserInv /\ [Next]_vars
        => UserInv'
    <2> SUFFICES ASSUME ListInv, Shared!PartsFit, Shared!PartsDisjoint, UserInv, [Next]_vars
                 PROVE  UserInv'
      OBVIOUS
    <2>1. content' \in [Byte -> {"erased", "written"}]
      BY ContentType DEF UserInv
    <2>2. CASE UNCHANGED <<registered, children>> /\ hold' \in [User -> SUBSET Openable]
      BY <2>1, <2>2 DEF UserInv, Openable, ChildrenGood
    <2>3. CASE ~InUse /\ hold' = hold /\ ChildrenGood(children')
      <3>1. \A u \in User : hold[u] = {}
        BY <2>3 DEF InUse
      <3>2. hold' \in [User -> SUBSET Openable']
        BY <2>3, <3>1 DEF UserInv
      <3> QED
        BY <2>1, <2>3, <3>2 DEF UserInv
    <2>4. ASSUME NEW u \in User, NEW d \in Openable, hold' = [hold EXCEPT ![u] = {d}]
          PROVE  hold' \in [User -> SUBSET Openable]
      BY <2>4 DEF UserInv
    <2>5. ASSUME NEW u \in User, hold' = [hold EXCEPT ![u] = {}]
          PROVE  hold' \in [User -> SUBSET Openable]
      BY <2>5 DEF UserInv
    <2>6. hold \in [User -> SUBSET Openable] /\ ChildrenGood(children)
      BY DEF UserInv
    <2> QED
      BY <2>2, <2>3, <2>4, <2>5, <2>6, UserMoves
  <1> QED
    BY <1>1, <1>2, ListInvariance, SharedInvariance, PTL DEF Spec

\* Two users of different partitions that recipes made never share a byte,
\* whatever is dispatched, reset, added and deleted while they are there.
THEOREM RecipesIsolate == Spec => []RecipeIsolation
  <1>1. UserInv => RecipeIsolation
    <2> SUFFICES ASSUME UserInv, NEW u \in User, NEW v \in User,
                        NEW d \in hold[u], NEW e \in hold[v],
                        d.by = "recipe", e.by = "recipe", d # e
                 PROVE  Bytes(d.offset, d.size) \intersect Bytes(e.offset, e.size) = {}
      BY DEF RecipeIsolation
    <2>1. d \in Openable /\ e \in Openable
      BY DEF UserInv
    <2>2. d \in Range(children) /\ e \in Range(children)
      BY <2>1 DEF Openable, ProxyMtd
    <2>3. PICK i \in DOMAIN children : d = children[i]
      BY <2>2 DEF Range
    <2>4. PICK j \in DOMAIN children : e = children[j]
      BY <2>2 DEF Range
    <2> QED
      BY <2>3, <2>4 DEF UserInv, ChildrenGood
  <1> QED
    BY <1>1, UserInvariance, PTL

-----------------------------------------------------------------------------
(* Whole erase blocks                                                      *)

\* A number lies in the block that its quotient names.
LEMMA Multiples ==
  ASSUME NEW E \in Nat \ {0}, NEW n \in Nat
  PROVE  /\ n \div E \in Nat /\ E * (n \div E) <= n /\ n < E * (n \div E) + E
         /\ n % E = 0 => n = E * (n \div E)
  OBVIOUS

\* A block with a larger number begins at a larger offset.
LEMMA Monotone ==
  ASSUME NEW E \in Nat \ {0}, NEW x \in Nat, NEW y \in Nat, x <= y
  PROVE  E * x <= E * y
  OBVIOUS

\* The erase block of a byte of a range that fits lies inside the range.
LEMMA BlockInside ==
  ASSUME NEW o \in U64, NEW l \in U64, RangeFits(o, l),
         NEW p \in Bytes(o, l), NEW b \in Byte, b \div EraseSize = p \div EraseSize
  PROVE  b \in Bytes(o, l)
  <1> DEFINE E == EraseSize
             x == o \div E
             y == l \div E
             k == p \div E
  <1>1. /\ E \in Nat \ {0} /\ o \in Nat /\ l \in Nat /\ p \in Nat /\ b \in Nat
        /\ b \in 0..(2 * U64Max) /\ o <= p /\ p < o + l
    BY RangeAssumption DEF U64, Byte, Bytes
  <1>2. /\ x \in Nat /\ o = E * x /\ y \in Nat /\ l = E * y
        /\ k \in Nat /\ E * k <= p /\ p < E * k + E /\ E * k <= b /\ b < E * k + E
    BY <1>1, Multiples DEF RangeFits
  <1> HIDE DEF E, x, y, k
  <1>3. E * (k + 1) = E * k + E /\ E * (x + y) = E * x + E * y
    BY <1>1, <1>2
  <1>4. x <= k
    <2> SUFFICES ASSUME k + 1 <= x PROVE FALSE
      BY <1>2
    <2>1. E * (k + 1) <= E * x
      BY <1>1, <1>2, Monotone
    <2> QED
      BY <1>1, <1>2, <1>3, <2>1
  <1>5. k + 1 <= x + y
    <2> SUFFICES ASSUME x + y <= k PROVE FALSE
      BY <1>2
    <2>1. E * (x + y) <= E * k
      BY <1>1, <1>2, Monotone
    <2> QED
      BY <1>1, <1>2, <1>3, <2>1
  <1>6. E * x <= E * k /\ E * (k + 1) <= E * (x + y)
    BY <1>1, <1>2, <1>4, <1>5, Monotone
  <1>7. o <= b /\ b < o + l
    BY <1>1, <1>2, <1>3, <1>6
  <1> QED
    BY <1>1, <1>7 DEF Bytes

\* An erase takes whole blocks, and still touches no byte outside the device
\* that its user has opened for writing.
THEOREM ErasesStayInside == Spec => WritesStayInside
  <1> DEFINE Covered(b) ==
               \E u \in User : \E d \in hold[u] : d.writable /\ b \in Bytes(d.offset, d.size)
             Inside == \A b \in Byte : content'[b] # content[b] => Covered(b)
  <1>1. ASSUME UserInv, NEW u \in User, NEW p \in Reached(u)
        PROVE  \E d \in hold[u] :
                 /\ d.writable /\ p \in Bytes(d.offset, d.size)
                 /\ d = ProxyMtd \/ (d \in Device /\ RangeFits(d.offset, d.size))
    <2>1. PICK d \in hold[u] : d.writable /\ p \in Bytes(d.offset, d.size)
      BY <1>1 DEF Reached
    <2>2. d = ProxyMtd \/ d \in Range(children)
      BY <1>1 DEF UserInv, Openable
    <2>3. ASSUME d \in Range(children) PROVE d \in Device /\ RangeFits(d.offset, d.size)
      <3>1. PICK i \in DOMAIN children : d = children[i]
        BY <2>3 DEF Range
      <3> QED
        BY <1>1, <3>1, ElementOfSeq, LenProperties DEF UserInv, ChildrenGood
    <2> QED
      BY <2>1, <2>2, <2>3
  <1>2. ASSUME UserInv, NEW u \in User, Write(u) PROVE Inside
    <2>1. PICK p \in Reached(u) : content' = [content EXCEPT ![p] = "written"]
      BY <1>2 DEF Write
    <2>2. \A b \in Byte : content'[b] # content[b] => b = p
      BY <1>2, <2>1 DEF UserInv
    <2>3. Covered(p)
      BY <1>1, <1>2
    <2> QED
      BY <2>2, <2>3
  <1>3. ASSUME UserInv, NEW u \in User, Erase(u) PROVE Inside
    <2>1. PICK p \in Reached(u) :
            content' = [b \in Byte |-> IF b \div EraseSize = p \div EraseSize
                                       THEN "erased" ELSE content[b]]
      BY <1>3 DEF Erase
    <2>2. PICK d \in hold[u] :
            /\ d.writable /\ p \in Bytes(d.offset, d.size)
            /\ d = ProxyMtd \/ (d \in Device /\ RangeFits(d.offset, d.size))
      BY <1>1, <1>3
    <2>3. ASSUME NEW b \in Byte, content'[b] # content[b] PROVE b \in Bytes(d.offset, d.size)
      <3>1. b \div EraseSize = p \div EraseSize
        BY <2>1, <2>3
      <3>2. CASE d = ProxyMtd
        BY <3>2, RangeAssumption DEF ProxyMtd, Bytes, Byte
      <3>3. CASE d \in Device /\ RangeFits(d.offset, d.size)
        <4>1. d.offset \in U64 /\ d.size \in U64
          BY <3>3 DEF Device
        <4> QED
          BY <2>2, <3>1, <3>3, <4>1, BlockInside
      <3> QED
        BY <2>2, <3>2, <3>3
    <2> QED
      BY <2>2, <2>3
  <1> HIDE DEF Inside
  <1>4. UserInv /\ [Next]_vars => Inside
    <2> SUFFICES ASSUME UserInv, [Next]_vars PROVE Inside
      OBVIOUS
    <2>1. CASE UNCHANGED content
      BY <2>1 DEF Inside
    <2>2. ASSUME NEW u \in User, UserStep(u) PROVE Inside
      BY <1>2, <1>3, <2>1, <2>2 DEF UserStep, OpenDevice, CloseDevice
    <2>3. ASSUME NEW c \in Tool, ToolStep(c) PROVE UNCHANGED content
      BY <2>3
      DEF ToolStep, Launch, Opened, Exit, Kill, CmdAddRecipePart, CmdDeleteRecipePart,
          CmdRecipeReset, CmdExit, ConfigLine, Create, CreateReturns, DeleteAll,
          CmdAddImmediate, CmdDeleteImmediate, AddPartition, DelPartition, RespawnDone,
          RespawnRefused, ioVars
    <2> QED
      BY <2>1, <2>2, <2>3 DEF Next, vars, ioVars
  <1>5. UserInv /\ [Next]_vars => [Inside]_vars
    BY <1>4
  <1> QED
    BY <1>5, UserInvariance, PTL DEF Spec, WritesStayInside, Inside

-----------------------------------------------------------------------------
(* Configuration files                                                     *)

\* A process has a mode for as long as it has the device, and has not read a
\* line before its open is through.
ModeInv(c) ==
  /\ line[c] \in 1..(Len(file[c]) + 1)
  /\ fd[c] = "closed" <=> at[c] = "none"
  /\ fd[c] # "open" => line[c] = 1

\* A process that works through a configuration file has handed over the lines
\* before the next one and nothing else, and once its create is at work, all.
FileInv(c) ==
  fd[c] = "open" /\ at[c] = "config" =>
    /\ Len(recipe.partitions) = line[c] - 1
    /\ recipe.parts_count = line[c] - 1
    /\ \A i \in 1..(line[c] - 1) : recipe.partitions[i] = NewPart(RequestOf(file[c][i]))
    /\ array # <<>> => line[c] = Len(file[c]) + 1

ConfigInv ==
  /\ file \in [Tool -> Seq(Lines)]
  /\ line \in [Tool -> Nat]
  /\ \A c \in Tool : ModeInv(c) /\ FileInv(c)

\* A line that parses and is accepted becomes the part after those of the lines
\* before it.
LEMMA LineAdded ==
  ASSUME ListInv, ConfigInv, NEW c \in Tool, fd[c] = "open", at[c] = "config",
         NEW l, l = file[c][line[c]], Parses(l), Session!AddRecipePart(c, RequestOf(l))
  PROVE  /\ Len(recipe'.partitions) = line[c]
         /\ recipe'.parts_count = line[c]
         /\ \A i \in 1..line[c] : recipe'.partitions[i] = NewPart(RequestOf(file[c][i]))
         /\ array' = <<>>
  <1> DEFINE s == recipe.partitions
             n == Len(recipe.partitions)
             req == RequestOf(l)
  <1>1. /\ s \in Seq(RecipePart) /\ n \in Nat /\ n = Len(s)
        /\ n = line[c] - 1 /\ line[c] \in Nat
        /\ recipe.parts_count = n
        /\ \A i \in 1..n : s[i] = NewPart(RequestOf(file[c][i]))
    BY LenProperties DEF ListInv, RecipeType, ConfigInv, FileInv
  <1>2. recipe' = PartAdded(recipe, req) /\ array' = <<>>
    BY DEF Session!AddRecipePart, Session!PartAdded, PartAdded, Session!NewPart, NewPart,
        Session!Calling, Session!RecipeUnlocked
  <1>3. /\ recipe'.partitions = Append(s, NewPart(req)) /\ NewPart(req) \in RecipePart
        /\ recipe'.parts_count = n + 1
    BY <1>1, <1>2, RequestOfType, PartAddedProperties DEF ListInv
  <1> HIDE DEF s, n, req
  <1>4. /\ Len(recipe'.partitions) = n + 1 /\ recipe'.partitions[n + 1] = NewPart(req)
        /\ \A i \in 1..n : recipe'.partitions[i] = s[i]
    <2> DEFINE part == NewPart(req)
               t == Append(s, part)
    <2> HIDE DEF part
    <2>1. /\ s \in Seq(RecipePart) /\ part \in RecipePart
          /\ n = Len(s)
      BY <1>1, <1>3 DEF part
    <2>2. Len(t) = Len(s) + 1 /\ t[Len(s) + 1] = part /\ \A i \in 1..Len(s) : t[i] = s[i]
      BY <2>1, AppendProperties
    <2>3. Len(t) = n + 1 /\ t[n + 1] = NewPart(req) /\ \A i \in 1..n : t[i] = s[i]
      BY <2>1, <2>2 DEF part
    <2> HIDE DEF t
    <2> QED
      BY <1>3, <2>3 DEF t, part
  <1>5. ASSUME NEW i \in 1..line[c]
        PROVE  recipe'.partitions[i] = NewPart(RequestOf(file[c][i]))
    <2>1. CASE i = n + 1
      BY <1>1, <1>4, <2>1 DEF req
    <2>2. CASE i # n + 1
      <3>1. i \in 1..n
        BY <1>1, <2>2
      <3> QED
        BY <1>1, <1>4, <3>1
    <2> QED
      BY <2>1, <2>2
  <1> QED
    BY <1>1, <1>2, <1>3, <1>4, <1>5

\* Nobody else has the device while a process works through its file, so no step
\* of another one changes what it has handed over.
LEMMA ConfigStep ==
  ASSUME ListInv, CountInv, ConfigInv, Shared!TypeOK, Shared!OneClient,
         NEW c \in Tool, ToolStep(c)
  PROVE  ConfigInv'
  <1>1. /\ fd \in [Tool -> {"closed", "opening", "open"}]
        /\ \A d \in Tool : fd[c] # "closed" /\ fd[d] # "closed" => c = d
        /\ already_open = 0 <=> \A d \in Tool : fd[d] = "closed"
        /\ at \in [Tool -> {"none", "repl", "config", "reset", "ok", "error"}]
        /\ file \in [Tool -> Seq(Lines)] /\ line \in [Tool -> Nat]
        /\ \A d \in Tool : ModeInv(d) /\ FileInv(d)
    BY DEF Shared!TypeOK, Shared!OneClient, CountInv, ConfigInv
  <1>2. \A d \in Tool : Len(file[d]) \in Nat
    BY <1>1, LenProperties
  <1>3. CASE Launch(c)
    <2>1. /\ fd' = [fd EXCEPT ![c] = "opening"] /\ fd[c] = "closed" /\ already_open = 0
          /\ line' = line
      BY <1>3 DEF Launch, Session!OpenClaim
    <2>2. /\ \E mode \in {"repl", "reset", "ok", "config"} : at' = [at EXCEPT ![c] = mode]
          /\ file' = file \/ \E f \in Files : file' = [file EXCEPT ![c] = f]
      BY <1>3 DEF Launch
    <2>3. file' \in [Tool -> Seq(Lines)] /\ \A d \in Tool : Len(file'[d]) \in Nat
      <3>1. \A f \in Files : f \in Seq(Lines)
        BY ToolAssumption
      <3>2. file' \in [Tool -> Seq(Lines)]
        BY <1>1, <2>2, <3>1
      <3>3. \A d \in Tool : file'[d] \in Seq(Lines)
        BY <3>2
      <3> QED
        BY <3>2, <3>3, LenProperties
    <2>4. \A d \in Tool : fd'[d] # "open" /\ line[d] = 1
      BY <1>1, <2>1 DEF ModeInv
    <2>5. \A d \in Tool : fd'[d] = "closed" <=> at'[d] = "none"
      BY <1>1, <2>1, <2>2 DEF ModeInv
    <2>6. \A d \in Tool : 1 \in 1..(Len(file'[d]) + 1)
      BY <2>3
    <2> QED
      BY <1>1, <2>1, <2>3, <2>4, <2>5, <2>6 DEF ConfigInv, ModeInv, FileInv
  <1>4. CASE Opened(c)
    <2>1. /\ fd' = [fd EXCEPT ![c] = "open"] /\ fd[c] = "opening" /\ recipe' = EmptyRecipe
          /\ at' = at /\ file' = file /\ line' = line /\ array' = <<>>
      BY <1>4 DEF Opened, toolVars, Session!OpenRestart, Session!RecipeUnlocked,
          Session!EmptyRecipe, EmptyRecipe
    <2>2. line[c] = 1 /\ \A d \in Tool \ {c} : fd[d] = "closed"
      BY <1>1, <2>1 DEF ModeInv
    <2>3. Len(EmptyRecipe.partitions) = 0 /\ EmptyRecipe.parts_count = 0
      BY EmptySeq DEF EmptyRecipe
    <2>4. \A d \in Tool : ModeInv(d)'
      BY <1>1, <2>1 DEF ModeInv
    <2>5. \A d \in Tool : FileInv(d)'
      BY <1>1, <2>1, <2>2, <2>3 DEF FileInv
    <2> QED
      BY <1>1, <2>1, <2>4, <2>5 DEF ConfigInv
  <1>5. CASE Exit(c) \/ Kill(c)
    <2>1. /\ fd[c] = "open" /\ fd' = [fd EXCEPT ![c] = "closed"]
          /\ at' = [at EXCEPT ![c] = "none"] /\ file' = [file EXCEPT ![c] = <<>>]
          /\ line' = [line EXCEPT ![c] = 1]
      BY <1>5 DEF Exit, Kill, Forget, Session!Release
    <2>2. /\ file' \in [Tool -> Seq(Lines)] /\ line' \in [Tool -> Nat]
          /\ Len(file'[c]) = 0
      BY <1>1, <2>1, EmptySeq
    <2>3. \A d \in Tool : fd'[d] = "closed"
      BY <1>1, <2>1
    <2>4. \A d \in Tool : ModeInv(d)'
      BY <1>1, <2>1, <2>2, <2>3 DEF ModeInv
    <2> QED
      BY <2>2, <2>3, <2>4 DEF ConfigInv, FileInv
  <1>6. ASSUME fd[c] = "open", fd' = fd, file' = file, line' \in [Tool -> Nat],
               line'[c] \in 1..(Len(file[c]) + 1),
               \A d \in Tool \ {c} : at'[d] = at[d] /\ line'[d] = line[d],
               at[c] # "none", at'[c] # "none", FileInv(c)'
        PROVE  ConfigInv'
    <2>1. \A d \in Tool \ {c} : fd[d] = "closed"
      BY <1>1, <1>6
    <2>2. \A d \in Tool : ModeInv(d)'
      BY <1>1, <1>6 DEF ModeInv
    <2>3. \A d \in Tool : FileInv(d)'
      BY <1>6, <2>1 DEF FileInv
    <2> QED
      BY <1>1, <1>6, <2>2, <2>3 DEF ConfigInv
  <1>7. ASSUME fd[c] = "open", fd' = fd, file' = file, line' = line,
               at' = at \/ \E how \in {"ok", "error"} : at' = [at EXCEPT ![c] = how],
               at[c] = "config" => at'[c] # "config"
        PROVE  ConfigInv'
    <2>1. at[c] # "none" /\ at'[c] # "none" /\ at'[c] # "config"
      BY <1>1, <1>7 DEF ModeInv
    <2>2. FileInv(c)'
      BY <2>1 DEF FileInv
    <2>3. line[c] \in 1..(Len(file[c]) + 1)
      BY <1>1 DEF ModeInv
    <2> QED
      BY <1>1, <1>6, <1>7, <2>1, <2>2, <2>3
  <1>8. CASE ConfigLine(c)
    <2> DEFINE l == file[c][line[c]]
    <2>1. /\ at[c] = "config" /\ fd[c] = "open" /\ file' = file
          /\ line[c] <= Len(file[c])
      BY <1>8 DEF ConfigLine, Ready, Session!Calling
    <2>2. CASE LineRefused(l) /\ Ended(c, "error") /\ UNCHANGED <<sessionVars, line>>
      BY <1>1, <1>7, <2>1, <2>2 DEF Ended, sessionVars
    <2>3. CASE /\ Parses(l) /\ Session!AddRecipePart(c, RequestOf(l)) /\ at' = at
               /\ line' = [line EXCEPT ![c] = @ + 1]
      <3>1. line' \in [Tool -> Nat] /\ line'[c] = line[c] + 1 /\ line[c] \in Nat
        BY <1>1, <2>3
      <3>2. /\ Len(recipe'.partitions) = line[c]
            /\ recipe'.parts_count = line[c]
            /\ \A i \in 1..line[c] : recipe'.partitions[i] = NewPart(RequestOf(file[c][i]))
            /\ array' = <<>>
        BY <2>1, <2>3, LineAdded
      <3>3. FileInv(c)'
        BY <2>1, <3>1, <3>2 DEF FileInv
      <3>4. fd' = fd /\ line'[c] \in 1..(Len(file[c]) + 1)
        BY <1>1, <1>2, <2>1, <2>3, <3>1 DEF Session!AddRecipePart
      <3> QED
        BY <1>1, <1>6, <2>1, <2>3, <3>1, <3>3, <3>4
    <2> QED
      BY <1>8, <2>2, <2>3 DEF ConfigLine
  <1>9. CASE Create(c)
    <2>1. /\ fd[c] = "open" /\ fd' = fd /\ file' = file /\ line' = line /\ recipe' = recipe
          /\ at[c] = "config" => line[c] > Len(file[c])
      BY <1>9 DEF Create, Ready, Session!Calling, Session!CreatePartitions, sessionVars
    <2>2. CASE Ended(c, "error")
      BY <1>1, <1>7, <2>1, <2>2 DEF Ended
    <2>3. CASE at' = at
      <3>1. at[c] # "none" /\ line[c] \in 1..(Len(file[c]) + 1)
        BY <1>1, <2>1 DEF ModeInv
      <3>2. at[c] = "config" => line[c] = Len(file[c]) + 1
        BY <1>2, <2>1, <3>1
      <3>3. FileInv(c)'
        BY <1>1, <2>1, <2>3, <3>2 DEF FileInv
      <3> QED
        BY <1>1, <1>6, <2>1, <2>3, <3>1, <3>3
    <2> QED
      BY <1>9, <2>2, <2>3 DEF Create
  <1>10. CASE CreateReturns(c) \/ DeleteAll(c)
    <2>1. /\ fd[c] = "open" /\ fd' = fd /\ file' = file /\ line' = line
          /\ \E how \in {"ok", "error"} : Ended(c, how)
      BY <1>10 DEF CreateReturns, DeleteAll, Ready, Session!Calling, Session!CreateDone,
          sessionVars
    <2>2. \E how \in {"ok", "error"} :
            at' = [at EXCEPT ![c] = IF at[c] = "repl" THEN "repl" ELSE how]
      BY <2>1 DEF Ended
    <2>3. at' = at \/ \E how \in {"ok", "error"} : at' = [at EXCEPT ![c] = how]
      BY <1>1, <2>2
    <2> QED
      BY <1>1, <1>7, <2>1, <2>2, <2>3
  <1>11. CASE \/ \E l \in Lines : CmdAddRecipePart(c, l)
              \/ \E index \in U64 : CmdDeleteRecipePart(c, index)
              \/ CmdRecipeReset(c) \/ CmdAddImmediate(c)
              \/ \E idx \in 0..U32Max : CmdDeleteImmediate(c, idx)
    <2>1. /\ at[c] = "repl" /\ fd[c] = "open" /\ fd' = fd /\ file' = file /\ line' = line
          /\ at' = at
      BY <1>11
      DEF CmdAddRecipePart, CmdDeleteRecipePart, CmdRecipeReset, CmdAddImmediate,
          CmdDeleteImmediate, Ready, Session!Calling, Session!AddRecipePart,
          Session!DelRecipePart, Session!RestartRecipe, sessionVars, toolVars
    <2> QED
      BY <1>7, <2>1
  <1>12. CASE CmdExit(c)
    BY <1>1, <1>7, <1>12 DEF CmdExit, Ready, Session!Calling, sessionVars
  <1> QED
    BY <1>3, <1>4, <1>5, <1>8, <1>9, <1>10, <1>11, <1>12 DEF ToolStep

\* What a process has handed over of its file is known in every state.
LEMMA ConfigInvariance == Spec => []ConfigInv
  <1>1. Init => ConfigInv
    BY EmptySeq DEF Init, Session!Init, ConfigInv, ModeInv, FileInv
  <1>2. /\ ListInv /\ CountInv /\ Shared!TypeOK /\ Shared!OneClient /\ ConfigInv /\ [Next]_vars
        => ConfigInv'
    <2> SUFFICES ASSUME ListInv, CountInv, Shared!TypeOK, Shared!OneClient, ConfigInv,
                        [Next]_vars
                 PROVE  ConfigInv'
      OBVIOUS
    <2>1. CASE UNCHANGED <<sessionVars, toolVars>>
      BY <2>1 DEF sessionVars, toolVars, ConfigInv, ModeInv, FileInv
    <2> QED
      BY <2>1, ConfigStep DEF Next, UserStep, vars
  <1> QED
    BY <1>1, <1>2, ListInvariance, CountInvariance, SharedInvariance, PTL DEF Spec

\* The parts that a file's lines became, dispatched, are what the file asks for.
LEMMA FileDelivered ==
  ASSUME ListInv, ConfigInv, NEW c \in Tool, fd[c] = "open", at[c] = "config", array # <<>>
  PROVE  Delivered([i \in DOMAIN array |-> AsDevice(array[i])], file[c])
  <1> DEFINE n == recipe.parts_count
             t == [i \in DOMAIN array |-> AsDevice(array[i])]
             f == file[c]
  <1>1. /\ recipe.partitions \in Seq(RecipePart) /\ n \in Nat /\ n = Len(recipe.partitions)
        /\ DOMAIN recipe.partitions = 1..n
        /\ f \in Seq(Lines) /\ Len(f) \in Nat /\ DOMAIN f = 1..Len(f)
    BY LenProperties DEF ListInv, RecipeType, ConfigInv, FileInv
  <1>2. n = Len(f) /\ \A i \in 1..n : recipe.partitions[i] = NewPart(RequestOf(f[i]))
    BY <1>1 DEF ConfigInv, FileInv
  <1>3. array = Converted(recipe)
    BY DEF ListInv
  <1>4. /\ DOMAIN array = 1..n
        /\ \A i \in 1..n : array[i] = AsMtdPartition(NewPart(RequestOf(f[i])))
    BY <1>1, <1>2, <1>3 DEF Converted
  <1>5. ASSUME NEW i \in 1..n
        PROVE  /\ t[i].offset = f[i].offset
               /\ t[i].size = f[i].length
               /\ t[i].writable <=> "ro" \notin f[i].flags
    <2>1. t[i] = AsDevice(AsMtdPartition(NewPart(RequestOf(f[i]))))
      BY <1>4
    <2> HIDE DEF t, f, n
    <2> DEFINE req == RequestOf(f[i])
               part == NewPart(req)
               p == AsMtdPartition(part)
    <2>2. /\ req.offset = f[i].offset /\ req.length = f[i].length
          /\ req.readonly = ("ro" \in f[i].flags)
      BY DEF RequestOf
    <2> HIDE DEF req
    <2>3. part.offset = req.offset /\ part.length = req.length /\ part.writable = ~req.readonly
      BY DEF NewPart
    <2> HIDE DEF part
    <2>4. p.offset = part.offset /\ p.size = part.length /\ p.mask_writeable = ~part.writable
      BY DEF AsMtdPartition
    <2> HIDE DEF p
    <2>5. t[i] = AsDevice(p)
      BY <2>1 DEF p, part, req
    <2>6. /\ AsDevice(p).offset = p.offset /\ AsDevice(p).size = p.size
          /\ AsDevice(p).writable = ~p.mask_writeable
      BY DEF AsDevice
    <2>7. t[i].offset = p.offset /\ t[i].size = p.size /\ t[i].writable = ~p.mask_writeable
      BY <2>5, <2>6
    <2>8. t[i].writable <=> "ro" \notin f[i].flags
      BY <2>2, <2>3, <2>4, <2>7
    <2> QED
      BY <2>2, <2>3, <2>4, <2>7, <2>8
  <1>6. /\ DOMAIN t = 1..n /\ Len(t) = n
    BY <1>1, <1>4
  <1> HIDE DEF t
  <1> QED
    BY <1>1, <1>2, <1>5, <1>6 DEF Delivered, t

\* A configuration file is put in force as a whole or not at all: for files of
\* every length, whoever else launches the tool, is killed or uses the device.
THEOREM ConfigIsAtomic == Spec => ConfigAllOrNothing
  <1> DEFINE Outcome(c) ==
               \/ at'[c] = "ok" /\ registered' /\ Delivered(children', file[c])
               \/ at'[c] = "error" /\ ~registered' /\ children' = <<>>
               \/ /\ at'[c] = "error" /\ registered' = registered
                  /\ Range(children') \subseteq Range(children)
             Step ==
               \A c \in Tool :
                 at[c] = "config" /\ (at'[c] = "ok" \/
                                       <<registered, children>>' # <<registered, children>>) =>
                   \/ at'[c] = "ok" /\ registered' /\ Delivered(children', file[c])
                   \/ at'[c] = "error" /\ ~registered' /\ children' = <<>>
                   \/ /\ at'[c] = "error" /\ registered' = registered
                      /\ Range(children') \subseteq Range(children)
             Same(c) == at'[c] # "ok" /\ UNCHANGED <<registered, children>>
             Inv == /\ ListInv /\ CountInv /\ ConfigInv /\ UserInv
                    /\ Shared!TypeOK /\ Shared!OneClient
  <1>1. ASSUME Inv, NEW c \in Tool, at[c] = "config", NEW d \in Tool, ToolStep(d)
        PROVE  Same(c) \/ Outcome(c)
    <2>1. /\ at \in [Tool -> {"none", "repl", "config", "reset", "ok", "error"}]
          /\ fd[c] # "closed"
          /\ fd[d] # "closed" => c = d
          /\ already_open = 0 => fd[c] = "closed"
      BY <1>1 DEF Shared!OneClient, CountInv, ConfigInv, ModeInv
    <2>2. ~Launch(d)
      BY <2>1 DEF Launch, Session!OpenClaim
    <2>3. CASE Opened(d)
      BY <1>1, <2>3 DEF Opened, toolVars, ioVars
    <2>4. CASE d # c
      <3>1. fd[d] = "closed"
        BY <2>1, <2>4
      <3> QED
        BY <1>1, <2>2, <3>1
        DEF ToolStep, Opened, Exit, Kill, CmdAddRecipePart, CmdDeleteRecipePart, CmdRecipeReset,
            CmdAddImmediate, CmdDeleteImmediate, CmdExit, ConfigLine, Create, CreateReturns,
            DeleteAll, Ready, Session!Calling, Session!OpenRestart, Session!Release
    <2>5. CASE d = c /\ CreateReturns(c)
      <3>1. fd[c] = "open" /\ array # <<>>
        BY <2>5 DEF CreateReturns, Session!CreateDone
      <3>2. CASE RespawnDone(array) /\ Ended(c, "ok")
        <4>1. Delivered([i \in DOMAIN array |-> AsDevice(array[i])], file[c])
          BY <1>1, <3>1, FileDelivered
        <4> QED
          BY <1>1, <2>1, <3>2, <4>1 DEF RespawnDone, Ended
      <3>3. CASE RespawnRefused(array) /\ Ended(c, "error")
        <4>1. at'[c] = "error"
          BY <1>1, <2>1, <3>3 DEF Ended
        <4>2. ASSUME registered' = registered, NEW f \in Selections(children),
                     children' = [i \in DOMAIN f |-> children[f[i]]]
              PROVE  registered' = registered /\ Range(children') \subseteq Range(children)
          BY <1>1, <4>2, KeptGood DEF UserInv
        <4>3. \/ UNCHANGED <<registered, children>>
              \/ ~registered' /\ children' = <<>>
              \/ registered' = registered /\ Range(children') \subseteq Range(children)
          BY <3>3, <4>2 DEF RespawnRefused, ioVars
        <4> QED
          BY <4>1, <4>3
      <3> QED
        BY <2>5, <3>2, <3>3 DEF CreateReturns
    <2>6. CASE d = c /\ (Kill(c) \/ ConfigLine(c) \/ Create(c))
      BY <1>1, <2>1, <2>6 DEF Kill, Forget, ConfigLine, Create, Ended, ioVars
    <2> QED
      BY <1>1, <2>2, <2>3, <2>4, <2>5, <2>6
      DEF ToolStep, Exit, CmdAddRecipePart, CmdDeleteRecipePart, CmdRecipeReset,
          CmdAddImmediate, CmdDeleteImmediate, CmdExit, DeleteAll, Ready
  <1>2. ASSUME NEW u \in User, UserStep(u), NEW c \in Tool, at[c] = "config"
        PROVE  Same(c)
    BY <1>2 DEF UserStep, OpenDevice, CloseDevice, Write, Erase, toolVars
  <1>3. Inv /\ [Next]_vars => [Step]_vars
    <2> SUFFICES ASSUME Inv, Next, NEW c \in Tool, at[c] = "config" PROVE Same(c) \/ Outcome(c)
      OBVIOUS
    <2> QED
      BY <1>1, <1>2 DEF Next
  <1> HIDE DEF Step
  <1>4. Spec => []Inv
    BY ListInvariance, CountInvariance, ConfigInvariance, UserInvariance, SharedInvariance, PTL
  <1> QED
    BY <1>3, <1>4, PTL DEF Spec, ConfigAllOrNothing, Step

-----------------------------------------------------------------------------
(* Types                                                                   *)

\* The proxy MTD is registered or it is not.
LEMMA RegisteredType == Spec => [](registered \in BOOLEAN)
  <1>1. Init => registered \in BOOLEAN
    BY DEF Init, ProxyIOInit
  <1>2. registered \in BOOLEAN /\ [Next]_vars => (registered \in BOOLEAN)'
    BY DEF Next, ToolStep, UserStep, Launch, Opened, Exit, Kill, CmdAddRecipePart,
        CmdDeleteRecipePart, CmdRecipeReset, CmdAddImmediate, CmdDeleteImmediate, CmdExit,
        ConfigLine, Create, CreateReturns, DeleteAll, AddPartition, DelPartition, RespawnDone,
        RespawnRefused, OpenDevice, CloseDevice, Write, Erase, ioVars, vars
  <1> QED
    BY <1>1, <1>2, PTL DEF Spec

\* Every variable keeps its type, and no count of the tool goes below 0: a part
\* that the kernel deleted is one that the tool had counted.
THEOREM ToolTypes == Spec => []TypeOK
  <1>1. /\ Shared!TypeOK /\ UserInv /\ CountInv /\ ConfigInv /\ registered \in BOOLEAN
        => TypeOK
    <2> SUFFICES ASSUME Shared!TypeOK, UserInv, CountInv, ConfigInv, registered \in BOOLEAN
                 PROVE  TypeOK
      OBVIOUS
    <2>1. Session!TypeOK
      BY DEF Shared!TypeOK, Session!TypeOK, Shared!RecipePart, Session!RecipePart,
          Shared!MtdPartition, Session!MtdPartition, Shared!U64, Session!U64
    <2>2. children \in Seq(Device) /\ Range(children) \subseteq Device
      <3>1. children \in Seq(Device)
        BY DEF UserInv, ChildrenGood
      <3>2. \A i \in DOMAIN children : children[i] \in Device
        BY <3>1, ElementOfSeq, LenProperties
      <3> QED
        BY <3>1, <3>2 DEF Range
    <2>3. ProxyMtd \in Device
      BY RangeAssumption DEF ProxyMtd, Device, U64
    <2>4. \A u \in User : hold[u] \subseteq Device
      BY <2>2, <2>3 DEF UserInv, Openable
    <2>5. \A c \in Tool : line[c] \in 1..(Len(file[c]) + 1) /\ count[c] \in Nat
      BY DEF ConfigInv, ModeInv, CountInv
    <2> QED
      BY <2>1, <2>2, <2>4, <2>5 DEF TypeOK, UserInv, CountInv
  <1> QED
    BY <1>1, SharedInvariance, UserInvariance, CountInvariance, ConfigInvariance,
       RegisteredType, PTL
=============================================================================
