------------------------- MODULE RecipeSessionProofs -------------------------
(***************************************************************************)
(* The invariants of the control device's session hold for every device,   *)
(* every set of clients and requests, and recipes of every length.         *)
(***************************************************************************)
EXTENDS RecipeSession, RecipeProofs

-----------------------------------------------------------------------------
(* Types                                                                   *)

\* The variables keep the types of struct mtdpartctl_device.
THEOREM SessionTypes == Spec => []TypeOK
  <1>1. Init => TypeOK
    BY EmptySeq, EmptyRecipeType DEF Init, TypeOK, RecipeType
  <1>2. TypeOK /\ [Next]_vars => TypeOK'
    <2> SUFFICES ASSUME TypeOK, [Next]_vars PROVE TypeOK'
      OBVIOUS
    <2> USE DEF TypeOK, RecipeType
    <2>1. CASE CreateDone
      BY <2>1, EmptySeq DEF CreateDone
    <2>2. ASSUME NEW c \in Client, OpenClaim(c) PROVE TypeOK'
      BY <2>2 DEF OpenClaim
    <2>3. ASSUME NEW c \in Client, OpenRestart(c) PROVE TypeOK'
      BY <2>3, EmptyRecipeType DEF OpenRestart
    <2>4. ASSUME NEW c \in Client, Release(c) PROVE TypeOK'
      BY <2>4 DEF Release
    <2>5. ASSUME NEW c \in Client, NEW req \in Requests, AddRecipePart(c, req)
          PROVE  TypeOK'
      <3>1. req \in Request
        BY SessionAssumption
      <3> QED
        BY <2>5, <3>1, PartAddedProperties DEF AddRecipePart
    <2>6. ASSUME NEW c \in Client, NEW index \in 0..MaxParts, DelRecipePart(c, index)
          PROVE  TypeOK'
      BY <2>6, SessionAssumption, PartDeletedProperties DEF DelRecipePart
    <2>7. ASSUME NEW c \in Client, RestartRecipe(c) PROVE TypeOK'
      BY <2>7, EmptyRecipeType DEF RestartRecipe
    <2>8. ASSUME NEW c \in Client, CreatePartitions(c) PROVE TypeOK'
      BY <2>8, ConvertedType DEF CreatePartitions
    <2>9. CASE UNCHANGED vars
      BY <2>9 DEF vars
    <2> QED
      BY <2>1, <2>2, <2>3, <2>4, <2>5, <2>6, <2>7, <2>8, <2>9 DEF Next
  <1> QED
    BY <1>1, <1>2, PTL DEF Spec

-----------------------------------------------------------------------------
(* One client                                                              *)

\* already_open lets one client in at a time.
THEOREM SessionOneClient == Spec => []OneClient
  <1>1. Init => OneClient
    BY DEF Init, OneClient
  <1>2. TypeOK /\ OneClient /\ [Next]_vars => OneClient'
    <2> SUFFICES ASSUME TypeOK, OneClient, [Next]_vars PROVE OneClient'
      OBVIOUS
    <2> USE DEF TypeOK, OneClient
    <2>1. ASSUME NEW c \in Client, OpenClaim(c) PROVE OneClient'
      BY <2>1 DEF OpenClaim
    <2>2. ASSUME NEW c \in Client, OpenRestart(c) PROVE OneClient'
      BY <2>2 DEF OpenRestart
    <2>3. ASSUME NEW c \in Client, Release(c) PROVE OneClient'
      BY <2>3 DEF Release, Calling
    <2>4. CASE UNCHANGED <<already_open, fd>>
      BY <2>4
    <2> QED
      BY <2>1, <2>2, <2>3, <2>4
      DEF Next, CreateDone, AddRecipePart, DelRecipePart, RestartRecipe,
          CreatePartitions, vars
  <1> QED
    BY <1>1, <1>2, SessionTypes, PTL DEF Spec

-----------------------------------------------------------------------------
(* The list and its counter                                                *)

\* The array that a create allocates has room for the list it copies.
THEOREM SessionCountCoversList == Spec => []CountCoversList
  <1>1. Init => CountCoversList
    BY DEF Init, CountCoversList, EmptyRecipe
  <1>2. TypeOK /\ CountCoversList /\ [Next]_vars => CountCoversList'
    <2> SUFFICES ASSUME TypeOK, CountCoversList, [Next]_vars PROVE CountCoversList'
      OBVIOUS
    <2> USE DEF TypeOK, CountCoversList, RecipeType
    <2>1. ASSUME NEW c \in Client, NEW req \in Requests, AddRecipePart(c, req)
          PROVE  CountCoversList'
      <3>1. req \in Request /\ Len(recipe.partitions) \in Nat
        BY SessionAssumption, LenProperties
      <3>2. Len(recipe'.partitions) = Len(recipe.partitions) + 1
        BY <2>1, <3>1, PartAddedProperties, AppendProperties DEF AddRecipePart
      <3> QED
        BY <2>1, <3>1, <3>2, PartAddedProperties DEF AddRecipePart
    <2>2. ASSUME NEW c \in Client, NEW index \in 0..MaxParts, DelRecipePart(c, index)
          PROVE  CountCoversList'
      <3>1. index \in Nat /\ Len(recipe.partitions) \in Nat
        BY SessionAssumption, LenProperties
      <3>2. Len(recipe'.partitions) = Len(recipe.partitions) - 1
        BY <2>2, <3>1, PartDeletedProperties, RemoveAtProperties DEF DelRecipePart
      <3> QED
        BY <2>2, <3>1, <3>2, PartDeletedProperties DEF DelRecipePart
    <2>3. CASE recipe' = EmptyRecipe
      BY <2>3 DEF EmptyRecipe
    <2>4. CASE UNCHANGED recipe
      BY <2>4
    <2> QED
      BY <2>1, <2>2, <2>3, <2>4
      DEF Next, CreateDone, OpenClaim, OpenRestart, Release, RestartRecipe,
          CreatePartitions, vars
  <1> QED
    BY <1>1, <1>2, SessionTypes, PTL DEF Spec

-----------------------------------------------------------------------------
(* The parts                                                               *)

\* Every part of a recipe is a range that verify_partition_basic_conditions
\* let pass.
THEOREM SessionPartsFit == Spec => []PartsFit
  <1>1. Init => PartsFit
    BY DEF Init, PartsFit, EmptyRecipe
  <1>2. TypeOK /\ PartsFit /\ [Next]_vars => PartsFit'
    <2> SUFFICES ASSUME TypeOK, PartsFit, [Next]_vars PROVE PartsFit'
      OBVIOUS
    <2>1. recipe \in RecipeType /\ RecipeFits(recipe)
      BY DEF TypeOK, RecipeType, PartsFit, RecipeFits
    <2>3. ASSUME NEW c \in Client, NEW req \in Requests, AddRecipePart(c, req)
          PROVE  PartsFit'
      <3>1. RecipeFits(PartAdded(recipe, req))
        BY <2>1, <2>3, SessionAssumption, PartAddedFits DEF AddRecipePart
      <3> QED
        BY <2>3, <3>1 DEF AddRecipePart, PartsFit, RecipeFits
    <2>4. ASSUME NEW c \in Client, NEW index \in 0..MaxParts, DelRecipePart(c, index)
          PROVE  PartsFit'
      <3>1. index \in Nat
        BY SessionAssumption
      <3>2. RecipeFits(PartDeleted(recipe, index))
        BY <2>1, <2>4, <3>1, PartDeletedFits DEF DelRecipePart
      <3> QED
        BY <2>4, <3>2 DEF DelRecipePart, PartsFit, RecipeFits
    <2>5. CASE recipe' = EmptyRecipe
      BY <2>5 DEF PartsFit, EmptyRecipe
    <2>6. CASE UNCHANGED recipe
      BY <2>6 DEF PartsFit
    <2> QED
      BY <2>3, <2>4, <2>5, <2>6
      DEF Next, CreateDone, OpenClaim, OpenRestart, Release, RestartRecipe,
          CreatePartitions, vars
  <1> QED
    BY <1>1, <1>2, SessionTypes, PTL DEF Spec

\* No byte of the device is in two parts of a recipe: with PartsFit, the ends
\* that existing_partition_contains_range computes have not wrapped.
THEOREM SessionPartsDisjoint == Spec => []PartsDisjoint
  <1>1. Init => PartsDisjoint
    BY DEF Init, PartsDisjoint, EmptyRecipe
  <1>2. TypeOK /\ PartsFit /\ PartsDisjoint /\ [Next]_vars => PartsDisjoint'
    <2> SUFFICES ASSUME TypeOK, PartsFit, PartsDisjoint, [Next]_vars PROVE PartsDisjoint'
      OBVIOUS
    <2> DEFINE s == recipe.partitions
               Covers(part) == Bytes(part.offset, part.length)
    <2>1. s \in Seq(RecipePart) /\ Len(s) \in Nat /\ DOMAIN s = 1..Len(s)
      BY LenProperties DEF TypeOK
    <2>2. \A i, j \in 1..Len(s) : i # j => Covers(s[i]) \intersect Covers(s[j]) = {}
      BY <2>1 DEF PartsDisjoint
    <2>3. ASSUME NEW c \in Client, NEW req \in Requests, AddRecipePart(c, req)
          PROVE  PartsDisjoint'
      <3>1. req \in Request /\ req.offset \in U64 /\ req.length \in U64
        BY SessionAssumption DEF Request
      <3>2. s' = Append(s, NewPart(req)) /\ NewPart(req) \in RecipePart
        BY <2>3, <3>1, PartAddedProperties DEF AddRecipePart, TypeOK, RecipeType
      <3>3. ASSUME NEW i \in 1..Len(s)
            PROVE  Covers(s[i]) \intersect Covers(NewPart(req)) = {}
        <4>1. /\ ~RangesOverlap(s[i], req.offset, req.length)
              /\ RangeFits(req.offset, req.length)
          BY <2>1, <2>3, <3>1, AcceptedFits
          DEF AddRecipePart, PartAccepted, OverlapsRecipe
        <4>2. s[i] \in RecipePart /\ RangeFits(s[i].offset, s[i].length)
          BY <2>1, ElementOfSeq DEF PartsFit
        <4>3. s[i].offset \in U64 /\ s[i].length \in U64
          BY <4>2 DEF RecipePart
        <4>4. ~RangesOverlap([offset |-> s[i].offset, length |-> s[i].length],
                             req.offset, req.length)
          BY <4>1 DEF RangesOverlap
        <4>5. Bytes(s[i].offset, s[i].length) \intersect Bytes(req.offset, req.length) = {}
          BY <3>1, <4>1, <4>2, <4>3, <4>4, OverlapIsSharedByte
        <4> QED
          BY <4>5 DEF NewPart
      <3>4. /\ DOMAIN s' = 1..(Len(s) + 1)
            /\ \A i \in 1..Len(s) : s'[i] = s[i]
            /\ s'[Len(s) + 1] = NewPart(req)
        BY <2>1, <3>2, AppendProperties, LenProperties
      <3>5. ASSUME NEW i \in 1..(Len(s) + 1), NEW j \in 1..(Len(s) + 1), i # j
            PROVE  Covers(s'[i]) \intersect Covers(s'[j]) = {}
        <4> HIDE DEF Covers
        <4>1. CASE i = Len(s) + 1
          <5>1. j \in 1..Len(s)
            BY <2>1, <3>5, <4>1
          <5> QED
            BY <5>1, <4>1, <3>3, <3>4
        <4>2. CASE j = Len(s) + 1
          <5>1. i \in 1..Len(s)
            BY <2>1, <3>5, <4>2
          <5> QED
            BY <5>1, <4>2, <3>3, <3>4
        <4>3. CASE i # Len(s) + 1 /\ j # Len(s) + 1
          <5>1. i \in 1..Len(s) /\ j \in 1..Len(s)
            BY <2>1, <4>3
          <5> QED
            BY <5>1, <3>4, <3>5, <2>2
        <4> QED
          BY <4>1, <4>2, <4>3
      <3> QED
        BY <3>4, <3>5 DEF PartsDisjoint
    <2>4. ASSUME NEW c \in Client, NEW index \in 0..MaxParts, DelRecipePart(c, index)
          PROVE  PartsDisjoint'
      <3>1. index \in Nat
        BY SessionAssumption
      <3>2. s' = RemoveAt(s, index + 1) /\ index + 1 \in 1..Len(s)
        BY <2>4, <3>1, PartDeletedProperties DEF DelRecipePart, TypeOK, RecipeType
      <3> DEFINE Old(k) == IF k < index + 1 THEN k ELSE k + 1
      <3>3. /\ DOMAIN s' = 1..(Len(s) - 1)
            /\ \A k \in 1..(Len(s) - 1) : s'[k] = s[Old(k)]
        <4>1. /\ RemoveAt(s, index + 1) \in Seq(RecipePart)
              /\ Len(RemoveAt(s, index + 1)) = Len(s) - 1
              /\ \A k \in 1..(Len(s) - 1) :
                   RemoveAt(s, index + 1)[k] = IF k < index + 1 THEN s[k] ELSE s[k + 1]
          BY <2>1, <3>2, RemoveAtProperties
        <4>2. DOMAIN RemoveAt(s, index + 1) = 1..(Len(s) - 1)
          BY <4>1, LenProperties
        <4>3. \A k \in 1..(Len(s) - 1) : RemoveAt(s, index + 1)[k] = s[Old(k)]
          BY <4>1
        <4> QED
          BY <3>2, <4>2, <4>3
      <3>4. \A k \in 1..(Len(s) - 1) : Old(k) \in 1..Len(s)
        BY <2>1, <3>1
      <3>5. \A i, j \in 1..(Len(s) - 1) : i # j => Old(i) # Old(j)
        BY <2>1, <3>1
      <3> HIDE DEF Old
      <3>6. ASSUME NEW i \in 1..(Len(s) - 1), NEW j \in 1..(Len(s) - 1), i # j
            PROVE  Covers(s'[i]) \intersect Covers(s'[j]) = {}
        <4> HIDE DEF Covers
        <4>1. /\ Old(i) \in 1..Len(s) /\ Old(j) \in 1..Len(s) /\ Old(i) # Old(j)
              /\ s'[i] = s[Old(i)] /\ s'[j] = s[Old(j)]
          BY <3>3, <3>4, <3>5, <3>6
        <4>2. Covers(s[Old(i)]) \intersect Covers(s[Old(j)]) = {}
          BY <2>2, <4>1
        <4> QED
          BY <4>1, <4>2
      <3> QED
        BY <3>3, <3>6 DEF PartsDisjoint
    <2>5. CASE recipe' = EmptyRecipe
      BY <2>5 DEF PartsDisjoint, EmptyRecipe
    <2>6. CASE UNCHANGED recipe
      BY <2>6 DEF PartsDisjoint
    <2> QED
      BY <2>3, <2>4, <2>5, <2>6
      DEF Next, CreateDone, OpenClaim, OpenRestart, Release, RestartRecipe,
          CreatePartitions, vars
  <1> QED
    BY <1>1, <1>2, SessionTypes, SessionPartsFit, PTL DEF Spec

-----------------------------------------------------------------------------
(* What a create hands over                                                *)

\* Every part is converted, none is left to the zeroed rest of the array, the
\* rest is zeroed, and nothing but a create fills it.
THEOREM CreateHandsOver == Spec => CreateHandsOverPlan
  <1> DEFINE Shown == Listed(recipe, Len(recipe.partitions))
             Handed == array = <<>> /\ array' # <<>> =>
                         LET shown == Listed(recipe, Len(recipe.partitions))
                         IN  /\ \A i \in DOMAIN shown :
                                  array'[i] = [named |-> TRUE,
                                               offset |-> shown[i].offset,
                                               size |-> shown[i].length,
                                               mask_writeable |-> shown[i].readonly,
                                               add_powerup_lock |->
                                                 shown[i].powerup_lock_enabled]
                             /\ \A i \in DOMAIN array' \ DOMAIN shown : ~array'[i].named
  <1>1. ASSUME TypeOK, CountCoversList, [Next]_vars, array = <<>>, array' # <<>>
        PROVE  array' = Converted(recipe)
    BY <1>1
    DEF Next, CreateDone, OpenClaim, OpenRestart, Release, AddRecipePart, DelRecipePart,
        RestartRecipe, CreatePartitions, vars
  <1>2. ASSUME TypeOK, CountCoversList, NEW i \in DOMAIN Shown
        PROVE  Converted(recipe)[i] = [named |-> TRUE,
                                       offset |-> Shown[i].offset,
                                       size |-> Shown[i].length,
                                       mask_writeable |-> Shown[i].readonly,
                                       add_powerup_lock |-> Shown[i].powerup_lock_enabled]
    <2>1. recipe \in RecipeType /\ recipe.parts_count \in Nat
      BY <1>2 DEF TypeOK, RecipeType
    <2>2. /\ DOMAIN Shown = 1..Len(recipe.partitions)
          /\ Shown[i] = AsListed(recipe.partitions[i])
      BY <2>1, ListedProperties, LenProperties
    <2>3. i \in DOMAIN recipe.partitions /\ i \in 1..recipe.parts_count
      BY <1>2, <2>1, <2>2, LenProperties DEF CountCoversList, RecipeType
    <2>4. Converted(recipe)[i] = AsMtdPartition(recipe.partitions[i])
      BY <2>3 DEF Converted
    <2> HIDE DEF Shown
    <2> QED
      BY <2>2, <2>4 DEF AsMtdPartition, AsListed
  <1>3. ASSUME TypeOK, NEW i \in DOMAIN Converted(recipe) \ DOMAIN Shown
        PROVE  ~Converted(recipe)[i].named
    <2>1. recipe \in RecipeType
      BY <1>3 DEF TypeOK, RecipeType
    <2>2. DOMAIN Shown = 1..Len(recipe.partitions)
      BY <2>1, ListedProperties, LenProperties
    <2>3. i \notin DOMAIN recipe.partitions /\ i \in 1..recipe.parts_count
      BY <1>3, <2>1, <2>2, LenProperties DEF Converted, RecipeType
    <2>4. Converted(recipe)[i] = ZeroedPartition
      BY <2>3 DEF Converted
    <2> QED
      BY <2>4 DEF ZeroedPartition
  <1>4. TypeOK /\ CountCoversList /\ [Next]_vars => [Handed]_vars
    <2> SUFFICES ASSUME TypeOK, CountCoversList, [Next]_vars PROVE Handed
      OBVIOUS
    <2> HIDE DEF Shown
    <2>1. CASE array = <<>> /\ array' # <<>>
      BY <1>1, <1>2, <1>3, <2>1 DEF Shown
    <2> QED
      BY <2>1
  <1> QED
    BY <1>4, SessionTypes, SessionCountCoversList, PTL DEF Spec, CreateHandsOverPlan, Handed

-----------------------------------------------------------------------------
(* The plan                                                                *)

\* A client that has the device open is the owner, and without one there is
\* none.
LEMMA OwnerIsOpen ==
  ASSUME OneClient, NEW c \in Client
  PROVE  /\ fd[c] = "open" => Owner = c
         /\ (\A d \in Client : fd[d] # "open") => Owner = Nobody
  BY DEF Owner, OneClient

\* The same after a step.
LEMMA OwnerIsOpenAfter ==
  ASSUME OneClient', NEW c \in Client
  PROVE  /\ fd'[c] = "open" => Owner' = c
         /\ (\A d \in Client : fd'[d] # "open") => Owner' = Nobody
  BY DEF Owner, OneClient

\* An accepted request shares no byte with any that the plan holds.
LEMMA AcceptedIsDisjoint ==
  ASSUME TypeOK, PartsFit, NEW req \in Request, PartAccepted(recipe, req),
         NEW i \in DOMAIN Listed(recipe, Len(recipe.partitions))
  PROVE  Plan!Disjoint(Listed(recipe, Len(recipe.partitions))[i], req)
  <1> DEFINE s == recipe.partitions
             shown == Listed(recipe, Len(recipe.partitions))
  <1>1. s \in Seq(RecipePart) /\ Len(s) \in Nat /\ DOMAIN s = 1..Len(s)
    BY LenProperties DEF TypeOK
  <1>2. i \in 1..Len(s) /\ shown[i] = AsListed(s[i])
    BY ListedProperties, LenProperties DEF TypeOK, RecipeType
  <1>3. req.offset \in U64 /\ req.length \in U64
    BY DEF Request
  <1>4. ~RangesOverlap(s[i], req.offset, req.length) /\ RangeFits(req.offset, req.length)
    BY <1>1, <1>2, <1>3, AcceptedFits DEF PartAccepted, OverlapsRecipe
  <1>5. s[i] \in RecipePart /\ RangeFits(s[i].offset, s[i].length)
    BY <1>1, <1>2, ElementOfSeq DEF PartsFit
  <1>6. s[i].offset \in U64 /\ s[i].length \in U64
    BY <1>5 DEF RecipePart
  <1>7. ~RangesOverlap([offset |-> s[i].offset, length |-> s[i].length],
                       req.offset, req.length)
    BY <1>4 DEF RangesOverlap
  <1>8. Bytes(s[i].offset, s[i].length) \intersect Bytes(req.offset, req.length) = {}
    BY <1>3, <1>4, <1>5, <1>6, <1>7, OverlapIsSharedByte
  <1>9. shown[i].offset = s[i].offset /\ shown[i].length = s[i].length
    BY <1>2 DEF AsListed
  <1> HIDE DEF s, shown
  <1>10. Bytes(shown[i].offset, shown[i].length) \intersect Bytes(req.offset, req.length) = {}
    BY <1>8, <1>9
  <1> QED
    BY <1>10 DEF shown, Plan!Disjoint, Plan!Bytes, Bytes

\* The recipe, as it is listed to the client that has the device open, is the
\* plan of that client: every add, delete and restart of the recipe is a step of
\* RecipePlan, and no other call changes it.
THEOREM SessionImplementsPlan == Spec => ImplementsPlan
  <1> DEFINE shown == Listed(recipe, Len(recipe.partitions))
  <1>1. Listed(EmptyRecipe, Len(EmptyRecipe.partitions)) = <<>>
    <2>1. /\ Listed(EmptyRecipe, Len(EmptyRecipe.partitions)) \in Seq(Request)
          /\ Len(Listed(EmptyRecipe, Len(EmptyRecipe.partitions)))
             = Len(EmptyRecipe.partitions)
      BY EmptyRecipeType, ListedProperties
    <2>2. Len(EmptyRecipe.partitions) = 0
      BY DEF EmptyRecipe
    <2> QED
      BY <2>1, <2>2, EmptySeq
  <1>2. Init => Plan!Init
    <2> SUFFICES ASSUME Init PROVE Plan!Init
      OBVIOUS
    <2>1. shown = <<>>
      BY <1>1 DEF Init
    <2>2. Owner = Nobody
      BY DEF Init, Owner
    <2> QED
      BY <2>1, <2>2 DEF Plan!Init
  <1>3. /\ TypeOK /\ OneClient /\ PartsFit /\ TypeOK' /\ OneClient'
        /\ [Next]_vars
        => [Plan!Next]_(Plan!planVars)
    <2> SUFFICES ASSUME TypeOK, OneClient, PartsFit, OneClient', [Next]_vars
                 PROVE  [Plan!Next]_<<Owner, shown>>
      BY DEF Plan!planVars
    <2>1. ASSUME NEW c \in Client, OpenClaim(c) PROVE UNCHANGED <<Owner, shown>>
      <3>1. \A d \in Client : fd[d] # "open" /\ fd'[d] # "open"
        BY <2>1 DEF OpenClaim, OneClient, TypeOK
      <3>2. Owner = Nobody /\ Owner' = Nobody
        BY <3>1, OwnerIsOpen, OwnerIsOpenAfter
      <3> QED
        BY <2>1, <3>2 DEF OpenClaim
    <2>2. ASSUME NEW c \in Client, OpenRestart(c) PROVE Plan!TakeOver(c)
      <3>1. (\A d \in Client : fd[d] # "open") /\ fd'[c] = "open"
        BY <2>2 DEF OpenRestart, OneClient, TypeOK
      <3>2. Owner = Nobody /\ Owner' = c
        BY <3>1, OwnerIsOpen, OwnerIsOpenAfter
      <3>3. shown' = <<>>
        BY <2>2, <1>1 DEF OpenRestart
      <3> QED
        BY <3>2, <3>3 DEF Plan!TakeOver
    <2>3. ASSUME NEW c \in Client, Release(c) PROVE Plan!Leave(c)
      <3>1. fd[c] = "open" /\ \A d \in Client : fd'[d] # "open"
        BY <2>3 DEF Release, OneClient, TypeOK
      <3>2. Owner = c /\ Owner' = Nobody
        BY <3>1, OwnerIsOpen, OwnerIsOpenAfter
      <3> QED
        BY <2>3, <3>2 DEF Release, Plan!Leave
    <2>4. ASSUME NEW c \in Client, fd[c] = "open", fd' = fd
          PROVE  Owner = c /\ Owner' = c
      BY <2>4, OwnerIsOpen, OwnerIsOpenAfter
    <2>5. ASSUME NEW c \in Client, NEW req \in Requests, AddRecipePart(c, req)
          PROVE  Plan!Add(c, req)
      <3>1. /\ req \in Request /\ req.offset \in U64 /\ req.length \in U64
            /\ PartAccepted(recipe, req)
        BY <2>5, SessionAssumption DEF AddRecipePart, Request
      <3>2. Owner = c /\ Owner' = c
        BY <2>4, <2>5 DEF AddRecipePart, Calling
      <3>3. RangeFits(req.offset, req.length)
        BY <3>1, AcceptedFits DEF PartAccepted
      <3>4. \A i \in DOMAIN shown : Plan!Disjoint(shown[i], req)
        BY <3>1, AcceptedIsDisjoint
      <3>5. shown' = Append(shown, req)
        BY <2>5, <3>1, ListedAdded DEF AddRecipePart, TypeOK, RecipeType
      <3> HIDE DEF shown
      <3> QED
        BY <3>2, <3>3, <3>4, <3>5
        DEF shown, Plan!Add, Plan!RangeFits, RangeFits, Plan!Bytes, Bytes
    <2>6. ASSUME NEW c \in Client, NEW index \in 0..MaxParts, DelRecipePart(c, index)
          PROVE  \E i \in DOMAIN shown : Plan!TakeBack(c, i)
      <3>1. index \in Nat /\ PartExists(recipe, index) /\ recipe \in RecipeType
        BY <2>6, SessionAssumption DEF DelRecipePart, TypeOK, RecipeType
      <3>2. Owner = c /\ Owner' = c
        BY <2>4, <2>6 DEF DelRecipePart, Calling
      <3>3. shown' = RemoveAt(shown, index + 1)
        BY <2>6, <3>1, ListedDeleted DEF DelRecipePart
      <3>4. index + 1 \in DOMAIN shown
        BY <3>1, PartDeletedProperties, ListedProperties, LenProperties
      <3> HIDE DEF shown
      <3>5. Plan!TakeBack(c, index + 1)
        BY <3>2, <3>3 DEF shown, Plan!TakeBack, Plan!RemoveAt, RemoveAt
      <3> QED
        BY <3>4, <3>5
    <2>7. ASSUME NEW c \in Client, RestartRecipe(c) PROVE Plan!Clear(c)
      <3>1. Owner = c /\ Owner' = c
        BY <2>4, <2>7 DEF RestartRecipe, Calling
      <3>2. shown' = <<>>
        BY <2>7, <1>1 DEF RestartRecipe
      <3> QED
        BY <3>1, <3>2 DEF Plan!Clear
    <2>8. CASE UNCHANGED <<fd, recipe>>
      BY <2>8 DEF Owner
    <2>9. CASE \E c \in Client : CreatePartitions(c)
      BY <2>8, <2>9 DEF CreatePartitions
    <2>10. CASE CreateDone
      BY <2>8, <2>10 DEF CreateDone
    <2>11. CASE UNCHANGED vars
      BY <2>8, <2>11 DEF vars
    <2> HIDE DEF shown
    <2> QED
      BY <2>1, <2>2, <2>3, <2>5, <2>6, <2>7, <2>9, <2>10, <2>11
      DEF Next, Plan!Next, shown
  <1> QED
    BY <1>2, <1>3, SessionTypes, SessionOneClient, SessionPartsFit, PTL
    DEF Spec, Plan!Spec, ImplementsPlan

-----------------------------------------------------------------------------
(* What is refused                                                         *)

\* No part of the recipe has a byte that the request asks for.
Free(req) ==
  \A i \in DOMAIN recipe.partitions :
    Bytes(recipe.partitions[i].offset, recipe.partitions[i].length)
      \intersect Bytes(req.offset, req.length) = {}

AcceptedWhenPossible ==
  \A req \in Request :
    PartAccepted(recipe, req) <=> RangeFits(req.offset, req.length) /\ Free(req)

\* verify_partition_params_locked refuses a request only when it has to: one that
\* lies on whole erase blocks inside the device and shares no byte with a part of
\* the recipe is accepted, and no other is.
THEOREM AcceptedExactly == Spec => []AcceptedWhenPossible
  <1> DEFINE s == recipe.partitions
  <1>1. ASSUME TypeOK, PartsFit, NEW req \in Request
        PROVE  PartAccepted(recipe, req) <=> RangeFits(req.offset, req.length) /\ Free(req)
    <2>1. /\ req.offset \in U64 /\ req.length \in U64
          /\ s \in Seq(RecipePart) /\ Len(s) \in Nat /\ DOMAIN s = 1..Len(s)
      BY <1>1, LenProperties DEF Request, TypeOK
    <2>2. BasicConditionsHold(req.offset, req.length) <=> RangeFits(req.offset, req.length)
      BY <2>1, AcceptedFits, AcceptedIfFits
    <2>3. ASSUME RangeFits(req.offset, req.length), NEW i \in DOMAIN s
          PROVE  RangesOverlap(s[i], req.offset, req.length) <=>
                 Bytes(s[i].offset, s[i].length) \intersect Bytes(req.offset, req.length) # {}
      <3>1. s[i] \in RecipePart /\ RangeFits(s[i].offset, s[i].length)
        BY <1>1, <2>1, ElementOfSeq DEF PartsFit
      <3>2. s[i].offset \in U64 /\ s[i].length \in U64
        BY <3>1 DEF RecipePart
      <3> DEFINE part == [offset |-> s[i].offset, length |-> s[i].length]
      <3>3. /\ part \in [offset : U64, length : U64]
            /\ part.offset = s[i].offset /\ part.length = s[i].length
        BY <3>2
      <3> HIDE DEF part
      <3>4. RangesOverlap(part, req.offset, req.length) <=>
            Bytes(part.offset, part.length) \intersect Bytes(req.offset, req.length) # {}
        BY <2>1, <2>3, <3>1, <3>3, OverlapIsSharedByte
      <3> QED
        BY <3>3, <3>4 DEF RangesOverlap
    <2>4. ASSUME RangeFits(req.offset, req.length)
          PROVE  ~OverlapsRecipe(recipe, req) <=> Free(req)
      BY <2>3, <2>4 DEF OverlapsRecipe, Free
    <2> QED
      BY <2>2, <2>4 DEF PartAccepted
  <1>2. TypeOK /\ PartsFit => AcceptedWhenPossible
    BY <1>1 DEF AcceptedWhenPossible
  <1> QED
    BY <1>2, SessionTypes, SessionPartsFit, PTL
=============================================================================
