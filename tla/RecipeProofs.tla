---------------------------- MODULE RecipeProofs ----------------------------
(***************************************************************************)
(* What adding, deleting and converting do to a recipe, for recipes of     *)
(* every length.                                                           *)
(***************************************************************************)
EXTENDS Recipe, PartitionRangeProofs, SequenceTheorems

-----------------------------------------------------------------------------
(* What the operators of SequencesExt that the models use return           *)

\* Removing the i-th element moves the ones behind it up by one.
LEMMA RemoveAtProperties ==
  ASSUME NEW S, NEW s \in Seq(S), NEW i \in 1..Len(s)
  PROVE  /\ RemoveAt(s, i) \in Seq(S)
         /\ Len(RemoveAt(s, i)) = Len(s) - 1
         /\ \A k \in 1..(Len(s) - 1) : RemoveAt(s, i)[k] = IF k < i THEN s[k] ELSE s[k + 1]
  <1> DEFINE a == SubSeq(s, 1, i - 1)
             b == SubSeq(s, i + 1, Len(s))
  <1>1. /\ a \in Seq(S) /\ Len(a) = i - 1
        /\ \A k \in 1..(i - 1) : a[k] = s[k]
    BY SMT
  <1>2. /\ b \in Seq(S) /\ Len(b) = Len(s) - i
        /\ \A k \in 1..(Len(s) - i) : b[k] = s[i + k]
    BY SMT
  <1>3. RemoveAt(s, i) = a \o b
    BY DEF RemoveAt
  <1> HIDE DEF a, b
  <1>4. /\ a \o b \in Seq(S)
        /\ Len(a \o b) = Len(a) + Len(b)
        /\ \A k \in 1..(Len(a) + Len(b)) :
             (a \o b)[k] = IF k <= Len(a) THEN a[k] ELSE b[k - Len(a)]
    BY <1>1, <1>2, ConcatProperties
  <1>5. /\ Len(a \o b) = Len(s) - 1
        /\ \A k \in 1..(Len(s) - 1) :
             (a \o b)[k] = IF k < i THEN a[k] ELSE b[k - (i - 1)]
    BY <1>1, <1>2, <1>4
  <1>6. \A k \in 1..(Len(s) - 1) : (a \o b)[k] = IF k < i THEN s[k] ELSE s[k + 1]
    <2> TAKE k \in 1..(Len(s) - 1)
    <2>1. CASE k < i
      BY <2>1, <1>1, <1>5
    <2>2. CASE ~(k < i)
      <3>1. k - (i - 1) \in 1..(Len(s) - i) /\ i + (k - (i - 1)) = k + 1
        BY <2>2
      <3> QED
        BY <2>2, <3>1, <1>2, <1>5
    <2> QED
      BY <2>1, <2>2
  <1> QED
    BY <1>3, <1>4, <1>5, <1>6

\* Front leaves out the last element.
LEMMA FrontProperties ==
  ASSUME NEW S, NEW s \in Seq(S), s # <<>>
  PROVE  /\ Front(s) \in Seq(S)
         /\ Len(Front(s)) = Len(s) - 1
         /\ \A k \in 1..(Len(s) - 1) : Front(s)[k] = s[k]
  <1>1. Len(s) \in Nat \ {0} /\ \A k \in 1..(Len(s) - 1) : s[k] \in S
    BY EmptySeq, LenProperties
  <1>2. Len(s) - 1 \in Int /\ 1 \in Int
    BY <1>1
  <1> DEFINE f == SubSeq(s, 1, Len(s) - 1)
  <1>3. /\ f \in Seq(S)
        /\ Len(f) = IF 1 <= Len(s) - 1 THEN Len(s) - 1 - 1 + 1 ELSE 0
        /\ \A k \in 1..(Len(s) - 1 - 1 + 1) : f[k] = s[1 + k - 1]
    BY <1>1, <1>2, SubSeqProperties
  <1>4. f = Front(s)
    BY DEF Front
  <1> HIDE DEF f
  <1>5. Len(f) = Len(s) - 1
    <2>1. Len(f) = IF 1 <= Len(s) - 1 THEN Len(s) - 1 - 1 + 1 ELSE 0
      BY <1>3
    <2>2. ASSUME NEW n \in Nat \ {0} PROVE (IF 1 <= n - 1 THEN n - 1 - 1 + 1 ELSE 0) = n - 1
      OBVIOUS
    <2> QED
      BY <1>1, <2>1, <2>2
  <1>6. ASSUME NEW k \in 1..(Len(s) - 1) PROVE f[k] = s[k]
    <2>1. k \in 1..(Len(s) - 1 - 1 + 1) /\ 1 + k - 1 = k
      BY <1>1
    <2> QED
      BY <1>3, <2>1
  <1> QED
    BY <1>3, <1>4, <1>5, <1>6

-----------------------------------------------------------------------------
(* The recipe                                                              *)

RecipeType == [partitions : Seq(RecipePart), parts_count : Nat]

\* Every part of recipe r lies on whole erase blocks inside the device.
RecipeFits(r) ==
  \A i \in DOMAIN r.partitions : RangeFits(r.partitions[i].offset, r.partitions[i].length)

-----------------------------------------------------------------------------
(* Types and lengths                                                       *)

\* add_recipe_part appends one part and counts it.
LEMMA PartAddedProperties ==
  ASSUME NEW r \in RecipeType,
         NEW req \in Request
  PROVE  /\ PartAdded(r, req) \in RecipeType
         /\ NewPart(req) \in RecipePart
         /\ PartAdded(r, req).partitions = Append(r.partitions, NewPart(req))
         /\ PartAdded(r, req).parts_count = r.parts_count + 1
  <1>1. NewPart(req) \in RecipePart
    BY DEF NewPart, RecipePart, Request
  <1>2. Append(r.partitions, NewPart(req)) \in Seq(RecipePart)
    BY <1>1, AppendProperties DEF RecipeType
  <1> QED
    BY <1>1, <1>2 DEF PartAdded, RecipeType

\* del_recipe_part takes one part out and leaves parts_count as it was.
LEMMA PartDeletedProperties ==
  ASSUME NEW r \in RecipeType,
         NEW index \in Nat, PartExists(r, index)
  PROVE  /\ PartDeleted(r, index) \in RecipeType
         /\ PartDeleted(r, index).partitions = RemoveAt(r.partitions, index + 1)
         /\ PartDeleted(r, index).parts_count = r.parts_count
         /\ index + 1 \in 1..Len(r.partitions)
  <1>1. Len(r.partitions) \in Nat
    BY LenProperties DEF RecipeType
  <1>2. index + 1 \in 1..Len(r.partitions)
    BY <1>1 DEF PartExists
  <1>3. RemoveAt(r.partitions, index + 1) \in Seq(RecipePart)
    BY <1>2, RemoveAtProperties DEF RecipeType
  <1> QED
    BY <1>2, <1>3 DEF PartDeleted, RecipeType

\* restart_recipe leaves a recipe.
LEMMA EmptyRecipeType == EmptyRecipe \in RecipeType
  BY EmptySeq DEF EmptyRecipe, RecipeType

\* convert_recipe_to_mtd_partitions_locked fills an array of mtd_partition.
LEMMA ConvertedType ==
  ASSUME NEW r \in RecipeType
  PROVE  Converted(r) \in Seq(MtdPartition)
  <1>1. ZeroedPartition \in MtdPartition
    BY RangeAssumption DEF ZeroedPartition, MtdPartition, U64
  <1>2. ASSUME NEW part \in RecipePart PROVE AsMtdPartition(part) \in MtdPartition
    BY DEF AsMtdPartition, MtdPartition, RecipePart
  <1>3. ASSUME NEW i \in DOMAIN r.partitions PROVE r.partitions[i] \in RecipePart
    BY ElementOfSeq, LenProperties DEF RecipeType
  <1>4. Converted(r) \in [1..r.parts_count -> MtdPartition]
    BY <1>1, <1>2, <1>3 DEF Converted, RecipeType
  <1>5. r.parts_count \in Nat
    BY DEF RecipeType
  <1> QED
    BY <1>4, <1>5, IsASeq

-----------------------------------------------------------------------------
(* Ranges                                                                  *)

\* verify_partition_basic_conditions keeps a recipe inside the device.
LEMMA PartAddedFits ==
  ASSUME NEW r \in RecipeType, RecipeFits(r), NEW req \in Request, PartAccepted(r, req)
  PROVE  RecipeFits(PartAdded(r, req))
  <1> DEFINE s == r.partitions
             t == PartAdded(r, req).partitions
  <1>1. s \in Seq(RecipePart) /\ Len(s) \in Nat /\ DOMAIN s = 1..Len(s)
    BY LenProperties DEF RecipeType
  <1>2. t = Append(s, NewPart(req)) /\ NewPart(req) \in RecipePart
    BY PartAddedProperties
  <1>3. RangeFits(NewPart(req).offset, NewPart(req).length)
    BY AcceptedFits DEF PartAccepted, NewPart, Request
  <1>4. /\ DOMAIN t = 1..(Len(s) + 1)
        /\ \A i \in 1..Len(s) : t[i] = s[i]
        /\ t[Len(s) + 1] = NewPart(req)
    BY <1>1, <1>2, AppendProperties, LenProperties
  <1>5. ASSUME NEW i \in 1..(Len(s) + 1) PROVE RangeFits(t[i].offset, t[i].length)
    <2>1. CASE i = Len(s) + 1
      BY <1>3, <1>4, <2>1
    <2>2. CASE i # Len(s) + 1
      <3>1. i \in 1..Len(s)
        BY <1>1, <2>2
      <3> QED
        BY <3>1, <1>1, <1>4 DEF RecipeFits
    <2> QED
      BY <2>1, <2>2
  <1> QED
    BY <1>4, <1>5 DEF RecipeFits

\* A part that is deleted takes no other part out of the device.
LEMMA PartDeletedFits ==
  ASSUME NEW r \in RecipeType, RecipeFits(r), NEW index \in Nat, PartExists(r, index)
  PROVE  RecipeFits(PartDeleted(r, index))
  <1> DEFINE s == r.partitions
             t == PartDeleted(r, index).partitions
  <1>1. s \in Seq(RecipePart) /\ Len(s) \in Nat /\ DOMAIN s = 1..Len(s)
    BY LenProperties DEF RecipeType
  <1>2. t = RemoveAt(s, index + 1) /\ index + 1 \in 1..Len(s)
    BY PartDeletedProperties
  <1>3. /\ t \in Seq(RecipePart) /\ Len(t) = Len(s) - 1
        /\ \A k \in 1..(Len(s) - 1) : t[k] = IF k < index + 1 THEN s[k] ELSE s[k + 1]
    BY <1>1, <1>2, RemoveAtProperties
  <1>4. DOMAIN t = 1..(Len(s) - 1)
    BY <1>3, LenProperties
  <1>5. \A k \in 1..(Len(s) - 1) : k \in 1..Len(s) /\ k + 1 \in 1..Len(s)
    BY <1>1
  <1> HIDE DEF t
  <1> QED
    BY <1>1, <1>3, <1>4, <1>5 DEF RecipeFits, t

\* The elements of the array that have a name are parts of the recipe.
LEMMA ConvertedFits ==
  ASSUME NEW r \in RecipeType, RecipeFits(r), NEW i \in DOMAIN Converted(r),
         Converted(r)[i].named
  PROVE  RangeFits(Converted(r)[i].offset, Converted(r)[i].size)
  <1>1. i \in DOMAIN r.partitions
    BY DEF Converted, ZeroedPartition
  <1>2. Converted(r)[i] = AsMtdPartition(r.partitions[i])
    BY <1>1 DEF Converted
  <1> QED
    BY <1>1, <1>2 DEF AsMtdPartition, RecipeFits

-----------------------------------------------------------------------------
(* The listing                                                             *)

\* copy_recipe_parts_list_to_user shows every part as the request it came from.
LEMMA ListedProperties ==
  ASSUME NEW r \in RecipeType
  PROVE  /\ Listed(r, Len(r.partitions)) \in Seq(Request)
         /\ Len(Listed(r, Len(r.partitions))) = Len(r.partitions)
         /\ \A i \in 1..Len(r.partitions) :
              Listed(r, Len(r.partitions))[i] = AsListed(r.partitions[i])
  <1> DEFINE n == Len(r.partitions)
  <1>1. n \in Nat /\ \A i \in 1..n : r.partitions[i] \in RecipePart
    BY ElementOfSeq, LenProperties DEF RecipeType
  <1>2. \A part \in RecipePart : AsListed(part) \in Request
    BY DEF AsListed, RecipePart, Request
  <1>3. Listed(r, n) = [i \in 1..n |-> AsListed(r.partitions[i])]
    BY DEF Listed
  <1>4. Listed(r, n) \in [1..n -> Request]
    BY <1>1, <1>2, <1>3
  <1>5. Listed(r, n) \in Seq(Request)
    BY <1>1, <1>4, IsASeq
  <1>6. Len(Listed(r, n)) = n
    BY <1>1, <1>4, <1>5, LenProperties
  <1> QED
    BY <1>3, <1>5, <1>6

\* A part that is added is listed last, as it was requested.
LEMMA ListedAdded ==
  ASSUME NEW r \in RecipeType, NEW req \in Request
  PROVE  LET added == PartAdded(r, req)
         IN  Listed(added, Len(added.partitions)) = Append(Listed(r, Len(r.partitions)), req)
  <1> DEFINE n == Len(r.partitions)
             added == PartAdded(r, req)
             before == Listed(r, n)
             after == Listed(added, Len(added.partitions))
  <1>1. /\ n \in Nat
        /\ Len(added.partitions) = n + 1
        /\ \A i \in 1..n : added.partitions[i] = r.partitions[i]
        /\ added.partitions[n + 1] = NewPart(req)
    <2>1. /\ added.partitions = Append(r.partitions, NewPart(req))
          /\ NewPart(req) \in RecipePart /\ r.partitions \in Seq(RecipePart)
      BY PartAddedProperties DEF RecipeType
    <2> QED
      BY <2>1, AppendProperties, LenProperties
  <1>2. /\ before \in Seq(Request) /\ Len(before) = n
        /\ \A i \in 1..n : before[i] = AsListed(r.partitions[i])
    BY ListedProperties
  <1>3. /\ after \in Seq(Request) /\ Len(after) = n + 1
        /\ \A i \in 1..(n + 1) : after[i] = AsListed(added.partitions[i])
    BY <1>1, PartAddedProperties, ListedProperties
  <1>4. AsListed(NewPart(req)) = req
    BY DEF AsListed, NewPart, Request
  <1> HIDE DEF n, added, before, after
  <1>5. /\ Append(before, req) \in Seq(Request) /\ Len(Append(before, req)) = n + 1
        /\ \A i \in 1..n : Append(before, req)[i] = before[i]
        /\ Append(before, req)[n + 1] = req
    BY <1>2, AppendProperties
  <1>6. ASSUME NEW i \in 1..(n + 1) PROVE after[i] = Append(before, req)[i]
    <2>1. CASE i = n + 1
      BY <1>1, <1>3, <1>4, <1>5, <2>1
    <2>2. CASE i # n + 1
      <3>1. i \in 1..n
        BY <1>1, <2>2
      <3> QED
        BY <1>1, <1>2, <1>3, <1>5, <3>1
    <2> QED
      BY <2>1, <2>2
  <1>7. after = Append(before, req)
    BY <1>3, <1>5, <1>6, SeqEqual
  <1> QED
    BY <1>7 DEF n, added, before, after

\* A part that is deleted leaves the listing where it stood.
LEMMA ListedDeleted ==
  ASSUME NEW r \in RecipeType, NEW index \in Nat, PartExists(r, index)
  PROVE  LET deleted == PartDeleted(r, index)
         IN  Listed(deleted, Len(deleted.partitions)) =
             RemoveAt(Listed(r, Len(r.partitions)), index + 1)
  <1> DEFINE n == Len(r.partitions)
             deleted == PartDeleted(r, index)
             before == Listed(r, n)
             after == Listed(deleted, Len(deleted.partitions))
  <1>1. n \in Nat /\ index + 1 \in 1..n /\ r.partitions \in Seq(RecipePart)
    BY PartDeletedProperties, LenProperties DEF RecipeType
  <1>2. /\ Len(deleted.partitions) = n - 1
        /\ \A k \in 1..(n - 1) :
             deleted.partitions[k] =
               IF k < index + 1 THEN r.partitions[k] ELSE r.partitions[k + 1]
    <2>1. deleted.partitions = RemoveAt(r.partitions, index + 1)
      BY PartDeletedProperties
    <2> QED
      BY <1>1, <2>1, RemoveAtProperties
  <1>3. /\ before \in Seq(Request) /\ Len(before) = n
        /\ \A i \in 1..n : before[i] = AsListed(r.partitions[i])
    BY ListedProperties
  <1>4. /\ after \in Seq(Request) /\ Len(after) = n - 1
        /\ \A i \in 1..(n - 1) : after[i] = AsListed(deleted.partitions[i])
    BY <1>2, PartDeletedProperties, ListedProperties
  <1> HIDE DEF n, deleted, before, after
  <1>5. /\ RemoveAt(before, index + 1) \in Seq(Request)
        /\ Len(RemoveAt(before, index + 1)) = n - 1
        /\ \A k \in 1..(n - 1) : RemoveAt(before, index + 1)[k] =
                                   IF k < index + 1 THEN before[k] ELSE before[k + 1]
    BY <1>1, <1>3, RemoveAtProperties
  <1>6. ASSUME NEW k \in 1..(n - 1) PROVE after[k] = RemoveAt(before, index + 1)[k]
    <2>1. k \in 1..n /\ k + 1 \in 1..n
      BY <1>1
    <2>2. CASE k < index + 1
      BY <1>2, <1>3, <1>4, <1>5, <2>1, <2>2
    <2>3. CASE ~(k < index + 1)
      BY <1>2, <1>3, <1>4, <1>5, <2>1, <2>3
    <2> QED
      BY <2>2, <2>3
  <1>7. after = RemoveAt(before, index + 1)
    BY <1>4, <1>5, <1>6, SeqEqual
  <1> QED
    BY <1>7 DEF n, deleted, before, after
=============================================================================
