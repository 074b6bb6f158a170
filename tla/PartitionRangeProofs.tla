------------------------ MODULE PartitionRangeProofs ------------------------
(***************************************************************************)
(* The arithmetic of the control device is right for every size of u64, of *)
(* the device and of its erase blocks.                                     *)
(***************************************************************************)
EXTENDS PartitionRange, TLAPS

\* A sum that does not overflow is the sum.
LEMMA WrapSmall == ASSUME NEW n \in 0..U64Max PROVE Wrap(n) = n
  BY RangeAssumption DEF Wrap

\* verify_partition_basic_conditions lets only ranges pass that lie on whole
\* erase blocks inside the device.
THEOREM AcceptedFits ==
  ASSUME NEW o \in U64, NEW l \in U64, BasicConditionsHold(o, l)
  PROVE  RangeFits(o, l)
  <1>1. o + l \in 0..U64Max
    BY RangeAssumption DEF BasicConditionsHold, AddOverflows, U64
  <1>2. o + l <= MtdSize
    BY <1>1, WrapSmall DEF BasicConditionsHold
  <1>3. \A b \in Bytes(o, l) : b \in 0..(MtdSize - 1)
    BY <1>2, RangeAssumption DEF Bytes, U64
  <1> QED
    BY <1>3, RangeAssumption DEF RangeFits, BasicConditionsHold, U64

\* The end of a range that fits is an offset of the device.
LEMMA FittingEnd ==
  ASSUME NEW o \in U64, NEW l \in U64, RangeFits(o, l)
  PROVE  o + l \in 1..MtdSize
  <1>1. l \in 1..U64Max /\ o \in 0..U64Max /\ o + l - 1 \in 0..(2 * U64Max)
    BY RangeAssumption DEF RangeFits, U64
  <1>2. o + l - 1 \in Bytes(o, l)
    BY <1>1 DEF Bytes
  <1>3. o + l - 1 \in 0..(MtdSize - 1)
    BY <1>2 DEF RangeFits
  <1> QED
    BY <1>1, <1>3, RangeAssumption

\* existing_partition_contains_range is true of two ranges of the device
\* exactly when they share a byte.
THEOREM OverlapIsSharedByte ==
  ASSUME NEW part \in [offset : U64, length : U64],
         NEW o \in U64, NEW l \in U64,
         RangeFits(part.offset, part.length), RangeFits(o, l)
  PROVE  RangesOverlap(part, o, l)
           <=> Bytes(part.offset, part.length) \intersect Bytes(o, l) # {}
  <1> DEFINE p == part.offset
             q == part.length
  <1>1. p \in U64 /\ q \in U64 /\ p \in Nat /\ q \in Nat /\ o \in Nat /\ l \in Nat
    BY RangeAssumption DEF U64
  <1>2. /\ p + q \in 1..MtdSize /\ o + l \in 1..MtdSize
        /\ Wrap(p + q) = p + q /\ Wrap(o + l) = o + l
        /\ q > 0 /\ l > 0
    BY <1>1, FittingEnd, WrapSmall, RangeAssumption DEF RangeFits
  <1>3. RangesOverlap(part, o, l) <=> o < p + q /\ p < o + l
    BY <1>2 DEF RangesOverlap
  <1> HIDE DEF p, q
  <1>4. ASSUME o < p + q, p < o + l
        PROVE  \E b : b \in Bytes(p, q) /\ b \in Bytes(o, l)
    <2>1. CASE o <= p
      <3>1. p \in Bytes(p, q) /\ p \in Bytes(o, l)
        BY <1>1, <1>2, <1>4, <2>1, RangeAssumption DEF Bytes
      <3> QED
        BY <3>1
    <2>2. CASE p <= o
      <3>1. o \in Bytes(p, q) /\ o \in Bytes(o, l)
        BY <1>1, <1>2, <1>4, <2>2, RangeAssumption DEF Bytes
      <3> QED
        BY <3>1
    <2> QED
      BY <1>1, <2>1, <2>2
  <1>5. ASSUME NEW b \in Bytes(p, q), b \in Bytes(o, l)
        PROVE  o < p + q /\ p < o + l
    BY <1>1, <1>5 DEF Bytes
  <1> QED
    BY <1>3, <1>4, <1>5 DEF p, q

-----------------------------------------------------------------------------
(* What is refused, and the rest of the device                             *)

\* verify_partition_basic_conditions refuses no range that lies on whole erase
\* blocks inside the device: the test for overflow costs nobody a partition.
THEOREM AcceptedIfFits ==
  ASSUME NEW o \in U64, NEW l \in U64, RangeFits(o, l)
  PROVE  BasicConditionsHold(o, l)
  <1>1. o + l \in 1..MtdSize
    BY FittingEnd
  <1>2. o + l \in 0..U64Max
    BY <1>1, RangeAssumption
  <1>3. Wrap(o + l) = o + l
    BY <1>2, WrapSmall
  <1> QED
    BY <1>1, <1>2, <1>3, RangeAssumption DEF BasicConditionsHold, RangeFits, AddOverflows, U64

\* What MTDPARTCTL_IOC_ADD_MTD_PARTITION hands on is a range that fits, and with a
\* length of 0 it is every byte from the offset to the end of the device.
THEOREM ImmediateFits ==
  ASSUME NEW o \in U64, NEW l \in U64, ImmediateAccepted(o, l)
  PROVE  /\ AdaptedLength(o, l) \in U64
         /\ RangeFits(o, AdaptedLength(o, l))
         /\ l = 0 => Bytes(o, AdaptedLength(o, l)) = o..(MtdSize - 1)
  <1>1. AdaptedLength(o, l) \in U64
    BY RangeAssumption DEF ImmediateAccepted, FullLengthRefused, AdaptedLength, U64
  <1>2. RangeFits(o, AdaptedLength(o, l))
    BY <1>1, AcceptedFits DEF ImmediateAccepted
  <1>3. ASSUME l = 0 PROVE Bytes(o, AdaptedLength(o, l)) = o..(MtdSize - 1)
    <2>1. o + AdaptedLength(o, l) = MtdSize
      BY <1>3, RangeAssumption DEF AdaptedLength, U64
    <2>2. \A b \in 0..(2 * U64Max) : o <= b /\ b < MtdSize <=> b \in o..(MtdSize - 1)
      BY RangeAssumption DEF U64
    <2>3. \A b \in o..(MtdSize - 1) : b \in 0..(2 * U64Max)
      BY RangeAssumption DEF U64
    <2> QED
      BY <2>1, <2>2, <2>3 DEF Bytes
  <1> QED
    BY <1>1, <1>2, <1>3
=============================================================================
