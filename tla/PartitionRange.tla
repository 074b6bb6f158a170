--------------------------- MODULE PartitionRange ---------------------------
(***************************************************************************)
(* The arithmetic of a partition request: which byte ranges the control    *)
(* device accepts on a backing MTD, and when two of them overlap.          *)
(*                                                                         *)
(* The code computes in u64. U64Max stands for the largest value of that   *)
(* type: a sum is reduced modulo U64Max + 1, so that an overflow that the   *)
(* code fails to notice really wraps here too.                             *)
(***************************************************************************)
EXTENDS Integers

CONSTANTS
  U64Max,     \* the largest u64
  MtdSize,    \* backing_mtd->size, in bytes
  EraseSize   \* backing_mtd->erasesize, in bytes

ASSUME RangeAssumption ==
  /\ U64Max \in Nat
  /\ MtdSize \in 1..U64Max
  /\ EraseSize \in 1..U64Max

U64 == 0..U64Max

Wrap(n) == n % (U64Max + 1)

\* check_add_overflow(a, b, &sum): the flag it returns.
AddOverflows(a, b) == a + b > U64Max

\* Variant: the sum is compared with the size, its overflow is not looked at.
BasicConditionsWithoutOverflow(offset, length) ==
  /\ length # 0
  /\ Wrap(offset + length) <= MtdSize
  /\ offset % EraseSize = 0
  /\ length % EraseSize = 0

\* Variant: the offset may lie inside an erase block.
BasicConditionsWithoutAlignment(offset, length) ==
  /\ length # 0
  /\ ~AddOverflows(offset, length)
  /\ Wrap(offset + length) <= MtdSize
  /\ length % EraseSize = 0

\* verify_partition_basic_conditions: every refusal is the same -EINVAL.
BasicConditionsHold(offset, length) ==
  /\ length # 0
  /\ ~AddOverflows(offset, length)
  /\ Wrap(offset + length) <= MtdSize
  /\ offset % EraseSize = 0
  /\ length % EraseSize = 0

\* Variant: only a new range that starts inside the existing part overlaps it.
StartsInside(part, offset, length) ==
  part.offset <= offset /\ offset < Wrap(part.offset + part.length)

\* existing_partition_contains_range: half-open ranges that share a byte.
RangesOverlap(part, offset, length) ==
  /\ offset < Wrap(part.offset + part.length)
  /\ part.offset < Wrap(offset + length)

(***************************************************************************)
(* adapt_possible_full_mtd_partition_length: a length of 0 asks for the    *)
(* rest of the device. check_sub_overflow refuses an offset past its end.  *)
(***************************************************************************)
FullLengthRefused(offset, length) == length = 0 /\ MtdSize < offset

AdaptedLength(offset, length) ==
  IF length = 0 THEN MtdSize - offset ELSE length

\* Variant: the checks are left to the MTD core.
ImmediateUnchecked(offset, length) == ~FullLengthRefused(offset, length)

\* The request MTDPARTCTL_IOC_ADD_MTD_PARTITION hands on to the MTD core.
ImmediateAccepted(offset, length) ==
  /\ ~FullLengthRefused(offset, length)
  /\ BasicConditionsHold(offset, AdaptedLength(offset, length))

-----------------------------------------------------------------------------
(* The meaning of a range, against which the operators above are judged.   *)

\* The bytes of the device that [offset, offset + length) covers.
Bytes(offset, length) == {b \in 0..(2 * U64Max) : offset <= b /\ b < offset + length}

\* A range lies on whole erase blocks inside the device.
RangeFits(offset, length) ==
  /\ length > 0
  /\ Bytes(offset, length) \subseteq 0..(MtdSize - 1)
  /\ offset % EraseSize = 0
  /\ length % EraseSize = 0
=============================================================================
