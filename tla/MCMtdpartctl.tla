---------------------------- MODULE MCMtdpartctl ----------------------------
(***************************************************************************)
(* Two erase blocks of two bytes, a 3-bit u64 and a 2-bit u32.             *)
(***************************************************************************)
EXTENDS Mtdpartctl, TLC

L(o, l, f) == [offset |-> o, length |-> l, flags |-> f]

FirstBlock == L(0, 2, {})
SecondBlock == L(2, 2, {"ro"})
WholeDevice == L(0, 4, {"powerup_lock"})
Unaligned == L(1, 2, {})
BadFlag == L(2, 2, {"rw"})
TooLarge == L(U64Max + 1, 2, {})

MCLines == {FirstBlock, SecondBlock, Unaligned, WholeDevice, BadFlag, TooLarge}

\* An empty file, a whole one, one with a powerup_lock, and one whose second
\* line overlaps the first.
MCFiles == {<<>>, <<FirstBlock, SecondBlock>>, <<WholeDevice>>, <<SecondBlock, WholeDevice>>,
            <<FirstBlock, BadFlag>>}

\* The rest of the device from its second block, and a range past its end.
MCImmediates == {[offset |-> 2, length |-> 0], [offset |-> 4, length |-> 2]}

Symmetry == Permutations(Tool) \union Permutations(User)
=============================================================================
