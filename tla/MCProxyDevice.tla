---------------------------- MODULE MCProxyDevice ----------------------------
(***************************************************************************)
(* A device of two erase blocks of two bytes, with a 3-bit u64.            *)
(***************************************************************************)
EXTENDS ProxyDevice, TLC

Part(o, l) ==
  [offset |-> o, length |-> l, readonly |-> FALSE, powerup_lock_enabled |-> FALSE]

\* The two blocks, a part past the end of the device and one that starts inside
\* a block.
MCRequests == {Part(0, 2), Part(2, 2), Part(4, 2), Part(1, 2)}

At(o, l) == [offset |-> o, length |-> l]

\* Accepted: the whole device (MTDPART_SIZ_FULL) and its second block. Refused:
\* the rest of the device at its end and past it, ranges that start or end inside
\* a block, one past the end, one whose end wraps.
MCImmediates ==
  {At(0, 0), At(2, 2), At(4, 0), At(5, 0), At(1, 0), At(1, 2),
   At(2, 1), At(2, 4), At(6, 2)}

MCIndex == 1..4

Symmetry == Permutations(Ctl) \union Permutations(User)
=============================================================================
