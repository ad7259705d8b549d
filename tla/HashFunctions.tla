----------------------------- MODULE HashFunctions -----------------------------
(***************************************************************************)
(* The suspected set-index functions of a translation cache.  A hash maps  *)
(* a starting region and an offset to the offset-th other region the       *)
(* function believes to share the starting region's set, for a cache of    *)
(* 2^setBits sets.  An address is its region number, counted from          *)
(* BASE_ADDRESS, whose lower region-number bits are all 0 on every level.  *)
(***************************************************************************)
EXTENDS Naturals, Sequences

\* Every sets-th region.
LinHash(start, offset, setBits) == start + 2^setBits * offset

\* Faulty variant: the parity of the start is not put back.
LinShiftHashLosingParity(start, offset, setBits) ==
  start + 2 * (2^setBits * (offset \div 2)) + (offset % 2)

\* Pairs of neighbouring regions, sets pairs apart.
LinShiftHash(start, offset, setBits) ==
  LET danglingBit == start % 2
      pairs == (offset + danglingBit) \div 2
  IN  start - danglingBit + 2 * (2^setBits * pairs) + ((offset + danglingBit) % 2)

\* The functions evaluate_cache_structure tries, in its order.
HashFunctionList == <<"lin", "lin_shift">>

Hash(function, start, offset, setBits) ==
  CASE function = "lin" -> LinHash(start, offset, setBits)
    [] function = "lin_shift" -> LinShiftHash(start, offset, setBits)
================================================================================
