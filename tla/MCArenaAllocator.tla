-------------------------- MODULE MCArenaAllocator --------------------------
(***************************************************************************)
(* Small instances of ArenaAllocator.  One unit is 4 bytes, so the header  *)
(* of three words of the 32-bit build is 3, the default alignment of       *)
(* alloc() is 2 and the requests are 4 to 16 bytes.                        *)
(***************************************************************************)
EXTENDS ArenaAllocator

MCSizes == {0, 1, 3}
MCAligns == {1, 2, 4}
MCLimits == {6, 9}
=============================================================================
