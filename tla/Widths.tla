-------------------------------- MODULE Widths --------------------------------
(***************************************************************************)
(* The integer fields of the wire formats. The largest uint32 is a         *)
(* parameter, so that small instances reach it.                            *)
(***************************************************************************)
EXTENDS Integers

CONSTANT U32_MAX

ASSUME WidthAssumption == U32_MAX \in Nat

Uint8  == 0 .. 255
Uint16 == 0 .. 65535
Uint32 == 0 .. U32_MAX
Int32  == - ((U32_MAX + 1) \div 2) .. (U32_MAX \div 2)
=============================================================================
