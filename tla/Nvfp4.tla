------------------------------- MODULE Nvfp4 -------------------------------
(***************************************************************************)
(* The four-bit cache of the sparse attention: how a nibble and a block    *)
(* scale are turned into numbers by writing the bits of a float, and where *)
(* on a page the scale of a group of 16 values is.                         *)
(*                                                                         *)
(* A float is its biased exponent and its fraction in units of 2^-23; only *)
(* magnitudes are looked at.  Nibbles decode in units of 1/2, scales in    *)
(* units of 1/512.                                                         *)
(***************************************************************************)
EXTENDS Integers

(* bits of a float to its value in units of 1 / 2^unit, for the exponents  *)
(* met here                                                                *)
FloatIn(bits, unit) ==
  LET exponent == bits \div 2^23
      fraction == bits % 2^23
      shift    == exponent - 127 + unit
  IN  IF bits = 0 THEN 0 ELSE (2^shift) + (((fraction \div 2^15) * 2^shift) \div 2^8)

(* _nvfp4_decode_e2m1: magnitudes 0 and 1 are zero and a half.             *)
NibbleBits(magnitude) ==
  IF magnitude < 2 THEN magnitude * (126 * 2^23) ELSE 126 * 2^23 + magnitude * 2^22

NibbleValue(nibble) ==
  LET value == FloatIn(NibbleBits(nibble % 8), 1)
  IN  IF nibble >= 8 THEN -value ELSE value

(* _nvfp4_scale_to_float, in units of 1/512: the sign is masked, scales    *)
(* without an exponent count in units.                                     *)
ScaleValue(bits) ==
  LET payload  == bits % 128
      exponent == payload \div 8
      mantissa == payload % 8
  IN  IF payload = 0 THEN 0
      ELSE IF exponent = 0 THEN mantissa
      ELSE FloatIn((exponent + 120) * 2^23 + mantissa * 2^20, 9)

(* Seeded fault: the rows of a group of four are not told apart.           *)
ScaleCoordFlat(slot, group, swizzled, dim) ==
  IF swizzled
  THEN <<(slot \div 4) * 4 + group \div (dim \div 4), (group % (dim \div 4)) * 4>>
  ELSE <<slot, group>>

(* _nvfp4_scale_coord                                                      *)
ScaleCoord(slot, group, swizzled, dim) ==
  IF swizzled
  THEN <<(slot \div 4) * 4 + group \div (dim \div 4), (group % (dim \div 4)) * 4 + (slot % 4)>>
  ELSE <<slot, group>>
=============================================================================
