------------------------------- MODULE KcpSerial -------------------------------
(***************************************************************************)
(* The arithmetic of ikcp.c on times and sequence numbers: IUINT32 values  *)
(* that wrap around, ordered by the sign of their difference.              *)
(***************************************************************************)
EXTENDS Integers

CONSTANT Half   \* 2^31, half the number of values

ASSUME SerialAssumption == Half \in Nat \ {0}

Number == 0 .. 2 * Half - 1

(* a + d on IUINT32. *)
Plus(a, d) == IF a + d < 2 * Half THEN a + d ELSE a + d - 2 * Half

(* _itimediff: the difference, reduced to the range of IINT32. *)
itimediff(later, earlier) ==
  IF later - earlier < -Half THEN later - earlier + 2 * Half
  ELSE IF later - earlier < Half THEN later - earlier
  ELSE later - earlier - 2 * Half
=============================================================================
