------------------------------- MODULE Int64 -------------------------------
(***************************************************************************)
(* The int64 of the web application and the two conversions to it: of an   *)
(* i128 of the contract, which is exact, and of a float64, which is not at *)
(* the upper end of the range.                                             *)
(***************************************************************************)
EXTENDS Integers

CONSTANT MAX_INT64          \* math.MaxInt64

MIN_INT64 == -MAX_INT64 - 1

\* DecodeI128 refuses what no int64 holds.
FitsInt64(n) == n \in MIN_INT64 .. MAX_INT64

\* Mutant: the range is not checked.
safeFloatToInt64_unchecked(n) == {n}

(***************************************************************************)
(* The values int64(f) may have for the float64 of a whole number n that   *)
(* is not below MIN_INT64; none where the conversion is refused. The check *)
(* compares with float64(math.MaxInt64), which is not MAX_INT64 but the    *)
(* power of two above it, so that number passes, and MAX_INT64 itself is   *)
(* rounded to it. What int64(f) is for it depends on the platform: the     *)
(* least number on amd64, the greatest on arm64.                           *)
(***************************************************************************)
safeFloatToInt64(n) ==
    IF n > MAX_INT64 + 1 THEN {}
    ELSE IF n >= MAX_INT64 THEN {MIN_INT64, MAX_INT64}
    ELSE {n}
=============================================================================
