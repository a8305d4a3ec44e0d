----------------------------- MODULE StepCount ------------------------------
(***************************************************************************)
(* How dispenser.c turns grams into motor steps, in the arithmetic of the  *)
(* build: binary32 floats, each operation rounded to 24 significant bits,  *)
(* ties to even, and a final truncation to an integer.  Amounts stay below *)
(* 2^24 / 80, so that every significand fits TLC's integers and the        *)
(* conversion to uint32_t cannot overflow.                                 *)
(***************************************************************************)
EXTENDS Integers

CONSTANT GramsPerRev   \* CONFIG_DISPENSER_GRAMS_PER_REV

ASSUME GramsPerRevAssumption == GramsPerRev \in 1 .. 15

STEPS_PER_REV == 200
MICROSTEPS == 8

\* Powers of two, as numbers: 2^k for k in 0 .. 27, and three more by name.
Power(k) ==
    <<1, 2, 4, 8, 16, 32, 64, 128, 256, 512, 1024, 2048, 4096, 8192, 16384, 32768,
      65536, 131072, 262144, 524288, 1048576, 2097152, 4194304, 8388608, 16777216,
      33554432, 67108864, 134217728>>[k + 1]

TWO_23 == 8388608
TWO_24 == 16777216
TWO_28 == 268435456

\* Up to here the two roundings together stay below 1 / GramsPerRev of a step.
MAX_EXACT_GRAMS == 18000

\* a / b to the nearest integer, ties to even.
Nearest(a, b) ==
    LET q == a \div b
        r == a % b
    IN  IF 2 * r > b \/ (2 * r = b /\ q % 2 = 1) THEN q + 1 ELSE q

\* The k for which a / b * 2^k has 24 bits before the point.
Scale(a, b) ==
    CHOOSE k \in 0 .. 27 : b * TWO_23 <= a * Power(k) /\ a * Power(k) < b * TWO_24

\* The steps an exact calculation would give.
ExactSteps(grams) == (grams * STEPS_PER_REV * MICROSTEPS) \div (4 * GramsPerRev)

TotalStepsWholeRevolutions(grams) ==
    (grams \div GramsPerRev) * ((STEPS_PER_REV * MICROSTEPS) \div 4)

\* (uint32_t)((float)grams / GRAMS_PER_REV / 4 * STEPS_PER_REV * MICROSTEPS).
\* The quotient is m / 2^k; the product by 200 = 25 * 2^3 is rounded to n,
\* j bits narrower; the division by 4 and the product by 8 are exact.
TotalSteps(grams) ==
    LET k == Scale(grams, GramsPerRev)
        m == Nearest(grams * Power(k), GramsPerRev)
        j == IF 25 * m < TWO_28 THEN 4 ELSE 5
        n == Nearest(25 * m, Power(j))
    IN  n \div Power(k - j - 4)
=============================================================================
