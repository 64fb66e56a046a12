----------------------------- MODULE FixedPoint -----------------------------
(***************************************************************************)
(* internal/model's fixed-point numbers: parseFixed and formatFixed.  A    *)
(* decimal string is [whole, dots, fraction]: the characters before and    *)
(* after the first dot, and the number of dots (2 for more than one).  A   *)
(* character is a digit or NotADigit.  Integers are signed and wrap; a     *)
(* minus sign, which formatFixed writes for a negative number and no parse *)
(* accepts, is not modelled.                                               *)
(***************************************************************************)
EXTENDS Integers, SequencesExt

CONSTANTS
    ScaleDigits,    \* fractional digits kept (8)
    MaxInt          \* largest integer (2^63 - 1)

ASSUME DigitsAssumption == ScaleDigits \in Nat /\ MaxInt \in Nat

NotADigit == 10
IsDigit(c) == c \in 0..9

ScaleUnit == 10^ScaleDigits

\* Two's complement: a sum beyond MaxInt is negative.
Wrap(n) == IF n > MaxInt THEN n - 2 * (MaxInt + 1) ELSE n

TooLarge == -1

\* The digits of the whole part as a number; TooLarge beyond MaxInt.
Whole(digits) ==
    FoldLeft(LAMBDA n, d : IF n = TooLarge \/ n > (MaxInt - d) \div 10 THEN TooLarge
                           ELSE n * 10 + d,
             0, digits)

Bad == [ok |-> FALSE, n |-> 0]

\* What the first ScaleDigits digits of the fraction contribute.
Fraction(digits) ==
    FoldLeftDomain(LAMBDA n, i : IF i > ScaleDigits THEN n
                                 ELSE n + digits[i] * 10^(ScaleDigits - i),
                   0, digits)

\* Mutant: excess digits are cut off.
ExcessIgnored(digits) == TRUE

\* Digits beyond the scale must be zero.
ExcessIsZero(digits) == \A i \in ScaleDigits + 1..Len(digits) : digits[i] = 0

\* Does the number survive the scaling?
Scales(n) == n # TooLarge /\ n <= MaxInt \div ScaleUnit

\* parseFixed: the scaled integer, or an error.
parseFixed(s) ==
    IF \/ s.dots > 1
       \/ s.whole = <<>> /\ s.fraction = <<>>
       \/ ~\A c \in ToSet(s.whole \o s.fraction) : IsDigit(c)
       \/ ~ExcessIsZero(s.fraction)
       \/ ~Scales(Whole(s.whole))
    THEN Bad
    ELSE [ok |-> TRUE, n |-> Wrap(Whole(s.whole) * ScaleUnit + Fraction(s.fraction))]

\* The decimal digits of n, without leading zeros.
Decimal(n) ==
    LET d[m \in 0..n] == IF m < 10 THEN <<m>> ELSE Append(d[m \div 10], m % 10)
    IN d[n]

\* Mutant: the fraction is not padded to the scale.
PaddedNot(frac) == Decimal(frac)

\* The fraction with its leading zeros.
Padded(frac) == LET d == Decimal(frac)
                IN [i \in 1..ScaleDigits - Len(d) |-> 0] \o d

\* formatFixed of a number that is not negative: trailing zeros are trimmed.
formatFixed(n) ==
    LET fs == Padded(n % ScaleUnit)
        kept == Max({0} \cup {i \in 1..Len(fs) : fs[i] # 0})
    IN [whole |-> Decimal(n \div ScaleUnit),
        dots |-> IF n % ScaleUnit = 0 THEN 0 ELSE 1,
        fraction |-> SubSeq(fs, 1, kept)]

-----------------------------------------------------------------------------
\* The reference: a decimal string denotes the sum of its digits' places.  Its
\* value in units of 10^-k, for k at least the length of its fraction.
Value(s, k) ==
    LET digits == s.whole \o s.fraction
    IN FoldLeftDomain(LAMBDA n, i : n + digits[i] * 10^(Len(s.whole) - i + k), 0, digits)
=============================================================================
