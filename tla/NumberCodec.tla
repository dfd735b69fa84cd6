---------------------------- MODULE NumberCodec ----------------------------
(***************************************************************************)
(* The wire form of an Oracle NUMBER, internal/oratype/number.go: a value  *)
(* is bound as decimal text, EncodeNumber writes an exponent byte and one  *)
(* byte for every two digits, the server keeps those bytes, and            *)
(* DecodeNumber turns them into text again when a row is fetched.          *)
(*                                                                         *)
(* Text is what its parts are: a sign, the digits before and after the     *)
(* point, and an exponent; the characters themselves, and the errors for   *)
(* text that is no number, are left out.                                   *)
(***************************************************************************)
EXTENDS Integers, Sequences, FiniteSetsExt, SequencesExt

CONSTANTS
  MaxDigits,    \* numberMaxDigits: 40
  MaxBytes,     \* the longest NUMBER DecodeNumber takes: 21
  MaxPoint,     \* the largest and ...
  MinPoint,     \* ... the smallest position of the decimal point: 126, -129
  Numerals      \* the texts that are bound

ASSUME NumberAssumption ==
  /\ MaxDigits \in Nat \ {0} /\ MaxDigits % 2 = 0 /\ MaxBytes = MaxDigits \div 2 + 1
  /\ MaxPoint \in 0 .. 126 /\ MinPoint \in -129 .. 0
  /\ \A t \in Numerals :
       t.neg \in BOOLEAN /\ t.whole \in Seq(0 .. 9) /\ t.frac \in Seq(0 .. 9) /\ t.exp \in Int

VARIABLES
  text,     \* what is bound
  wire,     \* the bytes of the column
  value,    \* what is fetched: sign, digits and position of the point
  status    \* "bound", "stored", "refused", "fetched" or "undecodable"

numberVars == <<text, wire, value, status>>

---------------------------------------------------------------------------
(* Values.  A number is 0.d1d2d3... times 10^point with d1 and the last    *)
(* digit not zero; zero has no digits.                                     *)

Number(neg, digits, point) ==
  IF digits = <<>> THEN [neg |-> FALSE, digits |-> <<>>, point |-> 0]
                   ELSE [neg |-> neg, digits |-> digits, point |-> point]

\* The value -1e126 that no text stands for (IsMaxNegativeValue).
MaxNegative == [neg |-> TRUE, digits |-> <<>>, point |-> 126]

Zeros(s) == Max({n \in 0 .. Len(s) : \A i \in 1 .. n : s[i] = 0})

WithoutTrailing(s) ==
  SubSeq(s, 1, Min({n \in 0 .. Len(s) : \A i \in n + 1 .. Len(s) : s[i] = 0}))

---------------------------------------------------------------------------
(* EncodeNumber.                                                           *)

\* The digits without leading zeros, which each move the point if they come
\* after it, and without trailing ones.
SignificantDigits(t) ==
  LET all == t.whole \o t.frac IN WithoutTrailing(SubSeq(all, Zeros(all) + 1, Len(all)))

DecimalPoint(t) == Len(t.whole) - Zeros(t.whole \o t.frac) + t.exp

\* Zero is refused too, when its point is out of range ("0e200").
Representable(t) ==
  Len(SignificantDigits(t)) <= MaxDigits /\ DecimalPoint(t) \in MinPoint .. MaxPoint

\* The digits aligned to pairs as the point is.
FaultyPrepend(t) == Len(SignificantDigits(t)) % 2 = 1

Prepend(t) == DecimalPoint(t) % 2 = 1

Aligned(t) ==
  LET s == (IF Prepend(t) THEN <<0>> ELSE <<>>) \o SignificantDigits(t)
  IN  IF Len(s) % 2 = 1 THEN s \o <<0>> ELSE s

\* The point of the value once its digits are aligned, in pairs of digits.
ExponentByte(t) ==
  LET e == 192 + (IF Prepend(t) THEN DecimalPoint(t) + 1 ELSE DecimalPoint(t)) \div 2
  IN  IF t.neg THEN 255 - e ELSE e

DigitByte(neg, pair) == IF neg THEN 101 - pair ELSE pair + 1

\* A negative number shorter than the longest ends in 102.  The digit an odd
\* point prepends is counted twice over, itself and the one that pads it.
Trailer(t) ==
  LET n == Len(SignificantDigits(t)) + IF Prepend(t) THEN 1 ELSE 0
      padded == IF n % 2 = 1 THEN n + 1 ELSE n
  IN  IF t.neg /\ padded < MaxDigits THEN <<102>> ELSE <<>>

EncodeNumber(t) ==
  IF SignificantDigits(t) = <<>> THEN <<128>>
  ELSE LET a == Aligned(t)
       IN  <<ExponentByte(t)>>
             \o [i \in 1 .. Len(a) \div 2 |-> DigitByte(t.neg, 10 * a[2 * i - 1] + a[2 * i])]
             \o Trailer(t)

---------------------------------------------------------------------------
(* DecodeNumber.                                                           *)

Decodable(b) == Len(b) <= MaxBytes /\ b # <<>>

IsPositive(b) == b[1] >= 128

\* The exponent byte in wrapping 8-bit arithmetic: int8(exponent - 193).
WirePoint(b) ==
  LET e == IF IsPositive(b) THEN b[1] ELSE 255 - b[1]
      w == (e - 193) % 256
  IN  2 * (IF w >= 128 THEN w - 256 ELSE w) + 2

Mantissa(b) ==
  IF ~IsPositive(b) /\ b[Len(b)] = 102 THEN SubSeq(b, 2, Len(b) - 1) ELSE Tail(b)

\* Two digits for every byte, but neither a leading zero, which moves the
\* point, nor a trailing one.
DecodeNumber(b) ==
  IF Len(b) = 1 THEN IF IsPositive(b) THEN Number(FALSE, <<>>, 0) ELSE MaxNegative
  ELSE LET m == Mantissa(b)
           pair(i) == IF IsPositive(b) THEN m[i] - 1 ELSE 101 - m[i]
           all == [i \in 1 .. 2 * Len(m) |->
                     IF i % 2 = 1 THEN pair((i + 1) \div 2) \div 10 ELSE pair(i \div 2) % 10]
           skip == IF all[1] = 0 THEN 1 ELSE 0
           end == IF all[Len(all)] = 0 THEN Len(all) - 1 ELSE Len(all)
       IN  Number(~IsPositive(b), SubSeq(all, skip + 1, end), WirePoint(b) - skip)

---------------------------------------------------------------------------
(* A value bound, stored and fetched.                                      *)

EncodeRefuses ==
  /\ status = "bound" /\ ~Representable(text)
  /\ status' = "refused"
  /\ UNCHANGED <<text, wire, value>>

BindNumber ==
  /\ status = "bound" /\ Representable(text)
  /\ wire' = EncodeNumber(text)
  /\ status' = "stored"
  /\ UNCHANGED <<text, value>>

DecodeRefuses ==
  /\ status = "stored" /\ ~Decodable(wire)
  /\ status' = "undecodable"
  /\ UNCHANGED <<text, wire, value>>

FetchNumber ==
  /\ status = "stored" /\ Decodable(wire)
  /\ value' = DecodeNumber(wire)
  /\ status' = "fetched"
  /\ UNCHANGED <<text, wire>>

NumberInit ==
  /\ text \in Numerals
  /\ wire = <<>> /\ value = Number(FALSE, <<>>, 0) /\ status = "bound"

NumberNext == EncodeRefuses \/ BindNumber \/ DecodeRefuses \/ FetchNumber

NumberSpec == NumberInit /\ [][NumberNext]_numberVars

---------------------------------------------------------------------------
(* Properties.                                                             *)

\* The number a text stands for, whatever its spelling.
ValueOf(t) == Number(t.neg, SignificantDigits(t), DecimalPoint(t))

\* The one shape EncodeNumber makes too long: all digits used and an odd point.
Overlong(t) == Len(SignificantDigits(t)) = MaxDigits /\ DecimalPoint(t) % 2 = 1

\* number.go: what is bound is what is fetched, and DecodeNumber refuses
\* ("number too large") only the overlong shape, never a shorter number.
SameNumberBack ==
  /\ status = "fetched" => value = ValueOf(text)
  /\ status = "undecodable" => Overlong(text)

=============================================================================
