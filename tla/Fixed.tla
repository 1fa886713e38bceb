-------------------------------- MODULE Fixed --------------------------------
(***************************************************************************)
(* Decimal numbers at a fixed scale (fixed.hpp), and the calendar behind   *)
(* Kraken's timestamps (kraken.hpp).  A token is what a spelling says:     *)
(* its digits run together as one number, how many of them follow the      *)
(* point, the exponent, the sign, and whether it is spelled plainly, that  *)
(* is without an exponent, redundant leading zeros or a bare point.        *)
(***************************************************************************)
EXTENDS Integers

CONSTANTS MaxMantissa,                  \* largest signed integer, 2^63 - 1
          MaxScale,                     \* kMaxScale: longest shift there is
          MaxSeconds                    \* kMaxSeconds: the last time there is

ASSUME FixedAssumption ==
  MaxMantissa \in Nat /\ MaxScale \in 0 .. 8 /\ MaxSeconds \in Nat

Token(sign, digits, frac, exponent, plain) ==
  [sign |-> sign, digits |-> digits, frac |-> frac, exponent |-> exponent,
   plain |-> plain]

(* Something that is not a number all the way to its end. *)
Garbage == Token("none", -1, 0, 0, FALSE)

kPow10 == [n \in 0 .. 8 |-> 10^n]

Mantissa(n) == [error |-> "Ok", mantissa |-> n]
Refuse(e)   == [error |-> e, mantissa |-> 0]

(* value * 10^shift as an integer: exact, or refused.  The code's          *)
(* checked_mul is the test against MaxMantissa.                            *)
Shifted(value, shift) ==
  CASE shift > MaxScale ->
         Refuse("Overflow")
    [] shift \in 0 .. MaxScale ->
         IF value * kPow10[shift] > MaxMantissa
           THEN Refuse("Overflow") ELSE Mantissa(value * kPow10[shift])
    [] shift \in -MaxScale .. -1 ->
         IF value % kPow10[-shift] # 0
           THEN Refuse("PrecisionLoss") ELSE Mantissa(value \div kPow10[-shift])
    [] shift < -MaxScale ->
         IF value = 0 THEN Mantissa(0) ELSE Refuse("PrecisionLoss")

parse_fixed(t, scale) ==
  LET r == Shifted(t.digits, scale + t.exponent - t.frac)
  IN  CASE t = Garbage                          -> Refuse("Malformed")
        [] t # Garbage /\ t.digits > MaxMantissa -> Refuse("Overflow")
        [] OTHER -> IF r.error = "Ok" /\ t.sign = "minus"
                      THEN Mantissa(-r.mantissa) ELSE r

(* The one spelling of a mantissa, trailing zeros included. *)
format_fixed(m, scale) ==
  Token(IF m < 0 THEN "minus" ELSE "none", IF m < 0 THEN -m ELSE m, scale, 0, TRUE)

(* Mutant: the value is compared, the spelling is not. *)
is_canonical_at_scale_ByValue(t, scale, m) ==
  parse_fixed(format_fixed(m, scale), scale) = parse_fixed(t, scale)

(* Spelled as the mantissa would be; a leading plus is allowed. *)
is_canonical_at_scale(t, scale, m) ==
  [t EXCEPT !.sign = IF @ = "plus" THEN "none" ELSE @] = format_fixed(m, scale)

(* A binary mantissa and exponent at the instrument's scale. *)
rescale(mantissa, exponent, scale) == Shifted(mantissa, scale + exponent)

-----------------------------------------------------------------------------
(* Civil time, to the second: a fraction only has to be there if a point   *)
(* is.  shape says that digits and separators are where they belong.       *)

(* Mutant: the leap day is counted from the start of the calendar year. *)
days_from_civil_January(y, m, d) ==
  LET era == y \div 400
      yoe == y % 400
      doy == (153 * (IF m > 2 THEN m - 3 ELSE m + 9) + 2) \div 5 + d - 1
  IN  era * 146097 + yoe * 365 + yoe \div 4 - yoe \div 100 + doy - 719468

(* Days since 1970-01-01; years start in March so that the leap day is last. *)
days_from_civil(year, m, d) ==
  LET y   == IF m <= 2 THEN year - 1 ELSE year
      era == y \div 400
      yoe == y - era * 400
      doy == (153 * (IF m > 2 THEN m - 3 ELSE m + 9) + 2) \div 5 + d - 1
  IN  era * 146097 + yoe * 365 + yoe \div 4 - yoe \div 100 + doy - 719468

(* Seconds since the epoch, or a refusal: UTC only, every field in range,  *)
(* and neither before the epoch nor past the last representable time.      *)
parse_rfc3339_nanos(c) ==
  LET days    == days_from_civil(c.year, c.month, c.day)
      seconds == days * 86400 + c.hour * 3600 + c.minute * 60 + c.second
      legible == /\ c.shape /\ c.zone = "Z"
                 /\ c.fraction # "empty"
                 /\ c.month \in 1 .. 12 /\ c.day \in 1 .. 31
                 /\ c.hour <= 23 /\ c.minute <= 59 /\ c.second <= 60
      bounded == /\ days \in -1 .. MaxSeconds \div 86400
                 /\ seconds \in 0 .. MaxSeconds
  IN  IF legible /\ bounded
        THEN Mantissa(seconds) ELSE Refuse("Malformed")

=============================================================================
