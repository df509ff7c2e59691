----------------------------- MODULE HashInput -----------------------------
(***************************************************************************)
(* What the SHA-256 hashers of the crates are fed.  A hash is modelled by  *)
(* its input, the sequence of hasher.update calls flattened to fields:     *)
(* each a record [w, v] of its width in bytes (0 for a character of a      *)
(* decimal string, whose value is its ASCII code) and value.  Two equal    *)
(* inputs are equal byte strings, so a model declares two hashes equal     *)
(* only when the real ones are; collisions of SHA-256 itself are not       *)
(* modelled.                                                               *)
(***************************************************************************)
EXTENDS Integers, Sequences

(* hasher.update of a fixed-width field (an id, a little-endian integer,  *)
(* a domain-separation prefix, a byte)                                     *)
F(w, v) == [w |-> w, v |-> v]

(* hasher.update(s.as_bytes()) of a string given by its ASCII codes       *)
Chars(s) == [i \in DOMAIN s |-> F(0, s[i])]
Dot == 46
Digit(d) == 48 + d

(* Decimal::to_string of a natural: its decimal digits, no separator      *)
RECURSIVE Digits(_)
Digits(n) == IF n < 10 THEN <<Digit(n)>> ELSE Digits(n \div 10) \o <<Digit(n % 10)>>

DecimalStr(n) == Chars(Digits(n))

(* to_string of a value kept doubled (a midpoint clearing price): x2 / 2  *)
(* when even; otherwise the integer part, "." and "5"                      *)
HalfStr(x2) ==
  IF x2 % 2 = 0 THEN DecimalStr(x2 \div 2)
  ELSE DecimalStr(x2 \div 2) \o Chars(<<Dot, Digit(5)>>)
=============================================================================
