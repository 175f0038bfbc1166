------------------------------ MODULE Numbers ------------------------------
(***************************************************************************)
(* Numbers and their digits in any base, as the byte, base-58 and text     *)
(* conversions of libcryptonote and the pool compute them.                 *)
(***************************************************************************)
EXTENDS Integers, Sequences

\* base^n, by multiplications.
Power(base, n) ==
    LET p[k \in 0..n] == IF k = 0 THEN 1 ELSE base * p[k - 1]
    IN  p[n]

\* v as n big-endian digits.
Digits(v, base, n) == [i \in 1..n |-> (v \div Power(base, n - i)) % base]

\* The number whose big-endian digits are s.
Value(s, base) ==
    LET v[i \in 0..Len(s)] == IF i = 0 THEN 0 ELSE v[i - 1] * base + s[i]
    IN  v[Len(s)]
=============================================================================
