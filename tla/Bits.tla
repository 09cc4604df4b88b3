-------------------------------- MODULE Bits --------------------------------
(***************************************************************************)
(* Numbers as bits: the digits of a number, the number that digits spell,  *)
(* and the loop by which pack7 and unpack7 of tools/fm1_ota.py regroup the *)
(* bits of a sequence.                                                     *)
(***************************************************************************)
EXTENDS Integers, Sequences, SequencesExt

\* 1 << n
Pow2[n \in Nat] == IF n = 0 THEN 1 ELSE 2 * Pow2[n - 1]

\* The lowest n places of v in base 2^bits
Digits(v, n, bits) == [i \in 1 .. n |-> (v \div Pow2[bits * (i - 1)]) % Pow2[bits]]

Sum(s) == FoldLeft(LAMBDA a, b : a + b, 0, s)

\* The number with these places in base 2^bits
Number(s, bits) == Sum([k \in 1 .. Len(s) |-> s[k] * Pow2[bits * (k - 1)]])

\* One turn of the loop: a unit of "from" bits is put above the nb bits of
\* acc, and units of "to" bits are taken from below.
Take(st, unit, from, to) ==
  LET acc == st.acc + unit * Pow2[st.nb]
      n == (st.nb + from) \div to
  IN [out |-> st.out \o Digits(acc, n, to), acc |-> acc \div Pow2[to * n], nb |-> (st.nb + from) % to]

Regroup(s, from, to) ==
  FoldLeft(LAMBDA st, unit : Take(st, unit, from, to), [out |-> <<>>, acc |-> 0, nb |-> 0], s)
=============================================================================
