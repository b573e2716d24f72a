------------------------------ MODULE PrefixSums ------------------------------
(***************************************************************************)
(* Sums of an integer function on 1..N, written as a recursive function so *)
(* that both the model checker and the proof system can use them.          *)
(***************************************************************************)
EXTENDS Integers

\* The partial sums of f: Prefix(f, N)[i] = f[1] + ... + f[i].
Prefix(f, N) ==
  LET P[i \in 0..N] == IF i = 0 THEN 0 ELSE P[i-1] + f[i]
  IN  P

\* The sum of f over 1..N.
Total(f, N) == Prefix(f, N)[N]

===============================================================================
