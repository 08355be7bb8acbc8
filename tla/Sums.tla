-------------------------------- MODULE Sums --------------------------------
(***************************************************************************)
(* What Python sums return, given so that they can be reasoned about: of   *)
(* lengths, the size of a set, where every unit that is counted is a pair  *)
(* of the index it belongs to and its number there; of integers, the last  *)
(* of the partial sums.                                                    *)
(***************************************************************************)
EXTENDS Integers, Sequences, FiniteSets

Volume(len) == Cardinality(UNION {{i} \X (1 .. len[i]) : i \in DOMAIN len})

Partials(s) ==
    LET sum[i \in 0 .. Len(s)] == IF i = 0 THEN 0 ELSE sum[i - 1] + s[i]
    IN  sum
Total(s) == Partials(s)[Len(s)]
=============================================================================
