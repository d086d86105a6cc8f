-------------------------------- MODULE Walk --------------------------------
(* Going through a sequence from its first element to its last, as a loop  *)
(* does.  FoldLeft of the community modules goes through it from the last  *)
(* element back, by the set of its positions; a walk has a state after     *)
(* every position, so that invariants of the loop can be stated of it.     *)
EXTENDS Integers, Sequences

Walk(Each(_, _), begin, seq) ==
    LET At[i \in 0 .. Len(seq)] == IF i = 0 THEN begin ELSE Each(At[i - 1], seq[i])
    IN  At[Len(seq)]

\* f, and the value v for every key of S.
Put(f, S, v) == [x \in DOMAIN f \cup S |-> IF x \in S THEN v ELSE f[x]]
=============================================================================
