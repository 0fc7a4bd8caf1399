-------------------------------- MODULE Lists --------------------------------
(***************************************************************************)
(* Lists, which the transaction pools, the selector and the chain are made *)
(* of.  They are sequences, and the operators that SequencesExt has too    *)
(* are written out here to keep the context of the proofs small.           *)
(***************************************************************************)
EXTENDS Integers, Sequences, FiniteSetsExt

Members(s) == {s[i] : i \in DOMAIN s}

RemoveFirst(s, e) ==
  LET at == {i \in 1..Len(s) : s[i] = e}
  IN  IF at = {} THEN s ELSE SubSeq(s, 1, Min(at) - 1) \o SubSeq(s, Min(at) + 1, Len(s))

Reverse(s) == [i \in 1..Len(s) |-> s[Len(s) - i + 1]]

FlattenSeq(lists) ==
  LET first[n \in 0..Len(lists)] == IF n = 0 THEN <<>> ELSE first[n - 1] \o lists[n]
  IN  first[Len(lists)]

BoundedSeq(S, n) == UNION {[1..m -> S] : m \in 0..n}

=============================================================================
