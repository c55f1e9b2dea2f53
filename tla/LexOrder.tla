------------------------------ MODULE LexOrder ------------------------------
(***************************************************************************)
(* Lexicographic order, by which the code settles what costs leave open:   *)
(* the keys of insertion_better and regret_better, the removals of         *)
(* Perturbation::destroy, and the visits that std::lexicographical_compare *)
(* puts in order (search.cpp).                                             *)
(***************************************************************************)
EXTENDS Integers, Sequences

\* s and t agree up to position k, where s is over or has the smaller entry.
LessAt(s, t, k) ==
  /\ k \in 1 .. Len(s) + 1 /\ k \in DOMAIN t
  /\ \A j \in 1 .. k - 1 : s[j] = t[j]
  /\ k \in DOMAIN s => s[k] < t[k]

LexLess(s, t) == \E k \in DOMAIN t : LessAt(s, t, k)

Least(S, Key(_)) == CHOOSE x \in S : \A y \in S \ {x} : LexLess(Key(x), Key(y))
=============================================================================
