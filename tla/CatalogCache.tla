---------------------------- MODULE CatalogCache ----------------------------
(***************************************************************************)
(* What the station-path catalogues of PathSampler promise: a request is   *)
(* answered with the catalogue of the pair asked for, and which catalogues *)
(* are kept follows from the requests alone, by recency and by bytes, as   *)
(* if every one were in memory.  CatalogStore, with its tier on disk,      *)
(* implements this.                                                        *)
(***************************************************************************)
EXTENDS Integers, Sequences, SequencesExt, FiniteSetsExt

CONSTANTS
  Key,      \* pairs of anchors
  Bytes,    \* retained_bytes of the catalogue of a pair
  Budget,   \* catalog_cache_budget_
  Nothing

VARIABLES
  kept,     \* the pairs whose catalogue is kept, oldest use first
  answer    \* the catalogue given last

vars == <<kept, answer>>

Size(s) == FoldLeft(LAMBDA sum, k : sum + Bytes[k], 0, s)

Suffix(s, n) == SubSeq(s, n + 1, Len(s))

Fewest(k) ==
  Min({n \in 0 .. Len(kept) : Size(Suffix(kept, n)) + Bytes[k] <= Budget})

Init == kept = <<>> /\ answer = Nothing

Refresh(k) ==
  /\ \E i \in DOMAIN kept : kept[i] = k /\ kept' = Append(RemoveAt(kept, i), k)
  /\ answer' = k

Admit(k) ==
  /\ ~Contains(kept, k)
  /\ Bytes[k] <= Budget
  /\ kept' = Append(Suffix(kept, Fewest(k)), k)
  /\ answer' = k

\* A catalogue larger than the budget is given without being kept.
PassThrough(k) ==
  /\ ~Contains(kept, k)
  /\ Bytes[k] > Budget
  /\ answer' = k
  /\ UNCHANGED kept

\* The proxy scan may be given a catalogue that is not kept, or none.
Peek(k) ==
  /\ ~Contains(kept, k)
  /\ answer' \in {k, Nothing}
  /\ UNCHANGED kept

Next == \E k \in Key : Refresh(k) \/ Admit(k) \/ PassThrough(k) \/ Peek(k)

Spec == Init /\ [][Next]_vars
=============================================================================
