------------------------------ MODULE LruCache ------------------------------
(***************************************************************************)
(* The recently-used order of LruCache (src/include/ils_sp/lru_cache.hpp): *)
(* a sequence of entries [key, bytes, ...] from the oldest to the latest   *)
(* use, in which a key occurs once.  The caches of this project that are   *)
(* bounded by bytes give LruCache an unlimited number of entries and evict *)
(* by themselves, the oldest entries first; Overflow counts those.         *)
(***************************************************************************)
EXTENDS Integers, Sequences, SequencesExt, FiniteSetsExt

Holds(order, k) == \E i \in DOMAIN order : order[i].key = k

Place(order, k) == CHOOSE i \in DOMAIN order : order[i].key = k

Entry(order, k) == order[Place(order, k)]

Others(order, k) == IF Holds(order, k) THEN RemoveAt(order, Place(order, k)) ELSE order

\* get: a hit becomes the latest use.
Touch(order, k) == Append(Others(order, k), Entry(order, k))

\* put: a new entry, or the new value of an old one, is the latest use.
Put(order, e) == Append(Others(order, e.key), e)

TotalBytes(order) == FoldLeft(LAMBDA sum, e : sum + e.bytes, 0, order)

Younger(order, n) == SubSeq(order, n + 1, Len(order))

\* How often discard_oldest runs, by the owner's count of the bytes in use,
\* before the rest leaves room (or nothing is left).
Overflow(order, used, room) ==
  Min({n \in 0 .. Len(order) :
         n = Len(order) \/ used - TotalBytes(SubSeq(order, 1, n)) <= room})
=============================================================================
