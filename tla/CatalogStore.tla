---------------------------- MODULE CatalogStore ----------------------------
(***************************************************************************)
(* The catalogues of PathSampler in their three tiers: the byte-bounded    *)
(* memory cache of path_catalog (src/src/search.cpp), the run-local files  *)
(* of src/src/catalog_disk_cache.inc, and the cache of verified pages that *)
(* serves packed catalogues straight from their files.                     *)
(*                                                                         *)
(* A catalogue that left memory comes back from its file: a packed one as  *)
(* an indexed handle, whose file is opened and whose 64-KiB blocks are     *)
(* read and verified when an operation needs them; a flat one read and     *)
(* verified as a whole, or else rebuilt.  Files fail: a write may stop     *)
(* anywhere, and a finished file may be damaged at any time.  A failed     *)
(* read of an indexed catalogue is an exception nothing catches.           *)
(*                                                                         *)
(* Sizes are in units of which the header takes one.  Block 0 of a file is *)
(* its header: damage to it stands for all that opening the file notices.  *)
(* The count and metadata limits on records, second quotas of the kind     *)
(* modelled, are left out.  So is a second open reader: no operation nests *)
(* them, and the limit of eight is not reached.                            *)
(*                                                                         *)
(* A definition marked "Mutant" is a mistaken form of the one after it,    *)
(* used by nothing, to see that a property notices the mistake.            *)
(***************************************************************************)
EXTENDS LruCache, FiniteSets

CONSTANTS
  Key,          \* pairs of anchors
  Bytes,        \* what the catalogue of a pair retains in memory
  Block,        \* the sizes of the blocks of its payload, in order
  Budget,       \* catalog_cache_budget_
  DiskLimit,    \* byte_limit
  PageBudget,   \* budget of the page cache
  Signature,    \* floating-point modes the bounds support
  Nothing, Corrupt

ASSUME SizeAssumption ==
  /\ Bytes \in [Key -> Nat]
  /\ Block \in [Key -> Seq(Nat)]
  /\ {Budget, DiskLimit, PageBudget} \subseteq Nat

ASSUME SwitchAssumption ==
  /\ {"none", "reserved", "unsupported"} \cap Signature = {}
  /\ {Nothing, Corrupt} \cap Key = {}

VARIABLES
  packed,     \* whether the sampler packs its catalogues
  ram,        \* catalog_cache_: [key, indexed, bytes] by recency
  ramBytes,   \* catalog_cache_bytes_
  answer,     \* the catalogue path_catalog returned last
  held,       \* the pairs of the indexed handles the operation holds
  records,    \* the manifest: "none", "reserved" or, complete, its mode
  charged,    \* charged_bytes
  files,      \* by pair, the file's name ("part", "cat") and size
  damaged,    \* blocks of files that no longer hold what was written
  pages,      \* state.pages: [key, content, bytes] by recency
  pageBytes,  \* state.bytes
  reader,     \* the pair whose indexed catalogue is being read
  misread,    \* whether the last value read was not the one written
  failed      \* an exception ended the run

memory == <<ram, ramBytes>>
disk == <<records, charged, files>>
pageState == <<pages, pageBytes>>
storeVars == <<packed, memory, answer, held, disk, damaged, pageState, reader, misread,
          failed>>

Unwritten == [name |-> "none", size |-> 0]

StoreInit ==
  /\ packed \in BOOLEAN
  /\ ram = <<>> /\ ramBytes = 0
  /\ answer = Nothing /\ held = {}
  /\ records = [k \in Key |-> "none"]
  /\ charged = 1  \* the directory's own block
  /\ files = [k \in Key |-> Unwritten]
  /\ damaged = {}
  /\ pages = <<>> /\ pageBytes = 0
  /\ reader = Nothing /\ misread = FALSE /\ failed = FALSE
-----------------------------------------------------------------------------
(* Memory *)

FileSize(k) == 1 + FoldLeft(+, 0, Block[k])

\* Mutant: the restored handle is charged for what its file holds.
RestoredByCounts(k) == FileSize(k)

\* The header records the capacities of the built catalogue's vectors, so a
\* restored one is charged as the one it stands for.
RestoredBytes(k) == Bytes[k]

\* Evicts the oldest until the newcomer fits; one that never fits is not kept.
Admit(k, indexed, bytes) ==
  LET n == Overflow(ram, ramBytes, Budget - bytes)
      newcomer == [key |-> k, indexed |-> indexed, bytes |-> bytes]
  IN IF bytes > Budget THEN UNCHANGED memory
     ELSE /\ ram' = Put(Younger(ram, n), newcomer)
          /\ ramBytes' = ramBytes - TotalBytes(SubSeq(ram, 1, n)) + bytes

Return(k, indexed) ==
  /\ answer' = k
  /\ held' = IF indexed THEN held \union {k} ELSE held

Hit(k) ==
  /\ Holds(ram, k)
  /\ ram' = Touch(ram, k)
  /\ Return(k, Entry(ram, k).indexed)
  /\ UNCHANGED <<ramBytes, disk>>
-----------------------------------------------------------------------------
(* The files.  f is the floating-point mode found at the time. *)

Mode == Signature \union {"unsupported"}

Restorable(k, f) == f \in Signature /\ records[k] = f

Intact(k) == \A b \in damaged : b[1] # k

\* A flat file is compared with its header and checksum before it is used.
FlatIntact(k) == Intact(k)

Restored(k) == IF packed \/ Intact(k) THEN k ELSE Corrupt

Loads(k, f) == Restorable(k, f) /\ (packed \/ FlatIntact(k))

Restore(k, f) ==
  /\ ~Holds(ram, k)
  /\ Loads(k, f)
  /\ Admit(k, packed, RestoredBytes(k))
  /\ Return(Restored(k), packed)
  /\ UNCHANGED disk

\* Whole file-system blocks and the directory entry's slack.
Charge(k) == FileSize(k) + 1

MayStore(k, f) ==
  /\ records[k] = "none"
  /\ f \in Signature
  /\ Charge(k) <= DiskLimit - charged

\* Nothing to do, no quota, or the file system refuses beforehand.
SkipStore == UNCHANGED disk

Publish(k, f) ==
  /\ MayStore(k, f)
  /\ records' = [records EXCEPT ![k] = f]
  /\ charged' = charged + Charge(k)
  /\ files' = [files EXCEPT ![k] = [name |-> "cat", size |-> FileSize(k)]]

\* A store that fails keeps its reservation: what it wrote stays behind.
KeptOnFailure(k) == charged + Charge(k)

\* Opening, writing or renaming fails; the record is never completed.
AbandonStore(k, f) ==
  /\ MayStore(k, f)
  /\ records' = [records EXCEPT ![k] = "reserved"]
  /\ charged' = KeptOnFailure(k)
  /\ \/ UNCHANGED files
     \/ \E n \in 0 .. FileSize(k) :
          files' = [files EXCEPT ![k] = [name |-> "part", size |-> n]]

Rebuild(k, f) ==
  /\ ~Holds(ram, k)
  /\ ~Loads(k, f)
  /\ SkipStore \/ Publish(k, f) \/ AbandonStore(k, f)
  /\ Admit(k, FALSE, Bytes[k])
  /\ Return(k, FALSE)

Idle == ~failed /\ reader = Nothing

\* path_catalog
PathCatalog(k, f) ==
  /\ Idle
  /\ Hit(k) \/ Restore(k, f) \/ Rebuild(k, f)
  /\ UNCHANGED <<damaged, pageState, reader, misread, failed>>

\* The bounded proxy takes an indexed handle without admitting it to memory,
\* and none when there is neither a kept catalogue nor a packed record.
PeekCatalog(k, f) ==
  /\ Idle
  /\ ~Holds(ram, k)
  /\ \/ packed /\ Restorable(k, f) /\ Return(k, TRUE)
     \/ ~(packed /\ Restorable(k, f)) /\ answer' = Nothing /\ UNCHANGED held
  /\ UNCHANGED <<memory, disk, damaged, pageState, reader, misread, failed>>

\* The operation ends and drops its handles.
Release ==
  /\ Idle
  /\ held # {}
  /\ held' = {}
  /\ UNCHANGED <<memory, answer, disk, damaged, pageState, reader, misread,
                 failed>>

\* The environment: a finished file loses a block.
Damage(k, c) ==
  /\ ~failed
  /\ files[k].name = "cat"
  /\ damaged' = damaged \union {<<k, c>>}
  /\ UNCHANGED <<memory, answer, held, disk, pageState, reader, misread,
                 failed>>
-----------------------------------------------------------------------------
(* Reading an indexed catalogue *)

\* The exception closes the reader and drops every handle on its way out.
Fail ==
  /\ failed' = TRUE
  /\ reader' = Nothing
  /\ held' = {}
  /\ UNCHANGED <<memory, answer, disk, damaged, misread>>

OpenReader(k) ==
  /\ Idle
  /\ k \in held
  /\ <<k, 0>> \notin damaged
  /\ reader' = k
  /\ UNCHANGED <<memory, answer, held, disk, damaged, pageState, misread,
                 failed>>

OpenFails(k) == Idle /\ k \in held /\ Fail /\ UNCHANGED pageState

CloseReader ==
  /\ reader # Nothing
  /\ reader' = Nothing
  /\ UNCHANGED <<memory, answer, held, disk, damaged, pageState, misread,
                 failed>>

\* Mutant: pages of different files with the same offset share a key.
PageByOffset(k, c) == c

PageKey(k, c) == <<k, c>>

PageCharge(k, c) == Block[k][c] + 1

Content(k, c) == IF <<k, c>> \in damaged THEN Corrupt ELSE <<k, c>>

Deliver(k, c, content) ==
  /\ misread' = (content # <<k, c>>)
  /\ UNCHANGED <<memory, answer, held, disk, damaged, reader, failed>>

PageHit(k, c) ==
  /\ reader = k
  /\ Holds(pages, PageKey(k, c))
  /\ pages' = Touch(pages, PageKey(k, c))
  /\ Deliver(k, c, Entry(pages, PageKey(k, c)).content)
  /\ UNCHANGED pageBytes

Missing(k, c) == reader = k /\ ~Holds(pages, PageKey(k, c))

\* Only a page whose checksum agrees goes on.
Verified(k, c) == <<k, c>> \notin damaged

GivenUp(n, charge) == TotalBytes(SubSeq(pages, 1, n))

InsertPage(k, c) ==
  LET charge == PageCharge(k, c)
      n == Overflow(pages, pageBytes, PageBudget - charge)
      page == [key |-> PageKey(k, c), content |-> Content(k, c),
               bytes |-> charge]
  IN IF charge > PageBudget THEN UNCHANGED pageState
     ELSE /\ pages' = Put(Younger(pages, n), page)
          /\ pageBytes' = pageBytes - GivenUp(n, charge) + charge

ReadBlock(k, c) ==
  /\ Missing(k, c)
  /\ Verified(k, c)
  /\ InsertPage(k, c)
  /\ Deliver(k, c, Content(k, c))

ReadFails(k, c) ==
  /\ Missing(k, c)
  /\ ~Verified(k, c)
  /\ Fail
  /\ UNCHANGED pageState

\* No memory for the page's node: the whole page cache is given up.
InsertFails(k, c) ==
  /\ Missing(k, c)
  /\ Verified(k, c)
  /\ PageCharge(k, c) <= PageBudget
  /\ pages' = <<>> /\ pageBytes' = 0
  /\ Fail

Read(k) ==
  \E c \in DOMAIN Block[k] :
    PageHit(k, c) \/ ReadBlock(k, c) \/ ReadFails(k, c) \/ InsertFails(k, c)

StoreNext ==
  \/ \E k \in Key, f \in Mode : PathCatalog(k, f) \/ PeekCatalog(k, f)
  \/ Release
  \/ \E k \in Key : OpenReader(k) \/ OpenFails(k) \/ Read(k)
  \/ CloseReader
  \/ \E k \in Key : \E c \in 0 .. Len(Block[k]) : Damage(k, c)

\* The layout is chosen when the sampler is built.
StoreSpec == StoreInit /\ [][StoreNext /\ UNCHANGED packed]_storeVars
-----------------------------------------------------------------------------
(* Properties *)

KeptKeys == [i \in DOMAIN ram |-> ram[i].key]

Cache == INSTANCE CatalogCache WITH kept <- KeptKeys

(* The tier on disk is invisible: each request is answered with the        *)
(* catalogue asked for, and memory keeps what it would keep without files, *)
(* so that a restoration has the "same object lifetime and RAM admission   *)
(* as an ordinary rebuild" (path_catalog) whatever was stored, abandoned,  *)
(* damaged or refused before.                                              *)
CacheSpec == Cache!Spec

(* A value read from an indexed catalogue is the one written to that       *)
(* record and block, though pages of several records share one cache,      *)
(* outlive their reader and their file decays meanwhile (copy_value).      *)
ReadsTrue == ~misread

=============================================================================
