----------------------------- MODULE UdtPeerCache -----------------------------
(***************************************************************************)
(* CCache<CInfoBlock>: what a process remembers of its peers (round trip   *)
(* time and bandwidth), from close to the next connect.  A list of items,  *)
(* the newest first, and a table of lists of pointers to them.  A key is   *)
(* the 32 bits of an address; a negative one is neither kept nor found.    *)
(*                                                                         *)
(* When the cache overflows, item_list is assigned the bucket of the       *)
(* oldest item, and being a reference it stays bound to the bucket of the  *)
(* new one: unless both are the same bucket, the new item is lost, and the *)
(* old one's pointer outlives it.  What happens then is undefined; the     *)
(* cache is damaged, and takes no step any more.                           *)
(***************************************************************************)
EXTENDS Integers, Sequences, SequencesExt

CONSTANTS
  CacheKeys,  \* keys of the peers
  CacheSize,  \* m_iMaxSize
  MaxUpdates  \* bound: updates; the n-th one carries the value n

ASSUME CacheAssumption == CacheKeys \subseteq Int /\ CacheSize \in Nat \ {0, 1} /\ MaxUpdates \in Nat

VARIABLES
  storage,   \* m_StorageList: keys, the newest first
  buckets,   \* m_vHashPtr: keys of the items pointed to
  value,     \* of the item of a key
  updates,   \* how many there were
  latest,    \* history: the last value of each key, 0 for none
  damaged    \* a pointer has outlived its item

cacheVars == <<storage, buckets, value, updates, latest, damaged>>

HashSlots == 3 * CacheSize
Slot(k) == IF k >= CacheSize THEN k % HashSlots ELSE k

CacheInit ==
  /\ storage = <<>> /\ buckets = [b \in 0..(HashSlots - 1) |-> <<>>]
  /\ value = [k \in CacheKeys |-> 0] /\ updates = 0
  /\ latest = [k \in CacheKeys |-> 0] /\ damaged = FALSE

\* lookup: what it copies to the caller, or -1.
CacheLookup(k) ==
  IF k < 0 THEN -1 ELSE IF Contains(buckets[Slot(k)], k) THEN value[k] ELSE -1

ToFront(list, k) == <<k>> \o RemoveFirst(list, k)

\* update: the item of a key that is known moves to the front.
UpdateKnown(k) ==
  /\ k >= 0 /\ Contains(buckets[Slot(k)], k)
  /\ storage' = ToFront(storage, k)
  /\ buckets' = [buckets EXCEPT ![Slot(k)] = ToFront(@, k)]
  /\ UNCHANGED damaged

\* Mutant: the pointer of the oldest item is left in its bucket.
WithoutOldestKept(b, old) == b

\* The bucket of the oldest item without its pointer.
WithoutOldest(b, old) == RemoveFirst(b, old)

\* A new item goes to the front, and the oldest one goes when the limit is reached.
UpdateNew(k) ==
  LET full  == Len(storage) + 1 >= CacheSize
      old   == Last(<<k>> \o storage)
      added == [buckets EXCEPT ![Slot(k)] = <<k>> \o @]
  IN  /\ k >= 0 /\ ~Contains(buckets[Slot(k)], k)
      /\ storage' = IF full THEN Front(<<k>> \o storage) ELSE <<k>> \o storage
      /\ buckets' = IF full THEN [added EXCEPT ![Slot(k)] =
                                    WithoutOldest(added[old % HashSlots], old)]
                    ELSE added
      /\ damaged' = (full /\ Slot(k) # old % HashSlots)

\* A key with its highest bit set.
UpdateRefused(k) == k < 0 /\ UNCHANGED <<storage, buckets, damaged>>

CacheUpdate(k) ==
  /\ ~damaged /\ updates < MaxUpdates
  /\ updates' = updates + 1
  /\ UpdateKnown(k) \/ UpdateNew(k) \/ UpdateRefused(k)
  /\ value' = IF k < 0 THEN value ELSE [value EXCEPT ![k] = updates']
  /\ latest' = [latest EXCEPT ![k] = updates']

CacheNext == \E k \in CacheKeys : CacheUpdate(k)

CacheSpec == CacheInit /\ [][CacheNext]_cacheVars

-----------------------------------------------------------------------------
\* As long as the cache is not damaged, every pointer leads to an item and every item has
\* one, in the bucket where lookup searches it.
PointersHaveItems ==
  ~damaged =>
    /\ \A b \in DOMAIN buckets : \A i \in DOMAIN buckets[b] :
         Slot(buckets[b][i]) = b /\ Contains(storage, buckets[b][i])
    /\ \A i \in DOMAIN storage :
         \E j \in DOMAIN buckets[Slot(storage[i])] :
           \A l \in DOMAIN buckets[Slot(storage[i])] :
             buckets[Slot(storage[i])][l] = storage[i] <=> l = j

\* A peer that is found has the values of its last connection, and those that are not found
\* (but for negative keys) were last used before all that are.
OldestGoFirst ==
  ~damaged =>
    LET found == {k \in CacheKeys : CacheLookup(k) # -1}
    IN  \A l \in found :
          /\ CacheLookup(l) = latest[l]
          /\ \A k \in CacheKeys \ found : k >= 0 => latest[k] < latest[l]

\* The cache finds the latest values of the peers used last.
CacheIsRight == PointersHaveItems /\ OldestGoFirst
=============================================================================
