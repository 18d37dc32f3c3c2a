------------------------------- MODULE LruCache -------------------------------
(***************************************************************************)
(* One shard of the LRU cache (util/cache.cc) as the table cache            *)
(* (db/table_cache.cc) uses it: a lookup that misses opens the file without  *)
(* any lock, so two threads may insert the same key; an entry is freed when  *)
(* the last of the cache and the holders of its handle lets go.              *)
(* Every operation of the shard runs under its mutex_.                       *)
(***************************************************************************)
EXTENDS Integers, FiniteSets, Sequences, SequencesExt

CONSTANTS
  CacheKeys,  \* file numbers
  Charge,     \* the charge of each key
  Capacity,   \* capacity_ of the shard
  Clients,    \* threads that use tables
  Handles     \* memory for LRUHandles: enough for every key and client

ASSUME CacheAssumption ==
  /\ Charge \in [CacheKeys -> Nat] /\ Capacity \in Nat
  /\ Cardinality(Handles) >= Cardinality(CacheKeys) + Cardinality(Clients)

VARIABLES
  handle,   \* each LRUHandle: key and refs; refs = 0 once it is freed
  lru,      \* the handles of the list, oldest first
  table,    \* HandleTable: key -> handle, or NoHandle
  usage,    \* usage_
  client,   \* what each thread does, and the handle it holds
  deleted   \* the cache has been deleted

cacheVars == <<handle, lru, table, usage, client, deleted>>

NoHandle == "none"

shard == [handle |-> handle, lru |-> lru, table |-> table, usage |-> usage]

Becomes(s) ==
  handle' = s.handle /\ lru' = s.lru /\ table' = s.table /\ usage' = s.usage

CacheInit ==
  /\ handle = [h \in Handles |-> [key |-> NoHandle, refs |-> 0]]
  /\ lru = <<>>
  /\ table = [k \in CacheKeys |-> NoHandle]
  /\ usage = 0
  /\ client = [c \in Clients |-> [pc |-> "idle"]]
  /\ deleted = FALSE

Unref(s, h) ==
  [s EXCEPT !.handle[h].refs = @ - 1,
            !.usage = IF s.handle[h].refs = 1 THEN @ - Charge[s.handle[h].key] ELSE @]

LRU_Remove(list, h) == SelectSeq(list, LAMBDA x : x # h)

LRU_Append(list, h) == Append(list, h)

\* HandleTable: one slot for each key, whatever bucket it is in.
HandleTable_Insert(slots, k, h) == [slots EXCEPT ![k] = h]
HandleTable_Remove(slots, k) == [slots EXCEPT ![k] = NoHandle]

\* The oldest entry leaves the list and the table.
EvictOldest(s) ==
  LET old == s.lru[1]
  IN  Unref([s EXCEPT !.lru = Tail(@), !.table = HandleTable_Remove(@, s.handle[old].key)], old)

\* The loop at the end of Insert.
Evict(s) ==
  LET after[n \in 0 .. Len(s.lru)] ==
        IF n = 0 THEN s
        ELSE LET t == after[n - 1] IN IF t.usage > Capacity THEN EvictOldest(t) ELSE t
  IN  after[Len(s.lru)]

-----------------------------------------------------------------------------
(* TableCache::FindTable, in two steps. *)

Hit(s, h) == [s EXCEPT !.handle[h].refs = @ + 1, !.lru = LRU_Append(LRU_Remove(@, h), h)]

CacheLookup(c, k) ==
  /\ client[c].pc = "idle" /\ ~deleted
  /\ IF table[k] # NoHandle
       THEN /\ Becomes(Hit(shard, table[k]))
            /\ client' = [client EXCEPT ![c] = [pc |-> "hold", handle |-> table[k]]]
       ELSE /\ Becomes(shard)
            /\ client' = [client EXCEPT ![c] = [pc |-> "open", key |-> k]]
  /\ UNCHANGED deleted

\* The table cannot be opened: nothing is cached.
FindTableFails(c) ==
  /\ client[c].pc = "open"
  /\ client' = [client EXCEPT ![c] = [pc |-> "idle"]]
  /\ UNCHANGED <<handle, lru, table, usage, deleted>>

\* Mutant: an entry that is replaced stays in the list.
ReplacedStays(s, old) == IF old = NoHandle THEN s ELSE Unref(s, old)

\* Insert lets go of the entry that had the key before.
Replaced(s, old) ==
  IF old = NoHandle THEN s ELSE Unref([s EXCEPT !.lru = LRU_Remove(@, old)], old)

\* A new entry, one reference for the cache and one for the handle returned.
NewEntry(s, k, h) ==
  [s EXCEPT !.handle[h] = [key |-> k, refs |-> 2],
            !.lru = LRU_Append(@, h),
            !.usage = @ + Charge[k],
            !.table = HandleTable_Insert(@, k, h)]

CacheInsert(c) ==
  /\ client[c].pc = "open"
  /\ LET k == client[c].key
         h == CHOOSE x \in Handles : handle[x].refs = 0
     IN  /\ Becomes(Evict(Replaced(NewEntry(shard, k, h), table[k])))
         /\ client' = [client EXCEPT ![c] = [pc |-> "hold", handle |-> h]]
  /\ UNCHANGED deleted

\* TableCache::Get and NewIterator read through the handle they found and let go
\* of it: after InternalGet, or when the iterator is destroyed (UnrefEntry).
DoneWithTable(c) ==
  /\ client[c].pc = "hold"
  /\ Becomes(Unref(shard, client[c].handle))
  /\ client' = [client EXCEPT ![c] = [pc |-> "idle"]]
  /\ UNCHANGED deleted

\* TableCache::Evict, when DeleteObsoleteFiles removes the file.
Erase(k) ==
  /\ table[k] # NoHandle /\ ~deleted
  /\ Becomes(Unref([shard EXCEPT !.lru = LRU_Remove(@, table[k]),
                             !.table = HandleTable_Remove(@, k)], table[k]))
  /\ UNCHANGED <<client, deleted>>

\* ~LRUCache, once nobody uses the cache.
DeleteCache ==
  /\ ~deleted /\ \A c \in Clients : client[c].pc = "idle"
  /\ LET after[n \in 0 .. Len(lru)] ==
           IF n = 0 THEN shard ELSE Unref(after[n - 1], lru[n])
     IN  Becomes([after[Len(lru)] EXCEPT !.lru = <<>>, !.table = [k \in CacheKeys |-> NoHandle]])
  /\ deleted' = TRUE
  /\ UNCHANGED client

CacheNext ==
  \/ \E c \in Clients : (\E k \in CacheKeys : CacheLookup(c, k)) \/ FindTableFails(c) \/ CacheInsert(c) \/ DoneWithTable(c)
  \/ \E k \in CacheKeys : Erase(k)
  \/ DeleteCache

CacheSpec == CacheInit /\ [][CacheNext]_cacheVars

-----------------------------------------------------------------------------
(* Properties. *)

Holders(h) == {c \in Clients : client[c].pc = "hold" /\ client[c].handle = h}

Live == {h \in Handles : handle[h].refs > 0}

\* A handle is counted once for the cache and once for each holder; so the
\* table a reader uses is never freed under it, and one that was replaced or
\* evicted meanwhile is freed by its last holder.
RefsExact ==
  \A h \in Handles :
    handle[h].refs = Cardinality(Holders(h)) + (IF h \in Range(lru) THEN 1 ELSE 0)

\* The list and the hash table hold the same entries, each once and under its
\* own key, also after two threads inserted the same key.
TableMatchesList ==
  /\ Range(lru) = Range(table) \ {NoHandle}
  /\ Cardinality(Range(lru)) = Len(lru)
  /\ \A k \in CacheKeys : table[k] # NoHandle => handle[table[k]].key = k

\* usage_ is the sum of the charges of all entries that are not freed, those
\* that only a reader still holds included.
UsageExact == usage = FoldSet(LAMBDA h, sum : sum + Charge[handle[h].key], 0, Live)

\* The shard is over its capacity only as far as readers pin entries: then the
\* cache itself keeps none.
CapacityRespected == usage > Capacity => lru = <<>>

\* The shard as a whole: counts, list, table and usage agree with one another
\* and with who holds what.
CacheSound == RefsExact /\ TableMatchesList /\ UsageExact /\ CapacityRespected
=============================================================================
