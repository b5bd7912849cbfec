------------------------------ MODULE CacheLib ------------------------------
(***************************************************************************)
(* The cache library, cache_lib.cc: class Cache over Cache::Impl.          *)
(*                                                                         *)
(* Every public operation runs under one global mutex, so get, del and     *)
(* space_used are single steps.  Set is split where its eviction loop      *)
(* iterates and reset where it frees one entry, the steps in between       *)
(* holding the mutex.  An assert() that fails ends the process: `failed'   *)
(* names it and no action is enabled any more.                             *)
(***************************************************************************)
EXTENDS Integers, EvictionOrder

CONSTANTS
  Keys,       \* the keys callers use
  Sizes,      \* the sizes (in bytes) of the values callers set
  Buffers,    \* addresses new[] can return: a finite heap
  MaxMem,     \* Impl::my_maxmem
  IntMax,     \* INT_MAX; uint32_t has the values 0 .. 2*IntMax+1
  Policies,   \* the evictors a cache is built with: "LRU", "FIFO", or
              \* "none" for a null Evictor*
  MaxQueue,   \* bound on the FIFO queue, which grows with every touch
  NoSet       \* no call of Impl::set is in progress

UintMod == 2 * (IntMax + 1)

ASSUME WidthAssumption == IntMax \in Nat /\ MaxMem \in 0 .. UintMod - 1
ASSUME SizesAssumption == Sizes \subseteq 0 .. UintMod - 1
ASSUME PolicyAssumption == Policies \subseteq {"LRU", "FIFO", "none"}
ASSUME QueueAssumption == MaxQueue \in Nat

Entries == [buf : Buffers, size : Sizes]
Calls == [key : Keys, size : Sizes, buf : Buffers, change : Int]
ASSUME NoSetAssumption == NoSet \notin Calls

VARIABLES
  my_evictor,   \* the policy of Impl::my_evictor
  table,        \* Impl::table, a function on the keys present
  current_mem,  \* Impl::current_mem, a uint32_t
  order,        \* the evictor's keys, next victim first
  live,         \* value buffers allocated and not deleted
  setting,      \* locals of the Impl::set in progress, or NoSet
  resetting,    \* Impl::reset in progress
  failed        \* the assertion that failed, or "none"

vars == <<my_evictor, table, current_mem, order, live, setting, resetting, failed>>

----------------------------------------------------------------------------
(* C++ integers                                                            *)

\* int(u) for a uint32_t u, and a uint32_t result of adding or subtracting.
ToInt(u) == IF u <= IntMax THEN u ELSE u - UintMod
ToUint(n) == IF n < 0 THEN n + UintMod ELSE IF n >= UintMod THEN n - UintMod ELSE n

\* What a signed addition can yield: overflow is undefined, and the code
\* compiled for it either wraps or compares the exact value.
Wrapped(n) == IF n > IntMax THEN n - UintMod
              ELSE IF n < -(IntMax + 1) THEN n + UintMod ELSE n
IntSum(a, b) == {a + b, Wrapped(a + b)}

----------------------------------------------------------------------------
(* Impl's helpers                                                          *)

Running == failed = "none"
\* Mutant of MutexFree: reset does not lock.
ResetUnlocked == setting = NoSet
MutexFree == setting = NoSet /\ ~resetting

\* my_evictor->touch_key(key), when there is an evictor.
Touched(k) == CASE my_evictor = "LRU"  -> LRUTouch(order, k)
                [] my_evictor = "FIFO" -> FIFOTouch(order, k)
                [] my_evictor = "none" -> order

QueueHasRoom == my_evictor = "FIFO" => Len(order) < MaxQueue

\* The assertion Impl::free starts with.
FreeFailure(k) == IF current_mem >= table[k].size THEN "none" ELSE "size"
\* Mutants of Free: the count, the buffer or the entry is forgotten.
FreeKeepsCount(k) ==
  /\ UNCHANGED current_mem
  /\ live' = live \ {table[k].buf}
  /\ table' = Restrict(table, DOMAIN table \ {k})
FreeLeaks(k) ==
  /\ current_mem' = ToUint(current_mem - table[k].size)
  /\ UNCHANGED live
  /\ table' = Restrict(table, DOMAIN table \ {k})
FreeKeepsEntry(k) ==
  /\ current_mem' = ToUint(current_mem - table[k].size)
  /\ live' = live \ {table[k].buf}
  /\ UNCHANGED table

\* Impl::free, apart from the assertion it starts with.
Free(k) ==
  /\ current_mem' = ToUint(current_mem - table[k].size)
  /\ live' = live \ {table[k].buf}
  /\ table' = Restrict(table, DOMAIN table \ {k})

\* size_change as set computes it before the loop.
SizeChange(k, s) ==
  IF k \in DOMAIN table THEN IntSum(ToInt(s), -ToInt(table[k].size)) ELSE {ToInt(s)}

\* int(current_mem) + size_change > int(my_maxmem), either way it can come out.
Exceeds(change) == \E sum \in IntSum(ToInt(current_mem), change) : sum > ToInt(MaxMem)
Fits(change) == \E sum \in IntSum(ToInt(current_mem), change) : sum <= ToInt(MaxMem)

\* Mutants: >= in the place of >; an early return of set dropped.
RefusesAtLimit(change) == change >= ToInt(MaxMem) \/ (my_evictor = "none" /\ Exceeds(change))
AcceptsOversize(change) == my_evictor = "none" => Fits(change)

\* The two early returns of set.
Refuses(change) == change > ToInt(MaxMem) \/ (my_evictor = "none" /\ Exceeds(change))
Accepts(change) == change <= ToInt(MaxMem) /\ (my_evictor = "none" => Fits(change))

----------------------------------------------------------------------------
Init ==
  /\ my_evictor \in Policies
  /\ table = <<>>
  /\ current_mem = 0
  /\ order = <<>>
  /\ live = {}
  /\ setting = NoSet
  /\ resetting = FALSE
  /\ failed = "none"

\* set returns early; the copy of the value it has made is not deleted.
SetRefused(k, s) ==
  /\ Running /\ MutexFree
  /\ current_mem <= MaxMem
  /\ \E change \in SizeChange(k, s) : Refuses(change)
  /\ \E b \in Buffers \ live : live' = live \union {b}
  /\ UNCHANGED <<my_evictor, table, current_mem, order, setting, resetting, failed>>

\* set up to its loop: lock, copy the value, compute size_change.
SetBegin(k, s) ==
  /\ Running /\ MutexFree
  /\ QueueHasRoom
  /\ \E b \in Buffers \ live, change \in SizeChange(k, s) :
       /\ Accepts(change)
       /\ live' = live \union {b}
       /\ setting' = [key |-> k, size |-> s, buf |-> b, change |-> change]
  /\ failed' = IF current_mem <= MaxMem THEN "none" ELSE "maxmem"
  /\ UNCHANGED <<my_evictor, table, current_mem, order, resetting>>

\* An iteration of the loop whose victim the table no longer holds.
EvictStale ==
  /\ Running /\ setting # NoSet
  /\ Exceeds(setting.change)
  /\ EvictKey(order) \notin DOMAIN table
  /\ order' = EvictRest(order)
  /\ failed' = IF EvictKey(order) = EmptyKey THEN "eviction_key" ELSE "none"
  /\ UNCHANGED <<my_evictor, table, current_mem, live, setting, resetting>>

\* Mutant of Recomputed: an overwrite whose old value has gone still counts it.
RecomputedNever(victim) == setting.change

\* size_change after evicting the victim: nothing is overwritten any more when
\* it was the key being set.
Recomputed(victim) ==
  IF victim = setting.key THEN ToInt(setting.size) ELSE setting.change

\* An iteration that frees its victim, which may be the key being set.
EvictEntry ==
  LET victim == EvictKey(order) IN
  /\ Running /\ setting # NoSet
  /\ Exceeds(setting.change)
  /\ victim \in DOMAIN table
  /\ order' = EvictRest(order)
  /\ Free(victim)
  /\ failed' = IF victim = EmptyKey THEN "eviction_key" ELSE FreeFailure(victim)
  /\ setting' = [setting EXCEPT !.change = Recomputed(victim)]
  /\ UNCHANGED <<my_evictor, resetting>>

\* set after its loop: free the old entry, insert the new one, touch, unlock.
SetFinish ==
  /\ Running /\ setting # NoSet
  /\ Fits(setting.change)
  /\ LET k == setting.key
         replaces == k \in DOMAIN table
         kept == IF replaces THEN ToUint(current_mem - table[k].size) ELSE current_mem
         mem == ToUint(kept + setting.size)
     IN /\ table' = [j \in DOMAIN table \union {k} |->
                       IF j = k THEN [buf |-> setting.buf, size |-> setting.size]
                                ELSE table[j]]
        /\ live' = IF replaces THEN live \ {table[k].buf} ELSE live
        /\ current_mem' = mem
        /\ order' = Touched(k)
        /\ failed' = IF replaces /\ FreeFailure(k) # "none" THEN "size"
                     ELSE IF mem > MaxMem THEN "maxmem" ELSE "none"
  /\ setting' = NoSet
  /\ UNCHANGED <<my_evictor, resetting>>

\* get of a key that is present; a miss changes nothing.
GetHit(k) ==
  /\ Running /\ MutexFree
  /\ k \in DOMAIN table
  /\ QueueHasRoom
  /\ order' = Touched(k)
  /\ UNCHANGED <<my_evictor, table, current_mem, live, setting, resetting, failed>>

\* del of a key that is present.  The evictor is not told.
Del(k) ==
  /\ Running /\ MutexFree
  /\ k \in DOMAIN table
  /\ Free(k)
  /\ failed' = FreeFailure(k)
  /\ UNCHANGED <<my_evictor, order, setting, resetting>>

\* reset: free every entry, in the table's order, then drain the evictor.
ResetBegin ==
  /\ Running /\ MutexFree
  /\ resetting' = TRUE
  /\ UNCHANGED <<my_evictor, table, current_mem, order, live, setting, failed>>

ResetFree(k) ==
  /\ Running /\ resetting
  /\ k \in DOMAIN table
  /\ Free(k)
  /\ failed' = FreeFailure(k)
  /\ UNCHANGED <<my_evictor, order, setting, resetting>>

ResetEnd ==
  /\ Running /\ resetting
  /\ DOMAIN table = {}
  /\ current_mem' = 0
  /\ order' = Drained(order)
  /\ resetting' = FALSE
  /\ UNCHANGED <<my_evictor, table, live, setting, failed>>

SetLoop == EvictStale \/ EvictEntry \/ SetFinish
ResetLoop == (\E k \in Keys : ResetFree(k)) \/ ResetEnd

Next ==
  \/ \E k \in Keys, s \in Sizes : SetRefused(k, s) \/ SetBegin(k, s)
  \/ \E k \in Keys : GetHit(k) \/ Del(k)
  \/ ResetBegin
  \/ SetLoop
  \/ ResetLoop

Spec == Init /\ [][Next]_vars

\* The thread that holds the mutex goes on running.
FairSpec == Spec /\ WF_vars(SetLoop) /\ WF_vars(ResetLoop)

----------------------------------------------------------------------------
(* Properties                                                              *)

\* The use for which the library is correct: no key is "", int can hold twice
\* maxmem, and a value either fits or is too large to overwrite even a full
\* cache.  The runs that expect a violation leave it.
OrdinaryUse ==
  /\ EmptyKey \notin Keys
  /\ 2 * MaxMem <= IntMax
  /\ \A s \in Sizes : s <= MaxMem \/ (2 * MaxMem < s /\ s <= IntMax)

\* The bytes of the values in t, each named by its key and place: their number
\* is the sum of the sizes.
Bytes(t) == UNION {{k} \X (1 .. t[k].size) : k \in DOMAIN t}
TotalSize(t) == Cardinality(Bytes(t))

TableBuffers == {table[k].buf : k \in DOMAIN table}
Leaked == live \ (TableBuffers \union (IF setting = NoSet THEN {} ELSE {setting.buf}))

\* Every variable holds a value of its C++ type; the lock has one holder.
TypeOK ==
  /\ my_evictor \in Policies
  /\ DOMAIN table \subseteq Keys
  /\ \A k \in DOMAIN table : table[k] \in Entries
  /\ table = [k \in DOMAIN table |-> table[k]]
  /\ current_mem \in 0 .. UintMod - 1
  /\ order \in Seq(Keys)
  /\ live \subseteq Buffers
  /\ setting \in Calls \union {NoSet}
  /\ resetting \in BOOLEAN
  /\ failed \in {"none", "size", "maxmem", "eviction_key"}
  /\ ~(setting # NoSet /\ resetting)

\* current_mem, adjusted by hand on every insertion, overwrite, eviction and
\* deletion, is the sum of the sizes in the table, also inside a call.
Accounting == current_mem = TotalSize(table)

\* cache.hh's maxmem: the values stored never take more than it allows, not
\* even while set is between evicting and inserting.
WithinMaxMem == current_mem <= MaxMem

\* While set's loop runs, size_change stays what the insertion will add to the
\* table as it is now, although the loop may evict the key being overwritten.
SizeChangeExact ==
  setting # NoSet => setting.change =
    setting.size - (IF setting.key \in DOMAIN table THEN table[setting.key].size ELSE 0)

\* No assert() of cache_lib.cc fails, so the process is not ended by a call.
NoAssertionFails == failed = "none"

\* Impl owns its buffers: the table points only to allocated memory, no two
\* entries and no set in progress share a buffer, so free never deletes a
\* buffer twice.
HeapSound ==
  /\ TableBuffers \subseteq live
  /\ \A j, k \in DOMAIN table : table[j].buf = table[k].buf => j = k
  /\ setting # NoSet => setting.buf \in live \ TableBuffers

\* The loop of set can always find a victim: a key in the table is known to
\* the evictor, although del and free never tell it anything.
EvictorCoversTable == my_evictor # "none" => DOMAIN table \subseteq Range(order)

\* Deleted keys stay in the LRU list, but it holds no key twice, so it is
\* bounded by the number of distinct keys.
OneNodePerKey == my_evictor = "LRU" => IsInjective(order)

\* set turns down exactly the values that cannot fit: larger than maxmem, or,
\* without an evictor, than the room left once the old value is gone.
RoomFor(k, s) ==
  IF my_evictor = "none"
  THEN (IF k \in DOMAIN table THEN current_mem - table[k].size ELSE current_mem) + s <= MaxMem
  ELSE s <= MaxMem
RefusesExactlyUnfit ==
  Running /\ MutexFree => \A k \in Keys, s \in Sizes :
    (\E change \in SizeChange(k, s) : Refuses(change)) <=> ~RoomFor(k, s)

\* Memory is lost only by a refused set, which returns without deleting its
\* copy of the value; every other path deletes or keeps what it allocated.
OnlyRefusalsLeak ==
  [][Leaked' # Leaked => \E k \in Keys, s \in Sizes : SetRefused(k, s)]_vars

\* reset "delete[s] everything that is in Impl": entries, count and evictor.
ResetLeavesNothing ==
  [][resetting /\ ~resetting' => table' = <<>> /\ current_mem' = 0 /\ order' = <<>>]_vars

\* The loop of set ends and the mutex is released, whatever stale keys the
\* evictor offers first; so does reset.
CallsReturn == ~MutexFree ~> MutexFree
=============================================================================
