--------------------------- MODULE CacheLibProofs ---------------------------
(***************************************************************************)
(* Theorems about the cache library for any number of keys, sizes, buffers *)
(* and any maxmem: type correctness, ownership of the buffers, the LRU     *)
(* list's bound, that no assertion of cache_lib.cc fails under OrdinaryUse,*)
(* and that with an LRU evictor it implements LRUCache.                    *)
(***************************************************************************)
EXTENDS CacheRefinement, EvictionOrderProofs, FiniteSetTheorems

----------------------------------------------------------------------------
(* Integers                                                                *)

\* The conversions between int and uint32_t stay in their types.
LEMMA Conversions ==
  /\ UintMod \in Nat /\ IntMax \in Nat /\ IntMax < UintMod /\ MaxMem \in 0 .. UintMod - 1
  /\ \A u \in 0 .. UintMod - 1 : ToInt(u) \in Int
  /\ \A n \in Int : -UintMod <= n /\ n < 2 * UintMod => ToUint(n) \in 0 .. UintMod - 1
  /\ \A a, b \in Int : IntSum(a, b) \subseteq Int
<1>1. IntMax \in Nat /\ MaxMem \in 0 .. UintMod - 1 /\ UintMod \in Nat /\ IntMax < UintMod
  BY WidthAssumption DEF UintMod
<1>2. ASSUME NEW u \in 0 .. UintMod - 1 PROVE ToInt(u) \in Int
  BY <1>1 DEF ToInt
<1>3. ASSUME NEW n \in Int, -UintMod <= n, n < 2 * UintMod
      PROVE  ToUint(n) \in 0 .. UintMod - 1
  BY <1>1, <1>3 DEF ToUint
<1>4. ASSUME NEW a \in Int, NEW b \in Int PROVE IntSum(a, b) \subseteq Int
  BY <1>1 DEF IntSum, Wrapped
<1> QED BY <1>1, <1>2, <1>3, <1>4

----------------------------------------------------------------------------
(* Helpers of Impl                                                         *)

\* What Impl::free leaves.
LEMMA FreeEffect ==
  ASSUME TypeOK, NEW k \in DOMAIN table, Free(k)
  PROVE  /\ DOMAIN table' = DOMAIN table \ {k}
         /\ \A j \in DOMAIN table' : table'[j] = table[j]
         /\ table' = [j \in DOMAIN table' |-> table'[j]]
         /\ current_mem' \in 0 .. UintMod - 1
         /\ live' = live \ {table[k].buf}
<1>1. table' = [j \in DOMAIN table \ {k} |-> table[j]]
  BY DEF Free, Restrict
<1>2. current_mem \in 0 .. UintMod - 1 /\ table[k].size \in 0 .. UintMod - 1
  BY SizesAssumption DEF TypeOK, Entries
<1>3. current_mem' \in 0 .. UintMod - 1
  <2>1. UintMod \in Nat
    BY Conversions
  <2>2. /\ current_mem - table[k].size \in Int
        /\ -UintMod <= current_mem - table[k].size
        /\ current_mem - table[k].size < 2 * UintMod
    BY <1>2, <2>1
  <2> QED BY <2>2, Conversions DEF Free
<1> QED BY <1>1, <1>3 DEF Free

\* What touching a key leaves of the evictor's order.
LEMMA TouchedEffect ==
  ASSUME TypeOK, NEW k \in Keys
  PROVE  /\ Touched(k) \in Seq(Keys)
         /\ my_evictor # "none" => Range(Touched(k)) = Range(order) \union {k}
         /\ my_evictor = "LRU" /\ IsInjective(order) => IsInjective(Touched(k))
<1>1. order \in Seq(Keys)
  BY DEF TypeOK
<1>2. CASE my_evictor = "LRU"
  BY <1>1, <1>2, LRUTouchProperties DEF Touched
<1>3. CASE my_evictor = "FIFO"
  BY <1>1, <1>3, FIFOTouchProperties DEF Touched
<1>4. CASE my_evictor = "none"
  BY <1>1, <1>4 DEF Touched
<1> QED BY <1>2, <1>3, <1>4, PolicyAssumption DEF TypeOK

\* No operation changes the evictor the cache was built with.
LEMMA EvictorKept == [Next]_vars => my_evictor' = my_evictor
BY DEF Next, SetLoop, ResetLoop, SetRefused, SetBegin, EvictStale, EvictEntry, SetFinish,
       GetHit, Del, ResetBegin, ResetFree, ResetEnd, vars

\* The table set leaves.
LEMMA InsertEffect ==
  ASSUME TypeOK, SetFinish
  PROVE  /\ setting \in Calls
         /\ DOMAIN table' = DOMAIN table \union {setting.key}
         /\ table'[setting.key] = [buf |-> setting.buf, size |-> setting.size]
         /\ \A j \in DOMAIN table \ {setting.key} : table'[j] = table[j]
         /\ table' = [j \in DOMAIN table' |-> table'[j]]
<1>1. setting \in Calls
  BY DEF SetFinish, TypeOK
<1>2. table' = [j \in DOMAIN table \union {setting.key} |->
                  IF j = setting.key THEN [buf |-> setting.buf, size |-> setting.size]
                  ELSE table[j]]
  BY DEF SetFinish
<1> QED BY <1>1, <1>2

----------------------------------------------------------------------------
(* Types                                                                   *)

\* The locals of the set that begins, and of one that has evicted an entry.
LEMMA BeginCall ==
  ASSUME TypeOK, NEW k \in Keys, NEW s \in Sizes, SetBegin(k, s)
  PROVE  setting' \in Calls
<1>1. PICK b \in Buffers \ live, change \in SizeChange(k, s) :
        setting' = [key |-> k, size |-> s, buf |-> b, change |-> change]
  BY DEF SetBegin
<1>2. s \in 0 .. UintMod - 1
  BY SizesAssumption
<1>3. change \in Int
  <2>1. CASE k \in DOMAIN table
    <3>1. table[k].size \in 0 .. UintMod - 1
      BY <2>1, SizesAssumption DEF TypeOK, Entries
    <3>2. ToInt(s) \in Int /\ -ToInt(table[k].size) \in Int
      BY <1>2, <3>1, Conversions
    <3> QED BY <1>1, <2>1, <3>2, Conversions DEF SizeChange
  <2>2. CASE k \notin DOMAIN table
    BY <1>1, <1>2, <2>2, Conversions DEF SizeChange
  <2> QED BY <2>1, <2>2
<1> QED BY <1>1, <1>3 DEF Calls

LEMMA EvictCall ==
  ASSUME TypeOK, EvictEntry
  PROVE  setting' \in Calls /\ setting'.key = setting.key /\ setting'.buf = setting.buf
<1> DEFINE victim == EvictKey(order)
<1>1. setting \in Calls /\ setting' = [setting EXCEPT !.change = Recomputed(victim)]
  BY DEF EvictEntry, TypeOK
<1>2. Recomputed(victim) \in Int
  <2>1. setting.size \in 0 .. UintMod - 1 /\ setting.change \in Int
    BY <1>1, SizesAssumption DEF Calls
  <2> QED BY <2>1, Conversions DEF Recomputed
<1> HIDE DEF victim
<1> QED BY <1>1, <1>2 DEF Calls

LEMMA InitTypeOK == Init => TypeOK
<1> SUFFICES ASSUME Init PROVE TypeOK
  OBVIOUS
<1>1. <<>> \in Seq(Keys) /\ <<>> = [k \in {} |-> <<>>[k]] /\ DOMAIN <<>> = {}
  OBVIOUS
<1>2. 0 \in 0 .. UintMod - 1
  BY Conversions
<1> QED BY <1>1, <1>2 DEF Init, TypeOK

LEMMA NextTypeOK == TypeOK /\ [Next]_vars => TypeOK'
<1> SUFFICES ASSUME TypeOK, [Next]_vars PROVE TypeOK'
  OBVIOUS
<1>1. ASSUME NEW k \in Keys, NEW s \in Sizes, SetRefused(k, s) PROVE TypeOK'
  BY <1>1 DEF SetRefused, TypeOK
<1>2. ASSUME NEW k \in Keys, NEW s \in Sizes, SetBegin(k, s) PROVE TypeOK'
  <2>1. setting' \in Calls
    BY <1>2, BeginCall
  <2>2. live' \subseteq Buffers
    BY <1>2 DEF SetBegin, TypeOK
  <2> QED BY <1>2, <2>1, <2>2 DEF SetBegin, TypeOK, MutexFree
<1>3. CASE EvictStale
  <2>1. order' \in Seq(Keys)
    BY <1>3, EvictProperties DEF EvictStale, TypeOK
  <2> QED BY <1>3, <2>1 DEF EvictStale, TypeOK
<1>4. CASE EvictEntry
  <2> DEFINE victim == EvictKey(order)
  <2>1. order' \in Seq(Keys)
    BY <1>4, EvictProperties DEF EvictEntry, TypeOK
  <2>2. victim \in DOMAIN table /\ Free(victim)
    BY <1>4 DEF EvictEntry
  <2>5. setting' \in Calls
    BY <1>4, EvictCall
  <2>6. failed' \in {"none", "size", "maxmem", "eviction_key"}
    BY <1>4 DEF EvictEntry, FreeFailure
  <2>7. resetting' = resetting /\ my_evictor' = my_evictor /\ setting # NoSet
    BY <1>4 DEF EvictEntry
  <2> HIDE DEF victim
  <2> QED BY <2>1, <2>2, <2>5, <2>6, <2>7, FreeEffect DEF TypeOK
<1>5. CASE SetFinish
  <2>1. /\ setting \in Calls /\ setting.key \in Keys
        /\ order' = Touched(setting.key) /\ setting' = NoSet /\ resetting' = resetting
        /\ my_evictor' = my_evictor
    BY <1>5, InsertEffect DEF SetFinish, Calls
  <2>2. order' \in Seq(Keys)
    BY <2>1, TouchedEffect
  <2>3. current_mem' \in 0 .. UintMod - 1
    <3> DEFINE kept == IF setting.key \in DOMAIN table
                       THEN ToUint(current_mem - table[setting.key].size) ELSE current_mem
    <3>1. current_mem \in 0 .. UintMod - 1 /\ setting.size \in 0 .. UintMod - 1
          /\ UintMod \in Nat
      BY <2>1, Conversions, SizesAssumption DEF TypeOK, Calls
    <3>2. kept \in 0 .. UintMod - 1
      <4>1. CASE setting.key \in DOMAIN table
        <5>1. table[setting.key].size \in 0 .. UintMod - 1
          BY <4>1, SizesAssumption DEF TypeOK, Entries
        <5>2. /\ current_mem - table[setting.key].size \in Int
              /\ -UintMod <= current_mem - table[setting.key].size
              /\ current_mem - table[setting.key].size < 2 * UintMod
          BY <3>1, <5>1
        <5> QED BY <4>1, <5>2, Conversions
      <4>2. CASE setting.key \notin DOMAIN table
        BY <3>1, <4>2
      <4> QED BY <4>1, <4>2
    <3>3. current_mem' = ToUint(kept + setting.size)
      BY <1>5 DEF SetFinish
    <3> HIDE DEF kept
    <3>4. /\ kept + setting.size \in Int /\ -UintMod <= kept + setting.size
          /\ kept + setting.size < 2 * UintMod
      BY <3>1, <3>2
    <3> QED BY <3>3, <3>4, Conversions
  <2>4. DOMAIN table' \subseteq Keys /\ \A k \in DOMAIN table' : table'[k] \in Entries
    BY <1>5, <2>1, InsertEffect DEF TypeOK, Entries, Calls
  <2>5. live' \subseteq Buffers /\ failed' \in {"none", "size", "maxmem", "eviction_key"}
    BY <1>5 DEF SetFinish, TypeOK
  <2>6. table' = [k \in DOMAIN table' |-> table'[k]]
    BY <1>5, InsertEffect
  <2> QED BY <2>1, <2>2, <2>3, <2>4, <2>5, <2>6 DEF TypeOK
<1>6. ASSUME NEW k \in Keys, GetHit(k) PROVE TypeOK'
  BY <1>6, TouchedEffect DEF GetHit, TypeOK
<1>7. ASSUME NEW k \in Keys, Del(k) PROVE TypeOK'
  <2>1. failed' \in {"none", "size", "maxmem", "eviction_key"} /\ k \in DOMAIN table
    BY <1>7 DEF Del, FreeFailure
  <2> QED BY <1>7, <2>1, FreeEffect DEF Del, TypeOK
<1>8. CASE ResetBegin
  BY <1>8 DEF ResetBegin, MutexFree, TypeOK
<1>9. ASSUME NEW k \in Keys, ResetFree(k) PROVE TypeOK'
  <2>1. failed' \in {"none", "size", "maxmem", "eviction_key"} /\ k \in DOMAIN table
    BY <1>9 DEF ResetFree, FreeFailure
  <2> QED BY <1>9, <2>1, FreeEffect DEF ResetFree, TypeOK
<1>10. CASE ResetEnd
  <2>1. order' \in Seq(Keys) /\ 0 \in 0 .. UintMod - 1
    BY <1>10, DrainedProperties, Conversions DEF ResetEnd, TypeOK
  <2> QED BY <1>10, <2>1 DEF ResetEnd, TypeOK
<1>11. CASE UNCHANGED vars
  BY <1>11 DEF vars, TypeOK, Entries, Calls
<1> QED BY <1>1, <1>2, <1>3, <1>4, <1>5, <1>6, <1>7, <1>8, <1>9, <1>10, <1>11
        DEF Next, SetLoop, ResetLoop

\* Every variable keeps the type its C++ declaration gives it, and set and
\* reset are never both in progress.
THEOREM TypeCorrect == Spec => []TypeOK
<1> QED BY InitTypeOK, NextTypeOK, PTL DEF Spec

----------------------------------------------------------------------------
(* Buffers                                                                 *)

\* Freeing an entry takes its buffer, and no other, off the table and the heap.
LEMMA FreeBuffers ==
  ASSUME TypeOK, HeapSound, NEW k \in DOMAIN table, Free(k)
  PROVE  /\ TableBuffers' = TableBuffers \ {table[k].buf}
         /\ live' = live \ {table[k].buf}
         /\ \A i, j \in DOMAIN table' : table'[i].buf = table'[j].buf => i = j
<1>1. /\ DOMAIN table' = DOMAIN table \ {k} /\ live' = live \ {table[k].buf}
      /\ \A j \in DOMAIN table' : table'[j] = table[j]
  BY FreeEffect
<1>2. \A i, j \in DOMAIN table : table[i].buf = table[j].buf => i = j
  BY DEF HeapSound
<1>3. TableBuffers' = TableBuffers \ {table[k].buf}
  BY <1>1, <1>2 DEF TableBuffers
<1> QED BY <1>1, <1>2, <1>3

LEMMA NextHeapSound == TypeOK /\ HeapSound /\ [Next]_vars => HeapSound'
<1> SUFFICES ASSUME TypeOK, HeapSound, [Next]_vars PROVE HeapSound'
  OBVIOUS
<1>1. ASSUME NEW k \in DOMAIN table, Free(k)
      PROVE  /\ TableBuffers' = TableBuffers \ {table[k].buf}
             /\ live' = live \ {table[k].buf}
             /\ \A i, j \in DOMAIN table' : table'[i].buf = table'[j].buf => i = j
  BY <1>1, FreeBuffers
<1>2. ASSUME NEW k \in Keys, NEW s \in Sizes, SetRefused(k, s) PROVE HeapSound'
  BY <1>2 DEF SetRefused, HeapSound, TableBuffers
<1>3. ASSUME NEW k \in Keys, NEW s \in Sizes, SetBegin(k, s) PROVE HeapSound'
  <2>1. PICK b \in Buffers \ live, change \in SizeChange(k, s) :
          /\ live' = live \union {b}
          /\ setting' = [key |-> k, size |-> s, buf |-> b, change |-> change]
    BY <1>3 DEF SetBegin
  <2>2. table' = table /\ setting'.buf = b /\ TableBuffers' = TableBuffers
    BY <1>3, <2>1 DEF SetBegin, TableBuffers
  <2> QED BY <2>1, <2>2 DEF HeapSound
<1>4. CASE EvictStale
  BY <1>4 DEF EvictStale, HeapSound, TableBuffers
<1>5. CASE EvictEntry
  <2> DEFINE victim == EvictKey(order)
  <2>1. victim \in DOMAIN table /\ Free(victim) /\ setting # NoSet
    BY <1>5 DEF EvictEntry
  <2>2. setting \in Calls /\ setting' = [setting EXCEPT !.change = Recomputed(victim)]
    BY <1>5 DEF EvictEntry, TypeOK
  <2>3. setting'.buf = setting.buf
    BY <2>2 DEF Calls
  <2>4. table[victim].buf \in TableBuffers /\ setting.buf \in live \ TableBuffers
    BY <2>1 DEF TableBuffers, HeapSound
  <2> HIDE DEF victim
  <2> QED BY <1>1, <2>1, <2>3, <2>4 DEF HeapSound
<1>6. CASE SetFinish
  <2>1. /\ DOMAIN table' = DOMAIN table \union {setting.key}
        /\ table'[setting.key].buf = setting.buf
        /\ \A j \in DOMAIN table \ {setting.key} : table'[j] = table[j]
    BY <1>6, InsertEffect
  <2>2. setting' = NoSet /\ setting.buf \in live \ TableBuffers
    BY <1>6 DEF SetFinish, HeapSound
  <2>3. \A j \in DOMAIN table : table[j].buf \in TableBuffers
    BY DEF TableBuffers
  <2>4. \A i, j \in DOMAIN table : table[i].buf = table[j].buf => i = j
    BY DEF HeapSound
  <2>5. \A i, j \in DOMAIN table' : table'[i].buf = table'[j].buf => i = j
    BY <2>1, <2>2, <2>3, <2>4
  <2>6. ASSUME NEW j \in DOMAIN table' PROVE table'[j].buf \in live'
    <3>1. live' = IF setting.key \in DOMAIN table
                  THEN live \ {table[setting.key].buf} ELSE live
      BY <1>6 DEF SetFinish
    <3>2. CASE j = setting.key
      BY <2>1, <2>2, <2>3, <3>1, <3>2
    <3>3. CASE j # setting.key
      <4>1. j \in DOMAIN table /\ table'[j] = table[j]
        BY <2>1, <3>3
      <4>2. table[j].buf \in live
        BY <2>3, <4>1 DEF HeapSound
      <4> QED BY <2>4, <3>1, <3>3, <4>1, <4>2
    <3> QED BY <3>2, <3>3
  <2> QED BY <2>2, <2>5, <2>6 DEF HeapSound, TableBuffers
<1>7. ASSUME NEW k \in Keys, GetHit(k) PROVE HeapSound'
  BY <1>7 DEF GetHit, HeapSound, TableBuffers
<1>8. ASSUME NEW k \in Keys, Del(k) PROVE HeapSound'
  <2>1. Free(k) /\ k \in DOMAIN table /\ setting' = setting /\ setting = NoSet
    BY <1>8 DEF Del, MutexFree
  <2> QED BY <1>1, <2>1 DEF HeapSound
<1>9. CASE ResetBegin
  BY <1>9 DEF ResetBegin, HeapSound, TableBuffers
<1>10. ASSUME NEW k \in Keys, ResetFree(k) PROVE HeapSound'
  <2>1. Free(k) /\ k \in DOMAIN table /\ setting' = setting /\ setting = NoSet
    BY <1>10 DEF ResetFree, TypeOK
  <2> QED BY <1>1, <2>1 DEF HeapSound
<1>11. CASE ResetEnd
  BY <1>11 DEF ResetEnd, HeapSound, TableBuffers
<1>12. CASE UNCHANGED vars
  BY <1>12 DEF vars, HeapSound, TableBuffers
<1> QED BY <1>2, <1>3, <1>4, <1>5, <1>6, <1>7, <1>8, <1>9, <1>10, <1>11, <1>12
        DEF Next, SetLoop, ResetLoop

\* Impl never deletes a buffer twice: what the table points to is allocated,
\* and neither two entries nor a set in progress share a buffer.
THEOREM HeapIsSound == Spec => []HeapSound
<1>1. Init => HeapSound
  <2>1. DOMAIN <<>> = {}
    OBVIOUS
  <2> QED BY <2>1 DEF Init, HeapSound, TableBuffers
<1> QED BY <1>1, InitTypeOK, NextTypeOK, NextHeapSound, PTL DEF Spec

\* What no call owns changes in a refused set only.
LEMMA NextLeaked ==
  ASSUME TypeOK, HeapSound, [Next]_vars
  PROVE  Leaked' = Leaked \/ \E k \in Keys, s \in Sizes : SetRefused(k, s)
<1>1. ASSUME NEW k \in DOMAIN table, Free(k),
             setting = NoSet <=> setting' = NoSet,
             setting # NoSet => setting'.buf = setting.buf
      PROVE  Leaked' = Leaked
  <2>1. TableBuffers' = TableBuffers \ {table[k].buf} /\ live' = live \ {table[k].buf}
        /\ table[k].buf \in TableBuffers
    BY <1>1, FreeBuffers DEF TableBuffers
  <2> QED BY <1>1, <2>1 DEF Leaked
<1>2. ASSUME UNCHANGED <<table, live, setting>> PROVE Leaked' = Leaked
  BY <1>2 DEF Leaked, TableBuffers
<1>3. ASSUME NEW k \in Keys, NEW s \in Sizes, SetBegin(k, s) PROVE Leaked' = Leaked
  <2>1. PICK b \in Buffers \ live, change \in SizeChange(k, s) :
          /\ live' = live \union {b}
          /\ setting' = [key |-> k, size |-> s, buf |-> b, change |-> change]
    BY <1>3 DEF SetBegin
  <2>2. TableBuffers' = TableBuffers /\ setting = NoSet /\ setting' # NoSet
    BY <1>3, BeginCall, NoSetAssumption DEF SetBegin, MutexFree, TableBuffers
  <2> QED BY <2>1, <2>2 DEF Leaked
<1>4. CASE EvictStale
  BY <1>2, <1>4 DEF EvictStale
<1>5. CASE EvictEntry
  <2>1. EvictKey(order) \in DOMAIN table /\ Free(EvictKey(order)) /\ setting # NoSet
    BY <1>5 DEF EvictEntry
  <2>2. setting' # NoSet /\ setting'.buf = setting.buf
    BY <1>5, EvictCall, NoSetAssumption
  <2> QED BY <1>1, <2>1, <2>2
<1>6. CASE SetFinish
  <2> DEFINE k == setting.key
  <2>1. /\ DOMAIN table' = DOMAIN table \union {k} /\ table'[k].buf = setting.buf
        /\ \A j \in DOMAIN table \ {k} : table'[j] = table[j]
    BY <1>6, InsertEffect
  <2>2. /\ setting # NoSet /\ setting' = NoSet
        /\ live' = IF k \in DOMAIN table THEN live \ {table[k].buf} ELSE live
    BY <1>6 DEF SetFinish
  <2>3. \A i, j \in DOMAIN table : table[i].buf = table[j].buf => i = j
    BY DEF HeapSound
  <2> HIDE DEF k
  <2>4. CASE k \in DOMAIN table
    <3>1. TableBuffers' = (TableBuffers \ {table[k].buf}) \union {setting.buf}
      BY <2>1, <2>3, <2>4 DEF TableBuffers
    <3>2. table[k].buf \in TableBuffers /\ setting.buf \notin TableBuffers
      BY <2>2, <2>4 DEF TableBuffers, HeapSound
    <3> QED BY <2>2, <2>4, <3>1, <3>2 DEF Leaked
  <2>5. CASE k \notin DOMAIN table
    <3>1. TableBuffers' = TableBuffers \union {setting.buf}
      BY <2>1, <2>5 DEF TableBuffers
    <3> QED BY <2>2, <2>5, <3>1 DEF Leaked
  <2> QED BY <2>4, <2>5
<1>7. ASSUME NEW k \in Keys, GetHit(k) PROVE Leaked' = Leaked
  BY <1>2, <1>7 DEF GetHit
<1>8. ASSUME NEW k \in Keys, Del(k) PROVE Leaked' = Leaked
  <2>1. k \in DOMAIN table /\ Free(k) /\ setting = NoSet /\ setting' = NoSet
    BY <1>8 DEF Del, MutexFree
  <2> QED BY <1>1, <2>1
<1>9. ASSUME NEW k \in Keys, ResetFree(k) PROVE Leaked' = Leaked
  <2>1. k \in DOMAIN table /\ Free(k) /\ setting = NoSet /\ setting' = NoSet
    BY <1>9 DEF ResetFree, TypeOK
  <2> QED BY <1>1, <2>1
<1>10. CASE ResetBegin \/ ResetEnd \/ UNCHANGED vars
  BY <1>2, <1>10 DEF ResetBegin, ResetEnd, vars
<1> QED BY <1>3, <1>4, <1>5, <1>6, <1>7, <1>8, <1>9, <1>10 DEF Next, SetLoop, ResetLoop

\* Memory is lost in a refused set and nowhere else, whatever is overwritten,
\* evicted, deleted or reset.
THEOREM LeaksAreRefusals == Spec => OnlyRefusalsLeak
<1>1. TypeOK /\ HeapSound /\ [Next]_vars =>
        [Leaked' # Leaked => \E k \in Keys, s \in Sizes : SetRefused(k, s)]_vars
  BY NextLeaked
<1> QED BY <1>1, TypeCorrect, HeapIsSound, PTL DEF Spec, OnlyRefusalsLeak

----------------------------------------------------------------------------
(* The evictor                                                             *)

\* The LRU list never holds a key twice, whatever is deleted, overwritten or
\* evicted in between.
THEOREM ListHasNoDuplicates == Spec => []OneNodePerKey
<1>1. Init => OneNodePerKey
  BY DEF Init, OneNodePerKey, IsInjective
<1>2. TypeOK /\ OneNodePerKey /\ [Next]_vars => OneNodePerKey'
  <2> SUFFICES ASSUME TypeOK, OneNodePerKey, [Next]_vars, my_evictor = "LRU"
               PROVE  IsInjective(order')
    BY EvictorKept DEF OneNodePerKey
  <2>1. order \in Seq(Keys) /\ IsInjective(order)
    BY DEF OneNodePerKey, TypeOK
  <2>2. CASE order' = order
    BY <2>1, <2>2
  <2>3. CASE order' = EvictRest(order)
    BY <2>1, <2>3, EvictProperties
  <2>4. ASSUME NEW k \in Keys, order' = Touched(k) PROVE IsInjective(order')
    BY <2>1, <2>4, TouchedEffect
  <2>5. CASE order' = Drained(order)
    BY <2>1, <2>5, DrainedProperties
  <2>6. SetFinish => setting.key \in Keys
    BY DEF SetFinish, TypeOK, Calls
  <2> QED BY <2>2, <2>3, <2>4, <2>5, <2>6
          DEF Next, SetLoop, ResetLoop, SetRefused, SetBegin, EvictStale, EvictEntry,
              SetFinish, GetHit, Del, ResetBegin, ResetFree, ResetEnd, vars
<1> QED BY <1>1, <1>2, InitTypeOK, NextTypeOK, PTL DEF Spec

LEMMA NextEvictorCoversTable ==
  TypeOK /\ EvictorCoversTable /\ [Next]_vars => EvictorCoversTable'
<1> SUFFICES ASSUME TypeOK, EvictorCoversTable, [Next]_vars, my_evictor # "none"
             PROVE  DOMAIN table' \subseteq Range(order')
  BY EvictorKept DEF EvictorCoversTable
<1>1. order \in Seq(Keys) /\ DOMAIN table \subseteq Range(order)
  BY DEF EvictorCoversTable, TypeOK
<1>2. CASE table' = table /\ order' = order
  BY <1>1, <1>2
<1>3. CASE EvictStale
  BY <1>1, <1>3, EvictProperties DEF EvictStale
<1>4. CASE EvictEntry
  <2>1. DOMAIN table' = DOMAIN table \ {EvictKey(order)} /\ order' = EvictRest(order)
    BY <1>4, FreeEffect DEF EvictEntry
  <2> QED BY <1>1, <2>1, EvictProperties
<1>5. CASE SetFinish
  <2>1. /\ DOMAIN table' = DOMAIN table \union {setting.key}
        /\ setting.key \in Keys /\ order' = Touched(setting.key)
    BY <1>5, InsertEffect DEF SetFinish, Calls
  <2> QED BY <1>1, <2>1, TouchedEffect
<1>6. ASSUME NEW k \in Keys, GetHit(k) PROVE DOMAIN table' \subseteq Range(order')
  BY <1>1, <1>6, TouchedEffect DEF GetHit
<1>7. ASSUME NEW k \in DOMAIN table, Free(k), order' = order
      PROVE  DOMAIN table' \subseteq Range(order')
  BY <1>1, <1>7, FreeEffect
<1>8. CASE ResetEnd
  BY <1>8 DEF ResetEnd
<1> QED BY <1>2, <1>3, <1>4, <1>5, <1>6, <1>7, <1>8
        DEF Next, SetLoop, ResetLoop, SetRefused, SetBegin, Del, ResetBegin, ResetFree, vars

\* Every key in the table is known to the evictor, so set's loop can free
\* every entry before the evictor has nothing left to offer.
THEOREM EvictorKnowsEveryKey == Spec => []EvictorCoversTable
<1>1. Init => EvictorCoversTable
  BY DEF Init, EvictorCoversTable
<1> QED BY <1>1, InitTypeOK, NextTypeOK, NextEvictorCoversTable, PTL DEF Spec

\* A reset leaves nothing of any size, no count and no key in the evictor,
\* unless "" is one of the keys: it would end the draining of the evictor.
THEOREM ResetIsComplete == EmptyKey \notin Keys => (Spec => ResetLeavesNothing)
<1> SUFFICES ASSUME EmptyKey \notin Keys PROVE Spec => ResetLeavesNothing
  OBVIOUS
<1>1. ASSUME TypeOK, Next, resetting, ~resetting'
      PROVE  table' = <<>> /\ current_mem' = 0 /\ order' = <<>>
  <2>1. ResetEnd
    BY <1>1 DEF Next, SetLoop, ResetLoop, SetRefused, SetBegin, EvictStale, EvictEntry, SetFinish,
                GetHit, Del, ResetBegin, ResetFree
  <2>2. table = <<>>
    <3>1. DOMAIN table = {} /\ table = [k \in DOMAIN table |-> table[k]]
      BY <1>1, <2>1 DEF ResetEnd, TypeOK
    <3> QED BY <3>1
  <2>3. Drained(order) = <<>>
    BY <1>1, DrainedProperties DEF TypeOK
  <2> QED BY <2>1, <2>2, <2>3 DEF ResetEnd
<1>2. TypeOK /\ [Next]_vars =>
        [resetting /\ ~resetting' => table' = <<>> /\ current_mem' = 0 /\ order' = <<>>]_vars
  BY <1>1
<1> QED BY <1>2, TypeCorrect, PTL DEF Spec, ResetLeavesNothing

----------------------------------------------------------------------------
(* The total size of a table                                               *)

Sized(t) == \A k \in DOMAIN t : t[k].size \in Nat

\* One value has as many bytes as its size says.
LEMMA BytesOfEntry ==
  ASSUME NEW k, NEW n \in Nat
  PROVE  IsFiniteSet({k} \X (1 .. n)) /\ Cardinality({k} \X (1 .. n)) = n
<1>1. IsFiniteSet({k}) /\ Cardinality({k}) = 1
  BY FS_Singleton
<1>2. IsFiniteSet(1 .. n) /\ Cardinality(1 .. n) = n
  BY FS_Interval
<1>3. /\ IsFiniteSet({k} \X (1 .. n))
      /\ Cardinality({k} \X (1 .. n)) = Cardinality({k}) * Cardinality(1 .. n)
  BY <1>1, <1>2, FS_Product
<1> QED BY <1>1, <1>2, <1>3

\* Removing an entry takes its size, no more than the total, off the total.
LEMMA TotalOfRemoval ==
  ASSUME NEW t, IsFiniteSet(Bytes(t)), Sized(t), NEW k \in DOMAIN t,
         NEW u, DOMAIN u = DOMAIN t \ {k}, \A j \in DOMAIN u : u[j] = t[j]
  PROVE  /\ IsFiniteSet(Bytes(u))
         /\ TotalSize(t) \in Nat /\ t[k].size <= TotalSize(t)
         /\ TotalSize(u) = TotalSize(t) - t[k].size
<1> DEFINE own == {k} \X (1 .. t[k].size)
<1>1. IsFiniteSet(own) /\ Cardinality(own) = t[k].size /\ t[k].size \in Nat
  BY BytesOfEntry DEF Sized
<1>2. own \subseteq Bytes(t) /\ Bytes(u) = Bytes(t) \ own
  BY DEF Bytes
<1> HIDE DEF own
<1>3. Bytes(t) \intersect own = own
  BY <1>2
<1>4. /\ IsFiniteSet(Bytes(u))
      /\ Cardinality(Bytes(u)) = Cardinality(Bytes(t)) - Cardinality(own)
  <2>1. /\ IsFiniteSet(Bytes(t) \ own)
        /\ Cardinality(Bytes(t) \ own)
             = Cardinality(Bytes(t)) - Cardinality(Bytes(t) \intersect own)
    BY FS_Difference
  <2> QED BY <1>2, <1>3, <2>1
<1>5. Cardinality(Bytes(u)) \in Nat /\ Cardinality(Bytes(t)) \in Nat
  BY <1>4, FS_CardinalityType
<1> QED BY <1>1, <1>4, <1>5 DEF TotalSize

\* Entering a key that is not in the table adds its size.
LEMMA TotalOfInsertion ==
  ASSUME NEW t, IsFiniteSet(Bytes(t)), NEW k, k \notin DOMAIN t,
         NEW u, DOMAIN u = DOMAIN t \union {k}, \A j \in DOMAIN t : u[j] = t[j],
         u[k].size \in Nat
  PROVE  IsFiniteSet(Bytes(u)) /\ TotalSize(u) = TotalSize(t) + u[k].size
<1> DEFINE own == {k} \X (1 .. u[k].size)
<1>1. IsFiniteSet(own) /\ Cardinality(own) = u[k].size
  BY BytesOfEntry
<1>2. Bytes(u) = Bytes(t) \union own /\ Bytes(t) \intersect own = {}
  BY DEF Bytes
<1> HIDE DEF own
<1>3. /\ IsFiniteSet(Bytes(t) \union own)
      /\ Cardinality(Bytes(t) \union own) =
           Cardinality(Bytes(t)) + Cardinality(own) - Cardinality(Bytes(t) \intersect own)
  BY <1>1, FS_Union
<1>4. Cardinality(Bytes(t) \intersect own) = 0 /\ Cardinality(Bytes(t)) \in Nat
  BY <1>2, FS_EmptySet, FS_CardinalityType
<1> QED BY <1>1, <1>2, <1>3, <1>4 DEF TotalSize

\* An empty table has no bytes.
LEMMA TotalOfEmpty ==
  ASSUME NEW t, DOMAIN t = {}
  PROVE  IsFiniteSet(Bytes(t)) /\ TotalSize(t) = 0
<1>1. Bytes(t) = {}
  BY DEF Bytes
<1> QED BY <1>1, FS_EmptySet DEF TotalSize

----------------------------------------------------------------------------
(* Ordinary use: integers without overflow                                 *)

\* What the loop's condition and the early returns compute when nothing
\* overflows.
LEMMA ExactArithmetic ==
  ASSUME OrdinaryUse, current_mem \in 0 .. MaxMem,
         NEW change \in Int, -IntMax <= change, change <= MaxMem
  PROVE  /\ ToInt(MaxMem) = MaxMem
         /\ Exceeds(change) <=> current_mem + change > MaxMem
         /\ Fits(change) <=> current_mem + change <= MaxMem
<1>1. MaxMem \in Nat /\ IntMax \in Nat /\ 2 * MaxMem <= IntMax /\ current_mem \in Nat
  BY Conversions DEF OrdinaryUse
<1>2. ToInt(MaxMem) = MaxMem /\ ToInt(current_mem) = current_mem
  BY <1>1 DEF ToInt
<1>3. IntSum(current_mem, change) = {current_mem + change}
  BY <1>1 DEF IntSum, Wrapped
<1> QED BY <1>2, <1>3 DEF Exceeds, Fits

\* What is in the table when k is set: its old value's size, or nothing.
OldSize(k) == IF k \in DOMAIN table THEN table[k].size ELSE 0

LEMMA ExactSizeChange ==
  ASSUME OrdinaryUse, NEW k \in Keys, NEW s \in Sizes, OldSize(k) \in 0 .. MaxMem
  PROVE  SizeChange(k, s) = {s - OldSize(k)} /\ s \in 0 .. IntMax
<1>1. MaxMem \in Nat /\ IntMax \in Nat /\ MaxMem <= IntMax /\ s \in 0 .. IntMax
  BY Conversions, SizesAssumption DEF OrdinaryUse
<1>2. ToInt(s) = s
  BY <1>1 DEF ToInt
<1>3. CASE k \in DOMAIN table
  <2>1. table[k].size \in 0 .. MaxMem
    BY <1>3 DEF OldSize
  <2>2. ToInt(table[k].size) = table[k].size
    BY <1>1, <2>1 DEF ToInt
  <2>3. SizeChange(k, s) = IntSum(s, -table[k].size)
    BY <1>2, <1>3, <2>2 DEF SizeChange
  <2>4. s + -table[k].size = s - table[k].size
    BY <1>1, <2>1
  <2>5. IntSum(s, -table[k].size) = {s + -table[k].size}
    BY <1>1, <2>1 DEF IntSum, Wrapped
  <2> QED BY <1>1, <1>3, <2>3, <2>4, <2>5 DEF OldSize
<1>4. CASE k \notin DOMAIN table
  BY <1>1, <1>2, <1>4 DEF SizeChange, OldSize
<1> QED BY <1>3, <1>4

----------------------------------------------------------------------------
(* No assertion fails                                                      *)

\* A set in progress will fit: its early returns have seen to it.
UnderwayFits ==
  setting # NoSet =>
    /\ setting.size <= MaxMem
    /\ my_evictor = "none" => current_mem + setting.change <= MaxMem

\* The inductive invariant.  Each assertion needs all of it: line 45 the exact
\* count, line 83 an evictor that knows every key of a table that is not empty
\* while space lacks, line 99 the exact size_change.
LibraryInv ==
  /\ TypeOK
  /\ EvictorCoversTable
  /\ IsFiniteSet(Bytes(table))
  /\ Accounting
  /\ WithinMaxMem
  /\ SizeChangeExact
  /\ UnderwayFits
  /\ NoAssertionFails

LEMMA SizesInTable ==
  ASSUME LibraryInv
  PROVE  /\ Sized(table)
         /\ current_mem \in 0 .. MaxMem
         /\ \A k : OldSize(k) \in 0 .. current_mem
         /\ DOMAIN table = {} => current_mem = 0
<1>1. Sized(table)
  BY SizesAssumption, Conversions DEF LibraryInv, TypeOK, Entries, Sized
<1>2. current_mem \in 0 .. MaxMem
  BY Conversions DEF LibraryInv, TypeOK, WithinMaxMem
<1>3. ASSUME NEW k PROVE OldSize(k) \in 0 .. current_mem
  <2>1. CASE k \in DOMAIN table
    <3> DEFINE u == [j \in DOMAIN table \ {k} |-> table[j]]
    <3>1. DOMAIN u = DOMAIN table \ {k} /\ \A j \in DOMAIN u : u[j] = table[j]
      OBVIOUS
    <3> HIDE DEF u
    <3>2. table[k].size <= TotalSize(table)
      BY <1>1, <2>1, <3>1, TotalOfRemoval DEF LibraryInv
    <3> QED BY <1>1, <1>2, <2>1, <3>2 DEF OldSize, Sized, LibraryInv, Accounting
  <2>2. CASE k \notin DOMAIN table
    BY <1>2, <2>2 DEF OldSize
  <2> QED BY <2>1, <2>2
<1>4. DOMAIN table = {} => current_mem = 0
  BY TotalOfEmpty DEF LibraryInv, Accounting
<1> QED BY <1>1, <1>2, <1>3, <1>4

\* Impl::free passes its assertion and keeps the count exact.
LEMMA FreeExact ==
  ASSUME LibraryInv, NEW k \in DOMAIN table, Free(k)
  PROVE  /\ FreeFailure(k) = "none"
         /\ current_mem' = current_mem - table[k].size
         /\ IsFiniteSet(Bytes(table')) /\ current_mem' = TotalSize(table')
         /\ current_mem' <= MaxMem
<1>1. /\ Sized(table) /\ current_mem \in 0 .. MaxMem
      /\ table[k].size \in 0 .. current_mem
  BY SizesInTable DEF OldSize
<1>2. FreeFailure(k) = "none"
  BY <1>1 DEF FreeFailure
<1>3. current_mem' = current_mem - table[k].size
  <2>1. current_mem - table[k].size \in 0 .. UintMod - 1
    BY <1>1, Conversions
  <2> QED BY <2>1, Conversions DEF Free, ToUint
<1>4. DOMAIN table' = DOMAIN table \ {k} /\ \A j \in DOMAIN table' : table'[j] = table[j]
  BY FreeEffect DEF LibraryInv
<1>5. /\ IsFiniteSet(Bytes(table'))
      /\ TotalSize(table') = TotalSize(table) - table[k].size
  BY <1>1, <1>4, TotalOfRemoval DEF LibraryInv
<1>6. MaxMem \in Int /\ current_mem - table[k].size <= MaxMem
  BY <1>1, Conversions
<1> QED BY <1>2, <1>3, <1>5, <1>6 DEF LibraryInv, Accounting

\* The loop's condition, computed without overflow.
LEMMA LoopCondition ==
  ASSUME OrdinaryUse, LibraryInv, setting # NoSet
  PROVE  /\ setting \in Calls /\ setting.size \in 0 .. MaxMem
         /\ setting.change = setting.size - OldSize(setting.key)
         /\ Exceeds(setting.change) <=> current_mem + setting.change > MaxMem
         /\ Fits(setting.change) <=> current_mem + setting.change <= MaxMem
<1>1. setting \in Calls /\ setting.size \in 0 .. MaxMem
  BY SizesAssumption, Conversions DEF LibraryInv, TypeOK, UnderwayFits, Calls
<1>2. setting.change = setting.size - OldSize(setting.key)
  BY DEF LibraryInv, SizeChangeExact, OldSize
<1>3. OldSize(setting.key) \in 0 .. MaxMem /\ current_mem \in 0 .. MaxMem
  BY SizesInTable, Conversions
<1>4. MaxMem \in Nat /\ IntMax \in Nat /\ MaxMem <= IntMax
  BY Conversions DEF OrdinaryUse
<1>5. setting.change \in Int /\ -IntMax <= setting.change /\ setting.change <= MaxMem
  BY <1>1, <1>2, <1>3, <1>4
<1> QED BY <1>1, <1>2, <1>3, <1>5, ExactArithmetic

LEMMA BeginKeepsInv ==
  ASSUME OrdinaryUse, LibraryInv, NEW k \in Keys, NEW s \in Sizes, SetBegin(k, s)
  PROVE  SizeChangeExact' /\ UnderwayFits' /\ NoAssertionFails'
<1>1. PICK b \in Buffers \ live, change \in SizeChange(k, s) :
        /\ Accepts(change)
        /\ setting' = [key |-> k, size |-> s, buf |-> b, change |-> change]
  BY DEF SetBegin
<1>2. /\ table' = table /\ current_mem' = current_mem
      /\ failed' = IF current_mem <= MaxMem THEN "none" ELSE "maxmem"
  BY DEF SetBegin
<1>3. /\ MaxMem \in Nat /\ IntMax \in Nat /\ 2 * MaxMem <= IntMax
      /\ OldSize(k) \in 0 .. MaxMem /\ current_mem \in 0 .. MaxMem
  BY SizesInTable, Conversions DEF OrdinaryUse
<1>4. change = s - OldSize(k) /\ s \in 0 .. IntMax
  BY <1>1, <1>3, ExactSizeChange
<1>5. ToInt(MaxMem) = MaxMem
  BY <1>3 DEF ToInt
<1>6. change <= MaxMem /\ (my_evictor = "none" => Fits(change))
  BY <1>1, <1>5 DEF Accepts
<1>7. change \in Int /\ -IntMax <= change
  BY <1>3, <1>4
<1>8. Fits(change) <=> current_mem + change <= MaxMem
  BY <1>3, <1>6, <1>7, ExactArithmetic
\* A value that may overwrite an old one and is not refused fits by itself.
<1>9. s <= MaxMem
  <2>1. s <= MaxMem \/ 2 * MaxMem < s
    BY DEF OrdinaryUse
  <2>2. s <= 2 * MaxMem
    BY <1>3, <1>4, <1>6
  <2> QED BY <1>3, <1>4, <2>1, <2>2
<1>10. setting'.size = s /\ setting'.key = k /\ setting'.change = change
  BY <1>1
<1>11. SizeChangeExact'
  BY <1>2, <1>4, <1>10 DEF SizeChangeExact, OldSize
<1>12. UnderwayFits'
  <2>1. my_evictor' = my_evictor
    BY DEF SetBegin
  <2> QED BY <1>2, <1>6, <1>8, <1>9, <1>10, <2>1 DEF UnderwayFits
<1>13. NoAssertionFails'
  BY <1>2, <1>3 DEF NoAssertionFails
<1> QED BY <1>11, <1>12, <1>13

\* The evictor has a key to offer whenever the loop asks for one.
LEMMA VictimExists ==
  ASSUME OrdinaryUse, LibraryInv, setting # NoSet, Exceeds(setting.change)
  PROVE  EvictKey(order) # EmptyKey /\ my_evictor # "none"
<1>1. /\ current_mem + setting.change > MaxMem
      /\ setting.change = setting.size - OldSize(setting.key)
      /\ setting.size \in 0 .. MaxMem /\ OldSize(setting.key) \in 0 .. current_mem
      /\ current_mem \in 0 .. MaxMem /\ MaxMem \in Nat
  BY LoopCondition, SizesInTable, Conversions
<1>2. my_evictor # "none"
  <2>1. my_evictor = "none" => current_mem + setting.change <= MaxMem
    BY DEF LibraryInv, UnderwayFits
  <2> QED BY <1>1, <2>1
<1>3. DOMAIN table # {}
  <2>1. current_mem # 0
    BY <1>1
  <2> QED BY <2>1, SizesInTable
<1>4. order # <<>> /\ order \in Seq(Keys)
  BY <1>2, <1>3 DEF LibraryInv, TypeOK, EvictorCoversTable, Range
<1>5. EvictKey(order) \in Keys
  BY <1>4, EvictProperties
<1> QED BY <1>2, <1>5 DEF OrdinaryUse

LEMMA EvictEntryKeepsInv ==
  ASSUME OrdinaryUse, LibraryInv, EvictEntry
  PROVE  /\ IsFiniteSet(Bytes(table))' /\ Accounting' /\ WithinMaxMem'
         /\ SizeChangeExact' /\ UnderwayFits' /\ NoAssertionFails'
<1> DEFINE victim == EvictKey(order)
<1>1. /\ victim \in DOMAIN table /\ Free(victim) /\ setting # NoSet
      /\ Exceeds(setting.change)
      /\ setting' = [setting EXCEPT !.change = Recomputed(victim)]
      /\ failed' = IF victim = EmptyKey THEN "eviction_key" ELSE FreeFailure(victim)
  BY DEF EvictEntry
<1>2. victim # EmptyKey /\ my_evictor # "none"
  BY <1>1, VictimExists
<1> HIDE DEF victim
<1>3. /\ FreeFailure(victim) = "none" /\ current_mem' = TotalSize(table')
      /\ IsFiniteSet(Bytes(table')) /\ current_mem' <= MaxMem
      /\ DOMAIN table' = DOMAIN table \ {victim}
      /\ \A j \in DOMAIN table' : table'[j] = table[j]
  BY <1>1, FreeExact, FreeEffect DEF LibraryInv
<1>4. /\ setting \in Calls /\ setting.size \in 0 .. MaxMem
      /\ setting.change = setting.size - OldSize(setting.key)
  BY <1>1, LoopCondition
<1>5. /\ setting'.size = setting.size /\ setting'.key = setting.key
      /\ setting'.change = Recomputed(victim)
  BY <1>1, <1>4 DEF Calls
<1>6. SizeChangeExact'
  <2>1. CASE victim = setting.key
    <3>1. ToInt(setting.size) = setting.size
      BY <1>4, Conversions DEF ToInt, OrdinaryUse
    <3>2. setting'.change = setting.size /\ setting.key \notin DOMAIN table'
          /\ setting.size - 0 = setting.size
      BY <1>3, <1>4, <1>5, <2>1, <3>1 DEF Recomputed
    <3> QED BY <1>5, <3>2 DEF SizeChangeExact
  <2>2. CASE victim # setting.key
    <3>1. setting'.change = setting.change
      BY <1>5, <2>2 DEF Recomputed
    <3> QED BY <1>3, <1>4, <1>5, <2>2, <3>1 DEF SizeChangeExact, OldSize
  <2> QED BY <2>1, <2>2
<1>7. UnderwayFits'
  <2>1. my_evictor' = my_evictor
    BY DEF EvictEntry
  <2> QED BY <1>2, <1>4, <1>5, <2>1 DEF UnderwayFits
<1>8. Accounting' /\ WithinMaxMem' /\ NoAssertionFails'
  BY <1>1, <1>2, <1>3 DEF Accounting, WithinMaxMem, NoAssertionFails
<1> QED BY <1>3, <1>6, <1>7, <1>8

LEMMA FinishKeepsInv ==
  ASSUME OrdinaryUse, LibraryInv, SetFinish
  PROVE  /\ IsFiniteSet(Bytes(table))' /\ Accounting' /\ WithinMaxMem' /\ NoAssertionFails'
<1> DEFINE k == setting.key
           kept == IF k \in DOMAIN table THEN ToUint(current_mem - table[k].size)
                   ELSE current_mem
           rest == [j \in DOMAIN table \ {k} |-> table[j]]
<1>1. /\ setting # NoSet /\ Fits(setting.change)
      /\ current_mem' = ToUint(kept + setting.size)
      /\ failed' = IF k \in DOMAIN table /\ FreeFailure(k) # "none" THEN "size"
                   ELSE IF current_mem' > MaxMem THEN "maxmem" ELSE "none"
  BY DEF SetFinish
<1>2. /\ setting.size \in 0 .. MaxMem /\ setting.change = setting.size - OldSize(k)
      /\ current_mem + setting.change <= MaxMem
  BY <1>1, LoopCondition
<1>3. /\ OldSize(k) \in 0 .. current_mem /\ current_mem \in 0 .. MaxMem
      /\ MaxMem \in 0 .. UintMod - 1 /\ UintMod \in Nat /\ Sized(table)
  BY SizesInTable, Conversions
<1>4. kept = current_mem - OldSize(k)
  BY <1>3 DEF OldSize, ToUint
<1>5. /\ DOMAIN table' = DOMAIN table \union {k}
      /\ table'[k].size = setting.size
      /\ \A j \in DOMAIN table \ {k} : table'[j] = table[j]
  BY InsertEffect DEF LibraryInv
<1>6. k \in DOMAIN table => FreeFailure(k) = "none"
  BY <1>3 DEF FreeFailure, OldSize
<1> HIDE DEF k, kept
<1>7. current_mem' = current_mem - OldSize(k) + setting.size /\ current_mem' <= MaxMem
  <2>1. kept + setting.size \in 0 .. UintMod - 1 /\ kept + setting.size <= MaxMem
    BY <1>2, <1>3, <1>4
  <2>2. ToUint(kept + setting.size) = kept + setting.size
    BY <1>3, <2>1 DEF ToUint
  <2> QED BY <1>1, <1>4, <2>1, <2>2
<1>8. IsFiniteSet(Bytes(table)) /\ current_mem = TotalSize(table)
  BY DEF LibraryInv, Accounting
<1>9. DOMAIN rest = DOMAIN table \ {k} /\ \A j \in DOMAIN rest : rest[j] = table[j]
  OBVIOUS
<1> HIDE DEF rest
<1>10. IsFiniteSet(Bytes(rest)) /\ TotalSize(rest) = current_mem - OldSize(k)
  <2>1. CASE k \in DOMAIN table
    BY <1>3, <1>8, <1>9, <2>1, TotalOfRemoval DEF OldSize
  <2>2. CASE k \notin DOMAIN table
    <3>1. Bytes(rest) = Bytes(table)
      BY <1>9, <2>2 DEF Bytes
    <3>2. OldSize(k) = 0 /\ current_mem - 0 = current_mem
      BY <1>3, <2>2 DEF OldSize
    <3> QED BY <1>8, <3>1, <3>2 DEF TotalSize
  <2> QED BY <2>1, <2>2
<1>11. IsFiniteSet(Bytes(table')) /\ TotalSize(table') = TotalSize(rest) + setting.size
  <2>1. /\ k \notin DOMAIN rest /\ DOMAIN table' = DOMAIN rest \union {k}
        /\ \A j \in DOMAIN rest : table'[j] = rest[j]
        /\ table'[k].size \in Nat
    BY <1>2, <1>5, <1>9
  <2> QED BY <1>5, <1>10, <2>1, TotalOfInsertion
<1>12. failed' = "none"
  <2>1. ~(current_mem' > MaxMem)
    BY <1>2, <1>3, <1>7
  <2> QED BY <1>1, <1>6, <2>1
<1> QED BY <1>7, <1>10, <1>11, <1>12 DEF Accounting, WithinMaxMem, NoAssertionFails

LEMMA NextLibraryInv == OrdinaryUse /\ LibraryInv /\ [Next]_vars => LibraryInv'
<1> SUFFICES ASSUME OrdinaryUse, LibraryInv, [Next]_vars PROVE LibraryInv'
  OBVIOUS
<1> DEFINE Counted == /\ IsFiniteSet(Bytes(table)) /\ Accounting /\ WithinMaxMem
                      /\ SizeChangeExact /\ UnderwayFits /\ NoAssertionFails
<1>1. Counted
  BY DEF LibraryInv
<1>2. TypeOK' /\ EvictorCoversTable'
  BY NextTypeOK, NextEvictorCoversTable DEF LibraryInv
<1> SUFFICES Counted'
  BY <1>2 DEF LibraryInv
<1>3. ASSUME UNCHANGED <<table, current_mem, setting, failed>> PROVE Counted'
  BY <1>1, <1>3, EvictorKept DEF Bytes, TotalSize, Accounting, WithinMaxMem, SizeChangeExact, UnderwayFits,
                    NoAssertionFails
\* Del and ResetFree free an entry when no set is in progress.
<1>4. ASSUME NEW k \in DOMAIN table, Free(k), setting = NoSet, setting' = setting,
             failed' = FreeFailure(k)
      PROVE  Counted'
  <2>1. /\ FreeFailure(k) = "none" /\ current_mem' = TotalSize(table')
        /\ IsFiniteSet(Bytes(table')) /\ current_mem' <= MaxMem
    BY <1>4, FreeExact
  <2> QED BY <1>4, <2>1 DEF Accounting, WithinMaxMem, SizeChangeExact, UnderwayFits,
                            NoAssertionFails
<1>5. ASSUME NEW k \in Keys, NEW s \in Sizes, SetRefused(k, s) PROVE Counted'
  BY <1>3, <1>5 DEF SetRefused
<1>6. ASSUME NEW k \in Keys, NEW s \in Sizes, SetBegin(k, s) PROVE Counted'
  <2>1. table' = table /\ current_mem' = current_mem
    BY <1>6 DEF SetBegin
  <2>2. IsFiniteSet(Bytes(table))' /\ Accounting' /\ WithinMaxMem'
    BY <1>1, <2>1 DEF Bytes, TotalSize, Accounting, WithinMaxMem
  <2> QED BY <1>6, <2>2, BeginKeepsInv
<1>7. CASE EvictStale
  <2>1. EvictKey(order) # EmptyKey
    BY <1>7, VictimExists DEF EvictStale
  <2>2. failed' = failed
    BY <1>1, <1>7, <2>1 DEF EvictStale, NoAssertionFails
  <2> QED BY <1>3, <1>7, <2>2 DEF EvictStale
<1>8. CASE EvictEntry
  BY <1>8, EvictEntryKeepsInv
<1>9. CASE SetFinish
  <2>1. setting' = NoSet
    BY <1>9 DEF SetFinish
  <2> QED BY <1>9, <2>1, FinishKeepsInv DEF SizeChangeExact, UnderwayFits
<1>10. ASSUME NEW k \in Keys, GetHit(k) PROVE Counted'
  BY <1>3, <1>10 DEF GetHit
<1>11. ASSUME NEW k \in Keys, Del(k) PROVE Counted'
  BY <1>4, <1>11 DEF Del, MutexFree
<1>12. CASE ResetBegin
  BY <1>3, <1>12 DEF ResetBegin
<1>13. ASSUME NEW k \in Keys, ResetFree(k) PROVE Counted'
  BY <1>4, <1>13 DEF ResetFree, LibraryInv, TypeOK
<1>14. CASE ResetEnd
  <2>1. current_mem = 0
    BY <1>14, SizesInTable DEF ResetEnd
  <2> QED BY <1>3, <1>14, <2>1 DEF ResetEnd
<1>15. CASE UNCHANGED vars
  BY <1>3, <1>15 DEF vars
<1> HIDE DEF Counted
<1> QED BY <1>5, <1>6, <1>7, <1>8, <1>9, <1>10, <1>11, <1>12, <1>13, <1>14, <1>15
        DEF Next, SetLoop, ResetLoop

LEMMA LibraryIsCorrect == OrdinaryUse => (Spec => []LibraryInv)
<1> SUFFICES ASSUME OrdinaryUse PROVE Spec => []LibraryInv
  OBVIOUS
<1>1. Init => LibraryInv
  <2> SUFFICES ASSUME Init PROVE LibraryInv
    OBVIOUS
  <2>1. TypeOK
    BY InitTypeOK
  <2>2. DOMAIN table = {} /\ current_mem = 0 /\ setting = NoSet /\ failed = "none"
    BY DEF Init
  <2>3. IsFiniteSet(Bytes(table)) /\ TotalSize(table) = 0
    BY <2>2, TotalOfEmpty
  <2>4. WithinMaxMem
    BY <2>2, Conversions DEF WithinMaxMem
  <2> QED BY <2>1, <2>2, <2>3, <2>4
          DEF LibraryInv, EvictorCoversTable, Accounting, SizeChangeExact, UnderwayFits,
              NoAssertionFails
<1>2. LibraryInv /\ [Next]_vars => LibraryInv'
  BY NextLibraryInv
<1> QED BY <1>1, <1>2, PTL DEF Spec

\* current_mem is the number of bytes in the table, for any number of keys and
\* any policy, as long as the sizes stay clear of overflow.
THEOREM AccountingIsExact == OrdinaryUse => (Spec => []Accounting)
<1>1. LibraryInv => Accounting
  BY DEF LibraryInv
<1> QED BY <1>1, LibraryIsCorrect, PTL

\* The values never take more than maxmem, not even inside a set.
THEOREM MemoryIsBounded == OrdinaryUse => (Spec => []WithinMaxMem)
<1>1. LibraryInv => WithinMaxMem
  BY DEF LibraryInv
<1> QED BY <1>1, LibraryIsCorrect, PTL

\* No assertion of cache_lib.cc ends the process: free always has enough to
\* subtract, set's loop always finds a victim, and an insertion always fits.
THEOREM AssertionsNeverFail == OrdinaryUse => (Spec => []NoAssertionFails)
<1>1. LibraryInv => NoAssertionFails
  BY DEF LibraryInv
<1> QED BY <1>1, LibraryIsCorrect, PTL

\* The size_change that set's loop works with is never out of date.
THEOREM SizeChangeStaysExact == OrdinaryUse => (Spec => []SizeChangeExact)
<1>1. LibraryInv => SizeChangeExact
  BY DEF LibraryInv
<1> QED BY <1>1, LibraryIsCorrect, PTL

\* set refuses a value if and only if there is no room for it, also when its
\* signed difference from the old value is what the code compares.
THEOREM RefusalsAreExact == OrdinaryUse => (Spec => []RefusesExactlyUnfit)
<1> SUFFICES ASSUME OrdinaryUse PROVE Spec => []RefusesExactlyUnfit
  OBVIOUS
<1>1. LibraryInv => RefusesExactlyUnfit
  <2> SUFFICES ASSUME LibraryInv, NEW k \in Keys, NEW s \in Sizes
               PROVE  (\E change \in SizeChange(k, s) : Refuses(change)) <=> ~RoomFor(k, s)
    BY DEF RefusesExactlyUnfit
  <2> DEFINE change == s - OldSize(k)
  <2>1. /\ MaxMem \in Nat /\ IntMax \in Nat /\ 2 * MaxMem <= IntMax
        /\ current_mem \in 0 .. MaxMem /\ OldSize(k) \in 0 .. current_mem
    BY SizesInTable, Conversions DEF OrdinaryUse
  <2>2. SizeChange(k, s) = {change} /\ s \in 0 .. IntMax
    BY <2>1, ExactSizeChange
  <2>3. s <= MaxMem \/ 2 * MaxMem < s
    BY DEF OrdinaryUse
  <2>4. ToInt(MaxMem) = MaxMem /\ change \in Int /\ -IntMax <= change
    BY <2>1, <2>2 DEF ToInt
  <2>5. change > MaxMem <=> s > MaxMem
    BY <2>1, <2>2, <2>3
  <2>6. RoomFor(k, s) <=> IF my_evictor = "none" THEN current_mem + change <= MaxMem ELSE s <= MaxMem
    <3>1. my_evictor = "none" => (RoomFor(k, s) <=> current_mem - OldSize(k) + s <= MaxMem)
      BY <2>1 DEF RoomFor, OldSize
    <3>2. current_mem - OldSize(k) + s = current_mem + change
      BY <2>1, <2>2
    <3> QED BY <3>1, <3>2 DEF RoomFor
  <2>7. change <= MaxMem => (Exceeds(change) <=> current_mem + change > MaxMem)
    BY <2>1, <2>4, ExactArithmetic
  <2> HIDE DEF change
  <2>8. Refuses(change) <=> ~RoomFor(k, s)
    <3>1. CASE my_evictor # "none"
      BY <2>1, <2>2, <2>4, <2>5, <2>6, <3>1 DEF Refuses
    <3>2. CASE my_evictor = "none"
      <4>1. Refuses(change) <=> change > MaxMem \/ Exceeds(change)
        BY <2>4, <3>2 DEF Refuses
      <4>2. change > MaxMem => current_mem + change > MaxMem
        BY <2>1, <2>4
      <4>3. current_mem + change > MaxMem <=> ~(current_mem + change <= MaxMem)
        BY <2>1, <2>4
      <4>4. change <= MaxMem \/ change > MaxMem
        BY <2>1, <2>4
      <4> QED BY <2>6, <2>7, <3>2, <4>1, <4>2, <4>3, <4>4
    <3> QED BY <3>1, <3>2
  <2> QED BY <2>2, <2>8
<1> QED BY <1>1, LibraryIsCorrect, PTL

----------------------------------------------------------------------------
(* Before and after, in an order without duplicates                        *)

\* evict() takes the key that stands before all others, and leaves their order.
LEMMA EvictPrecedes ==
  ASSUME NEW S, NEW o \in Seq(S), IsInjective(o), o # <<>>
  PROVE  /\ \A j \in Range(o) : j # EvictKey(o) => Precedes(o, EvictKey(o), j)
         /\ \A j : ~Precedes(o, j, EvictKey(o))
         /\ \A i, j : i # EvictKey(o) =>
              (Precedes(EvictRest(o), i, j) <=> Precedes(o, i, j))
<1>1. /\ EvictRest(o) = Tail(o) /\ EvictKey(o) = o[1] /\ Len(o) \in Nat \ {0}
      /\ DOMAIN o = 1 .. Len(o) /\ DOMAIN Tail(o) = 1 .. Len(o) - 1
      /\ \A x \in 1 .. Len(o) - 1 : Tail(o)[x] = o[x + 1]
  BY HeadTailProperties, EmptySeq DEF EvictRest, EvictKey
<1>2. \A x, y \in 1 .. Len(o) : o[x] = o[y] => x = y
  BY <1>1 DEF IsInjective
<1>3. ASSUME NEW j \in Range(o), j # o[1] PROVE Precedes(o, o[1], j)
  <2>1. PICK b \in 1 .. Len(o) : o[b] = j
    BY <1>1 DEF Range
  <2>2. 1 \in 1 .. Len(o) /\ 1 < b
    BY <1>1, <1>3, <2>1
  <2> QED BY <1>1, <2>1, <2>2 DEF Precedes
<1>4. ASSUME NEW j, Precedes(o, j, o[1]) PROVE FALSE
  <2>1. PICK a \in 1 .. Len(o), b \in 1 .. Len(o) : a < b /\ o[b] = o[1]
    BY <1>1, <1>4 DEF Precedes
  <2>2. b = 1
    BY <1>1, <1>2, <2>1
  <2> QED BY <2>1, <2>2
<1>5. ASSUME NEW i, NEW j, i # o[1], Precedes(o, i, j) PROVE Precedes(Tail(o), i, j)
  <2>1. PICK a \in 1 .. Len(o), b \in 1 .. Len(o) : a < b /\ o[a] = i /\ o[b] = j
    BY <1>1, <1>5 DEF Precedes
  <2>2. a - 1 \in 1 .. Len(o) - 1 /\ b - 1 \in 1 .. Len(o) - 1 /\ a - 1 < b - 1
    BY <1>1, <1>5, <2>1
  <2>3. Tail(o)[a - 1] = i /\ Tail(o)[b - 1] = j
    BY <1>1, <2>1, <2>2
  <2> QED BY <1>1, <2>2, <2>3 DEF Precedes
<1>6. ASSUME NEW i, NEW j, Precedes(Tail(o), i, j) PROVE Precedes(o, i, j)
  <2>1. PICK a \in 1 .. Len(o) - 1, b \in 1 .. Len(o) - 1 :
          a < b /\ Tail(o)[a] = i /\ Tail(o)[b] = j
    BY <1>1, <1>6 DEF Precedes
  <2>2. a + 1 \in 1 .. Len(o) /\ b + 1 \in 1 .. Len(o) /\ a + 1 < b + 1
    BY <1>1, <2>1
  <2> QED BY <1>1, <2>1, <2>2 DEF Precedes
<1> QED BY <1>1, <1>3, <1>4, <1>5, <1>6

\* touch_key puts the key behind all others, and leaves their order.
LEMMA TouchPrecedes ==
  ASSUME NEW S, NEW o \in Seq(S), IsInjective(o), NEW k \in S
  PROVE  /\ \A i, j : i # k /\ j # k => (Precedes(LRUTouch(o, k), i, j) <=> Precedes(o, i, j))
         /\ \A i \in Range(o) : i # k => Precedes(LRUTouch(o, k), i, k)
         /\ \A j : ~Precedes(LRUTouch(o, k), k, j)
<1> DEFINE t == LRUTouch(o, k)
<1>1. Len(o) \in Nat /\ DOMAIN o = 1 .. Len(o)
  OBVIOUS
<1>2. \A x, y \in 1 .. Len(o) : o[x] = o[y] => x = y
  BY <1>1 DEF IsInjective
<1>3. t \in Seq(S)
  BY <1>2, LRUTouchMoves
<1>4. CASE \A x \in 1 .. Len(o) : o[x] # k
  <2>1. /\ DOMAIN t = 1 .. Len(o) + 1 /\ t[Len(o) + 1] = k
        /\ \A x \in 1 .. Len(o) : t[x] = o[x]
    <3>1. t = Append(o, k)
      BY <1>2, <1>4, LRUTouchMoves
    <3> HIDE DEF t
    <3> QED BY <3>1, AppendProperties, LenProperties
  <2> HIDE DEF t
  <2>2. ASSUME NEW i, NEW j, j # k PROVE Precedes(t, i, j) <=> Precedes(o, i, j)
    <3>1. ASSUME Precedes(o, i, j) PROVE Precedes(t, i, j)
      <4>1. PICK a \in 1 .. Len(o), b \in 1 .. Len(o) : a < b /\ o[a] = i /\ o[b] = j
        BY <1>1, <3>1 DEF Precedes
      <4>2. a \in 1 .. Len(o) + 1 /\ b \in 1 .. Len(o) + 1
        BY <1>1
      <4> QED BY <2>1, <4>1, <4>2 DEF Precedes
    <3>2. ASSUME Precedes(t, i, j) PROVE Precedes(o, i, j)
      <4>1. PICK a \in 1 .. Len(o) + 1, b \in 1 .. Len(o) + 1 : a < b /\ t[a] = i /\ t[b] = j
        BY <2>1, <3>2 DEF Precedes
      <4>2. b # Len(o) + 1
        BY <2>1, <2>2, <4>1
      <4>3. a \in 1 .. Len(o) /\ b \in 1 .. Len(o)
        BY <1>1, <4>1, <4>2
      <4> QED BY <1>1, <2>1, <4>1, <4>3 DEF Precedes
    <3> QED BY <3>1, <3>2
  <2>3. ASSUME NEW i \in Range(o), i # k PROVE Precedes(t, i, k)
    <3>1. PICK a \in 1 .. Len(o) : o[a] = i
      BY <1>1, <2>3 DEF Range
    <3>2. a \in 1 .. Len(o) + 1 /\ Len(o) + 1 \in 1 .. Len(o) + 1 /\ a < Len(o) + 1
      BY <1>1
    <3> QED BY <2>1, <3>1, <3>2 DEF Precedes
  <2>4. ASSUME NEW j, Precedes(t, k, j) PROVE FALSE
    <3>1. PICK a \in 1 .. Len(o) + 1, b \in 1 .. Len(o) + 1 : a < b /\ t[a] = k
      BY <2>1, <2>4 DEF Precedes
    <3>2. a \in 1 .. Len(o)
      BY <1>1, <3>1
    <3> QED BY <1>4, <2>1, <3>1, <3>2
  <2> QED BY <2>2, <2>3, <2>4 DEF t
<1>5. ASSUME NEW p \in 1 .. Len(o), o[p] = k
      PROVE  /\ \A i, j : i # k /\ j # k => (Precedes(t, i, j) <=> Precedes(o, i, j))
             /\ \A i \in Range(o) : i # k => Precedes(t, i, k)
             /\ \A j : ~Precedes(t, k, j)
  <2>1. /\ DOMAIN t = 1 .. Len(o)
        /\ \A x \in 1 .. Len(o) :
             t[x] = IF x < p THEN o[x] ELSE IF x < Len(o) THEN o[x + 1] ELSE k
    <3>1. /\ Len(t) = Len(o)
          /\ \A x \in 1 .. Len(o) :
               t[x] = IF x < p THEN o[x] ELSE IF x < Len(o) THEN o[x + 1] ELSE k
      BY <1>2, <1>5, LRUTouchMoves
    <3> QED BY <1>3, <3>1, LenProperties
  <2> HIDE DEF t
  \* Where the other entries go.
  <2> DEFINE To(a) == IF a < p THEN a ELSE a - 1
             From(a) == IF a < p THEN a ELSE a + 1
  <2>2. ASSUME NEW a \in 1 .. Len(o), a # p
        PROVE  To(a) \in 1 .. Len(o) /\ To(a) < Len(o) /\ t[To(a)] = o[a]
    <3>1. CASE a < p
      BY <1>1, <1>5, <2>1, <3>1
    <3>2. CASE ~(a < p)
      <4>1. a - 1 \in 1 .. Len(o) /\ ~(a - 1 < p) /\ a - 1 < Len(o) /\ (a - 1) + 1 = a
        BY <1>1, <1>5, <2>2, <3>2
      <4> QED BY <2>1, <3>2, <4>1
    <3> QED BY <3>1, <3>2
  <2>3. ASSUME NEW a \in 1 .. Len(o), t[a] # k
        PROVE  From(a) \in 1 .. Len(o) /\ From(a) # p /\ t[a] = o[From(a)]
    <3>1. CASE a < p
      BY <1>1, <1>5, <2>1, <3>1
    <3>2. CASE ~(a < p)
      <4>1. a < Len(o)
        BY <1>1, <2>1, <2>3, <3>2
      <4> QED BY <1>1, <1>5, <2>1, <3>2, <4>1
    <3> QED BY <3>1, <3>2
  <2>4. ASSUME NEW i, NEW j, i # k, j # k, Precedes(o, i, j) PROVE Precedes(t, i, j)
    <3>1. PICK a \in 1 .. Len(o), b \in 1 .. Len(o) : a < b /\ o[a] = i /\ o[b] = j
      BY <1>1, <2>4 DEF Precedes
    <3>2. a # p /\ b # p
      BY <1>5, <2>4, <3>1
    <3>3. To(a) < To(b)
      BY <1>1, <3>1, <3>2
    <3> QED BY <2>1, <2>2, <3>1, <3>2, <3>3 DEF Precedes
  <2>5. ASSUME NEW i, NEW j, i # k, j # k, Precedes(t, i, j) PROVE Precedes(o, i, j)
    <3>1. PICK a \in 1 .. Len(o), b \in 1 .. Len(o) : a < b /\ t[a] = i /\ t[b] = j
      BY <2>1, <2>5 DEF Precedes
    <3>2. From(a) < From(b)
      BY <1>1, <3>1
    <3> QED BY <1>1, <2>3, <2>5, <3>1, <3>2 DEF Precedes
  <2>6. Len(o) \in 1 .. Len(o) /\ t[Len(o)] = k
    BY <1>1, <1>5, <2>1
  <2>7. ASSUME NEW i \in Range(o), i # k PROVE Precedes(t, i, k)
    <3>1. PICK a \in 1 .. Len(o) : o[a] = i
      BY <1>1, <2>7 DEF Range
    <3>2. a # p
      BY <1>5, <2>7, <3>1
    <3> QED BY <2>1, <2>2, <2>6, <3>1, <3>2 DEF Precedes
  <2>8. ASSUME NEW j, Precedes(t, k, j) PROVE FALSE
    <3>1. PICK a \in 1 .. Len(o), b \in 1 .. Len(o) : a < b /\ t[a] = k
      BY <2>1, <2>8 DEF Precedes
    <3>2. CASE a < p
      BY <1>1, <1>2, <1>5, <2>1, <3>1, <3>2
    <3>3. CASE ~(a < p)
      <4>1. a < Len(o) /\ a + 1 \in 1 .. Len(o) /\ o[a + 1] = k
        BY <1>1, <2>1, <3>1, <3>3
      <4>2. a + 1 = p
        BY <1>2, <1>5, <4>1
      <4> QED BY <1>1, <3>3, <4>2
    <3> QED BY <3>2, <3>3
  <2> QED BY <2>4, <2>5, <2>7, <2>8
<1> QED BY <1>4, <1>5

----------------------------------------------------------------------------
(* What an insertion keeps                                                 *)

\* The invariants that the steps below rely on.
MappedInv == LibraryInv /\ HeapSound /\ OneNodePerKey /\ my_evictor = "LRU"

\* An eviction in the course of an insertion, of the key being set or of the
\* oldest while there is no room, leaves what the insertion will have made: u
\* and q are what it makes of t and r.
LEMMA EvictionKeepsResult ==
  ASSUME NEW t, NEW r, NEW u, NEW q, NEW k, NEW s \in Int, NEW b,
         NEW v \in DOMAIN t,
         DOMAIN u = DOMAIN t \ {v}, \A j \in DOMAIN u : u[j] = t[j],
         \A i, j \in DOMAIN u : <<i, j>> \in q <=> <<i, j>> \in r,
         \A j \in DOMAIN u : <<v, j>> \in r /\ <<j, v>> \notin r,
         v = k \/ ~(Pure!Total(t, DOMAIN t \ {k}) + s <= MaxMem)
  PROVE  /\ Pure!PutContents(u, q, k, s, b) = Pure!PutContents(t, r, k, s, b)
         /\ Pure!Used(q, Pure!Kept(u, q, k, s), k) = Pure!Used(r, Pure!Kept(t, r, k, s), k)
<1>1. ASSUME NEW ks, ks \subseteq DOMAIN u PROVE Pure!Total(u, ks) = Pure!Total(t, ks)
  <2>1. UNION {{j} \X (1 .. u[j].size) : j \in ks} = UNION {{j} \X (1 .. t[j].size) : j \in ks}
    BY <1>1
  <2> QED BY <2>1 DEF Pure!Total
<1>2. ASSUME NEW j \in DOMAIN u \ {k}
      PROVE  Pure!Since(u, q, j, k) = Pure!Since(t, r, j, k)
  BY DEF Pure!Since
<1>3. \A j \in DOMAIN u \ {k} : Pure!Since(u, q, j, k) \subseteq DOMAIN u
  BY DEF Pure!Since
<1>4. v # k => v \notin Pure!Kept(t, r, k, s)
  <2>1. ASSUME v # k PROVE Pure!Since(t, r, v, k) = DOMAIN t \ {k}
    BY <2>1 DEF Pure!Since
  <2> QED BY <2>1 DEF Pure!Kept
<1>5. Pure!Kept(u, q, k, s) = Pure!Kept(t, r, k, s)
  <2>1. ASSUME NEW j \in DOMAIN u \ {k}
        PROVE  Pure!Total(u, Pure!Since(u, q, j, k)) = Pure!Total(t, Pure!Since(t, r, j, k))
    BY <1>1, <1>2, <1>3
  <2>2. /\ v \notin Pure!Kept(t, r, k, s)
        /\ Pure!Kept(t, r, k, s) \subseteq DOMAIN t \ {k}
        /\ Pure!Kept(u, q, k, s) \subseteq DOMAIN u \ {k}
    BY <1>4 DEF Pure!Kept
  <2>3. ASSUME NEW j \in DOMAIN u \ {k}
        PROVE  j \in Pure!Kept(u, q, k, s) <=> j \in Pure!Kept(t, r, k, s)
    BY <2>1 DEF Pure!Kept
  <2> QED BY <2>2, <2>3
<1> DEFINE kept == Pure!Kept(t, r, k, s)
<1>6. kept \subseteq DOMAIN u \ {k}
  BY <1>5 DEF Pure!Kept
<1> HIDE DEF kept
<1>7. [j \in kept \union {k} |-> IF j = k THEN [buf |-> b, size |-> s] ELSE u[j]]
        = [j \in kept \union {k} |-> IF j = k THEN [buf |-> b, size |-> s] ELSE t[j]]
  BY <1>6
<1>8. q \intersect ((kept \ {k}) \X (kept \ {k})) = r \intersect ((kept \ {k}) \X (kept \ {k}))
  BY <1>6
<1> QED BY <1>5, <1>7, <1>8 DEF kept, Pure!PutContents, Pure!Used, Pure!Among

\* The cardinality that LRUCache counts with.
LEMMA SameCardinality ==
  \A S : Pure!Cardinality(S) = Cardinality(S) /\ Abstract!Cardinality(S) = Cardinality(S)
<1> QED BY DEF Pure!Cardinality, Abstract!Cardinality, Cardinality

\* The values that stay when k is set are all but k's, and take what is counted
\* but for k's old value.
LEMMA TotalOfOthers ==
  ASSUME LibraryInv, NEW k
  PROVE  /\ IsFiniteSet(UNION {{j} \X (1 .. table[j].size) : j \in DOMAIN table \ {k}})
         /\ Pure!Total(table, DOMAIN table \ {k}) = current_mem - OldSize(k)
<1> DEFINE u == [j \in DOMAIN table \ {k} |-> table[j]]
<1>1. Bytes(u) = UNION {{j} \X (1 .. table[j].size) : j \in DOMAIN table \ {k}}
  BY DEF Bytes
<1>2. IsFiniteSet(Bytes(table)) /\ Sized(table) /\ current_mem = TotalSize(table)
      /\ current_mem \in Nat
  BY SizesInTable, Conversions DEF LibraryInv, Accounting
<1>3. IsFiniteSet(Bytes(u)) /\ TotalSize(u) = current_mem - OldSize(k)
  <2>1. CASE k \in DOMAIN table
    <3>1. DOMAIN u = DOMAIN table \ {k} /\ \A j \in DOMAIN u : u[j] = table[j]
      OBVIOUS
    <3> HIDE DEF u
    <3> QED BY <1>2, <2>1, <3>1, TotalOfRemoval DEF OldSize
  <2>2. CASE k \notin DOMAIN table
    <3>1. Bytes(u) = Bytes(table)
      BY <2>2 DEF Bytes
    <3> QED BY <1>2, <2>2, <3>1 DEF OldSize, TotalSize
  <2> QED BY <2>1, <2>2
<1> QED BY <1>1, <1>3, SameCardinality DEF Pure!Total, TotalSize

\* When there is room for all other values, an insertion keeps them.
LEMMA AllKept ==
  ASSUME LibraryInv, NEW k, NEW s \in Nat, NEW r,
         current_mem - OldSize(k) + s <= MaxMem
  PROVE  Pure!Kept(table, r, k, s) = DOMAIN table \ {k}
<1> DEFINE of(ks) == UNION {{j} \X (1 .. table[j].size) : j \in ks}
           others == DOMAIN table \ {k}
<1>1. /\ IsFiniteSet(of(others)) /\ Pure!Total(table, others) = Cardinality(of(others))
      /\ Pure!Total(table, others) = current_mem - OldSize(k)
  BY TotalOfOthers, SameCardinality DEF Pure!Total
<1>2. ASSUME NEW j \in others PROVE j \in Pure!Kept(table, r, k, s)
  <2> DEFINE ks == Pure!Since(table, r, j, k)
  <2>1. ks \subseteq others
    BY DEF Pure!Since
  <2> HIDE DEF ks, others
  <2>2. of(ks) \subseteq of(others)
    BY <2>1
  <2>3. Pure!Total(table, ks) = Cardinality(of(ks))
    BY SameCardinality DEF Pure!Total
  <2> HIDE DEF of
  <2>4. /\ Cardinality(of(ks)) <= Cardinality(of(others))
        /\ Cardinality(of(ks)) \in Nat /\ Cardinality(of(others)) \in Nat
    BY <1>1, <2>2, FS_Subset, FS_CardinalityType
  <2>5. MaxMem \in Nat
    BY Conversions
  <2>6. Pure!Total(table, ks) + s <= MaxMem
    BY <1>1, <2>3, <2>4, <2>5
  <2> QED BY <2>6 DEF Pure!Kept, ks, others
<1> QED BY <1>2 DEF Pure!Kept

----------------------------------------------------------------------------
(* The recency order after a step                                          *)

LEMMA RecencyElement ==
  \A p : p \in Recency <=> p \in (DOMAIN table) \X (DOMAIN table) /\ Precedes(order, p[1], p[2])
<1> QED BY DEF Recency

\* Touching a key of the table, old or new, makes it the one used last.
LEMMA RecencyTouched ==
  ASSUME MappedInv, NEW k \in Keys, NEW ks, ks \ {k} = DOMAIN table \ {k},
         order' = LRUTouch(order, k), DOMAIN table' = DOMAIN table \union {k}
  PROVE  Recency' = Pure!Used(Recency, ks, k)
<1>1. /\ order \in Seq(Keys) /\ IsInjective(order)
      /\ DOMAIN table \subseteq Range(order)
  BY DEF MappedInv, LibraryInv, TypeOK, OneNodePerKey, EvictorCoversTable
<1>2. /\ \A i, j : i # k /\ j # k => (Precedes(order', i, j) <=> Precedes(order, i, j))
      /\ \A i \in Range(order) : i # k => Precedes(order', i, k)
      /\ \A j : ~Precedes(order', k, j)
  BY <1>1, TouchPrecedes
<1>3. Recency' = {p \in (DOMAIN table \union {k}) \X (DOMAIN table \union {k}) :
                    Precedes(order', p[1], p[2])}
  BY DEF Recency
<1>4. ASSUME NEW i, NEW j
      PROVE  <<i, j>> \in Recency' <=> <<i, j>> \in Pure!Used(Recency, ks, k)
  <2> DEFINE rest == DOMAIN table \ {k}
  <2>1. <<i, j>> \in Recency' <=>
          i \in rest \union {k} /\ j \in rest \union {k} /\ Precedes(order', i, j)
    BY <1>3
  <2>2. <<i, j>> \in Pure!Used(Recency, ks, k) <=>
          \/ i \in rest /\ j \in rest /\ Precedes(order, i, j)
          \/ i \in rest /\ j = k
    BY DEF Pure!Used, Pure!Among, Recency
  <2> QED BY <1>1, <1>2, <2>1, <2>2
<1>5. /\ \A p \in Recency' : p = <<p[1], p[2]>>
      /\ \A p \in Pure!Used(Recency, ks, k) : p = <<p[1], p[2]>>
  BY <1>3 DEF Pure!Used, Pure!Among
<1> QED BY <1>4, <1>5

\* A key that goes leaves the order of the others.
LEMMA RecencyDropped ==
  ASSUME NEW k, order' = order, DOMAIN table' = DOMAIN table \ {k}
  PROVE  Recency' = Pure!Among(Recency, DOMAIN table \ {k})
<1> QED BY DEF Recency, Pure!Among

\* The next victim was used before every other key of the table, and its
\* eviction leaves the order of the others.
LEMMA RecencyEvicted ==
  ASSUME MappedInv, order # <<>>, order' = EvictRest(order),
         DOMAIN table' = DOMAIN table \ {EvictKey(order)}
  PROVE  /\ \A i, j \in DOMAIN table' : <<i, j>> \in Recency' <=> <<i, j>> \in Recency
         /\ EvictKey(order) \in DOMAIN table =>
              \A j \in DOMAIN table' :
                <<EvictKey(order), j>> \in Recency /\ <<j, EvictKey(order)>> \notin Recency
<1>1. /\ order \in Seq(Keys) /\ IsInjective(order)
      /\ DOMAIN table \subseteq Range(order)
  BY DEF MappedInv, LibraryInv, TypeOK, OneNodePerKey, EvictorCoversTable
<1>2. /\ \A j \in Range(order) : j # EvictKey(order) => Precedes(order, EvictKey(order), j)
      /\ \A j : ~Precedes(order, j, EvictKey(order))
      /\ \A i, j : i # EvictKey(order) =>
           (Precedes(order', i, j) <=> Precedes(order, i, j))
  BY <1>1, EvictPrecedes
<1> QED BY <1>1, <1>2 DEF Recency

----------------------------------------------------------------------------
(* Steps                                                                   *)

\* While a set is under way, the victim of its loop is a key, and there is no
\* room for the new value beside all others; when the loop ends, there is.
LEMMA RoomInLoop ==
  ASSUME OrdinaryUse, MappedInv, setting # NoSet
  PROVE  /\ setting.key \in Keys /\ setting.size \in Nat
         /\ Exceeds(setting.change) =>
              /\ order # <<>>
              /\ ~(Pure!Total(table, DOMAIN table \ {setting.key}) + setting.size <= MaxMem)
         /\ Fits(setting.change) =>
              current_mem - OldSize(setting.key) + setting.size <= MaxMem
<1>1. LibraryInv
  BY DEF MappedInv
<1>2. /\ setting \in Calls /\ setting.size \in 0 .. MaxMem
      /\ setting.change = setting.size - OldSize(setting.key)
      /\ Exceeds(setting.change) <=> current_mem + setting.change > MaxMem
      /\ Fits(setting.change) <=> current_mem + setting.change <= MaxMem
  BY <1>1, LoopCondition
<1>3. /\ MaxMem \in Nat /\ current_mem \in 0 .. MaxMem
      /\ OldSize(setting.key) \in 0 .. current_mem
  BY <1>1, SizesInTable, Conversions
<1>4. Pure!Total(table, DOMAIN table \ {setting.key}) = current_mem - OldSize(setting.key)
  BY <1>1, TotalOfOthers
<1>5. Exceeds(setting.change) => order # <<>>
  BY <1>1, VictimExists DEF EvictKey
<1>6. setting.key \in Keys
  BY <1>2 DEF Calls
<1>7. Exceeds(setting.change) =>
        ~(current_mem - OldSize(setting.key) + setting.size <= MaxMem)
  BY <1>2, <1>3
<1>8. Fits(setting.change) => current_mem - OldSize(setting.key) + setting.size <= MaxMem
  BY <1>2, <1>3
<1> QED BY <1>2, <1>3, <1>4, <1>5, <1>6, <1>7, <1>8

\* What AbstractContents and AbstractRecency are in the three situations.
LEMMA AbstractState ==
  /\ resetting => AbstractContents = <<>> /\ AbstractRecency = {}
  /\ MutexFree => AbstractContents = table /\ AbstractRecency = Recency
  /\ ~resetting /\ setting # NoSet =>
       /\ AbstractContents =
            Pure!PutContents(table, Recency, setting.key, setting.size, setting.buf)
       /\ AbstractRecency =
            Pure!Used(Recency, Pure!Kept(table, Recency, setting.key, setting.size), setting.key)
<1> QED BY DEF AbstractContents, AbstractRecency, MutexFree

LEMMA SameInsertion ==
  \A t, r, k, s, b :
    /\ Abstract!PutContents(t, r, k, s, b) = Pure!PutContents(t, r, k, s, b)
    /\ Abstract!Kept(t, r, k, s) = Pure!Kept(t, r, k, s)
    /\ Abstract!Used(r, t, k) = Pure!Used(r, t, k)
    /\ Abstract!Among(r, t) = Pure!Among(r, t)
<1>1. \A t, r, k, s : Abstract!Kept(t, r, k, s) = Pure!Kept(t, r, k, s)
  BY SameCardinality DEF Abstract!Kept, Pure!Kept, Abstract!Total, Pure!Total,
                         Abstract!Since, Pure!Since
<1> QED BY <1>1 DEF Abstract!PutContents, Pure!PutContents, Abstract!Used, Pure!Used,
                    Abstract!Among, Pure!Among

\* A set takes effect when its loop begins.
LEMMA BeginPuts ==
  ASSUME OrdinaryUse, MappedInv, NEW k \in Keys, NEW s \in Sizes, SetBegin(k, s), UnderwayFits'
  PROVE  \E b \in Buffers : Abstract!Put(k, s, b)
<1>1. PICK b \in Buffers \ live, change \in SizeChange(k, s) :
        setting' = [key |-> k, size |-> s, buf |-> b, change |-> change]
  BY DEF SetBegin
<1>2. /\ MutexFree /\ table' = table /\ order' = order /\ resetting' = resetting
      /\ ~resetting' /\ setting' # NoSet
  <2>1. setting' \in Calls
    BY BeginCall DEF MappedInv, LibraryInv
  <2> QED BY <2>1, NoSetAssumption DEF SetBegin, MutexFree
<1>3. Recency' = Recency
  BY <1>2 DEF Recency
<1>4. AbstractContents = table /\ AbstractRecency = Recency
  BY <1>2, AbstractState
<1>5. /\ AbstractContents' = Pure!PutContents(table, Recency, k, s, b)
      /\ AbstractRecency' = Pure!Used(Recency, Pure!Kept(table, Recency, k, s), k)
  BY <1>1, <1>2, <1>3 DEF AbstractContents, AbstractRecency
<1>6. s <= MaxMem
  BY <1>1, <1>2 DEF UnderwayFits
<1>7. b \notin {table[j].buf : j \in DOMAIN table}
  BY <1>1 DEF MappedInv, HeapSound, TableBuffers
<1> QED BY <1>1, <1>4, <1>5, <1>6, <1>7, SameInsertion DEF Abstract!Put

\* Its loop then only brings the table closer to what it will have made.
LEMMA StaleStutters ==
  ASSUME OrdinaryUse, MappedInv, EvictStale
  PROVE  UNCHANGED <<AbstractContents, AbstractRecency>>
<1>1. /\ table' = table /\ setting' = setting /\ resetting' = resetting /\ setting # NoSet
      /\ order' = EvictRest(order) /\ EvictKey(order) \notin DOMAIN table
      /\ Exceeds(setting.change)
  BY DEF EvictStale
<1>2. order # <<>>
  BY <1>1, RoomInLoop
<1>3. \A i, j \in DOMAIN table : <<i, j>> \in Recency' <=> <<i, j>> \in Recency
  BY <1>1, <1>2, RecencyEvicted
<1>4. Recency' = Recency
  BY <1>1, <1>3 DEF Recency
<1> QED BY <1>1, <1>4 DEF AbstractContents, AbstractRecency

LEMMA EvictionStutters ==
  ASSUME OrdinaryUse, MappedInv, EvictEntry
  PROVE  UNCHANGED <<AbstractContents, AbstractRecency>>
<1> DEFINE v == EvictKey(order)
           k == setting.key
           s == setting.size
<1>0. TypeOK /\ setting # NoSet /\ ~resetting
  BY DEF EvictEntry, MappedInv, LibraryInv, TypeOK
<1>1. /\ v \in DOMAIN table /\ Free(v) /\ order' = EvictRest(order)
      /\ Exceeds(setting.change) /\ resetting' = resetting
      /\ setting' = [setting EXCEPT !.change = Recomputed(v)]
  BY DEF EvictEntry
<1>2. /\ DOMAIN table' = DOMAIN table \ {v}
      /\ \A j \in DOMAIN table' : table'[j] = table[j]
  BY <1>0, <1>1, FreeEffect
<1>3. setting' # NoSet /\ setting'.key = k /\ setting'.size = s /\ setting'.buf = setting.buf
  <2>1. setting \in Calls
    BY <1>0 DEF TypeOK
  <2>2. setting' \in Calls
    BY <1>0, EvictCall
  <2> QED BY <1>1, <2>1, <2>2, NoSetAssumption DEF Calls
<1>4. /\ s \in Int /\ order # <<>>
      /\ ~(Pure!Total(table, DOMAIN table \ {k}) + s <= MaxMem)
  BY <1>0, <1>1, RoomInLoop
<1>5. /\ \A i, j \in DOMAIN table' : <<i, j>> \in Recency' <=> <<i, j>> \in Recency
      /\ \A j \in DOMAIN table' : <<v, j>> \in Recency /\ <<j, v>> \notin Recency
  BY <1>1, <1>2, <1>4, RecencyEvicted
<1> HIDE DEF v, k, s
<1>6. /\ Pure!PutContents(table', Recency', k, s, setting.buf)
           = Pure!PutContents(table, Recency, k, s, setting.buf)
      /\ Pure!Used(Recency', Pure!Kept(table', Recency', k, s), k)
           = Pure!Used(Recency, Pure!Kept(table, Recency, k, s), k)
  BY <1>1, <1>2, <1>4, <1>5, EvictionKeepsResult
<1>7. /\ AbstractContents = Pure!PutContents(table, Recency, k, s, setting.buf)
      /\ AbstractRecency = Pure!Used(Recency, Pure!Kept(table, Recency, k, s), k)
  BY <1>0 DEF AbstractContents, AbstractRecency, k, s
<1>8. /\ AbstractContents' = Pure!PutContents(table', Recency', k, s, setting.buf)
      /\ AbstractRecency' = Pure!Used(Recency', Pure!Kept(table', Recency', k, s), k)
  BY <1>0, <1>1, <1>3 DEF AbstractContents, AbstractRecency
<1> QED BY <1>6, <1>7, <1>8

\* The insertion after the loop makes precisely the promised table.
LEMMA FinishStutters ==
  ASSUME OrdinaryUse, MappedInv, SetFinish
  PROVE  UNCHANGED <<AbstractContents, AbstractRecency>>
<1> DEFINE k == setting.key
           s == setting.size
<1>0. TypeOK /\ setting # NoSet /\ ~resetting /\ LibraryInv
  BY DEF SetFinish, MappedInv, LibraryInv, TypeOK
<1>1. /\ setting' = NoSet /\ resetting' = resetting /\ Fits(setting.change)
      /\ order' = LRUTouch(order, k)
      /\ table' = [j \in DOMAIN table \union {k} |->
                     IF j = k THEN [buf |-> setting.buf, size |-> s] ELSE table[j]]
  BY DEF SetFinish, Touched, MappedInv
<1>2. /\ k \in Keys /\ s \in Nat /\ current_mem - OldSize(k) + s <= MaxMem
  BY <1>0, <1>1, RoomInLoop
<1> HIDE DEF k, s
<1>3. Pure!Kept(table, Recency, k, s) = DOMAIN table \ {k}
  BY <1>0, <1>2, AllKept
<1>4. Recency' = Pure!Used(Recency, DOMAIN table \ {k}, k)
  BY <1>1, <1>2, RecencyTouched
<1>5. table' = Pure!PutContents(table, Recency, k, s, setting.buf)
  <2>1. (DOMAIN table \ {k}) \union {k} = DOMAIN table \union {k}
    OBVIOUS
  <2> QED BY <1>1, <1>3, <2>1 DEF Pure!PutContents
<1>6. /\ AbstractContents = Pure!PutContents(table, Recency, k, s, setting.buf)
      /\ AbstractRecency = Pure!Used(Recency, Pure!Kept(table, Recency, k, s), k)
  BY <1>0 DEF AbstractContents, AbstractRecency, k, s
<1>7. AbstractContents' = table' /\ AbstractRecency' = Recency'
  BY <1>0, <1>1 DEF AbstractContents, AbstractRecency
<1> QED BY <1>3, <1>4, <1>5, <1>6, <1>7

LEMMA GetHitGets ==
  ASSUME MappedInv, NEW k \in Keys, GetHit(k)
  PROVE  Abstract!Get(k)
<1>1. /\ MutexFree /\ MutexFree' /\ k \in DOMAIN table /\ table' = table
      /\ order' = LRUTouch(order, k)
  BY DEF GetHit, Touched, MappedInv, MutexFree
<1>2. Recency' = Pure!Used(Recency, DOMAIN table, k)
  BY <1>1, RecencyTouched
<1>3. /\ AbstractContents = table /\ AbstractRecency = Recency
      /\ AbstractContents' = table' /\ AbstractRecency' = Recency'
  BY <1>1 DEF AbstractContents, AbstractRecency, MutexFree
<1> QED BY <1>1, <1>2, <1>3, SameInsertion DEF Abstract!Get

LEMMA DelDels ==
  ASSUME MappedInv, NEW k \in Keys, Del(k)
  PROVE  Abstract!Del(k)
<1>1. /\ MutexFree /\ MutexFree' /\ k \in DOMAIN table /\ order' = order
      /\ table' = Restrict(table, DOMAIN table \ {k})
  BY DEF Del, Free, MutexFree
<1>2. DOMAIN table' = DOMAIN table \ {k}
  BY <1>1 DEF Restrict
<1>3. Recency' = Pure!Among(Recency, DOMAIN table \ {k})
  BY <1>1, <1>2, RecencyDropped
<1>4. /\ AbstractContents = table /\ AbstractRecency = Recency
      /\ AbstractContents' = table' /\ AbstractRecency' = Recency'
  BY <1>1 DEF AbstractContents, AbstractRecency, MutexFree
<1>5. Abstract!Restrict(table, DOMAIN table \ {k}) = Restrict(table, DOMAIN table \ {k})
  BY DEF Abstract!Restrict, Restrict
<1> QED BY <1>1, <1>3, <1>4, <1>5, SameInsertion DEF Abstract!Del

\* A reset takes effect when it begins, and its end leaves it as it is.
LEMMA ResetResets ==
  ASSUME MappedInv
  PROVE  /\ ResetBegin => Abstract!Reset
         /\ \A k \in Keys : ResetFree(k) => UNCHANGED <<AbstractContents, AbstractRecency>>
         /\ ResetEnd => UNCHANGED <<AbstractContents, AbstractRecency>>
<1>1. ASSUME ResetBegin PROVE Abstract!Reset
  BY <1>1 DEF ResetBegin, Abstract!Reset, AbstractContents, AbstractRecency
<1>2. ASSUME NEW k \in Keys, ResetFree(k) PROVE UNCHANGED <<AbstractContents, AbstractRecency>>
  BY <1>2 DEF ResetFree, AbstractContents, AbstractRecency
<1>3. ASSUME ResetEnd PROVE UNCHANGED <<AbstractContents, AbstractRecency>>
  <2>1. resetting /\ ~resetting' /\ table' = table /\ DOMAIN table = {} /\ setting' = setting
    BY <1>3 DEF ResetEnd
  <2>2. setting = NoSet /\ table = [k \in DOMAIN table |-> table[k]]
    BY <2>1 DEF MappedInv, LibraryInv, TypeOK
  <2>3. table' = <<>> /\ Recency' = {}
    BY <2>1, <2>2 DEF Recency
  <2> QED BY <2>1, <2>2, <2>3 DEF AbstractContents, AbstractRecency
<1> QED BY <1>1, <1>2, <1>3

LEMMA IdleStutters ==
  UNCHANGED <<table, order, setting, resetting>> => UNCHANGED <<AbstractContents, AbstractRecency>>
<1> SUFFICES ASSUME UNCHANGED <<table, order, setting, resetting>>
             PROVE  UNCHANGED <<AbstractContents, AbstractRecency>>
  OBVIOUS
<1>1. Recency' = Recency
  BY DEF Recency
<1> QED BY <1>1 DEF AbstractContents, AbstractRecency

\* Each step of the library is a step of the promised cache, or leaves it as it was.
LEMMA StepImplementsCache ==
  ASSUME OrdinaryUse, MappedInv, [Next]_vars, UnderwayFits'
  PROVE  [Abstract!Next]_<<AbstractContents, AbstractRecency>>
<1>1. ASSUME NEW k \in Keys, NEW s \in Sizes, SetRefused(k, s)
      PROVE  UNCHANGED <<AbstractContents, AbstractRecency>>
  BY <1>1, IdleStutters DEF SetRefused
<1>2. ASSUME NEW k \in Keys, NEW s \in Sizes, SetBegin(k, s) PROVE Abstract!Next
  BY <1>2, BeginPuts DEF Abstract!Next
<1>3. ASSUME NEW k \in Keys, GetHit(k) \/ Del(k) PROVE Abstract!Next
  BY <1>3, GetHitGets, DelDels DEF Abstract!Next
<1>4. CASE SetLoop
  BY <1>4, StaleStutters, EvictionStutters, FinishStutters DEF SetLoop
<1>5. CASE ResetBegin
  BY <1>5, ResetResets DEF Abstract!Next
<1>6. CASE ResetLoop
  BY <1>6, ResetResets DEF ResetLoop
<1>7. CASE UNCHANGED vars
  BY <1>7, IdleStutters DEF vars
<1> QED BY <1>1, <1>2, <1>3, <1>4, <1>5, <1>6, <1>7 DEF Next

\* In ordinary use, a library with an LRU evictor is the cache that cache.hh
\* promises: for any number of keys and buffers and any maxmem, its lazily
\* cleaned list and its loop over int and uint32_t drop exactly the least recently
\* used keys that an insertion needs dropped.
THEOREM LibraryIsAnLRUCache ==
  OrdinaryUse => (Spec /\ my_evictor = "LRU" => ImplementsLRUCache)
<1> SUFFICES ASSUME OrdinaryUse PROVE Spec /\ my_evictor = "LRU" => ImplementsLRUCache
  OBVIOUS
<1>1. Init => Abstract!Init
  BY DEF Init, Abstract!Init, AbstractContents, AbstractRecency, Recency
<1>2. my_evictor = "LRU" /\ [Next]_vars => (my_evictor = "LRU")'
  BY EvictorKept
<1>3. LibraryInv /\ LibraryInv' /\ HeapSound /\ OneNodePerKey /\ my_evictor = "LRU" /\ [Next]_vars
        => [Abstract!Next]_<<AbstractContents, AbstractRecency>>
  BY StepImplementsCache DEF MappedInv, LibraryInv
<1> QED BY <1>1, <1>2, <1>3, LibraryIsCorrect, HeapIsSound, ListHasNoDuplicates, PTL
        DEF Spec, ImplementsLRUCache, Abstract!Spec
=============================================================================
