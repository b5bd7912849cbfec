-------------------------- MODULE CacheServerProofs --------------------------
(***************************************************************************)
(* Theorems about the workers of the server and the cache they share, for  *)
(* any number of workers, keys, sizes and buffers.                         *)
(***************************************************************************)
EXTENDS CacheServer, CacheLibProofs

Labels == {"idle", "copy", "set", "reset", "header"}
Requests == {NoRequest} \union [method : Methods, key : Keys \union {EmptyKey}]

Holding(w) == pc[w] \in {"set", "reset"}

\* Who is inside the library says so in its pc, and nobody else does.
HolderInv ==
  /\ \A w \in Workers : pc[w] = "set" => setting # NoSet
  /\ \A w \in Workers : pc[w] = "reset" => resetting
  /\ \A v, w \in Workers : Holding(v) /\ Holding(w) => v = w
  /\ ~MutexFree => \E w \in Workers : Holding(w)

\* What a worker remembers is still so; it holds when no other can step in.
Undisturbed(w) ==
  /\ pc[w] = "copy" => ptr[w] \in live
  /\ pc[w] = "set" => req[w] = Request("put", setting.key)
  /\ pc[w] = "reset" => req[w].method = "post"
  /\ pc[w] = "header" =>
       /\ req[w].method = "put" => req[w].key \in DOMAIN table
       /\ req[w].method = "delete" => req[w].key \notin DOMAIN table
       /\ req[w].method = "post" => current_mem = 0

Alone == \A v, w \in pool : v = w

ServerInv ==
  /\ TypeOK /\ HeapSound
  /\ pool \subseteq Workers
  /\ pc \in [Workers -> Labels]
  /\ req \in [Workers -> Requests]
  /\ ptr \in [Workers -> Buffers \union {NoBuf}]
  /\ \A w \in Workers \ pool : pc[w] = "idle"
  /\ HolderInv
  /\ Alone => \A w \in pool : Undisturbed(w)

----------------------------------------------------------------------------
(* The library behind the server                                           *)

\* One step of a worker w.
WorkerStep(w) ==
  \/ Continue(w)
  \/ \E k \in Keys : GetStart(w, k) \/ DeleteKey(w, k)
  \/ \E k \in Keys, s \in Sizes : PutRefused(w, k, s) \/ PutStart(w, k, s)
  \/ HeadStart(w) \/ PostReset(w)

LEMMA ServerStepIsLibraryStep == [ServerNext]_allVars => [Next]_vars
<1> SUFFICES ASSUME [ServerNext]_allVars PROVE [Next]_vars
  OBVIOUS
<1>1. CASE UNCHANGED allVars
  BY <1>1 DEF allVars
<1>2. ASSUME NEW w \in pool, WorkerStep(w) PROVE [Next]_vars
  <2>1. Continue(w) => [Next]_vars
    BY DEF Continue, CopyValue, PutEvict, PutFinish, PostFree, PostFinish, ReadSpaceUsed,
           Next, SetLoop, ResetLoop
  <2>2. ASSUME NEW k \in Keys, GetStart(w, k) \/ DeleteKey(w, k) PROVE [Next]_vars
    BY <2>2 DEF GetStart, DeleteKey, Next
  <2>3. ASSUME NEW k \in Keys, NEW s \in Sizes, PutRefused(w, k, s) \/ PutStart(w, k, s)
        PROVE  [Next]_vars
    BY <2>3 DEF PutRefused, PutStart, Next
  <2>4. HeadStart(w) \/ PostReset(w) => [Next]_vars
    BY DEF HeadStart, PostReset, Next
  <2> QED BY <1>2, <2>1, <2>2, <2>3, <2>4 DEF WorkerStep
<1> QED BY <1>1, <1>2 DEF ServerNext, WorkerStep

\* Requests reach the cache through the library's operations only: what holds
\* of the library under any calls holds behind the server, with any pool.
THEOREM ServerUsesLibrary == ServerSpec => Spec
<1>1. ServerInit => Init
  BY DEF ServerInit
<1> QED BY <1>1, ServerStepIsLibraryStep, PTL DEF ServerSpec, Spec

\* The cache behind the server counts its bytes, keeps within maxmem and ends
\* the process by no assertion, for any pool of threads.
THEOREM ServedCacheIsCorrect ==
  OrdinaryUse => (ServerSpec => [](Accounting /\ WithinMaxMem /\ NoAssertionFails))
<1>1. LibraryInv => Accounting /\ WithinMaxMem /\ NoAssertionFails
  BY DEF LibraryInv
<1> QED BY <1>1, LibraryIsCorrect, ServerUsesLibrary, PTL

\* However its threads interleave, a server with an LRU evictor serves an LRU cache.
THEOREM ServedCacheIsAnLRUCache ==
  OrdinaryUse => (ServerSpec /\ my_evictor = "LRU" => ImplementsLRUCache)
<1> QED BY LibraryIsAnLRUCache, ServerUsesLibrary, PTL

----------------------------------------------------------------------------
(* The steps of a worker                                                   *)

\* A step changes the locals of the worker that takes it, within their types.
Moves(w, label, r) == label \in Labels /\ r \in Requests /\ Goto(w, label, r)
Points(w, b) == b \in Buffers \union {NoBuf} /\ ptr' = [ptr EXCEPT ![w] = b]
Framed(w) ==
  /\ pc' \in [Workers -> Labels] /\ req' \in [Workers -> Requests]
  /\ ptr' \in [Workers -> Buffers \union {NoBuf}]
  /\ \A v \in Workers \ {w} : UNCHANGED <<pc[v], req[v], ptr[v]>>

LEMMA WorkerFrame ==
  ASSUME ServerInv, NEW w \in pool, WorkerStep(w)
  PROVE  Framed(w)
<1>1. /\ w \in Workers /\ pc \in [Workers -> Labels] /\ req \in [Workers -> Requests]
      /\ ptr \in [Workers -> Buffers \union {NoBuf}]
  BY DEF ServerInv
<1>2. ASSUME NEW label, NEW r, Moves(w, label, r), UNCHANGED ptr \/ \E b : Points(w, b)
      PROVE  Framed(w)
  <2>1. \A v \in Workers \ {w} : UNCHANGED <<pc[v], req[v], ptr[v]>>
    BY <1>1, <1>2 DEF Goto, Moves, Points
  <2> QED BY <1>1, <1>2, <2>1 DEF Goto, Moves, Points, Framed
<1>3. UNCHANGED serverVars => Framed(w)
  BY <1>1 DEF serverVars, Framed
<1>4. /\ NoRequest \in Requests /\ req[w] \in Requests
      /\ \A m \in Methods, k \in Keys \union {EmptyKey} : Request(m, k) \in Requests
      /\ {"idle", "copy", "set", "reset", "header"} = Labels
      /\ {"get", "put", "delete", "head", "post"} \subseteq Methods
  BY <1>1 DEF Requests, Request, Labels, Methods
<1>5. CASE Continue(w)
  <2>1. CopyValue(w) => Moves(w, "idle", NoRequest) /\ Points(w, NoBuf)
    BY <1>4 DEF CopyValue, Moves, Points
  <2>2. PutFinish(w) \/ PostFinish(w) => Moves(w, "header", req[w]) /\ UNCHANGED ptr
    BY <1>4 DEF PutFinish, PostFinish, Moves, Points
  <2>3. ReadSpaceUsed(w) => Moves(w, "idle", NoRequest) /\ UNCHANGED ptr
    BY <1>4 DEF ReadSpaceUsed, Moves, Points
  <2>4. PutEvict(w) \/ PostFree(w) => UNCHANGED serverVars
    BY DEF PutEvict, PostFree
  <2> QED BY <1>2, <1>3, <1>5, <2>1, <2>2, <2>3, <2>4 DEF Continue
<1>6. ASSUME NEW k \in Keys, GetStart(w, k) PROVE Framed(w)
  <2>1. table[k].buf \in Buffers
    BY <1>6 DEF GetStart, GetHit, ServerInv, TypeOK, Entries
  <2>2. Moves(w, "copy", Request("get", k)) /\ Points(w, table[k].buf)
    BY <1>4, <1>6, <2>1 DEF GetStart, Moves, Points
  <2> QED BY <1>2, <2>2
<1>7. ASSUME NEW k \in Keys, DeleteKey(w, k) PROVE Framed(w)
  <2>1. Moves(w, "header", Request("delete", k)) /\ UNCHANGED ptr
    BY <1>4, <1>7 DEF DeleteKey, Moves, Points
  <2> QED BY <1>2, <2>1
<1>8. ASSUME NEW k \in Keys, NEW s \in Sizes, PutRefused(w, k, s) \/ PutStart(w, k, s)
      PROVE  Framed(w)
  <2>1. PutRefused(w, k, s) => Moves(w, "header", NoRequest) /\ UNCHANGED ptr
    BY <1>4 DEF PutRefused, Moves, Points
  <2>2. PutStart(w, k, s) => Moves(w, "set", Request("put", k)) /\ UNCHANGED ptr
    BY <1>4 DEF PutStart, Moves, Points
  <2> QED BY <1>2, <1>8, <2>1, <2>2
<1>9. CASE HeadStart(w) \/ PostReset(w)
  <2>1. HeadStart(w) => Moves(w, "header", Request("head", EmptyKey)) /\ UNCHANGED ptr
    BY <1>4 DEF HeadStart, Moves, Points
  <2>2. PostReset(w) => Moves(w, "reset", Request("post", EmptyKey)) /\ UNCHANGED ptr
    BY <1>4 DEF PostReset, Moves, Points
  <2> QED BY <1>2, <1>9, <2>1, <2>2
<1> QED BY <1>5, <1>6, <1>7, <1>8, <1>9 DEF WorkerStep

\* A set in progress stays one until it finishes.
LEMMA SettingStays ==
  ASSUME TypeOK, EvictStale \/ EvictEntry
  PROVE  setting' # NoSet /\ setting'.key = setting.key /\ resetting' = resetting
<1>1. CASE EvictStale
  BY <1>1 DEF EvictStale
<1>2. CASE EvictEntry
  <2>1. resetting' = resetting
    BY <1>2 DEF EvictEntry
  <2> QED BY <1>2, <2>1, EvictCall, NoSetAssumption
<1> QED BY <1>1, <1>2

\* The mutex is taken by one worker and given back by the same.
LEMMA HolderKept ==
  ASSUME ServerInv, NEW w \in pool, WorkerStep(w)
  PROVE  HolderInv'
<1>1. /\ w \in Workers /\ TypeOK /\ HolderInv /\ pc \in [Workers -> Labels]
      /\ \A v \in Workers \ {w} : pc'[v] = pc[v]
  BY WorkerFrame DEF ServerInv, Framed
<1>2. MutexFree => \A v \in Workers : ~Holding(v)
  BY <1>1 DEF HolderInv, Holding, MutexFree
<1>3. ASSUME UNCHANGED <<setting, resetting>>, ~Holding(w), ~Holding(w)' PROVE HolderInv'
  BY <1>1, <1>3 DEF HolderInv, Holding, MutexFree
<1>4. CASE CopyValue(w) \/ ReadSpaceUsed(w) \/ HeadStart(w)
  BY <1>1, <1>3, <1>4 DEF CopyValue, ReadSpaceUsed, HeadStart, Goto, Holding, vars
<1>5. ASSUME NEW k \in Keys, GetStart(w, k) \/ DeleteKey(w, k) PROVE HolderInv'
  BY <1>1, <1>3, <1>5 DEF GetStart, GetHit, DeleteKey, Del, Goto, Holding, vars
<1>6. ASSUME NEW k \in Keys, NEW s \in Sizes, PutRefused(w, k, s) PROVE HolderInv'
  BY <1>1, <1>3, <1>6 DEF PutRefused, SetRefused, Goto, Holding
<1>7. ASSUME NEW k \in Keys, NEW s \in Sizes, PutStart(w, k, s) PROVE HolderInv'
  <2>1. MutexFree /\ pc'[w] = "set" /\ resetting' = resetting
    BY <1>1, <1>7 DEF PutStart, SetBegin, Goto
  <2>2. setting' # NoSet
    BY <1>1, <1>7, BeginCall, NoSetAssumption DEF PutStart
  <2> QED BY <1>1, <1>2, <2>1, <2>2 DEF HolderInv, Holding, MutexFree
<1>8. CASE PutEvict(w)
  <2>1. UNCHANGED pc /\ pc[w] = "set" /\ setting' # NoSet /\ UNCHANGED resetting
    BY <1>1, <1>8, SettingStays DEF PutEvict, serverVars
  <2> QED BY <1>1, <2>1 DEF HolderInv, Holding, MutexFree
<1>9. CASE PutFinish(w)
  <2>1. pc[w] = "set" /\ pc'[w] = "header" /\ setting' = NoSet /\ setting # NoSet
        /\ UNCHANGED resetting
    BY <1>1, <1>9 DEF PutFinish, SetFinish, Goto
  <2> QED BY <1>1, <2>1 DEF HolderInv, Holding, MutexFree, TypeOK
<1>10. CASE PostReset(w)
  <2>1. MutexFree /\ pc'[w] = "reset" /\ resetting' = TRUE /\ UNCHANGED setting
    BY <1>1, <1>10 DEF PostReset, ResetBegin, Goto
  <2> QED BY <1>1, <1>2, <2>1 DEF HolderInv, Holding, MutexFree
<1>11. CASE PostFree(w)
  <2>1. UNCHANGED <<pc, setting, resetting>>
    BY <1>11 DEF PostFree, ResetFree, serverVars
  <2> QED BY <1>1, <2>1 DEF HolderInv, Holding, MutexFree
<1>12. CASE PostFinish(w)
  <2>1. pc[w] = "reset" /\ pc'[w] = "header" /\ resetting' = FALSE /\ resetting
        /\ UNCHANGED setting
    BY <1>1, <1>12 DEF PostFinish, ResetEnd, Goto
  <2> QED BY <1>1, <2>1 DEF HolderInv, Holding, MutexFree, TypeOK
<1> QED BY <1>4, <1>5, <1>6, <1>7, <1>8, <1>9, <1>10, <1>11, <1>12 DEF WorkerStep, Continue

\* What a worker that is alone remembers stays so until it uses it.
LEMMA StaysUndisturbed ==
  ASSUME ServerInv, NEW w \in pool, WorkerStep(w), Undisturbed(w)
  PROVE  Undisturbed(w)'
<1>1. /\ w \in Workers /\ TypeOK /\ HeapSound /\ pc \in [Workers -> Labels]
      /\ req \in [Workers -> Requests] /\ ptr \in [Workers -> Buffers \union {NoBuf}]
  BY DEF ServerInv
<1>2. CASE CopyValue(w) \/ ReadSpaceUsed(w)
  <2>1. pc'[w] = "idle"
    BY <1>1, <1>2 DEF CopyValue, ReadSpaceUsed, Goto
  <2> QED BY <2>1 DEF Undisturbed
<1>3. CASE PutEvict(w)
  <2>1. UNCHANGED <<pc[w], req[w]>> /\ pc[w] = "set" /\ setting'.key = setting.key
    BY <1>1, <1>3, SettingStays DEF PutEvict, serverVars
  <2> QED BY <2>1 DEF Undisturbed, Request
<1>4. CASE PutFinish(w)
  <2>1. pc[w] = "set" /\ pc'[w] = "header" /\ req'[w] = req[w] /\ SetFinish
    BY <1>1, <1>4 DEF PutFinish, Goto
  <2>2. setting.key \in DOMAIN table'
    BY <1>1, <2>1, InsertEffect
  <2>3. req'[w].method = "put" /\ req'[w].key \in DOMAIN table'
    BY <2>1, <2>2 DEF Undisturbed, Request
  <2> QED BY <2>1, <2>3 DEF Undisturbed
<1>5. CASE PostFree(w)
  <2>1. UNCHANGED <<pc[w], req[w]>> /\ pc[w] = "reset"
    BY <1>5 DEF PostFree, serverVars
  <2> QED BY <2>1 DEF Undisturbed
<1>6. CASE PostFinish(w)
  <2>1. pc[w] = "reset" /\ pc'[w] = "header" /\ req'[w] = req[w] /\ current_mem' = 0
    BY <1>1, <1>6 DEF PostFinish, ResetEnd, Goto
  <2> QED BY <2>1 DEF Undisturbed
<1>7. ASSUME NEW k \in Keys, GetStart(w, k) PROVE Undisturbed(w)'
  <2>1. pc'[w] = "copy" /\ ptr'[w] = table[k].buf /\ live' = live /\ k \in DOMAIN table
    BY <1>1, <1>7 DEF GetStart, GetHit, Goto
  <2>2. table[k].buf \in live
    BY <1>1, <2>1 DEF HeapSound, TableBuffers
  <2> QED BY <2>1, <2>2 DEF Undisturbed
<1>8. ASSUME NEW k \in Keys, DeleteKey(w, k) PROVE Undisturbed(w)'
  <2>1. pc'[w] = "header" /\ req'[w] = Request("delete", k)
    BY <1>1, <1>8 DEF DeleteKey, Goto
  <2>2. k \notin DOMAIN table'
    <3>1. CASE Del(k)
      BY <1>1, <3>1, FreeEffect DEF Del
    <3>2. CASE k \notin DOMAIN table /\ UNCHANGED vars
      BY <3>2 DEF vars
    <3> QED BY <1>8, <3>1, <3>2 DEF DeleteKey
  <2> QED BY <2>1, <2>2 DEF Undisturbed, Request
<1>9. ASSUME NEW k \in Keys, NEW s \in Sizes, PutRefused(w, k, s) PROVE Undisturbed(w)'
  <2>1. pc'[w] = "header" /\ req'[w] = NoRequest
    BY <1>1, <1>9 DEF PutRefused, Goto
  <2> QED BY <2>1 DEF Undisturbed, NoRequest
<1>10. ASSUME NEW k \in Keys, NEW s \in Sizes, PutStart(w, k, s) PROVE Undisturbed(w)'
  <2>1. pc'[w] = "set" /\ req'[w] = Request("put", k)
    BY <1>1, <1>10 DEF PutStart, Goto
  <2>2. setting'.key = k
    BY <1>10 DEF PutStart, SetBegin
  <2> QED BY <2>1, <2>2 DEF Undisturbed
<1>11. CASE HeadStart(w)
  <2>1. pc'[w] = "header" /\ req'[w] = Request("head", EmptyKey)
    BY <1>1, <1>11 DEF HeadStart, Goto
  <2> QED BY <2>1 DEF Undisturbed, Request
<1>12. CASE PostReset(w)
  <2>1. pc'[w] = "reset" /\ req'[w] = Request("post", EmptyKey)
    BY <1>1, <1>12 DEF PostReset, Goto
  <2> QED BY <2>1 DEF Undisturbed, Request
<1> QED BY <1>2, <1>3, <1>4, <1>5, <1>6, <1>7, <1>8, <1>9, <1>10, <1>11, <1>12
        DEF WorkerStep, Continue

----------------------------------------------------------------------------
(* All workers                                                             *)

LEMMA InitServerInv == ServerInit => ServerInv
<1> SUFFICES ASSUME ServerInit PROVE ServerInv
  OBVIOUS
<1>1. Init /\ TypeOK
  BY InitTypeOK DEF ServerInit
<1>2. HeapSound /\ MutexFree
  <2>1. DOMAIN <<>> = {}
    OBVIOUS
  <2> QED BY <1>1, <2>1 DEF Init, HeapSound, TableBuffers, MutexFree
<1>3. HolderInv
  BY <1>2 DEF ServerInit, HolderInv, Holding
<1>4. \A w \in pool : Undisturbed(w)
  BY DEF ServerInit, Undisturbed
<1> QED BY <1>1, <1>2, <1>3, <1>4 DEF ServerInit, ServerInv, Labels, Requests

LEMMA NextServerInv == ServerInv /\ [ServerNext]_allVars => ServerInv'
<1> SUFFICES ASSUME ServerInv, [ServerNext]_allVars PROVE ServerInv'
  OBVIOUS
<1>1. TypeOK' /\ HeapSound'
  BY ServerStepIsLibraryStep, NextTypeOK, NextHeapSound DEF ServerInv
<1>2. CASE UNCHANGED allVars
  <2>1. UNCHANGED <<vars, pool, pc, req, ptr>>
    BY <1>2 DEF allVars
  <2>2. HolderInv'
    BY <2>1 DEF ServerInv, HolderInv, Holding, MutexFree, vars
  <2>3. Alone' => \A w \in pool' : Undisturbed(w)'
    BY <2>1 DEF ServerInv, Alone, Undisturbed, vars
  <2> QED BY <1>1, <2>1, <2>2, <2>3 DEF ServerInv
<1>3. ASSUME NEW w \in pool, WorkerStep(w), pool' = pool PROVE ServerInv'
  <2>1. Framed(w) /\ HolderInv'
    BY <1>3, WorkerFrame, HolderKept
  <2>2. Alone' => \A v \in pool' : Undisturbed(v)'
    <3>1. Alone => Undisturbed(w)'
      BY <1>3, StaysUndisturbed DEF ServerInv
    <3> QED BY <1>3, <3>1 DEF Alone
  <2> QED BY <1>1, <1>3, <2>1, <2>2 DEF ServerInv, Framed
<1> QED BY <1>2, <1>3 DEF ServerNext, WorkerStep

LEMMA ServerInvAlways == ServerSpec => []ServerInv
BY InitServerInv, NextServerInv, PTL DEF ServerSpec

\* The library's variables and the workers' locals keep their types with any
\* number of workers inside the library's calls.
THEOREM ServerTypes == ServerSpec => []ServerTypeOK
<1>1. ServerInv => ServerTypeOK
  BY DEF ServerInv, ServerTypeOK, Labels, Requests, Methods, NoRequest
<1> QED BY <1>1, ServerInvAlways, PTL

\* The mutex has one holder whenever it is taken: no other worker's operation
\* comes between an eviction and the insertion it makes room for.
THEOREM MutexHasOneHolder == ServerSpec => []OneHolder
<1>1. ServerInv => OneHolder
  BY DEF ServerInv, HolderInv, OneHolder, Holding, MutexFree
<1> QED BY <1>1, ServerInvAlways, PTL

\* A server with its default of one thread replies with values that are still
\* allocated and with headers that describe what the request has done.
THEOREM OneThreadReadsWhatItWrote == ServerSpec => []OneThreadIsSafe
<1>1. ServerInv => OneThreadIsSafe
  <2> SUFFICES ASSUME ServerInv, Cardinality(pool) = 1
               PROVE  ReadsLiveValue /\ HeaderReflectsRequest
    BY DEF OneThreadIsSafe
  <2>1. pool \subseteq Workers /\ IsFiniteSet(pool)
    BY WorkersAssumption, FS_Subset DEF ServerInv
  <2>2. Alone
    BY <2>1, FS_Singleton DEF Alone
  <2>3. \A w \in pool : Undisturbed(w)
    BY <2>2 DEF ServerInv
  <2>4. \A w \in Workers : pc[w] # "idle" => w \in pool
    BY DEF ServerInv
  <2> QED BY <2>3, <2>4 DEF ReadsLiveValue, HeaderReflectsRequest, Undisturbed
<1> QED BY <1>1, ServerInvAlways, PTL
=============================================================================
