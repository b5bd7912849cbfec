---------------------------- MODULE CacheServer ----------------------------
(***************************************************************************)
(* handle_request of cache_server.cc, run by the threads of the io_context *)
(* against one shared Cache.  main starts -t threads: the pool is any      *)
(* non-empty set of Workers.                                               *)
(*                                                                         *)
(* The mutex is inside the Cache's operations.  A request that makes two   *)
(* of them, or uses a result after the call, does so in separate steps:    *)
(*   GET     get(), then std::string(val) on the pointer it returned       *)
(*   others  set(), del() or reset(), then space_used() for the header     *)
(* Requests answered without the cache (400) are left out.                 *)
(***************************************************************************)
EXTENDS CacheLib

CONSTANTS
  Workers,   \* threads in ioc.run()
  NoBuf      \* no pointer

ASSUME NoBufAssumption == NoBuf \notin Buffers
ASSUME WorkersAssumption == IsFiniteSet(Workers)

VARIABLES
  pool,  \* the threads there are
  pc,    \* where each worker is in handle_request
  req,   \* the request it is serving: method and key
  ptr    \* GET: the val_type that get() returned

serverVars == <<pc, req, ptr>>
allVars == <<vars, pool, pc, req, ptr>>

Methods == {"none", "get", "put", "delete", "head", "post"}
NoRequest == [method |-> "none"]
Request(m, k) == [method |-> m, key |-> k]

Goto(w, label, r) ==
  /\ pc' = [pc EXCEPT ![w] = label]
  /\ req' = [req EXCEPT ![w] = r]

ServerInit ==
  /\ Init
  /\ pool \in SUBSET Workers \ {{}}
  /\ pc = [w \in Workers |-> "idle"]
  /\ req = [w \in Workers |-> NoRequest]
  /\ ptr = [w \in Workers |-> NoBuf]

\* GET, a hit: the pointer leaves the library with the mutex released.
GetStart(w, k) ==
  /\ pc[w] = "idle"
  /\ GetHit(k)
  /\ ptr' = [ptr EXCEPT ![w] = table[k].buf]
  /\ Goto(w, "copy", Request("get", k))

\* tuple["value"] = std::string(val), then the reply is sent.
CopyValue(w) ==
  /\ Running /\ pc[w] = "copy"
  /\ ptr' = [ptr EXCEPT ![w] = NoBuf]
  /\ Goto(w, "idle", NoRequest)
  /\ UNCHANGED vars

\* PUT: set() returns early, or takes the mutex and enters its loop.
PutRefused(w, k, s) ==
  /\ pc[w] = "idle"
  /\ SetRefused(k, s)
  /\ Goto(w, "header", NoRequest)
  /\ UNCHANGED ptr

PutStart(w, k, s) ==
  /\ pc[w] = "idle"
  /\ SetBegin(k, s)
  /\ Goto(w, "set", Request("put", k))
  /\ UNCHANGED ptr

PutEvict(w) ==
  /\ pc[w] = "set"
  /\ EvictStale \/ EvictEntry
  /\ UNCHANGED serverVars

PutFinish(w) ==
  /\ pc[w] = "set"
  /\ SetFinish
  /\ Goto(w, "header", req[w])
  /\ UNCHANGED ptr

\* DELETE of a key present or absent; del()'s result is not looked at.
DeleteKey(w, k) ==
  /\ pc[w] = "idle"
  /\ \/ Del(k)
     \/ Running /\ MutexFree /\ k \notin DOMAIN table /\ UNCHANGED vars
  /\ Goto(w, "header", Request("delete", k))
  /\ UNCHANGED ptr

HeadStart(w) ==
  /\ Running /\ pc[w] = "idle"
  /\ Goto(w, "header", Request("head", EmptyKey))
  /\ UNCHANGED <<vars, ptr>>

\* Mutant of PostReset: the reply without the reset.
PostIgnored(w) ==
  /\ Running /\ pc[w] = "idle"
  /\ Goto(w, "header", Request("post", EmptyKey))
  /\ UNCHANGED <<vars, ptr>>

PostReset(w) ==
  /\ pc[w] = "idle"
  /\ ResetBegin
  /\ Goto(w, "reset", Request("post", EmptyKey))
  /\ UNCHANGED ptr

PostFree(w) ==
  /\ pc[w] = "reset"
  /\ \E k \in Keys : ResetFree(k)
  /\ UNCHANGED serverVars

PostFinish(w) ==
  /\ pc[w] = "reset"
  /\ ResetEnd
  /\ Goto(w, "header", req[w])
  /\ UNCHANGED ptr

\* set_header: Space-Used is read under a lock of its own; then the reply.
ReadSpaceUsed(w) ==
  /\ Running /\ pc[w] = "header"
  /\ MutexFree
  /\ Goto(w, "idle", NoRequest)
  /\ UNCHANGED <<vars, ptr>>

\* What a worker does once it has a request.
Continue(w) ==
  CopyValue(w) \/ PutEvict(w) \/ PutFinish(w) \/ PostFree(w) \/ PostFinish(w) \/ ReadSpaceUsed(w)

ServerNext ==
  /\ pool' = pool
  /\ \E w \in pool :
       \/ Continue(w)
       \/ \E k \in Keys : GetStart(w, k) \/ DeleteKey(w, k)
       \/ \E k \in Keys, s \in Sizes : PutRefused(w, k, s) \/ PutStart(w, k, s)
       \/ HeadStart(w) \/ PostReset(w)

ServerSpec == ServerInit /\ [][ServerNext]_allVars

\* A thread of the pool that is serving a request goes on running.
ServerFairSpec == ServerSpec /\ \A w \in Workers : WF_allVars(w \in pool /\ Continue(w) /\ pool' = pool)

----------------------------------------------------------------------------
(* Properties                                                              *)

\* The library's variables and the workers' locals hold values of their types,
\* with any number of workers inside the library's calls.
ServerTypeOK ==
  /\ TypeOK
  /\ pool \subseteq Workers
  /\ pc \in [Workers -> {"idle", "copy", "set", "reset", "header"}]
  /\ \A w \in Workers : req[w].method \in Methods
  /\ ptr \in [Workers -> Buffers \union {NoBuf}]

\* The library is inside a set or a reset precisely while one worker is: no
\* operation of another worker slips in between an eviction and the insertion.
OneHolder ==
  LET holders == {w \in Workers : pc[w] \in {"set", "reset"}}
  IN (IF MutexFree THEN holders = {} ELSE \E w \in Workers : holders = {w})

\* The value a GET replies with is still allocated when it is copied.
ReadsLiveValue == \A w \in Workers : pc[w] = "copy" => ptr[w] \in live

\* The header describes the state the worker's own request has left: the key
\* put is there, the key deleted is not, nothing is after a reset.
HeaderReflectsRequest ==
  \A w \in pool : pc[w] = "header" =>
    /\ req[w].method = "put" => req[w].key \in DOMAIN table
    /\ req[w].method = "delete" => req[w].key \notin DOMAIN table
    /\ req[w].method = "post" => current_mem = 0

\* The default of one thread is safe: no request deletes the value between
\* get() and the copy, or changes the cache before the header is written.
OneThreadIsSafe == Cardinality(pool) = 1 => ReadsLiveValue /\ HeaderReflectsRequest

\* The pool as a whole never gets stuck: when every worker is busy, one of
\* them replies and can take another request.
SomeWorkerReplies ==
  (\A w \in pool : pc[w] # "idle") ~> (\E w \in pool : pc[w] = "idle")
=============================================================================
