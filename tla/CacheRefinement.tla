-------------------------- MODULE CacheRefinement --------------------------
(***************************************************************************)
(* CacheLib with the LRU policy implements LRUCache.  A set takes effect   *)
(* when it passes its early returns (SetBegin): while its loop runs, the   *)
(* abstract state is what the finished insertion will have made of the     *)
(* intermediate one, so every iteration must leave that result unchanged.  *)
(* A reset takes effect when it starts.                                    *)
(***************************************************************************)
EXTENDS CacheLib

\* j stands before k in an evictor's order.
Precedes(o, j, k) == \E a, b \in DOMAIN o : a < b /\ o[a] = j /\ o[b] = k

\* The evictor's order without the deleted keys it has not been told about.
Recency == {p \in (DOMAIN table) \X (DOMAIN table) : Precedes(order, p[1], p[2])}

Pure == INSTANCE LRUCache WITH contents <- table, older <- Recency

AbstractContents ==
  IF resetting THEN <<>>
  ELSE IF setting = NoSet THEN table
  ELSE Pure!PutContents(table, Recency, setting.key, setting.size, setting.buf)

AbstractRecency ==
  IF resetting THEN {}
  ELSE IF setting = NoSet THEN Recency
  ELSE Pure!Used(Recency, Pure!Kept(table, Recency, setting.key, setting.size), setting.key)

Abstract == INSTANCE LRUCache WITH contents <- AbstractContents, older <- AbstractRecency

\* The library with an LRU evictor does what cache.hh and the name of the
\* policy say: each set evicts precisely the least recently used keys it
\* needs, and a get, del or reset only what it is asked to.
ImplementsLRUCache == Abstract!Spec
=============================================================================
