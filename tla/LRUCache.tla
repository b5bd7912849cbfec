------------------------------ MODULE LRUCache ------------------------------
(***************************************************************************)
(* What cache.hh promises of a Cache with an LRU evictor, every operation  *)
(* one step: a map of at most MaxMem bytes, and the order in which its     *)
(* keys were last used.  An insertion drops the least recently used keys,  *)
(* and no more of them than the new value needs.                           *)
(***************************************************************************)
EXTENDS Naturals, FiniteSets, Functions

CONSTANTS Keys, Sizes, Buffers, MaxMem

VARIABLES
  contents,  \* the map, from keys to buffers and sizes
  older      \* the pairs <<j, k>> of its keys with j last used before k

\* The sizes of the values under the keys ks, counted byte by byte.
Total(c, ks) == Cardinality(UNION {{k} \X (1 .. c[k].size) : k \in ks})

\* j and every key used since, but for k, which is about to be overwritten.
Since(c, r, j, k) == {i \in DOMAIN c \ {k} : i = j \/ <<j, i>> \in r}

\* The keys that survive the insertion of a value of size s under k: those for
\* which there is room together with all that were used since.
Kept(c, r, k, s) == {j \in DOMAIN c \ {k} : Total(c, Since(c, r, j, k)) + s <= MaxMem}

PutContents(c, r, k, s, b) ==
  [j \in Kept(c, r, k, s) \union {k} |-> IF j = k THEN [buf |-> b, size |-> s] ELSE c[j]]

\* The order r on the keys ks, and with k used last.
Among(r, ks) == r \intersect (ks \X ks)
Used(r, ks, k) == Among(r, ks \ {k}) \union ((ks \ {k}) \X {k})

Init == contents = <<>> /\ older = {}

Put(k, s, b) ==
  /\ s <= MaxMem
  /\ b \notin {contents[j].buf : j \in DOMAIN contents}
  /\ contents' = PutContents(contents, older, k, s, b)
  /\ older' = Used(older, Kept(contents, older, k, s), k)

Get(k) ==
  /\ k \in DOMAIN contents
  /\ older' = Used(older, DOMAIN contents, k)
  /\ UNCHANGED contents

Del(k) ==
  /\ k \in DOMAIN contents
  /\ contents' = Restrict(contents, DOMAIN contents \ {k})
  /\ older' = Among(older, DOMAIN contents \ {k})

Reset == contents' = <<>> /\ older' = {}

Next ==
  \/ \E k \in Keys, s \in Sizes, b \in Buffers : Put(k, s, b)
  \/ \E k \in Keys : Get(k) \/ Del(k)
  \/ Reset

Spec == Init /\ [][Next]_<<contents, older>>
=============================================================================
