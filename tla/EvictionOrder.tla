--------------------------- MODULE EvictionOrder ---------------------------
(***************************************************************************)
(* What an Evictor (evictor.hh) keeps: a sequence of keys, the next victim *)
(* first.  LRU_Evictor keeps each key once (its doubly linked list is      *)
(* module LRUEvictor, which implements the operators below); FIFO_Evictor  *)
(* is a plain queue and keeps one entry per touch.                         *)
(***************************************************************************)
EXTENDS Naturals, SequencesExt

CONSTANT EmptyKey   \* the key "", which evict() also uses for "nothing left"

\* Where k first occurs in the order.
Position(order, k) ==
  CHOOSE i \in DOMAIN order :
    order[i] = k /\ \A j \in DOMAIN order : order[j] = k => i <= j

\* Mutants of LRUTouch: push like a queue; forget to relink the node; leave a
\* known key where it is.
LRUTouchPushes(order, k) == Append(order, k)
LRUTouchUnlinks(order, k) ==
  IF k \in Range(order) THEN RemoveAt(order, Position(order, k)) ELSE Append(order, k)
LRUTouchIgnores(order, k) == IF k \in Range(order) THEN order ELSE Append(order, k)

\* LRU_Evictor::touch_key: unlink the key's node if there is one, link it last.
LRUTouch(order, k) ==
  IF k \in Range(order)
  THEN Append(RemoveAt(order, Position(order, k)), k)
  ELSE Append(order, k)

\* FIFO_Evictor::touch_key: push, whether or not the key is queued already.
FIFOTouch(order, k) == Append(order, k)

\* evict(): the key returned, and the order it leaves.
EvictKey(order) == IF order = <<>> THEN EmptyKey ELSE Head(order)

\* Mutant of EvictRest: read the front without popping it.
EvictRestKeeps(order) == order
EvictRest(order) == IF order = <<>> THEN <<>> ELSE Tail(order)

\* Mutant of Drained: an if in the place of the while.
DrainedOnce(order) == EvictRest(order)

\* What is left after calling evict() until it returns "".  An entry for the
\* key "" ends the loop as an empty order does.
Drained(order) ==
  IF EmptyKey \in Range(order)
  THEN SubSeq(order, Position(order, EmptyKey) + 1, Len(order))
  ELSE <<>>
=============================================================================
