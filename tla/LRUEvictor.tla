----------------------------- MODULE LRUEvictor -----------------------------
(***************************************************************************)
(* LRU_Evictor, lru_evictor.cc, at the level of its pointers: a doubly     *)
(* linked list from the least to the most recently used node and a hash    *)
(* table from keys to nodes.  touch_key and evict hold evictor_mtx from    *)
(* start to end, so each is one step; touch_key has one action per branch. *)
(***************************************************************************)
EXTENDS Naturals, FiniteSets, Functions

CONSTANTS Keys, Nodes, Null, EmptyKey

ASSUME NullAssumption == Null \notin Nodes

VARIABLES
  node,    \* the nodes allocated: Node's key, prev and next
  index,   \* LRU_Evictor::table
  head, tail,
  victim,  \* the key the last evict() returned
  failed   \* an assert() of lru_evictor.cc has failed

vars == <<node, index, head, tail, victim, failed>>

Init ==
  /\ node = <<>> /\ index = <<>>
  /\ head = Null /\ tail = Null
  /\ victim = EmptyKey
  /\ failed = FALSE

\* Mutants: the table misses the new key, or keeps the evicted one.
NewNodeUnindexed(a, k) == a \in Nodes \ DOMAIN node /\ k \notin DOMAIN index /\ UNCHANGED index
ForgetNothing(k) == UNCHANGED index

\* new Node(key) entered in the table, its links then set to p and n.
NewNode(a, k) ==
  /\ a \in Nodes \ DOMAIN node
  /\ k \notin DOMAIN index
  /\ index' = [j \in DOMAIN index \union {k} |-> IF j = k THEN a ELSE index[j]]
Forget(k) == index' = Restrict(index, DOMAIN index \ {k})
WithNode(f, a, k, p, n) ==
  [m \in DOMAIN f \union {a} |->
     IF m = a THEN [key |-> k, prev |-> p, next |-> n] ELSE f[m]]

InsertFirst(a, k) ==
  /\ ~failed /\ NewNode(a, k)
  /\ tail = Null
  /\ failed' = (head # Null)
  /\ node' = WithNode(node, a, k, Null, Null)
  /\ head' = a /\ tail' = a
  /\ UNCHANGED victim

InsertSecond(a, k) ==
  /\ ~failed /\ NewNode(a, k)
  /\ tail # Null /\ tail = head
  /\ node' = WithNode([node EXCEPT ![head].next = a, ![head].prev = Null], a, k, head, Null)
  /\ tail' = a
  /\ UNCHANGED <<head, victim, failed>>

InsertLast(a, k) ==
  /\ ~failed /\ NewNode(a, k)
  /\ tail # Null /\ tail # head
  /\ failed' = ~(head # Null /\ node[tail].next = Null)
  /\ node' = WithNode([node EXCEPT ![tail].next = a], a, k, tail, Null)
  /\ tail' = a
  /\ UNCHANGED <<head, victim>>

\* The first node is unlinked and linked after the tail.
MoveHeadToEnd(a, n) ==
  [node EXCEPT ![n].prev = Null, ![tail].next = a, ![a].prev = tail, ![a].next = Null]

\* The least recently used key is touched: its node moves to the end.
TouchHead(k) ==
  LET a == index[k]
      n == node[a].next
  IN
  /\ ~failed /\ k \in DOMAIN index
  /\ node[a].prev = Null /\ a # tail
  /\ failed' = ~(a = head /\ n # Null /\ node[n].prev = head /\ tail # Null)
  /\ head' = n
  /\ node' = MoveHeadToEnd(a, n)
  /\ tail' = a
  /\ UNCHANGED <<index, victim>>

\* The most recently used key is touched: nothing moves.
TouchTail(k) ==
  LET a == index[k] IN
  /\ ~failed /\ k \in DOMAIN index
  /\ a = tail
  /\ failed' = (node[a].prev = Null /\ a # head)
  /\ UNCHANGED <<node, index, head, tail, victim>>

\* Mutants of MoveToEnd: the successor keeps its back link, the new tail its
\* successor.
MoveKeepsPrev(a, p, n) ==
  [node EXCEPT ![p].next = n, ![tail].next = a, ![a].prev = tail, ![a].next = Null]
MoveKeepsNext(a, p, n) ==
  [node EXCEPT ![p].next = n, ![n].prev = p, ![tail].next = a, ![a].prev = tail]

\* A node between p and n is unlinked and linked after the tail.
MoveToEnd(a, p, n) ==
  [node EXCEPT ![p].next = n, ![n].prev = p, ![tail].next = a,
               ![a].prev = tail, ![a].next = Null]

TouchMiddle(k) ==
  LET a == index[k]
      p == node[a].prev
      n == node[a].next
  IN
  /\ ~failed /\ k \in DOMAIN index
  /\ p # Null /\ a # tail
  /\ failed' = ~(n # Null /\ tail # Null)
  /\ node' = MoveToEnd(a, p, n)
  /\ tail' = a
  /\ UNCHANGED <<index, head, victim>>

EvictNothing ==
  /\ ~failed /\ head = Null
  /\ victim' = EmptyKey
  /\ UNCHANGED <<node, index, head, tail, failed>>

EvictHead ==
  LET old == head
      n == node[old].next
      unlinked == IF n = Null THEN node ELSE [node EXCEPT ![n].prev = Null]
  IN
  /\ ~failed /\ head # Null
  /\ victim' = node[old].key
  /\ head' = IF tail = old THEN Null ELSE n
  /\ tail' = IF tail = old THEN Null ELSE tail
  /\ Forget(node[old].key)
  /\ node' = Restrict(unlinked, DOMAIN node \ {old})
  /\ UNCHANGED failed

Next ==
  \/ \E k \in Keys, a \in Nodes :
       InsertFirst(a, k) \/ InsertSecond(a, k) \/ InsertLast(a, k)
  \/ \E k \in Keys : TouchHead(k) \/ TouchTail(k) \/ TouchMiddle(k)
  \/ EvictNothing \/ EvictHead

Spec == Init /\ [][Next]_vars

----------------------------------------------------------------------------
(* Properties                                                              *)

\* Every pointer is null or points to an allocated node.
TypeOK ==
  /\ DOMAIN node \subseteq Nodes
  /\ node \in [DOMAIN node -> [key : Keys, prev : DOMAIN node \union {Null},
                               next : DOMAIN node \union {Null}]]
  /\ DOMAIN index \subseteq Keys
  /\ index \in [DOMAIN index -> DOMAIN node]
  /\ {head, tail} \subseteq DOMAIN node \union {Null}
  /\ victim \in Keys \union {EmptyKey}
  /\ failed \in BOOLEAN

\* None of the eleven assertions of lru_evictor.cc fails.
AssertionsHold == ~failed

\* The links agree in both directions, and only the ends have a null link: a
\* relinking branch that forgets one of its four assignments breaks this.
DoublyLinked ==
  /\ (head = Null) = (DOMAIN node = {})
  /\ (tail = Null) = (DOMAIN node = {})
  /\ \A a \in DOMAIN node :
       /\ IF a = head THEN node[a].prev = Null
          ELSE node[a].prev \in DOMAIN node /\ node[node[a].prev].next = a
       /\ IF a = tail THEN node[a].next = Null
          ELSE node[a].next \in DOMAIN node /\ node[node[a].next].prev = a

\* The table leads from each key to its own node and misses none, so that
\* ~LRU_Evictor, which deletes through the table, deletes every node once.
IndexExact ==
  /\ \A k \in DOMAIN index : node[index[k]].key = k
  /\ \A a \in DOMAIN node : node[a].key \in DOMAIN index /\ index[node[a].key] = a

\* The keys met following next from head, as many as there are nodes.
ListOrder ==
  LET size == Cardinality(DOMAIN node)
      walk[i \in 1 .. size] ==
        IF i = 1 THEN head
        ELSE IF walk[i - 1] = Null THEN Null ELSE node[walk[i - 1]].next
  IN [i \in 1 .. size |-> IF walk[i] = Null THEN EmptyKey ELSE node[walk[i]].key]

List == INSTANCE EvictorSpec WITH order <- ListOrder

\* The linked list is the recency order evictor.hh promises: each branch of
\* touch_key moves precisely the touched key to the end, and evict removes and
\* returns the least recently touched one.
ImplementsEvictor == List!Spec
=============================================================================
