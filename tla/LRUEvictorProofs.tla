-------------------------- MODULE LRUEvictorProofs --------------------------
(***************************************************************************)
(* The linked list of LRU_Evictor for any number of keys and nodes: its    *)
(* links agree, its table is exact, no assertion of lru_evictor.cc fails,  *)
(* and it implements the recency order of EvictorSpec.                     *)
(***************************************************************************)
EXTENDS LRUEvictor, Integers, SequenceTheorems, FiniteSetTheorems, TLAPS

Order == INSTANCE EvictionOrderProofs

Links == [key : Keys, prev : DOMAIN node \union {Null}, next : DOMAIN node \union {Null}]

\* The nodes can be numbered so that the numbers rise along next from head to
\* tail without passing over any: the links form one line and no cycle or other
\* line beside it.
Rises(rank) ==
  /\ rank \in [DOMAIN node -> Int]
  /\ \A a, b \in DOMAIN node : rank[a] = rank[b] => a = b
  /\ \A a \in DOMAIN node : rank[head] <= rank[a] /\ rank[a] <= rank[tail]
  /\ \A a \in DOMAIN node \ {tail} :
       /\ rank[a] < rank[node[a].next]
       /\ \A b \in DOMAIN node : rank[b] <= rank[a] \/ rank[node[a].next] <= rank[b]
OneLine == \E rank : Rises(rank)

\* The inductive invariant: an assertion about a node's neighbours needs the
\* links of all nodes and the table that led to the node.
ListInv == TypeOK /\ DoublyLinked /\ OneLine /\ IndexExact /\ AssertionsHold

\* What the invariant says of one node.
LEMMA NodeFacts ==
  ASSUME ListInv
  PROVE  /\ \A a \in DOMAIN node :
              /\ a # Null /\ node[a].key \in Keys
              /\ node[a] = [key |-> node[a].key, prev |-> node[a].prev, next |-> node[a].next]
              /\ node[a].prev \in DOMAIN node \union {Null}
              /\ node[a].next \in DOMAIN node \union {Null}
              /\ a = head <=> node[a].prev = Null
              /\ a = tail <=> node[a].next = Null
              /\ a # head => node[node[a].prev].next = a
              /\ a # tail => node[node[a].next].prev = a
              /\ node[a].key \in DOMAIN index /\ index[node[a].key] = a
         /\ \A k \in DOMAIN index : index[k] \in DOMAIN node /\ node[index[k]].key = k
         /\ head = Null \/ head \in DOMAIN node
         /\ tail = Null \/ tail \in DOMAIN node
         /\ (head = Null) <=> (DOMAIN node = {})
         /\ (tail = Null) <=> (DOMAIN node = {})
<1>1. Null \notin DOMAIN node
  BY NullAssumption DEF ListInv, TypeOK
<1>2. /\ node \in [DOMAIN node -> Links]
      /\ index \in [DOMAIN index -> DOMAIN node]
  BY DEF ListInv, TypeOK, Links
<1>3. \A a \in DOMAIN node : node[a] \in Links
  BY <1>2
<1>4. \A a \in DOMAIN node :
        /\ node[a].key \in Keys
        /\ node[a] = [key |-> node[a].key, prev |-> node[a].prev, next |-> node[a].next]
        /\ node[a].prev \in DOMAIN node \union {Null}
        /\ node[a].next \in DOMAIN node \union {Null}
  BY <1>3 DEF Links
<1>5. /\ head = Null \/ head \in DOMAIN node
      /\ tail = Null \/ tail \in DOMAIN node
  BY DEF ListInv, TypeOK
<1> QED BY <1>1, <1>2, <1>4, <1>5 DEF ListInv, DoublyLinked, IndexExact

LEMMA InitListInv == Init => ListInv
<1> SUFFICES ASSUME Init PROVE ListInv
  OBVIOUS
<1>1. DOMAIN node = {} /\ DOMAIN index = {}
  BY DEF Init
<1>2. node \in [DOMAIN node -> Links] /\ index \in [DOMAIN index -> DOMAIN node]
  BY DEF Init
<1>3. OneLine
  <2>1. Rises([a \in DOMAIN node |-> 0])
    BY <1>1 DEF Rises
  <2> QED BY <2>1 DEF OneLine
<1> QED BY <1>1, <1>2, <1>3
        DEF Init, ListInv, TypeOK, Links, DoublyLinked, IndexExact, AssertionsHold

----------------------------------------------------------------------------
(* What a step leaves of each node, one field at a time.                   *)

\* A node with its place in the list and in the table.
InPlace(a) ==
  /\ node[a].key \in DOMAIN index /\ index[node[a].key] = a
  /\ a = head => node[a].prev = Null
  /\ a # head => node[a].prev \in DOMAIN node /\ node[node[a].prev].next = a
  /\ a = tail => node[a].next = Null
  /\ a # tail => node[a].next \in DOMAIN node /\ node[node[a].next].prev = a

\* A list whose nodes are all in their places satisfies the invariant.
LEMMA Restored ==
  ASSUME TypeOK', OneLine', failed' = FALSE,
         (head' = Null) <=> (DOMAIN node' = {}),
         (tail' = Null) <=> (DOMAIN node' = {}),
         \A a \in DOMAIN node' : InPlace(a)',
         \A k \in DOMAIN index' : node'[index'[k]].key = k
  PROVE  ListInv'
<1>1. DoublyLinked'
  BY DEF DoublyLinked, InPlace
<1>2. IndexExact' /\ AssertionsHold'
  BY DEF IndexExact, AssertionsHold, InPlace
<1> QED BY <1>1, <1>2 DEF ListInv

\* Linking a node last, wherever it was, leaves one line.
LEMMA LinkedLast ==
  ASSUME ListInv, tail \in DOMAIN node, NEW a, a # tail, tail' = a,
         DOMAIN node' = DOMAIN node \union {a},
         head' = IF a = head THEN node[a].next ELSE head,
         \A m \in DOMAIN node \ {a} :
           node'[m].next = IF m = tail THEN a
                           ELSE IF node[m].next = a THEN node[a].next ELSE node[m].next
  PROVE  OneLine'
<1>1. PICK rank : Rises(rank)
  BY DEF ListInv, OneLine
<1> DEFINE new == [m \in DOMAIN node' |-> IF m = a THEN rank[tail] + 1 ELSE rank[m]]
<1>2. /\ \A m \in DOMAIN node : rank[m] \in Int
      /\ \A m, b \in DOMAIN node : rank[m] = rank[b] => m = b
      /\ \A m \in DOMAIN node : rank[head] <= rank[m] /\ rank[m] <= rank[tail]
      /\ \A m \in DOMAIN node \ {tail} :
           /\ rank[m] < rank[node[m].next]
           /\ \A b \in DOMAIN node : rank[b] <= rank[m] \/ rank[node[m].next] <= rank[b]
  BY <1>1 DEF Rises
<1>3. /\ head \in DOMAIN node
      /\ \A m \in DOMAIN node \ {tail} : node[m].next \in DOMAIN node
  BY NodeFacts
<1>4. /\ new \in [DOMAIN node' -> Int]
      /\ new[a] = rank[tail] + 1
      /\ \A m \in DOMAIN node \ {a} : new[m] = rank[m]
  BY <1>2
<1> HIDE DEF new
<1>5. \A m, b \in DOMAIN node' : new[m] = new[b] => m = b
  <2>1. \A m \in DOMAIN node \ {a} : new[m] < new[a]
    BY <1>2, <1>4
  <2> QED BY <1>2, <1>4, <2>1
<1>6. ASSUME NEW m \in DOMAIN node' PROVE new[head'] <= new[m] /\ new[m] <= new[tail']
  <2>1. head' \in DOMAIN node \ {a}
    BY <1>2, <1>3
  <2>2. \A b \in DOMAIN node \ {a} : rank[head'] <= rank[b]
    BY <1>2, <1>3
  <2>3. rank[head'] <= rank[tail] /\ rank[head'] \in Int /\ rank[tail] \in Int
    BY <1>2, <2>1
  <2>4. CASE m = a
    BY <1>4, <2>1, <2>3, <2>4
  <2>5. CASE m \in DOMAIN node \ {a}
    <3>1. rank[m] <= rank[tail] /\ rank[m] \in Int
      BY <1>2, <2>5
    <3> QED BY <1>4, <2>1, <2>2, <2>3, <2>5, <3>1
  <2> QED BY <2>4, <2>5
<1>7. ASSUME NEW m \in DOMAIN node' \ {tail'}
      PROVE  /\ new[m] < new[node'[m].next]
             /\ \A b \in DOMAIN node' : new[b] <= new[m] \/ new[node'[m].next] <= new[b]
  <2>1. m \in DOMAIN node \ {a} /\ new[m] = rank[m] /\ rank[m] \in Int
    BY <1>2, <1>4
  <2>2. CASE m = tail
    <3>1. node'[m].next = a
      BY <2>1, <2>2
    <3>2. \A b \in DOMAIN node \ {a} : new[b] <= new[m]
      BY <1>2, <1>4, <2>1, <2>2
    <3> QED BY <1>4, <2>1, <2>2, <3>1, <3>2
  <2>3. CASE m # tail
    <3> DEFINE n == node'[m].next
    <3>1. n \in DOMAIN node \ {a}
      BY <1>2, <1>3, <2>1, <2>3
    <3>2. rank[m] < rank[n] /\ rank[n] \in Int
      BY <1>2, <1>3, <2>1, <2>3
    <3>3. \A b \in DOMAIN node \ {a} : rank[b] <= rank[m] \/ rank[n] <= rank[b]
      <4>1. CASE node[m].next = a
        <5>1. n = node[a].next /\ a \in DOMAIN node
          BY <1>3, <2>1, <2>3, <4>1
        <5>2. ASSUME NEW b \in DOMAIN node \ {a}
              PROVE  rank[b] <= rank[m] \/ rank[n] <= rank[b]
          <6>1. rank[b] <= rank[m] \/ rank[a] <= rank[b]
            BY <1>2, <2>1, <2>3, <4>1
          <6>2. rank[b] <= rank[a] \/ rank[n] <= rank[b]
            BY <1>2, <5>1
          <6>3. rank[a] # rank[b] /\ rank[a] \in Int /\ rank[b] \in Int
            BY <1>2, <5>1
          <6> QED BY <6>1, <6>2, <6>3
        <5> QED BY <5>2
      <4>2. CASE node[m].next # a
        BY <1>2, <2>1, <2>3, <4>2
      <4> QED BY <4>1, <4>2
    <3>4. rank[n] <= rank[tail] /\ rank[tail] \in Int
      BY <1>2, <3>1
    <3> HIDE DEF n
    <3>5. new[n] = rank[n] /\ rank[n] <= new[a]
      BY <1>4, <3>1, <3>2, <3>4
    <3>6. \A b \in DOMAIN node' : new[b] <= new[m] \/ new[n] <= new[b]
      BY <1>4, <2>1, <3>3, <3>5
    <3> QED BY <2>1, <3>2, <3>5, <3>6 DEF n
  <2> QED BY <2>2, <2>3
<1>8. ASSUME NEW r, r = new PROVE Rises(r)'
  BY <1>4, <1>5, <1>6, <1>7, <1>8 DEF Rises
<1> QED BY <1>8 DEF OneLine

\* What entering a new node in the table leaves of it.
LEMMA NewNodeEffect ==
  ASSUME ListInv, NEW k \in Keys, NEW a \in Nodes, NewNode(a, k)
  PROVE  /\ a \notin DOMAIN node /\ a # Null /\ k \notin DOMAIN index
         /\ DOMAIN index' = DOMAIN index \union {k} /\ DOMAIN index' \subseteq Keys
         /\ index'[k] = a /\ \A j \in DOMAIN index : index'[j] = index[j]
         /\ index' \in [DOMAIN index' -> DOMAIN node \union {a}]
<1>1. index' = [j \in DOMAIN index \union {k} |-> IF j = k THEN a ELSE index[j]]
  BY DEF NewNode
<1>2. DOMAIN index \subseteq Keys /\ \A j \in DOMAIN index : index[j] \in DOMAIN node
  BY NodeFacts DEF ListInv, TypeOK
<1> QED BY <1>1, <1>2, NullAssumption DEF NewNode, ListInv, TypeOK

LEMMA InsertLastKeepsInv ==
  ASSUME ListInv, NEW k \in Keys, NEW a \in Nodes, InsertLast(a, k)
  PROVE  ListInv'
<1>1. tail \in DOMAIN node /\ head \in DOMAIN node /\ head # tail /\ node[tail].next = Null
  BY NodeFacts DEF InsertLast
<1>2. NewNode(a, k)
  BY DEF InsertLast
<1>3. a \notin DOMAIN node /\ a # tail /\ a # head
  BY <1>1, <1>2, NewNodeEffect
<1>4. head' = head /\ tail' = a /\ failed' = FALSE /\ victim' = victim
  BY <1>1, NodeFacts DEF InsertLast
<1>5. /\ DOMAIN node' = DOMAIN node \union {a}
      /\ node'[a] = [key |-> k, prev |-> tail, next |-> Null]
      /\ node'[tail] = [key |-> node[tail].key, prev |-> node[tail].prev, next |-> a]
      /\ \A m \in DOMAIN node \ {tail} : node'[m] = node[m]
      /\ node' = [m \in DOMAIN node' |-> node'[m]]
  BY <1>1, <1>3, NodeFacts DEF InsertLast, WithNode
<1>6. /\ node'[a].key = k /\ node'[a].prev = tail /\ node'[a].next = Null
      /\ node'[tail].key = node[tail].key /\ node'[tail].prev = node[tail].prev
      /\ node'[tail].next = a
  BY <1>5
<1>7. TypeOK'
  <2>1. ASSUME NEW m \in DOMAIN node' PROVE node'[m] \in Links'
    <3>1. CASE m = a
      BY <1>1, <1>5, <3>1 DEF Links
    <3>2. CASE m = tail
      BY <1>1, <1>5, <3>2, NodeFacts DEF Links
    <3>3. CASE m \in DOMAIN node \ {tail}
      BY <1>5, <3>3, NodeFacts DEF Links
    <3> QED BY <1>5, <3>1, <3>2, <3>3
  <2>2. node' \in [DOMAIN node' -> Links']
    BY <1>5, <2>1
  <2> QED BY <1>1, <1>2, <1>4, <1>5, <2>2, NewNodeEffect DEF Links, ListInv, TypeOK
<1>8. ASSUME NEW m \in DOMAIN node' PROVE InPlace(m)'
  <2>0. /\ DOMAIN index' = DOMAIN index \union {k}
        /\ index'[k] = a /\ \A j \in DOMAIN index : index'[j] = index[j]
    BY <1>2, NewNodeEffect
  <2>1. CASE m = a
    BY <1>1, <1>3, <1>4, <1>5, <1>6, <2>0, <2>1 DEF InPlace
  <2>2. CASE m = tail
    BY <1>1, <1>3, <1>4, <1>5, <1>6, <2>0, <2>2, NodeFacts DEF InPlace
  <2>3. CASE m \in DOMAIN node \ {tail}
    BY <1>1, <1>3, <1>4, <1>5, <1>6, <2>0, <2>3, NodeFacts DEF InPlace
  <2> QED BY <1>5, <2>1, <2>2, <2>3
<1>9. \A j \in DOMAIN index' : node'[index'[j]].key = j
  <2>0. /\ DOMAIN index' = DOMAIN index \union {k}
        /\ index'[k] = a /\ \A j \in DOMAIN index : index'[j] = index[j]
    BY <1>2, NewNodeEffect
  <2> QED BY <1>1, <1>3, <1>5, <1>6, <2>0, NodeFacts
<1>10. OneLine'
  <2>1. ASSUME NEW m \in DOMAIN node \ {a}
        PROVE  node'[m].next = IF m = tail THEN a
                               ELSE IF node[m].next = a THEN node[a].next
                               ELSE node[m].next
    BY <1>1, <1>3, <1>5, <1>6, <2>1, NodeFacts
  <2> QED BY <1>1, <1>3, <1>4, <1>5, <2>1, LinkedLast
<1>11. head' # Null /\ tail' # Null /\ DOMAIN node' # {}
  BY <1>1, <1>2, <1>4, <1>5, NodeFacts, NewNodeEffect
<1> QED BY <1>4, <1>7, <1>8, <1>9, <1>10, <1>11, Restored

LEMMA InsertFirstKeepsInv ==
  ASSUME ListInv, NEW k \in Keys, NEW a \in Nodes, InsertFirst(a, k)
  PROVE  ListInv'
<1>1. DOMAIN node = {} /\ head = Null /\ DOMAIN index = {}
  BY NodeFacts DEF InsertFirst
<1>2. NewNode(a, k)
  BY DEF InsertFirst
<1>3. head' = a /\ tail' = a /\ failed' = FALSE /\ victim' = victim
  BY <1>1 DEF InsertFirst
<1>4. DOMAIN node' = {a} /\ node'[a] = [key |-> k, prev |-> Null, next |-> Null]
      /\ node' = [m \in DOMAIN node' |-> node'[m]]
  BY <1>1 DEF InsertFirst, WithNode
<1>5. /\ DOMAIN index' = {k} /\ index'[k] = a /\ a # Null
      /\ index' \in [DOMAIN index' -> DOMAIN node']
  <2>1. /\ DOMAIN index' = DOMAIN index \union {k} /\ index'[k] = a /\ a # Null
        /\ index' \in [DOMAIN index' -> DOMAIN node \union {a}]
    BY <1>2, NewNodeEffect
  <2> QED BY <1>1, <1>4, <2>1
<1>6. node'[a].key = k /\ node'[a].prev = Null /\ node'[a].next = Null
  BY <1>4
<1>7. TypeOK'
  <2>1. node'[a] \in Links'
    BY <1>4 DEF Links
  <2>2. node' \in [DOMAIN node' -> Links']
    BY <1>4, <2>1
  <2> QED BY <1>2, <1>3, <1>4, <1>5, <2>2, NewNodeEffect DEF Links, ListInv, TypeOK
<1>8. InPlace(a)'
  BY <1>3, <1>4, <1>5, <1>6 DEF InPlace
<1>9. OneLine'
  <2>1. Rises([m \in DOMAIN node |-> 0])'
    BY <1>3, <1>4 DEF Rises
  <2> QED BY <2>1 DEF OneLine
<1> QED BY <1>3, <1>4, <1>5, <1>6, <1>7, <1>8, <1>9, Restored

LEMMA InsertSecondKeepsInv ==
  ASSUME ListInv, NEW k \in Keys, NEW a \in Nodes, InsertSecond(a, k)
  PROVE  ListInv'
<1>1. /\ head \in DOMAIN node /\ head = tail
      /\ node[head].prev = Null /\ node[head].next = Null
  BY NodeFacts DEF InsertSecond
<1>2. NewNode(a, k)
  BY DEF InsertSecond
<1>3. a \notin DOMAIN node /\ a # head
  BY <1>1, <1>2, NewNodeEffect
<1>4. head' = head /\ tail' = a /\ failed' = FALSE /\ victim' = victim
  BY DEF InsertSecond, ListInv, TypeOK
<1>5. /\ DOMAIN node' = DOMAIN node \union {a}
      /\ node'[a] = [key |-> k, prev |-> head, next |-> Null]
      /\ node'[head] = [key |-> node[head].key, prev |-> Null, next |-> a]
      /\ \A m \in DOMAIN node \ {head} : node'[m] = node[m]
      /\ node' = [m \in DOMAIN node' |-> node'[m]]
  <2> DEFINE f == [node EXCEPT ![head].next = a, ![head].prev = Null]
  <2>1. DOMAIN f = DOMAIN node /\ \A m \in DOMAIN node \ {head} : f[m] = node[m]
    OBVIOUS
  <2>2. f[head] = [key |-> node[head].key, prev |-> Null, next |-> a]
    <3>1. node[head] = [key |-> node[head].key, prev |-> node[head].prev,
                        next |-> node[head].next]
      BY <1>1, NodeFacts
    <3>2. f[head] = [[node[head] EXCEPT !.next = a] EXCEPT !.prev = Null]
      BY <1>1
    <3> HIDE DEF f
    <3> QED BY <3>1, <3>2
  <2> HIDE DEF f
  <2>3. node' = [m \in DOMAIN f \union {a} |->
                   IF m = a THEN [key |-> k, prev |-> head, next |-> Null] ELSE f[m]]
    BY DEF InsertSecond, WithNode, f
  <2> QED BY <1>1, <1>3, <2>1, <2>2, <2>3
<1>6. /\ node'[a].key = k /\ node'[a].prev = head /\ node'[a].next = Null
      /\ node'[head].key = node[head].key /\ node'[head].prev = Null /\ node'[head].next = a
  BY <1>5
<1>7. TypeOK'
  <2>1. ASSUME NEW m \in DOMAIN node' PROVE node'[m] \in Links'
    <3>1. CASE m = a
      BY <1>1, <1>5, <3>1 DEF Links
    <3>2. CASE m = head
      BY <1>1, <1>5, <3>2, NodeFacts DEF Links
    <3>3. CASE m \in DOMAIN node \ {head}
      BY <1>5, <3>3, NodeFacts DEF Links
    <3> QED BY <1>5, <3>1, <3>2, <3>3
  <2>2. node' \in [DOMAIN node' -> Links']
    BY <1>5, <2>1
  <2> QED BY <1>1, <1>2, <1>4, <1>5, <2>2, NewNodeEffect DEF Links, ListInv, TypeOK
<1>8. /\ DOMAIN index' = DOMAIN index \union {k}
      /\ index'[k] = a /\ \A j \in DOMAIN index : index'[j] = index[j]
  BY <1>2, NewNodeEffect
<1>9. ASSUME NEW m \in DOMAIN node' PROVE InPlace(m)'
  <2>1. CASE m = a
    BY <1>1, <1>3, <1>4, <1>5, <1>6, <1>8, <2>1 DEF InPlace
  <2>2. CASE m = head
    BY <1>1, <1>3, <1>4, <1>5, <1>6, <1>8, <2>2, NodeFacts DEF InPlace
  <2>3. CASE m \in DOMAIN node \ {head}
    BY <1>1, <1>3, <1>4, <1>5, <1>6, <1>8, <2>3, NodeFacts DEF InPlace
  <2> QED BY <1>5, <2>1, <2>2, <2>3
<1>10. \A j \in DOMAIN index' : node'[index'[j]].key = j
  BY <1>1, <1>3, <1>5, <1>6, <1>8, NodeFacts
<1>11. OneLine'
  <2>1. ASSUME NEW m \in DOMAIN node \ {a}
        PROVE  node'[m].next = IF m = tail THEN a
                               ELSE IF node[m].next = a THEN node[a].next
                               ELSE node[m].next
    BY <1>1, <1>3, <1>5, <1>6, <2>1, NodeFacts
  <2> QED BY <1>1, <1>3, <1>4, <1>5, <2>1, LinkedLast
<1> QED BY <1>1, <1>2, <1>3, <1>4, <1>5, <1>7, <1>9, <1>10, <1>11, NodeFacts, NewNodeEffect,
           Restored

----------------------------------------------------------------------------
(* Touching a key that is in the list                                      *)

\* The links after a node a that is not the tail is moved to the end, its
\* neighbours p (null when a was the head) and n now linked to each other.
Moved(a, p, n) ==
  /\ DOMAIN node' = DOMAIN node /\ node' = [m \in DOMAIN node |-> node'[m]]
  /\ node'[a] = [key |-> node[a].key, prev |-> tail, next |-> Null]
  /\ p # Null => node'[p].next = n
  /\ node'[n].prev = p
  /\ node'[tail].next = a
  /\ \A m \in DOMAIN node \ {a} :
       /\ node'[m] = [key |-> node'[m].key, prev |-> node'[m].prev, next |-> node'[m].next]
       /\ node'[m].key = node[m].key
       /\ m # n => node'[m].prev = node[m].prev
       /\ m # p /\ m # tail => node'[m].next = node[m].next

\* Where the nodes of a list lie around one that is not its tail.
LEMMA Neighbours ==
  ASSUME ListInv, NEW a \in DOMAIN node, a # tail,
         NEW p, p = node[a].prev, NEW n, n = node[a].next
  PROVE  /\ tail \in DOMAIN node /\ head \in DOMAIN node /\ a # Null
         /\ n \in DOMAIN node /\ n # a /\ n # p /\ node[n].prev = a
         /\ p = Null <=> a = head
         /\ p # Null => p \in DOMAIN node /\ p # a /\ p # tail /\ node[p].next = a
         /\ node[tail].next = Null
         /\ \A m \in DOMAIN node : node[m].next = a => m = p
         /\ \A m \in DOMAIN node : node[m].prev = a => m = n
<1>1. /\ tail \in DOMAIN node /\ head \in DOMAIN node /\ a # Null
      /\ n \in DOMAIN node /\ node[n].prev = a
      /\ p = Null <=> a = head
      /\ p # Null => p \in DOMAIN node /\ node[p].next = a
      /\ node[tail].next = Null
  BY NodeFacts
<1>2. \A m \in DOMAIN node : node[m].next = a => m = p
  BY <1>1, NodeFacts
<1>3. \A m \in DOMAIN node : node[m].prev = a => m = n
  BY <1>1, NodeFacts
<1>4. /\ n # a /\ n # p
      /\ p # Null => p # a
  <2>1. PICK rank : Rises(rank)
    BY DEF ListInv, OneLine
  <2>2. rank[a] < rank[n] /\ rank[a] \in Int /\ rank[n] \in Int
    BY <1>1, <2>1 DEF Rises
  <2>3. p # Null =>
          /\ p # tail
          /\ rank[p] < rank[a] /\ rank[p] \in Int
    BY <1>1, <2>1, NodeFacts DEF Rises
  <2>4. n # Null
    BY <1>1, NodeFacts
  <2> QED BY <1>1, <2>2, <2>3, <2>4
<1>5. p # Null => p # tail
  BY <1>1, NodeFacts
<1> QED BY <1>1, <1>2, <1>3, <1>4, <1>5

\* The four assignments of touch_key do just that.
LEMMA MoveToEndMoves ==
  ASSUME ListInv, NEW a \in DOMAIN node, a # tail,
         NEW p, p = node[a].prev, NEW n, n = node[a].next, p # Null,
         node' = MoveToEnd(a, p, n)
  PROVE  Moved(a, p, n)
<1>1. /\ tail \in DOMAIN node /\ n \in DOMAIN node /\ p \in DOMAIN node
      /\ n # a /\ n # p /\ p # a /\ p # tail /\ a # tail
  BY Neighbours
<1>2. \A m \in DOMAIN node :
        node[m] = [key |-> node[m].key, prev |-> node[m].prev, next |-> node[m].next]
  BY NodeFacts
<1> DEFINE f1 == [node EXCEPT ![p].next = n]
           f2 == [f1 EXCEPT ![n].prev = p]
           f3 == [f2 EXCEPT ![tail].next = a]
           f4 == [f3 EXCEPT ![a].prev = tail]
           f5 == [f4 EXCEPT ![a].next = Null]
<1>3. node' = f5
  BY DEF MoveToEnd
<1>4. /\ DOMAIN f1 = DOMAIN node
      /\ \A m \in DOMAIN node : f1[m] =
           [key |-> node[m].key, prev |-> node[m].prev,
            next |-> IF m = p THEN n ELSE node[m].next]
  BY <1>2
<1> HIDE DEF f1
<1>5. /\ DOMAIN f2 = DOMAIN node
      /\ \A m \in DOMAIN node : f2[m] =
           [key |-> node[m].key, prev |-> IF m = n THEN p ELSE node[m].prev,
            next |-> IF m = p THEN n ELSE node[m].next]
  BY <1>4
<1> HIDE DEF f2
<1>6. /\ DOMAIN f3 = DOMAIN node
      /\ \A m \in DOMAIN node : f3[m] =
           [key |-> node[m].key, prev |-> IF m = n THEN p ELSE node[m].prev,
            next |-> IF m = tail THEN a ELSE IF m = p THEN n ELSE node[m].next]
  BY <1>5
<1> HIDE DEF f3
<1>7. /\ DOMAIN f4 = DOMAIN node
      /\ \A m \in DOMAIN node : f4[m] =
           [key |-> node[m].key,
            prev |-> IF m = a THEN tail ELSE IF m = n THEN p ELSE node[m].prev,
            next |-> IF m = tail THEN a ELSE IF m = p THEN n ELSE node[m].next]
  BY <1>6
<1> HIDE DEF f4
<1>8. /\ DOMAIN f5 = DOMAIN node /\ f5 = [m \in DOMAIN node |-> f5[m]]
      /\ \A m \in DOMAIN node : f5[m] =
           [key |-> node[m].key,
            prev |-> IF m = a THEN tail ELSE IF m = n THEN p ELSE node[m].prev,
            next |-> IF m = a THEN Null ELSE IF m = tail THEN a
                     ELSE IF m = p THEN n ELSE node[m].next]
  <2>1. DOMAIN f5 = DOMAIN node /\ f5 = [m \in DOMAIN node |-> f5[m]]
    BY <1>7
  <2>2. f5[a] = [f4[a] EXCEPT !.next = Null] /\ \A m \in DOMAIN node \ {a} : f5[m] = f4[m]
    BY <1>7
  <2>3. f5[a] = [key |-> node[a].key, prev |-> tail, next |-> Null]
    <3>1. f4[a] = [key |-> node[a].key, prev |-> tail, next |-> f4[a].next]
      BY <1>7
    <3> HIDE DEF f5
    <3> QED BY <2>2, <3>1
  <2> HIDE DEF f5
  <2> QED BY <1>1, <1>7, <2>1, <2>2, <2>3
<1> HIDE DEF f5
<1> QED BY <1>1, <1>3, <1>8 DEF Moved

\* So does the branch for the head, which has no predecessor to relink.
LEMMA MoveHeadMoves ==
  ASSUME ListInv, NEW a \in DOMAIN node, a # tail, node[a].prev = Null,
         NEW n, n = node[a].next,
         node' = MoveHeadToEnd(a, n)
  PROVE  Moved(a, Null, n)
<1>1. /\ tail \in DOMAIN node /\ n \in DOMAIN node /\ n # a /\ a # tail
      /\ Null \notin DOMAIN node
  BY Neighbours, NodeFacts
<1>2. \A m \in DOMAIN node :
        node[m] = [key |-> node[m].key, prev |-> node[m].prev, next |-> node[m].next]
  BY NodeFacts
<1> DEFINE f2 == [node EXCEPT ![n].prev = Null]
           f3 == [f2 EXCEPT ![tail].next = a]
           f4 == [f3 EXCEPT ![a].prev = tail]
           f5 == [f4 EXCEPT ![a].next = Null]
<1>3. node' = f5
  BY DEF MoveHeadToEnd
<1>4. /\ DOMAIN f2 = DOMAIN node
      /\ \A m \in DOMAIN node : f2[m] =
           [key |-> node[m].key, prev |-> IF m = n THEN Null ELSE node[m].prev,
            next |-> node[m].next]
  BY <1>2
<1> HIDE DEF f2
<1>5. /\ DOMAIN f3 = DOMAIN node
      /\ \A m \in DOMAIN node : f3[m] =
           [key |-> node[m].key, prev |-> IF m = n THEN Null ELSE node[m].prev,
            next |-> IF m = tail THEN a ELSE node[m].next]
  BY <1>4
<1> HIDE DEF f3
<1>6. /\ DOMAIN f4 = DOMAIN node
      /\ \A m \in DOMAIN node : f4[m] =
           [key |-> node[m].key,
            prev |-> IF m = a THEN tail ELSE IF m = n THEN Null ELSE node[m].prev,
            next |-> IF m = tail THEN a ELSE node[m].next]
  BY <1>5
<1> HIDE DEF f4
<1>7. /\ DOMAIN f5 = DOMAIN node /\ f5 = [m \in DOMAIN node |-> f5[m]]
      /\ \A m \in DOMAIN node : f5[m] =
           [key |-> node[m].key,
            prev |-> IF m = a THEN tail ELSE IF m = n THEN Null ELSE node[m].prev,
            next |-> IF m = a THEN Null ELSE IF m = tail THEN a ELSE node[m].next]
  <2>1. DOMAIN f5 = DOMAIN node /\ f5 = [m \in DOMAIN node |-> f5[m]]
    BY <1>6
  <2>2. f5[a] = [f4[a] EXCEPT !.next = Null] /\ \A m \in DOMAIN node \ {a} : f5[m] = f4[m]
    BY <1>6
  <2>3. f5[a] = [key |-> node[a].key, prev |-> tail, next |-> Null]
    <3>1. f4[a] = [key |-> node[a].key, prev |-> tail, next |-> f4[a].next]
      BY <1>6
    <3> HIDE DEF f5
    <3> QED BY <2>2, <3>1
  <2> HIDE DEF f5
  <2> QED BY <1>1, <1>6, <2>1, <2>2, <2>3
<1> HIDE DEF f5
<1> QED BY <1>1, <1>3, <1>7 DEF Moved

\* Moving a node to the end keeps the invariant.
LEMMA MovedKeepsInv ==
  ASSUME ListInv, NEW a \in DOMAIN node, a # tail,
         NEW p, p = node[a].prev, NEW n, n = node[a].next, Moved(a, p, n),
         head' = IF a = head THEN n ELSE head, tail' = a,
         index' = index, victim' = victim, failed' = FALSE
  PROVE  ListInv'
<1>1. /\ tail \in DOMAIN node /\ head \in DOMAIN node /\ a # Null
      /\ n \in DOMAIN node /\ n # a /\ n # p /\ node[n].prev = a
      /\ p = Null <=> a = head
      /\ p # Null => p \in DOMAIN node /\ p # a /\ p # tail /\ node[p].next = a
      /\ node[tail].next = Null
      /\ \A m \in DOMAIN node : node[m].next = a => m = p
      /\ \A m \in DOMAIN node : node[m].prev = a => m = n
  BY Neighbours
<1>2. /\ DOMAIN node' = DOMAIN node
      /\ node'[a].key = node[a].key /\ node'[a].prev = tail /\ node'[a].next = Null
      /\ p # Null => node'[p].next = n
      /\ node'[n].prev = p /\ node'[tail].next = a
      /\ \A m \in DOMAIN node \ {a} :
           /\ node'[m].key = node[m].key
           /\ m # n => node'[m].prev = node[m].prev
           /\ m # p /\ m # tail => node'[m].next = node[m].next
  BY DEF Moved
<1>3. ASSUME NEW m \in DOMAIN node
      PROVE  /\ node'[m].key \in Keys
             /\ node'[m].prev \in DOMAIN node \union {Null}
             /\ node'[m].next \in DOMAIN node \union {Null}
  BY <1>1, <1>2, NodeFacts
<1>4. TypeOK'
  <2>1. ASSUME NEW m \in DOMAIN node PROVE node'[m] \in Links
    <3>1. node'[m] = [key |-> node'[m].key, prev |-> node'[m].prev, next |-> node'[m].next]
      BY <1>2 DEF Moved
    <3> QED BY <1>3, <3>1 DEF Links
  <2>2. node' \in [DOMAIN node' -> Links] /\ Links' = Links
    <3>1. node' = [m \in DOMAIN node |-> node'[m]]
      BY DEF Moved
    <3> QED BY <1>2, <2>1, <3>1 DEF Links
  <2>3. head' \in DOMAIN node /\ tail' \in DOMAIN node
    BY <1>1
  <2> QED BY <1>2, <2>2, <2>3 DEF Links, ListInv, TypeOK
<1>5. ASSUME NEW m \in DOMAIN node' PROVE InPlace(m)'
  <2>1. CASE m = a
    BY <1>1, <1>2, <2>1, NodeFacts DEF InPlace
  <2>2. CASE m = n
    BY <1>1, <1>2, <2>2, NodeFacts DEF InPlace
  <2>3. CASE m = tail
    BY <1>1, <1>2, <2>3, NodeFacts DEF InPlace
  <2>4. CASE m = p
    BY <1>1, <1>2, <2>4, NodeFacts DEF InPlace
  <2>5. CASE m \in DOMAIN node \ {a, n, tail, p}
    BY <1>1, <1>2, <2>5, NodeFacts DEF InPlace
  <2> QED BY <1>2, <2>1, <2>2, <2>3, <2>4, <2>5
<1>6. \A k \in DOMAIN index' : node'[index'[k]].key = k
  BY <1>2, NodeFacts
<1>7. OneLine'
  <2>1. ASSUME NEW m \in DOMAIN node \ {a}
        PROVE  node'[m].next = IF m = tail THEN a
                               ELSE IF node[m].next = a THEN node[a].next
                               ELSE node[m].next
    <3>1. CASE m = tail
      BY <1>2, <3>1
    <3>2. CASE m = p /\ m # tail
      BY <1>1, <1>2, <3>2, NodeFacts
    <3>3. CASE m # p /\ m # tail
      BY <1>1, <1>2, <3>3
    <3> QED BY <3>1, <3>2, <3>3
  <2>2. DOMAIN node' = DOMAIN node \union {a} /\ head' = IF a = head THEN node[a].next ELSE head
    BY <1>2
  <2> QED BY <1>1, <2>1, <2>2, LinkedLast
<1>8. head' # Null /\ tail' # Null /\ DOMAIN node' # {}
  BY <1>1, <1>2, NodeFacts
<1> QED BY <1>4, <1>5, <1>6, <1>7, <1>8, Restored

----------------------------------------------------------------------------
(* Evicting                                                                *)

LEMMA EvictLastNode ==
  ASSUME ListInv, EvictHead, tail = head
  PROVE  ListInv'
<1>1. head \in DOMAIN node /\ head # Null /\ failed = FALSE
  BY NodeFacts DEF EvictHead, ListInv, TypeOK
<1>2. DOMAIN node = {head}
  <2>1. PICK rank : Rises(rank)
    BY DEF ListInv, OneLine
  <2>2. ASSUME NEW a \in DOMAIN node PROVE a = head
    <3>1. rank[head] <= rank[a] /\ rank[a] <= rank[head]
      BY <2>1 DEF Rises
    <3>2. rank[a] \in Int /\ rank[head] \in Int
      BY <1>1, <2>1 DEF Rises
    <3> QED BY <1>1, <2>1, <3>1, <3>2 DEF Rises
  <2> QED BY <1>1, <2>2
<1>3. DOMAIN index = {node[head].key}
  BY <1>1, <1>2, NodeFacts
<1>4. /\ head' = Null /\ tail' = Null /\ failed' = FALSE
      /\ victim' \in Keys \union {EmptyKey}
  BY <1>1, NodeFacts DEF EvictHead
<1>5. /\ DOMAIN node' = {} /\ node' = [m \in {} |-> node'[m]]
      /\ DOMAIN index' = {} /\ index' = [k \in {} |-> index'[k]]
  BY <1>2, <1>3 DEF EvictHead, Forget, Restrict
<1>6. TypeOK'
  <2>1. node' \in [DOMAIN node' -> Links'] /\ index' \in [DOMAIN index' -> DOMAIN node']
    BY <1>5
  <2> QED BY <1>4, <1>5, <2>1 DEF Links, TypeOK
<1>7. OneLine'
  <2>1. Rises([m \in DOMAIN node |-> 0])'
    BY <1>5 DEF Rises
  <2> QED BY <2>1 DEF OneLine
<1> QED BY <1>4, <1>5, <1>6, <1>7, Restored

LEMMA EvictFirstNode ==
  ASSUME ListInv, EvictHead, tail # head
  PROVE  ListInv'
<1> DEFINE n == node[head].next
<1>1. /\ head \in DOMAIN node /\ tail \in DOMAIN node /\ head # Null
      /\ n \in DOMAIN node /\ n # head /\ n # Null /\ node[n].prev = head
      /\ failed = FALSE /\ DOMAIN node \subseteq Nodes
  <2>1. head \in DOMAIN node /\ head # Null /\ failed = FALSE /\ DOMAIN node \subseteq Nodes
    BY NodeFacts DEF EvictHead, ListInv, TypeOK
  <2>2. tail \in DOMAIN node
    BY <2>1, NodeFacts
  <2> QED BY <2>1, <2>2, NodeFacts, Neighbours
<1>2. /\ head' = n /\ tail' = tail /\ failed' = FALSE
      /\ victim' \in Keys \union {EmptyKey}
  BY <1>1, NodeFacts DEF EvictHead
<1>3. /\ DOMAIN node' = DOMAIN node \ {head} /\ node' = [m \in DOMAIN node' |-> node'[m]]
      /\ \A m \in DOMAIN node' \ {n} : node'[m] = node[m]
      /\ node'[n] = [node[n] EXCEPT !.prev = Null]
  BY <1>1 DEF EvictHead, Restrict
<1>4. node'[n] = [key |-> node[n].key, prev |-> Null, next |-> node[n].next]
  <2>1. node[n] = [key |-> node[n].key, prev |-> node[n].prev, next |-> node[n].next]
    BY <1>1, NodeFacts
  <2> HIDE DEF n
  <2> QED BY <1>3, <2>1
<1>5. /\ DOMAIN index' = DOMAIN index \ {node[head].key}
      /\ \A k \in DOMAIN index' : index'[k] = index[k]
      /\ index' = [k \in DOMAIN index' |-> index'[k]]
  BY DEF EvictHead, Forget, Restrict
<1> HIDE DEF n
<1>6. /\ node'[n].key = node[n].key /\ node'[n].prev = Null /\ node'[n].next = node[n].next
      /\ \A m \in DOMAIN node' \ {n} :
           node'[m].key = node[m].key /\ node'[m].prev = node[m].prev
           /\ node'[m].next = node[m].next
  BY <1>3, <1>4
\* No other node leads to the one that is deleted.
<1>7. ASSUME NEW m \in DOMAIN node'
      PROVE  /\ m # n => node[m].prev \in DOMAIN node'
             /\ m # tail => node[m].next \in DOMAIN node'
             /\ node[m].next \in DOMAIN node' \union {Null}
             /\ node[m].key \in DOMAIN index'
  <2>1. m \in DOMAIN node /\ m # head
    BY <1>3
  <2>2. m # n => node[m].prev # head
    BY <2>1, NodeFacts DEF n
  <2>3. node[m].next # head
    BY <1>1, <2>1, NodeFacts
  <2>4. node[m].key # node[head].key
    BY <1>1, <2>1, NodeFacts
  <2> QED BY <1>3, <1>5, <2>1, <2>2, <2>3, <2>4, NodeFacts
<1>8. \A k \in DOMAIN index' : index'[k] \in DOMAIN node' /\ node'[index'[k]].key = k
  <2>1. ASSUME NEW k \in DOMAIN index' PROVE index[k] \in DOMAIN node' /\ node[index[k]].key = k
    BY <1>1, <1>3, <1>5, NodeFacts
  <2> QED BY <1>5, <1>6, <2>1
<1>9. TypeOK'
  <2>1. ASSUME NEW m \in DOMAIN node' PROVE node'[m] \in Links'
    <3>1. CASE m = n
      BY <1>4, <1>7, <3>1, <1>1, NodeFacts DEF Links
    <3>2. CASE m # n
      <4>1. node[m] = [key |-> node[m].key, prev |-> node[m].prev, next |-> node[m].next]
            /\ node[m].key \in Keys
        BY <1>3, NodeFacts
      <4> QED BY <1>3, <1>7, <3>2, <4>1 DEF Links
    <3> QED BY <3>1, <3>2
  <2>2. node' \in [DOMAIN node' -> Links'] /\ index' \in [DOMAIN index' -> DOMAIN node']
    BY <1>3, <1>5, <1>8, <2>1
  <2>3. DOMAIN index' \subseteq Keys
    BY <1>5 DEF ListInv, TypeOK
  <2>4. {head', tail'} \subseteq DOMAIN node' \union {Null}
    BY <1>1, <1>2, <1>3
  <2> QED BY <1>1, <1>2, <1>3, <2>2, <2>3, <2>4 DEF Links, TypeOK
<1>10. ASSUME NEW m \in DOMAIN node' PROVE InPlace(m)'
  <2>1. CASE m = n
    BY <1>1, <1>2, <1>3, <1>5, <1>6, <1>7, <2>1, NodeFacts DEF InPlace
  <2>2. CASE m # n
    BY <1>1, <1>2, <1>3, <1>5, <1>6, <1>7, <2>2, NodeFacts DEF InPlace
  <2> QED BY <2>1, <2>2
<1>11. OneLine'
  <2>1. PICK rank : Rises(rank)
    BY DEF ListInv, OneLine
  <2> DEFINE new == [m \in DOMAIN node' |-> rank[m]]
  <2>2. new \in [DOMAIN node' -> Int] /\ \A m \in DOMAIN node' : new[m] = rank[m]
    BY <1>3, <2>1 DEF Rises
  <2> HIDE DEF new
  <2>3. \A a, b \in DOMAIN node' : new[a] = new[b] => a = b
    BY <1>3, <2>1, <2>2 DEF Rises
  <2>4. ASSUME NEW a \in DOMAIN node' PROVE new[head'] <= new[a] /\ new[a] <= new[tail']
    <3>1. a \in DOMAIN node /\ a # head
      BY <1>3
    <3>2. rank[a] <= rank[head] \/ rank[n] <= rank[a]
      BY <1>1, <2>1, <3>1 DEF Rises, n
    <3>3. rank[head] <= rank[a] /\ rank[a] <= rank[tail] /\ rank[a] # rank[head]
          /\ rank[a] \in Int /\ rank[head] \in Int
      BY <1>1, <2>1, <3>1 DEF Rises
    <3>4. n \in DOMAIN node' /\ tail \in DOMAIN node'
      BY <1>1, <1>3
    <3> QED BY <1>2, <2>2, <3>2, <3>3, <3>4
  <2>5. ASSUME NEW a \in DOMAIN node' \ {tail'}
        PROVE  /\ new[a] < new[node'[a].next]
               /\ \A b \in DOMAIN node' : new[b] <= new[a] \/ new[node'[a].next] <= new[b]
    <3>1. node'[a].next = node[a].next /\ node[a].next \in DOMAIN node'
          /\ a \in DOMAIN node \ {tail}
      BY <1>2, <1>3, <1>6, <1>7
    <3>2. /\ rank[a] < rank[node[a].next]
          /\ \A b \in DOMAIN node : rank[b] <= rank[a] \/ rank[node[a].next] <= rank[b]
      BY <2>1, <3>1 DEF Rises
    <3> QED BY <1>3, <2>2, <3>1, <3>2
  <2>6. ASSUME NEW r, r = new PROVE Rises(r)'
    BY <2>2, <2>3, <2>4, <2>5, <2>6 DEF Rises
  <2> QED BY <2>6 DEF OneLine
<1>12. head' # Null /\ tail' # Null /\ DOMAIN node' # {}
  BY <1>1, <1>2, <1>3, NodeFacts
<1> QED BY <1>2, <1>8, <1>9, <1>10, <1>11, <1>12, Restored

----------------------------------------------------------------------------
LEMMA NextListInv == ListInv /\ [Next]_vars => ListInv'
<1> SUFFICES ASSUME ListInv, [Next]_vars PROVE ListInv'
  OBVIOUS
<1>1. ASSUME NEW k \in Keys, NEW a \in Nodes,
             InsertFirst(a, k) \/ InsertSecond(a, k) \/ InsertLast(a, k)
      PROVE  ListInv'
  BY <1>1, InsertFirstKeepsInv, InsertSecondKeepsInv, InsertLastKeepsInv
<1>2. ASSUME NEW k \in Keys, TouchHead(k) PROVE ListInv'
  <2> DEFINE a == index[k]
             n == node[a].next
  <2>1. /\ a \in DOMAIN node /\ a # tail /\ node[a].prev = Null
        /\ head' = n /\ node' = MoveHeadToEnd(a, n) /\ tail' = a
        /\ index' = index /\ victim' = victim
        /\ failed' = ~(a = head /\ n # Null /\ node[n].prev = head /\ tail # Null)
    BY <1>2, NodeFacts DEF TouchHead
  <2> HIDE DEF a
  <2>2. a = head /\ n \in DOMAIN node /\ node[n].prev = a /\ tail \in DOMAIN node
    BY <2>1, NodeFacts, Neighbours
  <2>3. failed' = FALSE
    BY <2>1, <2>2, NodeFacts
  <2> HIDE DEF n
  <2>4. Moved(a, Null, n)
    BY <2>1, MoveHeadMoves DEF n
  <2> QED BY <2>1, <2>2, <2>3, <2>4, MovedKeepsInv DEF n
<1>3. ASSUME NEW k \in Keys, TouchTail(k) PROVE ListInv'
  <2>1. index[k] \in DOMAIN node /\ index[k] = tail
    BY <1>3, NodeFacts DEF TouchTail
  <2>2. failed' = FALSE /\ failed = FALSE
    BY <1>3, <2>1, NodeFacts DEF TouchTail, ListInv, TypeOK
  <2>3. UNCHANGED <<node, index, head, tail, victim, failed>>
    BY <1>3, <2>2 DEF TouchTail
  <2> QED BY <2>3 DEF ListInv, TypeOK, DoublyLinked, OneLine, Rises, IndexExact, AssertionsHold
<1>4. ASSUME NEW k \in Keys, TouchMiddle(k) PROVE ListInv'
  <2> DEFINE a == index[k]
             p == node[a].prev
             n == node[a].next
  <2>1. /\ a \in DOMAIN node /\ a # tail /\ p # Null
        /\ head' = head /\ node' = MoveToEnd(a, p, n) /\ tail' = a
        /\ index' = index /\ victim' = victim
        /\ failed' = ~(n # Null /\ tail # Null)
    BY <1>4, NodeFacts DEF TouchMiddle
  <2> HIDE DEF a
  <2>2. a # head /\ n \in DOMAIN node /\ tail \in DOMAIN node
    BY <2>1, NodeFacts, Neighbours
  <2>3. failed' = FALSE
    BY <2>1, <2>2, NodeFacts
  <2> HIDE DEF n, p
  <2>4. Moved(a, p, n)
    BY <2>1, MoveToEndMoves DEF n, p
  <2> QED BY <2>1, <2>2, <2>3, <2>4, MovedKeepsInv DEF n, p
<1>5. CASE EvictNothing
  <2>1. UNCHANGED <<node, index, head, tail, failed>> /\ victim' = EmptyKey
    BY <1>5 DEF EvictNothing
  <2> QED BY <2>1 DEF ListInv, TypeOK, DoublyLinked, OneLine, Rises, IndexExact, AssertionsHold
<1>6. CASE EvictHead
  BY <1>6, EvictLastNode, EvictFirstNode
<1>7. CASE UNCHANGED vars
  BY <1>7 DEF vars, ListInv, TypeOK, DoublyLinked, OneLine, Rises, IndexExact, AssertionsHold
<1> QED BY <1>1, <1>2, <1>3, <1>4, <1>5, <1>6, <1>7 DEF Next

LEMMA ListIsCorrect == Spec => []ListInv
<1> QED BY InitListInv, NextListInv, PTL DEF Spec

\* No pointer of LRU_Evictor dangles: head, tail, prev, next and the table
\* lead to nodes that are allocated, or nowhere.
THEOREM ListPointersAreValid == Spec => []TypeOK
<1>1. ListInv => TypeOK
  BY DEF ListInv
<1> QED BY <1>1, ListIsCorrect, PTL

\* No assertion of touch_key fails, in any sequence of touches and evictions of
\* any number of keys.
THEOREM ListAssertionsHold == Spec => []AssertionsHold
<1>1. ListInv => AssertionsHold
  BY DEF ListInv
<1> QED BY <1>1, ListIsCorrect, PTL

\* Every relinking leaves prev and next the inverse of each other, null only at
\* the ends.
THEOREM ListIsDoublyLinked == Spec => []DoublyLinked
<1>1. ListInv => DoublyLinked
  BY DEF ListInv
<1> QED BY <1>1, ListIsCorrect, PTL

\* The nodes form one line from head to tail: no eviction loses track of one.
THEOREM ListIsOneLine == Spec => []OneLine
<1>1. ListInv => OneLine
  BY DEF ListInv
<1> QED BY <1>1, ListIsCorrect, PTL

\* The table of LRU_Evictor leads to each node once, so its destructor deletes
\* every node and none twice.
THEOREM ListIndexIsExact == Spec => []IndexExact
<1>1. ListInv => IndexExact
  BY DEF ListInv
<1> QED BY <1>1, ListIsCorrect, PTL

----------------------------------------------------------------------------
(* Touching                                                                *)

\* What LRUTouch makes of an order that has no key twice.
LEMMA TouchedOrder ==
  ASSUME NEW S, NEW o \in Seq(S), NEW k \in S,
         \A x, y \in 1 .. Len(o) : o[x] = o[y] => x = y
  PROVE  /\ List!LRUTouch(o, k) \in Seq(S)
         /\ (\A i \in 1 .. Len(o) : o[i] # k) => List!LRUTouch(o, k) = Append(o, k)
         /\ \A p \in 1 .. Len(o) : o[p] = k =>
              /\ Len(List!LRUTouch(o, k)) = Len(o)
              /\ \A i \in 1 .. Len(o) :
                   List!LRUTouch(o, k)[i] =
                     IF i < p THEN o[i] ELSE IF i < Len(o) THEN o[i + 1] ELSE k
<1>1. List!LRUTouch(o, k) = Order!LRUTouch(o, k)
  BY DEF List!LRUTouch, Order!LRUTouch, List!Range, Order!Range, List!RemoveAt, Order!RemoveAt,
         List!Position, Order!Position
<1> DEFINE T == Order!LRUTouch(o, k)
<1>2. /\ T \in Seq(S)
      /\ (\A i \in 1 .. Len(o) : o[i] # k) => T = Append(o, k)
      /\ \A p \in 1 .. Len(o) : o[p] = k =>
           /\ Len(T) = Len(o)
           /\ \A i \in 1 .. Len(o) : T[i] = IF i < p THEN o[i] ELSE IF i < Len(o) THEN o[i + 1] ELSE k
  BY Order!LRUTouchMoves, SMTT(30)
<1>3. List!LRUTouch(o, k) = T
  BY <1>1
<1> HIDE DEF T
<1> QED BY <1>2, <1>3, Zenon

----------------------------------------------------------------------------
(* The list as a sequence                                                  *)

\* s holds the nodes in the order of their next links.
IsListing(s) ==
  /\ s \in Seq(DOMAIN node)
  /\ \A x, y \in 1 .. Len(s) : s[x] = s[y] => x = y
  /\ \A a \in DOMAIN node : \E x \in 1 .. Len(s) : s[x] = a
  /\ Len(s) > 0 => s[1] = head /\ s[Len(s)] = tail
  /\ \A x \in 1 .. Len(s) - 1 : node[s[x]].next = s[x + 1]
KeysOf(s) == [x \in 1 .. Len(s) |-> node[s[x]].key]

\* f is the walk that ListOrder takes, n nodes long.
IsWalk(f, n) ==
  f = [i \in 1 .. n |-> IF i = 1 THEN head
                        ELSE IF f[i - 1] = Null THEN Null ELSE node[f[i - 1]].next]
Walk(n) == CHOOSE f : IsWalk(f, n)

\* ListOrder is the keys of that walk.
LEMMA WalkedOrder ==
  ListOrder = [i \in 1 .. Cardinality(DOMAIN node) |->
                 IF Walk(Cardinality(DOMAIN node))[i] = Null THEN EmptyKey
                 ELSE node[Walk(Cardinality(DOMAIN node))[i]].key]
<1> QED BY Zenon DEF ListOrder, Walk, IsWalk

\* The walk meets the nodes of the list in their order.
LEMMA WalkMeetsListing ==
  ASSUME ListInv, NEW s, IsListing(s)
  PROVE  \A i \in 1 .. Len(s) : Walk(Len(s))[i] = s[i]
<1> DEFINE n == Len(s)
<1>1. n \in Nat /\ \A i \in 1 .. n : s[i] \in DOMAIN node /\ s[i] # Null
  BY NullAssumption DEF IsListing, ListInv, TypeOK
<1>2. \A i \in 1 .. n - 1 : node[s[i]].next = s[i + 1]
  BY DEF IsListing
<1>3. n > 0 => s[1] = head
  BY DEF IsListing
<1> HIDE DEF n
<1> DEFINE g == [i \in 1 .. n |-> s[i]]
<1>4. IsWalk(g, n)
  <2>1. ASSUME NEW i \in 1 .. n
        PROVE  g[i] = IF i = 1 THEN head
                      ELSE IF g[i - 1] = Null THEN Null ELSE node[g[i - 1]].next
    <3>1. CASE i = 1
      BY <1>1, <1>3, <3>1
    <3>2. CASE i # 1
      <4>1. i - 1 \in 1 .. n - 1 /\ i - 1 \in 1 .. n /\ (i - 1) + 1 = i
        BY <1>1, <3>2
      <4> QED BY <1>1, <1>2, <3>2, <4>1
    <3> QED BY <3>1, <3>2
  <2> QED BY <2>1 DEF IsWalk
<1> HIDE DEF g
<1>5. IsWalk(Walk(n), n)
  BY <1>4 DEF Walk
<1> DEFINE w == Walk(n)
<1>6. \A i \in 1 .. n : w[i] = IF i = 1 THEN head
                                ELSE IF w[i - 1] = Null THEN Null ELSE node[w[i - 1]].next
  BY <1>5 DEF IsWalk
<1> HIDE DEF w
<1> DEFINE T == {i \in 1 .. n : w[i] # s[i]}
<1>7. T = {}
  <2> SUFFICES ASSUME T # {} PROVE FALSE
    OBVIOUS
  <2>1. \E x \in T : \A y \in T : x <= y
    <3>1. T \subseteq Nat
      OBVIOUS
    <3> HIDE DEF T
    <3> QED BY <3>1, Order!LeastNumber
  <2>2. PICK x \in T : \A y \in T : x <= y
    BY <2>1
  <2>3. x \in 1 .. n /\ w[x] # s[x]
    OBVIOUS
  <2>4. CASE x = 1
    BY <1>1, <1>3, <1>6, <2>3, <2>4
  <2>5. CASE x # 1
    <3>1. x - 1 \in 1 .. n - 1 /\ x - 1 \in 1 .. n /\ (x - 1) + 1 = x /\ ~(x <= x - 1)
      BY <1>1, <2>3, <2>5
    <3>2. w[x - 1] = s[x - 1]
      BY <2>2, <3>1
    <3>3. w[x] = node[s[x - 1]].next
      BY <1>1, <1>6, <2>3, <2>5, <3>1, <3>2
    <3> QED BY <1>2, <2>3, <3>1, <3>3
  <2> QED BY <2>4, <2>5
<1> QED BY <1>7 DEF w, n

\* So the order ListOrder reads is that of the listing.
LEMMA ListingIsOrder ==
  ASSUME ListInv, NEW s, IsListing(s)
  PROVE  ListOrder = KeysOf(s)
<1>1. Cardinality(DOMAIN node) = Len(s)
  <2>1. Len(s) \in Nat
    BY DEF IsListing
  <2> DEFINE g == [i \in 1 .. Len(s) |-> s[i]]
  <2>2. /\ g \in [1 .. Len(s) -> DOMAIN node]
        /\ \A x, y \in 1 .. Len(s) : g[x] = g[y] => x = y
        /\ \A a \in DOMAIN node : \E x \in 1 .. Len(s) : g[x] = a
    BY DEF IsListing
  <2> HIDE DEF g
  <2>3. ExistsBijection(1 .. Len(s), DOMAIN node)
    BY <2>2 DEF ExistsBijection, Bijection, Injection, Surjection, IsInjective
  <2> QED BY <2>1, <2>3, FS_CountingElements
<1>2. \A i \in 1 .. Len(s) : Walk(Len(s))[i] = s[i] /\ s[i] # Null
  <2>1. \A i \in 1 .. Len(s) : s[i] \in DOMAIN node
    BY DEF IsListing
  <2>2. Null \notin DOMAIN node
    BY NullAssumption DEF ListInv, TypeOK
  <2> QED BY <2>1, <2>2, WalkMeetsListing
<1> QED BY <1>1, <1>2, WalkedOrder DEF KeysOf
----------------------------------------------------------------------------
(* Steps                                                                   *)

\* What a listing that has a last node says of the nodes.
LEMMA ListingFacts ==
  ASSUME NEW s, IsListing(s), tail \in DOMAIN node
  PROVE  /\ Len(s) \in Nat /\ Len(s) > 0
         /\ s[1] = head /\ s[Len(s)] = tail
         /\ \A x \in 1 .. Len(s) : s[x] \in DOMAIN node
         /\ \A x, y \in 1 .. Len(s) : s[x] = s[y] => x = y
         /\ \A m \in DOMAIN node : \E x \in 1 .. Len(s) : s[x] = m
         /\ \A x \in 1 .. Len(s) - 1 : node[s[x]].next = s[x + 1]
<1>1. Len(s) \in Nat /\ \A x \in 1 .. Len(s) : s[x] \in DOMAIN node
  BY DEF IsListing
<1>2. \E x \in 1 .. Len(s) : s[x] = tail
  BY DEF IsListing
<1>3. Len(s) > 0
  BY <1>1, <1>2
<1>4. s[1] = head /\ s[Len(s)] = tail
  BY <1>3 DEF IsListing
<1>5. \A x, y \in 1 .. Len(s) : s[x] = s[y] => x = y
  BY DEF IsListing
<1>6. \A m \in DOMAIN node : \E x \in 1 .. Len(s) : s[x] = m
  BY DEF IsListing
<1>7. \A x \in 1 .. Len(s) - 1 : node[s[x]].next = s[x + 1]
  BY DEF IsListing
<1> QED BY <1>1, <1>3, <1>4, <1>5, <1>6, <1>7

\* Every key is on one node of the listing.
LEMMA ListedKeys ==
  ASSUME ListInv, NEW s, IsListing(s)
  PROVE  /\ KeysOf(s) \in Seq(Keys) /\ Len(KeysOf(s)) = Len(s) /\ Len(s) \in Nat
         /\ \A x \in 1 .. Len(s) :
              KeysOf(s)[x] = node[s[x]].key /\ s[x] \in DOMAIN node /\ node[s[x]].key \in Keys
         /\ \A x, y \in 1 .. Len(s) : node[s[x]].key = node[s[y]].key => x = y
<1>1. Len(s) \in Nat /\ \A x \in 1 .. Len(s) : s[x] \in DOMAIN node
  BY DEF IsListing
<1>2. \A x \in 1 .. Len(s) : node[s[x]].key \in Keys /\ index[node[s[x]].key] = s[x]
  BY <1>1, NodeFacts
<1>3. KeysOf(s) \in Seq(Keys) /\ Len(KeysOf(s)) = Len(s)
  <2>1. KeysOf(s) \in [1 .. Len(s) -> Keys]
    BY <1>2 DEF KeysOf
  <2> QED BY <1>1, <2>1, SeqDef, LenProperties
<1>4. \A x, y \in 1 .. Len(s) : node[s[x]].key = node[s[y]].key => x = y
  <2>1. \A x, y \in 1 .. Len(s) : s[x] = s[y] => x = y
    BY DEF IsListing
  <2> QED BY <1>2, <2>1
<1> QED BY <1>1, <1>2, <1>3, <1>4 DEF KeysOf

\* What a step does that links node a, with key k, after the tail.
LinksLast(a, k) ==
  /\ tail \in DOMAIN node /\ a # tail /\ tail' = a
  /\ DOMAIN node' = DOMAIN node \union {a}
  /\ head' = IF a = head THEN node[a].next ELSE head
  /\ node'[a].key = k
  /\ \A m \in DOMAIN node \ {a} :
       /\ node'[m].key = node[m].key
       /\ node'[m].next = IF m = tail THEN a
                         ELSE IF node[m].next = a THEN node[a].next ELSE node[m].next
  /\ IF a \in DOMAIN node THEN node[a].key = k
     ELSE a # head /\ \A m \in DOMAIN node : node[m].key # k

\* A new node is listed last, and its key joins the order.
LEMMA NewNodeListed ==
  ASSUME ListInv, NEW s, IsListing(s), NEW a, NEW k \in Keys, LinksLast(a, k),
         a \notin DOMAIN node
  PROVE  /\ IsListing(Append(s, a))'
         /\ KeysOf(Append(s, a))' = List!LRUTouch(KeysOf(s), k)
<1>1. /\ Len(s) \in Nat
      /\ \A x \in 1 .. Len(s) : s[x] \in DOMAIN node /\ s[x] # a
      /\ \A x, y \in 1 .. Len(s) : s[x] = s[y] => x = y
      /\ \A m \in DOMAIN node : \E x \in 1 .. Len(s) : s[x] = m
      /\ \A x \in 1 .. Len(s) - 1 : node[s[x]].next = s[x + 1]
  BY ListingFacts DEF LinksLast
<1>2. Len(s) > 0 /\ s[1] = head /\ s[Len(s)] = tail
  BY ListingFacts DEF LinksLast
<1>3. s \in Seq(DOMAIN node \union {a})
  BY <1>1, SeqDef DEF IsListing
<1> DEFINE n == Len(s)
           t == Append(s, a)
<1>4. /\ t \in Seq(DOMAIN node \union {a}) /\ Len(t) = n + 1
      /\ \A x \in 1 .. n : t[x] = s[x]
      /\ t[n + 1] = a
  BY <1>3, AppendProperties
<1> HIDE DEF t
<1>5. IsListing(t)'
  <2>1. t \in Seq(DOMAIN node')
    BY <1>4 DEF LinksLast
  <2>2. \A x, y \in 1 .. n + 1 : t[x] = t[y] => x = y
    BY <1>1, <1>4
  <2>3. ASSUME NEW m \in DOMAIN node' PROVE \E x \in 1 .. n + 1 : t[x] = m
    <3>1. CASE m = a
      BY <1>1, <1>4, <3>1
    <3>2. CASE m # a
      <4>1. m \in DOMAIN node
        BY <3>2 DEF LinksLast
      <4>2. PICK x \in 1 .. n : s[x] = m
        BY <1>1, <4>1
      <4> QED BY <1>1, <1>4, <4>2
    <3> QED BY <3>1, <3>2
  <2>4. t[1] = head' /\ t[n + 1] = tail'
    BY <1>1, <1>2, <1>4 DEF LinksLast
  <2>5. ASSUME NEW x \in 1 .. n PROVE node'[t[x]].next = t[x + 1]
    <3>1. s[x] \in DOMAIN node \ {a} /\ t[x] = s[x]
      BY <1>1, <1>4
    <3>2. CASE x = n
      <4>1. s[x] = tail /\ t[x + 1] = a
        BY <1>2, <1>4, <3>2
      <4> QED BY <3>1, <4>1 DEF LinksLast
    <3>3. CASE x # n
      <4>1. x \in 1 .. n - 1 /\ x + 1 \in 1 .. n /\ n \in 1 .. n
        BY <1>1, <3>3
      <4>2. s[x] # tail /\ node[s[x]].next = s[x + 1] /\ s[x + 1] # a /\ t[x + 1] = s[x + 1]
        BY <1>1, <1>2, <1>4, <3>3, <4>1
      <4> QED BY <3>1, <4>2 DEF LinksLast
    <3> QED BY <3>2, <3>3
  <2>6. (n + 1) - 1 = n
    BY <1>1
  <2> QED BY <1>4, <2>1, <2>2, <2>3, <2>4, <2>5, <2>6 DEF IsListing
<1>6. KeysOf(t)' = List!LRUTouch(KeysOf(s), k)
  <2>1. /\ KeysOf(s) \in Seq(Keys) /\ Len(KeysOf(s)) = n
        /\ \A x \in 1 .. n : KeysOf(s)[x] = node[s[x]].key
        /\ \A x, y \in 1 .. n : node[s[x]].key = node[s[y]].key => x = y
    BY ListedKeys
  <2>2. \A x \in 1 .. n : KeysOf(s)[x] # k
    BY <1>1, <2>1 DEF LinksLast
  <2>3. \A x, y \in 1 .. Len(KeysOf(s)) : KeysOf(s)[x] = KeysOf(s)[y] => x = y
    BY <2>1
  <2>4. List!LRUTouch(KeysOf(s), k) = Append(KeysOf(s), k)
    <3>1. \A x \in 1 .. Len(KeysOf(s)) : KeysOf(s)[x] # k
      BY <2>1, <2>2
    <3> QED BY <2>1, <2>3, <3>1, TouchedOrder
  <2>5. /\ Append(KeysOf(s), k) \in Seq(Keys) /\ Len(Append(KeysOf(s), k)) = n + 1
        /\ \A x \in 1 .. n : Append(KeysOf(s), k)[x] = node[s[x]].key
        /\ Append(KeysOf(s), k)[n + 1] = k
    BY <2>1, AppendProperties
  <2>6. ASSUME NEW x \in 1 .. n + 1 PROVE node'[t[x]].key = Append(KeysOf(s), k)[x]
    <3>1. CASE x = n + 1
      BY <1>4, <2>5, <3>1 DEF LinksLast
    <3>2. CASE x # n + 1
      <4>1. x \in 1 .. n
        BY <1>1, <3>2
      <4>2. s[x] \in DOMAIN node \ {a} /\ t[x] = s[x]
        BY <1>1, <1>4, <4>1
      <4> QED BY <2>5, <4>1, <4>2 DEF LinksLast
    <3> QED BY <3>1, <3>2
  <2>7. Append(KeysOf(s), k) = [x \in 1 .. n + 1 |-> node'[t[x]].key]
    <3>1. Append(KeysOf(s), k) \in [1 .. n + 1 -> Keys]
      BY <2>5, LenProperties
    <3> QED BY <2>6, <3>1
  <2> QED BY <1>4, <2>4, <2>7 DEF KeysOf
<1> QED BY <1>5, <1>6 DEF t

\* A node that is linked again is listed last and no longer where it was.
LEMMA MovedNodeListed ==
  ASSUME ListInv, NEW s, IsListing(s), NEW a, NEW k \in Keys, LinksLast(a, k),
         a \in DOMAIN node
  PROVE  /\ IsListing(List!LRUTouch(s, a))'
         /\ KeysOf(List!LRUTouch(s, a))' = List!LRUTouch(KeysOf(s), k)
<1> DEFINE n == Len(s)
           t == List!LRUTouch(s, a)
<1>1. /\ n \in Nat
      /\ \A x \in 1 .. n : s[x] \in DOMAIN node
      /\ \A x, y \in 1 .. n : s[x] = s[y] => x = y
      /\ \A m \in DOMAIN node : \E x \in 1 .. n : s[x] = m
      /\ \A x \in 1 .. n - 1 : node[s[x]].next = s[x + 1]
  BY ListingFacts DEF LinksLast
<1>2. n > 0 /\ s[1] = head /\ s[n] = tail
  BY ListingFacts DEF LinksLast
<1>3. PICK p \in 1 .. n : s[p] = a
  BY <1>1
<1>4. p < n
  <2>1. a # tail
    BY DEF LinksLast
  <2>2. p # n
    BY <1>2, <1>3, <2>1
  <2> QED BY <1>1, <2>2
<1>5. /\ t \in Seq(DOMAIN node) /\ Len(t) = n
      /\ \A x \in 1 .. n :
           t[x] = IF x < p THEN s[x] ELSE IF x < n THEN s[x + 1] ELSE a
  <2>1. s \in Seq(DOMAIN node)
    BY DEF IsListing
  <2>2. \A x, y \in 1 .. Len(s) : s[x] = s[y] => x = y
    BY <1>1
  <2>3. p \in 1 .. Len(s) /\ s[p] = a
    BY <1>3
  <2> HIDE DEF n, t
  <2>4. /\ List!LRUTouch(s, a) \in Seq(DOMAIN node)
        /\ Len(List!LRUTouch(s, a)) = Len(s)
        /\ \A x \in 1 .. Len(s) :
             List!LRUTouch(s, a)[x] =
               IF x < p THEN s[x] ELSE IF x < Len(s) THEN s[x + 1] ELSE a
    <3>1. /\ List!LRUTouch(s, a) \in Seq(DOMAIN node)
          /\ \A y \in 1 .. Len(s) : s[y] = a =>
               /\ Len(List!LRUTouch(s, a)) = Len(s)
               /\ \A x \in 1 .. Len(s) :
                    List!LRUTouch(s, a)[x] =
                      IF x < y THEN s[x] ELSE IF x < Len(s) THEN s[x + 1] ELSE a
      BY <2>1, <2>2, TouchedOrder
    <3> QED BY <2>3, <3>1
  <2> QED BY <2>4 DEF n, t
<1> HIDE DEF t, n
\* Where the entries of t come from.
<1> DEFINE q == [x \in 1 .. n |-> IF x < p THEN x ELSE IF x < n THEN x + 1 ELSE p]
<1>6. /\ \A x \in 1 .. n : q[x] \in 1 .. n
      /\ \A x \in 1 .. n : t[x] = s[q[x]]
      /\ \A x, y \in 1 .. n : q[x] = q[y] => x = y
  <2>1. \A x \in 1 .. n : q[x] \in 1 .. n
    BY <1>1, <1>3
  <2>2. \A x \in 1 .. n : t[x] = s[q[x]]
    BY <1>1, <1>3, <1>5
  <2>3. \A x, y \in 1 .. n : q[x] = q[y] => x = y
    BY <1>1, <1>3
  <2> QED BY <2>1, <2>2, <2>3
<1> HIDE DEF q
<1>7. IsListing(t)'
  <2>1. t \in Seq(DOMAIN node') /\ DOMAIN node' = DOMAIN node
    <3>1. DOMAIN node' = DOMAIN node
      BY DEF LinksLast
    <3> QED BY <1>5, <3>1
  <2>2. ASSUME NEW x \in 1 .. n, NEW y \in 1 .. n, t[x] = t[y] PROVE x = y
    <3>1. s[q[x]] = s[q[y]] /\ q[x] \in 1 .. n /\ q[y] \in 1 .. n
      BY <1>6, <2>2
    <3>2. q[x] = q[y]
      BY <1>1, <3>1
    <3> QED BY <1>6, <3>2
  <2>3. ASSUME NEW m \in DOMAIN node' PROVE \E x \in 1 .. n : t[x] = m
    <3>1. PICK y \in 1 .. n : s[y] = m
      BY <1>1, <2>1
    <3>2. CASE y < p
      BY <1>5, <3>1, <3>2
    <3>3. CASE y = p
      <4>1. n \in 1 .. n /\ ~(n < p) /\ ~(n < n)
        BY <1>1, <1>2, <1>4
      <4> QED BY <1>3, <1>5, <3>1, <3>3, <4>1
    <3>4. CASE y > p
      <4>1. y - 1 \in 1 .. n /\ ~(y - 1 < p) /\ y - 1 < n /\ (y - 1) + 1 = y
        BY <1>1, <1>3, <3>4
      <4> QED BY <1>5, <3>1, <4>1
    <3> QED BY <1>1, <1>3, <3>2, <3>3, <3>4
  <2>4. t[1] = head' /\ t[n] = tail'
    <3>1. 1 \in 1 .. n /\ n \in 1 .. n /\ ~(n < p) /\ ~(n < n)
      BY <1>1, <1>2, <1>4
    <3>2. t[n] = a
      BY <1>5, <3>1
    <3>3. CASE p = 1
      <4>0. 1 \in 1 .. n - 1 /\ 1 + 1 = 2 /\ ~(1 < p) /\ 1 < n
        BY <1>1, <1>4, <3>3
      <4>1. t[1] = s[2]
        BY <1>5, <3>1, <4>0
      <4>2. node[a].next = s[2] /\ a = head
        BY <1>1, <1>2, <1>3, <3>3, <4>0
      <4> QED BY <3>2, <4>1, <4>2 DEF LinksLast
    <3>4. CASE p # 1
      <4>0. 1 < p
        BY <1>1, <3>4
      <4>1. t[1] = s[1] /\ a # head
        BY <1>1, <1>2, <1>3, <1>5, <3>1, <3>4, <4>0
      <4> QED BY <1>2, <3>2, <4>1 DEF LinksLast
    <3> QED BY <3>3, <3>4
  <2>5. ASSUME NEW x \in 1 .. n - 1 PROVE node'[t[x]].next = t[x + 1]
    <3>1. x \in 1 .. n /\ x + 1 \in 1 .. n /\ x < n /\ x \in Nat
      BY <1>1
    <3>2. t[x] \in DOMAIN node \ {a}
      <4>1. q[x] # p
        BY <1>3, <1>4, <3>1 DEF q
      <4> QED BY <1>1, <1>3, <1>6, <3>1, <4>1
    <3>3. CASE x = n - 1
      <4>1. ~(x < p) /\ ~(x + 1 < p) /\ ~(x + 1 < n) /\ x + 1 = n
        BY <1>1, <1>3, <1>4, <3>1, <3>3
      <4>2. t[x] = tail /\ t[x + 1] = a
        BY <1>2, <1>5, <3>1, <4>1
      <4> QED BY <3>2, <4>2 DEF LinksLast
    <3>4. CASE x # n - 1
      <4>1. x + 1 \in 1 .. n - 1 /\ x + 1 < n /\ n \in 1 .. n /\ x \in 1 .. n - 1
        BY <1>1, <3>1, <3>4
      <4>2. CASE x + 1 = p
        <5>1. t[x] = s[x] /\ t[x + 1] = s[p + 1]
          <6>1. x < p /\ ~(x + 1 < p) /\ x + 1 < n
            BY <3>1, <4>1, <4>2
          <6>2. t[x] = s[x]
            BY <1>5, <3>1, <6>1
          <6>3. t[x + 1] = s[x + 1 + 1]
            BY <1>5, <3>1, <6>1
          <6> QED BY <4>2, <6>2, <6>3
        <5>2. node[s[x]].next = a /\ node[a].next = s[p + 1] /\ s[x] # tail
          BY <1>1, <1>2, <1>3, <3>1, <3>4, <4>1, <4>2
        <5> QED BY <3>2, <5>1, <5>2 DEF LinksLast
      <4>3. CASE x + 1 # p
        <5>1. q[x + 1] = q[x] + 1 /\ q[x] \in 1 .. n - 1 /\ q[x] + 1 \in 1 .. n /\ q[x] + 1 # p
              /\ q[x] # n
          BY <1>1, <1>3, <3>1, <4>1, <4>3 DEF q
        <5>2. t[x] = s[q[x]] /\ t[x + 1] = s[q[x] + 1]
          BY <1>6, <3>1, <5>1
        <5>3. node[s[q[x]]].next = s[q[x] + 1]
          BY <1>1, <5>1
        <5>4. s[q[x]] # tail /\ s[q[x] + 1] # a
          BY <1>1, <1>2, <1>3, <1>6, <3>1, <4>1, <5>1
        <5> QED BY <3>2, <5>2, <5>3, <5>4 DEF LinksLast
      <4> QED BY <4>2, <4>3
    <3> QED BY <3>3, <3>4
  <2> QED BY <1>5, <2>1, <2>2, <2>3, <2>4, <2>5 DEF IsListing
<1>8. KeysOf(t)' = List!LRUTouch(KeysOf(s), k)
  <2>1. /\ KeysOf(s) \in Seq(Keys) /\ Len(KeysOf(s)) = n
        /\ \A x \in 1 .. n : KeysOf(s)[x] = node[s[x]].key
        /\ \A x, y \in 1 .. n : node[s[x]].key = node[s[y]].key => x = y
    BY ListedKeys DEF n
  <2>2. \A x, y \in 1 .. Len(KeysOf(s)) : KeysOf(s)[x] = KeysOf(s)[y] => x = y
    BY <2>1
  <2>3. p \in 1 .. Len(KeysOf(s)) /\ KeysOf(s)[p] = k
    BY <1>3, <2>1 DEF LinksLast
  <2> DEFINE u == List!LRUTouch(KeysOf(s), k)
  <2>4. /\ u \in Seq(Keys) /\ Len(u) = n
        /\ \A x \in 1 .. n :
             u[x] = IF x < p THEN KeysOf(s)[x] ELSE IF x < n THEN KeysOf(s)[x + 1] ELSE k
    BY <2>1, <2>2, <2>3, TouchedOrder
  <2> HIDE DEF u
  <2>5. ASSUME NEW x \in 1 .. n PROVE node'[t[x]].key = u[x]
    <3>1. CASE x < n
      <4>1. x + 1 \in 1 .. n /\ q[x] # p
        BY <1>1, <1>3, <1>4, <3>1 DEF q
      <4>2. t[x] \in DOMAIN node \ {a}
        BY <1>1, <1>3, <1>6, <4>1
      <4>3. node'[t[x]].key = node[t[x]].key
        BY <4>2 DEF LinksLast
      <4> QED BY <1>5, <2>1, <2>4, <3>1, <4>1, <4>3
    <3>2. CASE ~(x < n)
      <4>1. x = n /\ ~(x < p)
        BY <1>1, <1>3, <1>4, <3>2
      <4> QED BY <1>5, <2>4, <4>1 DEF LinksLast
    <3> QED BY <3>1, <3>2
  <2>6. u = [x \in 1 .. n |-> node'[t[x]].key]
    <3>1. u \in [1 .. n -> Keys]
      BY <2>4, LenProperties
    <3> QED BY <2>5, <3>1
  <2> QED BY <1>5, <2>6 DEF KeysOf, u
<1> QED BY <1>7, <1>8 DEF t

----------------------------------------------------------------------------
(* Refinement                                                              *)

\* The inductive invariant: the walk from head meets every node, which the
\* links alone do not say.
Listed == \E s : IsListing(s)

\* The order of a listing, for the states before and after a step.
LEMMA OrderOfListing == \A s : ListInv /\ IsListing(s) => ListOrder = KeysOf(s)
<1> QED BY ListingIsOrder
LEMMA OrderAfterStep == (\A s : ListInv /\ IsListing(s) => ListOrder = KeysOf(s))'
<1> QED BY OrderOfListing, PTL

\* A step is the one of EvictorSpec that makes the keys of the new listing
\* from those of the old one.
LEMMA LinkedIsTouched ==
  ASSUME ListInv, ListInv', Listed, NEW a, NEW k \in Keys, LinksLast(a, k), victim' = victim
  PROVE  Listed' /\ List!Touch(k)
<1>1. PICK s : IsListing(s)
  BY DEF Listed
<1>2. \E t : IsListing(t)' /\ KeysOf(t)' = List!LRUTouch(KeysOf(s), k)
  BY <1>1, NewNodeListed, MovedNodeListed
<1>3. PICK t : IsListing(t)' /\ KeysOf(t)' = List!LRUTouch(KeysOf(s), k)
  BY <1>2
<1>4. ListOrder = KeysOf(s)
  BY <1>1, OrderOfListing
<1>5. ListOrder' = KeysOf(t)'
  BY <1>3, OrderAfterStep
<1> QED BY <1>3, <1>4, <1>5 DEF Listed, List!Touch

\* The list as it was.
LEMMA SameListing ==
  ASSUME ListInv, ListInv', Listed, UNCHANGED <<node, head, tail>>
  PROVE  Listed' /\ ListOrder' = ListOrder
<1>1. PICK s : IsListing(s)
  BY DEF Listed
<1>2. IsListing(s)' /\ KeysOf(s)' = KeysOf(s)
  BY <1>1 DEF IsListing, KeysOf
<1>3. ListOrder = KeysOf(s) /\ ListOrder' = KeysOf(s)'
  BY <1>1, <1>2, OrderOfListing, OrderAfterStep
<1> QED BY <1>2, <1>3 DEF Listed

\* A list without nodes has no keys.
LEMMA NoListing ==
  ASSUME ListInv, NEW s, IsListing(s), DOMAIN node = {}
  PROVE  s = <<>> /\ ListOrder = <<>>
<1>1. Len(s) \in Nat /\ \A x \in 1 .. Len(s) : s[x] \in DOMAIN node
  BY DEF IsListing
<1>2. Len(s) = 0
  BY <1>1
<1>3. s = <<>>
  <2>1. s \in Seq(DOMAIN node)
    BY DEF IsListing
  <2> QED BY <1>2, <2>1, EmptySeq
<1>4. KeysOf(s) = <<>>
  <2>1. KeysOf(s) \in Seq(Keys) /\ Len(KeysOf(s)) = 0
    BY <1>2, ListedKeys
  <2> QED BY <2>1, EmptySeq
<1> QED BY <1>3, <1>4, ListingIsOrder

\* The first node makes a listing of one.
LEMMA InsertFirstTouches ==
  ASSUME ListInv, ListInv', Listed, NEW k \in Keys, NEW a \in Nodes, InsertFirst(a, k)
  PROVE  Listed' /\ List!Touch(k)
<1>1. DOMAIN node = {}
  BY NodeFacts DEF InsertFirst
<1>2. ListOrder = <<>>
  BY <1>1, NoListing DEF Listed
<1>3. head' = a /\ tail' = a /\ victim' = victim
  BY DEF InsertFirst
<1>4. DOMAIN node' = {a} /\ node'[a].key = k
  BY <1>1 DEF InsertFirst, WithNode
<1> DEFINE t == Append(<<>>, a)
<1>5. t \in Seq({a}) /\ Len(t) = 1 /\ t[1] = a
  <2>1. <<>> \in Seq({a}) /\ Len(<<>>) = 0
    BY EmptySeq
  <2> QED BY <2>1, AppendProperties
<1> HIDE DEF t
<1>6. IsListing(t)'
  <2>1. \A x \in 1 .. 1 : x = 1
    OBVIOUS
  <2>2. \A x \in 1 .. 1 - 1 : FALSE
    OBVIOUS
  <2> QED BY <1>3, <1>4, <1>5, <2>1, <2>2 DEF IsListing
<1>7. KeysOf(t)' = List!LRUTouch(<<>>, k)
  <2>1. <<>> \in Seq(Keys) /\ Len(<<>>) = 0
    BY EmptySeq
  <2>2. List!LRUTouch(<<>>, k) = Append(<<>>, k)
    BY DEF List!LRUTouch, List!Range
  <2>3. Append(<<>>, k) \in Seq(Keys) /\ Len(Append(<<>>, k)) = 1 /\ Append(<<>>, k)[1] = k
    BY <2>1, AppendProperties
  <2>4. Append(<<>>, k) = [x \in 1 .. 1 |-> k]
    <3>1. Append(<<>>, k) \in [1 .. 1 -> Keys]
      BY <2>3, LenProperties
    <3> QED BY <2>3, <3>1
  <2>5. KeysOf(t)' = [x \in 1 .. 1 |-> k]
    BY <1>4, <1>5 DEF KeysOf
  <2> QED BY <2>2, <2>4, <2>5
<1>8. ListOrder' = KeysOf(t)'
  BY <1>6, OrderAfterStep
<1> QED BY <1>2, <1>3, <1>6, <1>7, <1>8 DEF Listed, List!Touch

\* The other two insertions link the new node after the tail, and so do the
\* two branches that move a node.
LEMMA InsertLinksLast ==
  ASSUME ListInv, NEW k \in Keys, NEW a \in Nodes, InsertSecond(a, k) \/ InsertLast(a, k)
  PROVE  LinksLast(a, k) /\ victim' = victim
<1>1. /\ tail \in DOMAIN node /\ head \in DOMAIN node /\ node[tail].next = Null
      /\ a \notin DOMAIN node /\ a # Null
      /\ \A m \in DOMAIN node : node[m].key # k /\ node[m].next # a
  <2>1. NewNode(a, k) /\ tail # Null
    BY DEF InsertSecond, InsertLast
  <2>2. a \notin DOMAIN node /\ a # Null /\ k \notin DOMAIN index
    BY <2>1, NewNodeEffect
  <2> QED BY <2>1, <2>2, NodeFacts
<1>2. tail' = a /\ head' = head /\ victim' = victim
  BY DEF InsertSecond, InsertLast
<1>3. /\ DOMAIN node' = DOMAIN node \union {a} /\ node'[a].key = k
      /\ \A m \in DOMAIN node :
           /\ node'[m].key = node[m].key
           /\ node'[m].next = IF m = tail THEN a ELSE node[m].next
  <2>1. CASE InsertSecond(a, k)
    <3>1. head = tail
      BY <2>1 DEF InsertSecond
    <3> DEFINE f == [node EXCEPT ![head].next = a, ![head].prev = Null]
    <3>2. /\ DOMAIN f = DOMAIN node
          /\ \A m \in DOMAIN node :
               f[m].key = node[m].key /\ f[m].next = IF m = tail THEN a ELSE node[m].next
      <4>1. DOMAIN f = DOMAIN node /\ \A m \in DOMAIN node \ {head} : f[m] = node[m]
        OBVIOUS
      <4>2. f[head] = [[node[head] EXCEPT !.next = a] EXCEPT !.prev = Null]
        BY <1>1
      <4> HIDE DEF f
      <4>3. node[head] = [key |-> node[head].key, prev |-> node[head].prev,
                          next |-> node[head].next]
        BY <1>1, NodeFacts
      <4>4. f[head] = [key |-> node[head].key, prev |-> Null, next |-> a]
        BY <4>2, <4>3
      <4>5. f[head].key = node[head].key /\ f[head].next = a
        BY <4>4
      <4> QED BY <3>1, <4>1, <4>5
    <3> HIDE DEF f
    <3>3. node' = WithNode(f, a, k, head, Null)
      BY <2>1 DEF InsertSecond, f
    <3> QED BY <1>1, <3>2, <3>3 DEF WithNode
  <2>2. CASE InsertLast(a, k)
    <3> DEFINE f == [node EXCEPT ![tail].next = a]
    <3>1. /\ DOMAIN f = DOMAIN node
          /\ \A m \in DOMAIN node :
               f[m].key = node[m].key /\ f[m].next = IF m = tail THEN a ELSE node[m].next
      BY <1>1, NodeFacts
    <3> HIDE DEF f
    <3>2. node' = WithNode(f, a, k, tail, Null)
      BY <2>2 DEF InsertLast, f
    <3> QED BY <1>1, <3>1, <3>2 DEF WithNode
  <2> QED BY <2>1, <2>2
<1> QED BY <1>1, <1>2, <1>3 DEF LinksLast

\* Where a moved node was, its neighbours follow one another.
LEMMA MovedLinksLast ==
  ASSUME ListInv, NEW a \in DOMAIN node, a # tail,
         NEW p, p = node[a].prev, NEW n, n = node[a].next, Moved(a, p, n),
         head' = IF a = head THEN n ELSE head, tail' = a
  PROVE  LinksLast(a, node[a].key)
<1>1. /\ tail \in DOMAIN node
      /\ p # Null => node[p].next = a
      /\ \A m \in DOMAIN node : node[m].next = a => m = p
      /\ p # Null => p # tail
      /\ node[tail].next = Null /\ a # Null
  BY Neighbours
<1>2. /\ DOMAIN node' = DOMAIN node
      /\ node'[a].key = node[a].key
      /\ p # Null => node'[p].next = n
      /\ node'[tail].next = a
      /\ \A m \in DOMAIN node \ {a} :
           /\ node'[m].key = node[m].key
           /\ m # p /\ m # tail => node'[m].next = node[m].next
  BY DEF Moved
<1>3. ASSUME NEW m \in DOMAIN node \ {a}
      PROVE  node'[m].next = IF m = tail THEN a
                             ELSE IF node[m].next = a THEN node[a].next
                             ELSE node[m].next
  <2>1. CASE m = tail
    BY <1>2, <2>1
  <2>2. CASE m = p /\ m # tail
    BY <1>1, <1>2, <2>2, NodeFacts
  <2>3. CASE m # p /\ m # tail
    BY <1>1, <1>2, <2>3
  <2> QED BY <2>1, <2>2, <2>3
<1>4. DOMAIN node' = DOMAIN node \union {a} /\ head' = IF a = head THEN node[a].next ELSE head
  BY <1>2
<1>5. \A m \in DOMAIN node \ {a} : node'[m].key = node[m].key
  BY <1>2
<1>6. tail \in DOMAIN node /\ node'[a].key = node[a].key
  BY <1>1, <1>2
<1>7. \A m \in DOMAIN node \ {a} :
        /\ node'[m].key = node[m].key
        /\ node'[m].next = IF m = tail THEN a
                          ELSE IF node[m].next = a THEN node[a].next ELSE node[m].next
  BY <1>3, <1>5
<1> QED BY <1>4, <1>6, <1>7 DEF LinksLast

LEMMA TouchLinksLast ==
  ASSUME ListInv, NEW k \in Keys, TouchHead(k) \/ TouchMiddle(k)
  PROVE  LinksLast(index[k], k) /\ victim' = victim
<1> DEFINE a == index[k]
           p == node[a].prev
           n == node[a].next
<1>1. a \in DOMAIN node /\ a # tail /\ node[a].key = k /\ tail' = a /\ victim' = victim
  BY NodeFacts DEF TouchHead, TouchMiddle
<1>2. Moved(a, p, n) /\ head' = IF a = head THEN n ELSE head
  <2>1. CASE TouchHead(k)
    <3>1. p = Null /\ head' = n /\ node' = MoveHeadToEnd(a, n)
      BY <2>1 DEF TouchHead
    <3> HIDE DEF a, p, n
    <3>2. a = head
      BY <1>1, <3>1, NodeFacts DEF p
    <3>3. Moved(a, Null, n)
      BY <1>1, <3>1, <3>2, MoveHeadMoves DEF n, p
    <3> QED BY <3>1, <3>2, <3>3
  <2>2. CASE TouchMiddle(k)
    <3>1. p # Null /\ head' = head /\ node' = MoveToEnd(a, p, n)
      BY <2>2 DEF TouchMiddle
    <3> HIDE DEF a, p, n
    <3>2. a # head
      BY <1>1, <3>1, NodeFacts DEF p
    <3>3. Moved(a, p, n)
      BY <1>1, <3>1, MoveToEndMoves DEF n, p
    <3> QED BY <3>1, <3>2, <3>3
  <2> QED BY <2>1, <2>2
<1> HIDE DEF a, p, n
<1>3. LinksLast(a, node[a].key)
  BY <1>1, <1>2, MovedLinksLast DEF p, n
<1> QED BY <1>1, <1>3 DEF a

\* Touching the key that is last already makes the order it was.
LEMMA TouchTailTouches ==
  ASSUME ListInv, ListInv', Listed, NEW k \in Keys, TouchTail(k)
  PROVE  Listed' /\ List!Touch(k)
<1>1. UNCHANGED <<node, head, tail, victim>>
  BY DEF TouchTail
<1>2. Listed' /\ ListOrder' = ListOrder
  BY <1>1, SameListing
<1>3. PICK s : IsListing(s)
  BY DEF Listed
<1>4. tail \in DOMAIN node /\ node[tail].key = k
  BY NodeFacts DEF TouchTail
<1>5. s[Len(s)] = tail /\ Len(s) > 0
  BY <1>3, <1>4, ListingFacts
<1>6. /\ KeysOf(s) \in Seq(Keys) /\ Len(KeysOf(s)) = Len(s) /\ Len(s) \in Nat
      /\ \A x \in 1 .. Len(s) : KeysOf(s)[x] = node[s[x]].key
      /\ \A x, y \in 1 .. Len(s) : node[s[x]].key = node[s[y]].key => x = y
  BY <1>3, ListedKeys
<1> DEFINE o == KeysOf(s)
           n == Len(s)
<1> HIDE DEF o, n
<1>7. o \in Seq(Keys) /\ Len(o) = n /\ n \in Nat /\ n \in 1 .. n
  BY <1>5, <1>6 DEF o, n
<1>8. o[n] = k
  BY <1>4, <1>5, <1>6, <1>7 DEF o, n
<1>9. \A x, y \in 1 .. Len(o) : o[x] = o[y] => x = y
  BY <1>6, <1>7 DEF o, n
<1>10. /\ List!LRUTouch(o, k) \in Seq(Keys) /\ Len(List!LRUTouch(o, k)) = n
       /\ \A x \in 1 .. n :
            List!LRUTouch(o, k)[x] = IF x < n THEN o[x] ELSE IF x < n THEN o[x + 1] ELSE k
  <2>1. n \in 1 .. Len(o)
    BY <1>7
  <2>2. /\ List!LRUTouch(o, k) \in Seq(Keys) /\ Len(List!LRUTouch(o, k)) = Len(o)
        /\ \A x \in 1 .. Len(o) :
             List!LRUTouch(o, k)[x] = IF x < n THEN o[x] ELSE IF x < Len(o) THEN o[x + 1] ELSE k
    BY <1>7, <1>8, <1>9, <2>1, TouchedOrder
  <2> QED BY <1>7, <2>2
<1>11. \A x \in 1 .. n : List!LRUTouch(o, k)[x] = o[x]
  BY <1>7, <1>8, <1>10
<1>12. List!LRUTouch(o, k) = o
  BY <1>7, <1>10, <1>11, SeqEqual
<1>13. ListOrder = o
  BY <1>3, OrderOfListing DEF o
<1> QED BY <1>1, <1>2, <1>12, <1>13 DEF List!Touch

LEMMA EvictNothingEvicts ==
  ASSUME ListInv, ListInv', Listed, EvictNothing
  PROVE  Listed' /\ List!Evict
<1>1. UNCHANGED <<node, head, tail>> /\ victim' = EmptyKey
  BY DEF EvictNothing
<1>2. DOMAIN node = {}
  BY NodeFacts DEF EvictNothing
<1>3. ListOrder = <<>>
  BY <1>2, NoListing DEF Listed
<1> QED BY <1>1, <1>3, SameListing DEF List!Evict, List!EvictKey, List!EvictRest

\* evict unlinks the first node of the listing and returns its key.
LEMMA EvictHeadEvicts ==
  ASSUME ListInv, ListInv', Listed, EvictHead
  PROVE  Listed' /\ List!Evict
<1>1. PICK s : IsListing(s)
  BY DEF Listed
<1>2. head \in DOMAIN node /\ tail \in DOMAIN node
  BY NodeFacts DEF EvictHead
<1> DEFINE n == Len(s)
<1>3. /\ n \in Nat /\ n > 0
      /\ s[1] = head /\ s[n] = tail
      /\ \A x \in 1 .. n : s[x] \in DOMAIN node
      /\ \A x, y \in 1 .. n : s[x] = s[y] => x = y
      /\ \A m \in DOMAIN node : \E x \in 1 .. n : s[x] = m
      /\ \A x \in 1 .. n - 1 : node[s[x]].next = s[x + 1]
  BY <1>1, <1>2, ListingFacts
<1>4. /\ DOMAIN node' = DOMAIN node \ {head}
      /\ \A m \in DOMAIN node' : node'[m].key = node[m].key /\ node'[m].next = node[m].next
  BY <1>2, NodeFacts DEF EvictHead, Restrict
<1>5. /\ head' = IF tail = head THEN Null ELSE node[head].next
      /\ tail' = IF tail = head THEN Null ELSE tail
      /\ victim' = node[head].key
  BY DEF EvictHead
<1> DEFINE t == Tail(s)
<1>6. /\ t \in Seq(DOMAIN node) /\ Len(t) = n - 1
      /\ \A x \in 1 .. n - 1 : t[x] = s[x + 1]
  <2>1. s \in Seq(DOMAIN node)
    BY <1>1 DEF IsListing
  <2>2. s # <<>>
    BY <1>3, EmptySeq
  <2> QED BY <2>1, <2>2, HeadTailProperties
<1> HIDE DEF n, t
<1>7. IsListing(t)'
  <2>1. t \in Seq(DOMAIN node')
    <3>1. \A x \in 1 .. n - 1 : t[x] \in DOMAIN node'
      <4>1. ASSUME NEW x \in 1 .. n - 1 PROVE t[x] \in DOMAIN node'
        <5>1. x + 1 \in 1 .. n /\ 1 \in 1 .. n /\ x + 1 # 1
          BY <1>3
        <5>2. s[x + 1] \in DOMAIN node /\ s[x + 1] # head
          BY <1>3, <5>1
        <5> QED BY <1>4, <1>6, <5>2
      <4> QED BY <4>1
    <3>2. t \in [1 .. n - 1 -> DOMAIN node]
      BY <1>6, LenProperties
    <3>3. t \in [1 .. n - 1 -> DOMAIN node'] /\ n - 1 \in Nat
      BY <1>3, <3>1, <3>2
    <3> QED BY <3>3, SeqDef
  <2>2. ASSUME NEW x \in 1 .. n - 1, NEW y \in 1 .. n - 1, t[x] = t[y] PROVE x = y
    <3>1. x + 1 \in 1 .. n /\ y + 1 \in 1 .. n /\ s[x + 1] = s[y + 1]
      BY <1>3, <1>6, <2>2
    <3>2. x + 1 = y + 1
      BY <1>3, <3>1
    <3> QED BY <1>3, <3>2
  <2>3. ASSUME NEW m \in DOMAIN node' PROVE \E x \in 1 .. n - 1 : t[x] = m
    <3>1. m \in DOMAIN node /\ m # head
      BY <1>4
    <3>2. PICK y \in 1 .. n : s[y] = m
      BY <1>3, <3>1
    <3>3. y - 1 \in 1 .. n - 1 /\ (y - 1) + 1 = y
      BY <1>3, <3>1, <3>2
    <3> QED BY <1>6, <3>2, <3>3
  <2>4. ASSUME n - 1 > 0 PROVE t[1] = head' /\ t[n - 1] = tail'
    <3>1. 1 \in 1 .. n - 1 /\ n - 1 \in 1 .. n - 1 /\ 1 + 1 = 2 /\ (n - 1) + 1 = n
          /\ 1 \in 1 .. n /\ n \in 1 .. n /\ n # 1
      BY <1>3, <2>4
    <3>2. t[1] = s[2] /\ t[n - 1] = s[n]
      BY <1>6, <3>1
    <3>3. node[head].next = s[2] /\ head # tail
      BY <1>3, <3>1
    <3> QED BY <1>3, <1>5, <3>2, <3>3
  <2>5. ASSUME NEW x \in 1 .. (n - 1) - 1 PROVE node'[t[x]].next = t[x + 1]
    <3>1. x \in 1 .. n - 1 /\ x + 1 \in 1 .. n - 1 /\ x + 1 \in 1 .. n /\ 1 \in 1 .. n
          /\ x + 1 # 1
      BY <1>3
    <3>2. t[x] = s[x + 1] /\ t[x + 1] = s[x + 1 + 1]
      BY <1>6, <3>1
    <3>3. t[x] \in DOMAIN node'
      BY <1>3, <1>4, <3>1, <3>2
    <3>4. node[s[x + 1]].next = s[x + 1 + 1]
      BY <1>3, <3>1
    <3> QED BY <1>4, <3>2, <3>3, <3>4
  <2> QED BY <1>6, <2>1, <2>2, <2>3, <2>4, <2>5 DEF IsListing
<1>8. /\ KeysOf(s) \in Seq(Keys) /\ Len(KeysOf(s)) = n
      /\ \A x \in 1 .. n : KeysOf(s)[x] = node[s[x]].key
  BY <1>1, ListedKeys DEF n
<1>9. KeysOf(s) # <<>> /\ Head(KeysOf(s)) = node[head].key
  <2>1. KeysOf(s) # <<>>
    BY <1>3, <1>8, EmptySeq
  <2>2. 1 \in 1 .. n
    BY <1>3
  <2>3. KeysOf(s)[1] = node[head].key
    BY <1>3, <1>8, <2>2
  <2>4. Head(KeysOf(s)) = KeysOf(s)[1]
    BY <1>8, <2>1
  <2> QED BY <2>1, <2>3, <2>4
<1>10. KeysOf(t)' = Tail(KeysOf(s))
  <2>1. /\ Tail(KeysOf(s)) \in Seq(Keys) /\ Len(Tail(KeysOf(s))) = n - 1
        /\ \A x \in 1 .. n - 1 : Tail(KeysOf(s))[x] = KeysOf(s)[x + 1]
    BY <1>8, <1>9, HeadTailProperties
  <2>2. ASSUME NEW x \in 1 .. n - 1 PROVE Tail(KeysOf(s))[x] = node'[t[x]].key
    <3>1. x + 1 \in 1 .. n /\ 1 \in 1 .. n /\ x + 1 # 1
      BY <1>3
    <3>2. t[x] \in DOMAIN node' /\ t[x] = s[x + 1]
      BY <1>3, <1>4, <1>6, <3>1
    <3> QED BY <1>4, <1>8, <2>1, <3>1, <3>2
  <2>3. Tail(KeysOf(s)) = [x \in 1 .. n - 1 |-> node'[t[x]].key]
    <3>1. Tail(KeysOf(s)) \in [1 .. n - 1 -> Keys]
      BY <2>1, LenProperties
    <3> QED BY <2>2, <3>1
  <2> QED BY <1>6, <2>3 DEF KeysOf
<1>11. ListOrder = KeysOf(s) /\ ListOrder' = KeysOf(t)'
  BY <1>1, <1>7, OrderOfListing, OrderAfterStep
<1> QED BY <1>5, <1>7, <1>9, <1>10, <1>11 DEF Listed, List!Evict, List!EvictKey, List!EvictRest

\* Each step of the list is a step of the order, or leaves it as it was.
LEMMA StepImplements ==
  ASSUME ListInv, Listed, [Next]_vars
  PROVE  Listed' /\ [List!Next]_<<ListOrder, victim>>
<1>0. ListInv'
  BY NextListInv
<1>1. ASSUME NEW k \in Keys, NEW a \in Nodes,
             InsertFirst(a, k) \/ InsertSecond(a, k) \/ InsertLast(a, k)
      PROVE  Listed' /\ List!Touch(k)
  BY <1>0, <1>1, InsertFirstTouches, InsertLinksLast, LinkedIsTouched
<1>2. ASSUME NEW k \in Keys, TouchHead(k) \/ TouchMiddle(k)
      PROVE  Listed' /\ List!Touch(k)
  <2>1. LinksLast(index[k], k) /\ victim' = victim
    BY <1>2, TouchLinksLast
  <2> DEFINE a == index[k]
  <2> HIDE DEF a
  <2>2. LinksLast(a, k) /\ victim' = victim
    BY <2>1 DEF a
  <2> QED BY <1>0, <2>2, LinkedIsTouched
<1>3. ASSUME NEW k \in Keys, TouchTail(k) PROVE Listed' /\ List!Touch(k)
  BY <1>0, <1>3, TouchTailTouches
<1>4. CASE EvictNothing \/ EvictHead
  BY <1>0, <1>4, EvictNothingEvicts, EvictHeadEvicts DEF List!Next
<1>5. CASE UNCHANGED vars
  <2>1. UNCHANGED <<node, head, tail>> /\ victim' = victim
    BY <1>5 DEF vars
  <2> QED BY <1>0, <2>1, SameListing
<1>6. ASSUME NEW k \in Keys, List!Touch(k) PROVE List!Next
  BY <1>6 DEF List!Next
<1> QED BY <1>1, <1>2, <1>3, <1>4, <1>5, <1>6 DEF Next

LEMMA InitImplements == Init => Listed /\ List!Init
<1> SUFFICES ASSUME Init PROVE Listed /\ List!Init
  OBVIOUS
<1>1. ListInv /\ DOMAIN node = {} /\ victim = EmptyKey
  BY InitListInv DEF Init
<1>2. IsListing(<<>>)
  <2>1. <<>> \in Seq(DOMAIN node) /\ Len(<<>>) = 0
    BY EmptySeq
  <2>2. \A x \in 1 .. 0 : FALSE
    OBVIOUS
  <2>3. \A x \in 1 .. 0 - 1 : FALSE
    OBVIOUS
  <2> QED BY <1>1, <2>1, <2>2, <2>3 DEF IsListing
<1>3. ListOrder = <<>>
  BY <1>1, <1>2, NoListing
<1> QED BY <1>1, <1>2, <1>3 DEF Listed, List!Init

\* The linked list is the recency order of evictor.hh, for any number of keys
\* and nodes: each branch of touch_key moves precisely the touched key to the
\* end, and evict removes and returns the least recently touched one.
THEOREM ListImplementsOrder == Spec => ImplementsEvictor
<1>1. Init => ListInv /\ Listed /\ List!Init
  BY InitListInv, InitImplements
<1>2. ListInv /\ Listed /\ [Next]_vars
        => ListInv' /\ Listed' /\ [List!Next]_<<ListOrder, victim>>
  BY NextListInv, StepImplements
<1> QED BY <1>1, <1>2, PTL DEF Spec, ImplementsEvictor, List!Spec
=============================================================================
