------------------------ MODULE EvictionOrderProofs ------------------------
(***************************************************************************)
(* What the operators of EvictionOrder return, for orders of any length.   *)
(***************************************************************************)
EXTENDS EvictionOrder, Integers, SequenceTheorems, WellFoundedInduction, TLAPS

\* A nonempty set of numbers has a least element.
LEMMA LeastNumber ==
  ASSUME NEW T, T \subseteq Nat, T # {}
  PROVE  \E x \in T : \A y \in T : x <= y
<1>1. \E x \in T : \A y \in T : <<y, x>> \notin OpToRel(<, Nat)
  BY NatLessThanWellFounded, WFMin
<1>2. PICK x \in T : \A y \in T : <<y, x>> \notin OpToRel(<, Nat)
  BY <1>1
<1>3. ASSUME NEW y \in T PROVE x <= y
  <2>1. <<y, x>> \notin OpToRel(<, Nat)
    BY <1>2
  <2>2. ~(y < x)
    BY <2>1 DEF OpToRel
  <2> QED BY <2>2
<1> QED BY <1>3

\* Position finds a key that is in the order (touch_key's table->find).
LEMMA PositionFound ==
  ASSUME NEW S, NEW order \in Seq(S), NEW k \in Range(order)
  PROVE  Position(order, k) \in DOMAIN order /\ order[Position(order, k)] = k
<1> DEFINE Occurs == {i \in DOMAIN order : order[i] = k}
<1>1. Occurs # {} /\ Occurs \subseteq Nat
  BY DEF Range
<1>2. \E i \in Occurs : \A j \in Occurs : i <= j
  BY <1>1, LeastNumber
<1> QED BY <1>2 DEF Position

\* Without its p-th entry, a sequence is still one, every entry it has comes
\* from it, and only the p-th entry can be missing.
LEMMA RemoveAtProperties ==
  ASSUME NEW S, NEW s \in Seq(S), NEW p \in DOMAIN s
  PROVE  /\ RemoveAt(s, p) \in Seq(S)
         /\ Len(RemoveAt(s, p)) = Len(s) - 1
         /\ \A i \in 1 .. Len(s) - 1 :
              RemoveAt(s, p)[i] = IF i < p THEN s[i] ELSE s[i + 1]
<1> DEFINE left == SubSeq(s, 1, p - 1)
           right == SubSeq(s, p + 1, Len(s))
<1>1. p \in 1 .. Len(s) /\ Len(s) \in Nat
  OBVIOUS
<1>2. /\ left \in Seq(S) /\ Len(left) = p - 1
      /\ \A i \in 1 .. p - 1 : left[i] = s[i]
  <2>1. \A i \in 1 .. p - 1 : s[i] \in S
    BY <1>1
  <2> QED BY <1>1, <2>1, SubSeqProperties
<1>3. /\ right \in Seq(S) /\ Len(right) = Len(s) - p
      /\ \A i \in 1 .. Len(s) - p : right[i] = s[p + i]
  <2>1. \A i \in p + 1 .. Len(s) : s[i] \in S
    BY <1>1
  <2>2. /\ right \in Seq(S)
        /\ Len(right) = IF p + 1 <= Len(s) THEN Len(s) - (p + 1) + 1 ELSE 0
        /\ \A i \in 1 .. Len(s) - (p + 1) + 1 : right[i] = s[p + 1 + i - 1]
    BY <1>1, <2>1, SubSeqProperties
  <2> QED BY <1>1, <2>2
<1>4. RemoveAt(s, p) = left \o right
  BY DEF RemoveAt
<1> HIDE DEF left, right
<1>5. /\ left \o right \in Seq(S)
      /\ Len(left \o right) = Len(left) + Len(right)
      /\ \A i \in 1 .. Len(left) + Len(right) :
           (left \o right)[i] = IF i <= Len(left) THEN left[i] ELSE right[i - Len(left)]
  BY <1>2, <1>3, ConcatProperties
<1>6. ASSUME NEW i \in 1 .. Len(s) - 1
      PROVE  (left \o right)[i] = IF i < p THEN s[i] ELSE s[i + 1]
  <2>1. CASE i < p
    <3>1. i \in 1 .. p - 1 /\ i \in 1 .. Len(left) + Len(right) /\ i <= Len(left)
      BY <1>1, <1>2, <1>3, <2>1
    <3> QED BY <1>2, <1>5, <2>1, <3>1
  <2>2. CASE ~(i < p)
    <3>1. i - (p - 1) \in 1 .. Len(s) - p
      BY <1>1, <2>2
    <3>2. right[i - (p - 1)] = s[p + (i - (p - 1))]
      BY <1>3, <3>1
    <3>3. p + (i - (p - 1)) = i + 1
      BY <1>1
    <3>4. right[i - Len(left)] = s[i + 1]
      BY <1>2, <3>2, <3>3
    <3>5. i \in 1 .. Len(left) + Len(right) /\ ~(i <= Len(left))
      BY <1>1, <1>2, <1>3, <2>2
    <3> QED BY <1>5, <2>2, <3>4, <3>5
  <2> QED BY <2>1, <2>2
<1>7. Len(left) + Len(right) = Len(s) - 1
  BY <1>1, <1>2, <1>3
<1> QED BY <1>4, <1>5, <1>6, <1>7

\* evict() returns an entry of the order or "", and loses no other entry.
LEMMA EvictProperties ==
  ASSUME NEW S, NEW order \in Seq(S)
  PROVE  /\ EvictRest(order) \in Seq(S)
         /\ order # <<>> => EvictKey(order) \in S /\ EvictKey(order) \in Range(order)
         /\ Range(order) \subseteq Range(EvictRest(order)) \union {EvictKey(order)}
         /\ IsInjective(order) => IsInjective(EvictRest(order))
<1>1. CASE order = <<>>
  BY <1>1 DEF EvictRest, EvictKey, Range, IsInjective
<1>2. CASE order # <<>>
  <2>1. /\ EvictRest(order) = Tail(order) /\ EvictKey(order) = order[1]
        /\ Tail(order) \in Seq(S) /\ Len(Tail(order)) = Len(order) - 1
        /\ \A i \in 1 .. Len(Tail(order)) : Tail(order)[i] = order[i + 1]
        /\ Len(order) \in Nat \ {0} /\ DOMAIN order = 1 .. Len(order)
        /\ DOMAIN Tail(order) = 1 .. Len(Tail(order))
    BY <1>2, HeadTailProperties, EmptySeq DEF EvictRest, EvictKey
  <2>2. order[1] \in S /\ order[1] \in Range(order)
    BY <2>1 DEF Range
  <2>3. ASSUME NEW i \in DOMAIN order
        PROVE  order[i] \in Range(Tail(order)) \union {order[1]}
    <3>1. CASE i = 1
      BY <3>1
    <3>2. CASE i # 1
      <4>1. i - 1 \in DOMAIN Tail(order) /\ Tail(order)[i - 1] = order[i]
        BY <2>1, <3>2
      <4> QED BY <4>1 DEF Range
    <3> QED BY <3>1, <3>2
  <2>4. Range(order) \subseteq Range(Tail(order)) \union {order[1]}
    BY <2>3 DEF Range
  <2>5. IsInjective(order) => IsInjective(Tail(order))
    BY <2>1 DEF IsInjective
  <2> QED BY <1>2, <2>1, <2>2, <2>4, <2>5
<1> QED BY <1>1, <1>2

\* push adds the key and loses none.
LEMMA FIFOTouchProperties ==
  ASSUME NEW S, NEW order \in Seq(S), NEW k \in S
  PROVE  /\ FIFOTouch(order, k) \in Seq(S)
         /\ Range(FIFOTouch(order, k)) = Range(order) \union {k}
<1>1. /\ Append(order, k) \in Seq(S) /\ Len(Append(order, k)) = Len(order) + 1
      /\ \A i \in 1 .. Len(order) : Append(order, k)[i] = order[i]
      /\ Append(order, k)[Len(order) + 1] = k
  BY AppendProperties
<1>2. DOMAIN Append(order, k) = 1 .. Len(order) + 1 /\ DOMAIN order = 1 .. Len(order)
      /\ Len(order) \in Nat
  BY <1>1
<1>3. ASSUME NEW x \in Range(Append(order, k)) PROVE x \in Range(order) \union {k}
  BY <1>1, <1>2 DEF Range
<1>4. ASSUME NEW x \in Range(order) \union {k} PROVE x \in Range(Append(order, k))
  <2>1. CASE x = k
    BY <1>1, <1>2, <2>1 DEF Range
  <2>2. CASE x \in Range(order)
    BY <1>1, <1>2, <2>2 DEF Range
  <2> QED BY <2>1, <2>2
<1> QED BY <1>1, <1>3, <1>4 DEF FIFOTouch

\* touch_key of LRU_Evictor adds the key, loses none and repeats none.
LEMMA LRUTouchProperties ==
  ASSUME NEW S, NEW order \in Seq(S), NEW k \in S
  PROVE  /\ LRUTouch(order, k) \in Seq(S)
         /\ Range(LRUTouch(order, k)) = Range(order) \union {k}
         /\ IsInjective(order) => IsInjective(LRUTouch(order, k))
<1>1. CASE k \notin Range(order)
  <2>1. LRUTouch(order, k) = FIFOTouch(order, k)
    BY <1>1 DEF LRUTouch, FIFOTouch
  <2>2. ASSUME IsInjective(order) PROVE IsInjective(Append(order, k))
    <3>1. /\ Len(Append(order, k)) = Len(order) + 1
          /\ Append(order, k) \in Seq(S)
          /\ \A i \in 1 .. Len(order) : Append(order, k)[i] = order[i]
          /\ Append(order, k)[Len(order) + 1] = k
      BY AppendProperties
    <3>2. /\ DOMAIN Append(order, k) = 1 .. Len(order) + 1
          /\ DOMAIN order = 1 .. Len(order) /\ Len(order) \in Nat
      BY <3>1
    <3>3. \A i \in 1 .. Len(order) : order[i] # k
      BY <1>1, <3>2 DEF Range
    <3> QED BY <2>2, <3>1, <3>2, <3>3 DEF IsInjective
  <2> QED BY <2>1, <2>2, FIFOTouchProperties DEF FIFOTouch
<1>2. CASE k \in Range(order)
  <2> DEFINE p == Position(order, k)
             r == RemoveAt(order, p)
  <2>1. p \in DOMAIN order /\ order[p] = k
    BY <1>2, PositionFound
  <2>2. /\ r \in Seq(S) /\ Len(r) = Len(order) - 1
        /\ \A i \in 1 .. Len(order) - 1 :
             r[i] = IF i < p THEN order[i] ELSE order[i + 1]
    BY <2>1, RemoveAtProperties
  <2>3. LRUTouch(order, k) = FIFOTouch(r, k)
    BY <1>2 DEF LRUTouch, FIFOTouch
  <2> HIDE DEF r, p
  <2>4. /\ DOMAIN r = 1 .. Len(order) - 1 /\ DOMAIN order = 1 .. Len(order)
        /\ Len(order) \in Nat
    BY <2>2
  <2>5. Range(r) \subseteq Range(order)
    <3>1. ASSUME NEW i \in DOMAIN r PROVE \E j \in DOMAIN order : r[i] = order[j]
      <4>1. i \in DOMAIN order /\ i + 1 \in DOMAIN order
        BY <2>4
      <4> QED BY <2>2, <2>4, <4>1
    <3> QED BY <3>1 DEF Range
  <2>6. ASSUME NEW i \in DOMAIN order, order[i] # k PROVE order[i] \in Range(r)
    <3>1. CASE i < p
      <4>1. i \in DOMAIN r /\ r[i] = order[i]
        BY <2>1, <2>2, <2>4, <3>1
      <4> QED BY <4>1 DEF Range
    <3>2. CASE i > p
      <4>1. i - 1 \in DOMAIN r /\ r[i - 1] = order[i]
        BY <2>1, <2>2, <2>4, <3>2
      <4> QED BY <4>1 DEF Range
    <3> QED BY <2>1, <2>4, <2>6, <3>1, <3>2
  <2>7. Range(r) \union {k} = Range(order) \union {k}
    BY <2>5, <2>6 DEF Range
  <2>8. /\ FIFOTouch(r, k) \in Seq(S)
        /\ Range(FIFOTouch(r, k)) = Range(r) \union {k}
    BY <2>2, FIFOTouchProperties
  <2>9. ASSUME IsInjective(order) PROVE IsInjective(Append(r, k))
    <3>1. /\ Len(Append(r, k)) = Len(r) + 1
          /\ Append(r, k) \in Seq(S)
          /\ \A i \in 1 .. Len(r) : Append(r, k)[i] = r[i]
          /\ Append(r, k)[Len(r) + 1] = k
      BY <2>2, AppendProperties
    <3>2. \A i \in 1 .. Len(r) : r[i] # k
      BY <2>1, <2>2, <2>4, <2>9 DEF IsInjective
    <3>3. IsInjective(r)
      BY <2>1, <2>2, <2>4, <2>9, SMTT(30) DEF IsInjective
    <3>4. DOMAIN Append(r, k) = 1 .. Len(r) + 1 /\ DOMAIN r = 1 .. Len(r) /\ Len(r) \in Nat
      BY <2>2, <3>1
    <3> QED BY <3>1, <3>2, <3>3, <3>4 DEF IsInjective
  <2> QED BY <2>3, <2>7, <2>8, <2>9 DEF FIFOTouch
<1> QED BY <1>1, <1>2

\* Evicting until "" is returned leaves an order that was its end, and none at
\* all when "" is not a key.
LEMMA DrainedProperties ==
  ASSUME NEW S, NEW order \in Seq(S)
  PROVE  /\ Drained(order) \in Seq(S)
         /\ IsInjective(order) => IsInjective(Drained(order))
         /\ EmptyKey \notin S => Drained(order) = <<>>
<1>1. CASE EmptyKey \notin Range(order)
  BY <1>1 DEF Drained, IsInjective
<1>2. CASE EmptyKey \in Range(order)
  <2> DEFINE p == Position(order, EmptyKey)
             rest == SubSeq(order, p + 1, Len(order))
  <2>1. p \in 1 .. Len(order) /\ Len(order) \in Nat
    BY <1>2, PositionFound
  <2>2. \A i \in p + 1 .. Len(order) : order[i] \in S
    BY <2>1
  <2>3. /\ rest \in Seq(S)
        /\ Len(rest) = IF p + 1 <= Len(order) THEN Len(order) - (p + 1) + 1 ELSE 0
        /\ \A i \in 1 .. Len(order) - (p + 1) + 1 : rest[i] = order[p + 1 + i - 1]
    BY <2>1, <2>2, SubSeqProperties
  <2>4. Drained(order) = rest
    BY <1>2 DEF Drained
  <2>5. EmptyKey \in S
    BY <1>2 DEF Range
  <2> HIDE DEF p, rest
  <2>6. ASSUME IsInjective(order) PROVE IsInjective(rest)
    <3>0. Len(rest) = Len(order) - p
      BY <2>1, <2>3
    <3>1. DOMAIN order = 1 .. Len(order) /\ DOMAIN rest = 1 .. Len(order) - p
      BY <2>3, <3>0
    <3>2. ASSUME NEW i \in DOMAIN rest
          PROVE  p + i \in DOMAIN order /\ rest[i] = order[p + i]
      <4>1. i \in 1 .. Len(order) - p
        BY <3>1
      <4>2. rest[i] = order[p + 1 + i - 1]
        <5>1. i \in 1 .. Len(order) - (p + 1) + 1
          BY <2>1, <4>1
        <5> QED BY <2>3, <5>1
      <4>3. p + 1 + i - 1 = p + i /\ p + i \in 1 .. Len(order)
        BY <2>1, <4>1
      <4> QED BY <3>1, <4>2, <4>3
    <3>3. ASSUME NEW i \in DOMAIN rest, NEW j \in DOMAIN rest, rest[i] = rest[j]
          PROVE  i = j
      <4>1. p + i = p + j
        BY <2>6, <3>2, <3>3 DEF IsInjective
      <4>2. i \in Nat /\ j \in Nat /\ p \in Nat
        BY <2>1, <3>1
      <4> QED BY <4>1, <4>2
    <3> QED BY <3>3 DEF IsInjective
  <2> QED BY <2>3, <2>4, <2>5, <2>6
<1> QED BY <1>1, <1>2

\* What LRUTouch makes of an order that has no key twice: a known key leaves its
\* place, those behind it move up, and it comes last.
LEMMA LRUTouchMoves ==
  ASSUME NEW S, NEW o \in Seq(S), NEW k \in S,
         \A x, y \in 1 .. Len(o) : o[x] = o[y] => x = y
  PROVE  /\ LRUTouch(o, k) \in Seq(S)
         /\ (\A i \in 1 .. Len(o) : o[i] # k) => LRUTouch(o, k) = Append(o, k)
         /\ \A p \in 1 .. Len(o) : o[p] = k =>
              /\ Len(LRUTouch(o, k)) = Len(o)
              /\ \A i \in 1 .. Len(o) :
                   LRUTouch(o, k)[i] =
                     IF i < p THEN o[i] ELSE IF i < Len(o) THEN o[i + 1] ELSE k
<1>0. DOMAIN o = 1 .. Len(o)
  OBVIOUS
<1>1. Len(o) \in Nat
  OBVIOUS
<1>2. CASE \A i \in 1 .. Len(o) : o[i] # k
  <2>1. k \notin Range(o)
    BY <1>0, <1>2 DEF Range
  <2>2. LRUTouch(o, k) = Append(o, k)
    BY <2>1 DEF LRUTouch
  <2> QED BY <1>2, <2>2, AppendProperties
<1>3. ASSUME NEW p \in 1 .. Len(o), o[p] = k
      PROVE  /\ LRUTouch(o, k) \in Seq(S)
             /\ Len(LRUTouch(o, k)) = Len(o)
             /\ \A i \in 1 .. Len(o) :
                  LRUTouch(o, k)[i] =
                    IF i < p THEN o[i] ELSE IF i < Len(o) THEN o[i + 1] ELSE k
  <2> DEFINE r == RemoveAt(o, p)
  <2>1. Position(o, k) = p
    BY <1>0, <1>3 DEF Position
  <2>2. k \in Range(o)
    BY <1>0, <1>3 DEF Range
  <2>4. LRUTouch(o, k) = Append(r, k)
    BY <2>1, <2>2 DEF LRUTouch
  <2>5. /\ r \in Seq(S) /\ Len(r) = Len(o) - 1
        /\ \A i \in 1 .. Len(o) - 1 : r[i] = IF i < p THEN o[i] ELSE o[i + 1]
    <3>1. p \in DOMAIN o
      BY <1>0
    <3> QED BY <3>1, RemoveAtProperties
  <2> HIDE DEF r
  <2>6. /\ Append(r, k) \in Seq(S) /\ Len(Append(r, k)) = Len(o)
        /\ \A i \in 1 .. Len(o) - 1 : Append(r, k)[i] = r[i]
        /\ Append(r, k)[Len(o)] = k
    BY <1>1, <2>5, AppendProperties
  <2>7. ASSUME NEW i \in 1 .. Len(o)
        PROVE  Append(r, k)[i] = IF i < p THEN o[i] ELSE IF i < Len(o) THEN o[i + 1] ELSE k
    <3>1. CASE i = Len(o)
      BY <1>1, <2>6, <3>1
    <3>2. CASE i # Len(o)
      <4>1. i \in 1 .. Len(o) - 1 /\ i < Len(o)
        BY <1>1, <3>2
      <4> QED BY <2>5, <2>6, <4>1
    <3> QED BY <3>1, <3>2
  <2> QED BY <2>4, <2>6, <2>7
<1> QED BY <1>2, <1>3
=============================================================================
