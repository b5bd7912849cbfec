-------------------------- MODULE WireCodecProofs --------------------------
(***************************************************************************)
(* Theorems about the way of keys and values between client and server,    *)
(* for texts of any characters and any length and for any limits.          *)
(***************************************************************************)
EXTENDS WireCodec, SequenceTheorems, FiniteSetTheorems, WellFoundedInduction, TLAPS

\* The characters are strings of one letter, or the words of the JSON.  That these
\* literals are in STRING already is not known to the provers.
Symbols == {Slash, Quote, Backslash, Brace, Space, Byte, "{", "key", ":", ",", "value", "a"}
Chars == STRING \union Symbols
Texts == Seq(Chars)
Ops == {"none", "set", "get", "del", "space_used", "reset"}
Statuses == {"none", "closed", "200", "404"}

\* The texts are texts, and a call waits for nothing it has not sent.
TextsInv ==
  /\ IsFiniteSet(DOMAIN contents)
  /\ \A k \in DOMAIN contents : k \in Texts /\ contents[k] \in Texts
  /\ call \in [op : Ops, key : Texts, val : Texts]
  /\ reply.status \in Statuses
  /\ reply.status = "none" <=> reply = NoReply
  /\ call = NoCall <=> call.op = "none"
  /\ call = NoCall => reply = NoReply

\* PUT cuts its key at a slash.
KeysInv == \A k \in DOMAIN contents : ~Has(k, Slash)

----------------------------------------------------------------------------
(* Texts                                                                   *)

LEMMA Characters ==
  /\ <<>> \in Texts /\ Seq(STRING) \subseteq Texts
  /\ \A c \in Chars : <<c>> \in Texts /\ Len(<<c>>) = 1 /\ <<c>>[1] = c
  /\ \A t \in Texts : Len(t) \in Nat /\ DOMAIN t = 1 .. Len(t) /\ \A i \in 1 .. Len(t) : t[i] \in Chars
  /\ Symbols \subseteq Chars
<1>1. Seq(STRING) \subseteq Texts
  BY SeqMonotonic DEF Texts, Chars
<1>2. ASSUME NEW c \in Chars PROVE <<c>> \in Texts /\ Len(<<c>>) = 1 /\ <<c>>[1] = c
  BY DEF Texts
<1>3. ASSUME NEW t \in Texts
      PROVE  Len(t) \in Nat /\ DOMAIN t = 1 .. Len(t) /\ \A i \in 1 .. Len(t) : t[i] \in Chars
  BY LenProperties DEF Texts
<1> QED BY <1>1, <1>2, <1>3, EmptySeq DEF Texts, Chars

\* Two texts joined.
LEMMA Joined ==
  ASSUME NEW s \in Texts, NEW t \in Texts
  PROVE  /\ s \o t \in Texts /\ Len(s \o t) = Len(s) + Len(t)
         /\ \A i \in 1 .. Len(s) : (s \o t)[i] = s[i]
         /\ \A i \in 1 .. Len(t) : (s \o t)[Len(s) + i] = t[i]
<1>1. Len(s) \in Nat /\ Len(t) \in Nat
  BY Characters
<1>2. /\ s \o t \in Texts /\ Len(s \o t) = Len(s) + Len(t)
      /\ \A i \in 1 .. Len(s) + Len(t) :
           (s \o t)[i] = IF i <= Len(s) THEN s[i] ELSE t[i - Len(s)]
  BY ConcatProperties DEF Texts
<1>3. ASSUME NEW i \in 1 .. Len(s) PROVE (s \o t)[i] = s[i]
  BY <1>1, <1>2
<1>4. ASSUME NEW i \in 1 .. Len(t) PROVE (s \o t)[Len(s) + i] = t[i]
  <2>1. /\ Len(s) + i \in 1 .. Len(s) + Len(t) /\ ~(Len(s) + i <= Len(s))
        /\ (Len(s) + i) - Len(s) = i
    BY <1>1
  <2> QED BY <1>2, <2>1
<1> QED BY <1>2, <1>3, <1>4

\* A cut out of a text.
LEMMA CutOut ==
  ASSUME NEW t \in Texts, NEW m \in 1 .. Len(t) + 1, NEW n \in m - 1 .. Len(t)
  PROVE  /\ SubSeq(t, m, n) \in Texts /\ Len(SubSeq(t, m, n)) = n + 1 - m
         /\ \A i \in 1 .. n + 1 - m : SubSeq(t, m, n)[i] = t[m - 1 + i]
<1>0. Len(t) \in Nat /\ \A i \in 1 .. Len(t) : t[i] \in Chars
  BY Characters
<1>1. m \in Int /\ n \in Int /\ \A i \in m .. n : t[i] \in Chars
  BY <1>0
<1>2. /\ SubSeq(t, m, n) \in Texts
      /\ Len(SubSeq(t, m, n)) = IF m <= n THEN n - m + 1 ELSE 0
      /\ \A i \in 1 .. n - m + 1 : SubSeq(t, m, n)[i] = t[m + i - 1]
  BY <1>1, SubSeqProperties DEF Texts
<1>3. n - m + 1 = n + 1 - m /\ \A i \in 1 .. n + 1 - m : m + i - 1 = m - 1 + i
  BY <1>0
<1>4. (IF m <= n THEN n - m + 1 ELSE 0) = n + 1 - m
  BY <1>0
<1> QED BY <1>2, <1>3, <1>4

\* A set of numbers has a least one, which Min returns.
LEMMA LeastOfNumbers ==
  ASSUME NEW T, T \subseteq Nat, T # {}
  PROVE  Min(T) \in T /\ \A y \in T : Min(T) <= y
<1>1. PICK x \in T : \A y \in T : <<y, x>> \notin OpToRel(<, Nat)
  BY NatLessThanWellFounded, WFMin
<1>2. ASSUME NEW y \in T PROVE x <= y
  <2>1. <<y, x>> \notin OpToRel(<, Nat)
    BY <1>1
  <2>2. ~(y < x)
    BY <2>1 DEF OpToRel
  <2> QED BY <2>2
<1> QED BY <1>1, <1>2 DEF Min

----------------------------------------------------------------------------
(* Sizes                                                                   *)

LEMMA SizeOfText ==
  ASSUME NEW t \in Texts
  PROVE  Size(t) \in Nat
<1>1. Len(t) \in Nat /\ DOMAIN t = 1 .. Len(t)
  BY Characters
<1>2. ASSUME NEW c PROVE Occurs(t, c) \in Nat
  <2>1. IsFiniteSet(1 .. Len(t))
    BY <1>1, FS_Interval
  <2>2. IsFiniteSet({i \in DOMAIN t : t[i] = c})
    BY <1>1, <2>1, FS_Subset
  <2> QED BY <2>2, FS_CardinalityType DEF Occurs
<1>3. Occurs(t, "value") \in Nat /\ Occurs(t, "key") \in Nat
  BY <1>2
<1> QED BY <1>1, <1>3 DEF Size, Bytes

LEMMA TotalOfEntries ==
  ASSUME TextsInv, NEW ks \in SUBSET DOMAIN contents
  PROVE  Total(ks) \in Nat /\ Total({}) = 0
<1> DEFINE F(k) == {k} \X (1 .. Size(contents[k]))
           f == [k \in ks |-> F(k)]
           S == {F(k) : k \in ks}
<1>1. IsFiniteSet(ks)
  BY FS_Subset DEF TextsInv
<1>2. ASSUME NEW k \in ks PROVE IsFiniteSet(F(k))
  <2>1. Size(contents[k]) \in Nat
    BY SizeOfText DEF TextsInv
  <2>2. ASSUME NEW n \in Nat PROVE IsFiniteSet(1 .. n)
    BY FS_Interval
  <2>3. IsFiniteSet(1 .. Size(contents[k])) /\ IsFiniteSet({k})
    BY <2>1, <2>2, FS_Singleton
  <2> QED BY <2>3, FS_Product
<1>3. f \in Surjection(ks, S)
  <2> HIDE DEF F
  <2> QED BY DEF Surjection
<1>4. IsFiniteSet(S)
  <2> HIDE DEF S, f
  <2> QED BY <1>1, <1>3, FS_Surjection
<1>5. \A T \in S : IsFiniteSet(T)
  BY <1>2
<1>6. IsFiniteSet(UNION S)
  <2> HIDE DEF S
  <2> QED BY <1>4, <1>5, FS_UNION
<1>7. Total(ks) \in Nat
  BY <1>6, FS_CardinalityType DEF Total
<1>8. Total({}) = Cardinality({})
  <2>1. UNION {F(k) : k \in {}} = {}
    OBVIOUS
  <2> QED BY <2>1 DEF Total
<1> QED BY <1>7, <1>8, FS_EmptySet

----------------------------------------------------------------------------
(* Targets                                                                 *)

LEMMA TailOfJoined ==
  ASSUME NEW t \in Texts
  PROVE  Tail(<<Slash>> \o t) = t
<1> DEFINE s == <<Slash>> \o t
<1>1. <<Slash>> \in Texts /\ Len(<<Slash>>) = 1 /\ Len(t) \in Nat
  BY Characters DEF Symbols
<1>2. /\ s \in Texts /\ Len(s) = 1 + Len(t)
      /\ \A i \in 1 .. Len(t) : s[1 + i] = t[i]
  BY <1>1, Joined
<1> HIDE DEF s
<1>3. s # <<>>
  BY <1>1, <1>2, EmptySeq
<1>4. /\ Tail(s) \in Texts /\ Len(Tail(s)) = Len(t)
      /\ \A i \in 1 .. Len(t) : Tail(s)[i] = s[i + 1]
  BY <1>1, <1>2, <1>3, HeadTailProperties DEF Texts
<1>5. \A i \in 1 .. Len(t) : Tail(s)[i] = t[i]
  BY <1>1, <1>2, <1>4
<1>6. Tail(s) = t
  BY <1>4, <1>5, SeqEqual DEF Texts
<1> QED BY <1>6 DEF s

\* The path of a get or a del is its key; that of a set is cut at the first
\* slash, in or behind its key.
LEMMA PathOfKey ==
  ASSUME TextsInv, call.op \in {"get", "del"}
  PROVE  Path = call.key
<1>1. Target = <<Slash>> \o call.key
  BY DEF Target
<1>2. call.key \in Texts
  BY DEF TextsInv
<1>3. Tail(<<Slash>> \o call.key) = call.key
  BY <1>2, TailOfJoined
<1> QED BY <1>1, <1>3 DEF Path

LEMMA PathOfSet ==
  ASSUME TextsInv, call.op = "set"
  PROVE  /\ Path \in Texts /\ Len(Path) = Len(call.key) + 1 + Len(call.val)
         /\ \A i \in 1 .. Len(call.key) : Path[i] = call.key[i]
         /\ Path[Len(call.key) + 1] = Slash
         /\ \A i \in 1 .. Len(call.val) : Path[Len(call.key) + 1 + i] = call.val[i]
<1> DEFINE k == call.key
           v == call.val
           u == k \o <<Slash>>
           p == u \o v
<1>1. /\ k \in Texts /\ v \in Texts /\ <<Slash>> \in Texts /\ Len(<<Slash>>) = 1
      /\ <<Slash>>[1] = Slash /\ Len(k) \in Nat /\ Len(v) \in Nat
  BY Characters DEF TextsInv, Symbols
<1>2. Target = ((<<Slash>> \o k) \o <<Slash>>) \o v
  BY DEF Target
<1> HIDE DEF k, v
<1>3. /\ u \in Texts /\ Len(u) = Len(k) + 1
      /\ \A i \in 1 .. Len(k) : u[i] = k[i]
      /\ \A i \in 1 .. 1 : u[Len(k) + i] = <<Slash>>[i]
  BY <1>1, Joined
<1>4. u[Len(k) + 1] = Slash
  BY <1>1, <1>3
<1>5. Target = <<Slash>> \o p
  <2>1. (<<Slash>> \o k) \o <<Slash>> = <<Slash>> \o u
    BY <1>1, ConcatAssociative DEF Texts
  <2>2. (<<Slash>> \o u) \o v = <<Slash>> \o p
    BY <1>1, <1>3, ConcatAssociative DEF Texts
  <2> QED BY <1>2, <2>1, <2>2
<1> HIDE DEF u
<1>6. /\ p \in Texts /\ Len(p) = Len(k) + 1 + Len(v)
      /\ \A i \in 1 .. Len(k) + 1 : p[i] = u[i]
      /\ \A i \in 1 .. Len(v) : p[Len(k) + 1 + i] = v[i]
  <2>1. /\ p \in Texts /\ Len(p) = Len(u) + Len(v)
        /\ \A i \in 1 .. Len(u) : p[i] = u[i]
        /\ \A i \in 1 .. Len(v) : p[Len(u) + i] = v[i]
    BY <1>1, <1>3, Joined
  <2> HIDE DEF p
  <2> QED BY <1>3, <2>1
<1> HIDE DEF p
<1>7. \A i \in 1 .. Len(k) : p[i] = k[i]
  BY <1>1, <1>3, <1>6
<1>8. p[Len(k) + 1] = Slash
  BY <1>1, <1>4, <1>6
<1>9. Path = p
  BY <1>5, <1>6, TailOfJoined DEF Path
<1> QED BY <1>6, <1>7, <1>8, <1>9 DEF k, v

\* The server's key and value are the client's exactly when there is no slash in
\* the key; its key never has one.
LEMMA PutKeyAndValue ==
  ASSUME TextsInv, call.op = "set"
  PROVE  /\ PutKey \in Texts /\ PutValue \in Texts
         /\ ~Has(PutKey, Slash)
         /\ ~Has(call.key, Slash) => PutKey = call.key /\ PutValue = call.val
<1> DEFINE k == call.key
           v == call.val
           p == Path
           slashes == {i \in DOMAIN p : p[i] = Slash}
           m == Split(p)
<1>1. /\ p \in Texts /\ Len(p) = Len(k) + 1 + Len(v) /\ DOMAIN p = 1 .. Len(p)
      /\ \A i \in 1 .. Len(k) : p[i] = k[i]
      /\ p[Len(k) + 1] = Slash
      /\ \A i \in 1 .. Len(v) : p[Len(k) + 1 + i] = v[i]
      /\ \A i \in 1 .. Len(p) : p[i] \in Chars
  BY PathOfSet, Characters
<1>2. k \in Texts /\ v \in Texts /\ Len(k) \in Nat /\ Len(v) \in Nat /\ DOMAIN k = 1 .. Len(k)
  BY Characters DEF TextsInv
<1> HIDE DEF k, v, p
<1>3. Len(k) + 1 \in slashes /\ slashes \subseteq Nat
  BY <1>1, <1>2
<1>4. m \in slashes /\ \A y \in slashes : m <= y
  BY <1>3, LeastOfNumbers DEF Split
<1>5. m \in 1 .. Len(k) + 1 /\ p[m] = Slash /\ \A i \in 1 .. m - 1 : p[i] # Slash
  BY <1>1, <1>2, <1>3, <1>4
<1> HIDE DEF m
<1>6. /\ SubSeq(p, 1, m - 1) \in Texts /\ Len(SubSeq(p, 1, m - 1)) = m - 1
      /\ \A i \in 1 .. m - 1 : SubSeq(p, 1, m - 1)[i] = p[i]
  <2>1. 1 \in 1 .. Len(p) + 1 /\ m - 1 \in 1 - 1 .. Len(p) /\ (m - 1) + 1 - 1 = m - 1
    BY <1>1, <1>2, <1>5
  <2>2. \A i \in 1 .. m - 1 : 1 - 1 + i = i
    BY <1>5
  <2> QED BY <1>1, <2>1, <2>2, CutOut
<1>7. /\ SubSeq(p, m + 1, Len(p)) \in Texts /\ Len(SubSeq(p, m + 1, Len(p))) = Len(p) - m
      /\ \A i \in 1 .. Len(p) - m : SubSeq(p, m + 1, Len(p))[i] = p[m + i]
  <2>1. /\ m + 1 \in 1 .. Len(p) + 1 /\ Len(p) \in (m + 1) - 1 .. Len(p)
        /\ Len(p) + 1 - (m + 1) = Len(p) - m
    BY <1>1, <1>2, <1>5
  <2>2. (m + 1) - 1 = m
    BY <1>5
  <2> QED BY <1>1, <2>1, <2>2, CutOut
<1>8. PutKey = SubSeq(p, 1, m - 1) /\ PutValue = SubSeq(p, m + 1, Len(p))
  BY DEF PutKey, PutValue, m, p
<1>9. ~Has(PutKey, Slash)
  <2>1. DOMAIN PutKey = 1 .. m - 1
    BY <1>6, <1>8, Characters
  <2> QED BY <1>5, <1>6, <1>8, <2>1 DEF Has
<1>10. ASSUME ~Has(k, Slash) PROVE PutKey = k /\ PutValue = v
  <2>1. m = Len(k) + 1
    BY <1>1, <1>2, <1>5, <1>10 DEF Has
  <2>2. Len(PutKey) = Len(k) /\ \A i \in 1 .. Len(k) : PutKey[i] = k[i]
    BY <1>1, <1>2, <1>6, <1>8, <2>1
  <2>3. Len(PutValue) = Len(v) /\ \A i \in 1 .. Len(v) : PutValue[i] = v[i]
    BY <1>1, <1>2, <1>7, <1>8, <2>1
  <2>4. PutKey \in Texts /\ PutValue \in Texts
    BY <1>6, <1>7, <1>8
  <2> QED BY <1>2, <2>2, <2>3, <2>4, SeqEqual DEF Texts
<1> QED BY <1>6, <1>7, <1>8, <1>9, <1>10 DEF k, v

----------------------------------------------------------------------------
(* What a step makes of the texts                                          *)

LEMMA TextsInit == Init => TextsInv /\ KeysInv
<1> SUFFICES ASSUME Init PROVE TextsInv /\ KeysInv
  OBVIOUS
<1>1. DOMAIN contents = {} /\ IsFiniteSet({})
  BY FS_EmptySet DEF Init
<1>2. <<>> \in Texts
  BY Characters
<1> QED BY <1>1, <1>2 DEF Init, TextsInv, KeysInv, NoCall, NoReply, Ops, Statuses

\* A client's step keeps them.
LEMMA CallKeepsTexts ==
  ASSUME TextsInv,
         NEW op \in Ops \ {"none"}, NEW k \in Texts, NEW v \in Texts, Call(op, k, v)
  PROVE  TextsInv'
BY DEF TextsInv, Call, cacheVars, NoCall

LEMMA ReturnKeepsTexts == TextsInv /\ Return => TextsInv'
BY Characters DEF TextsInv, Return, cacheVars, NoCall, NoReply, Ops, Statuses

\* A server that answers the call under way.
LEMMA AnswerKeepsTexts ==
  ASSUME TextsInv, call.op # "none", UNCHANGED call,
         NEW status \in Statuses \ {"none"}, NEW body, reply' = Reply(status, body),
         IsFiniteSet(DOMAIN contents)',
         \A k \in DOMAIN contents' : k \in Texts /\ contents'[k] \in Texts
  PROVE  TextsInv'
<1>1. reply'.status = status /\ reply' # NoReply
  BY DEF Reply, NoReply
<1> QED BY <1>1 DEF TextsInv

\* A PUT that stores its value, which fits the cache on its own.
LEMMA PutEntries ==
  ASSUME TextsInv, PutStored
  PROVE  /\ PutKey \in DOMAIN contents' /\ contents'[PutKey] = PutValue
         /\ \A k \in DOMAIN contents' \ {PutKey} : k \in DOMAIN contents /\ contents'[k] = contents[k]
         /\ IsFiniteSet(DOMAIN contents')
         /\ Size(PutValue) <= MaxMem
<1>1. PICK kept \in SUBSET Others :
        /\ ~NoRoom(kept)
        /\ contents' = [k \in kept \union {PutKey} |-> IF k = PutKey THEN PutValue ELSE contents[k]]
  BY DEF PutStored
<1>2. kept \subseteq DOMAIN contents \ {PutKey}
  BY DEF Others
<1>3. IsFiniteSet(kept)
  BY <1>2, FS_Subset DEF TextsInv
<1>4. DOMAIN contents' = kept \union {PutKey} /\ IsFiniteSet(kept \union {PutKey})
  BY <1>1, <1>3, FS_AddElement
<1>5. \A k \in DOMAIN contents' : contents'[k] = IF k = PutKey THEN PutValue ELSE contents[k]
  BY <1>1, <1>4
<1>6. Size(PutValue) <= MaxMem
  <2>1. Total(kept) \in Nat
    BY <1>2, TotalOfEntries
  <2>2. PutValue \in Texts
    BY PutKeyAndValue DEF PutStored, Asked
  <2>3. Size(PutValue) \in Nat
    BY <2>2, SizeOfText
  <2> QED BY <1>1, <2>1, <2>3, RoomAssumption DEF NoRoom
<1> QED BY <1>2, <1>4, <1>5, <1>6

LEMMA StepTexts == TextsInv /\ KeysInv /\ [Next]_vars => TextsInv' /\ KeysInv'
<1> SUFFICES ASSUME TextsInv, KeysInv, [Next]_vars PROVE TextsInv' /\ KeysInv'
  OBVIOUS
<1>0. <<>> \in Texts /\ KeyTexts \subseteq Texts /\ ValueTexts \subseteq Texts
  BY Characters, TextsAssumption
<1>1. ASSUME NEW k \in KeyTexts, NEW v \in ValueTexts, Call("set", k, v)
      PROVE  TextsInv' /\ KeysInv'
  BY <1>0, <1>1, CallKeepsTexts DEF Ops, KeysInv, Call, cacheVars
<1>2. ASSUME NEW op \in {"get", "del"}, NEW k \in KeyTexts, Call(op, k, <<>>)
      PROVE  TextsInv' /\ KeysInv'
  BY <1>0, <1>2, CallKeepsTexts DEF Ops, KeysInv, Call, cacheVars
<1>3. ASSUME NEW op \in {"space_used", "reset"}, Call(op, <<>>, <<>>)
      PROVE  TextsInv' /\ KeysInv'
  BY <1>0, <1>3, CallKeepsTexts DEF Ops, KeysInv, Call, cacheVars
<1>4. CASE PutStored
  <2>1. call.op = "set" /\ UNCHANGED call /\ reply' = Reply("200", <<>>)
    BY <1>4 DEF PutStored, Asked, Answers
  <2>2. /\ \A k \in DOMAIN contents' \ {PutKey} : k \in DOMAIN contents /\ contents'[k] = contents[k]
        /\ contents'[PutKey] = PutValue /\ IsFiniteSet(DOMAIN contents')
    BY <1>4, PutEntries
  <2>3. PutKey \in Texts /\ PutValue \in Texts /\ ~Has(PutKey, Slash)
    BY <2>1, PutKeyAndValue
  <2>4. \A k \in DOMAIN contents' : k \in Texts /\ contents'[k] \in Texts
    BY <2>2, <2>3 DEF TextsInv
  <2>5. TextsInv'
    BY <2>1, <2>2, <2>4, AnswerKeepsTexts DEF Statuses
  <2>6. KeysInv'
    BY <2>2, <2>3 DEF KeysInv, Has
  <2> QED BY <2>5, <2>6
<1>14. CASE PutRefused
  BY <1>14, AnswerKeepsTexts DEF PutRefused, Asked, Answers, cacheVars, Statuses, TextsInv, KeysInv
<1>15. CASE PutAborts
  BY <1>15, AnswerKeepsTexts
     DEF PutAborts, Asked, Dies, cacheVars, Closed, Reply, Statuses, TextsInv, KeysInv
<1>5. CASE ServeMiss
  BY <1>5, AnswerKeepsTexts DEF ServeMiss, cacheVars, Asked, Answers, Statuses, TextsInv, KeysInv
<1>6. CASE ServeHit
  BY <1>6, AnswerKeepsTexts DEF ServeHit, cacheVars, Asked, Answers, Statuses, TextsInv, KeysInv
<1>7. CASE ServeThrows
  BY <1>7, AnswerKeepsTexts DEF ServeThrows, Dies, cacheVars, Asked, Closed, Reply, Statuses, TextsInv, KeysInv
<1>8. CASE ServeDelete
  <2>1. \A k \in DOMAIN contents' : k \in DOMAIN contents /\ contents'[k] = contents[k]
    BY <1>8 DEF ServeDelete, Restrict
  <2>2. \A k \in DOMAIN contents' : k \in Texts /\ contents'[k] \in Texts
    BY <2>1 DEF TextsInv
  <2>3. KeysInv'
    BY <2>1 DEF KeysInv, Has
  <2>4. IsFiniteSet(DOMAIN contents')
    <3>1. DOMAIN contents' \subseteq DOMAIN contents
      BY <2>1
    <3> QED BY <3>1, FS_Subset DEF TextsInv
  <2> QED BY <1>8, <2>2, <2>3, <2>4, AnswerKeepsTexts DEF ServeDelete, Asked, Answers, Statuses
<1>9. CASE ServeHead
  BY <1>9, AnswerKeepsTexts DEF ServeHead, cacheVars, Asked, Answers, Statuses, TextsInv, KeysInv
<1>10. CASE ServeReset
  <2>1. DOMAIN contents' = {} /\ IsFiniteSet({})
    BY <1>10, FS_EmptySet DEF ServeReset
  <2> QED BY <1>10, <2>1, AnswerKeepsTexts DEF ServeReset, Asked, Answers, Statuses, KeysInv
<1>11. CASE ServeNothing
  BY <1>11, AnswerKeepsTexts DEF ServeNothing, cacheVars, Closed, Reply, Statuses, TextsInv, KeysInv
<1>12. CASE Return
  BY <1>12, ReturnKeepsTexts DEF Return, cacheVars, KeysInv
<1>13. CASE UNCHANGED vars
  BY <1>13 DEF vars, cacheVars, TextsInv, KeysInv
<1> QED BY <1>1, <1>2, <1>3, <1>4, <1>5, <1>6, <1>7, <1>8, <1>9, <1>10, <1>11, <1>12, <1>13, <1>14, <1>15 DEF Next

LEMMA TextsInvariant == Spec => [](TextsInv /\ KeysInv)
<1> QED BY TextsInit, StepTexts, PTL DEF Spec

----------------------------------------------------------------------------
(* set                                                                     *)

LEMMA StepSetsItsKey ==
  ASSUME TextsInv, KeysInv, [Next]_vars
  PROVE  [call.op = "set" /\ reply'.status = "200" =>
       (~Has(call.key, Slash) /\ Size(call.val) <= MaxMem <=>
          /\ call.key \in DOMAIN contents'
          /\ contents'[call.key] = call.val
          /\ \A k \in DOMAIN contents' \ {call.key} :
               k \in DOMAIN contents /\ contents'[k] = contents[k])]_vars
<1> SUFFICES ASSUME call.op = "set", reply'.status = "200", Next, ~UNCHANGED vars
             PROVE  ~Has(call.key, Slash) /\ Size(call.val) <= MaxMem <=>
                       /\ call.key \in DOMAIN contents'
                       /\ contents'[call.key] = call.val
                       /\ \A k \in DOMAIN contents' \ {call.key} :
                            k \in DOMAIN contents /\ contents'[k] = contents[k]
  OBVIOUS
<1>1. PutStored \/ PutRefused
  <2>1. call # NoCall /\ reply'.status # "none" /\ reply'.status # "closed"
    BY DEF NoCall
  <2>2. ~(\E op, k, v : Call(op, k, v))
    BY <2>1 DEF Call
  <2>3. ~Return
    BY <2>1 DEF Return, NoReply
  <2>4. ~(ServeNothing \/ PutAborts)
    BY <2>1 DEF ServeNothing, PutAborts, Dies, Closed
  <2>5. ~(ServeMiss \/ ServeHit \/ ServeThrows \/ ServeDelete \/ ServeHead \/ ServeReset)
    BY DEF ServeMiss, ServeHit, ServeThrows, ServeDelete, ServeHead, ServeReset, Asked
  <2> QED BY <2>2, <2>3, <2>4, <2>5 DEF Next
<1>2. CASE PutStored
  <2>1. /\ PutKey \in DOMAIN contents' /\ contents'[PutKey] = PutValue
        /\ \A k \in DOMAIN contents' \ {PutKey} : k \in DOMAIN contents /\ contents'[k] = contents[k]
        /\ Size(PutValue) <= MaxMem
    BY <1>2, PutEntries
  <2>2. CASE ~Has(call.key, Slash)
    BY <2>1, <2>2, PutKeyAndValue
  <2>3. CASE Has(call.key, Slash)
    <3>1. call.key \notin DOMAIN contents'
      BY <2>1, <2>3, PutKeyAndValue DEF KeysInv
    <3> QED BY <2>3, <3>1
  <2> QED BY <2>2, <2>3
<1>3. CASE PutRefused
  <2>1. UNCHANGED contents /\ Size(PutValue) - OldSize > MaxMem
    BY <1>3 DEF PutRefused, Refused, cacheVars
  <2>2. Has(call.key, Slash) => call.key \notin DOMAIN contents'
    BY <2>1 DEF KeysInv
  <2>3. ASSUME ~Has(call.key, Slash)
        PROVE  ~(Size(call.val) <= MaxMem) /\ (call.key \in DOMAIN contents => contents[call.key] # call.val)
    <3>1. PutKey = call.key /\ PutValue = call.val /\ PutValue \in Texts
      BY <2>3, PutKeyAndValue
    <3>2. Size(PutValue) \in Nat
      BY <3>1, SizeOfText
    <3>3. OldSize \in Nat
      <4>1. CASE PutKey \in DOMAIN contents
        <5>1. contents[PutKey] \in Texts
          BY <4>1 DEF TextsInv
        <5> QED BY <4>1, <5>1, SizeOfText DEF OldSize
      <4> QED BY <4>1 DEF OldSize
    <3>4. ~(Size(PutValue) <= MaxMem) /\ OldSize # Size(PutValue)
      BY <2>1, <3>2, <3>3, RoomAssumption
    <3>5. PutKey \in DOMAIN contents => contents[PutKey] # PutValue
      BY <3>4 DEF OldSize
    <3> QED BY <3>1, <3>4, <3>5
  <2> QED BY <2>1, <2>2, <2>3
<1> QED BY <1>1, <1>2, <1>3

\* For a key and a value of any length and any characters: a set that is answered
\* changes exactly what the client meant when no slash is in the key and the value
\* fits the cache, and otherwise something else or nothing, though its answer is
\* the same 200: set_key_val and the PUT branch cut the same text in two places,
\* and nothing returns that the library refused.
THEOREM SetsWhatWasMeant == Spec => SetsExactlyItsKey
<1>1. TextsInv /\ KeysInv /\ [Next]_vars =>
        [call.op = "set" /\ reply'.status = "200" =>
       (~Has(call.key, Slash) /\ Size(call.val) <= MaxMem <=>
          /\ call.key \in DOMAIN contents'
          /\ contents'[call.key] = call.val
          /\ \A k \in DOMAIN contents' \ {call.key} :
               k \in DOMAIN contents /\ contents'[k] = contents[k])]_vars
  BY StepSetsItsKey
<1> QED BY <1>1, TextsInvariant, PTL DEF Spec, SetsExactlyItsKey

----------------------------------------------------------------------------
(* Escaping                                                                *)

\* What json::dump escapes, how often up to the ith character of a text, and
\* where that character stands when it has.
Special(c) == c = Quote \/ c = Backslash
Specials(t, i) == {j \in 1 .. i : Special(t[j])}
Place(t, i) == i + Cardinality(Specials(t, i))

\* What stands for one character.
Piece(c) == IF Special(c) THEN <<Backslash, c>> ELSE <<c>>
Pieces(t) == [i \in DOMAIN t |-> Piece(t[i])]

LEMMA SpecialsAreCounted ==
  ASSUME NEW t, NEW i \in Nat
  PROVE  IsFiniteSet(Specials(t, i)) /\ Cardinality(Specials(t, i)) \in Nat
<1>1. Specials(t, i) \in SUBSET (1 .. i) /\ IsFiniteSet(1 .. i)
  BY FS_Interval DEF Specials
<1>2. IsFiniteSet(Specials(t, i))
  BY <1>1, FS_Subset
<1> QED BY <1>2, FS_CardinalityType

\* The first place, and from each to the next.
LEMMA NextPlace ==
  ASSUME NEW t
  PROVE  /\ Place(t, 0) = 0
         /\ \A i \in Nat : /\ Place(t, i) \in Nat
                           /\ Place(t, i + 1) = IF Special(t[i + 1]) THEN Place(t, i) + 2 ELSE Place(t, i) + 1
<1>1. Place(t, 0) = 0
  <2>1. Specials(t, 0) = {}
    BY DEF Specials
  <2> QED BY <2>1, FS_EmptySet DEF Place
<1>2. ASSUME NEW i \in Nat PROVE Place(t, i) \in Nat
  BY SpecialsAreCounted DEF Place
<1>3. ASSUME NEW i \in Nat, Special(t[i + 1]) PROVE Place(t, i + 1) = Place(t, i) + 2
  <2>1. Specials(t, i + 1) = Specials(t, i) \cup {i + 1} /\ i + 1 \notin Specials(t, i)
    BY <1>3 DEF Specials
  <2>2. Cardinality(Specials(t, i + 1)) = Cardinality(Specials(t, i)) + 1
    BY <2>1, SpecialsAreCounted, FS_AddElement
  <2> QED BY <2>2, SpecialsAreCounted DEF Place
<1>4. ASSUME NEW i \in Nat, ~Special(t[i + 1]) PROVE Place(t, i + 1) = Place(t, i) + 1
  <2>1. Specials(t, i + 1) = Specials(t, i)
    BY <1>4 DEF Specials
  <2> QED BY <2>1, SpecialsAreCounted DEF Place
<1> QED BY <1>1, <1>2, <1>3, <1>4

\* Places come in the order of the text.
LEMMA PlacesInOrder ==
  ASSUME NEW t, NEW i \in Nat, NEW j \in Nat, i <= j
  PROVE  j - i <= Place(t, j) - Place(t, i)
<1>1. Specials(t, i) \in SUBSET Specials(t, j)
  BY DEF Specials
<1>2. Cardinality(Specials(t, i)) <= Cardinality(Specials(t, j))
  BY <1>1, SpecialsAreCounted, FS_Subset
<1> QED BY <1>2, SpecialsAreCounted DEF Place

\* Between two places there is only room for a backslash.
LEMMA PlacesLeaveNoRoom ==
  ASSUME NEW t, NEW n \in Nat, NEW p \in 1 .. Place(t, n)
  PROVE  \E i \in 1 .. n : p = Place(t, i) \/ (Special(t[i]) /\ p = Place(t, i) - 1)
<1> DEFINE T == {i \in Nat : p <= Place(t, i)}
<1>0. Place(t, n) \in Nat /\ \A i \in Nat : Place(t, i) \in Nat
  BY NextPlace
<1>11. p \in Nat
  BY <1>0
<1>1. n \in T /\ T \subseteq Nat
  BY <1>0
<1>2. Min(T) \in T /\ \A y \in T : Min(T) <= y
  BY <1>1, LeastOfNumbers
<1>3. PICK i \in T : \A y \in T : i <= y
  BY <1>2
<1>4. i \in Nat /\ i <= n /\ p <= Place(t, i)
  BY <1>1, <1>3
<1>5. i # 0
  BY <1>0, <1>4, NextPlace
<1>6. i - 1 \in Nat /\ (i - 1) + 1 = i /\ i \in 1 .. n
  BY <1>4, <1>5
<1>7. Place(t, i - 1) < p
  <2>1. i - 1 \notin T
    BY <1>3, <1>4, <1>6
  <2>2. ~(p <= Place(t, i - 1))
    BY <1>6, <2>1
  <2> QED BY <1>0, <1>6, <1>11, <2>2
<1>8. Place(t, i) = IF Special(t[i]) THEN Place(t, i - 1) + 2 ELSE Place(t, i - 1) + 1
  BY <1>6, NextPlace
<1>9. Place(t, i - 1) \in Nat
  BY <1>0, <1>6
<1> HIDE DEF T
<1>10. p = Place(t, i) \/ (Special(t[i]) /\ p = Place(t, i) - 1)
  BY <1>4, <1>7, <1>8, <1>9, <1>11
<1> QED BY <1>6, <1>10

\* The characters of a text at their places, with the backslashes between.
Spread(t) ==
  [p \in 1 .. Place(t, Len(t)) |->
     IF \E i \in 1 .. Len(t) : p = Place(t, i)
     THEN t[CHOOSE i \in 1 .. Len(t) : p = Place(t, i)]
     ELSE Backslash]

LEMMA SpreadText ==
  ASSUME NEW t \in Texts
  PROVE  /\ Spread(t) \in Texts /\ Len(Spread(t)) = Place(t, Len(t))
         /\ \A i \in 1 .. Len(t) : /\ Place(t, i) \in 1 .. Place(t, Len(t))
                                   /\ Spread(t)[Place(t, i)] = t[i]
         /\ \A i \in 1 .. Len(t) :
              Special(t[i]) => /\ Place(t, i) - 1 \in 1 .. Place(t, Len(t))
                               /\ Spread(t)[Place(t, i) - 1] = Backslash
<1> DEFINE n == Len(t)
           At(p) == CHOOSE i \in 1 .. n : p = Place(t, i)
<1>1. n \in Nat /\ (\A i \in 1 .. n : t[i] \in Chars) /\ Backslash \in Chars
  BY Characters DEF Symbols
<1>2. \A i \in Nat : Place(t, i) \in Nat
  BY NextPlace
<1>3. \A i, j \in Nat : i <= j => j - i <= Place(t, j) - Place(t, i)
  BY PlacesInOrder
<1>4. \A i, j \in Nat : Place(t, i) = Place(t, j) => i = j
  <2> SUFFICES ASSUME NEW i \in Nat, NEW j \in Nat, Place(t, i) = Place(t, j)
               PROVE  i = j
    OBVIOUS
  <2>1. Place(t, i) \in Nat /\ Place(t, j) \in Nat
    BY <1>2
  <2>2. (i <= j => j - i <= Place(t, j) - Place(t, i)) /\ (j <= i => i - j <= Place(t, i) - Place(t, j))
    BY <1>3
  <2> HIDE DEF n, At
  <2> QED BY <2>1, <2>2
<1> DEFINE c == [p \in 1 .. Place(t, n) |-> IF \E i \in 1 .. n : p = Place(t, i) THEN t[At(p)] ELSE Backslash]
<1>5. Spread(t) = c
  BY DEF Spread
<1>6. \A p \in 1 .. Place(t, n) : c[p] \in Chars
  <2> SUFFICES ASSUME NEW p \in 1 .. Place(t, n), NEW i \in 1 .. n, p = Place(t, i)
               PROVE  t[At(p)] \in Chars
    BY <1>1
  <2>1. At(p) \in 1 .. n
    OBVIOUS
  <2> QED BY <1>1, <2>1
<1>7. \A i \in 1 .. n : Place(t, i) \in 1 .. Place(t, n)
  <2> SUFFICES ASSUME NEW i \in 1 .. n PROVE Place(t, i) \in 1 .. Place(t, n)
    OBVIOUS
  <2>1. i \in Nat /\ 0 \in Nat /\ 0 <= i /\ i <= n /\ 1 <= i
    BY <1>1
  <2>2. i - 0 <= Place(t, i) - Place(t, 0) /\ n - i <= Place(t, n) - Place(t, i)
    BY <1>1, <1>3, <2>1
  <2>3. Place(t, 0) = 0
    BY NextPlace
  <2> HIDE DEF n
  <2> QED BY <1>1, <1>2, <2>1, <2>2, <2>3
<1>8. \A i \in 1 .. n : c[Place(t, i)] = t[i]
  <2> SUFFICES ASSUME NEW i \in 1 .. n PROVE c[Place(t, i)] = t[i]
    OBVIOUS
  <2>1. \E a \in 1 .. n : Place(t, i) = Place(t, a) /\ a = At(Place(t, i))
    OBVIOUS
  <2>2. PICK a \in 1 .. n : Place(t, i) = Place(t, a) /\ a = At(Place(t, i))
    BY <2>1
  <2>3. c[Place(t, i)] = t[a]
    BY <1>7, <2>2
  <2> HIDE DEF c, At
  <2>4. a \in Nat /\ i \in Nat
    BY <1>1
  <2>5. a = i
    BY <1>4, <2>2, <2>4
  <2> QED BY <2>3, <2>5
<1>9. ASSUME NEW i \in 1 .. n, Special(t[i])
      PROVE  Place(t, i) - 1 \in 1 .. Place(t, n) /\ c[Place(t, i) - 1] = Backslash
  <2>1. i - 1 \in Nat /\ (i - 1) + 1 = i /\ i \in Nat
    BY <1>1
  <2>2. Place(t, i) = Place(t, i - 1) + 2
    BY <1>9, <2>1, NextPlace
  <2>3. Place(t, i) - 1 \in 1 .. Place(t, n)
    <3>1. Place(t, i - 1) \in Nat /\ Place(t, i) \in 1 .. Place(t, n) /\ Place(t, n) \in Nat
      BY <1>1, <1>2, <1>7, <2>1
    <3> HIDE DEF n
    <3> QED BY <2>2, <3>1
  <2>4. ASSUME NEW j \in 1 .. n, Place(t, i) - 1 = Place(t, j) PROVE FALSE
    <3>1. j \in Nat /\ (i <= j \/ j <= i - 1)
      BY <1>1, <2>1
    <3>2. CASE i <= j
      <4>1. j - i <= Place(t, j) - Place(t, i)
        BY <1>3, <2>1, <3>1, <3>2
      <4>2. Place(t, i) \in Nat /\ Place(t, j) \in Nat
        BY <1>2, <2>1, <3>1
      <4> QED BY <2>1, <2>4, <3>1, <3>2, <4>1, <4>2
    <3>3. CASE j <= i - 1
      <4>1. (i - 1) - j <= Place(t, i - 1) - Place(t, j)
        BY <1>3, <2>1, <3>1, <3>3
      <4>2. Place(t, i - 1) \in Nat /\ Place(t, j) \in Nat
        BY <1>2, <2>1, <3>1
      <4> QED BY <2>1, <2>2, <2>4, <3>1, <3>3, <4>1, <4>2
    <3> QED BY <3>1, <3>2, <3>3
  <2> QED BY <2>3, <2>4
<1>10. c \in Texts /\ Len(c) = Place(t, n)
  <2>1. c = [p \in 1 .. Place(t, n) |-> c[p]]
    OBVIOUS
  <2> HIDE DEF c
  <2>2. Place(t, n) \in Nat
    BY <1>1, <1>2
  <2> QED BY <1>6, <2>1, <2>2 DEF Texts
<1> QED BY <1>5, <1>7, <1>8, <1>9, <1>10

\* FlattenSeq of the pieces is the spread text.
IsFlat(f, s) == f = [i \in 1 .. Len(s) |-> IF i = 1 THEN s[i] ELSE f[i - 1] \o s[i]]
Flat(s) == CHOOSE f : IsFlat(f, s)

LEMMA Flattened ==
  ASSUME NEW s
  PROVE  FlattenSeq(s) = IF Len(s) = 0 THEN s ELSE Flat(s)[Len(s)]
BY Zenon DEF FlattenSeq, Flat, IsFlat

LEMMA EscapedPieces == ASSUME NEW t PROVE Escaped(t) = FlattenSeq(Pieces(t))
<1>1. ASSUME NEW i \in DOMAIN t
      PROVE  (IF t[i] \in {Quote, Backslash} THEN <<Backslash, t[i]>> ELSE <<t[i]>>) = Piece(t[i])
  BY DEF Piece, Special
<1>2. [i \in DOMAIN t |-> IF t[i] \in {Quote, Backslash} THEN <<Backslash, t[i]>> ELSE <<t[i]>>] = Pieces(t)
  BY <1>1 DEF Pieces
<1> QED BY <1>2 DEF Escaped

\* What is spread up to a place grows by a piece to the next.
LEMMA SpreadGrows ==
  ASSUME NEW t \in Texts, NEW i \in 1 .. Len(t)
  PROVE  /\ Piece(t[i]) \in Texts
         /\ SubSeq(Spread(t), 1, Place(t, i)) = SubSeq(Spread(t), 1, Place(t, i - 1)) \o Piece(t[i])
<1> DEFINE e == Spread(t)
           n == Len(t)
           a == Place(t, i - 1)
           b == Place(t, i)
           head == SubSeq(e, 1, a)
           piece == Piece(t[i])
<1>1. n \in Nat /\ t[i] \in Chars /\ Backslash \in Chars
  BY Characters DEF Symbols
<1>2. /\ e \in Texts /\ Len(e) = Place(t, n)
      /\ b \in 1 .. Place(t, n) /\ e[b] = t[i]
      /\ Special(t[i]) => e[b - 1] = Backslash
  BY SpreadText
<1>3. i - 1 \in Nat /\ (i - 1) + 1 = i
  BY <1>1
<1>4. a \in Nat /\ b = (IF Special(t[i]) THEN a + 2 ELSE a + 1)
  BY <1>3, NextPlace
<1>5. Place(t, n) \in Nat
  BY <1>1, NextPlace
<1> HIDE DEF e, n, a, b
<1>6. /\ SubSeq(e, 1, b) \in Texts /\ Len(SubSeq(e, 1, b)) = b
      /\ \A j \in 1 .. b : SubSeq(e, 1, b)[j] = e[j]
  <2>1. 1 \in 1 .. Len(e) + 1 /\ b \in 1 - 1 .. Len(e) /\ b + 1 - 1 = b
    BY <1>2, <1>5
  <2>2. \A j \in 1 .. b : 1 - 1 + j = j
    BY <1>2, <1>5
  <2> QED BY <1>2, <2>1, <2>2, CutOut
<1>7. head \in Texts /\ Len(head) = a /\ \A j \in 1 .. a : head[j] = e[j]
  <2>1. 1 \in 1 .. Len(e) + 1 /\ a \in 1 - 1 .. Len(e) /\ a + 1 - 1 = a
    BY <1>2, <1>4, <1>5
  <2>2. \A j \in 1 .. a : 1 - 1 + j = j
    BY <1>4
  <2> QED BY <1>2, <2>1, <2>2, CutOut
<1>8. /\ piece \in Texts /\ Len(piece) = b - a
      /\ \A j \in 1 .. b - a : piece[j] = e[a + j]
  <2>1. CASE Special(t[i])
    <3>1. piece = <<Backslash, t[i]>> /\ b - a = 2 /\ b = a + 2 /\ b - 1 = a + 1
      BY <1>4, <2>1 DEF Piece
    <3>2. piece \in Texts /\ Len(piece) = 2 /\ piece[1] = Backslash /\ piece[2] = t[i]
      BY <1>1, <3>1 DEF Texts
    <3>3. \A j \in 1 .. 2 : piece[j] = e[a + j]
      BY <1>2, <2>1, <3>1, <3>2
    <3> QED BY <3>1, <3>2, <3>3
  <2>2. CASE ~Special(t[i])
    <3>1. piece = <<t[i]>> /\ b - a = 1 /\ b = a + 1
      BY <1>4, <2>2 DEF Piece
    <3>2. piece \in Texts /\ Len(piece) = 1 /\ piece[1] = t[i]
      BY <1>1, <3>1 DEF Texts
    <3>3. \A j \in 1 .. 1 : piece[j] = e[a + j]
      BY <1>2, <3>1, <3>2
    <3> QED BY <3>1, <3>2, <3>3
  <2> QED BY <2>1, <2>2
<1> HIDE DEF head, piece
<1>9. /\ head \o piece \in Texts /\ Len(head \o piece) = a + (b - a)
      /\ \A j \in 1 .. a : (head \o piece)[j] = e[j]
      /\ \A j \in 1 .. b - a : (head \o piece)[a + j] = e[a + j]
  <2>1. /\ head \o piece \in Texts /\ Len(head \o piece) = Len(head) + Len(piece)
        /\ \A j \in 1 .. Len(head) : (head \o piece)[j] = head[j]
        /\ \A j \in 1 .. Len(piece) : (head \o piece)[Len(head) + j] = piece[j]
    BY <1>7, <1>8, Joined
  <2> QED BY <1>7, <1>8, <2>1
<1>10. \A j \in 1 .. b : (head \o piece)[j] = e[j]
  <2> SUFFICES ASSUME NEW j \in 1 .. b PROVE (head \o piece)[j] = e[j]
    OBVIOUS
  <2>1. CASE j <= a
    BY <1>4, <1>9, <2>1
  <2>2. CASE ~(j <= a)
    <3>1. j - a \in 1 .. b - a /\ a + (j - a) = j
      BY <1>4, <2>2
    <3> QED BY <1>9, <3>1
  <2> QED BY <2>1, <2>2
<1>11. a + (b - a) = b
  BY <1>4
<1>12. SubSeq(e, 1, b) = head \o piece
  BY <1>6, <1>9, <1>10, <1>11, SeqEqual DEF Texts
<1> QED BY <1>8, <1>12 DEF e, a, b, head, piece

LEMMA EscapedIsSpread ==
  ASSUME NEW t \in Texts
  PROVE  Escaped(t) = Spread(t)
<1> DEFINE n == Len(t)
           s == Pieces(t)
           e == Spread(t)
           W == [i \in 1 .. n |-> SubSeq(e, 1, Place(t, i))]
<1>1. n \in Nat /\ DOMAIN t = 1 .. n
  BY Characters
<1>2. \A i \in 1 .. n : s[i] = Piece(t[i]) /\ s[i] \in Texts
  BY <1>1, SpreadGrows DEF Pieces
<1>3. s \in Seq(Texts) /\ Len(s) = n
  <2>1. s = [i \in 1 .. n |-> s[i]]
    BY <1>1 DEF Pieces
  <2> HIDE DEF s, n
  <2> QED BY <1>1, <1>2, <2>1
<1>4. e \in Texts /\ Len(e) = Place(t, n)
  BY SpreadText
<1>5. Place(t, 0) = 0 /\ Place(t, n) \in Nat
  BY <1>1, NextPlace
<1>6. Escaped(t) = IF n = 0 THEN s ELSE Flat(s)[n]
  BY <1>3, EscapedPieces, Flattened
<1>7. \A i \in 1 .. n : SubSeq(e, 1, Place(t, i)) = SubSeq(e, 1, Place(t, i - 1)) \o s[i]
  BY <1>2, SpreadGrows
<1> HIDE DEF n, s, e
<1>8. SubSeq(e, 1, 0) = <<>>
  BY <1>4, <1>5, CutOut, EmptySeq DEF Texts
<1>9. CASE n = 0
  <2>1. s = <<>> /\ e = <<>>
    BY <1>3, <1>4, <1>5, <1>9, EmptySeq DEF Texts
  <2> QED BY <1>6, <1>9, <2>1 DEF e
<1>10. CASE n # 0
  <2>1. IsFlat(W, s)
    <3>1. ASSUME NEW i \in 1 .. n
          PROVE  W[i] = IF i = 1 THEN s[i] ELSE W[i - 1] \o s[i]
      <4>1. CASE i = 1
        <5>1. W[i] = SubSeq(e, 1, Place(t, i))
          OBVIOUS
        <5> HIDE DEF W
        <5>2. i - 1 = 0
          BY <4>1
        <5>3. SubSeq(e, 1, Place(t, i - 1)) = <<>>
          BY <1>5, <1>8, <5>2
        <5>4. W[i] = <<>> \o s[i]
          BY <1>7, <5>1, <5>3
        <5> QED BY <1>2, <4>1, <5>4, ConcatEmptySeq DEF Texts
      <4>2. CASE i # 1
        <5>1. i - 1 \in 1 .. n
          BY <1>1, <4>2
        <5>2. W[i - 1] = SubSeq(e, 1, Place(t, i - 1)) /\ W[i] = SubSeq(e, 1, Place(t, i))
          BY <5>1
        <5> HIDE DEF W
        <5> QED BY <1>7, <4>2, <5>2
      <4> QED BY <4>1, <4>2
    <3>2. W = [i \in 1 .. n |-> W[i]]
      OBVIOUS
    <3> HIDE DEF W
    <3> QED BY <1>3, <3>1, <3>2 DEF IsFlat
  <2> DEFINE f == Flat(s)
  <2>2. IsFlat(f, s)
    BY <2>1 DEF Flat
  <2>3. \A i \in 1 .. n : f[i] = IF i = 1 THEN s[i] ELSE f[i - 1] \o s[i]
    BY <1>3, <2>2 DEF IsFlat
  <2>4. \A i \in 1 .. n : W[i] = IF i = 1 THEN s[i] ELSE W[i - 1] \o s[i]
    BY <1>3, <2>1 DEF IsFlat
  <2> HIDE DEF f
  <2> DEFINE T == {i \in 1 .. n : f[i] # W[i]}
  <2>5. T = {}
    <3> SUFFICES ASSUME T # {} PROVE FALSE
      OBVIOUS
    <3>1. T \subseteq Nat
      OBVIOUS
    <3>2. Min(T) \in T /\ \A y \in T : Min(T) <= y
      BY <3>1, LeastOfNumbers
    <3>3. PICK i \in T : \A y \in T : i <= y
      BY <3>2
    <3> HIDE DEF W
    <3>4. i \in 1 .. n /\ f[i] # W[i]
      OBVIOUS
    <3>5. i # 1
      BY <2>3, <2>4, <3>4
    <3>6. i - 1 \in 1 .. n /\ ~(i <= i - 1)
      BY <1>1, <3>4, <3>5
    <3>7. f[i - 1] = W[i - 1]
      BY <3>3, <3>6
    <3> QED BY <2>3, <2>4, <3>4, <3>5, <3>7
  <2>6. n \in 1 .. n
    BY <1>1, <1>10
  <2>7. f[n] = W[n] /\ W[n] = SubSeq(e, 1, Len(e))
    BY <1>4, <2>5, <2>6
  <2> HIDE DEF W
  <2>8. /\ SubSeq(e, 1, Len(e)) \in Texts /\ Len(SubSeq(e, 1, Len(e))) = Len(e)
        /\ \A i \in 1 .. Len(e) : SubSeq(e, 1, Len(e))[i] = e[i]
    <3>1. 1 \in 1 .. Len(e) + 1 /\ Len(e) \in 1 - 1 .. Len(e) /\ Len(e) + 1 - 1 = Len(e)
      BY <1>4, <1>5
    <3>2. \A j \in 1 .. Len(e) : 1 - 1 + j = j
      BY <1>4, <1>5
    <3> QED BY <1>4, <3>1, <3>2, CutOut
  <2>9. SubSeq(e, 1, Len(e)) = e
    BY <1>4, <2>8, SeqEqual DEF Texts
  <2> QED BY <1>6, <1>10, <2>7, <2>9 DEF f, e
<1> QED BY <1>9, <1>10

\* An escaped text: its characters at their places, a backslash before each that
\* is special, and nothing else.
LEMMA EscapedText ==
  ASSUME NEW t \in Texts
  PROVE  /\ Escaped(t) \in Texts /\ Len(Escaped(t)) = Place(t, Len(t)) /\ Place(t, Len(t)) \in Nat
         /\ \A i \in 1 .. Len(t) : /\ Place(t, i) \in 1 .. Len(Escaped(t))
                                   /\ Escaped(t)[Place(t, i)] = t[i]
         /\ \A i \in 1 .. Len(t) :
              Special(t[i]) => /\ Place(t, i) - 1 \in 1 .. Len(Escaped(t))
                               /\ Escaped(t)[Place(t, i) - 1] = Backslash
         /\ \A p \in 1 .. Len(Escaped(t)) : \E i \in 1 .. Len(t) :
              p = Place(t, i) \/ (Special(t[i]) /\ p = Place(t, i) - 1)
<1>1. Len(t) \in Nat
  BY Characters
<1>2. Place(t, Len(t)) \in Nat
  BY <1>1, NextPlace
<1>3. Len(Escaped(t)) = Place(t, Len(t))
  BY EscapedIsSpread, SpreadText
<1>4. \A p \in 1 .. Len(Escaped(t)) : \E i \in 1 .. Len(t) :
        p = Place(t, i) \/ (Special(t[i]) /\ p = Place(t, i) - 1)
  BY <1>1, <1>3, PlacesLeaveNoRoom
<1> QED BY <1>2, <1>3, <1>4, EscapedIsSpread, SpreadText

\* A character of the escaped text that is no backslash is one of the text.
LEMMA EscapedShows ==
  ASSUME NEW t \in Texts, NEW p \in 1 .. Len(Escaped(t)), Escaped(t)[p] # Backslash
  PROVE  \E i \in 1 .. Len(t) : p = Place(t, i) /\ t[i] = Escaped(t)[p]
<1>1. PICK i \in 1 .. Len(t) : p = Place(t, i) \/ (Special(t[i]) /\ p = Place(t, i) - 1)
  BY EscapedText
<1>2. p = Place(t, i)
  BY <1>1, EscapedText
<1> QED BY <1>2, EscapedText

\* There is a backslash before each quote.
LEMMA QuotesEscaped ==
  ASSUME NEW t \in Texts, NEW p \in 1 .. Len(Escaped(t)), Escaped(t)[p] = Quote
  PROVE  p - 1 \in 1 .. Len(Escaped(t)) /\ Escaped(t)[p - 1] = Backslash
<1>1. PICK i \in 1 .. Len(t) : p = Place(t, i) /\ t[i] = Quote
  BY EscapedShows DEF Quote, Backslash
<1> QED BY <1>1, EscapedText DEF Special

\* It begins with a brace when the text does.
LEMMA EscapedBegins ==
  ASSUME NEW t \in Texts
  PROVE  Len(Escaped(t)) >= 1 /\ Escaped(t)[1] = Brace <=> t # <<>> /\ t[1] = Brace
<1> DEFINE e == Escaped(t)
<1>1. Len(t) \in Nat /\ Len(e) \in Nat
  BY Characters, EscapedText
<1>2. Place(t, 0) = 0 /\ \A i \in Nat : Place(t, i) \in Nat
  BY NextPlace
<1>3. ASSUME Len(e) >= 1, e[1] = Brace PROVE t # <<>> /\ t[1] = Brace
  <2>0. 1 \in 1 .. Len(e)
    BY <1>1, <1>3
  <2>1. e[1] # Backslash
    BY <1>3 DEF Brace, Backslash
  <2>2. PICK i \in 1 .. Len(t) : 1 = Place(t, i) /\ t[i] = Brace
    BY <1>3, <2>0, <2>1, EscapedShows
  <2>3. i - 0 <= Place(t, i) - Place(t, 0)
    BY <1>1, PlacesInOrder
  <2>4. i = 1
    BY <1>1, <1>2, <2>2, <2>3
  <2>5. Len(t) # 0
    BY <1>1, <2>2
  <2> QED BY <2>2, <2>4, <2>5, EmptySeq DEF Texts
<1>4. ASSUME t # <<>>, t[1] = Brace PROVE Len(e) >= 1 /\ e[1] = Brace
  <2>1. 1 \in 1 .. Len(t)
    BY <1>1, <1>4, EmptySeq DEF Texts
  <2>2. ~Special(t[1])
    BY <1>4 DEF Special, Brace, Quote, Backslash
  <2>3. Place(t, 0 + 1) = Place(t, 0) + 1
    BY <2>2, NextPlace
  <2>4. Place(t, 1) = 1
    BY <1>2, <2>3
  <2>5. 1 \in 1 .. Len(e) /\ e[1] = t[1]
    BY <2>1, <2>4, EscapedText
  <2> QED BY <1>1, <1>4, <2>5
<1> QED BY <1>3, <1>4

\* Quote and brace stand side by side in it when they do in the text.
LEMMA EscapedEnds ==
  ASSUME NEW t \in Texts
  PROVE  (\E p \in 1 .. Len(Escaped(t)) - 1 : Escaped(t)[p] = Quote /\ Escaped(t)[p + 1] = Brace)
           <=> \E i \in 2 .. Len(t) : t[i - 1] = Quote /\ t[i] = Brace
<1> DEFINE e == Escaped(t)
<1>1. Len(t) \in Nat /\ Len(e) \in Nat
  BY Characters, EscapedText
<1>2. \A i \in Nat : Place(t, i) \in Nat
  BY NextPlace
<1>3. \A i, j \in Nat : i <= j => j - i <= Place(t, j) - Place(t, i)
  BY PlacesInOrder
<1>4. ASSUME NEW p \in 1 .. Len(e) - 1, e[p] = Quote, e[p + 1] = Brace
      PROVE  \E i \in 2 .. Len(t) : t[i - 1] = Quote /\ t[i] = Brace
  <2>1. p \in 1 .. Len(e) /\ p + 1 \in 1 .. Len(e) /\ p \in Nat
    BY <1>1
  <2>2. PICK i \in 1 .. Len(t) : p = Place(t, i) /\ t[i] = Quote
    BY <1>4, <2>1, EscapedShows DEF Quote, Backslash
  <2>3. PICK j \in 1 .. Len(t) : p + 1 = Place(t, j) /\ t[j] = Brace
    BY <1>4, <2>1, EscapedShows DEF Brace, Backslash
  <2>4. i \in Nat /\ j \in Nat
    BY <1>1
  <2>5. j = i + 1
    <3>1. CASE j <= i
      <4>1. i - j <= Place(t, i) - Place(t, j)
        BY <1>3, <2>4, <3>1
      <4> QED BY <2>1, <2>2, <2>3, <2>4, <3>1, <4>1
    <3>2. CASE ~(j <= i)
      <4>1. i <= j
        BY <2>4, <3>2
      <4>2. j - i <= Place(t, j) - Place(t, i)
        BY <1>3, <2>4, <4>1
      <4>3. j - i <= 1
        BY <2>1, <2>2, <2>3, <2>4, <4>2
      <4> QED BY <2>4, <3>2, <4>3
    <3> QED BY <3>1, <3>2
  <2>6. j \in 2 .. Len(t) /\ j - 1 = i
    BY <1>1, <2>4, <2>5
  <2> QED BY <2>2, <2>3, <2>6
<1>5. ASSUME NEW i \in 2 .. Len(t), t[i - 1] = Quote, t[i] = Brace
      PROVE  \E p \in 1 .. Len(e) - 1 : e[p] = Quote /\ e[p + 1] = Brace
  <2>1. i - 1 \in Nat /\ i - 1 \in 1 .. Len(t) /\ i \in 1 .. Len(t) /\ (i - 1) + 1 = i
    BY <1>1
  <2>2. ~Special(t[i])
    BY <1>5 DEF Special, Brace, Quote, Backslash
  <2>3. Place(t, i) = Place(t, i - 1) + 1
    BY <2>1, <2>2, NextPlace
  <2>4. Place(t, i) \in 1 .. Len(e) /\ e[Place(t, i)] = Brace
    BY <1>5, <2>1, EscapedText
  <2>5. Place(t, i - 1) \in 1 .. Len(e) /\ e[Place(t, i - 1)] = Quote
    BY <1>5, <2>1, EscapedText
  <2>6. Place(t, i - 1) \in 1 .. Len(e) - 1
    BY <1>1, <2>3, <2>4, <2>5
  <2> QED BY <2>3, <2>4, <2>5, <2>6
<1> QED BY <1>4, <1>5

\* A text without special characters is its own escaped text.
LEMMA PlainEscaped ==
  ASSUME NEW t \in Texts, ~Has(t, Quote), ~Has(t, Backslash)
  PROVE  Escaped(t) = t
<1>1. Len(t) \in Nat /\ DOMAIN t = 1 .. Len(t)
  BY Characters
<1>2. ASSUME NEW i \in 0 .. Len(t) PROVE Place(t, i) = i
  <2>1. i \in Nat /\ \A j \in 1 .. i : j \in 1 .. Len(t)
    BY <1>1
  <2>2. \A j \in 1 .. i : ~Special(t[j])
    BY <1>1, <2>1 DEF Special, Has
  <2>3. Specials(t, i) = {}
    BY <2>2 DEF Specials
  <2> QED BY <2>1, <2>3, FS_EmptySet DEF Place
<1>3. Len(t) \in 0 .. Len(t) /\ \A i \in 1 .. Len(t) : i \in 0 .. Len(t)
  BY <1>1
<1>4. Escaped(t) \in Texts /\ Len(Escaped(t)) = Len(t)
  BY <1>2, <1>3, EscapedText
<1>5. \A i \in 1 .. Len(t) : Escaped(t)[i] = t[i]
  BY <1>2, <1>3, EscapedText
<1> QED BY <1>4, <1>5, SeqEqual DEF Texts

\* One with a special character is not found again at the head of its escaped text
\* with a quote behind it: from the first special character on, all that head would
\* have to be backslashes.
LEMMA SpecialEscaped ==
  ASSUME NEW t \in Texts, Has(t, Quote) \/ Has(t, Backslash)
  PROVE  /\ Len(t) + 1 <= Len(Escaped(t))
         /\ (\A i \in 1 .. Len(t) : Escaped(t)[i] = t[i]) => Escaped(t)[Len(t) + 1] = Backslash
<1> DEFINE e == Escaped(t)
           n == Len(t)
           S == {i \in 1 .. n : Special(t[i])}
<1>1. n \in Nat /\ DOMAIN t = 1 .. n /\ Len(e) \in Nat /\ Len(e) = Place(t, n)
  BY Characters, EscapedText
<1>2. \A i \in Nat : Place(t, i) \in Nat
  BY NextPlace
<1>3. \A i, j \in Nat : i <= j => j - i <= Place(t, j) - Place(t, i)
  BY PlacesInOrder
<1>4. S # {} /\ S \subseteq Nat
  BY <1>1 DEF Has, Special
<1>5. Min(S) \in S /\ \A y \in S : Min(S) <= y
  BY <1>4, LeastOfNumbers
<1>6. PICK f \in 1 .. n : Special(t[f]) /\ \A y \in 1 .. n : Special(t[y]) => f <= y
  BY <1>5
<1> HIDE DEF S
<1>7. f \in Nat /\ f - 1 \in Nat /\ (f - 1) + 1 = f /\ \A i \in 1 .. n : i \in Nat
  BY <1>1, <1>6
<1>8. \A i \in 0 .. f - 1 : Place(t, i) = i
  <2> SUFFICES ASSUME NEW i \in 0 .. f - 1 PROVE Place(t, i) = i
    OBVIOUS
  <2>1. i \in Nat /\ \A j \in 1 .. i : j \in 1 .. n /\ ~(f <= j)
    BY <1>1, <1>6
  <2>2. Specials(t, i) = {}
    BY <1>6, <2>1 DEF Specials
  <2> QED BY <2>1, <2>2, FS_EmptySet DEF Place
<1>9. Place(t, f) = f + 1
  <2>1. Place(t, f - 1) = f - 1
    BY <1>7, <1>8
  <2>2. Place(t, f) = Place(t, f - 1) + 2
    BY <1>6, <1>7, NextPlace
  <2> QED BY <1>7, <2>1, <2>2
<1>10. \A i \in f .. n : i + 1 <= Place(t, i)
  <2> SUFFICES ASSUME NEW i \in f .. n PROVE i + 1 <= Place(t, i)
    OBVIOUS
  <2>1. i \in Nat /\ f <= i
    BY <1>1, <1>7
  <2>2. i - f <= Place(t, i) - Place(t, f)
    BY <1>3, <1>7, <2>1
  <2> QED BY <1>2, <1>7, <1>9, <2>1, <2>2
<1>11. n + 1 <= Len(e)
  <2>1. n \in f .. n
    BY <1>1, <1>6
  <2> QED BY <1>1, <1>10, <2>1
<1>12. ASSUME \A i \in 1 .. n : e[i] = t[i] PROVE e[n + 1] = Backslash
  <2> DEFINE T == {q \in f .. n + 1 : e[q] # Backslash}
  <2>1. T = {}
    <3> SUFFICES ASSUME T # {} PROVE FALSE
      OBVIOUS
    <3>1. T \subseteq Nat
      BY <1>7
    <3>2. Min(T) \in T /\ \A y \in T : Min(T) <= y
      BY <3>1, LeastOfNumbers
    <3>3. PICK q \in f .. n + 1 : e[q] # Backslash /\ \A y \in f .. n + 1 : e[y] # Backslash => q <= y
      BY <3>2
    <3> HIDE DEF T
    <3>4. q # f
      BY <1>6, <1>7, <1>9, <3>3, EscapedText
    <3>5. q - 1 \in f .. n /\ q - 1 \in Nat /\ (q - 1) + 1 = q /\ q \in Nat /\ f < q /\ q \in 1 .. Len(e)
      BY <1>1, <1>7, <1>11, <3>3, <3>4
    <3>6. q <= Place(t, q - 1)
      BY <1>10, <3>5
    <3>7. PICK i \in 1 .. n : q = Place(t, i) /\ t[i] = e[q]
      BY <3>3, <3>5, EscapedShows
    <3>8. i \in Nat /\ Place(t, i) \in Nat /\ Place(t, q - 1) \in Nat
      BY <1>2, <1>7, <3>5
    <3>9. i <= q - 1
      <4> SUFFICES ASSUME ~(i <= q - 1) PROVE FALSE
        OBVIOUS
      <4>1. q - 1 <= i
        BY <3>5, <3>8
      <4>2. i - (q - 1) <= Place(t, i) - Place(t, q - 1)
        BY <1>3, <3>5, <3>8, <4>1
      <4> QED BY <3>5, <3>6, <3>7, <3>8, <4>2
    <3>10. f <= i
      <4> SUFFICES ASSUME ~(f <= i) PROVE FALSE
        OBVIOUS
      <4>1. i \in 0 .. f - 1
        BY <1>7, <3>8
      <4>2. Place(t, i) = i
        BY <1>8, <4>1
      <4> QED BY <1>7, <3>5, <3>7, <3>8, <4>2
    <3>11. i \in f .. n + 1 /\ ~(q <= i)
      BY <1>1, <1>7, <3>5, <3>8, <3>9, <3>10
    <3>12. e[i] = Backslash
      BY <3>3, <3>11
    <3> QED BY <1>12, <3>3, <3>7, <3>12
  <2>2. n + 1 \in f .. n + 1
    BY <1>1, <1>6, <1>7
  <2> QED BY <2>1, <2>2
<1> QED BY <1>11, <1>12

----------------------------------------------------------------------------
(* The JSON                                                                *)

\* Where everything stands in the text b of a key escaped as x and a value escaped
\* as y, of which the one has m characters and the other n.
IsDump(b, x, m, y, n) ==
  /\ b \in Texts /\ Len(b) = m + n + 15
  /\ b[1] = "{" /\ b[2] = Quote /\ b[3] = "key" /\ b[4] = Quote /\ b[5] = ":" /\ b[6] = Quote
  /\ \A i \in 1 .. m : b[6 + i] = x[i]
  /\ b[m + 7] = Quote /\ b[m + 8] = "," /\ b[m + 9] = Quote /\ b[m + 10] = "value"
  /\ b[m + 11] = Quote /\ b[m + 12] = ":" /\ b[m + 13] = Quote
  /\ \A i \in 1 .. n : b[m + 13 + i] = y[i]
  /\ b[m + n + 14] = Quote /\ b[m + n + 15] = Brace

LEMMA DumpLayout ==
  ASSUME NEW k \in Texts, NEW v \in Texts, NEW m, NEW n,
         m = Len(Escaped(k)), n = Len(Escaped(v))
  PROVE  m \in Nat /\ n \in Nat /\ IsDump(Dump(k, v), Escaped(k), m, Escaped(v), n)
<1> DEFINE x == Escaped(k)
           y == Escaped(v)
           open == "{"
           keyword == "key"
           colon == ":"
           sep == ","
           valueword == "value"
           head == <<open, Quote, keyword, Quote, colon, Quote>>
           comma == <<Quote, sep>>
           name == <<Quote, valueword, Quote, colon, Quote>>
           end == <<Quote, Brace>>
           s1 == head \o x
           s2 == s1 \o comma
           s3 == s2 \o name
           s4 == s3 \o y
           b == s4 \o end
           a1 == 6 + m
           a2 == a1 + 2
           a3 == a2 + 5
           a4 == a3 + n
<1>1. b = Dump(k, v)
  BY DEF Dump
<1>2. x \in Texts /\ y \in Texts /\ m \in Nat /\ n \in Nat /\ Len(x) = m /\ Len(y) = n
  BY EscapedText
<1>3. /\ open \in Chars /\ Quote \in Chars /\ keyword \in Chars /\ colon \in Chars
      /\ sep \in Chars /\ valueword \in Chars /\ Brace \in Chars
  BY Characters DEF Symbols
<1> HIDE DEF open, keyword, colon, sep, valueword
<1>4. /\ head \in Texts /\ Len(head) = 6
      /\ head[1] = open /\ head[2] = Quote /\ head[3] = keyword /\ head[4] = Quote /\ head[5] = colon /\ head[6] = Quote
  BY <1>3 DEF Texts
<1>5. comma \in Texts /\ Len(comma) = 2 /\ comma[1] = Quote /\ comma[2] = sep
  BY <1>3 DEF Texts
<1>6. /\ name \in Texts /\ Len(name) = 5
      /\ name[1] = Quote /\ name[2] = valueword /\ name[3] = Quote /\ name[4] = colon /\ name[5] = Quote
  BY <1>3 DEF Texts
<1>7. end \in Texts /\ Len(end) = 2 /\ end[1] = Quote /\ end[2] = Brace
  BY <1>3 DEF Texts
<1>8. /\ a1 \in Nat /\ a2 \in Nat /\ a3 \in Nat /\ a4 \in Nat
      /\ a1 = m + 6 /\ a2 = m + 8 /\ a3 = m + 13 /\ a4 = m + n + 13
  BY <1>2
<1> HIDE DEF x, y, head, comma, name, end, a1, a2, a3, a4
<1>9. /\ s1 \in Texts /\ Len(s1) = a1
      /\ \A i \in 1 .. 6 : s1[i] = head[i]
      /\ \A i \in 1 .. m : s1[6 + i] = x[i]
  <2>1. head \in Texts /\ x \in Texts
    BY <1>2, <1>4
  <2>2. /\ s1 \in Texts /\ Len(s1) = Len(head) + Len(x)
        /\ \A i \in 1 .. Len(head) : s1[i] = head[i]
        /\ \A i \in 1 .. Len(x) : s1[Len(head) + i] = x[i]
    BY <2>1, Joined
  <2> HIDE DEF s1
  <2> QED BY <1>2, <1>4, <2>2 DEF a1
<1> HIDE DEF s1
<1>10. /\ s2 \in Texts /\ Len(s2) = a2
       /\ \A i \in 1 .. a1 : s2[i] = s1[i]
       /\ \A i \in 1 .. 2 : s2[a1 + i] = comma[i]
  <2>1. s1 \in Texts /\ comma \in Texts
    BY <1>5, <1>9
  <2>2. /\ s2 \in Texts /\ Len(s2) = Len(s1) + Len(comma)
        /\ \A i \in 1 .. Len(s1) : s2[i] = s1[i]
        /\ \A i \in 1 .. Len(comma) : s2[Len(s1) + i] = comma[i]
    BY <2>1, Joined
  <2> HIDE DEF s2
  <2> QED BY <1>5, <1>9, <2>2 DEF a2
<1> HIDE DEF s2
<1>11. /\ s3 \in Texts /\ Len(s3) = a3
       /\ \A i \in 1 .. a2 : s3[i] = s2[i]
       /\ \A i \in 1 .. 5 : s3[a2 + i] = name[i]
  <2>1. s2 \in Texts /\ name \in Texts
    BY <1>6, <1>10
  <2>2. /\ s3 \in Texts /\ Len(s3) = Len(s2) + Len(name)
        /\ \A i \in 1 .. Len(s2) : s3[i] = s2[i]
        /\ \A i \in 1 .. Len(name) : s3[Len(s2) + i] = name[i]
    BY <2>1, Joined
  <2> HIDE DEF s3
  <2> QED BY <1>6, <1>10, <2>2 DEF a3
<1> HIDE DEF s3
<1>12. /\ s4 \in Texts /\ Len(s4) = a4
       /\ \A i \in 1 .. a3 : s4[i] = s3[i]
       /\ \A i \in 1 .. n : s4[a3 + i] = y[i]
  <2>1. s3 \in Texts /\ y \in Texts
    BY <1>2, <1>11
  <2>2. /\ s4 \in Texts /\ Len(s4) = Len(s3) + Len(y)
        /\ \A i \in 1 .. Len(s3) : s4[i] = s3[i]
        /\ \A i \in 1 .. Len(y) : s4[Len(s3) + i] = y[i]
    BY <2>1, Joined
  <2> HIDE DEF s4
  <2> QED BY <1>2, <1>11, <2>2 DEF a4
<1> HIDE DEF s4
<1>13. /\ b \in Texts /\ Len(b) = a4 + 2
       /\ \A i \in 1 .. a4 : b[i] = s4[i]
       /\ \A i \in 1 .. 2 : b[a4 + i] = end[i]
  <2>1. s4 \in Texts /\ end \in Texts
    BY <1>7, <1>12
  <2>2. /\ b \in Texts /\ Len(b) = Len(s4) + Len(end)
        /\ \A i \in 1 .. Len(s4) : b[i] = s4[i]
        /\ \A i \in 1 .. Len(end) : b[Len(s4) + i] = end[i]
    BY <2>1, Joined
  <2> HIDE DEF b
  <2> QED BY <1>7, <1>12, <2>2
<1> HIDE DEF b
<1>14. \A i \in 1 .. a3 : b[i] = s3[i]
  BY <1>2, <1>8, <1>12, <1>13
<1>15. \A i \in 1 .. a2 : b[i] = s2[i]
  BY <1>2, <1>8, <1>11, <1>14
<1>16. \A i \in 1 .. a1 : b[i] = s1[i]
  BY <1>2, <1>8, <1>10, <1>15
<1>17. \A i \in 1 .. 6 : b[i] = head[i]
  BY <1>2, <1>8, <1>9, <1>16
<1>18. ASSUME NEW i \in 1 .. m PROVE b[6 + i] = x[i]
  <2>1. 6 + i \in 1 .. a1
    BY <1>2, <1>8
  <2>2. b[6 + i] = s1[6 + i] /\ s1[6 + i] = x[i]
    BY <1>9, <1>16, <2>1
  <2> QED BY <2>2
<1>19. b[m + 7] = Quote /\ b[m + 8] = sep
  <2>1. a1 + 1 \in 1 .. a2 /\ a1 + 2 \in 1 .. a2 /\ a1 + 1 = m + 7 /\ a1 + 2 = m + 8
    BY <1>2, <1>8
  <2>2. s2[a1 + 1] = comma[1] /\ s2[a1 + 2] = comma[2]
    BY <1>10
  <2> QED BY <1>5, <1>15, <2>1, <2>2
<1>20. \A i \in 1 .. 5 : b[a2 + i] = name[i]
  <2> SUFFICES ASSUME NEW i \in 1 .. 5 PROVE b[a2 + i] = name[i]
    OBVIOUS
  <2>1. a2 + i \in 1 .. a3
    BY <1>2, <1>8
  <2> QED BY <1>11, <1>14, <2>1
<1>21. /\ b[m + 9] = Quote /\ b[m + 10] = valueword
       /\ b[m + 11] = Quote /\ b[m + 12] = colon /\ b[m + 13] = Quote
  <2>1. a2 + 1 = m + 9 /\ a2 + 2 = m + 10 /\ a2 + 3 = m + 11 /\ a2 + 4 = m + 12 /\ a2 + 5 = m + 13
    BY <1>2, <1>8
  <2> QED BY <1>6, <1>8, <1>20, <2>1
<1>22. \A i \in 1 .. n : b[m + 13 + i] = y[i]
  <2> SUFFICES ASSUME NEW i \in 1 .. n PROVE b[m + 13 + i] = y[i]
    OBVIOUS
  <2>1. a3 + i \in 1 .. a4 /\ a3 + i = m + 13 + i
    BY <1>2, <1>8
  <2> QED BY <1>12, <1>13, <2>1
<1>23. b[m + n + 14] = Quote /\ b[m + n + 15] = Brace /\ Len(b) = m + n + 15
  <2>1. a4 + 1 = m + n + 14 /\ a4 + 2 = m + n + 15
    BY <1>2, <1>8
  <2>2. b[a4 + 1] = Quote /\ b[a4 + 2] = Brace
    BY <1>7, <1>8, <1>13
  <2> QED BY <1>13, <2>1, <2>2
<1>24. b[1] = "{" /\ b[2] = Quote /\ b[3] = "key" /\ b[4] = Quote /\ b[5] = ":" /\ b[6] = Quote
  <2>1. b[1] = head[1] /\ b[2] = head[2] /\ b[3] = head[3] /\ b[4] = head[4] /\ b[5] = head[5] /\ b[6] = head[6]
    BY <1>17
  <2> QED BY <1>4, <2>1 DEF open, keyword, colon
<1>25. b[m + 8] = "," /\ b[m + 10] = "value" /\ b[m + 12] = ":"
  BY <1>19, <1>21 DEF sep, valueword, colon
<1>26. IsDump(b, x, m, y, n)
  BY <1>13, <1>18, <1>19, <1>21, <1>22, <1>23, <1>24, <1>25, Zenon DEF IsDump
<1> QED BY <1>1, <1>2, <1>26 DEF x, y

\* A text occurs in another where its characters do.
LEMMA OccursWhere ==
  ASSUME NEW t \in Texts, NEW part \in Texts, Len(part) >= 1,
         NEW i \in 1 .. Len(t) - Len(part) + 1
  PROVE  i \in Occurrences(t, part) <=> \A j \in 1 .. Len(part) : t[i - 1 + j] = part[j]
<1> DEFINE c == Len(part)
           cut == SubSeq(t, i, i + c - 1)
<1>1. Len(t) \in Nat /\ c \in Nat /\ c >= 1 /\ i \in Nat
  BY Characters
<1>2. i \in 1 .. Len(t) + 1 /\ i + c - 1 \in i - 1 .. Len(t) /\ (i + c - 1) + 1 - i = c
  BY <1>1
<1>3. cut \in Texts /\ Len(cut) = c /\ \A j \in 1 .. c : cut[j] = t[i - 1 + j]
  BY <1>2, CutOut
<1>4. i \in Occurrences(t, part) <=> cut = part
  BY DEF Occurrences
<1> HIDE DEF cut
<1>5. cut = part <=> \A j \in 1 .. c : cut[j] = part[j]
  BY <1>3, SeqEqual DEF Texts
<1> QED BY <1>3, <1>4, <1>5

\* The marks that the client looks for.
BeginMark == <<"value", Quote, ":", Quote>>
EndMark == <<Quote, Brace>>

LEMMA Marks ==
  /\ BeginMark \in Texts /\ Len(BeginMark) = 4
  /\ BeginMark[1] = "value" /\ BeginMark[2] = Quote /\ BeginMark[3] = ":" /\ BeginMark[4] = Quote
  /\ EndMark \in Texts /\ Len(EndMark) = 2 /\ EndMark[1] = Quote /\ EndMark[2] = Brace
<1> DEFINE value == "value"
           colon == ":"
           b == <<value, Quote, colon, Quote>>
           e == <<Quote, Brace>>
<1>1. value \in Chars /\ colon \in Chars /\ Quote \in Chars /\ Brace \in Chars
  BY Characters DEF Symbols
<1>2. BeginMark = b /\ EndMark = e
  BY DEF BeginMark, EndMark
<1> HIDE DEF value, colon
<1>3. b \in Texts /\ Len(b) = 4 /\ b[1] = value /\ b[2] = Quote /\ b[3] = colon /\ b[4] = Quote
  BY <1>1 DEF Texts
<1>4. e \in Texts /\ Len(e) = 2 /\ e[1] = Quote /\ e[2] = Brace
  BY <1>1 DEF Texts
<1> QED BY <1>2, <1>3, <1>4 DEF value, colon

LEMMA MarksOccur ==
  ASSUME NEW t \in Texts
  PROVE  /\ \A i \in 1 .. Len(t) - 3 :
              i \in Occurrences(t, BeginMark)
                <=> t[i] = "value" /\ t[i + 1] = Quote /\ t[i + 2] = ":" /\ t[i + 3] = Quote
         /\ \A i \in 1 .. Len(t) - 1 :
              i \in Occurrences(t, EndMark) <=> t[i] = Quote /\ t[i + 1] = Brace
         /\ Occurrences(t, BeginMark) \subseteq 1 .. Len(t) - 3
         /\ Occurrences(t, EndMark) \subseteq 1 .. Len(t) - 1
<1>1. Len(t) \in Nat
  BY Characters
<1>2. /\ Occurrences(t, BeginMark) \subseteq 1 .. Len(t) - 3
      /\ Occurrences(t, EndMark) \subseteq 1 .. Len(t) - 1
  <2>1. Len(t) - Len(BeginMark) + 1 = Len(t) - 3 /\ Len(t) - Len(EndMark) + 1 = Len(t) - 1
    BY <1>1, Marks
  <2> QED BY <2>1 DEF Occurrences
<1>3. ASSUME NEW i \in 1 .. Len(t) - 3
      PROVE  i \in Occurrences(t, BeginMark)
                <=> t[i] = "value" /\ t[i + 1] = Quote /\ t[i + 2] = ":" /\ t[i + 3] = Quote
  <2> DEFINE Matches == \A j \in 1 .. 4 : t[i - 1 + j] = BeginMark[j]
             Spelled == t[i] = "value" /\ t[i + 1] = Quote /\ t[i + 2] = ":" /\ t[i + 3] = Quote
  <2>1. i \in 1 .. Len(t) - Len(BeginMark) + 1 /\ Len(BeginMark) >= 1
    BY <1>1, Marks
  <2>2. i \in Occurrences(t, BeginMark) <=> Matches
    <3>1. BeginMark \in Texts /\ Len(BeginMark) = 4
      BY Marks
    <3>2. i \in Occurrences(t, BeginMark) <=> \A j \in 1 .. Len(BeginMark) : t[i - 1 + j] = BeginMark[j]
      BY <2>1, <3>1, OccursWhere
    <3> QED BY <3>1, <3>2, Zenon
  <2>3. i - 1 + 1 = i /\ i - 1 + 2 = i + 1 /\ i - 1 + 3 = i + 2 /\ i - 1 + 4 = i + 3
    BY <1>1
  <2>4. Matches <=> /\ t[i - 1 + 1] = BeginMark[1] /\ t[i - 1 + 2] = BeginMark[2]
              /\ t[i - 1 + 3] = BeginMark[3] /\ t[i - 1 + 4] = BeginMark[4]
    <3>1. \A j \in 1 .. 4 : j = 1 \/ j = 2 \/ j = 3 \/ j = 4
      OBVIOUS
    <3>2. 1 \in 1 .. 4 /\ 2 \in 1 .. 4 /\ 3 \in 1 .. 4 /\ 4 \in 1 .. 4
      OBVIOUS
    <3> QED BY <3>1, <3>2, Zenon
  <2>5. Matches <=> Spelled
    BY <2>3, <2>4, Marks, Zenon
  <2>6. i \in Occurrences(t, BeginMark) <=> Spelled
    <3> HIDE DEF Matches, Spelled
    <3> QED BY <2>2, <2>5
  <2> QED BY <2>6
<1>4. ASSUME NEW i \in 1 .. Len(t) - 1
      PROVE  i \in Occurrences(t, EndMark) <=> t[i] = Quote /\ t[i + 1] = Brace
  <2> DEFINE Matches == \A j \in 1 .. 2 : t[i - 1 + j] = EndMark[j]
             Spelled == t[i] = Quote /\ t[i + 1] = Brace
  <2>1. i \in 1 .. Len(t) - Len(EndMark) + 1 /\ Len(EndMark) >= 1
    BY <1>1, Marks
  <2>2. i \in Occurrences(t, EndMark) <=> Matches
    <3>1. EndMark \in Texts /\ Len(EndMark) = 2
      BY Marks
    <3>2. i \in Occurrences(t, EndMark) <=> \A j \in 1 .. Len(EndMark) : t[i - 1 + j] = EndMark[j]
      BY <2>1, <3>1, OccursWhere
    <3> QED BY <3>1, <3>2, Zenon
  <2>3. i - 1 + 1 = i /\ i - 1 + 2 = i + 1
    BY <1>1
  <2>4. Matches <=> t[i - 1 + 1] = EndMark[1] /\ t[i - 1 + 2] = EndMark[2]
    <3>1. \A j \in 1 .. 2 : j = 1 \/ j = 2
      OBVIOUS
    <3>2. 1 \in 1 .. 2 /\ 2 \in 1 .. 2
      OBVIOUS
    <3> QED BY <3>1, <3>2, Zenon
  <2>5. Matches <=> Spelled
    BY <2>3, <2>4, Marks, Zenon
  <2>6. i \in Occurrences(t, EndMark) <=> Spelled
    <3> HIDE DEF Matches, Spelled
    <3> QED BY <2>2, <2>5
  <2> QED BY <2>6
<1> QED BY <1>2, <1>3, <1>4

\* The client begins to read where the value does, whatever the key.
LEMMA ReadingBegins ==
  ASSUME NEW k \in Texts, NEW v \in Texts
  PROVE  Begin(Dump(k, v)) = Len(Escaped(k)) + 14
<1> DEFINE b == Dump(k, v)
           x == Escaped(k)
           m == Len(x)
           n == Len(Escaped(v))
           S == Occurrences(b, BeginMark)
<1>1. m \in Nat /\ n \in Nat /\ IsDump(b, x, m, Escaped(v), n)
  BY DumpLayout
<1>2. Begin(b) = Min(S) + 4
  BY DEF Begin, Find, BeginMark
<1>3. \A p \in 1 .. m : x[p] = Quote => p - 1 \in 1 .. m /\ x[p - 1] = Backslash
  BY QuotesEscaped
<1> HIDE DEF b, x, m, n
<1>4. b \in Texts /\ Len(b) = m + n + 15
  BY <1>1 DEF IsDump
<1>5. S \subseteq 1 .. Len(b) - 3
  BY <1>4, MarksOccur
<1>6. \A i \in S : b[i] = "value" /\ b[i + 1] = Quote /\ b[i + 2] = ":" /\ b[i + 3] = Quote
  BY <1>4, <1>5, MarksOccur
<1>7. m + 10 \in S
  <2>1. m + 10 \in 1 .. Len(b) - 3 /\ m + 10 + 1 = m + 11 /\ m + 10 + 2 = m + 12 /\ m + 10 + 3 = m + 13
    BY <1>1, <1>4
  <2>2. b[m + 10] = "value" /\ b[m + 11] = Quote /\ b[m + 12] = ":" /\ b[m + 13] = Quote
    BY <1>1 DEF IsDump
  <2>3. \A i \in 1 .. Len(b) - 3 :
          i \in S <=> b[i] = "value" /\ b[i + 1] = Quote /\ b[i + 2] = ":" /\ b[i + 3] = Quote
    BY <1>4, MarksOccur
  <2> HIDE DEF S
  <2> QED BY <2>1, <2>2, <2>3
<1>8. ASSUME NEW i \in S PROVE m + 10 <= i
  <2> SUFFICES ASSUME ~(m + 10 <= i) PROVE FALSE
    OBVIOUS
  <2>1. i \in Nat /\ i >= 1 /\ i < m + 10
    BY <1>1, <1>4, <1>5
  <2>2. i = 1 \/ i = 2 \/ i = 3 \/ i = 4 \/ i = 5 \/ i = 6 \/ i \in 7 .. m + 6 \/ i = m + 7 \/ i = m + 8 \/ i = m + 9
    BY <1>1, <2>1
  <2>3. b[1] # "value" /\ b[2] # "value" /\ b[3] # "value" /\ b[4] # "value" /\ b[5] # "value" /\ b[6] # "value"
    BY <1>1 DEF IsDump, Quote
  <2>4. b[m + 7] # "value" /\ b[m + 8] # "value" /\ b[m + 9] # "value"
    BY <1>1 DEF IsDump, Quote
  <2>5. i \in 7 .. m + 6
    BY <1>6, <2>2, <2>3, <2>4
  <2> DEFINE j == i - 6
  <2>6. j \in 1 .. m /\ j \in Nat /\ i = 6 + j /\ i + 1 = 6 + (j + 1)
    BY <1>1, <2>1, <2>5
  <2>7. x[j] = "value"
    <3>1. b[6 + j] = x[j]
      BY <1>1, <2>6 DEF IsDump
    <3> QED BY <1>6, <2>6, <3>1
  <2> HIDE DEF j
  <2>8. CASE j + 1 \in 1 .. m
    <3>1. x[j + 1] = Quote
      <4>1. b[6 + (j + 1)] = x[j + 1]
        BY <1>1, <2>8 DEF IsDump
      <4> QED BY <1>6, <2>6, <4>1
    <3>2. x[(j + 1) - 1] = Backslash
      BY <1>3, <2>8, <3>1
    <3>3. (j + 1) - 1 = j
      BY <2>6
    <3> QED BY <2>7, <3>2, <3>3 DEF Backslash
  <2>9. CASE j + 1 \notin 1 .. m
    <3>1. i + 2 = m + 8
      BY <1>1, <2>6, <2>9
    <3>2. b[m + 8] # ":"
      BY <1>1 DEF IsDump
    <3> QED BY <1>6, <3>1, <3>2
  <2> QED BY <2>8, <2>9
<1>9. Min(S) = m + 10
  <2>1. S \subseteq Nat /\ S # {}
    BY <1>5, <1>7
  <2>2. Min(S) \in S /\ \A y \in S : Min(S) <= y
    BY <2>1, LeastOfNumbers
  <2> HIDE DEF S
  <2>3. Min(S) <= m + 10 /\ m + 10 <= Min(S) /\ Min(S) \in Nat
    BY <1>7, <1>8, <2>1, <2>2
  <2> QED BY <1>1, <2>3
<1>10. Begin(b) = m + 14
  BY <1>1, <1>2, <1>9
<1> QED BY <1>10 DEF b, m, x

\* The end that it looks for is behind the value, and before it begins exactly when
\* the key shows one or the value begins with one.
LEMMA ReadingEnds ==
  ASSUME NEW k \in Texts, NEW v \in Texts, NEW b, b = Dump(k, v),
         NEW m, m = Len(Escaped(k)), NEW n, n = Len(Escaped(v))
  PROVE  /\ m + n + 14 \in Occurrences(b, EndMark)
         /\ (\E i \in Occurrences(b, EndMark) : i < m + 14) <=> EndsInKey(k) \/ BeginsWithBrace(v)
<1> DEFINE x == Escaped(k)
           y == Escaped(v)
           S == Occurrences(b, EndMark)
<1>1. m \in Nat /\ n \in Nat /\ IsDump(b, x, m, y, n)
  BY DumpLayout
<1>2. m >= 1 /\ x[1] = Brace <=> k # <<>> /\ k[1] = Brace
  BY EscapedBegins
<1>3. n >= 1 /\ y[1] = Brace <=> BeginsWithBrace(v)
  BY EscapedBegins DEF BeginsWithBrace
<1>4. (\E p \in 1 .. m - 1 : x[p] = Quote /\ x[p + 1] = Brace)
        <=> \E i \in 2 .. Len(k) : k[i - 1] = Quote /\ k[i] = Brace
  BY EscapedEnds
<1>5. EndsInKey(k) <=> (m >= 1 /\ x[1] = Brace) \/ \E p \in 1 .. m - 1 : x[p] = Quote /\ x[p + 1] = Brace
  BY <1>2, <1>4 DEF EndsInKey
<1> HIDE DEF x, y
<1>6. b \in Texts /\ Len(b) = m + n + 15
  BY <1>1 DEF IsDump
<1>7. S \subseteq 1 .. Len(b) - 1 /\ \A i \in 1 .. Len(b) - 1 : i \in S <=> b[i] = Quote /\ b[i + 1] = Brace
  BY <1>6, MarksOccur
<1> HIDE DEF S
<1>8. m + n + 14 \in S
  <2>1. m + n + 14 \in 1 .. Len(b) - 1 /\ (m + n + 14) + 1 = m + n + 15
    BY <1>1, <1>6
  <2>2. b[m + n + 14] = Quote /\ b[m + n + 15] = Brace
    BY <1>1 DEF IsDump
  <2> QED BY <1>7, <2>1, <2>2
<1>9. /\ \A p \in 1 .. m : b[6 + p] = x[p]
      /\ \A p \in 1 .. n : b[m + 13 + p] = y[p]
      /\ b[6] = Quote /\ b[m + 13] = Quote
  BY <1>1 DEF IsDump
<1>10. ASSUME NEW i \in S, i < m + 14 PROVE EndsInKey(k) \/ BeginsWithBrace(v)
  <2>1. i \in Nat /\ i >= 1 /\ b[i] = Quote /\ b[i + 1] = Brace
    BY <1>1, <1>6, <1>7
  <2>2. \/ i = 1 \/ i = 2 \/ i = 3 \/ i = 4 \/ i = 5 \/ i = 6 \/ i \in 7 .. m + 5 \/ i = m + 6
        \/ i = m + 7 \/ i = m + 8 \/ i = m + 9 \/ i = m + 10 \/ i = m + 11 \/ i = m + 12 \/ i = m + 13
    BY <1>1, <1>10, <2>1
  <2>3. b[2] # Brace /\ b[3] # Brace /\ b[4] # Brace /\ b[5] # Brace /\ b[6] # Brace
    BY <1>1 DEF IsDump, Quote, Brace
  <2>4. /\ b[m + 7] # Brace /\ b[m + 8] # Brace /\ b[m + 9] # Brace /\ b[m + 10] # Brace
        /\ b[m + 11] # Brace /\ b[m + 12] # Brace /\ b[m + 13] # Brace
    BY <1>1 DEF IsDump, Quote, Brace
  <2>5. i # 1 /\ i # 2 /\ i # 3 /\ i # 4 /\ i # 5
    BY <2>1, <2>3
  <2>6. i # m + 6 /\ i # m + 7 /\ i # m + 8 /\ i # m + 9 /\ i # m + 10 /\ i # m + 11 /\ i # m + 12
    <3>1. /\ (m + 6) + 1 = m + 7 /\ (m + 7) + 1 = m + 8 /\ (m + 8) + 1 = m + 9 /\ (m + 9) + 1 = m + 10
          /\ (m + 10) + 1 = m + 11 /\ (m + 11) + 1 = m + 12 /\ (m + 12) + 1 = m + 13
      BY <1>1
    <3> QED BY <2>1, <2>4, <3>1
  <2>7. CASE i = 6
    <3>1. b[7] = Brace /\ m # 0
      <4>1. m = 0 => m + 7 = 7
        OBVIOUS
      <4> QED BY <2>1, <2>4, <2>7, <4>1
    <3>2. 1 \in 1 .. m /\ 6 + 1 = 7 /\ m >= 1
      BY <1>1, <3>1
    <3>3. x[1] = Brace
      BY <1>9, <3>1, <3>2
    <3> QED BY <1>5, <3>2, <3>3
  <2>8. CASE i \in 7 .. m + 5
    <3> DEFINE p == i - 6
    <3>1. p \in 1 .. m - 1 /\ p \in 1 .. m /\ p + 1 \in 1 .. m /\ i = 6 + p /\ i + 1 = 6 + (p + 1)
      BY <1>1, <2>1, <2>8
    <3> HIDE DEF p
    <3>2. x[p] = Quote /\ x[p + 1] = Brace
      BY <1>9, <2>1, <3>1
    <3> QED BY <1>5, <3>1, <3>2
  <2>9. CASE i = m + 13
    <3>1. n # 0
      <4>1. n = 0 => m + n + 14 = (m + 13) + 1
        BY <1>1
      <4>2. b[m + n + 14] # Brace
        BY <1>1 DEF IsDump, Quote, Brace
      <4> QED BY <2>1, <2>9, <4>1, <4>2
    <3>2. 1 \in 1 .. n /\ m + 13 + 1 = i + 1 /\ n >= 1
      BY <1>1, <2>9, <3>1
    <3>3. y[1] = Brace
      BY <1>9, <2>1, <3>2
    <3> QED BY <1>3, <3>2, <3>3
  <2> QED BY <2>2, <2>5, <2>6, <2>7, <2>8, <2>9
<1>11. ASSUME m >= 1, x[1] = Brace PROVE 6 \in S /\ 6 < m + 14
  <2>1. 1 \in 1 .. m /\ 6 + 1 = 7 /\ 6 \in 1 .. Len(b) - 1 /\ 6 < m + 14
    BY <1>1, <1>6, <1>11
  <2>2. b[7] = Brace
    BY <1>9, <1>11, <2>1
  <2> QED BY <1>7, <1>9, <2>1, <2>2
<1>12. ASSUME NEW p \in 1 .. m - 1, x[p] = Quote, x[p + 1] = Brace PROVE 6 + p \in S /\ 6 + p < m + 14
  <2>1. p \in 1 .. m /\ p + 1 \in 1 .. m /\ (6 + p) + 1 = 6 + (p + 1)
    BY <1>1
  <2>2. 6 + p \in 1 .. Len(b) - 1 /\ 6 + p < m + 14
    BY <1>1, <1>6
  <2>3. b[6 + p] = Quote /\ b[6 + (p + 1)] = Brace
    BY <1>9, <1>12, <2>1
  <2> QED BY <1>7, <2>1, <2>2, <2>3
<1>13. ASSUME n >= 1, y[1] = Brace PROVE m + 13 \in S /\ m + 13 < m + 14
  <2>1. 1 \in 1 .. n /\ m + 13 \in 1 .. Len(b) - 1 /\ m + 13 < m + 14
    BY <1>1, <1>6, <1>13
  <2>2. b[m + 13 + 1] = Brace
    BY <1>9, <1>13, <2>1
  <2> QED BY <1>7, <1>9, <2>1, <2>2
<1>14. (\E i \in S : i < m + 14) <=> EndsInKey(k) \/ BeginsWithBrace(v)
  BY <1>3, <1>5, <1>10, <1>11, <1>12, <1>13
<1> QED BY <1>8, <1>14 DEF S

\* What the client makes of the JSON of any key and value.
LEMMA ReadingOfHit ==
  ASSUME NEW k \in Texts, NEW v \in Texts, reply.body = Dump(k, v),
         NEW tooEarly, tooEarly = (EndsInKey(k) \/ BeginsWithBrace(v))
  PROVE  /\ ResultOfGet = Value(v) <=> ~Has(v, Quote) /\ ~Has(v, Backslash) /\ ~tooEarly
         /\ ResultOfGet.kind = "undefined" <=> tooEarly
<1> DEFINE b == Dump(k, v)
           x == Escaped(k)
           y == Escaped(v)
           m == Len(x)
           n == Len(y)
           S == Occurrences(b, EndMark)
           e == End(b)
           cut == SubSeq(b, m + 14, e - 1)
<1>1. m \in Nat /\ n \in Nat /\ Len(y) = n /\ IsDump(b, x, m, y, n)
  BY DumpLayout
<1>2. Begin(b) = m + 14
  BY ReadingBegins
<1>3. e = Min(S)
  BY DEF End, Find, EndMark
<1>4. m + n + 14 \in S /\ ((\E i \in S : i < m + 14) <=> EndsInKey(k) \/ BeginsWithBrace(v))
  BY ReadingEnds
<1>5. ResultOfGet = IF b[1] # "{" THEN Outcome("nullptr")
                    ELSE IF e < Begin(b) THEN Outcome("undefined")
                    ELSE Value(SubSeq(b, Begin(b), e - 1))
  BY DEF ResultOfGet
<1>6. /\ Has(v, Quote) \/ Has(v, Backslash) =>
           /\ Len(v) + 1 <= n
           /\ (\A i \in 1 .. Len(v) : y[i] = v[i]) => y[Len(v) + 1] = Backslash
      /\ ~Has(v, Quote) /\ ~Has(v, Backslash) => y = v
  BY SpecialEscaped, PlainEscaped
<1>7. Len(v) \in Nat /\ DOMAIN v = 1 .. Len(v) /\ y \in Texts
  BY Characters, EscapedText
<1> HIDE DEF b, x, y, m, n, e
<1>8. b \in Texts /\ Len(b) = m + n + 15 /\ b[1] = "{" /\ \A i \in 1 .. n : b[m + 13 + i] = y[i]
  BY <1>1 DEF IsDump
<1>9. S \subseteq 1 .. Len(b) - 1 /\ \A i \in S : b[i] = Quote
  BY <1>8, MarksOccur
<1>10. e \in S /\ \A i \in S : e <= i
  <2>1. S \subseteq Nat /\ S # {}
    BY <1>4, <1>9
  <2> QED BY <1>3, <2>1, LeastOfNumbers
<1> HIDE DEF S
<1>11. e \in Nat /\ e <= m + n + 14 /\ b[e] = Quote /\ \A i \in S : i \in Nat
  <2>1. \A i \in S : i \in Nat
    BY <1>9
  <2> QED BY <1>4, <1>9, <1>10, <2>1
<1>12. e < Begin(b) <=> tooEarly
  <2>1. ASSUME e < m + 14 PROVE \E i \in S : i < m + 14
    BY <1>10, <2>1
  <2>2. ASSUME NEW i \in S, i < m + 14 PROVE e < m + 14
    <3>1. e <= i /\ i \in Nat
      BY <1>10, <1>11
    <3> QED BY <1>1, <1>11, <2>2, <3>1
  <2> QED BY <1>2, <1>4, <2>1, <2>2
<1>13. CASE tooEarly
  <2>1. ResultOfGet = Outcome("undefined")
    BY <1>5, <1>8, <1>12, <1>13
  <2>2. ResultOfGet.kind = "undefined" /\ ResultOfGet # Value(v)
    BY <2>1 DEF Outcome, Value
  <2> QED BY <1>13, <2>2
<1>14. CASE ~tooEarly
  <2>1. ResultOfGet = Value(cut)
    BY <1>2, <1>5, <1>8, <1>12, <1>14
  <2>2. ResultOfGet.kind = "value" /\ (ResultOfGet = Value(v) <=> cut = v)
    BY <2>1 DEF Value
  <2>3. m + 14 <= e
    BY <1>1, <1>2, <1>11, <1>12, <1>14
  <2>4. cut \in Texts /\ Len(cut) = e - (m + 14) /\ \A i \in 1 .. e - (m + 14) : cut[i] = b[m + 13 + i]
    <3>1. /\ m + 14 \in 1 .. Len(b) + 1 /\ e - 1 \in (m + 14) - 1 .. Len(b)
          /\ (e - 1) + 1 - (m + 14) = e - (m + 14) /\ (m + 14) - 1 = m + 13
      <4>1. Len(b) = m + n + 15 /\ e \in Nat /\ e <= m + n + 14 /\ m \in Nat /\ n \in Nat
        BY <1>1, <1>8, <1>11
      <4> HIDE DEF cut
      <4> QED BY <2>3, <4>1
    <3>2. /\ cut \in Texts /\ Len(cut) = (e - 1) + 1 - (m + 14)
          /\ \A i \in 1 .. (e - 1) + 1 - (m + 14) : cut[i] = b[(m + 14) - 1 + i]
      BY <1>8, <3>1, CutOut
    <3> QED BY <3>1, <3>2
  <2> HIDE DEF cut
  <2>5. e - (m + 14) \in Nat /\ e - (m + 14) <= n
    BY <1>1, <1>11, <2>3
  <2>6. \A i \in 1 .. e - (m + 14) : cut[i] = y[i]
    <3>1. \A i \in 1 .. e - (m + 14) : i \in 1 .. n
      BY <1>1, <2>5
    <3> QED BY <1>8, <2>4, <3>1
  <2>7. ASSUME e # m + n + 14 PROVE e - (m + 13) \in 1 .. n /\ y[e - (m + 13)] = Quote
    <3>1. e - (m + 13) \in 1 .. n /\ m + 13 + (e - (m + 13)) = e
      BY <1>1, <1>11, <2>3, <2>7
    <3> QED BY <1>8, <1>11, <3>1
  <2>8. CASE ~Has(v, Quote) /\ ~Has(v, Backslash)
    <3>1. y = v /\ n = Len(v)
      BY <1>1, <1>6, <2>8
    <3>2. e = m + n + 14
      BY <1>7, <2>7, <2>8, <3>1 DEF Has
    <3>3. e - (m + 14) = n
      BY <1>1, <3>2
    <3>4. cut = y
      BY <1>1, <1>7, <2>4, <2>6, <3>3, SeqEqual DEF Texts
    <3> QED BY <1>14, <2>2, <2>8, <3>1, <3>4
  <2>9. CASE Has(v, Quote) \/ Has(v, Backslash)
    <3>1. cut # v
      <4> SUFFICES ASSUME cut = v PROVE FALSE
        OBVIOUS
      <4>1. Len(v) = e - (m + 14) /\ Len(v) + 1 <= n /\ y[Len(v) + 1] = Backslash
        BY <1>6, <2>4, <2>6, <2>9
      <4>2. e # m + n + 14 /\ e - (m + 13) = Len(v) + 1
        BY <1>1, <1>7, <1>11, <4>1
      <4>3. y[Len(v) + 1] = Quote
        BY <2>7, <4>2
      <4> QED BY <4>1, <4>3 DEF Quote, Backslash
    <3> QED BY <1>14, <2>2, <2>9, <3>1
  <2> QED BY <2>8, <2>9
<1> QED BY <1>13, <1>14

----------------------------------------------------------------------------
(* get                                                                     *)

\* The reply to a get is the JSON of the entry that the cache has.
RepliesInv ==
  call.op = "get" /\ reply.status = "200" =>
    call.key \in DOMAIN contents /\ reply.body = Dump(call.key, contents[call.key])

LEMMA StepReplies == TextsInv /\ RepliesInv /\ [Next]_vars => RepliesInv'
<1> SUFFICES ASSUME TextsInv, RepliesInv, [Next]_vars PROVE RepliesInv'
  OBVIOUS
<1>1. ASSUME NEW op, NEW k, NEW v, Call(op, k, v) PROVE RepliesInv'
  <2>1. reply' = NoReply
    BY <1>1 DEF Call, TextsInv
  <2> QED BY <2>1 DEF RepliesInv, NoReply
<1>2. CASE PutRefused \/ PutStored \/ ServeDelete \/ ServeHead \/ ServeReset
  BY <1>2 DEF PutRefused, PutStored, ServeDelete, ServeHead, ServeReset, Asked, Answers, RepliesInv
<1>3. CASE PutAborts \/ ServeThrows \/ ServeNothing
  BY <1>3 DEF PutAborts, ServeThrows, ServeNothing, Dies, Closed, RepliesInv
<1>4. CASE ServeMiss
  BY <1>4 DEF ServeMiss, Answers, Reply, RepliesInv
<1>5. CASE ServeHit
  <2>1. call.op = "get" /\ Path = call.key
    BY <1>5, PathOfKey DEF ServeHit, Asked
  <2>2. /\ reply'.status = "200" /\ reply'.body = Dump(call.key, contents[call.key])
        /\ call.key \in DOMAIN contents /\ UNCHANGED <<contents, call>>
    BY <1>5, <2>1 DEF ServeHit, Answers, Reply, cacheVars
  <2> QED BY <2>2 DEF RepliesInv
<1>6. CASE Return
  BY <1>6 DEF Return, RepliesInv, NoCall
<1>7. CASE UNCHANGED vars
  BY <1>7 DEF vars, RepliesInv
<1> QED BY <1>1, <1>2, <1>3, <1>4, <1>5, <1>6, <1>7 DEF Next

LEMMA RepliesInvariant == Spec => [](TextsInv /\ RepliesInv)
<1>1. Init => RepliesInv
  BY DEF Init, RepliesInv, NoCall
<1> QED BY <1>1, TextsInvariant, StepReplies, PTL DEF Spec

\* For a key and a value of any length and any characters: the substring search of
\* Impl::get brings back exactly what the server has when the value has no quote
\* and no backslash and no "} stands before its end, and it leaves its arrays
\* exactly when one stands before the value begins.
THEOREM GetReadsTheReadable == Spec => []ReadsExactlyReadable
<1>1. TextsInv /\ RepliesInv => ReadsExactlyReadable
  <2> SUFFICES ASSUME TextsInv, RepliesInv, call.op = "get", reply.status = "200"
               PROVE  ReadsExactlyReadable
    BY DEF ReadsExactlyReadable
  <2> DEFINE k == call.key
             v == contents[k]
             tooEarly == EndsInKey(k) \/ BeginsWithBrace(v)
  <2>1. k \in Texts /\ v \in Texts /\ reply.body = Dump(k, v)
    BY DEF TextsInv, RepliesInv
  <2> HIDE DEF k, v
  <2>2. /\ ResultOfGet = Value(v) <=> ~Has(v, Quote) /\ ~Has(v, Backslash) /\ ~tooEarly
        /\ ResultOfGet.kind = "undefined" <=> tooEarly
    BY <2>1, ReadingOfHit
  <2> QED BY <2>2 DEF k, v, ReadsExactlyReadable
<1> QED BY <1>1, RepliesInvariant, PTL

----------------------------------------------------------------------------
(* Ordinary calls                                                          *)

\* Ordinary calls leave nothing behind that a later one could stumble over.
OrdinaryInv ==
  ordinary =>
    /\ server = "up" /\ reply.status # "closed"
    /\ ~knowsEmpty
    /\ \A k \in DOMAIN contents : Encodable(k) /\ Encodable(contents[k])
    /\ call # NoCall => OrdinaryCall

\* The arguments that the server sees of an ordinary set.
LEMMA OrdinarySet ==
  ASSUME TextsInv, call.op = "set", OrdinaryCall
  PROVE  /\ PutKey # <<>> /\ Encodable(PutKey) /\ Encodable(PutValue)
         /\ ~NoRoom({})
<1>1. PutKey = call.key /\ PutValue = call.val /\ PutValue \in Texts
  BY PutKeyAndValue DEF OrdinaryCall
<1>2. Size(PutValue) \in Nat /\ Total({}) = 0
  BY <1>1, SizeOfText, TotalOfEntries
<1>3. ~NoRoom({})
  BY <1>1, <1>2, RoomAssumption DEF NoRoom, OrdinaryCall
<1> QED BY <1>1, <1>3 DEF OrdinaryCall, Encodable

\* What the server's steps leave alone.
LEMMA StepsOfTheServer ==
  /\ TextsInv => \A op \in {"set", "get", "del", "space_used", "reset"} : Asked({op}) => call # NoCall
  /\ \A status, body : Answers(status, body) => UNCHANGED <<call, ordinary, server>> /\ reply'.status = status
  /\ Dies => UNCHANGED <<call, ordinary>>
<1>1. ASSUME TextsInv, NEW op \in {"set", "get", "del", "space_used", "reset"}, Asked({op})
      PROVE  call # NoCall
  BY <1>1 DEF Asked, TextsInv
<1>2. ASSUME NEW status, NEW body, Answers(status, body)
      PROVE  UNCHANGED <<call, ordinary, server>> /\ reply'.status = status
  BY <1>2 DEF Answers, Reply
<1>3. ASSUME Dies PROVE UNCHANGED <<call, ordinary>>
  BY <1>3 DEF Dies
<1> QED BY <1>1, <1>2, <1>3

LEMMA StepOrdinary == TextsInv /\ OrdinaryInv /\ [Next]_vars => OrdinaryInv'
<1> SUFFICES ASSUME TextsInv, OrdinaryInv, [Next]_vars, ordinary' PROVE OrdinaryInv'
  BY DEF OrdinaryInv
<1>1. ASSUME NEW op, NEW k, NEW v, Call(op, k, v) PROVE OrdinaryInv'
  <2>1. /\ ordinary /\ OrdinaryCall'
        /\ UNCHANGED <<contents, knowsEmpty, server, reply>>
    BY <1>1, Zenon DEF Call, cacheVars
  <2> QED BY <2>1 DEF OrdinaryInv, Encodable, Has
<1>2. ASSUME UNCHANGED <<call, ordinary>>, call # NoCall
      PROVE  ordinary /\ OrdinaryCall /\ OrdinaryCall'
  BY <1>2 DEF OrdinaryInv, OrdinaryCall, Target
<1>3. ASSUME UNCHANGED <<call, ordinary, server>>, call # NoCall, reply'.status # "closed",
             ~knowsEmpty => ~knowsEmpty',
             \A k \in DOMAIN contents' : k \in DOMAIN contents /\ contents'[k] = contents[k]
      PROVE  OrdinaryInv'
  BY <1>2, <1>3 DEF OrdinaryInv, Encodable, Has
<1>4. CASE PutRefused \/ ServeMiss \/ ServeHit \/ ServeHead
  <2>1. call # NoCall
    BY <1>4, StepsOfTheServer DEF PutRefused, ServeMiss, ServeHit, ServeHead
  <2>2. UNCHANGED <<contents, knowsEmpty>>
    BY <1>4 DEF PutRefused, ServeMiss, ServeHit, ServeHead, cacheVars
  <2>3. \E status \in {"200", "404"} : \E body : Answers(status, body)
    BY <1>4 DEF PutRefused, ServeMiss, ServeHit, ServeHead
  <2>4. UNCHANGED <<call, ordinary, server>> /\ reply'.status # "closed"
    BY <2>3, StepsOfTheServer
  <2> QED BY <1>3, <2>1, <2>2, <2>4
<1>5. CASE ServeDelete \/ ServeReset
  <2>1. call # NoCall
    BY <1>5, StepsOfTheServer DEF ServeDelete, ServeReset
  <2>2. UNCHANGED <<call, ordinary, server>> /\ reply'.status = "200"
    BY <1>5, StepsOfTheServer DEF ServeDelete, ServeReset
  <2>3. ~knowsEmpty => ~knowsEmpty'
    BY <1>5 DEF ServeDelete, ServeReset
  <2>4. \A k \in DOMAIN contents' : k \in DOMAIN contents /\ contents'[k] = contents[k]
    BY <1>5 DEF ServeDelete, ServeReset, Restrict
  <2> QED BY <1>3, <2>1, <2>2, <2>3, <2>4
<1>6. CASE PutStored
  <2>1. call # NoCall
    BY <1>6, StepsOfTheServer DEF PutStored
  <2>2. UNCHANGED <<call, ordinary, server>> /\ reply'.status = "200"
    BY <1>6, StepsOfTheServer DEF PutStored
  <2>3. call.op = "set" /\ (knowsEmpty' <=> knowsEmpty \/ PutKey = <<>>)
    BY <1>6 DEF PutStored, Asked
  <2>4. OrdinaryCall /\ OrdinaryCall' /\ ordinary
    BY <1>2, <2>1, <2>2
  <2>5. PutKey # <<>> /\ Encodable(PutKey) /\ Encodable(PutValue)
    BY <2>3, <2>4, OrdinarySet
  <2>6. /\ contents'[PutKey] = PutValue
        /\ \A k \in DOMAIN contents' \ {PutKey} : k \in DOMAIN contents /\ contents'[k] = contents[k]
    BY <1>6, PutEntries
  <2>7. \A k \in DOMAIN contents' : Encodable(k) /\ Encodable(contents'[k])
    BY <2>4, <2>5, <2>6 DEF OrdinaryInv, Encodable, Has
  <2>8. ~knowsEmpty'
    BY <2>3, <2>4, <2>5 DEF OrdinaryInv
  <2> QED BY <2>2, <2>4, <2>7, <2>8 DEF OrdinaryInv, Encodable, Has
<1>7. CASE PutAborts
  <2>1. call # NoCall /\ UNCHANGED <<call, ordinary>>
    BY <1>7, StepsOfTheServer DEF PutAborts
  <2>2. call.op = "set" /\ OrdinaryCall
    BY <1>2, <1>7, <2>1 DEF PutAborts, Asked
  <2>3. ~NoRoom({}) /\ ~knowsEmpty
    BY <1>2, <2>1, <2>2, OrdinarySet DEF OrdinaryInv
  <2> QED BY <1>7, <2>3 DEF PutAborts
<1>8. CASE ServeThrows
  <2>1. call # NoCall /\ UNCHANGED <<call, ordinary>>
    BY <1>8, StepsOfTheServer DEF ServeThrows
  <2>2. Dumpable
    BY <1>2, <1>8, <2>1 DEF OrdinaryInv, ServeThrows, Dumpable
  <2> QED BY <1>8, <2>2 DEF ServeThrows
<1>9. CASE ServeNothing
  <2>1. call # NoCall /\ UNCHANGED <<call, ordinary>> /\ (server = "down" \/ ~Parses(Target))
    BY <1>9 DEF ServeNothing
  <2> QED BY <1>2, <2>1 DEF OrdinaryInv, OrdinaryCall
<1>10. CASE Return
  <2>1. call' = NoCall /\ reply'.status = "none" /\ UNCHANGED <<contents, knowsEmpty, server, ordinary>>
    BY <1>10 DEF Return, NoReply, cacheVars
  <2> QED BY <2>1 DEF OrdinaryInv, Encodable, Has
<1>11. CASE UNCHANGED vars
  BY <1>11 DEF vars, OrdinaryInv, Encodable, Has, OrdinaryCall, Target
<1> QED BY <1>1, <1>4, <1>5, <1>6, <1>7, <1>8, <1>9, <1>10, <1>11 DEF Next

\* For any sequence of ordinary calls, of any number of keys and any sizes below the
\* limit: none of them makes an assertion of Cache::set fail or dump() throw, and
\* each is answered.  No eviction ever meets the key "" or an empty evictor.
THEOREM OrdinaryCallsSucceed == Spec => []OrdinaryCallsAreServed
<1>1. Init => OrdinaryInv
  <2> SUFFICES ASSUME Init PROVE OrdinaryInv
    OBVIOUS
  <2>1. DOMAIN contents = {}
    BY DEF Init
  <2> QED BY <2>1 DEF Init, OrdinaryInv, NoReply
<1>2. OrdinaryInv => OrdinaryCallsAreServed
  BY DEF OrdinaryInv, OrdinaryCallsAreServed
<1> QED BY <1>1, <1>2, TextsInvariant, StepOrdinary, PTL DEF Spec
=============================================================================
