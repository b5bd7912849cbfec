----------------------------- MODULE WireCodec -----------------------------
(***************************************************************************)
(* How the calls of the network client become requests and their replies   *)
(* become results: cache_client.cc and the targets and bodies of           *)
(* handle_request in cache_server.cc.                                      *)
(*                                                                         *)
(* Nothing in a target is encoded, and the client looks for the value in   *)
(* the text of the JSON it gets.  So here, and only here, keys and values  *)
(* are texts: sequences of the characters that something on the way treats *)
(* in its own manner, "a" standing for all others and "key" and "value" for*)
(* the words of the JSON.  When connections end is module Connection's; how *)
(* the library chooses what it evicts is module CacheLib's.                *)
(***************************************************************************)
EXTENDS Integers, SequencesExt

CONSTANTS
  KeyTexts, ValueTexts,   \* the keys and the values of calls
  MaxMem,                 \* Impl::my_maxmem, far below the width of an int
  MaxTarget               \* the longest target whose header the HTTP parser reads

ASSUME RoomAssumption == MaxMem \in Nat /\ MaxTarget \in Nat
ASSUME TextsAssumption == KeyTexts \union ValueTexts \subseteq Seq(STRING)

Slash == "/"
Quote == "\""
Backslash == "\\"
Brace == "}"
Space == " "    \* a character that cannot stand in an HTTP target
Byte == "byte"  \* one that can, and is not UTF-8

VARIABLES
  contents,   \* the server's cache, from keys to values
  knowsEmpty, \* the evictor has the key "", which evict() returns for nothing left
  server,     \* "up", or "down" when an exception or an assertion has ended it
  call,       \* the client's call under way
  reply,      \* what the client's http::read returns
  ordinary    \* auxiliary: all calls so far were ordinary ones

cacheVars == <<contents, knowsEmpty>>
vars == <<contents, knowsEmpty, server, call, reply, ordinary>>

NoCall == [op |-> "none", key |-> <<>>, val |-> <<>>]
NoReply == [status |-> "none", body |-> <<>>]
Closed == [status |-> "closed", body |-> <<>>]
Reply(status, body) == [status |-> status, body |-> body]

Has(text, c) == \E i \in DOMAIN text : text[i] = c

\* The length of a text, and the size of a value with the 0 that ends it.
Occurs(text, c) == Cardinality({i \in DOMAIN text : text[i] = c})
Bytes(text) == Len(text) + 4 * Occurs(text, "value") + 2 * Occurs(text, "key")
Size(text) == Bytes(text) + 1

Init ==
  /\ contents = <<>> /\ knowsEmpty = FALSE
  /\ server = "up"
  /\ call = NoCall
  /\ reply = NoReply
  /\ ordinary = TRUE

----------------------------------------------------------------------------
(* The client's side of a request                                          *)

\* make_request: the target that each of Impl's operations puts together.
Target ==
  CASE call.op = "set"            -> <<Slash>> \o call.key \o <<Slash>> \o call.val
    [] call.op \in {"get", "del"} -> <<Slash>> \o call.key
    [] call.op = "space_used"     -> <<Slash>>
    [] call.op = "reset"          -> <<Slash, "a">>

\* A target makes HTTP of the request when no space ends it early and the header
\* stays below the parser's limit.
Parses(target) == ~Has(target, Space) /\ Bytes(target) <= MaxTarget

\* What any client may well send: readable requests, and sets of a key that has
\* characters and no slash, of text only, and of a value that fits the cache.
OrdinaryCall ==
  /\ Parses(Target)
  /\ call.op = "set" =>
       /\ call.key # <<>> /\ ~Has(call.key, Slash)
       /\ ~Has(call.key, Byte) /\ ~Has(call.val, Byte)
       /\ Size(call.val) <= MaxMem

Call(op, k, v) ==
  /\ call = NoCall
  /\ call' = [op |-> op, key |-> k, val |-> v]
  /\ ordinary' = (ordinary /\ OrdinaryCall')
  /\ UNCHANGED <<cacheVars, server, reply>>

----------------------------------------------------------------------------
(* The server: targets                                                     *)

\* The target without its first character.
Path == Tail(Target)

\* Mutant of Split: rfind in the place of find.
SplitAtLast(path) == Max({i \in DOMAIN path : path[i] = Slash})

\* PUT cuts the path at the first slash.
Split(path) == Min({i \in DOMAIN path : path[i] = Slash})
PutKey == SubSeq(Path, 1, Split(Path) - 1)
PutValue == SubSeq(Path, Split(Path) + 1, Len(Path))

(* The server: bodies                                                      *)

Encodable(text) == ~Has(text, Byte)

\* json::dump of a string.
Escaped(text) ==
  FlattenSeq([i \in DOMAIN text |->
    IF text[i] \in {Quote, Backslash} THEN <<Backslash, text[i]>> ELSE <<text[i]>>])

\* tuple.dump(): the key comes first.
Dump(k, v) ==
  <<"{", Quote, "key", Quote, ":", Quote>> \o Escaped(k) \o <<Quote, ",">>
    \o <<Quote, "value", Quote, ":", Quote>> \o Escaped(v) \o <<Quote, Brace>>

----------------------------------------------------------------------------
(* handle_request                                                          *)

Asked(ops) == server = "up" /\ call.op \in ops /\ reply = NoReply /\ Parses(Target)
Answers(status, body) == reply' = Reply(status, body) /\ UNCHANGED <<server, call, ordinary>>
Dies == server' = "down" /\ reply' = Closed /\ UNCHANGED <<call, ordinary>>

\* Cache::set: the sizes it adds up, and its two comparisons with my_maxmem.
Total(ks) == Cardinality(UNION {{k} \X (1 .. Size(contents[k])) : k \in ks})
Others == DOMAIN contents \ {PutKey}
OldSize == IF PutKey \in DOMAIN contents THEN Size(contents[PutKey]) ELSE 0

Refused == Size(PutValue) - OldSize > MaxMem

\* Mutant of NoRoom: >= in the place of >.
NoRoomAtLimit(ks) == Total(ks) + Size(PutValue) >= MaxMem
NoRoom(ks) == Total(ks) + Size(PutValue) > MaxMem

\* A set that the library refuses returns nothing that would say so.
PutRefused ==
  /\ Asked({"set"}) /\ Refused
  /\ Answers("200", <<>>)
  /\ UNCHANGED cacheVars

\* Others are evicted until the rest leaves room, which in the order of their
\* last uses may be any, but for the key "".
PutStored ==
  /\ Asked({"set"}) /\ ~Refused
  /\ \E kept \in SUBSET Others :
       /\ ~NoRoom(kept)
       /\ kept = Others \/ \E k \in Others \ kept : NoRoom(kept \union {k})
       /\ <<>> \notin Others \ kept
       /\ contents' = [k \in kept \union {PutKey} |-> IF k = PutKey THEN PutValue ELSE contents[k]]
  /\ knowsEmpty' = (knowsEmpty \/ PutKey = <<>>)
  /\ Answers("200", <<>>)

\* The assertion on what evict() returns fails: for a value too large although it
\* passed for a small change, when nothing is left, or for the key "".
PutAborts ==
  /\ Asked({"set"}) /\ ~Refused
  /\ NoRoom({}) \/ (knowsEmpty /\ NoRoom(Others))
  /\ Dies
  /\ UNCHANGED cacheVars

ServeMiss ==
  /\ Asked({"get"}) /\ Path \notin DOMAIN contents
  /\ Answers("404", <<"a">>)
  /\ UNCHANGED cacheVars

Dumpable == Encodable(Path) /\ Encodable(contents[Path])

ServeHit ==
  /\ Asked({"get"}) /\ Path \in DOMAIN contents
  /\ Dumpable
  /\ Answers("200", Dump(Path, contents[Path]))
  /\ UNCHANGED cacheVars

\* dump() throws, and nothing on the way out of the thread catches it so that
\* the server would go on.
ServeThrows ==
  /\ Asked({"get"}) /\ Path \in DOMAIN contents
  /\ ~Dumpable
  /\ Dies
  /\ UNCHANGED cacheVars

ServeDelete ==
  /\ Asked({"del"})
  /\ contents' = Restrict(contents, DOMAIN contents \ {Path})
  /\ Answers("200", <<>>)
  /\ UNCHANGED knowsEmpty

ServeHead ==
  /\ Asked({"space_used"})
  /\ Answers("200", <<>>)
  /\ UNCHANGED cacheVars

\* Draining the evictor ends with the key "", where it has it.
ServeReset ==
  /\ Asked({"reset"})
  /\ contents' = <<>> /\ knowsEmpty' = FALSE
  /\ Answers("200", <<>>)

\* A request that is no HTTP, or one to a server that is gone.
ServeNothing ==
  /\ call # NoCall /\ reply = NoReply
  /\ server = "down" \/ ~Parses(Target)
  /\ reply' = Closed
  /\ UNCHANGED <<cacheVars, server, call, ordinary>>

----------------------------------------------------------------------------
(* The client's side of a reply                                            *)

Occurrences(text, part) ==
  {i \in 1 .. Len(text) - Len(part) + 1 : SubSeq(text, i, i + Len(part) - 1) = part}
Find(text, part) == Min(Occurrences(text, part))

\* Mutant of Begin: one character less is skipped.
BeginAtQuote(body) == Find(body, <<"value", Quote, ":", Quote>>) + 3

\* Impl::get: the value is what stands between the first value":" and the
\* first "} of the text.  When the end comes first the length is negative,
\* and the loop that copies runs out of its arrays.
Begin(body) == Find(body, <<"value", Quote, ":", Quote>>) + 4
End(body) == Find(body, <<Quote, Brace>>)

Value(text) == [kind |-> "value", text |-> text, size |-> Size(text)]
Outcome(kind) == [kind |-> kind, text |-> <<>>, size |-> 0]

ResultOfGet ==
  IF reply.body[1] # "{" THEN Outcome("nullptr")
  ELSE IF End(reply.body) < Begin(reply.body) THEN Outcome("undefined")
  ELSE Value(SubSeq(reply.body, Begin(reply.body), End(reply.body) - 1))

\* A call that finds the stream closed throws.
Return ==
  /\ reply # NoReply
  /\ call' = NoCall /\ reply' = NoReply
  /\ UNCHANGED <<cacheVars, server, ordinary>>

Next ==
  \/ \E k \in KeyTexts, v \in ValueTexts : Call("set", k, v)
  \/ \E op \in {"get", "del"}, k \in KeyTexts : Call(op, k, <<>>)
  \/ \E op \in {"space_used", "reset"} : Call(op, <<>>, <<>>)
  \/ PutRefused \/ PutStored \/ PutAborts
  \/ ServeMiss \/ ServeHit \/ ServeThrows \/ ServeDelete
  \/ ServeHead \/ ServeReset \/ ServeNothing
  \/ Return

Spec == Init /\ [][Next]_vars

----------------------------------------------------------------------------
(* Properties                                                              *)

\* After a set that is answered, the cache has the client's value under the
\* client's key, and no other entry has changed but by being evicted, exactly when
\* there is no slash in the key and the value fits the cache on its own.
SetsExactlyItsKey ==
  [][call.op = "set" /\ reply'.status = "200" =>
       (~Has(call.key, Slash) /\ Size(call.val) <= MaxMem <=>
          /\ call.key \in DOMAIN contents'
          /\ contents'[call.key] = call.val
          /\ \A k \in DOMAIN contents' \ {call.key} :
               k \in DOMAIN contents /\ contents'[k] = contents[k])]_vars

\* The text of key shows "} in the JSON before the value begins.
EndsInKey(k) ==
  (k # <<>> /\ k[1] = Brace) \/ \E i \in 2 .. Len(k) : k[i - 1] = Quote /\ k[i] = Brace
BeginsWithBrace(v) == v # <<>> /\ v[1] = Brace

\* What the client's get makes of a hit is the value that the server has, and
\* its size, exactly when the value has neither quote nor backslash and no "}
\* shows before its end; its behaviour is undefined exactly when one shows
\* before the value begins.
ReadsExactlyReadable ==
  call.op = "get" /\ reply.status = "200" =>
    LET k == call.key
        v == contents[k]
        tooEarly == EndsInKey(k) \/ BeginsWithBrace(v)
    IN /\ ResultOfGet = Value(v) <=> ~Has(v, Quote) /\ ~Has(v, Backslash) /\ ~tooEarly
       /\ ResultOfGet.kind = "undefined" <=> tooEarly

\* As long as all clients make ordinary calls only, in whatever order and however
\* many, the server stays up and answers each of them: no eviction, deletion or
\* reset brings the assertions of Cache::set or the exception of dump() about.
OrdinaryCallsAreServed == ordinary => server = "up" /\ reply.status # "closed"
=============================================================================
