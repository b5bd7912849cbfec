-------------------------- MODULE ConnectionProofs --------------------------
(***************************************************************************)
(* Theorems about the connections, for any number of clients, requests and *)
(* sockets.                                                                *)
(*                                                                         *)
(* Of each connection the invariant says what its two streams hold in each *)
(* state of client and session.  It speaks of one client at a time, so     *)
(* that module LoadToolsProofs can use it where many leave in one step.    *)
(***************************************************************************)
EXTENDS Connection, SequenceTheorems, TLAPS

InBacklog(c) == \E i \in DOMAIN backlog : backlog[i] = c

\* Why a client may find its stream at the end.
Ended(c) == c \in expired \/ c \in lost
Excused(c) == wrote[c] = "bad" \/ last[c] = "ok" \/ Ended(c)

\* No reply is on its way, and there will be none if the stream has ended.
Silent(c) ==
  \/ session[c] \in {"none", "reading"} /\ down[c] = <<>>
  \/ session[c] = "written" /\ down[c] = <<>> /\ ~NeedEof(reply[c])
  \/ session[c] = "closed" /\ down[c] = <<Fin>> /\ Excused(c)

\* The reply to the last request is on its way, or lost with the session.
Answering(c) ==
  \/ session[c] = "writing" /\ down[c] = <<>> /\ reply[c].id = sent[c]
  \/ session[c] = "written" /\ down[c] = <<reply[c]>> /\ reply[c].id = sent[c]
  \/ session[c] = "reading" /\ down[c] = <<Message("error", sent[c])>>
  \/ session[c] = "closed" /\ down[c] = <<Fin>> /\ Ended(c)
  \/ session[c] = "closed" /\ \E kind \in Kinds :
       /\ down[c] = <<Message(kind, sent[c]), Fin>>
       /\ Ended(c) \/ kind = "ok"

Requested(c) == Message(wrote[c], sent[c])

ConnectionInv(c) ==
  /\ InBacklog(c) => session[c] = "none"
  /\ client[c] \in {"new", "refused"} =>
       /\ sent[c] = 0 /\ executed[c] = 0 /\ ~InBacklog(c)
       /\ up[c] = <<>> /\ down[c] = <<>> /\ session[c] = "none" /\ wrote[c] = "none"
  /\ client[c] = "ready" =>
       up[c] = <<>> /\ executed[c] = sent[c] /\ Silent(c) /\ wrote[c] # "bad"
  /\ client[c] = "waiting" =>
       /\ sent[c] > 0
       /\ \/ up[c] = <<Requested(c)>> /\ executed[c] = sent[c] - 1 /\ Silent(c)
          \/ up[c] = <<>> /\ executed[c] = sent[c] /\ Answering(c) /\ wrote[c] # "bad"
  /\ client[c] \in {"gone", "aborted"} =>
       \/ up[c] = <<Requested(c), Fin>> /\ executed[c] = sent[c] - 1 /\ sent[c] > 0
       \/ up[c] = <<Fin>> /\ executed[c] = sent[c]
  /\ client[c] = "aborted" => Excused(c)

BacklogInv == \A i, j \in DOMAIN backlog : backlog[i] = backlog[j] => i = j

StreamsInv == TypeOK /\ BacklogInv /\ \A c \in Clients : ConnectionInv(c)

----------------------------------------------------------------------------
(* Streams and the backlog                                                 *)

LEMMA ShortStreams ==
  ASSUME NEW m, NEW n
  PROVE  /\ Append(<<>>, m) = <<m>> /\ Append(<<m>>, n) = <<m, n>>
         /\ Head(<<m>>) = m /\ Tail(<<m>>) = <<>>
         /\ Head(<<m, n>>) = m /\ Tail(<<m, n>>) = <<n>>
         /\ Len(<<m>>) = 1 /\ Len(<<m, n>>) = 2
         /\ <<m>> # <<>> /\ <<m, n>> # <<>>
<1> DEFINE S == {m, n}
<1>1. <<>> \in Seq(S) /\ <<m>> \in Seq(S) /\ <<m, n>> \in Seq(S)
  OBVIOUS
<1>2. Len(<<m>>) = 1 /\ Len(<<m, n>>) = 2 /\ Len(<<>>) = 0
  OBVIOUS
<1>3. Head(<<m>>) = m /\ Head(<<m, n>>) = m
  OBVIOUS
<1>4. Append(<<>>, m) = <<m>>
  OBVIOUS
<1>5. Append(<<m>>, n) = <<m, n>>
  <2>1. Append(<<m>>, n) \in Seq(S) /\ Len(Append(<<m>>, n)) = 2
    BY <1>1, <1>2
  <2>2. \A i \in 1 .. 2 : Append(<<m>>, n)[i] = <<m, n>>[i]
    BY <1>1, <1>2
  <2> QED BY <1>1, <1>2, <2>1, <2>2, SeqEqual
<1>6. Tail(<<m>>) = <<>>
  OBVIOUS
<1>7. Tail(<<m, n>>) = <<n>>
  OBVIOUS
<1> QED BY <1>2, <1>3, <1>4, <1>5, <1>6, <1>7

\* What connecting and accepting do to the backlog.
LEMMA BacklogAppend ==
  ASSUME NEW S, NEW q \in Seq(S), NEW x \in S
  PROVE  /\ Append(q, x) \in Seq(S)
         /\ DOMAIN Append(q, x) = DOMAIN q \union {Len(q) + 1}
         /\ \A i \in DOMAIN q : Append(q, x)[i] = q[i]
         /\ Append(q, x)[Len(q) + 1] = x
OBVIOUS

LEMMA BacklogTail ==
  ASSUME NEW S, NEW q \in Seq(S), q # <<>>
  PROVE  /\ Head(q) \in S /\ Head(q) = q[1] /\ 1 \in DOMAIN q
         /\ Tail(q) \in Seq(S)
         /\ \A i \in DOMAIN Tail(q) : i + 1 \in DOMAIN q /\ Tail(q)[i] = q[i + 1] /\ i + 1 # 1
OBVIOUS

----------------------------------------------------------------------------
(* One connection                                                          *)

\* All that ConnectionInv(c) looks at, except where c is in the backlog.
Local(c) == <<client[c], sent[c], wrote[c], last[c], up[c], down[c], session[c], reply[c],
              executed[c], c \in expired, c \in lost>>

\* A step that leaves a connection alone keeps its part of the invariant.
LEMMA OthersKeepInv ==
  ASSUME NEW c, ConnectionInv(c), UNCHANGED Local(c), InBacklog(c)' = InBacklog(c)
  PROVE  ConnectionInv(c)'
BY DEF Local, ConnectionInv, Silent, Answering, Excused, Ended, Requested

LEMMA ConnectKeepsInv ==
  ASSUME TypeOK, NEW c \in Clients, ConnectionInv(c), Connect(c)
  PROVE  ConnectionInv(c)'
<1>1. /\ client[c] = "new" /\ client'[c] = "ready"
      /\ UNCHANGED <<sent, wrote, last, up, down, session, reply, executed, expired, lost>>
  BY DEF Connect, TypeOK, processVars
<1>2. /\ sent[c] = 0 /\ executed[c] = 0 /\ up[c] = <<>> /\ down[c] = <<>> /\ session[c] = "none"
      /\ wrote[c] = "none"
  BY <1>1 DEF ConnectionInv
<1>3. Silent(c)'
  BY <1>1, <1>2 DEF Silent
<1> QED BY <1>1, <1>2, <1>3 DEF ConnectionInv

LEMMA RefusedKeepsInv ==
  ASSUME TypeOK, NEW c \in Clients, ConnectionInv(c), ConnectThrows(c)
  PROVE  ConnectionInv(c)'
BY DEF ConnectThrows, Unreachable, TypeOK, ConnectionInv, InBacklog, serverVars

LEMMA SendKeepsInv ==
  ASSUME TypeOK, NEW c \in Clients, ConnectionInv(c), SendRequest(c)
  PROVE  ConnectionInv(c)'
<1>1. up[c] = <<>> /\ executed[c] = sent[c] /\ Silent(c) /\ client[c] = "ready" /\ wrote[c] # "bad"
  BY DEF SendRequest, ConnectionInv
<1>2. /\ client'[c] = "waiting" /\ sent'[c] = sent[c] + 1 /\ sent[c] \in Nat
      /\ UNCHANGED <<last, down, session, reply, executed, backlog, expired, lost>>
  BY DEF SendRequest, TypeOK, serverVars, processVars
<1>3. up'[c] = <<Message(wrote'[c], sent'[c])>>
  <2>1. PICK kind \in RequestKinds :
          /\ wrote' = [wrote EXCEPT ![c] = kind]
          /\ up' = [up EXCEPT ![c] = Append(@, Message(kind, sent[c] + 1))]
    BY DEF SendRequest
  <2>2. wrote'[c] = kind /\ up'[c] = Append(up[c], Message(kind, sent[c] + 1))
    BY <2>1 DEF TypeOK
  <2> QED BY <1>1, <1>2, <2>2, ShortStreams
<1>4. Silent(c)'
  BY <1>1, <1>2 DEF Silent, Excused, Ended
<1>5. executed'[c] = sent'[c] - 1
  BY <1>1, <1>2
<1> QED BY <1>2, <1>3, <1>4, <1>5 DEF ConnectionInv, Requested, InBacklog

\* Reading a whole reply.
LEMMA TakeKeepsInv ==
  ASSUME TypeOK, NEW c \in Clients, ConnectionInv(c), TakeReply(c)
  PROVE  ConnectionInv(c)'
<1>1. /\ client[c] = "waiting" /\ client'[c] = "ready" /\ IsWhole(down[c])
      /\ last'[c] = Head(down[c]).kind /\ down'[c] = Tail(down[c])
      /\ UNCHANGED <<sent, wrote, up, session, reply, executed, backlog, expired, lost>>
  BY DEF TakeReply, TypeOK, serverVars, processVars
<1>2. down[c] # <<>> /\ Head(down[c]) # Fin
  BY <1>1 DEF IsWhole, Fin
<1>3. ~Silent(c)
  BY <1>2, ShortStreams DEF Silent
<1>4. up[c] = <<>> /\ executed[c] = sent[c] /\ sent[c] > 0 /\ Answering(c) /\ wrote[c] # "bad"
  BY <1>1, <1>3 DEF ConnectionInv
<1>5. Silent(c)'
  <2>1. CASE session[c] = "written" /\ down[c] = <<reply[c]>>
    <3>1. ~NeedEof(reply[c])
      BY <1>1, <2>1, ShortStreams DEF IsWhole, NeedEof
    <3> QED BY <1>1, <2>1, <3>1, ShortStreams DEF Silent
  <2>2. CASE session[c] = "reading" /\ down[c] = <<Message("error", sent[c])>>
    BY <1>1, <2>2, ShortStreams DEF Silent
  <2>3. ASSUME NEW kind \in Kinds, session[c] = "closed", Ended(c) \/ kind = "ok",
               down[c] = <<Message(kind, sent[c]), Fin>>
        PROVE  Silent(c)'
    BY <1>1, <2>3, ShortStreams DEF Silent, Excused, Ended, Message
  <2> QED BY <1>2, <1>4, <2>1, <2>2, <2>3, ShortStreams DEF Answering
<1> QED BY <1>1, <1>4, <1>5 DEF ConnectionInv, InBacklog

\* The client leaves, by an exception or without one.
LEMMA LeaveKeepsInv ==
  ASSUME TypeOK, NEW c \in Clients, ConnectionInv(c),
         client[c] \in {"ready", "waiting"},
         client'[c] \in {"gone", "aborted"},
         client'[c] = "aborted" => StreamEnded(c),
         up'[c] = Append(up[c], Fin),
         UNCHANGED <<sent, wrote, last, serverVars>>
  PROVE  ConnectionInv(c)'
<1>1. UNCHANGED <<sent, wrote, last, session, executed, backlog, expired, lost>>
  BY DEF serverVars, processVars
<1>2. \/ up[c] = <<Requested(c)>> /\ executed[c] = sent[c] - 1 /\ sent[c] > 0
      \/ up[c] = <<>> /\ executed[c] = sent[c]
  BY DEF ConnectionInv
<1>3. \/ up'[c] = <<Requested(c), Fin>> /\ executed[c] = sent[c] - 1 /\ sent[c] > 0
      \/ up'[c] = <<Fin>> /\ executed[c] = sent[c]
  BY <1>2, ShortStreams
<1>4. client'[c] = "aborted" => Excused(c)
  <2> SUFFICES ASSUME client'[c] = "aborted" PROVE Excused(c)
    OBVIOUS
  <2>1. client[c] = "waiting" /\ down[c] # <<>> /\ Head(down[c]) = Fin
    BY DEF StreamEnded
  <2>2. sent[c] > 0 /\ (Silent(c) \/ Answering(c))
    BY <2>1 DEF ConnectionInv
  <2>3. CASE Silent(c)
    BY <2>1, <2>3 DEF Silent
  <2>4. CASE Answering(c)
    <3>1. reply[c].id = sent[c] => reply[c] # Fin
      BY <2>2 DEF Fin
    <3>2. \A kind : Message(kind, sent[c]) # Fin
      BY <2>2 DEF Fin, Message
    <3>3. session[c] = "closed" /\ down[c] = <<Fin>> /\ Ended(c)
      BY <2>1, <2>4, <3>1, <3>2, ShortStreams DEF Answering
    <3> QED BY <3>3 DEF Excused
  <2> QED BY <2>2, <2>3, <2>4
<1> QED BY <1>1, <1>3, <1>4 DEF ConnectionInv, InBacklog, Excused, Ended, Requested

\* A connection in the backlog gets its session.
LEMMA AcceptKeepsInv ==
  ASSUME TypeOK, BacklogInv, \A c \in Clients : ConnectionInv(c), Accept, NEW c \in Clients
  PROVE  ConnectionInv(c)'
<1>1. /\ Head(backlog) \in Clients /\ Head(backlog) = backlog[1] /\ 1 \in DOMAIN backlog
      /\ Tail(backlog) \in Seq(Clients)
      /\ \A i \in DOMAIN Tail(backlog) :
           i + 1 \in DOMAIN backlog /\ Tail(backlog)[i] = backlog[i + 1] /\ i + 1 # 1
  BY BacklogTail DEF Accept, TypeOK
<1>2. InBacklog(c)' => InBacklog(c) /\ c # Head(backlog)
  BY <1>1 DEF Accept, InBacklog, BacklogInv
<1>3. UNCHANGED <<client, sent, wrote, last, up, down, reply, executed, expired, lost>>
  BY DEF Accept, clientVars, processVars
<1>4. CASE c = Head(backlog)
  <2>1. session[c] = "none" /\ session'[c] = "reading" /\ InBacklog(c)
    BY <1>1, <1>4 DEF Accept, TypeOK, InBacklog, ConnectionInv
  <2>2. Silent(c) => Silent(c)'
    BY <1>3, <2>1 DEF Silent
  <2>3. ~Answering(c)
    BY <2>1 DEF Answering
  <2>4. ~InBacklog(c)' /\ ConnectionInv(c)
    BY <1>2, <1>4
  <2> QED BY <1>3, <2>1, <2>2, <2>3, <2>4 DEF ConnectionInv, Requested, Excused, Ended
<1>5. CASE c # Head(backlog)
  <2>1. session'[c] = session[c]
    BY <1>5 DEF Accept, TypeOK
  <2> QED BY <1>2, <1>3, <2>1 DEF ConnectionInv, Silent, Answering, Excused, Ended, Requested
<1> QED BY <1>4, <1>5

\* handle_request has executed a request.
LEMMA ReadKeepsInv ==
  ASSUME TypeOK, NEW c \in Clients, ConnectionInv(c), OnRead(c)
  PROVE  ConnectionInv(c)' /\ executed'[c] = sent[c]
<1>1. PICK kind \in Kinds : reply' = [reply EXCEPT ![c] = Message(kind, Head(up[c]).id)]
  BY DEF OnRead
<1>2. /\ session[c] = "reading" /\ session'[c] = "writing" /\ up[c] # <<>> /\ Head(up[c]) # Fin
      /\ executed'[c] = executed[c] + 1 /\ up'[c] = Tail(up[c])
      /\ reply'[c].id = Head(up[c]).id
      /\ Head(up[c]).kind = "request"
      /\ UNCHANGED <<client, sent, wrote, last, down, backlog, expired, lost>>
  BY <1>1 DEF OnRead, TypeOK, Message, clientVars, processVars, Fin
<1>3. /\ sent[c] > 0 /\ executed[c] = sent[c] - 1 /\ client[c] \in {"waiting", "gone", "aborted"}
      /\ \/ client[c] = "waiting" /\ up[c] = <<Requested(c)>> /\ Silent(c)
         \/ client[c] \in {"gone", "aborted"} /\ up[c] = <<Requested(c), Fin>>
  BY <1>2, ShortStreams DEF ConnectionInv, TypeOK
<1>4. executed'[c] = sent[c] /\ reply'[c].id = sent[c]
  BY <1>2, <1>3, ShortStreams DEF Requested, Message, TypeOK
<1>5. ~InBacklog(c)
  BY <1>2 DEF ConnectionInv
<1>6. CASE client[c] = "waiting"
  <2>1. up'[c] = <<>> /\ down[c] = <<>>
    BY <1>2, <1>3, <1>6, ShortStreams DEF Silent
  <2>2. wrote[c] # "bad"
    <3>1. Head(<<Requested(c)>>) = Requested(c) /\ Requested(c).kind = wrote[c]
      BY ShortStreams DEF Requested, Message
    <3> QED BY <1>2, <1>3, <1>6, <3>1
  <2> QED BY <1>2, <1>3, <1>4, <1>5, <1>6, <2>1, <2>2 DEF ConnectionInv, Answering, InBacklog
<1>7. CASE client[c] \in {"gone", "aborted"}
  <2>1. up[c] = <<Requested(c), Fin>> /\ Tail(<<Requested(c), Fin>>) = <<Fin>>
    BY <1>3, <1>7, ShortStreams
  <2>2. up'[c] = <<Fin>>
    BY <1>2, <2>1
  <2> QED BY <1>2, <1>4, <1>5, <1>7, <2>2 DEF ConnectionInv, InBacklog, Excused, Ended
<1> QED BY <1>3, <1>4, <1>6, <1>7

\* A session ends: after a reply that needs it or a request that is not read, by
\* its timer, because the client has gone, or with the server's process, which
\* ends what has not become a session, too.
LEMMA CloseKeepsInv ==
  ASSUME TypeOK, NEW c \in Clients, ConnectionInv(c),
         session'[c] = "closed", down'[c] = Append(down[c], Fin),
         session[c] \in {"reading", "writing", "written"} \/ InBacklog(c),
         \/ client[c] \in {"gone", "aborted"}
         \/ session[c] = "written" /\ NeedEof(reply[c])
         \/ up[c] = <<Requested(c)>> /\ wrote[c] = "bad"
         \/ Ended(c)',
         Ended(c) => Ended(c)',
         UNCHANGED <<clientVars, up, reply, executed>>, UNCHANGED backlog \/ backlog' = <<>>,
         InBacklog(c) => backlog' = <<>>
  PROVE  ConnectionInv(c)'
<1>1. UNCHANGED <<client, sent, wrote, last, up, reply, executed>>
  BY DEF clientVars
<1>2. ~InBacklog(c)' /\ client[c] \notin {"new", "refused"} /\ session[c] # "closed"
  BY DEF ConnectionInv, InBacklog
<1>3. CASE client[c] \in {"gone", "aborted"}
  BY <1>1, <1>2, <1>3 DEF ConnectionInv, Excused, Requested
<1>4. CASE client[c] \in {"ready", "waiting"}
  <2>1. Silent(c) => Silent(c)'
    BY <1>1, <1>2, <1>4, ShortStreams DEF Silent, Excused
  <2>2. Answering(c) /\ sent[c] > 0 /\ up[c] = <<>> => Answering(c)'
    <3> SUFFICES ASSUME Answering(c), sent[c] > 0, up[c] = <<>> PROVE Answering(c)'
      OBVIOUS
    <3>0. Ended(c)' \/ (session[c] = "written" /\ NeedEof(reply[c]))
      <4>1. <<Requested(c)>> # <<>>
        BY ShortStreams
      <4> QED BY <1>4, <4>1
    <3>1. CASE session[c] = "writing" /\ down[c] = <<>>
      BY <1>1, <3>0, <3>1, ShortStreams DEF Answering
    <3>2. CASE session[c] = "written" /\ down[c] = <<reply[c]>> /\ reply[c].id = sent[c]
      <4>1. reply[c].kind \in Kinds /\ reply[c] = Message(reply[c].kind, sent[c])
        BY <3>2 DEF TypeOK, Fin, Message
      <4>2. down'[c] = <<Message(reply[c].kind, sent[c]), Fin>>
        <5>1. Append(<<reply[c]>>, Fin) = <<reply[c], Fin>>
          BY ShortStreams
        <5> QED BY <1>1, <3>2, <4>1, <5>1
      <4>3. Ended(c)' \/ reply[c].kind = "ok"
        BY <3>0 DEF NeedEof
      <4> QED BY <1>1, <4>1, <4>2, <4>3 DEF Answering
    <3>3. CASE session[c] = "reading" /\ down[c] = <<Message("error", sent[c])>>
      <4>1. down'[c] = <<Message("error", sent[c]), Fin>> /\ Ended(c)'
        BY <1>1, <3>0, <3>3, ShortStreams
      <4> QED BY <1>1, <4>1 DEF Answering, Kinds
    <3> QED BY <1>2, <3>1, <3>2, <3>3 DEF Answering
  <2> QED BY <1>1, <1>2, <1>4, <2>1, <2>2 DEF ConnectionInv, Requested
<1> QED BY <1>2, <1>3, <1>4 DEF TypeOK

LEMMA HandlerCloses ==
  ASSUME TypeOK, NEW c \in Clients, ConnectionInv(c), Close(c),
         session[c] \in {"reading", "writing", "written"},
         \/ client[c] \in {"gone", "aborted"}
         \/ session[c] = "written" /\ NeedEof(reply[c])
         \/ up[c] = <<Requested(c)>> /\ wrote[c] = "bad"
         \/ c \in expired',
         expired \subseteq expired',
         UNCHANGED <<clientVars, up, reply, executed, backlog, processVars>>
  PROVE  ConnectionInv(c)'
<1>1. session'[c] = "closed" /\ down'[c] = Append(down[c], Fin)
  BY DEF Close, TypeOK
<1>2. Ended(c) \/ c \in expired' => Ended(c)'
  BY DEF Ended, processVars
<1>3. ~InBacklog(c)
  BY DEF ConnectionInv
<1> QED BY <1>1, <1>2, <1>3, CloseKeepsInv

LEMMA DeathKeepsInv ==
  ASSUME TypeOK, NEW c \in Clients, ConnectionInv(c), ServerDies
  PROVE  ConnectionInv(c)'
<1> DEFINE open == Accepted \union {backlog[i] : i \in DOMAIN backlog}
<1>1. /\ session'[c] = (IF c \in open THEN "closed" ELSE session[c])
      /\ down'[c] = (IF c \in open THEN Append(down[c], Fin) ELSE down[c])
      /\ lost = {} /\ lost' = open /\ backlog' = <<>>
      /\ UNCHANGED <<clientVars, up, reply, executed, expired>>
  BY DEF ServerDies, TypeOK
<1>2. c \in open <=> session[c] \in {"reading", "writing", "written"} \/ InBacklog(c)
  BY DEF Accepted, InBacklog, TypeOK
<1> HIDE DEF open
<1>3. CASE c \in open
  <2>1. Ended(c)'
    BY <1>1, <1>3 DEF Ended
  <2>2. session'[c] = "closed" /\ down'[c] = Append(down[c], Fin)
    BY <1>1, <1>3
  <2>3. session[c] \in {"reading", "writing", "written"} \/ InBacklog(c)
    BY <1>2, <1>3
  <2>4. /\ UNCHANGED <<clientVars, up, reply, executed>>
        /\ UNCHANGED backlog \/ backlog' = <<>>
        /\ InBacklog(c) => backlog' = <<>>
    BY <1>1
  <2> QED BY <2>1, <2>2, <2>3, <2>4, CloseKeepsInv
<1>4. CASE c \notin open
  <2>1. InBacklog(c)' = InBacklog(c)
    BY <1>1, <1>2, <1>4 DEF InBacklog
  <2>2. UNCHANGED Local(c)
    BY <1>1, <1>4 DEF Local, clientVars
  <2> QED BY <2>1, <2>2, OthersKeepInv
<1> QED BY <1>3, <1>4

LEMMA WriteKeepsInv ==
  ASSUME TypeOK, NEW c \in Clients, ConnectionInv(c), WriteReply(c)
  PROVE  ConnectionInv(c)'
<1>1. /\ session[c] = "writing" /\ session'[c] = "written" /\ down'[c] = Append(down[c], reply[c])
      /\ UNCHANGED <<client, sent, wrote, last, up, reply, executed, backlog, expired, lost>>
  BY DEF WriteReply, Written, TypeOK, clientVars, processVars
<1>2. ~Silent(c) /\ (Answering(c) => Answering(c)')
  BY <1>1, ShortStreams DEF Silent, Answering
<1> QED BY <1>1, <1>2 DEF ConnectionInv, InBacklog, Excused, Ended, Requested

LEMMA OnWriteKeepsInv ==
  ASSUME TypeOK, NEW c \in Clients, ConnectionInv(c), OnWrite(c)
  PROVE  ConnectionInv(c)'
<1>1. CASE NeedEof(reply[c])
  BY <1>1, HandlerCloses DEF OnWrite
<1>2. CASE ~NeedEof(reply[c])
  <2>1. /\ session[c] = "written" /\ session'[c] = "reading"
        /\ UNCHANGED <<client, sent, wrote, last, up, down, executed, backlog, expired, lost>>
    BY <1>2 DEF OnWrite, TypeOK, clientVars, processVars
  <2>2. Silent(c) => Silent(c)'
    BY <2>1 DEF Silent, Excused, Ended
  <2>3. Answering(c) /\ sent[c] > 0 => Answering(c)'
    <3> SUFFICES ASSUME Answering(c), sent[c] > 0 PROVE Answering(c)'
      OBVIOUS
    <3>1. down[c] = <<reply[c]>> /\ reply[c].id = sent[c]
      BY <2>1 DEF Answering
    <3>2. reply[c] = Message("error", sent[c])
      BY <1>2, <3>1 DEF NeedEof, TypeOK, Kinds, Fin, Message
    <3> QED BY <2>1, <3>1, <3>2 DEF Answering
  <2> QED BY <2>1, <2>2, <2>3 DEF ConnectionInv, InBacklog, Excused, Ended, Requested
<1> QED BY <1>1, <1>2

----------------------------------------------------------------------------
(* All connections                                                         *)

\* Every handler of a session keeps the session's connection sound, and what
\* it executes is a request its client has sent.
LEMMA SessionKeepsInv ==
  ASSUME TypeOK, NEW c \in Clients, ConnectionInv(c), SessionStep(c)
  PROVE  ConnectionInv(c)'
<1>1. CASE OnRead(c)
  BY <1>1, ReadKeepsInv
<1>2. CASE OnReadEnd(c)
  <2>1. up[c] # <<>> /\ Head(up[c]).kind \in {"fin", "bad"} /\ session[c] = "reading"
    BY <1>2 DEF OnReadEnd
  <2>2. \/ client[c] \in {"gone", "aborted"}
        \/ up[c] = <<Requested(c)>>
    BY <2>1 DEF TypeOK, ConnectionInv
  <2>3. up[c] = <<Requested(c)>> => wrote[c] = "bad"
    <3>1. Head(<<Requested(c)>>) = Requested(c) /\ Requested(c).kind = wrote[c]
      BY ShortStreams DEF Requested, Message
    <3>2. wrote[c] \in {"request", "bad", "none"}
      BY DEF TypeOK, RequestKinds
    <3> QED BY <2>1, <3>1, <3>2
  <2> QED BY <1>2, <2>1, <2>2, <2>3, HandlerCloses DEF OnReadEnd
<1>3. CASE WriteReply(c)
  BY <1>3, WriteKeepsInv
<1>4. CASE OnWrite(c)
  BY <1>4, OnWriteKeepsInv
<1>5. CASE WriteFails(c)
  BY <1>5, HandlerCloses DEF WriteFails
<1>6. CASE Timeout(c)
  BY <1>6, HandlerCloses DEF Timeout, TimerEnds
<1> QED BY <1>1, <1>2, <1>3, <1>4, <1>5, <1>6 DEF SessionStep

\* The steps of one connection leave the others alone.
LEMMA StepsAreLocal ==
  ASSUME TypeOK, NEW d \in Clients, NEW c \in Clients \ {d},
         \/ Connect(d) \/ ConnectThrows(d) \/ SendRequest(d) \/ ClientRead(d) \/ Leave(d)
         \/ SessionStep(d)
  PROVE  UNCHANGED Local(c) /\ InBacklog(c)' = InBacklog(c)
<1>1. CASE Connect(d)
  <2>1. InBacklog(c)' = InBacklog(c)
    BY <1>1, BacklogAppend DEF Connect, TypeOK, InBacklog
  <2> QED BY <1>1, <2>1 DEF Connect, TypeOK, Local, processVars
<1>2. CASE SendRequest(d)
  BY <1>2 DEF SendRequest, TypeOK, Local, InBacklog, serverVars, processVars
<1>3. CASE ClientRead(d)
  BY <1>3 DEF ClientRead, TakeReply, ReadThrows, TypeOK, Local, InBacklog, serverVars, processVars
<1>4. CASE Leave(d)
  BY <1>4 DEF Leave, TypeOK, Local, InBacklog, serverVars, processVars
<1>5. CASE OnRead(d)
  <2>1. UNCHANGED reply[c]
    BY <1>5 DEF OnRead, TypeOK
  <2> QED BY <1>5, <2>1 DEF OnRead, TypeOK, Local, InBacklog, clientVars, processVars
<1>6. CASE OnReadEnd(d)
  BY <1>6 DEF OnReadEnd, Close, TypeOK, Local, InBacklog, clientVars, processVars
<1>7. CASE WriteReply(d)
  BY <1>7 DEF WriteReply, TypeOK, Local, InBacklog, clientVars, processVars
<1>8. CASE OnWrite(d)
  BY <1>8 DEF OnWrite, Close, TypeOK, Local, InBacklog, clientVars, processVars
<1>9. CASE WriteFails(d)
  BY <1>9 DEF WriteFails, Close, TypeOK, Local, InBacklog, clientVars, processVars
<1>10. CASE Timeout(d)
  BY <1>10 DEF Timeout, Close, TypeOK, Local, InBacklog, clientVars, processVars
<1>11. CASE ConnectThrows(d)
  BY <1>11 DEF ConnectThrows, TypeOK, Local, InBacklog, serverVars, processVars
<1> QED BY <1>1, <1>2, <1>3, <1>4, <1>5, <1>6, <1>7, <1>8, <1>9, <1>10, <1>11 DEF SessionStep

\* A connection is never twice in the backlog.
LEMMA BacklogKept ==
  ASSUME TypeOK, BacklogInv, \A c \in Clients : ConnectionInv(c), [Next]_vars
  PROVE  BacklogInv' /\ backlog' \in Seq(Clients)
<1>1. CASE UNCHANGED backlog
  BY <1>1 DEF BacklogInv, TypeOK
<1>2. ASSUME NEW c \in Clients, Connect(c) PROVE BacklogInv' /\ backlog' \in Seq(Clients)
  <2>1. ~InBacklog(c)
    BY <1>2 DEF Connect, ConnectionInv
  <2>2. /\ backlog \in Seq(Clients) /\ backlog' = Append(backlog, c)
        /\ \A i \in DOMAIN backlog : backlog[i] # c
    BY <1>2, <2>1 DEF Connect, TypeOK, InBacklog
  <2> QED BY <2>2, BacklogAppend DEF BacklogInv
<1>3. CASE Accept
  BY <1>3, BacklogTail DEF Accept, TypeOK, BacklogInv
<1>4. CASE ServerDies
  BY <1>4 DEF ServerDies, BacklogInv
<1> QED
  BY <1>1, <1>2, <1>3, <1>4
  DEF Next, vars, ConnectThrows, SendRequest, ClientRead, TakeReply, ReadThrows, Leave, SessionStep, OnRead,
      OnReadEnd, WriteReply, OnWrite, WriteFails, Timeout, Close, serverVars

\* Streams stay streams.
LEMMA StreamKept ==
  ASSUME NEW kinds, NEW s \in Stream(kinds)
  PROVE  /\ Append(s, Fin) \in Stream(kinds)
         /\ \A m \in [kind : kinds, id : Nat] : Append(s, m) \in Stream(kinds)
         /\ s # <<>> => Tail(s) \in Stream(kinds) /\ Head(s) \in {Fin} \union [kind : kinds, id : Nat]
BY BacklogAppend, BacklogTail DEF Stream

LEMMA InitStreamsInv == Init => StreamsInv
<1> SUFFICES ASSUME Init PROVE StreamsInv
  OBVIOUS
<1>1. TypeOK
  <2>1. \A kinds : <<>> \in Stream(kinds)
    BY DEF Stream
  <2>2. <<>> \in Seq(Clients) /\ 0 \in 0 .. MaxRequests
    BY RequestsAssumption
  <2> QED BY <2>1, <2>2 DEF Init, TypeOK
<1>2. BacklogInv /\ \A c \in Clients : ConnectionInv(c)
  BY DEF Init, BacklogInv, ConnectionInv, InBacklog
<1> QED BY <1>1, <1>2 DEF StreamsInv

LEMMA NextTypeOK ==
  ASSUME StreamsInv, [Next]_vars
  PROVE  TypeOK'
<1> USE DEF StreamsInv
<1>1. backlog' \in Seq(Clients)
  BY BacklogKept
<1>2. CASE UNCHANGED vars
  BY <1>2 DEF vars, processVars, TypeOK
<1>3. ASSUME NEW c \in Clients, Connect(c) PROVE TypeOK'
  BY <1>1, <1>3 DEF Connect, TypeOK, processVars
<1>4. ASSUME NEW c \in Clients, SendRequest(c) PROVE TypeOK'
  <2>1. sent[c] + 1 \in 0 .. MaxRequests /\ sent[c] + 1 \in Nat
    BY <1>4, RequestsAssumption DEF SendRequest, TypeOK
  <2>2. PICK kind \in RequestKinds :
          /\ wrote' = [wrote EXCEPT ![c] = kind]
          /\ up' = [up EXCEPT ![c] = Append(@, Message(kind, sent[c] + 1))]
    BY <1>4 DEF SendRequest
  <2>3. Message(kind, sent[c] + 1) \in [kind : RequestKinds, id : Nat]
    BY <2>1 DEF Message
  <2>4. Append(up[c], Message(kind, sent[c] + 1)) \in Stream(RequestKinds)
    BY <2>3, StreamKept DEF TypeOK
  <2> QED BY <1>4, <2>1, <2>2, <2>4 DEF SendRequest, TypeOK, serverVars, processVars
<1>5. ASSUME NEW c \in Clients, TakeReply(c) PROVE TypeOK'
  <2>1. down[c] # <<>> /\ Head(down[c]).kind \in Kinds
    BY <1>5 DEF TakeReply, IsWhole, Kinds
  <2>2. Tail(down[c]) \in Stream(Kinds)
    BY <2>1, StreamKept DEF TypeOK
  <2> QED BY <1>5, <2>1, <2>2 DEF TakeReply, TypeOK, serverVars, processVars
<1>6. ASSUME NEW c \in Clients, ReadThrows(c) \/ Leave(c) PROVE TypeOK'
  <2>1. Append(up[c], Fin) \in Stream(RequestKinds)
    BY StreamKept DEF TypeOK
  <2>2. up' \in [Clients -> Stream(RequestKinds)]
    BY <1>6, <2>1 DEF ReadThrows, Leave, TypeOK
  <2> QED BY <1>6, <2>2 DEF ReadThrows, Leave, TypeOK, serverVars, processVars
<1>7. CASE Accept
  BY <1>1, <1>7 DEF Accept, TypeOK, clientVars, processVars
<1>8. ASSUME NEW c \in Clients, OnRead(c) PROVE TypeOK'
  <2>1. PICK kind \in Kinds : reply' = [reply EXCEPT ![c] = Message(kind, Head(up[c]).id)]
    BY <1>8 DEF OnRead
  <2>2. up[c] # <<>> /\ Head(up[c]) # Fin
    BY <1>8 DEF OnRead, Fin
  <2>3. Tail(up[c]) \in Stream(RequestKinds) /\ Head(up[c]).id \in Nat
    BY <2>2, StreamKept DEF TypeOK
  <2>4. Message(kind, Head(up[c]).id) \in [kind : Kinds, id : Nat]
    BY <2>3 DEF Message
  <2>5. executed'[c] = sent[c]
    BY <1>8, ReadKeepsInv
  <2>6. executed' \in [Clients -> 0 .. MaxRequests]
    BY <1>8, <2>5 DEF OnRead, TypeOK
  <2> QED BY <1>8, <2>1, <2>3, <2>4, <2>6 DEF OnRead, TypeOK, clientVars, processVars
<1>9. ASSUME NEW c \in Clients, Close(c), UNCHANGED <<clientVars, up, reply, executed, backlog, processVars>>,
             expired' \subseteq Clients
      PROVE  TypeOK'
  <2>1. Append(down[c], Fin) \in Stream(Kinds)
    BY StreamKept DEF TypeOK
  <2> QED BY <1>9, <2>1 DEF Close, TypeOK, clientVars, processVars
<1>10. ASSUME NEW c \in Clients, OnReadEnd(c) \/ WriteFails(c) \/ Timeout(c) PROVE TypeOK'
  BY <1>9, <1>10 DEF OnReadEnd, WriteFails, Timeout, TypeOK
<1>11. ASSUME NEW c \in Clients, WriteReply(c) PROVE TypeOK'
  <2>1. reply[c] \in {Fin} \union [kind : Kinds, id : Nat]
    BY DEF TypeOK
  <2>2. Append(down[c], reply[c]) \in Stream(Kinds)
    BY <2>1, StreamKept DEF TypeOK
  <2> QED BY <1>11, <2>2 DEF WriteReply, Written, TypeOK, clientVars, processVars
<1>12. ASSUME NEW c \in Clients, OnWrite(c) PROVE TypeOK'
  <2>1. CASE NeedEof(reply[c])
    BY <1>9, <1>12, <2>1 DEF OnWrite, TypeOK
  <2>2. CASE ~NeedEof(reply[c])
    BY <1>12, <2>2 DEF OnWrite, TypeOK, clientVars, processVars
  <2> QED BY <2>1, <2>2
<1>13. ASSUME NEW c \in Clients, ConnectThrows(c) PROVE TypeOK'
  BY <1>13 DEF ConnectThrows, TypeOK, serverVars, processVars
<1>14. CASE ServerDies
  <2> DEFINE open == Accepted \union {backlog[i] : i \in DOMAIN backlog}
  <2>1. open \subseteq Clients
    BY DEF Accepted, TypeOK
  <2>2. \A c \in Clients : down[c] \in Stream(Kinds) /\ Append(down[c], Fin) \in Stream(Kinds)
    BY StreamKept DEF TypeOK
  <2>3. /\ server' = "down" /\ lost' = open
        /\ session' = [c \in Clients |-> IF c \in open THEN "closed" ELSE session[c]]
        /\ down' = [c \in Clients |-> IF c \in open THEN Append(down[c], Fin) ELSE down[c]]
        /\ UNCHANGED <<clientVars, up, reply, executed, expired>>
    BY <1>14 DEF ServerDies
  <2> HIDE DEF open
  <2>4. /\ session' \in [Clients -> {"none", "reading", "writing", "written", "closed"}]
        /\ down' \in [Clients -> Stream(Kinds)]
    BY <2>2, <2>3 DEF TypeOK
  <2> QED BY <1>1, <2>1, <2>3, <2>4 DEF TypeOK, clientVars
<1> QED
  BY <1>2, <1>3, <1>4, <1>5, <1>6, <1>7, <1>8, <1>10, <1>11, <1>12, <1>13, <1>14
  DEF Next, ClientRead, SessionStep

LEMMA NextStreamsInv == StreamsInv /\ [Next]_vars => StreamsInv'
<1> SUFFICES ASSUME StreamsInv, [Next]_vars PROVE StreamsInv'
  OBVIOUS
<1>1. TypeOK' /\ BacklogInv'
  BY NextTypeOK, BacklogKept DEF StreamsInv
<1>2. ASSUME NEW c \in Clients PROVE ConnectionInv(c)'
  <2> USE DEF StreamsInv
  <2>1. CASE UNCHANGED vars
    <3>1. UNCHANGED Local(c) /\ InBacklog(c)' = InBacklog(c)
      BY <2>1 DEF vars, processVars, Local, InBacklog
    <3> QED BY <3>1, OthersKeepInv
  <2>2. CASE Accept
    BY <2>2, AcceptKeepsInv
  <2>3. ASSUME NEW d \in Clients \ {c},
               \/ Connect(d) \/ ConnectThrows(d) \/ SendRequest(d) \/ ClientRead(d) \/ Leave(d)
               \/ SessionStep(d)
        PROVE  ConnectionInv(c)'
    <3>1. UNCHANGED Local(c) /\ InBacklog(c)' = InBacklog(c)
      BY <2>3, StepsAreLocal
    <3> QED BY <3>1, OthersKeepInv
  <2>4. CASE ReadThrows(c) \/ Leave(c)
    BY <2>4, LeaveKeepsInv DEF ReadThrows, Leave, StreamEnded, TypeOK
  <2>5. CASE Connect(c) \/ ConnectThrows(c) \/ SendRequest(c) \/ TakeReply(c) \/ SessionStep(c)
    BY <2>5, ConnectKeepsInv, RefusedKeepsInv, SendKeepsInv, TakeKeepsInv, SessionKeepsInv
  <2>6. CASE ServerDies
    BY <2>6, DeathKeepsInv
  <2> QED BY <2>1, <2>2, <2>3, <2>4, <2>5, <2>6 DEF Next, ClientRead
<1> QED BY <1>1, <1>2 DEF StreamsInv

\* The invariant says all that the properties ask of streams and clients.
LEMMA StreamsInvSuffices ==
  StreamsInv => AnswersCurrent /\ NothingLeftOver /\ ExecutedOnce /\ ThrowsOnlyWithCause
<1> SUFFICES ASSUME StreamsInv
             PROVE  AnswersCurrent /\ NothingLeftOver /\ ExecutedOnce /\ ThrowsOnlyWithCause
  OBVIOUS
<1> USE DEF StreamsInv
<1>1. AnswersCurrent
  <2> SUFFICES ASSUME NEW c \in Clients, client[c] = "waiting", down[c] # <<>>, Head(down[c]) # Fin
               PROVE  Head(down[c]).id = sent[c]
    BY DEF AnswersCurrent
  <2>1. ~Silent(c)
    BY ShortStreams DEF Silent
  <2>2. Answering(c)
    BY <2>1 DEF ConnectionInv
  <2>3. ASSUME NEW kind, Head(down[c]) = Message(kind, sent[c]) PROVE Head(down[c]).id = sent[c]
    BY <2>3 DEF Message
  <2>4. CASE \E kind \in Kinds : down[c] = <<Message(kind, sent[c]), Fin>>
    BY <2>3, <2>4, ShortStreams
  <2> QED BY <2>2, <2>3, <2>4, ShortStreams DEF Answering
<1>2. NothingLeftOver
  <2> SUFFICES ASSUME NEW c \in Clients, client[c] = "ready", NEW i \in DOMAIN down[c]
               PROVE  down[c][i] = Fin
    BY DEF NothingLeftOver
  <2>1. Silent(c)
    BY DEF ConnectionInv
  <2> QED BY <2>1 DEF Silent
<1>3. ExecutedOnce
  BY DEF ExecutedOnce, ConnectionInv, TypeOK
<1>4. ThrowsOnlyWithCause
  BY DEF ThrowsOnlyWithCause, ConnectionInv, Excused, Ended
<1> QED BY <1>1, <1>2, <1>3, <1>4

LEMMA StreamsInvAlways == Spec => []StreamsInv
BY InitStreamsInv, NextStreamsInv, PTL DEF Spec

\* Types are correct: a client has no more requests executed than it may make.
THEOREM ConnectionTypes == Spec => []TypeOK
<1>1. StreamsInv => TypeOK
  BY DEF StreamsInv
<1> QED BY <1>1, StreamsInvAlways, PTL

\* A reply read is the reply to the request waited for, for any number of
\* clients, requests and sockets, whenever timers expire or clients leave.
THEOREM AnswersAreCurrent == Spec => []AnswersCurrent
<1>1. StreamsInv => AnswersCurrent
  BY StreamsInvSuffices
<1> QED BY <1>1, StreamsInvAlways, PTL

\* The buffer make_request drops never holds a part of a reply.
THEOREM NothingIsLeftOver == Spec => []NothingLeftOver
<1>1. StreamsInv => NothingLeftOver
  BY StreamsInvSuffices
<1> QED BY <1>1, StreamsInvAlways, PTL

\* Requests are executed once, unanswered ones at most once.
THEOREM RequestsAreExecutedOnce == Spec => []ExecutedOnce
<1>1. StreamsInv => ExecutedOnce
  BY StreamsInvSuffices
<1> QED BY <1>1, StreamsInvAlways, PTL

\* A request throws only when the server cannot read it, after a 200, or when the
\* timer or the end of the server's process has ended its connection.
THEOREM ThrowsHaveACause == Spec => []ThrowsOnlyWithCause
<1>1. StreamsInv => ThrowsOnlyWithCause
  BY StreamsInvSuffices
<1> QED BY <1>1, StreamsInvAlways, PTL
=============================================================================
