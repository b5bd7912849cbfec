----------------------------- MODULE Connection -----------------------------
(***************************************************************************)
(* The connections between clients (Cache::Impl of cache_client.cc, one    *)
(* per thread of benchmark.cc) and the server's sessions (class session    *)
(* and class listener of cache_server.cc).                                 *)
(*                                                                         *)
(* The client connects once, in its constructor, then writes a request     *)
(* and blocks until it has read the reply; it sets no timeout.  The server *)
(* serves a connection in a session of its own: read, handle, write, and   *)
(* read again or close.  TCP is a reliable, ordered stream each way.       *)
(*                                                                         *)
(* What a request does to the cache is module CacheServer's; here it only  *)
(* matters whether it is HTTP that the server can read, "request" or "bad" *)
(* (a space in the key, a value that fills more than a header may), and    *)
(* which of two kinds of reply handle_request sends:                       *)
(*   "error"  400 and 404, which prepare_payload() and keep_alive() frame  *)
(*   "ok"     200, with no length: its body ends where the stream ends     *)
(* handle_request may also end the server's process, by an exception or by *)
(* an assertion; ServerLifecycle and WireCodec say when.                   *)
(***************************************************************************)
EXTENDS Naturals, Sequences, FiniteSets

CONSTANTS
  Clients,      \* the clients, each with the one connection it makes
  MaxRequests,  \* bound on the requests a client makes
  MaxSockets    \* sockets the server process can have accepted at a time

ASSUME RequestsAssumption == MaxRequests \in Nat
ASSUME SocketsAssumption == MaxSockets \in Nat \ {0}

VARIABLES
  client,    \* where each client is
  sent,      \* how many requests it has written
  wrote,     \* of what kind the last one was, or "none"
  last,      \* the kind of the last reply it took, or "none"
  up, down,  \* the stream to the server and the stream to the client
  session,   \* where the session of each connection is
  reply,     \* session::res_
  executed,  \* requests of each client that handle_request has executed
  backlog,   \* connections made and not accepted yet
  expired,   \* connections whose timer has ended the session
  server,    \* the server's process, "up" or "down"
  lost       \* connections that have ended with it

processVars == <<server, lost>>
vars == <<client, sent, wrote, last, up, down, session, reply, executed, backlog, expired, processVars>>
clientVars == <<client, sent, wrote, last>>
serverVars == <<session, reply, executed, backlog, expired, processVars>>

Fin == [kind |-> "fin", id |-> 0]
Message(kind, i) == [kind |-> kind, id |-> i]
Kinds == {"ok", "error"}
RequestKinds == {"request", "bad"}

Init ==
  /\ client = [c \in Clients |-> "new"]
  /\ sent = [c \in Clients |-> 0]
  /\ wrote = [c \in Clients |-> "none"]
  /\ last = [c \in Clients |-> "none"]
  /\ up = [c \in Clients |-> <<>>]
  /\ down = [c \in Clients |-> <<>>]
  /\ session = [c \in Clients |-> "none"]
  /\ reply = [c \in Clients |-> Fin]
  /\ executed = [c \in Clients |-> 0]
  /\ backlog = <<>>
  /\ expired = {}
  /\ server = "up"
  /\ lost = {}

----------------------------------------------------------------------------
(* The client                                                              *)

\* Impl::Impl.  The kernel completes the connection; accept() comes later.
Connect(c) ==
  /\ client[c] = "new" /\ server = "up"
  /\ client' = [client EXCEPT ![c] = "ready"]
  /\ backlog' = Append(backlog, c)
  /\ UNCHANGED <<sent, wrote, last, up, down, session, reply, executed, expired, processVars>>

Unreachable(c) == client[c] = "new" /\ server = "down"

\* stream.connect throws; there is no client.
ConnectThrows(c) ==
  /\ Unreachable(c)
  /\ client' = [client EXCEPT ![c] = "refused"]
  /\ UNCHANGED <<sent, wrote, last, up, down, serverVars>>

\* make_request, http::write.  It succeeds even when the server has closed.
SendRequest(c) ==
  /\ client[c] = "ready"
  /\ sent[c] < MaxRequests
  /\ client' = [client EXCEPT ![c] = "waiting"]
  /\ sent' = [sent EXCEPT ![c] = @ + 1]
  /\ \E kind \in RequestKinds :
       /\ wrote' = [wrote EXCEPT ![c] = kind]
       /\ up' = [up EXCEPT ![c] = Append(@, Message(kind, sent[c] + 1))]
  /\ UNCHANGED <<last, down, serverVars>>

\* A reply is complete by its length, or when the stream ends after it.
IsWhole(stream) ==
  /\ stream # <<>>
  /\ \/ Head(stream).kind = "error"
     \/ Head(stream).kind = "ok" /\ Len(stream) > 1 /\ stream[2] = Fin

\* make_request, http::read of a reply.  The end of the stream stays there.
TakeReply(c) ==
  /\ client[c] = "waiting"
  /\ IsWhole(down[c])
  /\ client' = [client EXCEPT ![c] = "ready"]
  /\ last' = [last EXCEPT ![c] = Head(down[c]).kind]
  /\ down' = [down EXCEPT ![c] = Tail(@)]
  /\ UNCHANGED <<sent, wrote, up, serverVars>>

StreamEnded(c) == client[c] = "waiting" /\ down[c] # <<>> /\ Head(down[c]) = Fin

\* http::read finds the stream at its end: it throws end_of_stream, nobody
\* catches it and the client's process ends.
ReadThrows(c) ==
  /\ StreamEnded(c)
  /\ client' = [client EXCEPT ![c] = "aborted"]
  /\ up' = [up EXCEPT ![c] = Append(@, Fin)]
  /\ UNCHANGED <<sent, wrote, last, down, serverVars>>

\* ~Impl shuts the connection down; or the process is killed at any time.
Leave(c) ==
  /\ client[c] \in {"ready", "waiting"}
  /\ client' = [client EXCEPT ![c] = "gone"]
  /\ up' = [up EXCEPT ![c] = Append(@, Fin)]
  /\ UNCHANGED <<sent, wrote, last, down, serverVars>>

----------------------------------------------------------------------------
(* The server                                                              *)

Accepted == {c \in Clients : session[c] \notin {"none", "closed"}}

\* on_accept: a session starts to read, and the next accept is issued.  With
\* no socket to be had the accept fails and is issued again: nothing changes.
Accept ==
  /\ backlog # <<>>
  /\ Cardinality(Accepted) < MaxSockets
  /\ session' = [session EXCEPT ![Head(backlog)] = "reading"]
  /\ backlog' = Tail(backlog)
  /\ UNCHANGED <<clientVars, up, down, reply, executed, expired, processVars>>

\* The session's last handler returns: its socket is shut down and closed.
Close(c) ==
  /\ session' = [session EXCEPT ![c] = "closed"]
  /\ down' = [down EXCEPT ![c] = Append(@, Fin)]

\* Mutant of OnRead: the bytes of the request stay in buffer_.
OnReadKeeps(c) ==
  /\ session[c] = "reading"
  /\ up[c] # <<>> /\ Head(up[c]).kind = "request"
  /\ \E kind \in Kinds : reply' = [reply EXCEPT ![c] = Message(kind, Head(up[c]).id)]
  /\ session' = [session EXCEPT ![c] = "writing"]
  /\ executed' = [executed EXCEPT ![c] = @ + 1]
  /\ UNCHANGED <<clientVars, up, down, backlog, expired, processVars>>

\* on_read of a request: handle_request executes it and sends the reply.
OnRead(c) ==
  /\ session[c] = "reading"
  /\ up[c] # <<>> /\ Head(up[c]).kind = "request"
  /\ \E kind \in Kinds : reply' = [reply EXCEPT ![c] = Message(kind, Head(up[c]).id)]
  /\ session' = [session EXCEPT ![c] = "writing"]
  /\ executed' = [executed EXCEPT ![c] = @ + 1]
  /\ up' = [up EXCEPT ![c] = Tail(@)]
  /\ UNCHANGED <<clientVars, down, backlog, expired, processVars>>

\* on_read of the end of the stream or of a connection the client has reset;
\* or of a request that is not read, which gets no reply either.
OnReadEnd(c) ==
  /\ session[c] = "reading"
  /\ up[c] # <<>> /\ Head(up[c]).kind \in {"fin", "bad"}
  /\ Close(c)
  /\ UNCHANGED <<clientVars, up, reply, executed, backlog, expired, processVars>>

\* Mutant of Written: the reply goes out twice.
WrittenTwice(stream, r) == stream \o <<r, r>>
Written(stream, r) == Append(stream, r)

\* async_write; on_write is called later, with the client perhaps further on.
WriteReply(c) ==
  /\ session[c] = "writing"
  /\ session' = [session EXCEPT ![c] = "written"]
  /\ down' = [down EXCEPT ![c] = Written(@, reply[c])]
  /\ UNCHANGED <<clientVars, up, reply, executed, backlog, expired, processVars>>

\* Mutant of NeedEof: no reply keeps the connection.
NeedEofAlways(r) == TRUE

\* need_eof(): a reply without a length needs the end of the stream.
NeedEof(r) == r.kind = "ok"

\* on_write: close after a reply that needs it, read another request if not.
OnWrite(c) ==
  /\ session[c] = "written"
  /\ IF NeedEof(reply[c])
     THEN Close(c) /\ UNCHANGED reply
     ELSE /\ session' = [session EXCEPT ![c] = "reading"]
          /\ reply' = [reply EXCEPT ![c] = Fin]
          /\ UNCHANGED down
  /\ UNCHANGED <<clientVars, up, executed, backlog, expired, processVars>>

\* on_write with an error, the client being gone: fail() and no further read.
WriteFails(c) ==
  /\ session[c] \in {"writing", "written"}
  /\ client[c] \in {"gone", "aborted"}
  /\ Close(c)
  /\ UNCHANGED <<clientVars, up, reply, executed, backlog, expired, processVars>>

\* Mutant of TimerEnds: do_read sets no timer, a silent client is waited for.
TimerNever(c) == session[c] \in {"writing", "written"}

\* The 30 seconds that do_read sets run until the reply is written.
TimerEnds(c) == session[c] \in {"reading", "writing", "written"}

\* The timer closes the socket; on_read or on_write gets error::timeout.
Timeout(c) ==
  /\ TimerEnds(c)
  /\ Close(c)
  /\ expired' = expired \union {c}
  /\ UNCHANGED <<clientVars, up, reply, executed, backlog, processVars>>

\* The process ends, by what handle_request does with a request or because it is
\* killed: the connections end with it, those in the backlog too.
ServerDies ==
  LET open == Accepted \union {backlog[i] : i \in DOMAIN backlog}
  IN /\ server = "up" /\ server' = "down"
     /\ session' = [c \in Clients |-> IF c \in open THEN "closed" ELSE session[c]]
     /\ down' = [c \in Clients |-> IF c \in open THEN Append(down[c], Fin) ELSE down[c]]
     /\ lost' = open
     /\ backlog' = <<>>
     /\ UNCHANGED <<clientVars, up, reply, executed, expired>>

SessionStep(c) ==
  OnRead(c) \/ OnReadEnd(c) \/ WriteReply(c) \/ OnWrite(c) \/ WriteFails(c) \/ Timeout(c)

ClientRead(c) == TakeReply(c) \/ ReadThrows(c)

Next ==
  \/ \E c \in Clients :
       \/ Connect(c) \/ ConnectThrows(c) \/ SendRequest(c) \/ ClientRead(c) \/ Leave(c)
       \/ SessionStep(c)
  \/ Accept \/ ServerDies

Spec == Init /\ [][Next]_vars

\* The pool runs the handlers that are ready and the timers that expire, a
\* thread blocked in http::read wakes up.  No client has to send anything, and
\* no server to end.
FairSpec ==
  /\ Spec
  /\ WF_vars(Accept)
  /\ \A c \in Clients : WF_vars(SessionStep(c)) /\ WF_vars(ClientRead(c))

----------------------------------------------------------------------------
(* Properties                                                              *)

Stream(kinds) == Seq({Fin} \union [kind : kinds, id : Nat])

\* Streams hold messages of their direction; a client has no more requests
\* executed than it may make.
TypeOK ==
  /\ client \in [Clients -> {"new", "refused", "ready", "waiting", "gone", "aborted"}]
  /\ sent \in [Clients -> 0 .. MaxRequests]
  /\ wrote \in [Clients -> RequestKinds \union {"none"}]
  /\ last \in [Clients -> Kinds \union {"none"}]
  /\ up \in [Clients -> Stream(RequestKinds)]
  /\ down \in [Clients -> Stream(Kinds)]
  /\ session \in [Clients -> {"none", "reading", "writing", "written", "closed"}]
  /\ reply \in [Clients -> {Fin} \union [kind : Kinds, id : Nat]]
  /\ executed \in [Clients -> 0 .. MaxRequests]
  /\ backlog \in Seq(Clients)
  /\ expired \subseteq Clients
  /\ server \in {"up", "down"}
  /\ lost \subseteq Clients /\ (server = "up" => lost = {})

\* The reply a client is about to read answers the request it is waiting for,
\* never an earlier one.
AnswersCurrent ==
  \A c \in Clients : client[c] = "waiting" /\ down[c] # <<>> /\ Head(down[c]) # Fin
    => Head(down[c]).id = sent[c]

\* Between two requests no part of a reply is left in the stream: the buffer
\* that make_request drops, although it "must be persisted", holds nothing.
NothingLeftOver ==
  \A c \in Clients : client[c] = "ready" => \A i \in DOMAIN down[c] : down[c][i] = Fin

\* A request that was answered has been executed once; one that is not
\* answered yet, or whose answer was lost, once or not at all.
ExecutedOnce ==
  \A c \in Clients :
    IF client[c] \in {"new", "refused", "ready"} THEN executed[c] = sent[c]
    ELSE executed[c] \in {sent[c], sent[c] - 1}

\* A client's request throws only if it is one that the server cannot read, or
\* an earlier reply was a 200, or the timer or the end of the server's process
\* has ended this connection: 404 and 400 leave it open.
ThrowsOnlyWithCause ==
  \A c \in Clients : client[c] = "aborted" =>
    wrote[c] = "bad" \/ last[c] = "ok" \/ c \in expired \/ c \in lost

\* README.md: the client "will only create a connection in its constructor",
\* so that every request that is one finds it open, unless it was idle for too
\* long or the server is gone.
ConnectionIsReusable ==
  \A c \in Clients : client[c] = "aborted" =>
    wrote[c] = "bad" \/ c \in expired \/ c \in lost

\* The server lets go of every connection it has accepted, also when the
\* client neither sends anything nor leaves.
SessionsEnd == \A c \in Clients : session[c] = "reading" ~> session[c] = "closed"

\* A call of the client returns or throws, although it sets no timeout and
\* the server may have run out of sockets when the client connected.
RequestsEnd == \A c \in Clients : client[c] = "waiting" ~> client[c] # "waiting"
=============================================================================
