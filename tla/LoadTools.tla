----------------------------- MODULE LoadTools -----------------------------
(***************************************************************************)
(* The programs that load the server, benchmark.cc and statistics.cc, with *)
(* the keys they draw from workload_generator.cc.                          *)
(*                                                                         *)
(* The threads of the program are clients of module Connection; the other  *)
(* clients are other processes.  An exception that leaves a thread, or     *)
(* statistics' main, ends the program and with it all its connections.     *)
(*                                                                         *)
(* The times measured are left out: a request over the network takes more  *)
(* than the microsecond that assert(sum != 0) needs.                       *)
(***************************************************************************)
EXTENDS Connection, Integers

CONSTANTS
  Settings,   \* programs, their threads, nthread, nreq and key_num
  WarmUp,     \* warm_up_iters of statistics
  Segments,   \* temp_weights.size()
  Fractions,  \* u, drawn from [0, 1), is a multiple of 1/Fractions
  IntMax      \* INT_MAX

UintMod == 2 * (IntMax + 1)
Ints == (-IntMax - 1) .. IntMax

\* The loop of threaded_performance makes nthread threads, none for a negative one.
ASSUME LoadAssumption ==
  /\ Settings \subseteq [program : {"benchmark", "statistics"}, threads : SUBSET Clients,
                          nthread : Ints, nreq : Ints, keyNum : 0 .. UintMod - 1]
  /\ \A s \in Settings :
       IsFiniteSet(s.threads) /\ Cardinality(s.threads) = IF s.nthread < 0 THEN 0 ELSE s.nthread
  /\ \A s \in Settings : s.program = "statistics" => s.nthread = 1 /\ s.nreq >= 0
  /\ {WarmUp, Segments, Fractions} \subseteq Nat \ {0} /\ IntMax \in Nat

VARIABLES
  program,       \* "benchmark" or "statistics"
  threads,       \* its threads, one client each
  nthread,       \* how many were asked for
  nreq,          \* the requests each is to measure
  keyNum,        \* key_num of its generators
  state,         \* "running" or how it ended
  done,          \* iterations each thread has completed
  measurements   \* size of the vector of measurements

settings == <<program, threads, nthread, nreq, keyNum>>
toolVars == <<settings, state, done, measurements>>
allVars == <<vars, toolVars>>

----------------------------------------------------------------------------
(* The workload generator                                                  *)

\* round(key_num / segments * (segment + u)), with u = part / Fractions.
Rounded(n, segment, part) ==
  (2 * n * (segment * Fractions + part) + Segments * Fractions) \div (2 * Segments * Fractions)

\* Mutant of Clamped: the clamp is dropped.
ClampedNot(i, n) == i

\* An index beyond the pool becomes key_num - 1, which wraps for an empty one.
Clamped(i, n) == IF i < n THEN i ELSE (n - 1) % UintMod

\* The indices that prompt_key can give to key_pool.at, for each size.
Indices ==
  [n \in {s.keyNum : s \in Settings} |->
    {Clamped(Rounded(n, segment, part), n) : segment \in 0 .. Segments - 1, part \in 0 .. Fractions - 1}]

\* The indices of key_pool, which the constructor fills with key_num keys.
KeyPool(n) == {i \in 0 .. UintMod - 1 : i < n}

----------------------------------------------------------------------------
(* The threads                                                             *)

ToolInit ==
  /\ Init
  /\ \E s \in Settings : /\ program = s.program /\ threads = s.threads
                         /\ nthread = s.nthread /\ nreq = s.nreq /\ keyNum = s.keyNum
  /\ state = "running"
  /\ done = [c \in Clients |-> 0]
  /\ measurements = 0

\* The requests of a thread that are measured, and all of them.
Asked == IF nreq < 0 THEN 0 ELSE nreq
Iterations == IF program = "statistics" THEN WarmUp + Asked ELSE Asked

Works(c) == state = "running" /\ c \in threads
AtLoopHead(c) == Works(c) /\ client[c] = "ready" /\ done[c] = sent[c]

\* new Cache(host, port).
ThreadConnects(c) == Works(c) /\ Connect(c) /\ UNCHANGED toolVars

\* An iteration draws a key from the pool and makes its request.
ThreadRequests(c) ==
  /\ AtLoopHead(c) /\ done[c] < Iterations
  /\ Indices[keyNum] \intersect KeyPool(keyNum) # {}
  /\ SendRequest(c)
  /\ UNCHANGED toolVars

\* The process is gone, and its connections with it.
Dies(how, thrown) ==
  LET open == {c \in threads : client[c] \in {"ready", "waiting"}}
  IN /\ state' = how
     /\ client' = [c \in Clients |-> IF c \in thrown THEN "aborted"
                                     ELSE IF c \in open THEN "gone" ELSE client[c]]
     /\ up' = [c \in Clients |-> IF c \in open THEN Append(up[c], Fin) ELSE up[c]]
     /\ UNCHANGED <<sent, wrote, last, down, serverVars, settings, done, measurements>>

\* key_pool.at throws.
DrawThrows(c) ==
  /\ AtLoopHead(c) /\ done[c] < Iterations
  /\ Indices[keyNum] \ KeyPool(keyNum) # {}
  /\ Dies("no_key", {})

\* The constructor of Cache throws.
ThreadUnreachable(c) == Works(c) /\ Unreachable(c) /\ Dies("aborted", {})

ThreadReads(c) == Works(c) /\ TakeReply(c) /\ UNCHANGED toolVars

\* Mutant of RequestThrows: the thread catches the exception and ends.
RequestThrowsCaught(c) == Works(c) /\ ReadThrows(c) /\ UNCHANGED toolVars

\* Nothing in the thread catches what its request throws.
RequestThrows(c) ==
  /\ Works(c) /\ StreamEnded(c)
  /\ Dies("aborted", {c})

Measured(i) == program = "benchmark" \/ i >= WarmUp

\* push_back of the time under the program's mutex.
EndIteration(c) ==
  /\ Works(c) /\ client[c] = "ready" /\ done[c] < sent[c]
  /\ done' = [done EXCEPT ![c] = @ + 1]
  /\ measurements' = IF Measured(done[c]) THEN measurements + 1 ELSE measurements
  /\ UNCHANGED <<vars, settings, state>>

\* delete my_cache, and the thread ends.
ThreadEnds(c) ==
  /\ AtLoopHead(c) /\ done[c] >= Iterations
  /\ Leave(c)
  /\ UNCHANGED toolVars

\* Mutant of AllJoined: main does not wait.
AllJoinedNever == TRUE
AllJoined == \A c \in threads : client[c] = "gone"

\* The int of the same bits.
Wrapped(i) == ((i + IntMax + 1) % UintMod) - IntMax - 1

\* req_size: nreq * nthread wraps or comes out exactly when it is no int.
ReqSizes == {nreq * nthread, Wrapped(nreq * nthread)}

\* main after its threads: the assertion on the number of measurements, which
\* only benchmark makes, then the report.
Report ==
  /\ state = "running" /\ AllJoined
  /\ \E reqSize \in ReqSizes :
       state' = IF program = "benchmark" /\ Wrapped(measurements) # reqSize
                THEN "assertion" ELSE "reported"
  /\ UNCHANGED <<vars, settings, done, measurements>>

ThreadStep(c) ==
  \/ ThreadConnects(c) \/ ThreadUnreachable(c) \/ ThreadRequests(c) \/ DrawThrows(c)
  \/ ThreadReads(c) \/ RequestThrows(c) \/ EndIteration(c) \/ ThreadEnds(c)

\* The server, and the clients that are other processes.
OtherClient(c) ==
  /\ c \notin threads
  /\ Connect(c) \/ ConnectThrows(c) \/ SendRequest(c) \/ ClientRead(c) \/ Leave(c)
  /\ UNCHANGED toolVars
ServerStep(c) == SessionStep(c) /\ UNCHANGED toolVars
ServerAccepts == Accept /\ UNCHANGED toolVars
ServerEnds == ServerDies /\ UNCHANGED toolVars

ToolNext ==
  \/ \E c \in Clients : ThreadStep(c) \/ OtherClient(c) \/ ServerStep(c)
  \/ ServerAccepts \/ ServerEnds \/ Report

ToolSpec == ToolInit /\ [][ToolNext]_allVars

\* The program's threads go on running; for the rest see Connection.
ToolFairSpec ==
  /\ ToolSpec
  /\ WF_allVars(ServerAccepts) /\ WF_allVars(Report)
  /\ \A c \in Clients :
       /\ WF_allVars(ThreadStep(c)) /\ WF_allVars(ServerStep(c))
       /\ WF_allVars(c \notin threads /\ ClientRead(c) /\ UNCHANGED toolVars)

----------------------------------------------------------------------------
(* Properties                                                              *)

\* A report covers all the requests asked for, each measured once and executed
\* once by the server, those of the warm-up not measured; benchmark's assertion
\* fails for nothing but a negative number of threads or of requests, or a
\* product of the two that is no int.
ReportsWholeRun ==
  /\ state = "reported" =>
       /\ measurements = Asked * Cardinality(threads)
       /\ \A c \in threads : executed[c] = Iterations
  /\ state = "assertion" => nreq < 0 \/ nthread < 0 \/ nreq * nthread > IntMax

\* The key drawn is one of the pool, at the ends of the distribution too,
\* unless the pool is empty.
DrawsFromPool == state = "no_key" => keyNum = 0

\* What README.md reports of the client: a thread that has got a 200 and has
\* a request left to make takes the whole program down.
SuccessAborts ==
  \A c \in Clients :
    (state = "running" /\ c \in threads /\ last[c] = "ok" /\ sent[c] < Iterations)
      ~> (state = "aborted")
=============================================================================
