-------------------------- MODULE LoadToolsProofs --------------------------
(***************************************************************************)
(* Theorems about the load programs, for any number of threads, requests   *)
(* and keys, next to any number of other clients.                          *)
(***************************************************************************)
EXTENDS LoadTools, ConnectionProofs, FiniteSetTheorems

\* The program was started with one of the settings.
Started ==
  \E s \in Settings : /\ program = s.program /\ threads = s.threads
                      /\ nthread = s.nthread /\ nreq = s.nreq /\ keyNum = s.keyNum

\* The states in which no exception has ended the program.
Orderly == state \in {"running", "reported", "assertion"}

\* A thread is in the iteration of its last request or behind it; it leaves
\* after its last iteration, with all its requests executed.
ThreadInv(c) ==
  /\ done[c] \in {sent[c], sent[c] - 1}
  /\ sent[c] <= Iterations
  /\ client[c] = "gone" => done[c] = sent[c] /\ executed[c] = sent[c] /\ done[c] >= Iterations

\* The iterations measured, by thread and number.
MeasuredSet == {p \in threads \X Nat : p[2] < done[p[1]] /\ Measured(p[2])}

ToolInv ==
  /\ Started
  /\ done \in [Clients -> Nat]
  /\ state \in {"running", "reported", "assertion", "aborted", "no_key"}
  /\ Orderly => \A c \in threads : ThreadInv(c)
  /\ state \in {"reported", "assertion"} => AllJoined
  /\ IsFiniteSet(MeasuredSet) /\ measurements = Cardinality(MeasuredSet)
  /\ ReportsWholeRun
  /\ DrawsFromPool

----------------------------------------------------------------------------
(* The keys drawn                                                          *)

LEMMA ProductsAreNatural ==
  ASSUME NEW a \in Nat, NEW b \in Nat
  PROVE  a * b \in Nat /\ (a > 0 /\ b > 0 => a * b > 0)
OBVIOUS

\* A position in the distribution rounds to a natural number.
LEMMA RoundedIsNatural ==
  ASSUME NEW n \in Nat, NEW segment \in Nat, NEW part \in Nat
  PROVE  Rounded(n, segment, part) \in Nat
<1> DEFINE position == segment * Fractions + part
           half == Segments * Fractions
           whole == 2 * Segments * Fractions
<1>1. Segments \in Nat /\ Segments > 0 /\ Fractions \in Nat /\ Fractions > 0
  BY LoadAssumption
<1>2. position \in Nat /\ half \in Nat
  BY <1>1, ProductsAreNatural
<1>3. 2 * n \in Nat /\ 2 * Segments \in Nat /\ 2 * Segments > 0
  BY <1>1
<1>4. 2 * n * position \in Nat
  BY <1>2, <1>3, ProductsAreNatural
<1>5. whole \in Nat /\ whole > 0
  BY <1>1, <1>3, ProductsAreNatural
<1> HIDE DEF position, half, whole
<1>6. 2 * n * position + half \in Nat
  BY <1>2, <1>4
<1>7. (2 * n * position + half) \div whole \in Nat
  BY <1>5, <1>6
<1> QED BY <1>7 DEF Rounded, position, half, whole

LEMMA SmallRemainder ==
  ASSUME NEW a \in Nat, NEW m \in Nat, a < m
  PROVE  a % m = a
OBVIOUS

\* The index drawn is one of the pool's, unless the pool is empty.
LEMMA IndicesInPool ==
  ASSUME Started, keyNum # 0
  PROVE  Indices[keyNum] \subseteq KeyPool(keyNum)
<1>1. /\ keyNum \in {s.keyNum : s \in Settings} /\ keyNum \in 1 .. UintMod - 1
      /\ UintMod \in Nat
  BY LoadAssumption DEF Started, UintMod
<1>2. Segments \in Nat /\ Fractions \in Nat
  BY LoadAssumption
<1>3. ASSUME NEW segment \in 0 .. Segments - 1, NEW part \in 0 .. Fractions - 1
      PROVE  Clamped(Rounded(keyNum, segment, part), keyNum) \in KeyPool(keyNum)
  <2>1. Rounded(keyNum, segment, part) \in Nat
    <3>1. keyNum \in Nat /\ segment \in Nat /\ part \in Nat
      BY <1>1, <1>2
    <3> QED BY <3>1, RoundedIsNatural
  <2>2. (keyNum - 1) % UintMod = keyNum - 1
    BY <1>1, SmallRemainder
  <2> QED BY <1>1, <2>1, <2>2 DEF Clamped, KeyPool
<1> QED BY <1>1, <1>3 DEF Indices

----------------------------------------------------------------------------
(* The connections under load                                              *)

\* All threads leave at once when the process dies.
LEMMA DyingKeepsStreams ==
  ASSUME StreamsInv, NEW how, NEW thrown, Dies(how, thrown),
         \A c \in thrown : c \in threads /\ StreamEnded(c)
  PROVE  StreamsInv'
<1> USE DEF StreamsInv
<1> DEFINE open == {c \in threads : client[c] \in {"ready", "waiting"}}
<1>1. /\ client' = [c \in Clients |-> IF c \in thrown THEN "aborted"
                                     ELSE IF c \in open THEN "gone" ELSE client[c]]
      /\ up' = [c \in Clients |-> IF c \in open THEN Append(up[c], Fin) ELSE up[c]]
      /\ UNCHANGED <<sent, wrote, last, down, session, reply, executed, backlog, expired, server, lost>>
  BY DEF Dies, serverVars, processVars
<1>2. TypeOK'
  <2>1. up' \in [Clients -> Stream(RequestKinds)]
    BY <1>1, StreamKept DEF TypeOK
  <2>2. client' \in [Clients -> {"new", "refused", "ready", "waiting", "gone", "aborted"}]
    BY <1>1 DEF TypeOK
  <2> QED BY <1>1, <2>1, <2>2 DEF TypeOK
<1>3. BacklogInv'
  BY <1>1 DEF BacklogInv
<1>4. ASSUME NEW c \in Clients PROVE ConnectionInv(c)'
  <2>1. c \in thrown => c \in open
    BY DEF StreamEnded
  <2>2. CASE c \in open
    BY <1>1, <2>2, LeaveKeepsInv DEF serverVars, processVars
  <2>3. CASE c \notin open
    <3>1. UNCHANGED Local(c) /\ InBacklog(c)' = InBacklog(c)
      BY <1>1, <2>1, <2>3 DEF Local, InBacklog
    <3> QED BY <3>1, OthersKeepInv
  <2> QED BY <2>2, <2>3
<1> QED BY <1>2, <1>3, <1>4

\* What the program does is what Connection allows its clients, one step or,
\* when the process dies, many at once.
LEMMA ToolStepKeepsStreams ==
  ASSUME StreamsInv, [ToolNext]_allVars
  PROVE  StreamsInv'
<1>1. CASE [Next]_vars
  BY <1>1, NextStreamsInv
<1>2. ASSUME NEW c \in Clients, DrawThrows(c) PROVE StreamsInv'
  BY <1>2, DyingKeepsStreams DEF DrawThrows
<1>3. ASSUME NEW c \in Clients, RequestThrows(c) PROVE StreamsInv'
  BY <1>3, DyingKeepsStreams DEF RequestThrows, Works
<1>4. ASSUME NEW c \in Clients, ThreadUnreachable(c) PROVE StreamsInv'
  BY <1>4, DyingKeepsStreams DEF ThreadUnreachable
<1>5. ASSUME NEW c \in Clients,
             \/ ThreadConnects(c) \/ ThreadRequests(c) \/ ThreadReads(c) \/ EndIteration(c)
             \/ ThreadEnds(c) \/ OtherClient(c) \/ ServerStep(c)
      PROVE  [Next]_vars
  BY <1>5 DEF ThreadConnects, ThreadRequests, ThreadReads, EndIteration, ThreadEnds, OtherClient,
              ServerStep, Next, ClientRead
<1>6. ServerAccepts \/ ServerEnds \/ Report \/ UNCHANGED allVars => [Next]_vars
  BY DEF ServerAccepts, ServerEnds, Report, allVars, Next
<1> QED BY <1>1, <1>2, <1>3, <1>4, <1>5, <1>6 DEF ToolNext, ThreadStep

LEMMA ToolStreamsAlways == ToolSpec => []StreamsInv
<1>1. ToolInit => StreamsInv
  BY InitStreamsInv DEF ToolInit
<1>2. StreamsInv /\ [ToolNext]_allVars => StreamsInv'
  BY ToolStepKeepsStreams
<1> QED BY <1>1, <1>2, PTL DEF ToolSpec

----------------------------------------------------------------------------
(* Counting the measurements                                               *)

LEMMA CountsAreNatural ==
  ASSUME Started
  PROVE  Asked \in Nat /\ Iterations \in Nat
BY LoadAssumption DEF Started, Asked, Iterations, Ints

\* Once all threads have ended as they should, everything asked for has been
\* measured once, and everything sent has been executed once.
LEMMA WholeRun ==
  ASSUME ToolInv, AllJoined, \A c \in threads : ThreadInv(c), StreamsInv
  PROVE  /\ measurements = Asked * Cardinality(threads)
         /\ \A c \in threads : executed[c] = Iterations
<1>1. /\ IsFiniteSet(threads) /\ threads \subseteq Clients
      /\ WarmUp \in Nat /\ program \in {"benchmark", "statistics"}
  BY LoadAssumption DEF ToolInv, Started
<1>2. Asked \in Nat /\ Iterations \in Nat
  BY CountsAreNatural DEF ToolInv
<1>3. \A c \in threads : done[c] = Iterations /\ executed[c] = Iterations
  <2> SUFFICES ASSUME NEW c \in threads PROVE done[c] = Iterations /\ executed[c] = Iterations
    OBVIOUS
  <2>1. sent[c] \in Nat /\ client[c] = "gone"
    BY <1>1 DEF AllJoined, StreamsInv, TypeOK
  <2> QED BY <1>2, <2>1 DEF ThreadInv
<1> DEFINE first == IF program = "benchmark" THEN 0 ELSE WarmUp
           numbers == first .. first + Asked - 1
<1>4. \A i \in Nat : i < Iterations /\ Measured(i) <=> i \in numbers
  BY <1>1, <1>2 DEF Iterations, Measured
<1>5. MeasuredSet = threads \X numbers
  <2>1. numbers \subseteq Nat
    BY <1>1, <1>2
  <2> HIDE DEF numbers
  <2> QED BY <1>3, <1>4, <2>1 DEF MeasuredSet
<1>6. IsFiniteSet(numbers) /\ Cardinality(numbers) = Asked
  <2>1. first \in Int /\ first + Asked - 1 \in Int /\ (first > first + Asked - 1 <=> Asked = 0)
    BY <1>1, <1>2
  <2> HIDE DEF first
  <2> QED BY <1>2, <2>1, FS_Interval
<1>7. Cardinality(threads) \in Nat
  BY <1>1, FS_CardinalityType
<1> HIDE DEF numbers
<1>8. Cardinality(threads \X numbers) = Cardinality(threads) * Asked
  BY <1>1, <1>6, FS_Product
<1>9. Cardinality(threads) * Asked = Asked * Cardinality(threads)
  BY <1>2, <1>7
<1> QED BY <1>3, <1>5, <1>8, <1>9 DEF ToolInv

\* A number of measurements that is an int is compared as it is.
LEMMA WrappedIsSame ==
  ASSUME NEW i \in 0 .. IntMax
  PROVE  Wrapped(i) = i
<1>1. i + IntMax + 1 \in Nat /\ UintMod \in Nat /\ i + IntMax + 1 < UintMod /\ i \in Int /\ IntMax \in Int
  BY LoadAssumption DEF UintMod
<1>2. (i + IntMax + 1) % UintMod = i + IntMax + 1
  BY <1>1, SmallRemainder
<1> QED BY <1>1, <1>2 DEF Wrapped

\* Another iteration adds one measurement, if it is to be measured.
LEMMA OneMoreMeasured ==
  ASSUME ToolInv, NEW c \in Clients, EndIteration(c)
  PROVE  IsFiniteSet(MeasuredSet)' /\ (measurements = Cardinality(MeasuredSet))'
<1>1. /\ c \in threads /\ done[c] \in Nat /\ threads \subseteq Clients
      /\ done' = [done EXCEPT ![c] = @ + 1] /\ UNCHANGED <<program, threads>>
      /\ measurements' = IF Measured(done[c]) THEN measurements + 1 ELSE measurements
  BY LoadAssumption DEF EndIteration, Works, ToolInv, Started, settings
<1>2. \A d \in threads : done[d] \in Nat
  BY <1>1 DEF ToolInv
<1>3. \A d \in threads, i \in Nat :
        i < done'[d] <=> i < done[d] \/ (d = c /\ i = done[c])
  BY <1>1, <1>2 DEF ToolInv
<1>4. \A i : Measured(i)' = Measured(i)
  BY <1>1 DEF Measured
<1>5. CASE Measured(done[c])
  <2>1. MeasuredSet' = MeasuredSet \union {<<c, done[c]>>} /\ <<c, done[c]>> \notin MeasuredSet
    BY <1>1, <1>3, <1>4, <1>5 DEF MeasuredSet
  <2>2. IsFiniteSet(MeasuredSet) /\ measurements = Cardinality(MeasuredSet)
    BY DEF ToolInv
  <2> HIDE DEF MeasuredSet
  <2>3. IsFiniteSet(MeasuredSet') /\ Cardinality(MeasuredSet') = Cardinality(MeasuredSet) + 1
    BY <2>1, <2>2, FS_AddElement
  <2> QED BY <1>1, <1>5, <2>2, <2>3
<1>6. CASE ~Measured(done[c])
  <2>1. MeasuredSet' = MeasuredSet
    BY <1>1, <1>3, <1>4, <1>6 DEF MeasuredSet
  <2> QED BY <1>1, <1>6, <2>1 DEF ToolInv
<1> QED BY <1>5, <1>6

----------------------------------------------------------------------------
(* The steps of the program                                                *)

\* Nothing changes what the program was asked for, and a state reached by an
\* exception or by main stays.
LEMMA ToolFrame ==
  ASSUME StreamsInv, ToolInv, [ToolNext]_allVars
  PROVE  /\ UNCHANGED settings /\ Started'
         /\ state # "running" => UNCHANGED toolVars
         /\ \/ UNCHANGED <<done, measurements>>
            \/ \E c \in Clients : EndIteration(c)
<1>1. UNCHANGED settings
  BY DEF ToolNext, ThreadStep, OtherClient, ServerStep, ServerAccepts, ServerEnds, Report,
         ThreadConnects, ThreadUnreachable, ThreadRequests, DrawThrows, ThreadReads, RequestThrows,
         EndIteration, ThreadEnds, Dies, allVars, toolVars, settings
<1>2. Started'
  BY <1>1 DEF ToolInv, Started, settings
<1>3. state # "running" => UNCHANGED toolVars
  BY DEF ToolNext, ThreadStep, OtherClient, ServerStep, ServerAccepts, ServerEnds, Report,
         ThreadConnects, ThreadUnreachable, ThreadRequests, DrawThrows, ThreadReads, RequestThrows,
         EndIteration, ThreadEnds, AtLoopHead, Works, allVars
<1>4. \/ UNCHANGED <<done, measurements>>
      \/ \E c \in Clients : EndIteration(c)
  BY DEF ToolNext, ThreadStep, OtherClient, ServerStep, ServerAccepts, ServerEnds, Report,
         ThreadConnects, ThreadUnreachable, ThreadRequests, DrawThrows, ThreadReads, RequestThrows,
         ThreadEnds, Dies, allVars, toolVars
<1> QED BY <1>1, <1>2, <1>3, <1>4

\* A thread that has ended is not executed for any more.
LEMMA GoneIsExecuted ==
  ASSUME TypeOK, NEW c \in Clients, ConnectionInv(c), client[c] = "gone", executed[c] = sent[c]
  PROVE  ~OnRead(c)
<1>1. up[c] = <<Fin>>
  BY DEF ConnectionInv, TypeOK
<1> QED BY <1>1, ShortStreams DEF OnRead, Fin

\* The thread's own steps, and those of the session that serves it.
LEMMA ThreadKeepsInv ==
  ASSUME StreamsInv, ToolInv, Orderly, Orderly', NEW c \in threads, ThreadInv(c),
         ThreadStep(c) \/ ServerStep(c)
  PROVE  ThreadInv(c)'
<1>1. c \in Clients /\ TypeOK /\ ConnectionInv(c) /\ done \in [Clients -> Nat]
  BY LoadAssumption DEF StreamsInv, ToolInv, Started
<1>2. Iterations' = Iterations /\ Iterations \in Int
  <2>1. UNCHANGED settings /\ Iterations \in Nat
    BY ToolFrame, CountsAreNatural, <1>1 DEF ToolNext, ToolInv
  <2> QED BY <2>1 DEF Iterations, Asked, settings
<1>3. sent[c] \in Nat /\ done[c] \in Nat /\ executed[c] \in Nat
  BY <1>1 DEF TypeOK
<1>4. CASE ThreadConnects(c)
  BY <1>1, <1>2, <1>4 DEF ThreadConnects, Connect, TypeOK, ThreadInv, toolVars
<1>5. CASE ThreadRequests(c)
  <2>1. /\ client'[c] = "waiting" /\ sent'[c] = sent[c] + 1 /\ done'[c] = done[c]
        /\ done[c] = sent[c] /\ done[c] < Iterations
    BY <1>1, <1>5 DEF ThreadRequests, AtLoopHead, SendRequest, TypeOK, toolVars
  <2> QED BY <1>2, <1>3, <2>1 DEF ThreadInv
<1>6. CASE ThreadReads(c)
  BY <1>1, <1>2, <1>6 DEF ThreadReads, TakeReply, TypeOK, ThreadInv, toolVars
<1>7. CASE EndIteration(c)
  <2>1. /\ client'[c] = "ready" /\ sent'[c] = sent[c] /\ done'[c] = done[c] + 1 /\ done[c] < sent[c]
    BY <1>1, <1>7 DEF EndIteration, vars
  <2> QED BY <1>2, <1>3, <2>1 DEF ThreadInv
<1>8. CASE ThreadEnds(c)
  <2>1. /\ UNCHANGED <<sent, done, executed>> /\ done[c] = sent[c] /\ done[c] >= Iterations
        /\ client[c] = "ready"
    BY <1>8 DEF ThreadEnds, AtLoopHead, Leave, toolVars, serverVars
  <2>2. executed[c] = sent[c]
    BY <1>1, <2>1 DEF ConnectionInv
  <2> QED BY <1>2, <2>1, <2>2 DEF ThreadInv
<1>9. CASE DrawThrows(c) \/ RequestThrows(c) \/ ThreadUnreachable(c)
  BY <1>9 DEF DrawThrows, RequestThrows, ThreadUnreachable, Dies, Orderly
<1>10. CASE ServerStep(c)
  <2>1. UNCHANGED <<client, sent, done>>
    BY <1>10 DEF ServerStep, SessionStep, OnRead, OnReadEnd, WriteReply, OnWrite, WriteFails, Timeout,
               Close, clientVars, toolVars
  <2>2. client[c] = "gone" /\ executed[c] = sent[c] => executed'[c] = executed[c]
    BY <1>1, <1>10, GoneIsExecuted
    DEF ServerStep, SessionStep, OnReadEnd, WriteReply, OnWrite, WriteFails, Timeout
  <2> QED BY <1>2, <2>1, <2>2 DEF ThreadInv
<1> QED BY <1>4, <1>5, <1>6, <1>7, <1>8, <1>9, <1>10 DEF ThreadStep

\* The steps of others leave a thread alone.
LEMMA OthersLeaveThread ==
  ASSUME StreamsInv, ToolInv, Orderly, Orderly', NEW c \in threads, NEW d \in Clients \ {c},
         ThreadStep(d) \/ OtherClient(d) \/ ServerStep(d)
  PROVE  UNCHANGED <<client[c], sent[c], executed[c], done[c]>>
<1>1. c \in Clients /\ TypeOK /\ done \in [Clients -> Nat]
  BY LoadAssumption DEF StreamsInv, ToolInv, Started
<1>2. CASE DrawThrows(d) \/ RequestThrows(d) \/ ThreadUnreachable(d)
  BY <1>2 DEF DrawThrows, RequestThrows, ThreadUnreachable, Dies, Orderly
<1>3. CASE EndIteration(d)
  BY <1>1, <1>3 DEF EndIteration, vars
<1>4. CASE ~(DrawThrows(d) \/ RequestThrows(d) \/ ThreadUnreachable(d) \/ EndIteration(d))
  <2>1. Connect(d) \/ ConnectThrows(d) \/ SendRequest(d) \/ ClientRead(d) \/ Leave(d) \/ SessionStep(d)
    BY <1>4 DEF ThreadStep, OtherClient, ServerStep, ThreadConnects, ThreadRequests, ThreadReads,
                ThreadEnds, ClientRead
  <2>2. UNCHANGED Local(c)
    BY <1>1, <2>1, StepsAreLocal
  <2>3. UNCHANGED done
    BY <1>4 DEF ThreadStep, OtherClient, ServerStep, ThreadConnects, ThreadRequests, ThreadReads,
                ThreadEnds, toolVars
  <2> QED BY <2>2, <2>3 DEF Local
<1> QED BY <1>2, <1>3, <1>4

\* As long as nothing was thrown, each thread is where its counts say.
LEMMA ThreadsKeepInv ==
  ASSUME StreamsInv, ToolInv, [ToolNext]_allVars, Orderly', NEW c \in threads'
  PROVE  ThreadInv(c)'
<1>1. c \in threads /\ Iterations' = Iterations /\ UNCHANGED <<threads, nreq, program>>
  BY ToolFrame DEF settings, Iterations, Asked
<1>2. Orderly
  BY ToolFrame DEF Orderly, toolVars
<1>3. c \in Clients /\ ThreadInv(c)
  BY <1>1, <1>2, LoadAssumption DEF ToolInv, Started
<1>4. CASE UNCHANGED <<client[c], sent[c], executed[c], done[c]>>
  BY <1>1, <1>3, <1>4 DEF ThreadInv
<1>5. CASE ServerAccepts \/ ServerEnds \/ Report \/ UNCHANGED allVars
  BY <1>4, <1>5 DEF ServerAccepts, Accept, ServerEnds, ServerDies, Report, allVars, vars, toolVars, clientVars
<1>6. ASSUME NEW d \in Clients \ {c}, ThreadStep(d) \/ OtherClient(d) \/ ServerStep(d)
      PROVE  ThreadInv(c)'
  BY <1>1, <1>2, <1>4, <1>6, OthersLeaveThread
<1>7. CASE ThreadStep(c) \/ ServerStep(c)
  BY <1>1, <1>2, <1>3, <1>7, ThreadKeepsInv
<1>8. ~OtherClient(c)
  BY <1>1 DEF OtherClient
<1> QED BY <1>3, <1>5, <1>6, <1>7, <1>8 DEF ToolNext

\* Main reports what its threads have measured.
LEMMA ReportKept ==
  ASSUME StreamsInv, StreamsInv', ToolInv, [ToolNext]_allVars,
         \A c \in threads : Orderly' => ThreadInv(c)'
  PROVE  /\ (state \in {"reported", "assertion"} => AllJoined)'
         /\ ReportsWholeRun'
<1>1. UNCHANGED <<threads, program, nthread, nreq, Asked, Iterations>>
  BY ToolFrame DEF settings, Iterations, Asked
<1>2. CASE Report
  <2>1. UNCHANGED <<vars, done, measurements>> /\ AllJoined /\ state = "running"
        /\ \E reqSize \in ReqSizes :
             state' = IF program = "benchmark" /\ Wrapped(measurements) # reqSize
                      THEN "assertion" ELSE "reported"
    BY <1>2 DEF Report
  <2>2. AllJoined'
    BY <1>1, <2>1 DEF AllJoined, vars
  <2>3. /\ measurements = Asked * Cardinality(threads)
        /\ \A c \in threads : executed[c] = Iterations
    BY <2>1, WholeRun DEF ToolInv, Orderly
  <2>4. ASSUME nreq >= 0, nthread >= 0, nreq * nthread <= IntMax
        PROVE  state' # "assertion"
    <3>0. PICK s \in Settings : threads = s.threads /\ nthread = s.nthread
      BY DEF ToolInv, Started
    <3>1. measurements = nreq * nthread
      <4>1. Cardinality(threads) = nthread
        <5>1. Cardinality(s.threads) = IF s.nthread < 0 THEN 0 ELSE s.nthread
          BY LoadAssumption
        <5>2. ~(s.nthread < 0)
          BY <2>4, <3>0, LoadAssumption DEF Ints
        <5> QED BY <3>0, <5>1, <5>2
      <4>2. Asked = nreq
        BY <2>4, LoadAssumption DEF ToolInv, Started, Asked, Ints
      <4> QED BY <2>3, <4>1, <4>2
    <3>2. nreq * nthread \in 0 .. IntMax
      BY <2>4, LoadAssumption, ProductsAreNatural DEF ToolInv, Started, Ints
    <3>3. Wrapped(nreq * nthread) = nreq * nthread
      BY <3>2, WrappedIsSame
    <3> QED BY <2>1, <3>1, <3>3 DEF ReqSizes
  <2>5. nreq * nthread \in Int /\ IntMax \in Int /\ nreq \in Int /\ nthread \in Int
    BY LoadAssumption DEF ToolInv, Started, Ints
  <2>6. state' = "assertion" => nreq < 0 \/ nthread < 0 \/ nreq * nthread > IntMax
    BY <2>4, <2>5
  <2> QED BY <1>1, <2>1, <2>2, <2>3, <2>6 DEF ReportsWholeRun, vars
<1>3. CASE state' \notin {"reported", "assertion"}
  BY <1>3 DEF ReportsWholeRun
<1>4. CASE state' \in {"reported", "assertion"} /\ ~Report
  <2>1. state # "running"
    BY <1>4 DEF ToolNext, ThreadStep, OtherClient, ServerStep, ServerAccepts, ServerEnds,
                ThreadConnects, ThreadUnreachable, ThreadRequests, DrawThrows, ThreadReads,
                RequestThrows, EndIteration, ThreadEnds, AtLoopHead, Works, Dies, allVars, toolVars
  <2>2. UNCHANGED toolVars
    BY <2>1, ToolFrame
  <2>3. Orderly /\ Orderly' /\ AllJoined
    BY <1>4, <2>2 DEF Orderly, ToolInv, toolVars
  <2>4. \A c \in threads : client'[c] = "gone"
    <3> SUFFICES ASSUME NEW c \in threads PROVE client'[c] = "gone"
      OBVIOUS
    <3>1. client[c] = "gone"
      BY <2>3 DEF AllJoined
    <3>2. ASSUME NEW d \in Clients \ {c}, ThreadStep(d) \/ OtherClient(d) \/ ServerStep(d)
          PROVE  client'[c] = client[c]
      BY <2>3, <3>2, OthersLeaveThread
    <3>3. CASE ServerStep(c) \/ ServerAccepts \/ ServerEnds \/ UNCHANGED allVars
      BY <3>1, <3>3 DEF ServerStep, SessionStep, OnRead, OnReadEnd, WriteReply, OnWrite, WriteFails,
                        Timeout, Close, clientVars, ServerAccepts, Accept, ServerEnds, ServerDies,
                        allVars, vars
    <3>4. ~ThreadStep(c)
      BY <2>1 DEF ThreadStep, ThreadConnects, ThreadUnreachable, ThreadRequests, DrawThrows,
                  ThreadReads, RequestThrows, EndIteration, ThreadEnds, AtLoopHead, Works
    <3>5. ~OtherClient(c)
      BY DEF OtherClient
    <3> QED BY <1>4, <3>1, <3>2, <3>3, <3>4, <3>5 DEF ToolNext
  <2>5. AllJoined'
    BY <1>1, <2>4 DEF AllJoined
  <2>6. \A c \in threads : executed'[c] = executed[c]
    <3> SUFFICES ASSUME NEW c \in threads PROVE executed'[c] = executed[c]
      OBVIOUS
    <3>1. ThreadInv(c) /\ ThreadInv(c)' /\ client[c] = "gone" /\ client'[c] = "gone"
      BY <2>3, <2>4 DEF ToolInv, AllJoined
    <3>2. /\ executed[c] = sent[c] /\ executed'[c] = sent'[c] /\ done[c] = sent[c] /\ done'[c] = sent'[c]
          /\ UNCHANGED done
      BY <2>2, <3>1 DEF ThreadInv, toolVars
    <3> QED BY <3>2
  <2>7. ReportsWholeRun
    BY DEF ToolInv
  <2> QED BY <1>1, <1>4, <2>2, <2>5, <2>6, <2>7 DEF ReportsWholeRun, toolVars
<1> QED BY <1>2, <1>3, <1>4

\* Only an empty pool makes the draw throw.
LEMMA DrawKept ==
  ASSUME StreamsInv, ToolInv, [ToolNext]_allVars
  PROVE  DrawsFromPool'
<1>1. UNCHANGED keyNum
  BY ToolFrame DEF settings
<1>2. ASSUME NEW c \in Clients, DrawThrows(c) PROVE keyNum = 0
  BY <1>2, IndicesInPool DEF DrawThrows, ToolInv
<1>3. CASE UNCHANGED state
  BY <1>1, <1>3 DEF ToolInv, DrawsFromPool
<1>4. CASE state' # "no_key"
  BY <1>4 DEF DrawsFromPool
<1> QED
  BY <1>1, <1>2, <1>3, <1>4
  DEF DrawsFromPool, ToolNext, ThreadStep, OtherClient, ServerStep, ServerAccepts, ServerEnds, Report,
      ThreadConnects, ThreadUnreachable, ThreadRequests, ThreadReads, RequestThrows, EndIteration,
      ThreadEnds, Dies, allVars, toolVars

LEMMA InitToolInv == ToolInit => ToolInv
<1> SUFFICES ASSUME ToolInit PROVE ToolInv
  OBVIOUS
<1>1. Started /\ state = "running" /\ done = [c \in Clients |-> 0] /\ measurements = 0
      /\ sent = [c \in Clients |-> 0] /\ client = [c \in Clients |-> "new"]
  BY DEF ToolInit, Init, Started
<1>2. threads \subseteq Clients
  BY <1>1, LoadAssumption DEF Started
<1>3. MeasuredSet = {}
  BY <1>1, <1>2 DEF MeasuredSet
<1>4. IsFiniteSet(MeasuredSet) /\ measurements = Cardinality(MeasuredSet)
  BY <1>1, <1>3, FS_EmptySet
<1>5. \A c \in threads : ThreadInv(c)
  BY <1>1, <1>2, CountsAreNatural DEF ThreadInv
<1> QED BY <1>1, <1>4, <1>5 DEF ToolInv, ReportsWholeRun, DrawsFromPool

LEMMA NextToolInv ==
  ASSUME StreamsInv, StreamsInv', ToolInv, [ToolNext]_allVars
  PROVE  ToolInv'
<1>1. Started'
  BY ToolFrame
<1>2. done' \in [Clients -> Nat]
  BY ToolFrame DEF ToolInv, EndIteration
<1>3. (state \in {"running", "reported", "assertion", "aborted", "no_key"})'
  BY DEF ToolInv, ToolNext, ThreadStep, OtherClient, ServerStep, ServerAccepts, ServerEnds, Report,
         ThreadConnects, ThreadUnreachable, ThreadRequests, DrawThrows, ThreadReads, RequestThrows,
         EndIteration, ThreadEnds, Dies, allVars, toolVars
<1>4. Orderly' => \A c \in threads' : ThreadInv(c)'
  BY ThreadsKeepInv
<1>5. threads' = threads
  BY ToolFrame DEF settings
<1>6. (state \in {"reported", "assertion"} => AllJoined)' /\ ReportsWholeRun'
  BY <1>4, <1>5, ReportKept
<1>7. IsFiniteSet(MeasuredSet)' /\ (measurements = Cardinality(MeasuredSet))'
  <2>1. CASE UNCHANGED <<done, measurements>>
    <3>1. MeasuredSet' = MeasuredSet
      BY <2>1, ToolFrame DEF MeasuredSet, Measured, settings
    <3> QED BY <2>1, <3>1 DEF ToolInv
  <2>2. CASE \E c \in Clients : EndIteration(c)
    BY <2>2, OneMoreMeasured
  <2> QED BY <2>1, <2>2, ToolFrame
<1>8. DrawsFromPool'
  BY DrawKept
<1> QED BY <1>1, <1>2, <1>3, <1>4, <1>6, <1>7, <1>8 DEF ToolInv

LEMMA ToolInvAlways == ToolSpec => []ToolInv
<1>1. ToolInit => ToolInv
  BY InitToolInv
<1>2. StreamsInv /\ StreamsInv' /\ ToolInv /\ [ToolNext]_allVars => ToolInv'
  BY NextToolInv
<1> QED BY <1>1, <1>2, ToolStreamsAlways, PTL DEF ToolSpec

----------------------------------------------------------------------------
(* Theorems                                                                *)

\* A program that reports has measured every request asked for once and had
\* each executed once; benchmark's assertion on the number of measurements
\* fails for nothing but a negative number of threads or requests, or a product
\* of the two that is no int.
THEOREM ReportsCoverTheRun == ToolSpec => []ReportsWholeRun
<1>1. ToolInv => ReportsWholeRun
  BY DEF ToolInv
<1> QED BY <1>1, ToolInvAlways, PTL

\* Every key drawn is one of the pool's, whatever its size, unless it is empty.
THEOREM DrawsAreFromThePool == ToolSpec => []DrawsFromPool
<1>1. ToolInv => DrawsFromPool
  BY DEF ToolInv
<1> QED BY <1>1, ToolInvAlways, PTL

\* Under load too, with a whole process dying at once, replies answer the
\* request waited for and requests are executed once.
THEOREM LoadedConnectionsAreSound ==
  ToolSpec => [](AnswersCurrent /\ NothingLeftOver /\ ExecutedOnce /\ ThrowsOnlyWithCause)
<1>1. StreamsInv => AnswersCurrent /\ NothingLeftOver /\ ExecutedOnce /\ ThrowsOnlyWithCause
  BY StreamsInvSuffices
<1> QED BY <1>1, ToolStreamsAlways, PTL
=============================================================================
