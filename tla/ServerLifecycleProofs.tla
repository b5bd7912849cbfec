----------------------- MODULE ServerLifecycleProofs -----------------------
(***************************************************************************)
(* Theorems about the life of the server process, for any options, number  *)
(* of threads and number of sessions.                                      *)
(***************************************************************************)
EXTENDS ServerLifecycle, SequenceTheorems, FiniteSetTheorems, TLAPS

\* What the options before the i-th ask for under a letter.
Given(letter, i) == {j \in 1 .. i - 1 : argv[j].opt = letter}
Asked(letter, i) == IF Given(letter, i) = {} THEN Defaults[letter] ELSE argv[Max(Given(letter, i))].arg
Follows(letter, value, asked) ==
  value = asked \/ (letter = "p" /\ asked \in {n \in Numbers : n >= PortMod})

Letters == {"m", "p", "s", "t"}
Configs == [m : Nat, p : 0 .. PortMod - 1, s : {Address, Dotted}, t : Threads]

ParseInv ==
  /\ argv \in Seq(Options) /\ optind \in 1 .. Len(argv) + 1
  /\ config \in Configs
  /\ \A letter \in Letters : Follows(letter, config[letter], Asked(letter, optind))
  /\ main # "parse" => optind = Len(argv) + 1

\* The pool has the threads 1, 2 and so on, as many as asked for in the end.
PoolInv ==
  /\ pool \subseteq Threads \ {Main}
  /\ Cardinality(pool) \in Nat /\ pool = 1 .. Cardinality(pool)
  /\ main = "run" => Cardinality(pool) = config.t - 1

\* Nothing is there that could use the cache.
Quiet == pool = {} /\ sessions = 0 /\ ~accepting /\ \A t \in Threads : handler[t] = "idle"

ServeInv ==
  /\ main \in {"parse", "address", "spawn", "run", "catch"}
  /\ exit \in {"none", "usage", "terminated", "failure", "success", "crashed"}
  /\ acceptor \in Stages \union {"none"} /\ accepting \in BOOLEAN
  /\ sessions \in 0 .. MaxSessions
  /\ handler \in [Threads -> {"idle", "accept", "request"}]
  /\ main \in {"parse", "address", "catch"} => Quiet
  /\ main \in {"spawn", "run"} => accepting \/ \E t \in Threads : handler[t] = "accept"
  /\ sessions > 0 \/ Serving # {} => acceptor = "listening"
  /\ Cardinality(Serving) <= sessions

ObjectInv ==
  /\ {evictor, cache} \subseteq {"none", "live", "deleted"} /\ dangling \in BOOLEAN
  /\ evictor = "deleted" \/ dangling => main = "catch"

LifecycleInv == ParseInv /\ PoolInv /\ ServeInv /\ ObjectInv

----------------------------------------------------------------------------
(* The options                                                             *)

\* The last number of a set is the one added behind all others.
LEMMA MaxOfNew ==
  ASSUME NEW n \in Nat, NEW T, T \subseteq 1 .. n - 1
  PROVE  Max(T \union {n}) = n
<1> DEFINE U == T \union {n}
<1>1. n \in U /\ U \subseteq Nat /\ \A y \in U : n >= y
  OBVIOUS
<1> HIDE DEF U
<1>2. Max(U) \in U /\ \A y \in U : Max(U) >= y
  BY <1>1 DEF Max
<1>3. Max(U) \in Nat
  BY <1>1, <1>2
<1>4. Max(U) >= n /\ n >= Max(U)
  BY <1>1, <1>2
<1> QED BY <1>3, <1>4 DEF U

\* What the options are, the one at hand included.
LEMMA OptionForms ==
  ASSUME ParseInv, MoreOptions
  PROVE  /\ optind \in Nat /\ optind + 1 \in 1 .. Len(argv) + 1
         /\ \/ Option.opt \in {"m", "p", "t"} /\ Option.arg \in Numbers \union {Malformed}
            \/ Option.opt = "s" /\ Option.arg \in {Address, Dotted, Malformed}
            \/ Option.opt = "?" /\ Option.arg = NoArgument
<1>1. /\ Len(argv) \in Nat /\ optind \in 1 .. Len(argv)
  BY LenProperties DEF ParseInv, MoreOptions
<1>2. Option \in Options
  BY <1>1, ElementOfSeq DEF ParseInv, Option
<1> QED BY <1>1, <1>2 DEF Options

\* An option taken is what is stored, except for a port that is cut.
LEMMA TakeKeepsInv ==
  ASSUME ParseInv, TakeOption
  PROVE  ParseInv'
<1>1. /\ MoreOptions /\ main = "parse" /\ UNCHANGED <<argv, main>> /\ optind' = optind + 1
      /\ Option.arg \in {Address, Dotted} \union {n \in Numbers : n <= IntMax}
      /\ config' = [config EXCEPT ![Option.opt] = Stored(Option)]
  BY DEF TakeOption, MoreOptions, InMain
<1>2. /\ optind \in Nat /\ optind + 1 \in 1 .. Len(argv) + 1
      /\ \/ Option.opt \in {"m", "p", "t"} /\ Option.arg \in {n \in Numbers : n <= IntMax}
         \/ Option.opt = "s" /\ Option.arg \in {Address, Dotted}
  BY <1>1, OptionForms, TextsAssumption
<1>3. /\ Option.opt # "p" => Stored(Option) = Option.arg
      /\ Option.opt = "p" => /\ Stored(Option) \in 0 .. PortMod - 1
                             /\ Option.arg < PortMod => Stored(Option) = Option.arg
  <2>1. \A n \in Nat : n % PortMod \in 0 .. PortMod - 1 /\ (n < PortMod => n % PortMod = n)
    BY WidthAssumption
  <2> QED BY <1>2, <2>1, WidthAssumption DEF Stored
<1>4. config' \in Configs
  <2>1. Option.opt = "t" => Stored(Option) \in Threads
    <3>1. ASSUME NEW n \in Numbers, n <= IntMax PROVE n \in Threads
      <4>1. n \in Nat /\ IntMax \in Nat
        BY WidthAssumption
      <4> QED BY <3>1, <4>1 DEF Threads
    <3> QED BY <1>2, <1>3, <3>1
  <2>2. Option.opt = "m" => Stored(Option) \in Nat
    BY <1>2, <1>3, WidthAssumption
  <2>3. Option.opt = "s" => Stored(Option) \in {Address, Dotted}
    BY <1>2, <1>3
  <2> QED BY <1>1, <1>2, <1>3, <2>1, <2>2, <2>3 DEF Configs, ParseInv
<1>5. ASSUME NEW letter \in Letters
      PROVE  Follows(letter, config'[letter], Asked(letter, optind)')
  <2>1. CASE letter = Option.opt
    <3>1. Given(letter, optind)' = Given(letter, optind) \union {optind}
      <4>1. optind \in Nat \ {0} /\ optind' - 1 = optind
        BY <1>1, <1>2 DEF ParseInv
      <4>2. 1 .. optind = (1 .. optind - 1) \union {optind}
        BY <4>1
      <4> QED BY <1>1, <2>1, <4>1, <4>2 DEF Given, Option
    <3>2. Given(letter, optind) \subseteq 1 .. optind - 1
      BY DEF Given
    <3>3. Asked(letter, optind)' = Option.arg
      BY <1>1, <1>2, <3>1, <3>2, MaxOfNew DEF Asked, Option
    <3>4. config'[letter] = Stored(Option)
      BY <1>1, <1>2, <2>1 DEF ParseInv, Configs, Letters
    <3>5. letter = "p" => Option.arg \in Numbers /\ Option.arg \in Nat
      BY <1>2, <2>1, WidthAssumption
    <3>6. letter = "p" /\ ~(Option.arg < PortMod) => Option.arg >= PortMod
      BY <3>5, WidthAssumption
    <3> QED BY <1>3, <2>1, <3>3, <3>4, <3>5, <3>6 DEF Follows
  <2>2. CASE letter # Option.opt
    <3>1. Given(letter, optind)' = Given(letter, optind)
      BY <1>1, <1>2, <2>2 DEF Given, Option
    <3>2. Asked(letter, optind)' = Asked(letter, optind)
      BY <1>1, <3>1 DEF Asked
    <3>3. config'[letter] = config[letter]
      BY <1>1, <1>2, <2>2 DEF ParseInv, Configs, Letters
    <3> QED BY <3>2, <3>3 DEF ParseInv
  <2> QED BY <2>1, <2>2
<1> QED BY <1>1, <1>2, <1>4, <1>5 DEF ParseInv

\* The steps after set_params, and the ends of it.
LEMMA ParseKept ==
  ASSUME ParseInv, PoolInv, [Next]_vars
  PROVE  ParseInv'
<1>1. CASE TakeOption
  BY <1>1, TakeKeepsInv
<1>2. CASE CreateCache
  <2>1. Len(argv) \in Nat
    BY LenProperties DEF ParseInv
  <2>2. UNCHANGED <<argv, optind, config>> /\ optind = Len(argv) + 1
    BY <1>2, <2>1 DEF CreateCache, parseVars, ParseInv
  <2> QED BY <2>2 DEF ParseInv, Asked, Given
<1>3. CASE UNCHANGED parseVars /\ (main' # "parse" => main # "parse")
  BY <1>3 DEF parseVars, ParseInv, Asked, Given
<1>4. ASSUME NEW t \in Threads, HandlerThrows(t) PROVE main' # "parse" => main # "parse"
  BY <1>4 DEF HandlerThrows, Unwind, LeavesThread, Ends, Running, PoolInv
<1> QED
  BY <1>1, <1>2, <1>3, <1>4
  DEF Next, OptionThrows, RefuseOption, BadAddress, CreateListener, SpawnThrows, SpawnThread,
      EnterRun, StartAccept, OnAccept, StartRequest, FinishRequest, HandlerThrows,
      DeleteEvictor, DeleteCache, Unwind, Ends, AfterHandler, InMain, vars, parseVars

----------------------------------------------------------------------------
(* The pool                                                                *)

LEMMA PoolKept ==
  ASSUME ParseInv, PoolInv, [Next]_vars
  PROVE  PoolInv'
<1>1. CASE SpawnThread
  <2> DEFINE n == Cardinality(pool)
  <2>1. /\ n \in Nat /\ pool = 1 .. n /\ n < config.t - 1 /\ pool' = pool \union {n + 1}
        /\ main' = "spawn"
    BY <1>1 DEF SpawnThread, PoolInv, InMain
  <2>2. config.t \in 0 .. IntMax /\ IntMax \in Nat
    BY WidthAssumption DEF ParseInv, Configs, Threads
  <2> HIDE DEF n
  <2>3. pool' = 1 .. n + 1
    BY <2>1
  <2>4. Cardinality(pool') = n + 1
    <3>1. 1 \in Int /\ n + 1 \in Int /\ ~(1 > n + 1) /\ n + 1 - 1 + 1 = n + 1
      BY <2>1
    <3> QED BY <2>3, <3>1, FS_Interval
  <2>5. pool' \subseteq Threads \ {Main}
    BY <2>1, <2>2, <2>3 DEF Threads, Main
  <2>6. n + 1 \in Nat
    BY <2>1
  <2> QED BY <2>1, <2>3, <2>4, <2>5, <2>6 DEF PoolInv
<1>2. CASE EnterRun
  BY <1>2 DEF EnterRun, PoolInv, serveVars, parseVars
<1>3. CASE TakeOption
  BY <1>3 DEF TakeOption, PoolInv, MoreOptions, InMain, serveVars
<1>4. CASE UNCHANGED <<pool, config>> /\ (main' = "run" => main = "run")
  BY <1>4 DEF PoolInv
<1> QED
  BY <1>1, <1>2, <1>3, <1>4
  DEF Next, OptionThrows, RefuseOption, CreateCache, BadAddress, CreateListener, SpawnThrows,
      StartAccept, OnAccept, StartRequest, FinishRequest, HandlerThrows, LeavesThread,
      DeleteEvictor, DeleteCache, Unwind, Ends, AfterHandler, vars, parseVars, serveVars

----------------------------------------------------------------------------
(* Handlers                                                                *)

LEMMA ServingFinite ==
  IsFiniteSet(Serving) /\ Cardinality(Serving) \in Nat /\ (Cardinality(Serving) = 0 <=> Serving = {})
<1>1. IsFiniteSet(Threads)
  BY FS_Interval, WidthAssumption DEF Threads
<1>2. IsFiniteSet(Serving)
  BY <1>1, FS_Subset DEF Serving
<1> QED BY <1>2, FS_CardinalityType, FS_EmptySet

\* Before there is a listener, and after main's try block, nothing runs.
LEMMA QuietDoesNothing ==
  ASSUME ServeInv, main \in {"parse", "address", "catch"}, NEW t \in Threads
  PROVE  ~Running(t)
BY DEF ServeInv, Quiet, Running

\* An exception that leaves the try block takes everything down.
LEMMA UnwindKeepsInv ==
  ASSUME ServeInv, main \in {"address", "spawn", "run"}, exit = "none", Unwind
  PROVE  ServeInv'
<1>1. CASE pool # {}
  BY <1>1 DEF Unwind, Ends, ServeInv, Quiet, Serving, serveVars
<1>2. CASE pool = {}
  <2>1. /\ main' = "catch" /\ UNCHANGED <<exit, pool>> /\ acceptor' = "none" /\ accepting' = FALSE
        /\ sessions' = 0 /\ handler' = [t \in Threads |-> "idle"]
    BY <1>2 DEF Unwind
  <2>2. Serving' = {} /\ Cardinality(Serving') = 0
    BY <2>1, FS_EmptySet DEF Serving
  <2>3. Quiet'
    BY <1>2, <2>1 DEF Quiet
  <2>4. 0 \in 0 .. MaxSessions
    BY BoundsAssumption
  <2>5. Cardinality(Serving)' <= sessions' /\ ~(sessions' > 0)
    BY <2>1, <2>2
  <2>6. handler' \in [Threads -> {"idle", "accept", "request"}]
    BY <2>1
  <2> QED BY <2>1, <2>2, <2>3, <2>4, <2>5, <2>6 DEF ServeInv
<1> QED BY <1>1, <1>2

\* Handlers start and finish in a server that goes on accepting.
LEMMA HandlersKeepInv ==
  ASSUME ServeInv, NEW t \in Threads,
         StartAccept(t) \/ OnAccept(t) \/ StartRequest(t) \/ FinishRequest(t)
  PROVE  ServeInv' /\ main' = main
<1>1. main \in {"spawn", "run"} /\ exit' = exit /\ acceptor' = acceptor
  BY QuietDoesNothing DEF ServeInv, StartAccept, OnAccept, StartRequest, FinishRequest
<1>2. handler \in [Threads -> {"idle", "accept", "request"}] /\ sessions \in 0 .. MaxSessions
      /\ MaxSessions \in Nat
  BY BoundsAssumption DEF ServeInv
<1>3. IsFiniteSet(Serving) /\ Cardinality(Serving) \in Nat /\ Cardinality(Serving) <= sessions
  BY ServingFinite DEF ServeInv
<1>4. CASE StartAccept(t)
  <2>1. /\ handler' = [handler EXCEPT ![t] = "accept"] /\ handler[t] = "idle"
        /\ accepting' = FALSE /\ UNCHANGED <<main, sessions>>
    BY <1>4 DEF StartAccept, Take
  <2>2. Serving' = Serving /\ handler'[t] = "accept"
    BY <1>2, <2>1 DEF Serving
  <2> QED BY <1>1, <1>2, <2>1, <2>2 DEF ServeInv
<1>5. CASE OnAccept(t)
  <2>1. /\ handler' = [handler EXCEPT ![t] = "idle"] /\ handler[t] = "accept"
        /\ accepting' = TRUE /\ main' = main
    BY <1>1, <1>5 DEF OnAccept, Take, Reaccepts, AfterHandler
  <2>2. Serving' = Serving
    BY <1>2, <2>1 DEF Serving
  <2>3. /\ sessions' \in 0 .. MaxSessions /\ sessions <= sessions'
        /\ sessions' = sessions \/ acceptor = "listening"
    <3>1. \/ sessions' = sessions
          \/ sessions' = sessions + 1 /\ sessions < MaxSessions /\ acceptor = "listening"
      BY <1>5 DEF OnAccept
    <3> QED BY <1>2, <3>1
  <2>4. Cardinality(Serving') <= sessions'
    BY <1>2, <1>3, <2>2, <2>3
  <2> QED BY <1>1, <1>2, <2>1, <2>2, <2>3, <2>4 DEF ServeInv
<1>6. CASE StartRequest(t)
  <2>1. /\ handler' = [handler EXCEPT ![t] = "request"] /\ handler[t] = "idle"
        /\ Cardinality(Serving) < sessions /\ UNCHANGED <<main, sessions, accepting>>
    BY <1>6 DEF StartRequest, Take
  <2>2. Serving' = Serving \union {t} /\ t \notin Serving
    BY <1>2, <2>1 DEF Serving
  <2>3. Cardinality(Serving') = Cardinality(Serving) + 1
    BY <1>3, <2>2, FS_AddElement
  <2>4. Cardinality(Serving') <= sessions' /\ sessions > 0
    BY <1>2, <1>3, <2>1, <2>3
  <2>5. \A u \in Threads : handler[u] = "accept" => handler'[u] = "accept"
    BY <1>2, <2>1
  <2> QED BY <1>1, <1>2, <2>1, <2>4, <2>5 DEF ServeInv
<1>7. CASE FinishRequest(t)
  <2>1. /\ handler' = [handler EXCEPT ![t] = "idle"] /\ handler[t] = "request"
        /\ sessions' \in {sessions, sessions - 1} /\ UNCHANGED accepting /\ AfterHandler
    BY <1>7 DEF FinishRequest, Take
  <2>2. Serving' = Serving \ {t} /\ t \in Serving
    BY <1>2, <2>1 DEF Serving
  <2>3. Cardinality(Serving') = Cardinality(Serving) - 1 /\ Cardinality(Serving') \in Nat
    BY <1>3, <2>2, FS_RemoveElement, FS_CardinalityType
  <2>4. Cardinality(Serving') <= sessions' /\ sessions' \in 0 .. MaxSessions
    BY <1>2, <1>3, <2>1, <2>3
  <2>5. \A u \in Threads : handler[u] = "accept" => handler'[u] = "accept"
    BY <1>2, <2>1
  <2>6. main' = main
    BY <1>1, <2>1, <2>5 DEF ServeInv, AfterHandler
  <2>7. acceptor = "listening"
    BY <2>2 DEF ServeInv
  <2> QED BY <1>1, <1>2, <2>1, <2>4, <2>5, <2>6, <2>7 DEF ServeInv
<1> QED BY <1>4, <1>5, <1>6, <1>7

\* A handler that throws in the pool ends the process, in main the try block.
LEMMA ThrowingKeepsInv ==
  ASSUME PoolInv, ServeInv, NEW t \in Threads, HandlerThrows(t)
  PROVE  /\ ServeInv' /\ exit = "none" /\ main \in {"spawn", "run"}
         /\ acceptor = "listening" /\ main' \in {main, "catch"}
<1>1. exit = "none" /\ main \in {"spawn", "run"}
  BY QuietDoesNothing DEF HandlerThrows, ServeInv, Running
<1>2. acceptor = "listening"
  BY DEF HandlerThrows, ServeInv, Serving
<1>3. CASE t = Main
  BY <1>1, <1>2, <1>3, UnwindKeepsInv DEF HandlerThrows, Unwind, Ends
<1>4. CASE t # Main
  <2>1. exit' = "terminated" /\ UNCHANGED <<main, acceptor, accepting, sessions, pool, handler>>
    BY <1>4 DEF HandlerThrows, LeavesThread, Ends, serveVars
  <2> QED BY <1>1, <1>2, <2>1 DEF ServeInv, Quiet, Serving
<1> QED BY <1>3, <1>4

LEMMA ServeKept ==
  ASSUME PoolInv, ServeInv, ObjectInv, [Next]_vars
  PROVE  ServeInv'
<1>1. CASE UNCHANGED <<main, serveVars>> /\
           exit' \in {"none", "usage", "terminated", "failure", "success", "crashed"}
  BY <1>1 DEF ServeInv, Quiet, Serving, serveVars
<1>2. exit \in {"none", "usage", "terminated", "failure", "success", "crashed"}
  BY DEF ServeInv
<1>3. CASE OptionThrows \/ RefuseOption \/ TakeOption \/ UNCHANGED vars
  BY <1>1, <1>2, <1>3 DEF OptionThrows, RefuseOption, TakeOption, Ends, vars, serveVars
<1>4. CASE CreateCache
  BY <1>4 DEF CreateCache, InMain, ServeInv, Quiet, Serving, serveVars
<1>5. CASE BadAddress \/ SpawnThrows
  BY <1>5, UnwindKeepsInv DEF BadAddress, SpawnThrows, InMain
<1>6. CASE CreateListener
  <2>1. /\ main = "address" /\ main' = "spawn" /\ acceptor' \in Stages /\ accepting' = TRUE
        /\ UNCHANGED <<exit, sessions, pool, handler>>
    BY <1>6 DEF CreateListener, InMain
  <2>2. sessions = 0 /\ Serving = {} /\ Serving' = Serving
    BY <2>1 DEF ServeInv, Quiet, Serving
  <2> QED BY <2>1, <2>2 DEF ServeInv
<1>7. CASE SpawnThread
  <2>1. main = "spawn" /\ UNCHANGED <<main, exit, acceptor, accepting, sessions, handler>>
    BY <1>7 DEF SpawnThread, InMain
  <2> QED BY <2>1 DEF ServeInv, Serving
<1>8. CASE EnterRun
  <2>1. main = "spawn" /\ main' = "run"
        /\ UNCHANGED <<exit, acceptor, accepting, sessions, pool, handler>>
    BY <1>8 DEF EnterRun, InMain, serveVars
  <2> QED BY <2>1 DEF ServeInv, Serving
<1>9. CASE DeleteEvictor \/ DeleteCache
  BY <1>1, <1>2, <1>9 DEF DeleteEvictor, DeleteCache
<1> QED BY <1>3, <1>4, <1>5, <1>6, <1>7, <1>8, <1>9, HandlersKeepInv, ThrowingKeepsInv DEF Next

LEMMA ObjectKept ==
  ASSUME PoolInv, ServeInv, ObjectInv, [Next]_vars
  PROVE  ObjectInv'
<1>1. CASE UNCHANGED objectVars /\ (main = "catch" => main' = "catch")
  BY <1>1 DEF ObjectInv, objectVars
<1>2. CASE CreateCache
  BY <1>2 DEF CreateCache, ObjectInv, InMain
<1>3. CASE DeleteEvictor \/ DeleteCache
  BY <1>3 DEF DeleteEvictor, DeleteCache, ObjectInv, ServeInv
<1>4. ASSUME NEW t \in Threads,
             \/ StartAccept(t) \/ OnAccept(t) \/ StartRequest(t) \/ FinishRequest(t) \/ HandlerThrows(t)
      PROVE  UNCHANGED objectVars /\ (main = "catch" => main' = "catch")
  BY <1>4, HandlersKeepInv, ThrowingKeepsInv
  DEF StartAccept, OnAccept, StartRequest, FinishRequest, HandlerThrows
<1>5. CASE \/ OptionThrows \/ RefuseOption \/ TakeOption \/ BadAddress \/ CreateListener
           \/ SpawnThrows \/ SpawnThread \/ EnterRun \/ UNCHANGED vars
  BY <1>1, <1>5
  DEF OptionThrows, RefuseOption, TakeOption, MoreOptions, BadAddress, CreateListener, SpawnThrows,
      SpawnThread, EnterRun, InMain, Ends, Unwind, vars, objectVars
<1> QED BY <1>1, <1>2, <1>3, <1>4, <1>5 DEF Next

----------------------------------------------------------------------------
(* Theorems                                                                *)

LEMMA InitLifecycleInv == Init => LifecycleInv
<1> SUFFICES ASSUME Init PROVE LifecycleInv
  OBVIOUS
<1>1. argv \in Seq(Options) /\ Len(argv) \in Nat
  <2>1. PICK n \in 0 .. MaxOptions : argv \in [1 .. n -> Options]
    BY DEF Init
  <2>2. argv \in Seq(Options)
    BY <2>1, SeqDef, BoundsAssumption
  <2> QED BY <2>2, LenProperties
<1>2. Defaults \in Configs
  BY WidthAssumption DEF Defaults, Configs, Threads
<1>3. \A letter \in Letters : Given(letter, optind) = {}
  BY DEF Init, Given
<1>4. ParseInv
  BY <1>1, <1>2, <1>3 DEF Init, ParseInv, Follows, Asked
<1>5. pool = {} /\ Cardinality({}) = 0 /\ 1 .. 0 = {}
  BY FS_EmptySet DEF Init
<1>6. PoolInv
  BY <1>5 DEF Init, PoolInv
<1>7. Serving = {}
  BY DEF Init, Serving
<1>8. ServeInv
  <2>1. Cardinality(Serving) <= sessions /\ ~(sessions > 0) /\ sessions \in 0 .. MaxSessions
    BY <1>5, <1>7, BoundsAssumption DEF Init
  <2>2. Quiet /\ handler \in [Threads -> {"idle", "accept", "request"}]
    BY DEF Init, Quiet
  <2> QED BY <1>7, <2>1, <2>2 DEF Init, ServeInv
<1> QED BY <1>4, <1>6, <1>8 DEF Init, ObjectInv, LifecycleInv

LEMMA LifecycleInvAlways == Spec => []LifecycleInv
<1>1. LifecycleInv /\ [Next]_vars => LifecycleInv'
  BY ParseKept, PoolKept, ServeKept, ObjectKept DEF LifecycleInv
<1> QED BY InitLifecycleInv, <1>1, PTL DEF Spec

\* Main's locals, the threads and the objects are in one of their states.
THEOREM LifecycleTypes == Spec => []LifecycleTypeOK
<1>1. LifecycleInv => LifecycleTypeOK
  BY DEF LifecycleInv, ParseInv, PoolInv, ServeInv, ObjectInv, LifecycleTypeOK, Configs
<1> QED BY <1>1, LifecycleInvAlways, PTL

\* Whatever options are given and repeated, the server runs with the last of
\* each letter; a port alone is cut, to 16 bits.
THEOREM OptionsAreFollowed == Spec => []ConfiguredAsAsked
<1>1. LifecycleInv => ConfiguredAsAsked
  <2> SUFFICES ASSUME LifecycleInv, main # "parse" PROVE ConfiguredAsAsked
    BY DEF ConfiguredAsAsked
  <2>1. argv \in Seq(Options) /\ optind = Len(argv) + 1 /\ config \in Configs
    BY DEF LifecycleInv, ParseInv
  <2>2. DOMAIN argv = 1 .. optind - 1
    BY <2>1, LenProperties
  <2>3. DOMAIN config = Letters
    BY <2>1 DEF Configs, Letters
  <2>4. \A letter \in Letters : {i \in DOMAIN argv : argv[i].opt = letter} = Given(letter, optind)
    BY <2>2 DEF Given
  <2>5. \A letter \in Letters : Follows(letter, config[letter], Asked(letter, optind))
    BY DEF LifecycleInv, ParseInv
  <2> QED BY <2>3, <2>4, <2>5 DEF ConfiguredAsAsked, Follows, Asked
<1> QED BY <1>1, LifecycleInvAlways, PTL

\* A server in ioc.run() has all the threads asked for, however many.
THEOREM PoolIsWhole == Spec => []WholePool
<1>1. LifecycleInv => WholePool
  BY DEF LifecycleInv, PoolInv, WholePool, InMain
<1> QED BY <1>1, LifecycleInvAlways, PTL

\* Nothing that could use them is left when evictor and cache are deleted.
THEOREM DeletionsComeLast == Spec => []DestroyedUnused
<1>1. LifecycleInv => DestroyedUnused
  BY DEF LifecycleInv, ServeInv, ObjectInv, Quiet, DestroyedUnused
<1> QED BY <1>1, LifecycleInvAlways, PTL

\* ioc.run() never returns: it is left by an exception in a session only.
THEOREM RunEndsByException == Spec => RunEndsOnlyInSession
<1>1. LifecycleInv /\ [Next]_vars =>
        [InMain("run") /\ ~InMain("run")' => main' # "done" /\ acceptor = "listening"]_vars
  <2> SUFFICES ASSUME LifecycleInv, Next, InMain("run"), ~InMain("run")'
               PROVE  main' # "done" /\ acceptor = "listening"
    OBVIOUS
  <2>1. main = "run" /\ exit = "none" /\ PoolInv /\ ServeInv
    BY DEF InMain, LifecycleInv
  <2>2. ASSUME NEW t \in Threads, HandlerThrows(t) PROVE main' # "done" /\ acceptor = "listening"
    BY <2>1, <2>2, ThrowingKeepsInv
  <2>3. ASSUME NEW t \in Threads, StartAccept(t) \/ OnAccept(t) \/ StartRequest(t) \/ FinishRequest(t)
        PROVE  InMain("run")'
    <3>1. main' = main
      BY <2>1, <2>3, HandlersKeepInv
    <3> QED BY <2>1, <2>3, <3>1 DEF StartAccept, OnAccept, StartRequest, FinishRequest, InMain
  <2> QED BY <2>1, <2>2, <2>3
          DEF Next, OptionThrows, RefuseOption, TakeOption, MoreOptions, CreateCache, BadAddress,
              CreateListener, SpawnThrows, SpawnThread, EnterRun, DeleteEvictor, DeleteCache, InMain
<1> QED BY <1>1, LifecycleInvAlways, PTL DEF Spec, RunEndsOnlyInSession
=============================================================================
