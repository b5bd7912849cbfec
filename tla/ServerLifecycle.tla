-------------------------- MODULE ServerLifecycle --------------------------
(***************************************************************************)
(* The life of the server process: main of cache_server.cc with set_params,*)
(* the listener's constructor and accept loop, the pool of threads and the *)
(* deletions.                                                              *)
(*                                                                         *)
(* What handlers do to the cache is module CacheServer's; here a handler   *)
(* returns or throws (dump() does on a value that is not UTF-8).           *)
(***************************************************************************)
EXTENDS Integers, Sequences, FiniteSetsExt

CONSTANTS
  Numbers,      \* the numbers given to -m, -p and -t
  Malformed,    \* a text that is_number and is_ip refuse
  Address,      \* an IP address
  Dotted,       \* digits and dots that is_ip takes and make_address does not
  NoArgument,   \* optarg is null
  MaxOptions,   \* bound on the number of options
  IntMax,       \* INT_MAX, the largest number stoi returns
  PortMod,      \* 2^16: port_type is an unsigned short
  MaxSessions   \* bound on the number of sessions

ASSUME WidthAssumption ==
  IntMax \in Nat \ {0} /\ PortMod \in Nat \ {0, 1} /\ Numbers \subseteq Nat
ASSUME TextsAssumption ==
  /\ Malformed \notin Numbers \union {Address, Dotted, NoArgument}
  /\ Address \notin Numbers \union {Dotted, NoArgument}
  /\ Dotted \notin Numbers \union {NoArgument}
  /\ NoArgument \notin Numbers
ASSUME BoundsAssumption == MaxOptions \in Nat /\ MaxSessions \in Nat

\* What getopt returns; "?" is an unknown letter or one without its argument.
Options ==
  [opt : {"m", "p", "t"}, arg : Numbers \union {Malformed}]
    \union [opt : {"s"}, arg : {Address, Dotted, Malformed}]
    \union [opt : {"?"}, arg : {NoArgument}]

Main == 0
Threads == 0 .. IntMax
Stages == {"closed", "open", "bound", "listening"}

VARIABLES
  argv, optind,   \* the options, and the next one to look at
  config,         \* maxmem, port, address and threads, by their letters
  main,           \* where main is
  exit,           \* how the process ended, or "none"
  acceptor,       \* how far the listener's constructor came, or "none"
  accepting,      \* an async_accept is outstanding
  sessions,       \* how many sessions there are
  pool,           \* the threads main has started
  handler,        \* what each thread runs for the io_context
  evictor, cache, \* main's objects: "none", "live" or "deleted"
  dangling        \* a method of the deleted evictor was called

vars == <<argv, optind, config, main, exit, acceptor, accepting, sessions, pool,
          handler, evictor, cache, dangling>>
parseVars == <<argv, optind, config>>
serveVars == <<acceptor, accepting, sessions, pool, handler>>
objectVars == <<evictor, cache, dangling>>

Defaults == [m |-> 1, p |-> 1, s |-> Address, t |-> 1]

Init ==
  /\ argv \in UNION {[1 .. n -> Options] : n \in 0 .. MaxOptions}
  /\ optind = 1
  /\ config = Defaults
  /\ main = "parse"
  /\ exit = "none"
  /\ acceptor = "none"
  /\ accepting = FALSE
  /\ sessions = 0
  /\ pool = {}
  /\ handler = [t \in Threads |-> "idle"]
  /\ evictor = "none" /\ cache = "none" /\ dangling = FALSE

Ends(how) == exit' = how /\ UNCHANGED main
InMain(where) == exit = "none" /\ main = where

----------------------------------------------------------------------------
(* set_params                                                              *)

Option == argv[optind]
MoreOptions == InMain("parse") /\ optind <= Len(argv)

\* std::string(optarg) of a null optarg, before the case '?' that would report
\* it, and stoi of a number that is no int: main has not entered its try yet.
OptionThrows ==
  /\ MoreOptions
  /\ Option.arg = NoArgument \/ Option.arg \in {n \in Numbers : n > IntMax}
  /\ Ends("terminated")
  /\ UNCHANGED <<parseVars, serveVars, objectVars>>

\* Mutant of RefuseOption: break in the place of return false.
IgnoreOption ==
  /\ MoreOptions
  /\ Option.arg = Malformed
  /\ optind' = optind + 1
  /\ UNCHANGED <<argv, config, main, exit, serveVars, objectVars>>

\* "invalid parameter format": main returns -1.
RefuseOption ==
  /\ MoreOptions
  /\ Option.arg = Malformed
  /\ Ends("usage")
  /\ UNCHANGED <<parseVars, serveVars, objectVars>>

\* Mutant of Stored: the port is kept as it is.
StoredUncut(o) == o.arg

\* A port is cut to 16 bits.
Stored(o) == IF o.opt = "p" THEN o.arg % PortMod ELSE o.arg

TakeOption ==
  /\ MoreOptions
  /\ Option.arg \in {Address, Dotted} \union {n \in Numbers : n <= IntMax}
  /\ config' = [config EXCEPT ![Option.opt] = Stored(Option)]
  /\ optind' = optind + 1
  /\ UNCHANGED <<argv, main, exit, serveVars, objectVars>>

----------------------------------------------------------------------------
(* main, as far as ioc.run()                                               *)

CreateCache ==
  /\ InMain("parse") /\ optind > Len(argv)
  /\ evictor' = "live" /\ cache' = "live"
  /\ main' = "address"
  /\ UNCHANGED <<parseVars, exit, serveVars, dangling>>

\* Mutant of Unwind: the threads are detached.
UnwindDetached ==
  /\ main' = "catch" /\ UNCHANGED <<exit, pool, handler>>
  /\ acceptor' = "none" /\ accepting' = FALSE /\ sessions' = 0

\* An exception leaves main's try block.  Its locals go first: a std::thread
\* that was not joined calls terminate, the io_context drops the listener, the
\* sessions and their handlers.
Unwind ==
  IF pool # {}
  THEN Ends("terminated") /\ UNCHANGED serveVars
  ELSE /\ main' = "catch" /\ UNCHANGED <<exit, pool>>
       /\ acceptor' = "none" /\ accepting' = FALSE /\ sessions' = 0
       /\ handler' = [t \in Threads |-> "idle"]

\* make_address throws.
BadAddress ==
  /\ InMain("address") /\ config.s = Dotted
  /\ Unwind
  /\ UNCHANGED <<parseVars, objectVars>>

\* The listener's constructor returns early where a step fails; main is not
\* told and calls run() all the same.
CreateListener ==
  /\ InMain("address") /\ config.s = Address
  /\ acceptor' \in Stages
  /\ accepting' = TRUE
  /\ main' = "spawn"
  /\ UNCHANGED <<parseVars, exit, sessions, pool, handler, objectVars>>

\* v.reserve(threads - 1) for no threads, or a thread that cannot be started.
SpawnThrows ==
  /\ InMain("spawn")
  /\ config.t = 0 \/ Cardinality(pool) < config.t - 1
  /\ Unwind
  /\ UNCHANGED <<parseVars, objectVars>>

SpawnThread ==
  /\ InMain("spawn") /\ Cardinality(pool) < config.t - 1
  /\ pool' = pool \union {Cardinality(pool) + 1}
  /\ UNCHANGED <<parseVars, main, exit, acceptor, accepting, sessions, handler, objectVars>>

EnterRun ==
  /\ InMain("spawn") /\ Cardinality(pool) = config.t - 1
  /\ main' = "run"
  /\ UNCHANGED <<parseVars, exit, serveVars, objectVars>>

----------------------------------------------------------------------------
(* io_context::run on every thread                                         *)

Running(t) == exit = "none" /\ (t \in pool \/ (t = Main /\ main = "run"))
Serving == {t \in Threads : handler[t] = "request"}

Take(t, what) == handler' = [handler EXCEPT ![t] = what]

\* run() returns in every thread once nothing is outstanding.
AfterHandler ==
  main' = IF main = "run" /\ ~accepting' /\ sessions' = 0 /\ \A t \in Threads : handler'[t] = "idle"
          THEN "done" ELSE main

\* The accept of a listening socket, or at once the error of another one.
StartAccept(t) ==
  /\ Running(t) /\ handler[t] = "idle"
  /\ accepting /\ accepting' = FALSE
  /\ Take(t, "accept")
  /\ UNCHANGED <<parseVars, main, exit, acceptor, sessions, pool, objectVars>>

\* Mutant of Reaccepts: on_accept returns after an error.
ReacceptsUnlessError(connected) == connected

\* on_accept ends with do_accept, whatever it was called with.
Reaccepts(connected) == TRUE

OnAccept(t) ==
  /\ Running(t) /\ handler[t] = "accept"
  /\ Take(t, "idle")
  /\ \E connected \in IF acceptor = "listening" /\ sessions < MaxSessions
                      THEN BOOLEAN ELSE {FALSE} :
       /\ sessions' = IF connected THEN sessions + 1 ELSE sessions
       /\ accepting' = Reaccepts(connected)
  /\ UNCHANGED <<parseVars, exit, acceptor, pool, objectVars>>
  /\ AfterHandler

\* A handler of a session, which keeps it or ends it.
StartRequest(t) ==
  /\ Running(t) /\ handler[t] = "idle"
  /\ Cardinality(Serving) < sessions
  /\ Take(t, "request")
  /\ UNCHANGED <<parseVars, main, exit, acceptor, accepting, sessions, pool, objectVars>>

FinishRequest(t) ==
  /\ Running(t) /\ handler[t] = "request"
  /\ Take(t, "idle")
  /\ sessions' \in {sessions, sessions - 1}
  /\ UNCHANGED <<parseVars, exit, acceptor, accepting, pool, objectVars>>
  /\ AfterHandler

\* Mutant of LeavesThread: the thread ends and the others go on.
LeavesThreadQuietly(t) ==
  /\ pool' = pool \ {t}
  /\ Take(t, "idle")
  /\ UNCHANGED <<main, exit, acceptor, accepting, sessions>>

\* An exception leaves the function of a thread of the pool: std::terminate.
LeavesThread(t) == Ends("terminated") /\ UNCHANGED serveVars

\* A handler throws, in the pool or in main's own ioc.run().
HandlerThrows(t) ==
  /\ Running(t)
  /\ handler[t] = "request" \/ (handler[t] = "accept" /\ acceptor = "listening")
  /\ IF t = Main THEN Unwind ELSE LeavesThread(t)
  /\ UNCHANGED <<parseVars, objectVars>>

----------------------------------------------------------------------------
(* The deletions, the same after run() and in the catch block              *)

DeleteEvictor ==
  /\ exit = "none" /\ main \in {"catch", "done"}
  /\ evictor = "live" /\ evictor' = "deleted"
  /\ UNCHANGED <<parseVars, main, exit, serveVars, cache, dangling>>

\* ~Cache resets the cache and so calls evict(): the evictor is gone, and the
\* call may come back or not.
DeleteCache ==
  /\ exit = "none" /\ main \in {"catch", "done"}
  /\ evictor = "deleted"
  /\ cache' = "deleted"
  /\ dangling' = TRUE
  /\ exit' \in {"crashed", IF main = "catch" THEN "failure"
                           ELSE IF pool = {} THEN "success" ELSE "terminated"}
  /\ UNCHANGED <<parseVars, main, serveVars, evictor>>

Next ==
  \/ OptionThrows \/ RefuseOption \/ TakeOption
  \/ CreateCache \/ BadAddress \/ CreateListener
  \/ SpawnThrows \/ SpawnThread \/ EnterRun
  \/ \E t \in Threads :
       \/ StartAccept(t) \/ OnAccept(t) \/ StartRequest(t) \/ FinishRequest(t)
       \/ HandlerThrows(t)
  \/ DeleteEvictor \/ DeleteCache

Spec == Init /\ [][Next]_vars

----------------------------------------------------------------------------
(* Properties                                                              *)

\* Main's locals, the threads and the objects are in one of their states.
LifecycleTypeOK ==
  /\ optind \in 1 .. Len(argv) + 1
  /\ config \in [m : Nat, p : 0 .. PortMod - 1, s : {Address, Dotted}, t : Threads]
  /\ main \in {"parse", "address", "spawn", "run", "catch", "done"}
  /\ exit \in {"none", "usage", "terminated", "failure", "success", "crashed"}
  /\ acceptor \in Stages \union {"none"}
  /\ accepting \in BOOLEAN
  /\ sessions \in 0 .. MaxSessions
  /\ pool \subseteq Threads \ {Main}
  /\ handler \in [Threads -> {"idle", "accept", "request"}]
  /\ {evictor, cache} \subseteq {"none", "live", "deleted"}
  /\ dangling \in BOOLEAN

\* The server runs with what the last option of each letter asked for, also
\* when letters are repeated; only a port of more than 16 bits is another one.
ConfiguredAsAsked ==
  main # "parse" => \A letter \in DOMAIN config :
    LET given == {i \in DOMAIN argv : argv[i].opt = letter}
        asked == IF given = {} THEN Defaults[letter] ELSE argv[Max(given)].arg
    IN config[letter] = asked \/ (letter = "p" /\ asked \in {n \in Numbers : n >= PortMod})

\* While main is in ioc.run() so are all the threads asked for: an exception
\* never leaves the server running with a smaller pool.
WholePool == InMain("run") => pool = 1 .. config.t - 1

\* When main deletes the evictor and the cache, no thread, handler or session
\* that could use them is left; the call on the deleted evictor that ~Cache
\* makes comes after the last request.
DestroyedUnused ==
  evictor = "deleted" \/ dangling =>
    /\ pool = {} /\ sessions = 0 /\ ~accepting
    /\ \A t \in Threads : handler[t] = "idle"

\* ioc.run() never returns, and is left only through an exception in a session
\* or in the making of one: a server whose bind failed runs on for good.
RunEndsOnlyInSession ==
  [][InMain("run") /\ ~InMain("run")' => main' # "done" /\ acceptor = "listening"]_vars
=============================================================================
