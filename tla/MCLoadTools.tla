---------------------------- MODULE MCLoadTools ----------------------------
(***************************************************************************)
(* LoadTools for TLC: no, one and two threads, next to other clients; an   *)
(* empty pool of keys; negative numbers of threads and of requests, as     *)
(* atoi returns them, with products of both signs and one that is no int.  *)
(***************************************************************************)
EXTENDS LoadTools

CONSTANTS c1, c2

MCClients == {c1, c2}
Setting(prog, set, asked, n, keys) ==
  [program |-> prog, threads |-> set, nthread |-> asked, nreq |-> n, keyNum |-> keys]
MCSettings ==
  {Setting("benchmark", {}, -1, 2, 3), Setting("benchmark", {}, -1, -2, 3),
   Setting("benchmark", {c1}, 1, -1, 3),
   Setting("benchmark", {c1, c2}, 2, 1, 3), Setting("benchmark", {c1, c2}, 2, 2, 3),
   Setting("benchmark", {c1, c2}, 2, 2, 0), Setting("statistics", {c1}, 1, 1, 3)}
=============================================================================
