---------------------------- MODULE MCSqliteStore ----------------------------
(* An instance of SqliteStore for TLC: a process whose server and callback threads share a *)
(* lock, and a second process.                                                             *)
EXTENDS SqliteStore, TLC

CONSTANTS a, b, server, callbacks, other, c1, c2, k1, k2, confirmed, ended

MCProcessOf == (server :> a) @@ (callbacks :> a) @@ (other :> b)

Reserves(k, t) == [op |-> "reserve", key |-> k, task |-> t]
Ends(c) == [op |-> "update", call |-> c, result |-> ended]
Reads(c) == [op |-> "get", call |-> c]

MCAsks == (server :> {Reserves(k1, k1), Ends(c1)})
       @@ (callbacks :> {Reads(c1), Ends(c2)})
       @@ (other :> {Reserves(k1, k2), Reserves(k2, k2)})
==============================================================================
