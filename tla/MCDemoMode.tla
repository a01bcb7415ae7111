------------------------------ MODULE MCDemoMode ------------------------------
(* Small instances of DemoMode for TLC: two servers with a task each share the relay, or  *)
(* one server has two tasks to submit.                                                     *)
EXTENDS DemoMode, TLC

CONSTANTS a, b, k1, k2, s1, s2

TwoServers == (k1 :> a) @@ (k2 :> b)
OneServer  == (k1 :> a) @@ (k2 :> a)
===============================================================================
