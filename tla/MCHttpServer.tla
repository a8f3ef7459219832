----------------------------- MODULE MCHttpServer -----------------------------
(* HttpServer for TLC: the second and third request share a connection. *)
EXTENDS HttpServer, TLC

CONSTANTS r1, r2, r3, c1, c2
MCConnOf == (r1 :> c1) @@ (r2 :> c2) @@ (r3 :> c2)
=============================================================================
