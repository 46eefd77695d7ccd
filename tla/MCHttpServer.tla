---------------------------- MODULE MCHttpServer ----------------------------
(* HttpServer for TLC: the connections are interchangeable. *)
EXTENDS HttpServer, TLC

Symmetry == Permutations(Conns)
=============================================================================
