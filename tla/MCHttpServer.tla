---------------------------- MODULE MCHttpServer ----------------------------
(* HttpServer with the bound on the client's lines given in the            *)
(* configurations.                                                         *)
EXTENDS HttpServer, TLC
=============================================================================
