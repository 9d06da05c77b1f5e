---------------------------- MODULE MCTransport ----------------------------
(* A process with one or two requests of its own, and the requests of others *)
(* whose numbers are its own numbers or 0, which it never uses.              *)
EXTENDS Transport
=============================================================================
