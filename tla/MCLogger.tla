------------------------------ MODULE MCLogger ------------------------------
(* Five messages on places of three pages, two to a page. *)
EXTENDS Logger
=============================================================================
