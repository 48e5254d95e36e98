--------------------------- MODULE MCMygoServer ---------------------------
(* An instance of MygoServer. *)
EXTENDS MygoServer
=============================================================================
