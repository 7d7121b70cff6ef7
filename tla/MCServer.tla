------------------------------ MODULE MCServer ------------------------------
(* Small instances of the server's parts.                                  *)
EXTENDS Server

MCWorkers == 3
=============================================================================
