------------------------------ MODULE MCClients ------------------------------
(* A small instance of Clients for TLC. *)
EXTENDS Clients

MCWorker == {"w1"}
=============================================================================
