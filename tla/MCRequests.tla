------------------------------ MODULE MCRequests ------------------------------
(* Streams of up to three items.  The errors among them are a farm that is  *)
(* disconnected and a connection that is.                                   *)
EXTENDS Requests

MCStreamErrors == {Notice(2107), Transport("ConnectionReset")}
=============================================================================
