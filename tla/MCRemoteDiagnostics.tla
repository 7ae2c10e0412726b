------------------------ MODULE MCRemoteDiagnostics ------------------------
(* RemoteDiagnostics on a small instance: a critical code and a routine    *)
(* one, and capacities small enough to be reached.                         *)
EXTENDS RemoteDiagnostics

MCCodes == {10197, 2104}
=============================================================================
