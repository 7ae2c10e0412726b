---------------------------- MODULE MCPlaceOrder ----------------------------
(* Codes of each kind: one refusal in 200-299 and one outside, one code for *)
(* each of the connection variants, one warning.                            *)
EXTENDS PlaceOrder

MCRefusal   == {201, 110}
MCTransport == {504, 507}
MCWarning   == {399}
=============================================================================
