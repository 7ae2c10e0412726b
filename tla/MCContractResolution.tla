------------------------- MODULE MCContractResolution -------------------------
(* Two expiries; one has two strikes, one of them with call and put; one     *)
(* option is listed on both exchanges that are tried for it.  The chains are *)
(* without a date that parses, and good, with a strike that comes twice.     *)
(* The error stands for "No security definition" (client.rs:766), too: all   *)
(* go on to the next exchange.                                               *)
EXTENDS ContractResolution

MCOption == {<<1, 5, "C">>, <<1, 5, "P">>, <<1, 10, "C">>, <<2, 10, "C">>}
MCWanted == {<<1, 5, "C">>}
MCPreferred == {"CBOE"}
MCListable == {<<<<1, 5, "C">>, "CBOE">>, <<<<1, 5, "C">>, "">>, <<<<1, 5, "P">>, "CBOE">>,
               <<<<1, 10, "C">>, "CBOE">>, <<<<2, 10, "C">>, "">>, <<Stock, "CBOE">>}
MCChain == {[expirations |-> <<"unparseable">>, strikes |-> <<5>>],
            [expirations |-> <<"June", "unparseable", "May">>, strikes |-> <<10, 5, 10>>]}
MCLookupErrors == {Transport("ConnectionReset")}
=============================================================================
