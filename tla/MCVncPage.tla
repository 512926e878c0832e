------------------------------ MODULE MCVncPage ------------------------------
(* An instance of VncPage for TLC. *)
EXTENDS VncPage

MCContents == {<<"capital", "small">>, <<"newline", "capital">>, <<"return">>}

=============================================================================
