----------------------------- MODULE MCLogStream -----------------------------
(* A buffer of ten bytes of which a conversion asks for six; integers of   *)
(* five bits; addresses of one to three digits.                            *)
EXTENDS LogStream

MCChars == {"a", "b", "e", "1", "3"}
MCDoubles == {<<"1", "e", "3">>}
MCStrings == {<<"a">>, <<"a", "b", "a", "b">>}
=============================================================================
