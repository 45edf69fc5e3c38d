---------------------------- MODULE MCMigrations ----------------------------
(***************************************************************************)
(* Instances of Migrations for TLC: a short word, one of 100 letters and   *)
(* one of 101.                                                             *)
(***************************************************************************)
EXTENDS Migrations

CONSTANTS a, b, w100, w101, e1, e2

MCWordLen == [w \in Word |-> CASE w = Empty -> 0 [] w = w100 -> 100 [] w = w101 -> 101 [] OTHER -> 6]

\* A phone number, and a name that is too long for one.
MCContacts == {<<a>>, <<a, b, a, b>>}

\* Two words, two spaces in a row or at the front, a patronymic of several
\* words, a word and a rest that fit no part.
MCFullNames == {<<a, b>>, <<a, Empty, b>>, <<Empty, b, a, Empty, a, b>>,
                <<w101>>, <<a, b, w100, a>>}

Parts(l, f, p) == [last_name |-> l, first_name |-> f, patronymic |-> p]

\* The longest there are, and a surname of two words without a patronymic.
MCLegacyNames == {Parts(<<w100>>, <<w100>>, <<w100>>), Parts(<<a, b>>, <<a>>, Null)}

MCPays == {<<"hourly", "RUB">>, <<"shift", "EUR">>}

MCPayOf == (e1 :> <<"hourly", "RUB">>) @@ (e2 :> <<"shift", "EUR">>)
============================================================================
