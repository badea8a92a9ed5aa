---------------------------- MODULE MCFilterProxy ----------------------------
(* Small instances of FilterProxy for TLC. *)
EXTENDS FilterProxy

CONSTANTS a, b, p       \* two public addresses and one that is not
CONSTANTS v, w          \* pieces of data

Listed == <<"example", "org">>
AllowOne == {Listed}
\* A name below the one on the list, with dots at its end, one that only ends like
\* it, and none.
SomeNames == {<<"api", "example", "org", "", "">>, <<"badexample", "org">>, <<"">>}
AllAddr == {a, b, p}
PublicAddr == {a, b}
TwoEach == <<v, w>>
PlainOnly == {"plain"}
SomeAnswers == {{}, {p}, {p, a, b}}
=============================================================================
