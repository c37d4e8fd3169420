------------------------------ MODULE MCCapture ------------------------------
(***************************************************************************)
(* A policy of three overlapping rules, $..a, $.b and $[*], and the field  *)
(* "p"; texts of up to five tokens, four characters, or two parts with     *)
(* blank lines in their values.                                            *)
(***************************************************************************)
EXTENDS Capture

MCPolicy ==
    <<[segs |-> <<[kind |-> "key", key |-> "a", index |-> 0, deep |-> TRUE]>>, level |-> 2],
      [segs |-> <<[kind |-> "key", key |-> "b", index |-> 0, deep |-> FALSE]>>, level |-> 3],
      [segs |-> <<[kind |-> "any", key |-> "*", index |-> 0, deep |-> FALSE]>>, level |-> 1]>>
MCFieldNames == {<<"p">>}
MCQueries == {<<>>, <<"p", "=", "p">>}
MCHeaders == {<<"secret">>, <<"other", "named">>, <<"other", "secret">>}
MCValues == {<<>>, <<"x">>, <<"LF", "LF", "x">>}
=============================================================================
