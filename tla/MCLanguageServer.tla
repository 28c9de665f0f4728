-------------------------- MODULE MCLanguageServer --------------------------
(***************************************************************************)
(* Three kinds of session: one that edits, one that asks, and one that     *)
(* does not keep to the order of things.                                   *)
(***************************************************************************)
EXTENDS LanguageServer

\* One message with every two edits that insert a character or none.
Editing ==
  [texts |-> {<<"a", "r">>, <<"n", "f">>, <<"f", "a", "n">>, <<"e", "r", "n", "a">>},
   puts |-> {<<>>, <<"n">>, <<"f">>}, batch |-> 2, methods |-> {"initialize"}, messages |-> 3]

\* Requests among edits of a document that is closed and opened again.
Asking ==
  [texts |-> {<<"a", "a">>, <<"a", "a", "a">>}, puts |-> {}, batch |-> 1,
   methods |-> {"initialize", "analysis", "tokens", "delta", "diagnostic", "didClose"},
   messages |-> 6]

\* Requests and notifications in any order, with and without a handshake; only a
\* document is opened while the session is.
Straying ==
  [texts |-> {<<"a">>}, puts |-> {}, batch |-> 1,
   methods |-> Methods \cup {"didClose", "initialized", "exit", "garbage", "stray", "disconnect"},
   messages |-> 4]

MCSessions == {Editing, Asking, Straying}

\* A token for every "a", placed from the one before it, of the kind the analysis
\* gives it.
MCTokenData(text, analysed) ==
  LET Kind == IF analysed = <<>> THEN 0 ELSE 1
  IN  FlattenSeq([i \in DOMAIN text |->
        IF text[i] = "a" THEN <<0, IF i = 1 THEN 0 ELSE 1, 1, Kind, 0>> ELSE <<>>])
=============================================================================
