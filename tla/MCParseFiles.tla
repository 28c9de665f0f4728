---------------------------- MODULE MCParseFiles ----------------------------
(* Files: one that says little, one that says more after desugaring, one   *)
(* whose token stream is malformed, one whose tree is broken, and files    *)
(* that are not admitted.                                                  *)
EXTENDS ParseFiles

File(says, parse, adds, desugar) ==
  [admits |-> "yes", says |-> says, parse |-> parse, malformed |-> FALSE,
   adds |-> adds, desugar |-> desugar, broken |-> FALSE]

Noise(name) == Report("warning", <<name>>, 2)
Error(name) == Report("error", <<name>>, 1)

Quiet == File(<<>>, 1, <<>>, 1)
Noisy == File(<<Error("a")>>, 8, <<Noise("c")>>, 0)
Garbled == [File(<<Error("d")>>, 1, <<Noise("e")>>, 1) EXCEPT !.malformed = TRUE]
Twisted == [Quiet EXCEPT !.broken = TRUE]

Costly == {File(<<Error("a")>>, 6, <<Noise("c")>>, 5), File(<<Noise("b")>>, 1, <<Noise("e")>>, 13),
           File(<<>>, 1, <<>>, 0), Garbled}
Mixed == {Quiet, Noisy, Garbled, Twisted, [Quiet EXCEPT !.admits = "unknown"],
          [Noisy EXCEPT !.admits = "path"]}

\* A parse on one thread, and a later one that wants three threads where lanes
\* were cut for two.
BothCalls ==
  {[jobs |-> 1, lanes |-> 0, files |-> Costly], [jobs |-> 3, lanes |-> 2, files |-> Mixed]}

One(d) == 0
=============================================================================
