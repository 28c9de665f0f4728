---------------------------- MODULE MCBuildCache ----------------------------
(* A package with a binary and a library, built and run while the user     *)
(* edits its files, manifest and dependencies.                             *)
EXTENDS BuildCache

Bin == [name |-> "app", lib |-> FALSE, entry |-> TRUE]
Lib == [name |-> "app", lib |-> TRUE, entry |-> FALSE]

Plan(targets) == [targets |-> targets, cache |-> TRUE]

\* run takes the binary alone, with or without --no-cache.
BuildAndRun ==
  {Plan(<<Bin, Lib>>), Plan(<<Bin>>), [targets |-> <<Bin>>, cache |-> FALSE]}
RacingBuilds == {Plan(<<Bin, Lib>>)}

Before == World(0, 0, 0)
After == World(1, 1, 1)

OneEdit == <<Before, After>>
NoEdit == <<Before>>
\* The new sources go with the new manifest and the new summaries: without the
\* one they are warned about, without the other they do not compile.
Warned == {w \in Worlds : w.files = 1 /\ w.manifest = 0}
Failed == {w \in Worlds : w.files = 1 /\ w.summaries = 0}
Symmetry == Permutations(Procs)
=============================================================================
