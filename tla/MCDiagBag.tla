----------------------------- MODULE MCDiagBag -----------------------------
(* Three diagnostics, one of them past the message limit; every diagnostic   *)
(* hashes to one slot, so that dedup's probes always collide.              *)
EXTENDS DiagBagUse

ThreeReports ==
  {Report("error", "long", 5), Report("warning", "short", 2), Report("note", "short", 1)}
OneSlot(d) == 3
=============================================================================
