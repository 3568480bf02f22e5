--------------------------- MODULE MCEventStream ---------------------------
(***************************************************************************)
(* Small instances of EventStream.                                         *)
(***************************************************************************)
EXTENDS EventStream

CONSTANTS r1, r2, c1, c2

TwoRuns == {r1, r2}
OneRun == {r1}
TwoClients == {c1, c2}
OneClient == {c1}
=============================================================================
