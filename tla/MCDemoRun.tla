----------------------------- MODULE MCDemoRun -----------------------------
(***************************************************************************)
(* DemoRun with two captures and two request identifiers: a second start   *)
(* can import a capture that is or is not stored yet, and a second decision *)
(* can come under the first one's identifier or its own.                   *)
(***************************************************************************)
EXTENDS DemoRun

CONSTANTS k1, k2, q1, q2

MCCaptures == {k1, k2}
MCReqIds   == {q1, q2}

\* Everything but the checkpoint database may fail.
FaultsOfStores == {"crash", "store", "knowledge"}

FaultsOfCheckpoint == {"checkpoint", "store", "crash"}

OnlyCheckpoint == {"checkpoint"}

OnlyCrash == {"crash"}
=============================================================================
