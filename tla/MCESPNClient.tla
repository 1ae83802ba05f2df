----------------------------- MODULE MCESPNClient -----------------------------
(***************************************************************************)
(* Instances of ESPNClient for TLC.  Callers and fetch tasks are            *)
(* interchangeable; the run that checks liveness uses no symmetry.           *)
(***************************************************************************)
EXTENDS ESPNClient, TLC

ClientSymmetry == Permutations(Callers) \cup Permutations(Fetches)
==============================================================================
