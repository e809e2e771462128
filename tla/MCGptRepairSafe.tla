--------------------------- MODULE MCGptRepairSafe ---------------------------
(* The instance of MCGptRepair for the invariant and refinement of           *)
(* GptRepairSafe.                                                            *)
EXTENDS MCGptRepair, GptRepairSafe
=============================================================================
