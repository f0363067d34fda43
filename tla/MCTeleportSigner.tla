------------------------- MODULE MCTeleportSigner -------------------------
(***************************************************************************)
(* Two signers, one of them with a key that may fail, configured for       *)
(* overlapping event types, signing two events.                            *)
(***************************************************************************)
EXTENDS TeleportSigner

CONSTANTS k1, k2

(* k1 signs teleport events, k2 teleport and other events.                 *)
MCSupportedTypes == [k \in Keys |-> IF k = k1 THEN {"teleport"} ELSE {"teleport", "other"}]

MCFallibleKeys == {k2}

MCEventTypes == {"teleport", "other"}
=============================================================================
