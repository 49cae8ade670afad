------------------------- MODULE MCPassiveDiscovery -------------------------
(* Two protocols and two sessions: a mode that excludes what another session   *)
(* heard, and events of the first session that reach the second.               *)
EXTENDS PassiveDiscovery, TLC
=============================================================================
