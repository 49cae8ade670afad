------------------------------ MODULE MCTools ------------------------------
(* A host on the link and one behind the gateway, which listen on different     *)
(* ports of two, and a scan that wraps past the last port.                      *)
EXTENDS Tools

MCOpen == [h \in {17, 18, 19, 33} |-> IF h = 17 THEN {0, 2} ELSE IF h = 33 THEN {1} ELSE {}]
=============================================================================
