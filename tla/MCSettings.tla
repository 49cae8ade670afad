----------------------------- MODULE MCSettings -----------------------------
(* Two leases, of which the second has a mask that is none, a second MAC, files *)
(* of the two earlier versions, and an address at the edge of the editor.       *)
EXTENDS Settings, TLC

MCLeases == {[ip |-> 56, subnet |-> 240, gateway |-> 1, gwMac |-> 4],
             [ip |-> 56, subnet |-> 160, gateway |-> 9, gwMac |-> 8]}

MCOldFiles == {[version |-> 1, fields |-> <<2, 56, TRUE>>],
               [version |-> 2, fields |-> <<2, 56, TRUE, TRUE, 1, 4>>]}
=============================================================================
