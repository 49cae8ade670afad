----------------------------- MODULE MCArpScan ------------------------------
(* Two addresses and three scans: a completed one, one that is cut short, and   *)
(* one that starts from what both left in memory and in the file.               *)
EXTENDS ArpScan, TLC
=============================================================================
