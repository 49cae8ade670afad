------------------------------ MODULE MCGetIp -------------------------------
(* Two servers that race, and two attempts, the second with the late answers to *)
(* the first.                                                                  *)
EXTENDS GetIp, TLC
=============================================================================
