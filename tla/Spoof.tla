-------------------------------- MODULE Spoof --------------------------------
(* The ARP spoofing scene and its worker (ArpspoofingScene.c, arp_module.c).    *)
(* The device, the link and the lease are checked before the worker starts, and *)
(* the link once more by it.                                                    *)
EXTENDS Session

VARIABLE attack         \* the worker is sending

(* arpspoofing_start                                                            *)
StartSpoof ==
    \/ Claim("spoof", "check") /\ view' = "running" /\ Quiet
    \/ Refused /\ UNCHANGED netVars

EnterSpoof ==
    /\ Enters("spoof")
    /\ StartSpoof
    /\ UNCHANGED <<joining, button, queue, attack>>

RetrySpoof ==
    /\ Attentive("spoof") /\ view = "refused"
    /\ StartSpoof
    /\ UNCHANGED <<scene, joining, button, queue, attack>>

(* Any event of the worker joins it before its message is drawn.                *)
SpoofEvent ==
    /\ Handles("spoof", "error")
    /\ JoinThen("spoof", "spoof", "error")
    /\ UNCHANGED <<button, slot, pc, stop, netVars, attack>>

(* Variant: the worker is not told.                                             *)
SpoofBackUntold ==
    /\ BackIn("spoof")
    /\ JoinThen("spoof", "menu", "menu")
    /\ UNCHANGED <<back, queue, slot, pc, stop, netVars, attack>>
SpoofBack ==
    /\ BackIn("spoof")
    /\ stop' = TRUE
    /\ JoinThen("spoof", "menu", "menu")
    /\ UNCHANGED <<back, queue, slot, pc, netVars, attack>>

SpoofJoined ==
    /\ Joined("spoof")
    /\ attack' = FALSE
    /\ UNCHANGED <<view, button, queue, stop, starts, netVars>>

(* arpspoofing_thread                                                           *)
SpoofCheck ==
    /\ WorkerIn("spoof", "check")
    /\ \/ Post("error") /\ pc' = "ended"
       \/ pc' = "loop" /\ UNCHANGED queue
    /\ UNCHANGED <<gui, button, slot, stop, netVars, attack>>

(* OK is down: it starts or stops, and while it is on the message is sent.      *)
SpoofToggle ==
    /\ WorkerIn("spoof", "loop") /\ ~Cancel
    /\ attack' = ~attack
    /\ UNCHANGED <<gui, button, queue, slot, pc, stop, netVars>>

SpoofEnds ==
    /\ WorkerIn("spoof", "loop") /\ Cancel
    /\ pc' = "ended" /\ attack' = FALSE
    /\ UNCHANGED <<gui, button, queue, slot, stop, netVars>>

SpoofGui == EnterSpoof \/ RetrySpoof \/ SpoofEvent \/ SpoofBack \/ SpoofJoined
SpoofWorker == SpoofCheck \/ SpoofToggle \/ SpoofEnds
=============================================================================
