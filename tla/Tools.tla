-------------------------------- MODULE Tools --------------------------------
(* The tools of the menu that work with a thread of their own, one at a time in *)
(* the one slot, composed of their modules.                                     *)
EXTENDS PingTool, PortScan, OsScan, Spoof, PcapViewer

vars == <<slotVars, netVars, pingVars, portVars, osVarsAll, attack, snifferVars, viewerVars>>

Init ==
    /\ SlotInit /\ NetInit /\ PingInit /\ PortInit /\ OsInit
    /\ attack = FALSE /\ SnifferInit /\ ViewerInit

Button ==
    /\ Press \/ Release \/ MenuDrops
    /\ UNCHANGED <<netVars, pingVars, portVars, osVarsAll, attack, snifferVars, viewerVars>>

NotPing == UNCHANGED <<portVars, osVarsAll, attack, snifferVars, viewerVars>>
NotPorts == UNCHANGED <<pingVars, osVarsAll, attack, snifferVars, viewerVars>>
NotOs == UNCHANGED <<pingVars, portVars, attack, snifferVars, viewerVars>>
NotSpoof == UNCHANGED <<pingVars, portVars, osVarsAll, snifferVars, viewerVars>>
NotSniffer == UNCHANGED <<pingVars, portVars, osVarsAll, attack, viewerVars>>
NotViewer == UNCHANGED <<pingVars, portVars, osVarsAll, attack>>

Gui ==
    \/ PingGui /\ NotPing
    \/ PortsGui /\ NotPorts
    \/ OsGui /\ NotOs
    \/ SpoofGui /\ NotSpoof
    \/ SnifferGui /\ NotSniffer
    \/ ViewerGui /\ NotViewer

Worker ==
    \/ PingWorker /\ NotPing
    \/ PortsWorker /\ NotPorts
    \/ OsWorker /\ NotOs
    \/ SpoofWorker /\ NotSpoof
    \/ SnifferWorker /\ NotSniffer
    \/ ViewerWorker /\ NotViewer

Next ==
    \/ Button \/ Gui \/ Worker
    \/ Capture /\ NotSniffer

(* The threads are scheduled and the waits have an end; nothing is asked of the *)
(* user.                                                                        *)
Fairness ==
    /\ WF_vars(Gui) /\ WF_vars(Worker)
    /\ WF_vars((OsListened \/ OsGivesUp) /\ NotOs)

Spec == Init /\ [][Next]_vars /\ Fairness
=============================================================================
