------------------------------ MODULE PortScan ------------------------------
(* The port scanner: its scene (PortsScannerScene.c) and the TCP SYN scan of    *)
(* its worker (tcp_module.c).  A label counts on where the port it is sent to   *)
(* has wrapped.                                                                 *)
EXTENDS Session

CONSTANTS
    PortSpace,      \* 2^16 in the code
    FirstPort, PortRange

ASSUME PortAssumption ==
    PortSpace \in Nat \ {0} /\ FirstPort \in Nat /\ PortRange \in Nat

VARIABLES
    label,          \* i of the loop
    listed          \* the labels of the ports found open

portVars == <<label, listed>>
PortInit == label = 0 /\ listed = <<>>

PortOf(l) == l % PortSpace

EnterPorts ==
    /\ Enters("ports") /\ view' = "menu"
    /\ UNCHANGED <<joining, button, queue, slot, pc, stop, netVars, portVars>>

(* START: the device, the link and the lease are checked here.                  *)
StartPorts ==
    /\ Attentive("ports") /\ view \in {"menu", "refused"}
    /\ \/ Claim("ports", "resolve") /\ view' = "list" /\ label' = FirstPort
          /\ \E t \in Targets : Scan(t)
       \/ Refused /\ UNCHANGED <<netVars, label>>
    /\ UNCHANGED <<scene, joining, button, queue, listed>>

(* BACK joins from the list, goes back to the menu of the scene, or leaves it.  *)
PortsBack ==
    /\ BackIn("ports")
    /\ IF view = "menu" THEN JoinThen("ports", "menu", "menu")
                        ELSE JoinThen("ports", "ports", "menu")
    /\ UNCHANGED <<back, queue, slot, pc, stop, netVars, portVars>>

PortsJoined ==
    /\ Joined("ports")
    /\ label' = 0 /\ listed' = <<>> /\ Forgotten
    /\ UNCHANGED <<view, button, queue, stop, starts>>

-----------------------------------------------------------------------------
(* tcp_syn_scan                                                                 *)

PortsProbe ==
    /\ WorkerIn("ports", "probe") /\ ~Cancel /\ label < FirstPort + PortRange
    /\ Sends(SynAnswers(PortOf(label), 1))
    /\ pc' = "syn"
    /\ UNCHANGED <<gui, button, queue, slot, stop, target, mac, tries, gatewayMac, portVars>>

NextPort == label' = label + 1 /\ pc' = "probe"

(* tcp_scan_match: a SYN-ACK from that port, of whichever host.                 *)
(* Variant: any SYN-ACK.                                                        *)
IsSynAckAny(f, l) == f.kind = "synack"
IsSynAck(f, l) == f.kind = "synack" /\ f.port = PortOf(l)

PortsSynAck ==
    /\ WorkerIn("ports", "syn")
    /\ \E f \in air : IsSynAck(f, label)
    /\ listed' = Append(listed, label)
    /\ NextPort
    /\ UNCHANGED <<gui, button, queue, slot, stop, netVars>>

PortsTimeout ==
    /\ WorkerIn("ports", "syn")
    /\ NextPort
    /\ UNCHANGED <<gui, button, queue, slot, stop, netVars, listed>>

(* The last port, or a cancel: FINISH.                                          *)
PortsEnd ==
    /\ \/ WorkerIn("ports", "probe") /\ (Cancel \/ label = FirstPort + PortRange)
       \/ WorkerIn("ports", "syn") /\ Cancel
    /\ pc' = "ended"
    /\ UNCHANGED <<gui, button, queue, slot, stop, netVars, portVars>>

PortsResolve == Resolve("ports", "probe", "ended") /\ UNCHANGED portVars

PortsGui == EnterPorts \/ StartPorts \/ PortsBack \/ PortsJoined
PortsWorker == PortsResolve \/ PortsProbe \/ PortsSynAck \/ PortsTimeout \/ PortsEnd

-----------------------------------------------------------------------------
(* The list is of ports of the range, each once and in order, and each of them  *)
(* open on a host that was scanned: on this one, unless an earlier target still *)
(* repeats its SYN-ACK, which nothing acknowledges (tcp_module.c:231-275).      *)
ListedIsOpen ==
    /\ \A i \in 1..Len(listed) :
          /\ \E f \in air : /\ f.kind = "synack" /\ f.port = listed[i] % PortSpace
                           /\ f.port \in Open[f.from]
          /\ listed[i] \in FirstPort..(FirstPort + PortRange - 1)
    /\ \A i \in 2..Len(listed) : listed[i - 1] < listed[i]
=============================================================================
