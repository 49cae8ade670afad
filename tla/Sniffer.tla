------------------------------- MODULE Sniffer -------------------------------
(* The sniffer: its scene, its worker and the handler the receive dispatcher    *)
(* runs for it (SnifferScene.c), and the PCAP file they write (capture_module). *)
EXTENDS Session

CONSTANT MaxPackets     \* bound: packets in a capture

ASSUME SnifferAssumption == MaxPackets \in Nat

VARIABLES
    promiscuous,    \* the receive filter of the chip
    handler,        \* the capture handler is registered
    file,           \* app->file: "closed", "writing", "reading"
    pcap,           \* records of the capture on the card
    captured,       \* history: packets the handler was given, numbered from 1
    openAfter,      \* open_pcap_after_sniff
    linkError       \* sniffer_link_error

captureVars == <<promiscuous, handler, file, pcap, captured>>
Torn == 0       \* a record of which only a part was written
snifferVars == <<captureVars, openAfter, linkError>>

SnifferInit ==
    /\ promiscuous = FALSE /\ handler = FALSE /\ file = "closed"
    /\ pcap = <<>> /\ captured = 0
    /\ openAfter = FALSE /\ linkError = FALSE

-----------------------------------------------------------------------------
(* The scene.                                                                   *)

(* sniffer_start                                                                *)
StartSniffer ==
    /\ openAfter' = FALSE
    /\ \/ Claim("sniffer", "check") /\ view' = "running" /\ linkError' = FALSE /\ Quiet
       \/ Refused /\ linkError' = FALSE /\ UNCHANGED netVars
       \/ linkError' = TRUE /\ view' = "error" /\ UNCHANGED <<slot, pc, stop, netVars>>

EnterSniffer ==
    /\ Enters("sniffer")
    /\ StartSniffer
    /\ UNCHANGED <<joining, button, queue, captureVars>>

RetrySniffer ==
    /\ Attentive("sniffer") /\ view = "refused"
    /\ StartSniffer
    /\ UNCHANGED <<scene, joining, button, queue, captureVars>>

(* The Open button is drawn when the capture starts.                            *)
OpenCapture ==
    /\ Attentive("sniffer") /\ owner = "sniffer"
    /\ pc \notin {"check", "create", "register", "undo", "report"}
    /\ openAfter' = TRUE /\ stop' = TRUE
    /\ UNCHANGED <<gui, button, queue, slot, pc, netVars, captureVars, linkError>>

(* BACK leaves when there is no worker or it has failed, and stops it otherwise.*)
SnifferBack ==
    /\ BackIn("sniffer")
    /\ IF owner # "sniffer" \/ linkError
          THEN /\ JoinThen("sniffer", "menu", "menu")
               /\ linkError' = (linkError /\ owner # "sniffer")
               /\ UNCHANGED <<openAfter, stop>>
          ELSE /\ openAfter' = FALSE /\ stop' = TRUE
               /\ UNCHANGED <<gui, linkError>>
    /\ UNCHANGED <<back, queue, slot, pc, netVars, captureVars>>

SnifferEvent ==
    /\ \/ Handles("sniffer", "stop") /\ JoinThen("sniffer", "menu", "menu")
          /\ UNCHANGED linkError
       \/ Handles("sniffer", "open") /\ JoinThen("sniffer", "viewer", "enter")
          /\ UNCHANGED linkError
       \/ Handles("sniffer", "error") /\ JoinThen("sniffer", "sniffer", "error")
          /\ linkError' = TRUE
    /\ UNCHANGED <<button, slot, pc, stop, netVars, captureVars, openAfter>>

SnifferJoined ==
    /\ Joined("sniffer")
    /\ UNCHANGED <<view, button, queue, stop, starts, netVars, snifferVars>>

-----------------------------------------------------------------------------
(* sniffer_thread                                                               *)

Tells(tool, at, e) == WorkerIn(tool, at) /\ Post(e) /\ pc' = "ended"

SnifferCheck ==
    /\ WorkerIn("sniffer", "check")
    /\ \/ linkError' = TRUE /\ pc' = "report" /\ UNCHANGED promiscuous
       \/ promiscuous' = TRUE /\ pc' = "create" /\ UNCHANGED linkError
    /\ UNCHANGED <<gui, button, queue, slot, stop, netVars>>
    /\ UNCHANGED <<handler, file, pcap, captured, openAfter>>

(* solve_paths finds a new name; pcap_capture_init truncates and may fail.      *)
SnifferCreate ==
    /\ WorkerIn("sniffer", "create")
    /\ pcap' = <<>> /\ captured' = 0
    /\ \/ file' = "writing" /\ pc' = "register"
       \/ pc' = "undo" /\ UNCHANGED file
    /\ UNCHANGED <<gui, button, queue, slot, stop, netVars>>
    /\ UNCHANGED <<promiscuous, handler, openAfter, linkError>>

(* Without a slot for the handler the file is closed again.                     *)
SnifferRegister ==
    /\ WorkerIn("sniffer", "register")
    /\ \/ handler' = TRUE /\ pc' = "sniff" /\ UNCHANGED file
       \/ file' = "closed" /\ pc' = "undo" /\ UNCHANGED handler
    /\ UNCHANGED <<gui, button, queue, slot, stop, netVars>>
    /\ UNCHANGED <<promiscuous, pcap, captured, openAfter, linkError>>

(* disable_promiscuous, after a set-up that failed and after a capture.         *)
FilterOff(at, next) ==
    /\ WorkerIn("sniffer", at)
    /\ promiscuous' = FALSE /\ pc' = next
    /\ UNCHANGED <<gui, button, queue, slot, stop, netVars>>
    /\ UNCHANGED <<handler, file, pcap, captured, openAfter, linkError>>

SnifferUndo == FilterOff("undo", "report")

SnifferReports ==
    /\ Tells("sniffer", "report", "error")
    /\ UNCHANGED <<gui, button, slot, stop, netVars, snifferVars>>

(* sniffer_handler and pcap_capture_add_packet, in the dispatcher's thread: a   *)
(* write that fails half way is not made good.  stopped is set right before     *)
(* rx_unregister, which waits for the handler: pc = "unregister".               *)
Capture ==
    /\ handler /\ pc = "sniff" /\ captured < MaxPackets
    /\ captured' = captured + 1
    /\ \E record \in {captured', Torn} : pcap' = Append(pcap, record)
    /\ UNCHANGED <<gui, button, queue, slot, pc, stop, netVars>>
    /\ UNCHANGED <<promiscuous, handler, file, openAfter, linkError>>

SnifferStops ==
    /\ WorkerIn("sniffer", "sniff") /\ stop
    /\ pc' = "unregister"
    /\ UNCHANGED <<gui, button, queue, slot, stop, netVars, snifferVars>>

(* rx_unregister, disable_promiscuous and pcap_close.                           *)
(* Variant: the file is closed before the handler is gone.                      *)
SnifferUnregisterLate ==
    /\ WorkerIn("sniffer", "unregister")
    /\ file' = "closed" /\ pc' = "filter"
    /\ UNCHANGED <<gui, button, queue, slot, stop, netVars>>
    /\ UNCHANGED <<promiscuous, handler, pcap, captured, openAfter, linkError>>
SnifferUnregister ==
    /\ WorkerIn("sniffer", "unregister")
    /\ handler' = FALSE /\ pc' = "filter"
    /\ UNCHANGED <<gui, button, queue, slot, stop, netVars>>
    /\ UNCHANGED <<promiscuous, file, pcap, captured, openAfter, linkError>>

SnifferFilterOff == FilterOff("filter", "close")

SnifferClose ==
    /\ WorkerIn("sniffer", "close")
    /\ file' = "closed" /\ pc' = "tell"
    /\ UNCHANGED <<gui, button, queue, slot, stop, netVars>>
    /\ UNCHANGED <<promiscuous, handler, pcap, captured, openAfter, linkError>>

SnifferTells ==
    /\ Tells("sniffer", "tell", IF openAfter THEN "open" ELSE "stop")
    /\ UNCHANGED <<gui, button, slot, stop, netVars, snifferVars>>

SnifferGui == EnterSniffer \/ RetrySniffer \/ OpenCapture \/ SnifferBack \/ SnifferEvent
                 \/ SnifferJoined
SnifferWorker == SnifferCheck \/ SnifferCreate \/ SnifferRegister \/ SnifferUndo
                 \/ SnifferReports \/ SnifferStops \/ SnifferUnregister \/ SnifferFilterOff
                 \/ SnifferClose \/ SnifferTells
=============================================================================
