----------------------------- MODULE PcapViewer -----------------------------
(* The viewer of a capture: its scene and its worker (ReadPcapsScene.c) and the *)
(* reading of the file (capture_module.c).  The file is the last capture; where *)
(* a record is torn, what follows it is read at offsets that mean nothing.      *)
EXTENDS Sniffer

CONSTANT MaxPositions       \* PACKET_POSITIONS_MAX, 2000

ASSUME ViewerAssumption == MaxPositions \in Nat \ {0}

VARIABLES
    index,      \* packet_count: positions in the index, 0 when it is released
    counter,    \* the packet to show
    shown       \* the packet on the screen, with its number

viewerVars == <<index, counter, shown>>
ViewerInit == index = 0 /\ counter = 0 /\ shown = <<>>

(* Records before the first torn one.                                           *)
Sound == CHOOSE n \in 0..Len(pcap) :
            /\ \A i \in 1..n : pcap[i] # Torn
            /\ n < Len(pcap) => pcap[n + 1] = Torn

(* pcap_scan counts a position before it reads a header there, one also in a    *)
(* file without packets, and ends early where a read fails or a record is torn. *)
Counts ==
    {IF n > MaxPositions THEN MaxPositions ELSE n : n \in 1..(IF pcap = <<>> THEN 1 ELSE Len(pcap))}

Unreadable == 0
Garbage == MaxPackets + 1

(* pcap_get_specific_packet, whose every call may fail.                         *)
(* Variant: the position after the one asked for.                               *)
ReadsNext(n) == {Unreadable} \cup IF n + 1 < Sound THEN {pcap[n + 2]} ELSE {}
Reads(n) ==
    {Unreadable} \cup
        IF n < Sound THEN {pcap[n + 1]} ELSE IF pcap = <<>> THEN {} ELSE {Garbage}

-----------------------------------------------------------------------------
(* The scene.                                                                   *)

(* read_pcap_start: a message, or the index and a worker.                       *)
StartViewer ==
    \/ Claim("viewer", "open") /\ view' = "running" /\ index' \in Counts /\ Quiet
    \/ Refused /\ UNCHANGED <<index, netVars>>

(* From the file browser, or from the sniffer's Open.                           *)
EnterViewer ==
    /\ \/ Enters("viewer") /\ starts > 0
       \/ Attentive("viewer") /\ view = "enter" /\ UNCHANGED scene
    /\ StartViewer
    /\ UNCHANGED <<joining, button, queue, snifferVars, counter, shown>>

RetryViewer ==
    /\ Attentive("viewer") /\ view = "refused"
    /\ StartViewer
    /\ UNCHANGED <<scene, joining, button, queue, snifferVars, counter, shown>>

ViewerEvent ==
    /\ view # "enter"
    /\ \/ Handles("viewer", "text") /\ UNCHANGED <<gui, index>>
       \/ /\ Handles("viewer", "error")
          /\ JoinThen("viewer", "viewer", "error")
          /\ index' = IF owner = "viewer" THEN index ELSE 0
    /\ UNCHANGED <<button, slot, pc, stop, netVars, snifferVars, counter, shown>>

(* on_exit sets the flag, joins and releases the index.                         *)
ViewerBack ==
    /\ view # "enter" /\ BackIn("viewer")
    /\ stop' = TRUE
    /\ JoinThen("viewer", "menu", "menu")
    /\ index' = IF owner = "viewer" THEN index ELSE 0
    /\ UNCHANGED <<back, queue, slot, pc, netVars, snifferVars, counter, shown>>

ViewerJoined ==
    /\ Joined("viewer")
    /\ index' = 0 /\ counter' = 0 /\ shown' = <<>>
    /\ UNCHANGED <<view, button, queue, stop, starts, netVars, snifferVars>>

-----------------------------------------------------------------------------
(* thread_read_pcaps                                                            *)

ViewerOpen ==
    /\ WorkerIn("viewer", "open")
    /\ \/ file' = "reading" /\ pc' = "show"
       \/ pc' = "report" /\ UNCHANGED file
    /\ UNCHANGED <<gui, button, queue, slot, stop, netVars, viewerVars>>
    /\ UNCHANGED <<promiscuous, handler, pcap, captured, openAfter, linkError>>

ViewerShow ==
    /\ WorkerIn("viewer", "show") /\ ~Cancel
    /\ \E p \in Reads(counter) :
          IF p = Unreadable
             THEN pc' = "unread" /\ UNCHANGED shown
             ELSE pc' = "text" /\ shown' = <<counter, p>>
    /\ UNCHANGED <<gui, button, queue, slot, stop, netVars, snifferVars, index, counter>>

(* It waits for room in the queue without looking at the flag or the button.    *)
ViewerText ==
    /\ WorkerIn("viewer", "text")
    /\ Post("text") /\ pc' = "keys"
    /\ UNCHANGED <<gui, button, slot, stop, netVars, snifferVars, viewerVars>>

(* Left and right.                                                              *)
ViewerKey ==
    /\ WorkerIn("viewer", "keys") /\ ~Cancel
    /\ \/ counter' = IF counter > 0 THEN counter - 1 ELSE 0
       \/ counter' = IF counter + 1 < index THEN counter + 1 ELSE counter
    /\ pc' = "show"
    /\ UNCHANGED <<gui, button, queue, slot, stop, netVars, snifferVars, index, shown>>

ViewerCloses ==
    /\ \/ \E at \in {"show", "keys"} : WorkerIn("viewer", at) /\ Cancel /\ pc' = "ended"
       \/ WorkerIn("viewer", "unread") /\ pc' = "failed"
    /\ file' = "closed"
    /\ UNCHANGED <<gui, button, queue, slot, stop, netVars, viewerVars>>
    /\ UNCHANGED <<promiscuous, handler, pcap, captured, openAfter, linkError>>

(* A failure is told unless the scene is being left.                            *)
ViewerFails ==
    /\ WorkerIn("viewer", "failed")
    /\ pc' = IF stop THEN "ended" ELSE "report"
    /\ UNCHANGED <<gui, button, queue, slot, stop, netVars, snifferVars, viewerVars>>

ViewerReports ==
    /\ Tells("viewer", "report", "error")
    /\ UNCHANGED <<gui, button, slot, stop, netVars, snifferVars, viewerVars>>

ViewerGui == EnterViewer \/ RetryViewer \/ ViewerEvent \/ ViewerBack \/ ViewerJoined
ViewerWorker ==
    ViewerOpen \/ ViewerShow \/ ViewerText \/ ViewerKey \/ ViewerCloses \/ ViewerFails
        \/ ViewerReports

-----------------------------------------------------------------------------
(* The one File of the application and the receive filter are never left behind *)
(* nor pulled away: packets are written only while the file is open for them,   *)
(* the viewer reads only while it holds the index, and once neither tool runs   *)
(* the file is closed, the handler gone and the filter off, whichever step of   *)
(* the set-up failed (SnifferScene.c:256-354, ReadPcapsScene.c:143-241).        *)
ResourcesHeld ==
    /\ handler => file = "writing" /\ promiscuous
    /\ file = "reading" => index > 0 /\ counter < index
    /\ owner \notin {"sniffer", "viewer"} =>
          ~promiscuous /\ ~handler /\ file = "closed" /\ index = 0

(* What is shown as the n-th packet is the n-th that was captured, up to the    *)
(* first whose write failed (capture_module.c:71-104, 136-242).                 *)
RecordsReadBack ==
    shown # <<>> /\ shown[1] < Sound => shown[2] = shown[1] + 1
=============================================================================
