------------------------------ MODULE ArpScan -------------------------------
(* Scan Hosts: the scene on the GUI thread (ArpScannerScene.c), its worker that *)
(* asks one address after the other (arp_module.c), the dispatcher that writes  *)
(* the MAC of an answer into the list the worker is filling, and the file of    *)
(* the last scan that menus read back (app_user.c).                             *)
(*                                                                              *)
(* Addresses are numbered in the order they are asked.  An address or a MAC in  *)
(* the list is represented by the host and the scan it came from.  A wait may   *)
(* end by its timeout at any moment.  Any write may fail or be cut short, and   *)
(* the power may go between any two steps.                                      *)
EXTENDS Naturals, Sequences

CONSTANTS
    RangeIp,        \* app->scan_params.range_ip
    MaxScans,       \* bound: scans started
    None            \* nothing was written here

ASSUME ArpScanAssumption == RangeIp \in Nat /\ MaxScans \in Nat

VARIABLES
    scene,          \* "menu", "scan" or "list"
    view,           \* what the scan scene shows
    stop,           \* app->arp_scanner_stop
    events,         \* custom events on their way to the scene
    owned,          \* the worker slot holds the scanner thread
    wpc,            \* the step of the worker
    i,              \* addresses done
    counter,        \* hosts found
    matched,        \* this wait has accepted its frame
    got,            \* scanner_wait_for_packet returns true
    cancelled,      \* scanner.cancelled
    failure,        \* scanner.last_wait_failure
    outcome,        \* the worker's verdict: "cancelled" or "finished"
    list,           \* app->ip_list
    count,          \* app->ip_counter
    stamp,          \* app->last_scan_time, as the scan that took it
    file,           \* last_scan.bin: a header, if one was written, and a body
    scan,           \* scans started so far
    results         \* history: what each scan that asked every address found

guiVars == <<scene, view, stop, events, owned>>
waitVars == <<matched, got, cancelled, failure>>
workVars == <<wpc, i, counter, outcome, waitVars>>
appVars == <<list, count, stamp>>
vars == <<guiVars, workVars, appVars, file, scan, results>>

Addresses == 1..RangeIp
Scans == 1..MaxScans
Origins == [host : Addresses, scan : Scans]
Entries == [ip : Origins \cup {None}, mac : Origins \cup {None}]

Blank == [ip |-> None, mac |-> None]
Empty == [header |-> None, body |-> <<>>]   \* also when there is no file
Header(n, s) == [count |-> n, stamp |-> s]
Found(n) == SubSeq(list, 1, n)

(* Types, by what they belong to.                                              *)
SceneTypes ==
    /\ scene \in {"menu", "scan", "list"}
    /\ view \in {"none", "loading", "no device", "no network", "retry"}
    /\ events \in Seq({"finished", "cancelled", "memory"})
    /\ wpc \in {"none", "begin", "loop", "arm", "wait", "disarm", "end", "open", "header",
                "body", "post", "done"}
    /\ failure \in {"none", "memory", "rx"}
    /\ outcome \in {"finished", "cancelled"}

FlagTypes ==
    /\ stop \in BOOLEAN /\ owned \in BOOLEAN
    /\ matched \in BOOLEAN /\ got \in BOOLEAN /\ cancelled \in BOOLEAN

CountTypes == i \in 0..RangeIp /\ counter \in 0..i /\ count \in 0..RangeIp /\ scan \in 0..MaxScans

ListTypes ==
    /\ list \in [Addresses -> Entries]
    /\ stamp \in Scans \cup {None}
    /\ file \in [header : [count : 0..RangeIp, stamp : Scans] \cup {None}, body : Seq(Entries)]
    /\ results \in [Scans -> [whole : BOOLEAN, hosts : Seq(Entries)]]

(* No more hosts than addresses asked (arp_module.c:205-254), and every        *)
(* variable of its type.                                                        *)
TypeOK == SceneTypes /\ FlagTypes /\ CountTypes /\ ListTypes

Init ==
    /\ scene = "menu" /\ view = "none" /\ stop = FALSE /\ events = <<>> /\ owned = FALSE
    /\ wpc = "none" /\ i = 0 /\ counter = 0 /\ outcome = "finished"
    /\ matched = FALSE /\ got = FALSE /\ cancelled = FALSE /\ failure = "none"
    /\ list = [a \in Addresses |-> Blank] /\ count = 0 /\ stamp = None
    /\ file = Empty
    /\ scan = 0
    /\ results = [s \in Scans |-> [whole |-> FALSE, hosts |-> <<>>]]

-----------------------------------------------------------------------------
(* arp_load_last_scan: without a file or a whole header nothing changes, else   *)
(* the header counts and as much of the body as there is overwrites the list.   *)
Load ==
    IF file.header = None
    THEN UNCHANGED appVars
    ELSE /\ stamp' = file.header.stamp
         /\ count' = file.header.count
         /\ list' = [a \in Addresses |->
                        IF a <= Len(file.body) THEN file.body[a] ELSE list[a]]

(* Variant: results that are in memory are not read again.                      *)
LoadIfEmpty == IF count > 0 THEN UNCHANGED appVars ELSE Load

LoadLastScan == Load

-----------------------------------------------------------------------------
(* The GUI thread.                                                              *)

GoTo(s, v) == scene' = s /\ view' = v

(* draw_the_arp_list, on Start Scanning and on Retry: the chip, the link, the   *)
(* worker slot and the memory are checked before the thread is started.         *)
Start ==
    /\ scene = "menu" \/ (scene = "scan" /\ view = "retry")
    /\ ~owned
    /\ \/ GoTo("scan", "no device") /\ UNCHANGED <<stop, owned, wpc, scan>>
       \/ GoTo("scan", "no network") /\ UNCHANGED <<stop, owned, wpc, scan>>
       \/ GoTo("scan", "retry") /\ stop' = FALSE /\ UNCHANGED <<owned, wpc, scan>>
       \/ /\ scan < MaxScans
          /\ GoTo("scan", "loading")
          /\ stop' = FALSE
          /\ owned' = TRUE
          /\ wpc' = "begin"
          /\ scan' = scan + 1
    /\ UNCHANGED <<events, i, counter, outcome, waitVars, appVars, file, results>>

(* The Hosts entry of the menu.                                                 *)
ShowList ==
    /\ scene = "menu"
    /\ GoTo("list", "none")
    /\ LoadLastScan
    /\ UNCHANGED <<stop, events, owned, workVars, file, scan, results>>

(* BACK asks a running worker to stop and stays, else the menu reads the file   *)
(* again.                                                                       *)
Back ==
    /\ scene # "menu"
    /\ IF owned
       THEN stop' = TRUE /\ UNCHANGED <<scene, view, appVars>>
       ELSE GoTo("menu", "none") /\ LoadLastScan /\ UNCHANGED stop
    /\ UNCHANGED <<events, owned, workVars, file, scan, results>>

(* on_event: the result joins the worker.  A memory error offers to retry; a    *)
(* cancelled scan, and one that BACK came too late for, returns to the menu;    *)
(* any other one shows the list.                                                *)
HandleEvent ==
    /\ events # <<>> /\ wpc = "done"
    /\ events' = Tail(events)
    /\ owned' = FALSE /\ wpc' = "none"
    /\ IF Head(events) = "memory"
       THEN GoTo("scan", "retry") /\ UNCHANGED appVars
       ELSE /\ LoadLastScan
            /\ IF Head(events) = "cancelled" \/ stop
               THEN GoTo("menu", "none")
               ELSE GoTo("list", "none")
    /\ UNCHANGED <<stop, i, counter, outcome, waitVars, file, scan, results>>

-----------------------------------------------------------------------------
(* The worker: arp_scanner_thread and arp_scan_network.                         *)

WGoto(l) == wpc' = l /\ UNCHANGED <<guiVars, file, scan>>

WBegin ==           \* scanner_session_init
    /\ wpc = "begin"
    /\ i' = 0 /\ counter' = 0
    /\ cancelled' = FALSE /\ failure' = "none"
    /\ WGoto("loop")
    /\ UNCHANGED <<outcome, matched, got, appVars, results>>

(* scanner_cancel_requested: the stop flag, or the BACK button is held down,    *)
(* which the worker may see before the scene handles the press.                 *)
WLoop ==
    /\ wpc = "loop"
    /\ \/ i < RangeIp /\ ~stop /\ WGoto("arm") /\ UNCHANGED cancelled
       \/ i < RangeIp /\ cancelled' = TRUE /\ WGoto("end")
       \/ i = RangeIp /\ WGoto("end") /\ UNCHANGED cancelled
    /\ UNCHANGED <<i, counter, outcome, matched, got, failure, appVars, results>>

(* scanner_wait_for_packet up to the request: memory for the semaphore and a    *)
(* registry slot may be refused, which ends the scan.                           *)
WArm ==
    /\ wpc = "arm"
    /\ matched' = FALSE /\ got' = FALSE
    /\ \/ failure' = "none" /\ WGoto("wait")
       \/ failure' \in {"memory", "rx"} /\ WGoto("end")
    /\ UNCHANGED <<i, counter, outcome, cancelled, appVars, results>>

WGot ==
    /\ wpc = "wait" /\ matched
    /\ got' = TRUE
    /\ WGoto("disarm")
    /\ UNCHANGED <<i, counter, outcome, matched, cancelled, failure, appVars, results>>

(* The timeout, or a cancel between two slices of the wait.                     *)
WGiveUp ==
    /\ wpc = "wait"
    /\ cancelled' \in BOOLEAN
    /\ WGoto("disarm")
    /\ UNCHANGED <<i, counter, outcome, matched, got, failure, appVars, results>>

(* rx_unregister, then a host that answered in time gets its address.           *)
WDisarm ==
    /\ wpc = "disarm"
    /\ IF got
       THEN /\ list' = [list EXCEPT ![counter + 1].ip = [host |-> i + 1, scan |-> scan]]
            /\ counter' = counter + 1
       ELSE UNCHANGED <<list, counter>>
    /\ IF cancelled THEN WGoto("end") /\ UNCHANGED i ELSE WGoto("loop") /\ i' = i + 1
    /\ UNCHANGED <<outcome, waitVars, count, stamp, results>>

(* Variant: only the flag of the scene is looked at.                            *)
SavesUnlessStopped == ~stop /\ failure = "none"

Saves == ~(cancelled \/ stop) /\ failure = "none"

WEnd ==             \* *list_count = counter; a scan that was cut short is not saved
    /\ wpc = "end"
    /\ count' = counter
    /\ outcome' = IF cancelled \/ stop THEN "cancelled" ELSE "finished"
    /\ results' = IF i = RangeIp
                  THEN [results EXCEPT ![scan] = [whole |-> TRUE, hosts |-> Found(counter)]]
                  ELSE results
    /\ WGoto(IF Saves THEN "open" ELSE "post")
    /\ UNCHANGED <<i, counter, waitVars, list, stamp>>

(* arp_save_last_scan: create always, the header, then the body.  What the      *)
(* writes return is not looked at.                                              *)
Saving(l) ==
    /\ wpc' = l
    /\ UNCHANGED <<guiVars, i, counter, outcome, waitVars, list, count, scan, results>>

WOpen ==
    /\ wpc = "open"
    /\ \/ file' = Empty
          /\ stamp' = scan
          /\ Saving("header")
       \/ Saving("post") /\ UNCHANGED <<file, stamp>>

WHeader ==
    /\ wpc = "header"
    /\ \/ file' = [file EXCEPT !.header = Header(count, stamp)]
          /\ Saving("body")
       \/ Saving("post") /\ UNCHANGED file   \* the card is full or gone
    /\ UNCHANGED stamp

WBody ==
    /\ wpc = "body"
    /\ \E n \in 0..count : file' = [file EXCEPT !.body = Found(n)]
    /\ Saving("post")
    /\ UNCHANGED stamp

(* Variant: nobody is told of a cancelled scan.                                 *)
WPostUnlessCancelled ==
    /\ wpc = "post"
    /\ events' = IF outcome = "cancelled" THEN events ELSE Append(events, outcome)
    /\ wpc' = "done"
    /\ UNCHANGED <<scene, view, stop, owned, i, counter, outcome, waitVars, appVars, file, scan,
                   results>>

WPost ==            \* view_dispatcher_send_custom_event
    /\ wpc = "post"
    /\ events' = Append(events, IF failure = "memory" THEN "memory" ELSE outcome)
    /\ wpc' = "done"
    /\ UNCHANGED <<scene, view, stop, owned, i, counter, outcome, waitVars, appVars, file, scan,
                   results>>

Worker ==
    \/ WBegin \/ WLoop \/ WArm \/ WGot \/ WGiveUp \/ WDisarm \/ WEnd
    \/ WOpen \/ WHeader \/ WBody \/ WPost

-----------------------------------------------------------------------------
(* The dispatcher.  arp_reply_match_predicate accepts an answer of the address  *)
(* that was asked, also after the wait has given up, until rx_unregister has    *)
(* returned, and writes its MAC behind the hosts found so far.  Hosts may       *)
(* answer late, when another address has been asked.                            *)

(* Variant: any ARP reply is taken.                                             *)
AnswersAny(h) == h <= i + 1
Answers(h) == h = i + 1

Reply(h) ==
    /\ wpc \in {"wait", "disarm"} /\ ~matched
    /\ Answers(h)
    /\ list' = [list EXCEPT ![counter + 1].mac = [host |-> h, scan |-> scan]]
    /\ matched' = TRUE
    /\ UNCHANGED <<guiVars, wpc, i, counter, outcome, got, cancelled, failure, count, stamp,
                   file, scan, results>>

(* The application ends, or the power goes: only the card is left.              *)
Reopen ==
    /\ scan > 0
    /\ scene' = "menu" /\ view' = "none" /\ stop' = FALSE /\ events' = <<>> /\ owned' = FALSE
    /\ wpc' = "none" /\ i' = 0 /\ counter' = 0 /\ outcome' = "finished"
    /\ matched' = FALSE /\ got' = FALSE /\ cancelled' = FALSE /\ failure' = "none"
    /\ list' = [a \in Addresses |-> Blank] /\ count' = 0 /\ stamp' = None
    /\ UNCHANGED <<file, scan, results>>

Gui == Start \/ ShowList \/ Back \/ HandleEvent

Next == Gui \/ Worker \/ Reopen \/ \E h \in Addresses : Reply(h)

Spec == Init /\ [][Next]_vars

(* The worker is scheduled, its waits time out, and the GUI thread handles what *)
(* it is sent.  Nothing is assumed of the user or the network.                  *)
FairSpec == Spec /\ WF_vars(Worker) /\ WF_vars(HandleEvent)

-----------------------------------------------------------------------------
(* Properties.                                                                  *)

(* A host that was found is listed with the MAC it answered with, in this scan: *)
(* the dispatcher that writes the MAC and the worker that writes the address    *)
(* never pair those of different hosts, however late answers come               *)
(* (arp_module.c:196-217, scanner_session.c:249-262).                           *)
FoundPaired ==
    wpc \notin {"none", "begin"} =>
        \A k \in 1..counter : list[k].ip = list[k].mac /\ list[k].ip.scan = scan

(* The saved file is never that of a scan that was cut short, by BACK, by the   *)
(* button or for lack of memory, and its body never holds anything but what     *)
(* that scan found, wherever a write failed or the power went                   *)
(* (ArpScannerScene.c:639-645, app_user.c:110-130).                             *)
SavedIsCompleted ==
    file.header # None =>
        LET result == results[file.header.stamp]
        IN  /\ result.whole
            /\ file.header.count = Len(result.hosts)
            /\ file.body = SubSeq(result.hosts, 1, Len(file.body))

(* With a whole file on the card, a list is shown as found at its date: the     *)
(* hosts of a cancelled, a failed or an unsaved scan are gone from memory       *)
(* (app_user.c:85-108, ArpScannerScene.c:314-322).                              *)
FileWhole == file.header # None /\ Len(file.body) = file.header.count
ShownIsSaved ==
    scene = "list" /\ FileWhole =>
        /\ stamp \in Scans
        /\ results[stamp] = [whole |-> TRUE, hosts |-> Found(count)]

(* Every scan ends and gives the worker slot back, also when the user presses   *)
(* BACK at any moment or hosts answer without end                               *)
(* (ArpScannerScene.c:343-347, 629-657).                                        *)
ScanEnds == owned ~> ~owned
=============================================================================
