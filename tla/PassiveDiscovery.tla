-------------------------- MODULE PassiveDiscovery --------------------------
(* A session of Passive Discovery: the scene on the GUI thread                 *)
(* (PassiveDiscoveryScene.c, PassiveNeighborListScene.c), its worker           *)
(* (passive_discovery_module.c), the receive dispatcher that runs the worker's *)
(* predicate, and the neighbour database they share (neighbor_db.c).           *)
(*                                                                             *)
(* Custom events wait in a queue of their own: a press of a button may be      *)
(* handled before events that were sent earlier, so an event may reach a later *)
(* session.  An observation is its protocol and the session that made it.  How *)
(* a merge saves is PassiveHistory's subject: here it may save any part of     *)
(* what it was given, as it fails or finds the file full, and the scene goes   *)
(* on all the same.  Events that only redraw the scene are left out.           *)
EXTENDS Naturals, Sequences

CONSTANTS
    Protocols,      \* LLDP, CDP, EAPOL
    All,            \* Discover All
    MaxSessions,    \* bound: sessions started
    NoFrame         \* the dispatcher is not in the worker's predicate

ASSUME PassiveAssumption ==
    /\ All \notin Protocols
    /\ MaxSessions \in Nat
    /\ NoFrame \notin Protocols

VARIABLES
    scene,          \* "menu", "discovery" or "list"
    state,          \* app->passive_discovery.state
    mode,           \* app->passive_discovery.protocol
    gui,            \* "idle", or why it is inside passive_discovery_finish_live
    events,         \* custom events on their way to the current scene
    session,        \* sessions started so far
    owned,          \* the worker slot holds the discovery thread
    stop,           \* app->passive_discovery_stop
    operational,    \* app->passive_capture_operational
    wpc,            \* the step of the worker
    selected,       \* its selected_protocol
    announced,      \* wait_state.operational: Started was sent
    exitEvent,      \* exit_event
    byButton,       \* the loop ended on the level of the BACK button
    matched,        \* this wait has accepted its frame
    frame,          \* the frame whose predicate the dispatcher is running
    multicast,      \* the chip accepts multicast frames
    db,             \* the neighbour database is allocated
    live,           \* the observations in it
    saved,          \* history: observations that a merge has saved
    leftOut         \* history: observations that a merge was given and did not save

guiVars == <<scene, state, mode, gui>>
workVars == <<selected, announced, exitEvent, byButton, multicast>>
waitVars == <<matched, frame>>
resultVars == <<saved, leftOut>>
dbVars == <<db, live, resultVars>>
vars == <<guiVars, events, session, owned, stop, operational, wpc, workVars, waitVars, dbVars>>

Modes == Protocols \cup {All}
Errors == {"scanner", "device", "link", "rx"}
Observations == [protocol : Protocols, session : 1..MaxSessions]
Of(m) == {o \in Observations : m \in {All, o.protocol}}

(* Between rx_register and rx_unregister.                                      *)
Armed == {"trigger", "wait"}

TypeOK ==
    /\ scene \in {"menu", "discovery", "list"}
    /\ state \in {"config", "starting", "listening", "finished", "error"}
    /\ mode \in Modes /\ selected \in Modes
    /\ gui \in {"idle", "stop", "back", "leave", "error"}
    /\ events \in Seq(Errors \cup {"started"})
    /\ session \in 0..MaxSessions
    /\ owned \in BOOLEAN /\ stop \in BOOLEAN /\ operational \in BOOLEAN
    /\ wpc \in {"none", "device", "link", "init", "loop", "register", "cleanup", "post", "done"}
                  \cup Armed
    /\ announced \in BOOLEAN /\ byButton \in BOOLEAN /\ matched \in BOOLEAN
    /\ exitEvent \in Errors \cup {"none"}
    /\ frame \in Protocols \cup {NoFrame}
    /\ multicast \in BOOLEAN
    /\ db \in BOOLEAN
    /\ live \subseteq Observations
    /\ saved \subseteq Observations /\ leftOut \subseteq Observations
    /\ owned <=> wpc # "none"

Init ==
    /\ scene = "menu" /\ state = "config" /\ mode = All /\ gui = "idle"
    /\ events = <<>>
    /\ session = 0 /\ owned = FALSE /\ stop = FALSE /\ operational = FALSE
    /\ wpc = "none" /\ selected = All /\ announced = FALSE
    /\ exitEvent = "none" /\ byButton = FALSE
    /\ matched = FALSE /\ frame = NoFrame /\ multicast = FALSE
    /\ db = FALSE /\ live = {} /\ saved = {} /\ leftOut = {}

-----------------------------------------------------------------------------
(* The GUI thread: buttons and events, while it is not inside finish_live.     *)

InDiscovery == gui = "idle" /\ scene = "discovery"

(* on_enter, from the menu or back from the list.                              *)
Open ==
    /\ gui = "idle" /\ scene # "discovery"
    /\ scene' = "discovery"
    /\ state' = "config"
    /\ stop' = FALSE
    /\ UNCHANGED <<mode, gui, events, session, owned, operational, wpc, workVars, waitVars, dbVars>>

Other ==
    /\ InDiscovery /\ state = "config"
    /\ mode' \in Modes \ {mode}
    /\ UNCHANGED <<scene, state, gui, events, session, owned, stop, operational, wpc, workVars,
                   waitVars, dbVars>>

(* Start and Retry: the database first, then the worker.                       *)
StartRefused ==
    /\ InDiscovery /\ state \in {"config", "error"}
    /\ state' = "error"
    /\ \/ ~db /\ UNCHANGED <<db, live, stop, operational>>   \* no memory for the database
       \/ /\ db' = FALSE /\ live' = {}      \* slot in use, or no memory for a worker
          /\ stop' \in {stop, FALSE} /\ operational' \in {operational, FALSE}
    /\ UNCHANGED <<scene, mode, gui, events, session, owned, wpc, workVars, waitVars,
                   resultVars>>

StartWorker ==
    /\ InDiscovery /\ state \in {"config", "error"}
    /\ ~owned /\ session < MaxSessions
    /\ db' = TRUE
    /\ stop' = FALSE /\ operational' = FALSE
    /\ owned' = TRUE /\ wpc' = "device" /\ session' = session + 1
    /\ state' = "starting"
    /\ byButton' = FALSE
    /\ UNCHANGED <<scene, mode, gui, events, selected, announced, exitEvent, multicast, waitVars,
                   live, resultVars>>

OpenSaved ==
    /\ InDiscovery /\ state = "config"
    /\ db' = FALSE /\ live' = {}
    /\ scene' = "list"
    /\ stop' = TRUE
    /\ UNCHANGED <<state, mode, gui, events, session, owned, operational, wpc, workVars, waitVars,
                   resultVars>>

(* [ Clear Results ] on the list of a finished session.                        *)
ClearResults ==
    /\ gui = "idle" /\ scene = "list"
    /\ live' = live \ Of(mode)
    /\ UNCHANGED <<guiVars, events, session, owned, stop, operational, wpc, workVars, waitVars, db,
                   resultVars>>

(* passive_discovery_finish_live: ask the worker to stop ...                   *)
FinishLive(why) ==
    /\ gui' = why
    /\ stop' = TRUE
    /\ UNCHANGED <<scene, state, mode, session, owned, operational, wpc, workVars, waitVars, dbVars>>

Stop == InDiscovery /\ state = "listening" /\ FinishLive("stop") /\ UNCHANGED events

Back ==
    /\ InDiscovery
    /\ FinishLive(IF state \in {"starting", "listening"} THEN "back" ELSE "leave")
    /\ UNCHANGED events

(* ... join it, merge what it heard, and go on with what it was called for.    *)
(* What the merge returns is ignored.                                          *)

(* The observations the merge is given.  Variant: an error does not merge.     *)
CoveredUnlessError == IF operational /\ gui # "error" THEN live \cap Of(mode) ELSE {}
Covered == IF operational THEN live \cap Of(mode) ELSE {}

Finish ==
    /\ \E kept \in SUBSET Covered :
          /\ saved' = saved \cup kept
          /\ leftOut' = leftOut \cup (Covered \ kept)
    /\ operational' = FALSE
    /\ gui' = "idle"
    /\ state' = CASE gui = "stop" -> "finished"
                  [] gui = "error" -> "error"
                  [] OTHER -> "config"
    /\ scene' = CASE gui = "stop" -> "list"
                  [] gui = "leave" -> "menu"
                  [] OTHER -> scene
    /\ db' = (db /\ gui # "leave")
    /\ live' = IF gui = "leave" THEN {} ELSE live
    /\ UNCHANGED <<mode, events, session, stop, workVars, waitVars>>

Finished ==
    /\ gui # "idle" /\ wpc \in {"none", "done"}
    /\ Finish
    /\ owned' = FALSE /\ wpc' = "none"

(* Events.  The other scenes drop them.                                        *)
TakeEvent == gui = "idle" /\ events # <<>> /\ events' = Tail(events)

EventDropped ==
    /\ TakeEvent /\ scene # "discovery"
    /\ UNCHANGED <<guiVars, session, owned, stop, operational, wpc, workVars, waitVars, dbVars>>

EventStarted ==
    /\ TakeEvent /\ scene = "discovery" /\ Head(events) = "started"
    /\ state' = IF state = "starting" THEN "listening" ELSE state
    /\ UNCHANGED <<scene, mode, gui, session, owned, stop, operational, wpc, workVars, waitVars,
                   dbVars>>

(* Variant: an error is shown, as its worker must be gone.                     *)
EventErrorShowsOnly ==
    /\ TakeEvent /\ scene = "discovery" /\ Head(events) # "started"
    /\ state' = "error"
    /\ UNCHANGED <<scene, mode, gui, session, owned, stop, operational, wpc, workVars, waitVars,
                   dbVars>>

EventError ==
    /\ TakeEvent /\ scene = "discovery" /\ Head(events) # "started"
    /\ FinishLive("error")

-----------------------------------------------------------------------------
(* The worker.                                                                 *)

Send(e) == events' = Append(events, e)

WReturn(l, e) ==      \* an error found before the loop
    /\ wpc = l
    /\ Send(e)
    /\ wpc' = "done"
    /\ UNCHANGED <<guiVars, session, owned, stop, operational, workVars, waitVars, dbVars>>

WGoes(l, m) ==
    /\ wpc = l
    /\ wpc' = m
    /\ UNCHANGED <<guiVars, events, session, owned, stop, operational, workVars, waitVars, dbVars>>

(* enc28j60_start, for a chip that was not connected, and is_link_up.          *)
WDevice == WReturn("device", "device") \/ WGoes("device", "link")
(* Variant: a missing link is not reported.                                    *)
WLinkSilent == WGoes("link", "done") \/ WGoes("link", "init")
WLink == WReturn("link", "link") \/ WGoes("link", "init")

WInit ==              \* multicast frames, and the selected handlers' init
    /\ wpc = "init"
    /\ selected' = mode
    /\ announced' = FALSE /\ exitEvent' = "none"
    /\ multicast' = TRUE
    /\ live' = live \ Of(mode)
    /\ wpc' = "loop"
    /\ UNCHANGED <<guiVars, events, session, owned, stop, operational, byButton, waitVars, db,
                   resultVars>>

WEnd(e, button) ==    \* break
    /\ wpc' = "cleanup"
    /\ exitEvent' = e
    /\ byButton' = button
    /\ UNCHANGED <<guiVars, events, session, owned, stop, operational, selected, announced,
                   multicast, waitVars, dbVars>>

(* Variant: the loop does not look at the stop flag.                           *)
WCancelledNever == FALSE
WCancelled == stop

WLoop ==
    /\ wpc = "loop"
    /\ \/ WCancelled /\ WEnd("none", byButton)
       \/ WEnd("none", TRUE)                 \* the BACK button is down
       \/ ~WCancelled /\ WEnd("scanner", byButton)
       \/ ~WCancelled /\ WGoes("loop", "register")

(* scanner_wait_for_packet: the semaphore and the registry slot may be refused. *)
WRegister ==
    /\ wpc = "register"
    /\ \/ WEnd("scanner", byButton)
       \/ WEnd("rx", byButton)
       \/ /\ wpc' = "trigger"
          /\ matched' = FALSE
          /\ UNCHANGED <<guiVars, events, session, owned, stop, operational, workVars, frame,
                         dbVars>>

WTrigger ==           \* passive_discovery_rx_registered
    /\ wpc = "trigger"
    /\ operational' = TRUE
    /\ announced' = TRUE
    /\ IF announced THEN UNCHANGED events ELSE Send("started")
    /\ wpc' = "wait"
    /\ UNCHANGED <<guiVars, session, owned, stop, selected, exitEvent, byButton, multicast,
                   waitVars, dbVars>>

(* The wait ends on a frame, on cancel or after 500 ms; rx_unregister waits    *)
(* for the dispatcher to leave the predicate.                                  *)
WWait == frame = NoFrame /\ WGoes("wait", "loop")

(* Variant: the filter is put back unless an error ended the loop.             *)
WCleanupUnlessError ==
    /\ wpc = "cleanup"
    /\ multicast' = (exitEvent # "none")
    /\ wpc' = "post"
    /\ UNCHANGED <<guiVars, events, session, owned, stop, operational, selected, announced,
                   exitEvent, byButton, waitVars, dbVars>>

WCleanup ==
    /\ wpc = "cleanup"
    /\ multicast' = FALSE
    /\ wpc' = "post"
    /\ UNCHANGED <<guiVars, events, session, owned, stop, operational, selected, announced,
                   exitEvent, byButton, waitVars, dbVars>>

WPost ==              \* if(exit_event && !app->passive_discovery_stop)
    /\ wpc = "post"
    /\ IF exitEvent # "none" /\ ~stop THEN Send(exitEvent) ELSE UNCHANGED events
    /\ wpc' = "done"
    /\ UNCHANGED <<guiVars, session, owned, stop, operational, workVars, waitVars, dbVars>>

Worker ==
    WDevice \/ WLink \/ WInit \/ WLoop \/ WRegister \/ WTrigger \/ WWait \/ WCleanup \/ WPost

-----------------------------------------------------------------------------
(* The dispatcher calls the predicate, passive_discovery_dispatch_frame, which *)
(* parses the frame and then writes the database.                              *)

DispatchBegin(p) ==
    /\ wpc \in Armed /\ ~matched /\ frame = NoFrame
    /\ p \in Protocols /\ selected \in {All, p}
    /\ frame' = p
    /\ UNCHANGED <<guiVars, events, session, owned, stop, operational, wpc, workVars, matched,
                   dbVars>>

DispatchEnd ==
    /\ frame # NoFrame
    /\ frame' = NoFrame
    /\ matched' = TRUE
    /\ live' = IF db THEN live \cup {[protocol |-> frame, session |-> session]} ELSE live
    /\ UNCHANGED <<guiVars, events, session, owned, stop, operational, wpc, workVars, db,
                   resultVars>>

-----------------------------------------------------------------------------
Gui ==
    \/ Open \/ Other \/ StartRefused \/ StartWorker \/ OpenSaved \/ ClearResults
    \/ Stop \/ Back \/ Finished
    \/ EventDropped \/ EventStarted \/ EventError

Next == Gui \/ Worker \/ DispatchEnd \/ \E p \in Protocols : DispatchBegin(p)

Spec == Init /\ [][Next]_vars

(* The worker and the dispatcher are scheduled and the GUI thread leaves a     *)
(* join that may end; rx_unregister gets the mutex if it is free again and     *)
(* again.  What the user presses and the network sends is up to them.          *)
FairSpec ==
    /\ Spec
    /\ WF_vars(Worker) /\ SF_vars(WWait)
    /\ WF_vars(DispatchEnd)
    /\ WF_vars(Finished)

-----------------------------------------------------------------------------
(* Properties.                                                                 *)

(* While a worker lives, its database does: no press, event or late error      *)
(* releases the memory the dispatcher may be writing to                        *)
(* (PassiveDiscoveryScene.c:274-277, 350, 404-409, 315).                       *)
DbHeldInUse == wpc # "none" \/ frame # NoFrame => db

(* An observation is lost in a merge only: it leaves the database after the    *)
(* merge of its session, with the mode it was heard in, has dealt with it, or  *)
(* because the user clears the list; no release, new session or early end      *)
(* drops what no merge was given, so as long as merges save what they are      *)
(* given nothing is lost.  That one may not, and that nobody then notices, is  *)
(* F4-023 of the backlog and not excluded here                                 *)
(* (PassiveDiscoveryScene.c:24-32, passive_discovery_module.c:134-138).        *)
LostInMergeOnly ==
    [][~ClearResults => \A o \in live \ live' : o \in saved \cup leftOut]_vars

(* However a session ends, the chip stops accepting multicast frames           *)
(* (passive_discovery_module.c:178, 228-229).                                  *)
MulticastRestored == wpc \in {"none", "post", "done"} => ~multicast

(* A session never dies behind the user's back: while the scene shows it, the  *)
(* worker is running, its error is on the way, or the BACK button, whose press *)
(* the scene is about to handle, has ended it                                  *)
(* (passive_discovery_module.c:160-170, 191-235).                              *)
NoSilentEnd ==
    gui = "idle" /\ state \in {"starting", "listening"} =>
        \/ wpc \notin {"none", "done"}
        \/ \E i \in DOMAIN events : events[i] \in Errors
        \/ byButton

(* Stop, BACK and errors always get the GUI thread back                        *)
(* (PassiveDiscoveryScene.c:25, passive_discovery_module.c:266-274).           *)
FinishReturns == gui # "idle" ~> gui = "idle"
=============================================================================
