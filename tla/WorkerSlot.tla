----------------------------- MODULE WorkerSlot -----------------------------
(* The slot of the one worker thread a tool may run (app_user.c), the scene     *)
(* that owns it and the two queues of the GUI thread: custom events, which the  *)
(* worker posts and waits to post when the queue is full, and the BACK button.  *)
(* The worker also reads the level of that button, and sees a press only if it  *)
(* happens to read during it; the GUI hears of a short press when it ends, and  *)
(* of a long one never.  While the GUI joins the worker it handles nothing.     *)
EXTENDS Naturals, Sequences, FiniteSets

CONSTANTS
    QueueLength,    \* custom events the view dispatcher holds
    MaxStarts       \* bound: workers started

ASSUME SlotAssumption == QueueLength \in Nat \ {0} /\ MaxStarts \in Nat

VARIABLES
    scene,      \* the scene the GUI is in, "menu" outside the tools
    view,       \* what that scene shows, for the scenes where it matters
    owner,      \* thread_alternative_owner
    pc,         \* where the worker is: "none", "ended", or a label of its tool
    joining,    \* "no", or the scene that follows the join the GUI waits in
    back,       \* the BACK button is down
    pressed,    \* a short press of it waits to be handled
    queue,      \* custom events that wait to be handled
    stop,       \* the stop flag of the tool that runs
    starts      \* counted against MaxStarts

slotVars == <<scene, view, owner, pc, joining, back, pressed, queue, stop, starts>>
gui == <<scene, view, joining>>
button == <<back, pressed>>
slot == <<owner, starts>>

SlotInit ==
    /\ scene = "menu" /\ view = "menu" /\ joining = "no"
    /\ owner = "none" /\ pc = "none" /\ stop = FALSE /\ starts = 0
    /\ back = FALSE /\ pressed = FALSE /\ queue = <<>>

-----------------------------------------------------------------------------
(* The button.                                                                  *)

Press ==
    /\ ~back /\ back' = TRUE
    /\ UNCHANGED <<gui, pressed, queue, slot, pc, stop>>

Release ==
    /\ back /\ back' = FALSE
    /\ pressed' \in {pressed, TRUE}
    /\ UNCHANGED <<gui, queue, slot, pc, stop>>

-----------------------------------------------------------------------------
(* Parts of the actions of the tools.                                           *)

Post(e) ==
    /\ Len(queue) < QueueLength
    /\ queue' = Append(queue, e)

(* app_thread_claim and furi_thread_start.                                      *)
Claim(tool, first) ==
    /\ owner = "none" /\ starts < MaxStarts
    /\ owner' = tool /\ pc' = first
    /\ starts' = starts + 1
    /\ stop' = FALSE

(* The slot taken, or no memory for the thread: a message with a Retry button.  *)
Refused == view' = "refused" /\ UNCHANGED <<slot, pc, stop>>

Attentive(s) == joining = "no" /\ scene = s
Handles(s, e) == Attentive(s) /\ queue # <<>> /\ Head(queue) = e /\ queue' = Tail(queue)
BackIn(s) == Attentive(s) /\ pressed /\ pressed' = FALSE

(* app_thread_join_and_free, which does nothing for a worker that is not the    *)
(* caller's; then the GUI goes on to scene s and view v.                        *)
(* Variant: a scene that leaves without waiting for its worker.                 *)
JoinOfNone(tool, s, v) == scene' = s /\ view' = v /\ UNCHANGED joining
JoinThen(tool, s, v) ==
    IF owner = tool THEN joining' = s /\ view' = v /\ UNCHANGED scene
                    ELSE scene' = s /\ view' = v /\ UNCHANGED joining

Joined(tool) ==
    /\ joining # "no" /\ owner = tool /\ pc = "ended"
    /\ scene' = joining /\ joining' = "no"
    /\ owner' = "none" /\ pc' = "none"

(* A scene that was left with events unhandled: the menus handle none.          *)
MenuDrops ==
    /\ Attentive("menu")
    /\ \/ queue # <<>> /\ queue' = Tail(queue) /\ UNCHANGED pressed
       \/ pressed /\ pressed' = FALSE /\ UNCHANGED queue
    /\ UNCHANGED <<gui, back, slot, pc, stop>>

(* The user picks a tool once the menu has handled what was queued.             *)
Enters(tool) == Attentive("menu") /\ ~pressed /\ queue = <<>> /\ scene' = tool

WorkerIn(tool, at) == owner = tool /\ pc = at

-----------------------------------------------------------------------------
(* A worker runs only in the scene that started it, or while the GUI waits for  *)
(* it to end: no tool finds the buffers and the chip in use by another.         *)
WorkerInItsScene == owner # "none" => scene = owner

(* A worker that waits for room in the queue cannot be asked to stop.  The      *)
(* viewer has looked at its flag before it posts; no flag stops the ping worker.*)
PostsToFull ==
    /\ Len(queue) = QueueLength
    /\ owner = "ping" \/ (owner = "viewer" /\ pc \in {"text", "report"})

(* A GUI that waits for a worker is let go, whatever the user does, but for one *)
(* whose worker may itself wait for room in the queue that the waiting GUI does *)
(* not empty: that of the ping scene, which does not tell it to stop            *)
(* (PingScene.c:319-325), and that of the viewer, which is told after it has    *)
(* decided to post (ReadPcapsScene.c:216-238).                                  *)
GuiIsFreed == (joining # "no") ~> (joining = "no" \/ PostsToFull)
=============================================================================
