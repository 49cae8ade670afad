----------------------------- MODULE RxDispatch -----------------------------
(***************************************************************************)
(* The receive path of the Ethernet application: the queue of frames in    *)
(* the ENC28J60, its interrupt line, the dispatcher thread that drains the *)
(* queue (libraries/chip/rx_dispatch.c), the handler registry guarded by   *)
(* the dispatch mutex, the scanner waits that register a handler whose     *)
(* context lives on the stack of the waiting thread                        *)
(* (libraries/scanner/scanner_session.c), the threads that pause the       *)
(* dispatcher to read the chip themselves (scenes/GetIPScene.c), those     *)
(* that read it without a pause (modules/os_detector_module.c), and the    *)
(* GUI thread that starts and tears everything down (app_user.c).          *)
(*                                                                         *)
(* Atomicity: a step is one access to shared state, or a critical section  *)
(* of the dispatch mutex or of the chip mutex that contains no other       *)
(* blocking call.  Time is abstracted: a timed wait may end at any moment. *)
(***************************************************************************)
EXTENDS Integers, Sequences, FiniteSets

CONSTANTS
    AutoReplies,  \* handlers registered for the life of the application
    Waiters,      \* workers that call scanner_wait_for_packet
    Pausers,      \* workers that read the chip between pause and resume
    Readers,      \* workers that call receive_packet without a pause
    MaxWorkers,   \* workers alive at once (the application has one slot)
    MaxSlots,     \* RX_DISPATCH_MAX_HANDLERS
    Frame,        \* the frames the network may deliver
    BadFrame,     \* those the chip stores with the "received ok" bit clear
    Match,        \* Match[f]: the handlers whose predicate accepts frame f
    MaxQueue      \* frames that fit in the receive memory of the chip

Workers == Waiters \cup Pausers \cup Readers
Handlers == AutoReplies \cup Waiters
Slots == 1 .. MaxSlots

ASSUME ClientsDisjoint ==
    /\ AutoReplies \cap Workers = {}
    /\ Waiters \cap (Pausers \cup Readers) = {}
    /\ Pausers \cap Readers = {}
ASSUME PausersFinite == IsFiniteSet(Pausers)
ASSUME BoundsAreNat == MaxSlots \in Nat /\ MaxWorkers \in Nat /\ MaxQueue \in Nat
ASSUME FramesTyped == BadFrame \subseteq Frame /\ Match \in [Frame -> SUBSET Handlers]

(* app_alloc registers the auto-replies in an empty registry. *)
ASSUME AutoFits == IsFiniteSet(AutoReplies) /\ Cardinality(AutoReplies) <= MaxSlots

NoOne == "none"        \* an empty registry slot, no context, no frame
ASSUME NoOneIsFresh == NoOne \notin Handlers /\ NoOne \notin Frame

VARIABLES
    rxq,         \* frames stored in the chip and not yet read (EPKTCNT = Len)
    rxbuf,       \* contents of the shared buffer enc28j60_t.rx_buffer
    isr,         \* the GPIO interrupt callback is installed
    flag,        \* RX_FLAG_INT is pending for the dispatcher thread
    running,     \* g_dispatch.running
    pauseCount,  \* g_dispatch.pause_count
    acked,       \* g_dispatch.acked_pause
    mutex,       \* dispatch mutex: "null", "free" or "held" (by the dispatcher)
    slots,       \* g_dispatch.slots[i].ctx, NoOne when not in use
    handle,      \* the slot rx_register returned to each client, 0 for NULL
    dpc,         \* program counter of the dispatcher thread
    dframe,      \* history: the frame it took, NoOne once overwritten by others
    dslot,       \* its loop variable i over the slots
    dctx,        \* the context it passes to the handler it is calling
    wpc,         \* program counter of each worker
    sem,         \* the semaphore of each wait: "freed", 0 or 1 tokens
    matched,     \* scanner_wait_state_t.matched of each wait
    asked,       \* history: its request has left, and it has not unregistered yet
    offered,     \* history: a frame that matches was dispatched while it was asked
    gotAck,      \* pause() of this worker returned because it was acknowledged
    mpc          \* program counter of the GUI thread

chipVars == <<rxq, rxbuf>>
wakeVars == <<isr, flag>>
ctlVars == <<running, pauseCount, acked>>
regVars == <<mutex, slots, handle>>
dispVars == <<dpc, dframe, dslot, dctx>>
waitVars == <<sem, matched, asked, offered>>
workerVars == <<wpc, gotAck>>
vars == <<chipVars, wakeVars, ctlVars, regVars, dispVars, waitVars, workerVars, mpc>>

(* The dispatcher holds a frame in the shared buffer at these points. *)
Dispatching == {"lock", "slot", "handler"}
(* It holds the dispatch mutex at these. *)
Locked == {"slot", "handler"}
(* It is idle, or about to find out that it must be, at these. *)
DispIdle == {"off", "loop", "wait", "woke", "check", "ack", "exit"}

WaitPc == {"register", "trigger", "wait", "unregister", "free"}
PausePc == {"kick", "await", "own", "resume"}

TypeOK ==
    /\ rxq \in Seq(Frame) /\ rxbuf \in Frame \cup {NoOne}
    /\ isr \in BOOLEAN /\ flag \in BOOLEAN
    /\ running \in BOOLEAN /\ pauseCount \in Nat /\ acked \in BOOLEAN
    /\ mutex \in {"null", "free", "held"}
    /\ slots \in [Slots -> Handlers \cup {NoOne}]
    /\ handle \in [Handlers -> Slots \cup {0}]
    /\ dpc \in {"off", "loop", "wait", "woke", "check", "ack", "unack", "drain",
                "recv", "lock", "slot", "handler", "exit"}
    /\ dframe \in Frame \cup {NoOne}
    /\ dslot \in 1 .. (MaxSlots + 1)
    /\ dctx \in Handlers \cup {NoOne}
    /\ wpc \in [Workers -> {"idle", "pause", "kick", "await", "own",
                            "resume", "read"} \cup WaitPc]
    /\ sem \in [Waiters -> {"freed", "empty", "token"}]
    /\ matched \in [Waiters -> BOOLEAN]
    /\ asked \in [Waiters -> BOOLEAN] /\ offered \in [Waiters -> BOOLEAN]
    /\ gotAck \in [Pausers -> BOOLEAN]
    /\ mpc \in {"boot", "isr", "setup", "run", "join", "unreg", "stop", "kick",
                "reap", "freed"}

(* app_alloc has started the chip, which may already be storing frames, and *)
(* is about to call rx_dispatch_init.                                       *)
Init ==
    /\ rxq = <<>> /\ rxbuf = NoOne
    /\ isr = FALSE /\ flag = FALSE
    /\ running = FALSE /\ pauseCount = 0 /\ acked = FALSE
    /\ mutex = "null" /\ slots = [i \in Slots |-> NoOne]
    /\ handle = [h \in Handlers |-> 0]
    /\ dpc = "off" /\ dframe = NoOne /\ dslot = 1 /\ dctx = NoOne
    /\ wpc = [t \in Workers |-> "idle"]
    /\ sem = [w \in Waiters |-> "freed"]
    /\ matched = [w \in Waiters |-> FALSE]
    /\ asked = [w \in Waiters |-> FALSE] /\ offered = [w \in Waiters |-> FALSE]
    /\ gotAck = [p \in Pausers |-> FALSE]
    /\ mpc = "boot"

-----------------------------------------------------------------------------
(* The chip.  It pulls INT low while frames are stored, so storing a frame  *)
(* makes a falling edge only when none was stored before.                   *)

FrameArrives(f) ==
    /\ Len(rxq) < MaxQueue
    /\ rxq' = Append(rxq, f)
    /\ flag' = (flag \/ (isr /\ rxq = <<>>))
    /\ UNCHANGED <<rxbuf, isr, ctlVars, regVars, dispVars, waitVars, workerVars, mpc>>

(* receive_packet, one critical section of the chip mutex: the oldest frame *)
(* leaves the chip; a bad one is counted out without reaching the buffer.   *)
ReceivePacket ==
    /\ rxq # <<>>
    /\ rxq' = Tail(rxq)
    /\ rxbuf' = IF Head(rxq) \in BadFrame THEN rxbuf ELSE Head(rxq)

-----------------------------------------------------------------------------
(* The dispatcher thread, rx_dispatch_thread_fn.                            *)

DGoto(l) == dpc' = l /\ UNCHANGED <<dframe, dslot, dctx>>

DLoop ==           \* while(d->running)
    /\ dpc = "loop"
    /\ DGoto(IF running THEN "wait" ELSE "exit")
    /\ UNCHANGED <<chipVars, wakeVars, ctlVars, regVars, waitVars, workerVars, mpc>>

DWake ==           \* flags_wait returns because the flag is set, and clears it
    /\ dpc = "wait" /\ flag
    /\ flag' = FALSE
    /\ DGoto("woke")
    /\ UNCHANGED <<chipVars, isr, ctlVars, regVars, waitVars, workerVars, mpc>>

(* Variant: the dispatcher sleeps until the flag is set, however long.       *)
DFallbackNever == FALSE /\ UNCHANGED vars

DFallback ==       \* flags_wait returns because RX_POLL_FALLBACK_MS elapsed
    /\ dpc = "wait" /\ ~flag
    /\ DGoto("woke")
    /\ UNCHANGED <<chipVars, wakeVars, ctlVars, regVars, waitVars, workerVars, mpc>>

DWoke ==           \* if(!d->running) break
    /\ dpc = "woke"
    /\ DGoto(IF running THEN "check" ELSE "exit")
    /\ UNCHANGED <<chipVars, wakeVars, ctlVars, regVars, waitVars, workerVars, mpc>>

DCheckPause ==     \* if(d->pause_count > 0)
    /\ dpc = "check"
    /\ DGoto(IF pauseCount > 0 THEN "ack" ELSE "unack")
    /\ UNCHANGED <<chipVars, wakeVars, ctlVars, regVars, waitVars, workerVars, mpc>>

DAck ==            \* d->acked_pause = true; continue
    /\ dpc = "ack"
    /\ acked' = TRUE
    /\ DGoto("loop")
    /\ UNCHANGED <<chipVars, wakeVars, running, pauseCount, regVars, waitVars, workerVars, mpc>>

DUnack ==          \* d->acked_pause = false
    /\ dpc = "unack"
    /\ acked' = FALSE
    /\ DGoto("drain")
    /\ UNCHANGED <<chipVars, wakeVars, running, pauseCount, regVars, waitVars, workerVars, mpc>>

(* Variant: the drain loop does not look at d->running.                      *)
DDrainUntilEmpty ==
    /\ dpc = "drain"
    /\ DGoto(IF pauseCount = 0 THEN "recv" ELSE "loop")
    /\ UNCHANGED <<chipVars, wakeVars, ctlVars, regVars, waitVars, workerVars, mpc>>

DDrain ==          \* while(d->running) { if(d->pause_count > 0) break;
    /\ dpc = "drain"
    /\ DGoto(IF running /\ pauseCount = 0 THEN "recv" ELSE "loop")
    /\ UNCHANGED <<chipVars, wakeVars, ctlVars, regVars, waitVars, workerVars, mpc>>

DReceive ==        \* len = receive_packet(eth, rx, MAX_FRAMELEN); if(len == 0) break
    /\ dpc = "recv"
    /\ IF rxq = <<>>
       THEN DGoto("loop") /\ UNCHANGED chipVars
       ELSE /\ ReceivePacket
            /\ IF Head(rxq) \in BadFrame
               THEN DGoto("loop")
               ELSE dpc' = "lock" /\ dframe' = Head(rxq) /\ UNCHANGED <<dslot, dctx>>
    /\ UNCHANGED <<wakeVars, ctlVars, regVars, waitVars, workerVars, mpc>>

DLock ==           \* furi_mutex_acquire(d->mutex, FuriWaitForever)
    /\ dpc = "lock" /\ mutex = "free"
    /\ mutex' = "held"
    /\ dpc' = "slot" /\ dslot' = 1
    /\ UNCHANGED <<chipVars, wakeVars, ctlVars, slots, handle, dframe, dctx, waitVars, workerVars, mpc>>

(* wait_predicate stops accepting frames once the wait is matched. *)
Accepts(h) == h \in Match[rxbuf] /\ (h \in Waiters => ~matched[h])

DPredicate ==      \* the body of the loop over the slots, up to the handler
    /\ dpc = "slot" /\ dslot <= MaxSlots
    /\ IF slots[dslot] # NoOne /\ Accepts(slots[dslot])
       THEN dpc' = "handler" /\ dctx' = slots[dslot] /\ UNCHANGED dslot
       ELSE dslot' = dslot + 1 /\ UNCHANGED <<dpc, dctx>>
    /\ UNCHANGED <<chipVars, wakeVars, ctlVars, regVars, dframe, waitVars, workerVars, mpc>>

DHandler ==        \* wait_signal_handler, or an auto-reply that only sends
    /\ dpc = "handler"
    /\ IF dctx \in Waiters /\ ~matched[dctx]
       THEN /\ matched' = [matched EXCEPT ![dctx] = TRUE]
            /\ sem' = [sem EXCEPT ![dctx] = "token"]
       ELSE UNCHANGED <<matched, sem>>
    /\ dpc' = "slot" /\ dslot' = dslot + 1 /\ dctx' = NoOne
    /\ UNCHANGED <<chipVars, wakeVars, ctlVars, regVars, dframe, asked, offered, workerVars, mpc>>

DUnlock ==         \* furi_mutex_release(d->mutex), back to the drain loop
    /\ dpc = "slot" /\ dslot = MaxSlots + 1
    /\ mutex' = "free"
    /\ offered' = [w \in Waiters |-> \/ offered[w]
                                     \/ asked[w] /\ dframe # NoOne /\ w \in Match[dframe]]
    /\ dpc' = "drain" /\ dframe' = NoOne /\ dslot' = 1 /\ UNCHANGED dctx
    /\ UNCHANGED <<chipVars, wakeVars, ctlVars, slots, handle, sem, matched, asked, workerVars, mpc>>

Dispatcher ==
    \/ DLoop \/ DWake \/ DFallback \/ DWoke \/ DCheckPause \/ DAck \/ DUnack
    \/ DDrain \/ DReceive \/ DLock \/ DPredicate \/ DHandler \/ DUnlock

-----------------------------------------------------------------------------
(* Workers.  A scene starts one on the GUI thread, while the app runs.      *)

WGoto(t, l) == wpc' = [wpc EXCEPT ![t] = l] /\ UNCHANGED gotAck

CanStart(t) ==
    /\ wpc[t] = "idle" /\ mpc = "run"
    /\ Cardinality({u \in Workers : wpc[u] # "idle"}) < MaxWorkers

(* scanner_wait_for_packet: the memory guard or the semaphore allocation     *)
(* may fail, and then nothing happens; otherwise the context is initialised. *)
WBegin(w) ==
    /\ CanStart(w)
    /\ sem' = [sem EXCEPT ![w] = "empty"]
    /\ matched' = [matched EXCEPT ![w] = FALSE]
    /\ asked' = [asked EXCEPT ![w] = FALSE]
    /\ offered' = [offered EXCEPT ![w] = FALSE]
    /\ WGoto(w, "register")
    /\ UNCHANGED <<chipVars, wakeVars, ctlVars, regVars, dispVars, mpc>>

(* rx_register, one critical section of the dispatch mutex: h takes the     *)
(* first free slot and gets it back as its handle, or NULL if there is none. *)
(* Variant: rx_register does not look at in_use.                             *)
AnySlot == Slots
FreeSlots == {i \in Slots : slots[i] = NoOne}
Register(h) ==
    /\ mutex = "free"
    /\ \/ /\ FreeSlots = {}
          /\ handle' = [handle EXCEPT ![h] = 0]
          /\ UNCHANGED slots
       \/ \E i \in FreeSlots :
             /\ \A j \in FreeSlots : i <= j
             /\ slots' = [slots EXCEPT ![i] = h]
             /\ handle' = [handle EXCEPT ![h] = i]

(* rx_unregister: nothing for a NULL handle, else the slot is cleared.      *)
Unregister(h) ==
    /\ handle[h] # 0 => mutex = "free"
    /\ slots' = [i \in Slots |-> IF i = handle[h] THEN NoOne ELSE slots[i]]

WRegister(w) ==
    /\ wpc[w] = "register"
    /\ Register(w)
    /\ WGoto(w, IF handle'[w] = 0 THEN "free" ELSE "trigger")
    /\ UNCHANGED <<chipVars, wakeVars, ctlVars, mutex, dispVars, waitVars, mpc>>

WTrigger(w) ==     \* trigger_fn(trigger_ctx): the request leaves
    /\ wpc[w] = "trigger"
    /\ asked' = [asked EXCEPT ![w] = TRUE]
    /\ WGoto(w, "wait")
    /\ UNCHANGED <<chipVars, wakeVars, ctlVars, regVars, dispVars, sem, matched, offered, mpc>>

WGot(w) ==         \* furi_semaphore_acquire succeeds
    /\ wpc[w] = "wait" /\ sem[w] = "token"
    /\ sem' = [sem EXCEPT ![w] = "empty"]
    /\ WGoto(w, "unregister")
    /\ UNCHANGED <<chipVars, wakeVars, ctlVars, regVars, dispVars, matched, asked, offered, mpc>>

(* Variant: a wait without a timeout.                                        *)
WGiveUpNever(w) == FALSE /\ UNCHANGED vars

WGiveUp(w) ==      \* timeout_ms elapsed, or scanner_cancel_requested
    /\ wpc[w] = "wait"
    /\ WGoto(w, "unregister")
    /\ UNCHANGED <<chipVars, wakeVars, ctlVars, regVars, dispVars, waitVars, mpc>>

(* Variant: the slot is cleared without the dispatch mutex.                  *)
WUnregisterUnlocked(w) ==
    /\ wpc[w] = "unregister"
    /\ slots' = [i \in Slots |-> IF i = handle[w] THEN NoOne ELSE slots[i]]
    /\ asked' = [asked EXCEPT ![w] = FALSE]
    /\ WGoto(w, "free")
    /\ UNCHANGED <<chipVars, wakeVars, ctlVars, mutex, handle, dispVars, sem, matched, offered,
                   mpc>>

WUnregister(w) ==
    /\ wpc[w] = "unregister"
    /\ Unregister(w)
    /\ asked' = [asked EXCEPT ![w] = FALSE]
    /\ WGoto(w, "free")
    /\ UNCHANGED <<chipVars, wakeVars, ctlVars, mutex, handle, dispVars, sem, matched, offered,
                   mpc>>

WFree(w) ==        \* furi_semaphore_free, and the stack frame is gone
    /\ wpc[w] = "free"
    /\ sem' = [sem EXCEPT ![w] = "freed"]
    /\ WGoto(w, "idle")
    /\ UNCHANGED <<chipVars, wakeVars, ctlVars, regVars, dispVars, matched, asked, offered, mpc>>

(* Variant: the request leaves before the handler is registered.             *)
WTriggerFirst(w) ==
    /\ wpc[w] = "register" /\ ~asked[w]
    /\ asked' = [asked EXCEPT ![w] = TRUE]
    /\ UNCHANGED <<chipVars, wakeVars, ctlVars, regVars, dispVars, sem, matched, offered,
                   workerVars, mpc>>
WRegisterLate(w) ==
    /\ wpc[w] = "register" /\ asked[w]
    /\ Register(w)
    /\ WGoto(w, IF handle'[w] = 0 THEN "free" ELSE "wait")
    /\ UNCHANGED <<chipVars, wakeVars, ctlVars, mutex, dispVars, waitVars, mpc>>
WaiterTriggersFirst(w) ==
    WTriggerFirst(w) \/ WRegisterLate(w) \/ WGot(w) \/ WGiveUp(w) \/ WUnregister(w) \/ WFree(w)

Waiter(w) ==
    \/ WRegister(w) \/ WTrigger(w) \/ WGot(w) \/ WGiveUp(w) \/ WUnregister(w) \/ WFree(w)

(* rx_dispatch_pause, the reads under the pause, rx_dispatch_resume.        *)

(* Variant: an acknowledgement of an earlier pause is not taken back.        *)
PPauseKeepsAck(p) ==
    /\ wpc[p] = "pause" /\ mutex = "free"
    /\ pauseCount' = pauseCount + 1
    /\ WGoto(p, "kick")
    /\ UNCHANGED <<chipVars, wakeVars, running, acked, regVars, dispVars, waitVars, mpc>>

PPause(p) ==       \* pause_count++, acked_pause = false under the mutex
    /\ wpc[p] = "pause" /\ mutex = "free"
    /\ pauseCount' = pauseCount + 1
    /\ acked' = FALSE
    /\ WGoto(p, "kick")
    /\ UNCHANGED <<chipVars, wakeVars, running, regVars, dispVars, waitVars, mpc>>

PBegin(p) ==
    /\ CanStart(p)
    /\ WGoto(p, "pause")
    /\ UNCHANGED <<chipVars, wakeVars, ctlVars, regVars, dispVars, waitVars, mpc>>

PKick(p) ==        \* furi_thread_flags_set(g_dispatch.thread_id, RX_FLAG_INT)
    /\ wpc[p] = "kick"
    /\ flag' = TRUE
    /\ WGoto(p, "await")
    /\ UNCHANGED <<chipVars, isr, ctlVars, regVars, dispVars, waitVars, mpc>>

PReturn(p) ==      \* the ack loop ends, acknowledged or after 20 polls
    /\ wpc[p] = "await"
    /\ wpc' = [wpc EXCEPT ![p] = "own"]
    /\ gotAck' = [gotAck EXCEPT ![p] = acked]
    /\ UNCHANGED <<chipVars, wakeVars, ctlVars, regVars, dispVars, waitVars, mpc>>

(* receive_packet into the shared buffer, by a thread other than the        *)
(* dispatcher: the frame the dispatcher may be showing to handlers is lost.  *)
ReceiveDirect ==
    /\ ReceivePacket
    /\ dframe' = IF rxbuf' = dframe THEN dframe ELSE NoOne
    /\ UNCHANGED <<wakeVars, ctlVars, regVars, dpc, dslot, dctx, waitVars, workerVars, mpc>>

PReceive(p) ==
    /\ wpc[p] = "own"
    /\ ReceiveDirect

PResume(p) ==      \* if(pause_count > 0) pause_count-- under the mutex
    /\ wpc[p] = "own" /\ mutex = "free"
    /\ pauseCount' = IF pauseCount > 0 THEN pauseCount - 1 ELSE 0
    /\ wpc' = [wpc EXCEPT ![p] = "resume"]
    /\ gotAck' = [gotAck EXCEPT ![p] = FALSE]
    /\ UNCHANGED <<chipVars, wakeVars, running, acked, regVars, dispVars, waitVars, mpc>>

PResumeKick(p) ==
    /\ wpc[p] = "resume"
    /\ flag' = TRUE
    /\ WGoto(p, "idle")
    /\ UNCHANGED <<chipVars, isr, ctlVars, regVars, dispVars, waitVars, mpc>>

Pauser(p) == PPause(p) \/ PKick(p) \/ PReturn(p) \/ PResume(p) \/ PResumeKick(p)

(* os_scan polls receive_packet for its replies and never pauses.           *)
RBegin(r) ==
    /\ CanStart(r)
    /\ WGoto(r, "read")
    /\ UNCHANGED <<chipVars, wakeVars, ctlVars, regVars, dispVars, waitVars, mpc>>

RReceive(r) ==
    /\ wpc[r] = "read"
    /\ ReceiveDirect

REnd(r) ==
    /\ wpc[r] = "read"
    /\ WGoto(r, "idle")
    /\ UNCHANGED <<chipVars, wakeVars, ctlVars, regVars, dispVars, waitVars, mpc>>

-----------------------------------------------------------------------------
(* The GUI thread: app_alloc and app_free.                                  *)

MInit ==           \* rx_dispatch_init up to furi_thread_start
    /\ mpc = "boot"
    /\ mutex' = "free" /\ running' = TRUE
    /\ dpc' = "loop" /\ UNCHANGED <<dframe, dslot, dctx>>
    /\ mpc' = "isr"
    /\ UNCHANGED <<chipVars, wakeVars, pauseCount, acked, slots, handle, waitVars, workerVars>>

MInstallIsr ==     \* furi_hal_gpio_add_int_callback
    /\ mpc = "isr"
    /\ isr' = TRUE
    /\ mpc' = "setup"
    /\ UNCHANGED <<chipVars, flag, ctlVars, regVars, dispVars, waitVars, workerVars>>

Registered == {slots[i] : i \in Slots}

MRegister(a) ==    \* rx_register(auto_..._predicate, auto_..._handler, app)
    /\ mpc = "setup" /\ a \notin Registered
    /\ Register(a)
    /\ UNCHANGED <<chipVars, wakeVars, ctlVars, mutex, dispVars, waitVars, workerVars, mpc>>

MRun ==            \* app_main enters view_dispatcher_run
    /\ mpc = "setup" /\ AutoReplies \subseteq Registered
    /\ mpc' = "run"
    /\ UNCHANGED <<chipVars, wakeVars, ctlVars, regVars, dispVars, waitVars, workerVars>>

MShutdown ==       \* app_thread_shutdown asks the worker to stop
    /\ mpc = "run"
    /\ mpc' = "join"
    /\ UNCHANGED <<chipVars, wakeVars, ctlVars, regVars, dispVars, waitVars, workerVars>>

MJoin ==           \* app_thread_join_and_free
    /\ mpc = "join" /\ \A t \in Workers : wpc[t] = "idle"
    /\ mpc' = "unreg"
    /\ UNCHANGED <<chipVars, wakeVars, ctlVars, regVars, dispVars, waitVars, workerVars>>

MUnregister(a) ==  \* rx_unregister(app->auto_..._handle)
    /\ mpc = "unreg" /\ a \in Registered
    /\ Unregister(a)
    /\ UNCHANGED <<chipVars, wakeVars, ctlVars, mutex, handle, dispVars, waitVars, workerVars, mpc>>

MRemoveIsr ==      \* rx_dispatch_deinit: furi_hal_gpio_remove_int_callback
    /\ mpc = "unreg" /\ AutoReplies \cap Registered = {}
    /\ isr' = FALSE
    /\ mpc' = "stop"
    /\ UNCHANGED <<chipVars, flag, ctlVars, regVars, dispVars, waitVars, workerVars>>

MStop ==           \* g_dispatch.running = false
    /\ mpc = "stop"
    /\ running' = FALSE
    /\ mpc' = "kick"
    /\ UNCHANGED <<chipVars, wakeVars, pauseCount, acked, regVars, dispVars, waitVars, workerVars>>

MKick ==           \* furi_thread_flags_set(g_dispatch.thread_id, RX_FLAG_INT)
    /\ mpc = "kick"
    /\ flag' = TRUE
    /\ mpc' = "reap"
    /\ UNCHANGED <<chipVars, isr, ctlVars, regVars, dispVars, waitVars, workerVars>>

MReap ==           \* join the dispatcher, free the mutex, then the App
    /\ mpc = "reap" /\ dpc = "exit"
    /\ mutex' = "null"
    /\ mpc' = "freed"
    /\ UNCHANGED <<chipVars, wakeVars, ctlVars, slots, handle, dispVars, waitVars, workerVars>>

Teardown == MJoin \/ (\E a \in AutoReplies : MUnregister(a)) \/ MRemoveIsr \/ MStop \/ MKick \/ MReap
Startup == MInit \/ MInstallIsr \/ (\E a \in AutoReplies : MRegister(a)) \/ MRun

Terminated == mpc = "freed" /\ UNCHANGED vars

Next ==
    \/ \E f \in Frame : FrameArrives(f)
    \/ Dispatcher
    \/ \E w \in Waiters : WBegin(w) \/ Waiter(w)
    \/ \E p \in Pausers : PBegin(p) \/ Pauser(p) \/ PReceive(p)
    \/ \E r \in Readers : RBegin(r) \/ RReceive(r) \/ REnd(r)
    \/ Startup \/ MShutdown \/ Teardown
    \/ Terminated

Spec == Init /\ [][Next]_vars

(* Every thread is scheduled; a thread that waits for the dispatch mutex     *)
(* gets it if it is released again and again.  Starting a feature, quitting  *)
(* and the traffic are up to the environment.                                *)
Fairness ==
    /\ WF_vars(Dispatcher)
    /\ \A w \in Waiters : SF_vars(Waiter(w))
    /\ \A p \in Pausers : SF_vars(Pauser(p))
    /\ \A r \in Readers : WF_vars(REnd(r))
    /\ SF_vars(Startup) /\ SF_vars(Teardown)

FairSpec == Spec /\ Fairness

-----------------------------------------------------------------------------
(* Properties.                                                               *)

(* No context is used after its owner is gone: whatever the registry holds   *)
(* and whatever the dispatcher is calling belongs to a wait that has not     *)
(* freed its semaphore, or to an App that is not freed.  This is what        *)
(* holding the mutex through predicate and handler is for (rx_dispatch.c,    *)
(* F0.5d).                                                                   *)
Alive(h) == IF h \in Waiters THEN sem[h] # "freed" ELSE mpc # "freed"
CtxAlive ==
    /\ \A i \in Slots : slots[i] # NoOne => Alive(slots[i])
    /\ dctx # NoOne => Alive(dctx)

(* The registry holds exactly the waits between rx_register and              *)
(* rx_unregister, each in the one slot its handle names: no unregister       *)
(* clears the slot of another client, and none is left behind.               *)
RegistryExact ==
    \A w \in Waiters : \A i \in Slots :
        slots[i] = w <=> (wpc[w] \in {"trigger", "wait", "unregister"} /\ i = handle[w])

(* The strengthening under which the two properties above are inductive.     *)
(* The dispatcher owns the mutex exactly while it looks at slots; the handler *)
(* it calls is that of its current slot; a wait in the registry has a slot   *)
(* and a semaphore; the auto-replies are gone before the dispatcher is; and  *)
(* the dispatcher does not run before rx_dispatch_init starts it.            *)
LockInv == mutex = "held" <=> dpc \in Locked
CallInv ==
    /\ dpc = "handler" => dslot \in Slots /\ dctx = slots[dslot] /\ dctx # NoOne
    /\ dpc # "handler" => dctx = NoOne
HandleInv ==
    /\ \A w \in Waiters :
          wpc[w] \in {"trigger", "wait", "unregister"} => handle[w] \in Slots
    /\ \A a \in AutoReplies : \A i \in Slots : slots[i] = a => i = handle[a]
SemInv == \A w \in Waiters : wpc[w] \in WaitPc => sem[w] # "freed"
AutoInv ==
    \A i \in Slots : slots[i] \in AutoReplies => mpc \in {"setup", "run", "join", "unreg"}
BootInv == mpc = "boot" => dpc = "off"
RegistryInv ==
    TypeOK /\ LockInv /\ CallInv /\ RegistryExact /\ HandleInv /\ SemInv /\ AutoInv /\ BootInv

(* A pause that returned because it was acknowledged keeps the dispatcher    *)
(* away from the chip and from the shared buffer until it is resumed, also   *)
(* when pauses of several threads overlap.                                   *)
AckedPauseExcludes ==
    \A p \in Pausers : wpc[p] = "own" /\ gotAck[p] => dpc \in DispIdle

(* Its strengthening: pause_count is the number of threads between pause and *)
(* resume, so it is never decremented for somebody else, and an              *)
(* acknowledgement that stands while somebody pauses was given by a          *)
(* dispatcher that has not left its idle points since.                       *)
PauseOwners == {p \in Pausers : wpc[p] \in {"kick", "await", "own"}}
PauseInv ==
    /\ pauseCount = Cardinality(PauseOwners)
    /\ acked /\ pauseCount > 0 => dpc \in DispIdle
    /\ AckedPauseExcludes

(* From the moment its request leaves until it has unregistered, a wait      *)
(* misses no frame that answers it and that goes through the dispatcher: it  *)
(* has registered before it asks (F0.5d), and no handler or wait that took   *)
(* the frame earlier in the loop keeps it from the later ones.  A frame that *)
(* a thread reading the chip by itself has overwritten in the buffer is lost *)
(* (scanner_session.c:234-259, rx_dispatch.c:89-113).                        *)
ReplyNotMissed == \A w \in Waiters : offered[w] => matched[w]

(* A frame stored in the chip does not stay there for ever: either the queue *)
(* is empty again and again, or frames are taken again and again, as long as *)
(* the application runs and threads do not go on pausing the dispatcher.     *)
QueueServed ==
    \/ []<>(rxq = <<>> \/ mpc # "run" \/ pauseCount > 0)
    \/ []<><<Len(rxq') < Len(rxq)>>_rxq

(* Every scanner wait returns, whatever the traffic does.                    *)
WaitReturns == \A w \in Waiters : wpc[w] = "wait" ~> wpc[w] = "idle"

(* Leaving the application always completes: the worker, the dispatcher and  *)
(* the GUI thread never wait for each other in a circle.                     *)
ShutdownCompletes == mpc = "join" ~> mpc = "freed"

=============================================================================
