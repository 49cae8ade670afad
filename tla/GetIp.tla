------------------------------- MODULE GetIp --------------------------------
(* Acquiring an address: the Get IP scene on the GUI thread (GetIPScene.c),    *)
(* the DORA exchange on its worker (dhcp_protocol.c), the worker slot they     *)
(* share (app_user.c), and the DHCP servers of the network.                    *)
(*                                                                             *)
(* The network may lose, delay, duplicate and reorder: once the message that   *)
(* causes it was sent, a server's answer may be received at any time and any   *)
(* number of times, also in a later attempt.  Servers are honest: they offer   *)
(* to who discovered and acknowledge what was requested from them.  An address *)
(* is represented by the lease it came with.                                   *)
EXTENDS Naturals, Sequences

CONSTANTS
    Servers,        \* DHCP servers
    MaxAttempts,    \* bound: attempts, each with a random transaction id of its own
    Timeout,        \* the 10 s of dhcp_protocol.c:256, in ticks
    Saved,          \* the network tuple loaded from the settings
    None            \* no server, no lease

ASSUME GetIpAssumption ==
    /\ MaxAttempts \in Nat \ {0}
    /\ Timeout \in Nat
    /\ None \notin Servers
    /\ Saved \notin Servers

VARIABLES
    sent,           \* what the servers were sent: discovers and requests
    scene,          \* "menu" or "getip"
    shown,          \* what the scene draws
    gui,            \* "idle", or what a blocking join of the worker is for
    events,         \* custom events on their way to the current scene
    owned,          \* the worker slot holds the DORA thread
    cancel,         \* app->dora_cancel
    tpc,            \* the step of the DORA thread
    dora,           \* its state_dora_t
    ret,            \* the exchange has succeeded
    elapsed,        \* ticks since current_time
    xid,            \* transaction id of the last attempt
    offer,          \* server of the last offer: ip_client, ip_server, MAC_DESTINATION
    ack,            \* the lease last acknowledged: myip, gateway, subnet_mask
    broadcast,      \* the chip accepts broadcast frames
    wasBroadcast,   \* broadcast_was_enabled
    paused,         \* rx_dispatch_pause calls not yet resumed
    tuple           \* the network tuple of the application, and its two flags

guiVars == <<scene, shown, gui, events, owned, cancel>>
doraVars == <<tpc, dora, ret, elapsed, xid, offer, ack, wasBroadcast>>
chipVars == <<broadcast, paused>>
vars == <<sent, guiVars, doraVars, chipVars, tuple>>

Attempts == 1..MaxAttempts
Leases == [server : Servers, xid : Attempts]

Discover(x) == [type |-> "discover", xid |-> x]
Request(x, s) == [type |-> "request", xid |-> x, server |-> s]
Messages == {Discover(x) : x \in Attempts} \cup {Request(x, s) : x \in Attempts, s \in Servers}

(* The answers a server may have sent so far.                                  *)
Offered(s, x) == Discover(x) \in sent
Acknowledged(l) == Request(l.xid, l.server) \in sent

Sources == Leases \cup {Saved}

TypeOK ==
    /\ sent \subseteq Messages
    /\ scene \in {"menu", "getip"}
    /\ shown \in {"nothing", "waiting", "got", "failed", "absent"}
    /\ gui \in {"idle", "got", "failed", "leave"}
    /\ events \in Seq({"wait", "got", "failed"})
    /\ owned \in BOOLEAN /\ cancel \in BOOLEAN
    /\ tpc \in {"none", "begin", "pause", "prepare", "loop", "restore", "copy", "resume",
                "flags", "static", "announce", "done"}
    /\ dora \in {"INIT", "REQUEST", "WAITING"}
    /\ ret \in BOOLEAN
    /\ elapsed \in 0..(Timeout + 1)
    /\ xid \in 0..MaxAttempts
    /\ offer \in Servers \cup {None}
    /\ ack \in Leases \cup {None}
    /\ broadcast \in BOOLEAN /\ wasBroadcast \in BOOLEAN
    /\ paused \in 0..1
    /\ tuple.ip \in Sources /\ tuple.gateway \in Sources /\ tuple.mask \in Sources
    /\ tuple.mac \in Servers \cup {Saved}
    /\ tuple.isDora \in BOOLEAN /\ tuple.isStatic \in BOOLEAN
    /\ owned <=> tpc # "none"

Init ==
    /\ sent = {}
    /\ scene = "menu" /\ shown = "nothing" /\ gui = "idle" /\ events = <<>>
    /\ owned = FALSE /\ cancel = FALSE
    /\ tpc = "none" /\ dora = "INIT" /\ ret = FALSE /\ elapsed = 0 /\ xid = 0
    /\ offer = None /\ ack = None
    /\ broadcast \in BOOLEAN /\ wasBroadcast = FALSE
    /\ paused = 0
    /\ \E dr, st \in BOOLEAN :   \* settings of version 1 hold no gateway and no is_dora
          /\ dr => st
          /\ tuple = [ip |-> Saved, gateway |-> Saved, mask |-> Saved, mac |-> Saved,
                      isDora |-> dr, isStatic |-> st]

-----------------------------------------------------------------------------
(* The GUI thread.                                                             *)

(* get_ip_start: with a chip that answers, a thread in the free worker slot.   *)
Enter ==
    /\ gui = "idle" /\ scene = "menu"
    /\ scene' = "getip"
    /\ \/ /\ xid < MaxAttempts
          /\ ~owned
          /\ owned' = TRUE
          /\ cancel' = FALSE
          /\ tpc' = "begin"
          /\ shown' = "nothing"
       \/ shown' = "absent" /\ UNCHANGED <<owned, cancel, tpc>>
    /\ UNCHANGED <<sent, gui, events, dora, ret, elapsed, xid, offer, ack, wasBroadcast,
                   chipVars, tuple>>

(* on_event.  The other scenes drop these events.  A result joins the worker   *)
(* before it is drawn.                                                         *)
HandleEvent ==
    /\ gui = "idle" /\ events # <<>>
    /\ events' = Tail(events)
    /\ \/ scene = "menu" /\ UNCHANGED <<gui, shown>>
       \/ /\ scene = "getip" /\ Head(events) = "wait"
          /\ shown' = "waiting"
          /\ UNCHANGED gui
       \/ /\ scene = "getip" /\ Head(events) # "wait"
          /\ gui' = Head(events)
          /\ UNCHANGED shown
    /\ UNCHANGED <<sent, scene, owned, cancel, doraVars, chipVars, tuple>>

(* BACK: on_exit asks a running worker to stop, and joins it.                  *)
Back ==
    /\ gui = "idle" /\ scene = "getip"
    /\ gui' = "leave"
    /\ cancel' = (owned \/ cancel)
    /\ UNCHANGED <<sent, scene, shown, events, owned, doraVars, chipVars, tuple>>

(* app_thread_join_and_free returns once the thread has, or at once when the   *)
(* slot is not this feature's.                                                 *)
Joined ==
    /\ gui # "idle"
    /\ owned => tpc = "done"
    /\ owned' = FALSE
    /\ tpc' = "none"
    /\ gui' = "idle"
    /\ IF gui = "leave" THEN scene' = "menu" /\ shown' = "nothing"
       ELSE shown' = gui /\ UNCHANGED scene
    /\ UNCHANGED <<sent, events, cancel, dora, ret, elapsed, xid, offer, ack, wasBroadcast,
                   chipVars, tuple>>

-----------------------------------------------------------------------------
(* The DORA thread.                                                            *)

Announce(e) == events' = Append(events, e)

ThreadBegin ==
    /\ tpc = "begin"
    /\ Announce("wait")
    /\ tpc' = "pause"
    /\ UNCHANGED <<sent, scene, shown, gui, owned, cancel, dora, ret, elapsed, xid, offer, ack,
                   wasBroadcast, chipVars, tuple>>

ThreadPause ==
    /\ tpc = "pause"
    /\ paused' = paused + 1
    /\ tpc' = "prepare"
    /\ UNCHANGED <<sent, guiVars, dora, ret, elapsed, xid, offer, ack, wasBroadcast, broadcast,
                   tuple>>

Prepare ==
    /\ tpc = "prepare"
    /\ xid' = xid + 1
    /\ dora' = "INIT" /\ ret' = FALSE /\ elapsed' = 0
    /\ wasBroadcast' = broadcast
    /\ broadcast' = TRUE
    /\ tpc' = "loop"
    /\ UNCHANGED <<sent, guiVars, offer, ack, paused, tuple>>

(* The tests at the top of the loop (variant: without the one of dora_cancel). *)
KeepsTryingUncancelled == tpc = "loop" /\ ~ret /\ elapsed <= Timeout
KeepsTrying == tpc = "loop" /\ ~ret /\ ~cancel /\ elapsed <= Timeout

SendDiscover ==
    /\ KeepsTrying /\ dora = "INIT"
    /\ sent' = sent \cup {Discover(xid)}
    /\ elapsed' = 0
    /\ dora' = "WAITING"
    /\ UNCHANGED <<guiVars, tpc, ret, xid, offer, ack, wasBroadcast, chipVars, tuple>>

SendRequest ==
    /\ KeepsTrying /\ dora = "REQUEST"
    /\ sent' = sent \cup {Request(xid, offer)}
    /\ elapsed' = 0
    /\ dora' = "WAITING"
    /\ UNCHANGED <<guiVars, tpc, ret, xid, offer, ack, wasBroadcast, chipVars, tuple>>

(* deconstruct_dhcp_offer takes an offer of this transaction, whichever server *)
(* was asked before.                                                           *)
ReceiveOffer(s, x) ==
    /\ KeepsTrying /\ dora = "WAITING"
    /\ Offered(s, x) /\ x = xid
    /\ offer' = s
    /\ dora' = "REQUEST"
    /\ elapsed' = 0
    /\ UNCHANGED <<sent, guiVars, tpc, ret, xid, ack, wasBroadcast, chipVars, tuple>>

(* deconstruct_dhcp_ack checks the transaction, not the server or the address  *)
(* (variant: not even the transaction).                                        *)
TakesAckOfAnyAttempt(l) == TRUE
TakesAck(l) == l.xid = xid

ReceiveAck(l) ==
    /\ KeepsTrying /\ dora = "WAITING"
    /\ Acknowledged(l) /\ TakesAck(l)
    /\ ack' = l
    /\ tuple' = [tuple EXCEPT !.mask = l, !.mac = offer]
    /\ ret' = TRUE
    /\ elapsed' = 0
    /\ UNCHANGED <<sent, guiVars, tpc, dora, xid, offer, wasBroadcast, chipVars>>

(* Nothing, or a frame that is neither: the loop goes round.                   *)
Tick ==
    /\ tpc = "loop" /\ elapsed <= Timeout
    /\ elapsed' = elapsed + 1
    /\ UNCHANGED <<sent, guiVars, tpc, dora, ret, xid, offer, ack, wasBroadcast, chipVars, tuple>>

(* The loop ends on success, cancel, timeout or when the link goes down.       *)
LoopExit ==
    /\ tpc = "loop"
    /\ tpc' = "restore"
    /\ UNCHANGED <<sent, guiVars, dora, ret, elapsed, xid, offer, ack, wasBroadcast, chipVars,
                   tuple>>

MustExit == ~KeepsTrying /\ LoopExit

(* Variant: the filter is put back after a success only.                       *)
RestoreOnSuccess ==
    /\ tpc = "restore"
    /\ broadcast' = IF ret THEN wasBroadcast ELSE broadcast
    /\ tpc' = "copy"
    /\ UNCHANGED <<sent, guiVars, dora, ret, elapsed, xid, offer, ack, wasBroadcast, paused,
                   tuple>>

Restore ==
    /\ tpc = "restore"
    /\ broadcast' = wasBroadcast
    /\ tpc' = "copy"
    /\ UNCHANGED <<sent, guiVars, dora, ret, elapsed, xid, offer, ack, wasBroadcast, paused,
                   tuple>>

(* Variant: a cancelled exchange does not copy what it acquired.               *)
CopiesUnlessCancelled == ret /\ ~cancel
Copies == ret

CopyTuple ==
    /\ tpc = "copy"
    /\ tuple' = IF Copies THEN [tuple EXCEPT !.ip = ack, !.gateway = ack] ELSE tuple
    /\ tpc' = "resume"
    /\ UNCHANGED <<sent, guiVars, dora, ret, elapsed, xid, offer, ack, wasBroadcast, chipVars>>

ThreadResume ==
    /\ tpc = "resume"
    /\ paused' = paused - 1
    /\ tpc' = "flags"
    /\ UNCHANGED <<sent, guiVars, dora, ret, elapsed, xid, offer, ack, wasBroadcast, broadcast,
                   tuple>>

(* A cancelled worker stops here: no flag, no event.                           *)
SetDora ==
    /\ tpc = "flags"
    /\ IF cancel THEN tpc' = "done" /\ UNCHANGED tuple
       ELSE IF ret THEN tpc' = "static" /\ tuple' = [tuple EXCEPT !.isDora = TRUE]
       ELSE tpc' = "announce" /\ UNCHANGED tuple
    /\ UNCHANGED <<sent, guiVars, dora, ret, elapsed, xid, offer, ack, wasBroadcast, chipVars>>

SetStatic ==
    /\ tpc = "static"
    /\ tuple' = [tuple EXCEPT !.isStatic = TRUE]
    /\ tpc' = "announce"
    /\ UNCHANGED <<sent, guiVars, dora, ret, elapsed, xid, offer, ack, wasBroadcast, chipVars>>

ThreadAnnounce ==
    /\ tpc = "announce"
    /\ Announce(IF ret THEN "got" ELSE "failed")
    /\ tpc' = "done"
    /\ UNCHANGED <<sent, scene, shown, gui, owned, cancel, dora, ret, elapsed, xid, offer, ack,
                   wasBroadcast, chipVars, tuple>>

-----------------------------------------------------------------------------
Gui == Enter \/ HandleEvent \/ Back \/ Joined

Receive ==
    \/ \E s \in Servers, x \in Attempts : ReceiveOffer(s, x)
    \/ \E l \in Leases : ReceiveAck(l)

Thread ==
    \/ ThreadBegin \/ ThreadPause \/ Prepare
    \/ SendDiscover \/ SendRequest \/ Receive
    \/ LoopExit \/ Restore \/ CopyTuple \/ ThreadResume
    \/ SetDora \/ SetStatic \/ ThreadAnnounce

Next == Gui \/ Thread \/ Tick

(* The worker is scheduled and its clock runs; the loop's own exits are fair,  *)
(* a link that goes down is not.  The GUI thread leaves a join that may end.   *)
ThreadRuns ==
    \/ ThreadBegin \/ ThreadPause \/ Prepare
    \/ SendDiscover \/ SendRequest \/ MustExit
    \/ Restore \/ CopyTuple \/ ThreadResume \/ SetDora \/ SetStatic \/ ThreadAnnounce

FairSpec ==
    /\ Init /\ [][Next]_vars
    /\ WF_vars(ThreadRuns)
    /\ WF_vars(Tick)
    /\ WF_vars(Joined)

-----------------------------------------------------------------------------
(* Properties.                                                                 *)

(* What a worker reports as acquired is one lease, whole, acknowledged to a     *)
(* request of its own attempt: never an answer to an earlier attempt, however  *)
(* late it arrives (dhcp_protocol.c:95-99, 293-308, 330-334, GetIPScene.c:35).  *)
ReportedLease ==
    tpc \in {"static", "announce"} /\ ret =>
        /\ Request(xid, ack.server) \in sent /\ ack.xid = xid
        /\ tuple.ip = ack /\ tuple.gateway = ack /\ tuple.mask = ack
        /\ tuple.isDora

(* Wherever BACK cut the last attempt, the application is left with an address, *)
(* a gateway and a mask of the same lease, and no tool that needs a lease is    *)
(* enabled while the address it uses is not answered for                       *)
(* (dhcp_protocol.c:302, 330-334, GetIPScene.c:33-38, settings.c:98-102).       *)
NetworkStateWhole ==
    ~owned => /\ tuple.ip = tuple.gateway /\ tuple.gateway = tuple.mask
              /\ tuple.isDora => tuple.isStatic

(* However an attempt ends, its worker leaves the chip accepting broadcast     *)
(* frames as before, and the dispatcher running (dhcp_protocol.c:239-240,      *)
(* 324-328, GetIPScene.c:23-31).                                               *)
ChipRestored ==
    tpc \in {"flags", "static", "announce", "done"} =>
        broadcast = wasBroadcast /\ paused = 0

(* BACK leaves the scene, even while servers answer without end                *)
(* (GetIPScene.c:128-134, dhcp_protocol.c:244-247).                            *)
BackReturns == gui = "leave" ~> gui = "idle"
=============================================================================
