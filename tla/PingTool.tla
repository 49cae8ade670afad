------------------------------ MODULE PingTool ------------------------------
(* The ping scene and its worker (PingScene.c, ping_module.c).                  *)
EXTENDS Session

CONSTANT MaxPings       \* bound: the counters stop there

VARIABLES sent, responses       \* messages_sent, ping_responses

pingVars == <<sent, responses>>
PingInit == sent = 0 /\ responses = 0

(* ping_start                                                                   *)
StartPing ==
    \/ Claim("ping", "check") /\ view' = "running" /\ \E t \in Targets : Scan(t)
    \/ Refused /\ UNCHANGED netVars

EnterPing ==
    /\ Enters("ping")
    /\ StartPing
    /\ UNCHANGED <<joining, button, queue, pingVars>>

RetryPing ==
    /\ Attentive("ping") /\ view = "refused"
    /\ StartPing
    /\ UNCHANGED <<scene, joining, button, queue, pingVars>>

(* Device, link and DORA events are drawn; so are the counters.                 *)
PingEvent ==
    /\ \E e \in {"error", "loading", "counter"} : Handles("ping", e)
    /\ UNCHANGED <<gui, button, slot, pc, stop, netVars, pingVars>>

(* Not consumed: the scene manager goes back, and on_exit joins.                *)
PingBack ==
    /\ BackIn("ping")
    /\ JoinThen("ping", "menu", "menu")
    /\ UNCHANGED <<back, queue, slot, pc, stop, netVars, pingVars>>

PingJoined ==
    /\ Joined("ping")
    /\ sent' = 0 /\ responses' = 0 /\ Forgotten
    /\ UNCHANGED <<view, button, queue, stop, starts>>

-----------------------------------------------------------------------------
(* ping_thread                                                                  *)

PingCheck ==
    /\ WorkerIn("ping", "check")
    /\ \/ Post("error") /\ pc' = "ended"            \* no device, no link
       \/ Post("loading") /\ pc' \in {"dora", "resolve"}
    /\ UNCHANGED <<gui, button, slot, stop, netVars, pingVars>>

PingNeedsDora ==
    /\ WorkerIn("ping", "dora")
    /\ Post("error") /\ pc' = "ended"
    /\ UNCHANGED <<gui, button, slot, stop, netVars, pingVars>>

(* The request, after its handler is registered.                                *)
PingSend ==
    /\ WorkerIn("ping", "send") /\ ~Cancel
    /\ sent' = IF sent < MaxPings THEN sent + 1 ELSE sent
    /\ Post("counter")
    /\ Sends(Answers("echo", 0, 0))
    /\ pc' = "wait"
    /\ UNCHANGED <<gui, button, slot, stop, target, mac, tries, gatewayMac, responses>>

(* ping_reply_match: an echo reply of the target, to whichever request.         *)
PingReply ==
    /\ WorkerIn("ping", "wait")
    /\ \E f \in air : f.kind = "echo" /\ f.from = target
    /\ responses' = IF responses < MaxPings THEN responses + 1 ELSE responses
    /\ Post("counter")
    /\ pc' = "pace"
    /\ UNCHANGED <<gui, button, slot, stop, netVars, sent>>

PingWaits ==
    /\ \/ WorkerIn("ping", "wait") /\ pc' = "pace"
       \/ WorkerIn("ping", "pace") /\ pc' = "send"
    /\ UNCHANGED <<gui, button, queue, slot, stop, netVars, pingVars>>

(* The session stays cancelled: the loops end one after the other.              *)
PingCancel ==
    /\ \E at \in {"send", "wait", "pace"} : WorkerIn("ping", at)
    /\ Cancel /\ pc' = "ended"
    /\ UNCHANGED <<gui, button, queue, slot, stop, netVars, pingVars>>

PingResolve == Resolve("ping", "send", "ended") /\ UNCHANGED pingVars

PingGui == EnterPing \/ RetryPing \/ PingEvent \/ PingBack \/ PingJoined
PingWorker ==
    PingCheck \/ PingNeedsDora \/ PingResolve \/ PingSend \/ PingReply \/ PingWaits \/ PingCancel
=============================================================================
