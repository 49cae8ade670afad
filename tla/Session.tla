------------------------------ MODULE Session -------------------------------
(* The scanner session of the tools that send to a target: the MAC of the next  *)
(* hop is resolved with ARP, and then frames of the target are awaited.         *)
(* A host answers, or not; its answers stay in the air, so that each may be     *)
(* late, lost or repeated.  A MAC is named by the host it belongs to.           *)
EXTENDS WorkerSlot

CONSTANTS
    Ip, BlockSize,  \* own address, and the addresses its mask leaves together
    Gateway,
    Targets,        \* hosts a user scans
    Bystander,      \* another host that may answer
    Open,           \* for each host, the ports it listens on
    MaxTries        \* bound: 10 in the code

Hosts == Targets \cup {Gateway, Bystander}

ASSUME SessionAssumption ==
    /\ Hosts \subseteq Nat /\ Ip \in Nat /\ BlockSize \in Nat \ {0}
    /\ Open \in [Hosts -> SUBSET Nat]

VARIABLES
    target,         \* scan_params: the host of this scan
    mac, tries,     \* mac_out, and the ARP requests sent for it
    gatewayMac,     \* app->mac_gateway
    air             \* answers: [kind, from, port, scan, round]

netVars == <<target, mac, tries, gatewayMac, air>>
Scan(t) == target' = t /\ mac' = 0 /\ tries' = 0 /\ UNCHANGED <<gatewayMac, air>>
Forgotten == target' = 0 /\ mac' = 0 /\ tries' = 0 /\ UNCHANGED <<gatewayMac, air>>

(* A tool that awaits no answer outlasts those of earlier tools.                *)
Quiet == air' = {} /\ UNCHANGED <<target, mac, tries, gatewayMac>>

NetInit == target = 0 /\ mac = 0 /\ tries = 0 /\ gatewayMac = Gateway /\ air = {}

(* same_subnet                                                                  *)
SameSubnet(a, b) == a \div BlockSize = b \div BlockSize

NextHop(t) == IF SameSubnet(t, Ip) THEN t ELSE Gateway

(* The network: a frame to m for the host t.                                    *)
Heard(m, t) == m = IF SameSubnet(t, Ip) THEN t ELSE Gateway

Answer(kind, h, port, round) ==
    [kind |-> kind, from |-> h, port |-> port, scan |-> starts, round |-> round]

(* What the target may answer to a frame sent now.                              *)
Answers(kind, port, round) ==
    IF Heard(mac, target) THEN {Answer(kind, target, port, round)} ELSE {}

(* The answer to a SYN.                                                         *)
SynAnswers(port, round) ==
    Answers(IF port \in Open[target] THEN "synack" ELSE "rst", port, round)

Sends(answers) == air' = air \cup answers

(* scanner_cancel_requested: BACK is down, or the tool's stop flag is set.      *)
Cancel == back \/ stop

-----------------------------------------------------------------------------
(* scanner_resolve_next_hop, for a worker that goes to one of two labels.       *)

Ask(tool) ==
    /\ WorkerIn(tool, "resolve") /\ ~Cancel /\ tries < MaxTries
    /\ tries' = tries + 1
    /\ Sends({Answer("arp", NextHop(target), 0, 0), Answer("arp", Bystander, 0, 0)})
    /\ pc' = "arp"
    /\ UNCHANGED <<gui, button, queue, slot, stop, target, mac, gatewayMac>>

(* arp_reply_match_predicate compares the address of the sender.                *)
(* Variant: any ARP reply is the answer.                                        *)
MatchesAny(f, hop) == f.kind = "arp"
Matches(f, hop) == f.kind = "arp" /\ f.from = hop

ArpArrives(tool, next) ==
    /\ WorkerIn(tool, "arp")
    /\ \E f \in air :
          /\ Matches(f, NextHop(target))
          /\ mac' = f.from
          /\ gatewayMac' = IF NextHop(target) = Gateway THEN f.from ELSE gatewayMac
    /\ pc' = next /\ tries' = 0
    /\ UNCHANGED <<gui, button, queue, slot, stop, target, air>>

ArpTimeout(tool) ==
    /\ WorkerIn(tool, "arp") /\ pc' = "resolve"
    /\ UNCHANGED <<gui, button, queue, slot, stop, netVars>>

ResolveFails(tool, fails) ==
    /\ WorkerIn(tool, "resolve") /\ (Cancel \/ tries = MaxTries)
    /\ pc' = fails /\ tries' = 0
    /\ UNCHANGED <<gui, button, queue, slot, stop, target, mac, gatewayMac, air>>

Resolve(tool, next, fails) ==
    Ask(tool) \/ ArpArrives(tool, next) \/ ArpTimeout(tool) \/ ResolveFails(tool, fails)

-----------------------------------------------------------------------------
(* What a tool has resolved is the MAC its frames must carry to be heard, and   *)
(* the gateway's MAC is never another host's, whoever answers ARP and however   *)
(* late (scanner_session.c:57-154).                                             *)
MacIsNextHops == mac # 0 => Heard(mac, target) /\ gatewayMac = Gateway
=============================================================================
