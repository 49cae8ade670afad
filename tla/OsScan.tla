------------------------------- MODULE OsScan -------------------------------
(* The OS detector: its scene (OsDetector.c) and the probes of its worker       *)
(* (os_scan in os_detector_module.c).  It reads the chip itself, next to the    *)
(* receive dispatcher: any answer may go to the dispatcher, which drops it.     *)
(* How the answers are scored is left out.                                     *)
EXTENDS Session

CONSTANTS
    ProbePorts,     \* 11 ports in the code
    PacketCount,    \* rounds, 9 in the code
    MaxRetries,     \* 9 in the code
    ProbeEvery      \* retries between the other probes, 3 in the code

VARIABLES
    round,          \* attemp
    state,          \* of each port: "pending", "closed", "responded", "filtered"
    retries,        \* port_retries
    results,        \* port_results: "UNKNOWN", "OPEN", "CLOSED"
    published       \* app->ports with ports_count and src_port

osVars == <<round, state, retries, results>>
osVarsAll == <<osVars, published>>

AllPorts(v) == [p \in ProbePorts |-> v]
Nothing == [ports |-> <<>>, scan |-> 0, target |-> 0]
OsInit ==
    /\ round = 0 /\ state = AllPorts("pending") /\ retries = AllPorts(0)
    /\ results = AllPorts("UNKNOWN") /\ published = Nothing

-----------------------------------------------------------------------------
(* The scene.                                                                   *)

EnterOs ==
    /\ Enters("os") /\ view' = "menu"
    /\ UNCHANGED <<joining, button, queue, slot, pc, stop, netVars, osVarsAll>>

(* os_detector_start                                                            *)
StartOs ==
    /\ Attentive("os") /\ view \in {"menu", "refused"}
    /\ \/ Claim("os", "resolve") /\ view' = "loading" /\ \E t \in Targets : Scan(t)
       \/ Refused /\ UNCHANGED netVars
    /\ UNCHANGED <<scene, joining, button, queue, osVarsAll>>

(* OsDetectorEventFinished, of a worker the scene still owns.                   *)
OsFinished ==
    /\ Handles("os", "finished")
    /\ JoinThen("os", "os", IF owner # "os" THEN view ELSE IF stop THEN "menu" ELSE "results")
    /\ UNCHANGED <<button, slot, pc, stop, netVars, osVarsAll>>

(* BACK stops a scan, and its event then brings the menu back.                  *)
OsBack ==
    /\ BackIn("os")
    /\ \/ view = "loading" /\ owner = "os" /\ stop' = TRUE /\ UNCHANGED <<gui, target>>
       \/ /\ view \in {"results", "refused"}
          /\ view' = "menu" /\ target' = 0
          /\ UNCHANGED <<scene, joining, stop>>
       \/ view = "menu" /\ scene' = "menu" /\ UNCHANGED <<view, joining, stop, target>>
    /\ UNCHANGED <<back, queue, slot, pc, mac, tries, gatewayMac, air, osVarsAll>>

OsJoined ==
    /\ Joined("os")
    /\ round' = 0 /\ state' = AllPorts("pending") /\ retries' = AllPorts(0)
    /\ results' = AllPorts("UNKNOWN")
    /\ mac' = 0 /\ tries' = 0
    /\ target' = IF view = "results" THEN target ELSE 0
    /\ UNCHANGED <<view, button, queue, stop, starts, gatewayMac, air, published>>

-----------------------------------------------------------------------------
(* os_scan                                                                      *)

Pending(p) == state[p] = "pending"

(* A SYN to every port that has not answered; the sequence number of this one   *)
(* is kept, and only its answer is taken for complete.  Some may not arrive.    *)
OsSyn ==
    /\ WorkerIn("os", "syn") /\ ~Cancel /\ round < PacketCount
    /\ \E heard \in SUBSET {q \in ProbePorts : Pending(q)} :
          Sends(UNION {SynAnswers(p, round + 1) : p \in heard})
    /\ pc' = "listen"
    /\ UNCHANGED <<gui, button, queue, slot, stop, target, mac, tries, gatewayMac, osVarsAll>>

(* An RST of the target closes the port, to whatever probe it answers.          *)
OsRst(p) ==
    /\ WorkerIn("os", "listen")
    /\ \E f \in air : f.kind = "rst" /\ f.from = target /\ f.port = p
    /\ state' = [state EXCEPT ![p] = "closed"]
    /\ retries' = [retries EXCEPT ![p] = 0]
    /\ results' = [results EXCEPT ![p] = "CLOSED"]
    /\ UNCHANGED <<gui, button, queue, slot, pc, stop, netVars, round, published>>

(* A SYN-ACK to the source port of this scan opens the port; it is complete if  *)
(* it answers the kept sequence number and its header, sequence number and IP   *)
(* identification are not wrong or seen before.                                 *)
(* Variant: whatever port it is sent to.                                        *)
IsOursAny(f, p) == f.kind = "synack" /\ f.from = target /\ f.port = p
IsOurs(f, p) == f.kind = "synack" /\ f.from = target /\ f.port = p /\ f.scan = starts

OsSynAck(p) ==
    /\ WorkerIn("os", "listen")
    /\ \E f \in air :
          /\ IsOurs(f, p)
          /\ results' = [results EXCEPT ![p] = "OPEN"]
          /\ \/ /\ f.round = round + 1 /\ state[p] # "responded"
                /\ state' = [state EXCEPT ![p] = "responded"]
                /\ retries' = [retries EXCEPT ![p] = 0]
             \/ UNCHANGED <<state, retries>>
    /\ UNCHANGED <<gui, button, queue, slot, pc, stop, netVars, round, published>>

OsListened ==
    /\ WorkerIn("os", "listen") /\ ~Cancel
    /\ pc' = "retry"
    /\ UNCHANGED <<gui, button, queue, slot, stop, netVars, osVarsAll>>

(* A retry with another sequence number, and every other with the NULL, FIN,    *)
(* XMAS and ACK probes, of which a closed port resets all and an open one the   *)
(* last; then the next round, with the ports that were tried enough left out.   *)
OsRetry ==
    /\ WorkerIn("os", "retry") /\ ~Cancel
    /\ LET pending == {q \in ProbePorts : Pending(q)}
           tried(p) == IF p \in pending THEN retries[p] + 1 ELSE retries[p]
           other    == {p \in pending : tried(p) % ProbeEvery = 0}
       IN /\ retries' = [p \in ProbePorts |-> tried(p)]
          /\ Sends((UNION {SynAnswers(p, 0) : p \in pending})
                      \cup (UNION {Answers("rst", p, 0) : p \in other}))
          /\ round' = round + 1
          /\ IF pending = {}
                THEN pc' = "icmp" /\ UNCHANGED state
                ELSE /\ pc' = "syn"
                     /\ state' = [p \in ProbePorts |->
                                     IF tried(p) >= MaxRetries THEN "filtered" ELSE state[p]]
    /\ UNCHANGED <<gui, button, queue, slot, stop, target, mac, tries, gatewayMac,
                   results, published>>

OsRounds ==
    /\ WorkerIn("os", "syn") /\ ~Cancel /\ round = PacketCount
    /\ pc' = "icmp"
    /\ UNCHANGED <<gui, button, queue, slot, stop, netVars, osVarsAll>>

(* The hop was not found, or the scan was cancelled: no ports and no guess.     *)
OsGivesUp ==
    /\ \/ WorkerIn("os", "unresolved")
       \/ \E at \in {"syn", "listen", "retry", "icmp"} : WorkerIn("os", at) /\ Cancel
    /\ published' = [Nothing EXCEPT !.scan = starts, !.target = target]
    /\ pc' = "tell"
    /\ UNCHANGED <<gui, button, queue, slot, stop, netVars, osVars>>

(* os_icmp_probe, whose hop is in the cache of the session, and the scores; a   *)
(* cancel here only cuts the wait short.                                        *)
OsPublishes ==
    /\ WorkerIn("os", "icmp")
    /\ published' = [ports |-> results, scan |-> starts, target |-> target]
    /\ pc' = "tell"
    /\ UNCHANGED <<gui, button, queue, slot, stop, netVars, osVars>>

OsTells ==
    /\ WorkerIn("os", "tell")
    /\ Post("finished") /\ pc' = "ended"
    /\ UNCHANGED <<gui, button, slot, stop, netVars, osVarsAll>>

OsResolve == Resolve("os", "syn", "unresolved") /\ UNCHANGED osVarsAll

OsGui == EnterOs \/ StartOs \/ OsFinished \/ OsBack \/ OsJoined
OsWorker ==
    \/ OsResolve \/ OsSyn \/ OsListened \/ OsRetry \/ OsRounds
    \/ OsGivesUp \/ OsPublishes \/ OsTells
    \/ \E p \in ProbePorts : OsRst(p) \/ OsSynAck(p)

-----------------------------------------------------------------------------
(* The results on the screen are of the target they name: a port is shown open  *)
(* only if that target answered the SYN of this scan, closed only if it sent an *)
(* RST for it, and a scan that was stopped or found no hop shows none, whatever *)
(* an earlier scan left or still has in the air (os_detector_module.c:627-633,  *)
(* 714-790, 991-996; OsDetector.c:234-246).                                     *)
ShownIsThisScan ==
    joining = "no" /\ scene = "os" /\ view = "results" =>
        /\ published.target = target /\ published.scan = starts
        /\ \A p \in DOMAIN published.ports :
              /\ published.ports[p] = "OPEN" =>
                    \E f \in air : /\ f.kind = "synack" /\ f.from = target
                                   /\ f.port = p /\ f.scan = starts
              /\ published.ports[p] = "CLOSED" =>
                    \E f \in air : f.kind = "rst" /\ f.from = target /\ f.port = p
=============================================================================
