----------------------------- MODULE Tools_proofs -----------------------------
(* Machine-checked proofs about Tools, for any hosts, ports and captures, any  *)
(* length of the event queue and any number of starts.                         *)
EXTENDS Tools, SequenceTheorems, WellFoundedInduction, TLAPS

(* A scene is only left with its worker joined, and the OS detector handles its*)
(* buttons by what it shows, which is "loading" as long as it has a worker.    *)
SlotInv ==
    /\ WorkerInItsScene
    /\ owner \in {"none", "ping", "ports", "os", "spoof", "sniffer", "viewer"}
    /\ owner = "os" /\ joining = "no" => view = "loading"

USE DEF Attentive, Handles, BackIn, Enters, JoinThen, Joined, Claim, Refused, WorkerIn, Post,
        gui, button, slot

(* No tool runs at the start.                                                  *)
LEMMA SlotStart == Init => SlotInv
BY DEF Init, SlotInit, SlotInv, WorkerInItsScene

(* No step breaks the use of the one worker slot.                              *)
LEMMA SlotStep == SlotInv /\ [Next]_vars => SlotInv'
<1> SUFFICES ASSUME SlotInv, [Next]_vars PROVE SlotInv'
  OBVIOUS
<1> USE DEF SlotInv, WorkerInItsScene
<1>1. CASE Button
  BY <1>1 DEF Button, Press, Release, MenuDrops
<1>2. CASE PingGui
  BY <1>2 DEF PingGui, EnterPing, RetryPing, StartPing, PingEvent, PingBack, PingJoined
<1>3. CASE PortsGui
  BY <1>3 DEF PortsGui, EnterPorts, StartPorts, PortsBack, PortsJoined
<1>4. CASE OsGui
  BY <1>4 DEF OsGui, EnterOs, StartOs, OsFinished, OsBack, OsJoined
<1>5. CASE SpoofGui
  BY <1>5 DEF SpoofGui, EnterSpoof, RetrySpoof, StartSpoof, SpoofEvent, SpoofBack, SpoofJoined
<1>6. CASE SnifferGui
  BY <1>6 DEF SnifferGui, EnterSniffer, RetrySniffer, StartSniffer, OpenCapture, SnifferBack,
              SnifferEvent, SnifferJoined
<1>7. CASE ViewerGui
  BY <1>7 DEF ViewerGui, EnterViewer, RetryViewer, StartViewer, ViewerEvent, ViewerBack,
              ViewerJoined
<1>8. CASE Worker
  <2>1. UNCHANGED <<gui, slot>>
    BY <1>8 DEF Worker, PingWorker, PingCheck, PingNeedsDora, PingResolve, PingSend, PingReply,
                PingWaits, PingCancel, PortsWorker, PortsResolve, PortsProbe, PortsSynAck,
                PortsTimeout, PortsEnd, OsWorker, OsResolve, OsSyn, OsListened, OsRetry, OsRounds,
                OsGivesUp, OsPublishes, OsTells, OsRst, OsSynAck,
                Resolve, Ask, ArpArrives, ArpTimeout, ResolveFails,
                SpoofWorker, SpoofCheck, SpoofToggle, SpoofEnds, SnifferWorker, SnifferCheck,
                SnifferCreate, SnifferRegister, SnifferUndo, SnifferReports, SnifferStops,
                SnifferUnregister, SnifferFilterOff, FilterOff, SnifferClose,
                SnifferTells, Tells, ViewerWorker, ViewerOpen, ViewerShow, ViewerText,
                ViewerKey, ViewerCloses,
              ViewerFails, ViewerReports, Tells
  <2> QED BY <2>1
<1>9. CASE Capture
  BY <1>9 DEF Capture
<1>10. CASE UNCHANGED vars
  BY <1>10 DEF vars, slotVars
<1> QED BY <1>1, <1>2, <1>3, <1>4, <1>5, <1>6, <1>7, <1>8, <1>9, <1>10 DEF Next, Gui

(* A tool acts only while the slot is its own or empty.                        *)
LEMMA Turns ==
    ASSUME SlotInv
    PROVE  /\ PingGui \/ PingWorker => owner \in {"none", "ping"} /\ owner' \in {"none", "ping"}
           /\ PortsGui \/ PortsWorker => owner \in {"none", "ports"} /\ owner' \in {"none", "ports"}
           /\ OsGui \/ OsWorker => owner \in {"none", "os"} /\ owner' \in {"none", "os"}
           /\ SpoofGui \/ SpoofWorker => owner \in {"none", "spoof"} /\ owner' \in {"none", "spoof"}
           /\ SnifferGui \/ SnifferWorker =>
                  owner \in {"none", "sniffer"} /\ owner' \in {"none", "sniffer"}
           /\ ViewerGui \/ ViewerWorker =>
                  owner \in {"none", "viewer"} /\ owner' \in {"none", "viewer"}
<1> USE DEF SlotInv, WorkerInItsScene
<1>1. ASSUME PingGui PROVE owner \in {"none", "ping"} /\ owner' \in {"none", "ping"}
  BY <1>1 DEF PingGui, EnterPing, RetryPing, StartPing, PingEvent, PingBack, PingJoined
<1>2. ASSUME PortsGui PROVE owner \in {"none", "ports"} /\ owner' \in {"none", "ports"}
  BY <1>2 DEF PortsGui, EnterPorts, StartPorts, PortsBack, PortsJoined
<1>3. ASSUME OsGui PROVE owner \in {"none", "os"} /\ owner' \in {"none", "os"}
  BY <1>3 DEF OsGui, EnterOs, StartOs, OsFinished, OsBack, OsJoined
<1>4. ASSUME SpoofGui PROVE owner \in {"none", "spoof"} /\ owner' \in {"none", "spoof"}
  BY <1>4 DEF SpoofGui, EnterSpoof, RetrySpoof, StartSpoof, SpoofEvent, SpoofBack, SpoofJoined
<1>5. ASSUME SnifferGui PROVE owner \in {"none", "sniffer"} /\ owner' \in {"none", "sniffer"}
  BY <1>5 DEF SnifferGui, EnterSniffer, RetrySniffer, StartSniffer, OpenCapture, SnifferBack,
              SnifferEvent, SnifferJoined
<1>6. ASSUME ViewerGui PROVE owner \in {"none", "viewer"} /\ owner' \in {"none", "viewer"}
  BY <1>6 DEF ViewerGui, EnterViewer, RetryViewer, StartViewer, ViewerEvent, ViewerBack,
              ViewerJoined
<1>7. PingWorker => owner = "ping" /\ owner' = owner
  BY DEF PingWorker, PingCheck, PingNeedsDora, PingResolve, PingSend, PingReply, PingWaits,
         PingCancel, Resolve, Ask, ArpArrives, ArpTimeout, ResolveFails
<1>8. PortsWorker => owner = "ports" /\ owner' = owner
  BY DEF PortsWorker, PortsResolve, PortsProbe, PortsSynAck, PortsTimeout, PortsEnd,
         Resolve, Ask, ArpArrives, ArpTimeout, ResolveFails
<1>9. OsWorker => owner = "os" /\ owner' = owner
  BY DEF OsWorker, OsResolve, OsSyn, OsListened, OsRetry, OsRounds, OsGivesUp, OsPublishes,
         OsTells, OsRst, OsSynAck, Resolve, Ask, ArpArrives, ArpTimeout, ResolveFails
<1>10. SpoofWorker => owner = "spoof" /\ owner' = owner
  BY DEF SpoofWorker, SpoofCheck, SpoofToggle, SpoofEnds
<1>11. SnifferWorker => owner = "sniffer" /\ owner' = owner
  BY DEF SnifferWorker, SnifferCheck, SnifferCreate, SnifferRegister, SnifferUndo,
            SnifferReports, SnifferStops,
         SnifferUnregister, SnifferFilterOff, FilterOff, SnifferClose, SnifferTells, Tells
<1>12. ViewerWorker => owner = "viewer" /\ owner' = owner
  BY DEF ViewerWorker, ViewerOpen, ViewerShow, ViewerText, ViewerKey, ViewerCloses,
              ViewerFails, ViewerReports, Tells
<1> QED
  BY <1>1, <1>2, <1>3, <1>4, <1>5, <1>6, <1>7, <1>8, <1>9, <1>10, <1>11, <1>12

-----------------------------------------------------------------------------
(* What a tool has resolved is forgotten when its worker ends.                 *)
NetInv ==
    /\ gatewayMac = Gateway
    /\ mac # 0 => owner \in {"ping", "ports", "os"} /\ mac = NextHop(target)

(* No step mixes up the addresses the tools work with.                         *)
LEMMA NetStep == SlotInv /\ NetInv /\ [Next]_vars => NetInv'
<1> SUFFICES ASSUME SlotInv, NetInv, [Next]_vars PROVE NetInv'
  OBVIOUS
<1> USE DEF NetInv, Scan, Forgotten, Quiet, netVars
<1>1. CASE Button \/ Capture
  BY <1>1 DEF Button, Press, Release, MenuDrops, Capture
<1>2. CASE PingGui
  BY <1>2 DEF SlotInv, WorkerInItsScene, PingGui, EnterPing, RetryPing, StartPing, PingEvent, PingBack, PingJoined
<1>3. CASE PortsGui
  BY <1>3 DEF SlotInv, WorkerInItsScene, PortsGui, EnterPorts, StartPorts, PortsBack, PortsJoined
<1>4. CASE OsGui
  BY <1>4 DEF SlotInv, WorkerInItsScene, OsGui, EnterOs, StartOs, OsFinished, OsBack, OsJoined
<1>5. CASE SpoofGui \/ SpoofWorker
  BY <1>5, Turns DEF SpoofGui, EnterSpoof, RetrySpoof, StartSpoof, SpoofEvent, SpoofBack,
              SpoofJoined, SpoofWorker, SpoofCheck, SpoofToggle, SpoofEnds
<1>6. CASE SnifferGui \/ SnifferWorker
  BY <1>6, Turns DEF SnifferGui, EnterSniffer, RetrySniffer, StartSniffer, OpenCapture,
            SnifferBack,
              SnifferEvent, SnifferJoined, SnifferWorker, SnifferCheck, SnifferCreate,
              SnifferRegister, SnifferUndo, SnifferReports, SnifferStops, SnifferUnregister,
              SnifferFilterOff, FilterOff, SnifferClose, SnifferTells, Tells
<1>7. CASE ViewerGui \/ ViewerWorker
  BY <1>7, Turns DEF ViewerGui, EnterViewer, RetryViewer, StartViewer, ViewerEvent, ViewerBack,
              ViewerJoined, ViewerWorker, ViewerOpen, ViewerShow, ViewerText, ViewerKey, ViewerCloses,
              ViewerFails, ViewerReports, Tells
<1>8. ASSUME NEW tool \in {"ping", "ports", "os"}, NEW next, NEW fails, Resolve(tool, next, fails)
      PROVE  NetInv'
  BY <1>8 DEF Resolve, Ask, ArpArrives, ArpTimeout, ResolveFails, Matches, NextHop
<1>9. CASE PingWorker
  BY <1>8, <1>9 DEF PingWorker, PingCheck, PingNeedsDora, PingResolve, PingSend, PingReply,
                    PingWaits, PingCancel, NextHop
<1>10. CASE PortsWorker
  BY <1>8, <1>10 DEF PortsWorker, PortsResolve, PortsProbe, PortsSynAck, PortsTimeout, PortsEnd,
                     NextHop
<1>11. CASE OsWorker
  BY <1>8, <1>11 DEF OsWorker, OsResolve, OsSyn, OsListened, OsRetry, OsRounds, OsGivesUp,
                     OsPublishes, OsTells, OsRst, OsSynAck, NextHop
<1>12. CASE UNCHANGED vars
  BY <1>12 DEF vars, slotVars, NextHop
<1> QED
  BY <1>1, <1>2, <1>3, <1>4, <1>5, <1>6, <1>7, <1>9, <1>10, <1>11, <1>12 DEF Next, Gui, Worker

-----------------------------------------------------------------------------
(* The answers in the air are those of the network.                            *)
ListedInv ==
    /\ label \in Nat /\ listed \in Seq(Nat)
    /\ owner # "ports" => listed = <<>>
    /\ owner = "ports" =>
          /\ label \in FirstPort..(FirstPort + PortRange)
          /\ pc = "syn" => label # FirstPort + PortRange
    /\ \A i \in 1..Len(listed) : listed[i] \in FirstPort..(label - 1)
    /\ \A f \in air : f.kind = "synack" => f.port \in Open[f.from]
    /\ ListedIsOpen

(* A SYN-ACK comes from an open port, and the port scanner loses no answer.    *)
LEMMA AirStep ==
    ASSUME \A f \in air : f.kind = "synack" => f.port \in Open[f.from],
           SlotInv, [Next]_vars
    PROVE  /\ \A f \in air' : f.kind = "synack" => f.port \in Open[f.from]
           /\ owner = "ports" => air \subseteq air'
<1> USE DEF Scan, Forgotten, Quiet, netVars
<1>1. CASE Button \/ Capture
  BY <1>1 DEF Button, Press, Release, MenuDrops, Capture
<1>2. CASE PingGui \/ PortsGui \/ OsGui
  BY <1>2 DEF PingGui, EnterPing, RetryPing, StartPing, PingEvent, PingBack, PingJoined,
              PortsGui, EnterPorts, StartPorts, PortsBack, PortsJoined,
              OsGui, EnterOs, StartOs, OsFinished, OsBack, OsJoined
<1>5. CASE SpoofGui \/ SpoofWorker
  BY <1>5, Turns DEF SpoofGui, EnterSpoof, RetrySpoof, StartSpoof, SpoofEvent, SpoofBack,
              SpoofJoined, SpoofWorker, SpoofCheck, SpoofToggle, SpoofEnds
<1>6. CASE SnifferGui \/ SnifferWorker
  BY <1>6, Turns DEF SnifferGui, EnterSniffer, RetrySniffer, StartSniffer, OpenCapture,
            SnifferBack,
              SnifferEvent, SnifferJoined, SnifferWorker, SnifferCheck, SnifferCreate,
              SnifferRegister, SnifferUndo, SnifferReports, SnifferStops, SnifferUnregister,
              SnifferFilterOff, FilterOff, SnifferClose, SnifferTells, Tells
<1>7. CASE ViewerGui \/ ViewerWorker
  BY <1>7, Turns DEF ViewerGui, EnterViewer, RetryViewer, StartViewer, ViewerEvent, ViewerBack,
              ViewerJoined, ViewerWorker, ViewerOpen, ViewerShow, ViewerText, ViewerKey, ViewerCloses,
              ViewerFails, ViewerReports, Tells
<1>8. ASSUME NEW tool, NEW next, NEW fails, Resolve(tool, next, fails)
      PROVE  /\ \A f \in air' : f.kind = "synack" => f.port \in Open[f.from]
             /\ air \subseteq air'
  BY <1>8 DEF Resolve, Ask, ArpArrives, ArpTimeout, ResolveFails, Sends, Answer
<1>a. \A port, number : \A f \in SynAnswers(port, number) :
          f.kind = "synack" => f.port \in Open[f.from]
  BY DEF SynAnswers, Answers, Answer
<1>b. \A kind, port, number : \A f \in Answers(kind, port, number) : f.kind = kind
  BY DEF Answers, Answer
<1>9. CASE PingWorker
  BY <1>8, <1>b, <1>9 DEF PingWorker, PingCheck, PingNeedsDora, PingResolve, PingSend, PingReply,
                          PingWaits, PingCancel, Sends
<1>10. CASE PortsWorker
  BY <1>8, <1>a, <1>10 DEF PortsWorker, PortsResolve, PortsProbe, PortsSynAck, PortsTimeout,
                           PortsEnd, Sends
<1>11. CASE OsWorker
  <2>1. CASE OsSyn
    BY <2>1, <1>a DEF OsSyn, Sends
  <2>2. CASE OsRetry
    <3> DEFINE pending == {q \in ProbePorts : Pending(q)}
               tried(p) == IF p \in pending THEN retries[p] + 1 ELSE retries[p]
               other == {p \in pending : tried(p) % ProbeEvery = 0}
    <3>1. air' = air \cup ((UNION {SynAnswers(p, 0) : p \in pending})
                              \cup (UNION {Answers("rst", p, 0) : p \in other}))
      BY <2>2, Zenon DEF OsRetry, Sends
    <3> HIDE DEF pending, other
    <3> QED BY <3>1, <1>a, <1>b
  <2> QED
    BY <1>8, <1>11, <2>1, <2>2 DEF OsWorker, OsResolve, OsListened, OsRounds, OsGivesUp,
                     OsPublishes, OsTells, OsRst, OsSynAck
<1>12. CASE UNCHANGED vars
  BY <1>12 DEF vars
<1> QED
  BY <1>1, <1>2, <1>5, <1>6, <1>7, <1>9, <1>10, <1>11, <1>12 DEF Next, Gui, Worker

(* No step lists a port that is not open.                                      *)
LEMMA ListedStep == SlotInv /\ ListedInv /\ [Next]_vars => ListedInv'
<1> SUFFICES ASSUME SlotInv, ListedInv, [Next]_vars PROVE ListedInv'
  OBVIOUS
<1>a. \A f \in air' : f.kind = "synack" => f.port \in Open[f.from]
  BY AirStep DEF ListedInv
<1>b. owner = "ports" => air \subseteq air'
  BY AirStep DEF ListedInv
<1>1. CASE /\ label' = label /\ listed' = listed
           /\ owner' = "ports" <=> owner = "ports"
           /\ owner' = "ports" /\ pc' = "syn" => pc = "syn"
  <2>1. \A i \in 1..Len(listed) : \E f \in air' : 
           f.kind = "synack" /\ f.port = listed[i] % PortSpace /\ f.port \in Open[f.from]
    <3>1. CASE owner = "ports"
      BY <1>b, <3>1 DEF ListedInv, ListedIsOpen
    <3>2. CASE owner # "ports"
      BY <3>2 DEF ListedInv
    <3> QED BY <3>1, <3>2
  <2>2. ListedIsOpen'
    BY <1>1, <2>1 DEF ListedInv, ListedIsOpen
  <2>3. \A i \in 1..Len(listed') : listed'[i] \in FirstPort..(label' - 1)
    BY <1>1 DEF ListedInv
  <2>4. /\ owner' # "ports" => listed' = <<>>
        /\ owner' = "ports" =>
              /\ label' \in FirstPort..(FirstPort + PortRange)
              /\ pc' = "syn" => label' # FirstPort + PortRange
    BY <1>1 DEF ListedInv
  <2> QED BY <1>1, <1>a, <2>2, <2>3, <2>4 DEF ListedInv
<1>2. CASE EnterPorts \/ PortsBack \/ PortsEnd
  BY <1>1, <1>2 DEF EnterPorts, PortsBack, PortsEnd, portVars
<1>3. CASE PortsResolve
  BY <1>1, <1>3 DEF PortsResolve, portVars, Resolve, Ask, ArpArrives, ArpTimeout, ResolveFails
<1>4. CASE StartPorts
  <2>1. CASE Refused /\ UNCHANGED <<netVars, label>>
    BY <1>1, <1>4, <2>1 DEF StartPorts
  <2>2. CASE Claim("ports", "resolve")
    BY <1>4, <2>2, <1>a, PortAssumption DEF StartPorts, ListedInv, ListedIsOpen
  <2> QED BY <1>4, <2>1, <2>2 DEF StartPorts
<1>5. CASE PortsProbe
  <2>1. /\ label' = label /\ listed' = listed /\ owner = "ports" /\ owner' = "ports"
        /\ label \in FirstPort..(FirstPort + PortRange - 1)
    BY <1>5, PortAssumption DEF PortsProbe, portVars, ListedInv
  <2>2. label # FirstPort + PortRange /\ label \in FirstPort..(FirstPort + PortRange)
    BY <2>1, PortAssumption
  <2>3. ListedIsOpen'
    BY <2>1, <1>b DEF ListedInv, ListedIsOpen
  <2> QED BY <2>1, <2>2, <2>3, <1>a DEF ListedInv
<1>6. CASE PortsTimeout
  <2>1. /\ label' = label + 1 /\ listed' = listed /\ owner = "ports" /\ owner' = "ports"
        /\ pc' = "probe" /\ label # FirstPort + PortRange
    BY <1>6 DEF PortsTimeout, NextPort, ListedInv
  <2>2. /\ label' \in FirstPort..(FirstPort + PortRange)
        /\ \A i \in 1..Len(listed') : listed'[i] \in FirstPort..(label' - 1)
    BY <2>1, PortAssumption DEF ListedInv
  <2>3. ListedIsOpen'
    BY <2>1, <1>b DEF ListedInv, ListedIsOpen
  <2> QED BY <2>1, <2>2, <2>3, <1>a DEF ListedInv
<1>7. CASE PortsSynAck
  <2>1. /\ label' = label + 1 /\ listed' = Append(listed, label)
        /\ owner = "ports" /\ owner' = "ports" /\ pc' = "probe"
        /\ label \in FirstPort..(FirstPort + PortRange - 1) /\ label \in Nat
    BY <1>7, PortAssumption DEF PortsSynAck, NextPort, ListedInv
  <2>2. PICK f \in air : f.kind = "synack" /\ f.port = label % PortSpace /\ f.port \in Open[f.from]
    BY <1>7 DEF PortsSynAck, IsSynAck, PortOf, ListedInv
  <2>3. /\ listed' \in Seq(Nat) /\ Len(listed') = Len(listed) + 1
        /\ \A i \in 1..Len(listed') :
              \/ i = Len(listed) + 1 /\ listed'[i] = label
              \/ i \in 1..Len(listed) /\ listed'[i] = listed[i]
    BY <2>1 DEF ListedInv
  <2>4. \A i \in 1..Len(listed') : \E g \in air' :
           g.kind = "synack" /\ g.port = listed'[i] % PortSpace /\ g.port \in Open[g.from]
    BY <2>1, <2>2, <2>3, <1>b DEF ListedInv, ListedIsOpen
  <2>5. /\ label' \in FirstPort..(FirstPort + PortRange)
        /\ \A i \in 1..Len(listed') : listed'[i] \in FirstPort..(label' - 1)
        /\ \A i \in 1..Len(listed') : listed'[i] \in FirstPort..(FirstPort + PortRange - 1)
    BY <2>1, <2>3, PortAssumption DEF ListedInv, ListedIsOpen
  <2>6. ASSUME NEW i \in 2..Len(listed') PROVE listed'[i - 1] < listed'[i]
    <3>l. Len(listed) \in Nat /\ i \in Nat /\ i - 1 \in 1..Len(listed)
      BY <2>3 DEF ListedInv
    <3>1. Len(listed) \in Nat /\ i - 1 \in 1..Len(listed) /\ listed'[i - 1] = listed[i - 1]
      <4> DEFINE j == i - 1
      <4>1. j \in 1..Len(listed') /\ j # Len(listed) + 1
        BY <2>3, <3>l
      <4> QED BY <4>1, <2>3, <3>l
    <3>2. CASE i = Len(listed) + 1 /\ listed'[i] = label
      BY <3>1, <3>2, <2>1, PortAssumption DEF ListedInv
    <3>3. CASE i \in 1..Len(listed) /\ listed'[i] = listed[i]
      BY <3>1, <3>3 DEF ListedInv, ListedIsOpen
    <3> QED BY <3>2, <3>3, <2>3
  <2>7. ListedIsOpen'
    BY <2>4, <2>5, <2>6 DEF ListedIsOpen
  <2> QED BY <2>1, <2>3, <2>5, <2>7, <1>a DEF ListedInv
<1>8. CASE PortsJoined
  BY <1>8, <1>a DEF PortsJoined, ListedInv, ListedIsOpen
<1>9. CASE Button \/ (Capture /\ NotSniffer)
  BY <1>1, <1>9 DEF Button, Press, Release, MenuDrops, Capture, NotSniffer, portVars
<1>10. ASSUME UNCHANGED portVars, owner # "ports", owner' # "ports" PROVE ListedInv'
  BY <1>1, <1>10 DEF portVars
<1>11. CASE UNCHANGED vars
  BY <1>1, <1>11 DEF vars, slotVars, portVars
<1>12. CASE PortsGui
  BY <1>2, <1>4, <1>8, <1>12 DEF PortsGui
<1>13. CASE PortsWorker
  BY <1>2, <1>3, <1>5, <1>6, <1>7, <1>13 DEF PortsWorker
<1>14. CASE Gui \/ Worker
  BY <1>10, <1>12, <1>13, <1>14, Turns
     DEF Gui, Worker, NotPing, NotOs, NotSpoof, NotSniffer, NotViewer, portVars
<1> QED
  BY <1>9, <1>11, <1>14, Zenon DEF Next

-----------------------------------------------------------------------------
(* What the sniffer and the viewer hold, told from where their worker is.      *)
HeldInv ==
    /\ handler <=> owner = "sniffer" /\ pc \in {"sniff", "unregister"}
    /\ promiscuous <=>
          owner = "sniffer" /\ pc \in {"create", "register", "sniff", "unregister", "filter", "undo"}
    /\ file \in {"closed", "writing", "reading"}
    /\ file = "writing" <=>
          owner = "sniffer" /\ pc \in {"register", "sniff", "unregister", "filter", "close"}
    /\ file = "reading" <=> owner = "viewer" /\ pc \in {"show", "text", "keys", "unread"}
    /\ counter \in Nat /\ index \in Nat
    /\ owner = "viewer" => counter < index
    /\ owner # "viewer" => index = 0 /\ counter = 0

(* A record is that of its place or torn, and what is shown was read there.    *)
CaptureInv ==
    /\ captured \in Nat /\ pcap \in Seq(Nat) /\ Len(pcap) = captured
    /\ \A i \in 1..Len(pcap) : pcap[i] \in {i, Torn}
    /\ shown # <<>> => /\ owner = "viewer" /\ shown[1] \in Nat
                       /\ shown[1] < Sound => shown[2] = shown[1] + 1

(* Sound counts the records of a capture before the torn one.                  *)
LEMMA SoundIs ==
    ASSUME pcap \in Seq(Nat)
    PROVE  /\ Sound \in 0..Len(pcap)
           /\ \A i \in 1..Sound : pcap[i] # Torn
           /\ Sound < Len(pcap) => pcap[Sound + 1] = Torn
<1> DEFINE torn == {i \in 1..Len(pcap) : pcap[i] = Torn}
           Is(n) == /\ \A i \in 1..n : pcap[i] # Torn
                    /\ n < Len(pcap) => pcap[n + 1] = Torn
           less == {ss \in Nat \X Nat : ss[1] < ss[2]}
<1>1. \E n \in 0..Len(pcap) : Is(n)
  <2>1. CASE torn = {}
    BY <2>1
  <2>2. CASE torn # {}
    <3>1. IsWellFoundedOn(less, Nat)
      BY NatLessThanWellFounded DEF OpToRel
    <3>2. torn \subseteq Nat
      OBVIOUS
    <3> HIDE DEF torn, less
    <3>3. PICK m \in torn : \A i \in torn : <<i, m>> \notin less
      BY <3>1, <3>2, <2>2, WFMin
    <3>4. \A i \in torn : ~(i < m)
      BY <3>3, <3>2 DEF less
    <3>5. m - 1 \in 0..Len(pcap) /\ Is(m - 1)
      BY <3>4 DEF torn
    <3> QED BY <3>5
  <2> QED BY <2>1, <2>2
<1>2. Sound = CHOOSE n \in 0..Len(pcap) : Is(n)
  BY DEF Sound
<1> HIDE DEF Is
<1>3. Sound \in 0..Len(pcap) /\ Is(Sound)
  BY <1>1, <1>2
<1> QED BY <1>3 DEF Is

(* A viewer never counts zero positions.                                       *)
LEMMA CountsPositive == pcap \in Seq(Nat) => Counts \subseteq Nat \ {0}
<1> SUFFICES ASSUME pcap \in Seq(Nat), NEW c \in Counts PROVE c \in Nat \ {0}
  OBVIOUS
<1>1. (IF pcap = <<>> THEN 1 ELSE Len(pcap)) \in Nat
  OBVIOUS
<1> QED BY <1>1, ViewerAssumption DEF Counts

(* A position before the torn record reads the packet written there, if at all. *)
LEMMA ReadsBack ==
    ASSUME CaptureInv, NEW n \in Nat, n < Sound
    PROVE  Reads(n) \subseteq {Unreadable, n + 1}
<1>1. /\ Sound \in 0..Len(pcap)
      /\ \A i \in 1..Sound : pcap[i] # Torn
  BY SoundIs DEF CaptureInv
<1>2. n + 1 \in 1..Len(pcap) /\ pcap[n + 1] # Torn
  BY <1>1
<1>3. pcap[n + 1] = n + 1
  BY <1>2 DEF CaptureInv
<1> QED BY <1>3 DEF Reads

(* No step leaves a resource without its owner.                                *)
LEMMA HeldStep == SlotInv /\ CaptureInv /\ HeldInv /\ [Next]_vars => HeldInv'
<1> SUFFICES ASSUME SlotInv, CaptureInv, HeldInv, [Next]_vars PROVE HeldInv'
  OBVIOUS
<1> USE DEF captureVars, snifferVars, viewerVars, HeldInv
<1>1. ASSUME UNCHANGED <<snifferVars, viewerVars>>,
             owner' # "sniffer" /\ owner # "sniffer" /\ owner' # "viewer" /\ owner # "viewer"
      PROVE  HeldInv'
  BY <1>1
<1>2. ASSUME UNCHANGED <<promiscuous, handler, file, viewerVars>>, UNCHANGED <<owner, pc>>
      PROVE  HeldInv'
  BY <1>2
<1>3. CASE Button
  BY <1>2, <1>3 DEF Button, Press, Release, MenuDrops
<1>4. CASE Capture /\ NotSniffer
  BY <1>2, <1>4 DEF Capture, NotSniffer
<1>5. CASE SnifferGui /\ NotSniffer
  <2>1. CASE EnterSniffer \/ RetrySniffer
    BY <1>5, <2>1, Turns DEF EnterSniffer, RetrySniffer, StartSniffer, NotSniffer
  <2>2. CASE OpenCapture \/ SnifferBack \/ SnifferEvent
    BY <1>2, <1>5, <2>2 DEF OpenCapture, SnifferBack, SnifferEvent, NotSniffer
  <2>3. CASE SnifferJoined
    BY <1>5, <2>3 DEF SnifferJoined, NotSniffer
  <2> QED BY <1>5, <2>1, <2>2, <2>3 DEF SnifferGui
<1>6. CASE SnifferWorker /\ NotSniffer
  BY <1>6 DEF SnifferWorker, SnifferCheck, SnifferCreate, SnifferRegister, SnifferUndo,
            SnifferReports, SnifferStops,
              SnifferUnregister, SnifferFilterOff, FilterOff, SnifferClose, SnifferTells,
              Tells, NotSniffer
<1>7. CASE ViewerGui /\ NotViewer
  <2>1. CASE EnterViewer \/ RetryViewer
    <3>1. CASE Claim("viewer", "open") /\ index' \in Counts
      <4>1. index' \in Nat \ {0}
        BY <3>1, CountsPositive DEF CaptureInv
      <4> QED BY <2>1, <3>1, <4>1 DEF EnterViewer, RetryViewer
    <3>2. CASE Refused /\ UNCHANGED index
      BY <1>2, <2>1, <3>2 DEF EnterViewer, RetryViewer
    <3> QED BY <2>1, <3>1, <3>2 DEF EnterViewer, RetryViewer, StartViewer
  <2>2. CASE ViewerEvent \/ ViewerBack
    BY <2>2 DEF ViewerEvent, ViewerBack
  <2>3. CASE ViewerJoined
    BY <2>3 DEF ViewerJoined
  <2> QED BY <1>7, <2>1, <2>2, <2>3 DEF ViewerGui
<1>8. CASE ViewerWorker
  BY <1>8 DEF ViewerWorker, ViewerOpen, ViewerShow, ViewerText, ViewerKey, ViewerCloses,
              ViewerFails, ViewerReports, Tells
<1>9. CASE UNCHANGED vars
  BY <1>2, <1>9 DEF vars, slotVars
<1>10. CASE Gui \/ Worker
  <2>1. CASE (PingGui /\ NotPing) \/ (PingWorker /\ NotPing)
    BY <1>1, <2>1, Turns DEF NotPing
  <2>2. CASE (PortsGui /\ NotPorts) \/ (PortsWorker /\ NotPorts)
    BY <1>1, <2>2, Turns DEF NotPorts
  <2>3. CASE (OsGui /\ NotOs) \/ (OsWorker /\ NotOs)
    BY <1>1, <2>3, Turns DEF NotOs
  <2>4. CASE (SpoofGui /\ NotSpoof) \/ (SpoofWorker /\ NotSpoof)
    BY <1>1, <2>4, Turns DEF NotSpoof
  <2> QED BY <1>5, <1>6, <1>7, <1>8, <1>10, <2>1, <2>2, <2>3, <2>4, Zenon DEF Gui, Worker
<1> QED
  BY <1>3, <1>4, <1>9, <1>10, Zenon DEF Next

(* No step breaks what the capture file holds and the viewer shows.            *)
LEMMA CaptureStep == SlotInv /\ HeldInv /\ CaptureInv /\ [Next]_vars => CaptureInv'
<1> SUFFICES ASSUME SlotInv, HeldInv, CaptureInv, [Next]_vars PROVE CaptureInv'
  OBVIOUS
<1> USE DEF captureVars, snifferVars, viewerVars
<1>1. ASSUME UNCHANGED <<pcap, captured, shown>>, owner = "viewer" => owner' = "viewer"
      PROVE  CaptureInv'
  <2>1. Sound' = Sound
    BY <1>1 DEF Sound
  <2> QED BY <1>1, <2>1 DEF CaptureInv
<1>2. ASSUME shown' = <<>>, UNCHANGED <<pcap, captured>> PROVE CaptureInv'
  BY <1>2 DEF CaptureInv
<1>3. CASE Button
  BY <1>1, <1>3 DEF Button, Press, Release, MenuDrops
<1>4. CASE Capture /\ NotSniffer
  <2>1. shown' = <<>> /\ captured' = captured + 1
    BY <1>4 DEF Capture, NotSniffer, HeldInv, CaptureInv
  <2>2. PICK record \in {captured + 1, Torn} : pcap' = Append(pcap, record)
    BY <1>4, <2>1 DEF Capture
  <2>3. captured' \in Nat /\ pcap' \in Seq(Nat) /\ Len(pcap') = captured'
    BY <2>1, <2>2 DEF CaptureInv, Torn
  <2>4. \A i \in 1..Len(pcap') : pcap'[i] \in {i, Torn}
    BY <2>1, <2>2 DEF CaptureInv
  <2> QED BY <2>1, <2>3, <2>4 DEF CaptureInv
<1>5. CASE SnifferGui /\ NotSniffer
  BY <1>1, <1>5, Turns DEF SnifferGui, EnterSniffer, RetrySniffer, StartSniffer, OpenCapture,
           SnifferBack, SnifferEvent, SnifferJoined, NotSniffer
<1>6. CASE SnifferWorker /\ NotSniffer
  <2>1. CASE SnifferCreate
    BY <1>6, <2>1 DEF SnifferCreate, NotSniffer, CaptureInv
  <2> QED
    BY <1>1, <1>6, <2>1 DEF SnifferWorker, SnifferCheck, SnifferRegister, SnifferUndo,
              SnifferReports, SnifferStops,
              SnifferUnregister, SnifferFilterOff, FilterOff, SnifferClose, SnifferTells,
              Tells, NotSniffer
<1>7. CASE ViewerGui /\ NotViewer
  <2>1. CASE EnterViewer \/ RetryViewer
    BY <1>1, <1>7, <2>1, Turns DEF EnterViewer, RetryViewer, StartViewer
  <2>2. CASE ViewerEvent \/ ViewerBack
    BY <1>1, <2>2 DEF ViewerEvent, ViewerBack
  <2>3. CASE ViewerJoined
    BY <1>2, <2>3 DEF ViewerJoined
  <2> QED BY <1>7, <2>1, <2>2, <2>3 DEF ViewerGui
<1>8. CASE ViewerWorker
  <2>1. CASE ~ViewerShow
    BY <1>1, <1>8, <2>1 DEF ViewerWorker, ViewerOpen, ViewerText, ViewerKey, ViewerCloses, ViewerFails,
                            ViewerReports, Tells
  <2>2. CASE ViewerShow
    <3>1. PICK p \in Reads(counter) :
             IF p = Unreadable THEN UNCHANGED shown ELSE shown' = <<counter, p>>
      BY <2>2, Zenon DEF ViewerShow
    <3>2. owner = "viewer" /\ owner' = "viewer" /\ UNCHANGED <<pcap, captured>>
      BY <2>2 DEF ViewerShow
    <3>3. CASE p = Unreadable
      BY <1>1, <3>1, <3>2, <3>3
    <3>4. CASE p # Unreadable
      <4>1. counter \in Nat /\ (counter < Sound => p = counter + 1)
        BY <3>1, <3>4, ReadsBack DEF HeldInv
      <4>2. Sound' = Sound
        BY <3>2 DEF Sound
      <4> QED BY <3>1, <3>2, <3>4, <4>1, <4>2 DEF CaptureInv
    <3> QED BY <3>3, <3>4
  <2> QED BY <1>8, <2>1, <2>2 DEF ViewerWorker
<1>9. CASE UNCHANGED vars
  BY <1>1, <1>9 DEF vars, slotVars
<1>10. CASE Gui \/ Worker
  <2>1. CASE (PingGui /\ NotPing) \/ (PingWorker /\ NotPing)
    BY <1>1, <2>1, Turns DEF NotPing
  <2>2. CASE (PortsGui /\ NotPorts) \/ (PortsWorker /\ NotPorts)
    BY <1>1, <2>2, Turns DEF NotPorts
  <2>3. CASE (OsGui /\ NotOs) \/ (OsWorker /\ NotOs)
    BY <1>1, <2>3, Turns DEF NotOs
  <2>4. CASE (SpoofGui /\ NotSpoof) \/ (SpoofWorker /\ NotSpoof)
    BY <1>1, <2>4, Turns DEF NotSpoof
  <2> QED BY <1>5, <1>6, <1>7, <1>8, <1>10, <2>1, <2>2, <2>3, <2>4, Zenon DEF Gui, Worker
<1> QED
  BY <1>3, <1>4, <1>9, <1>10, Zenon DEF Next

-----------------------------------------------------------------------------
(* A scan posts its one event when it ends, and the scene joins it on that     *)
(* event only: an event of an earlier scan never meets a later one.            *)
Finishes(i) == queue[i] = "finished"

OtherEvents == {"error", "loading", "counter", "text", "open", "stop"}
Events == OtherEvents \cup {"finished"}
Posted == queue' = queue \/ \E e \in OtherEvents : queue' = Append(queue, e)

EventInv ==
    /\ queue \in Seq(Events)
    /\ owner = "os" /\ joining # "no" => pc = "ended"
    /\ joining = "os" => owner = "os"
    /\ IF owner = "os" /\ pc = "ended" /\ joining = "no"
          THEN \A i, j \in 1..Len(queue) : Finishes(i) /\ Finishes(j) => i = j
          ELSE \A i \in 1..Len(queue) : ~Finishes(i)

(* Outside an OS scan an event that is taken or posted is not its last one.    *)
LEMMA EventQuiet ==
    ASSUME EventInv, owner # "os", owner' # "os", joining' = "os" => joining = "os",
           Posted \/ (queue # <<>> /\ queue' = Tail(queue))
    PROVE  EventInv'
<1>1. queue \in Seq(Events) /\ \A i \in 1..Len(queue) : queue[i] # "finished"
  BY DEF EventInv, Finishes
<1>2. queue' \in Seq(Events) /\ \A i \in 1..Len(queue') : queue'[i] # "finished"
  <2>1. CASE queue' = queue
    BY <1>1, <2>1
  <2>2. CASE queue # <<>> /\ queue' = Tail(queue)
    BY <1>1, <2>2
  <2>3. CASE \E e \in OtherEvents : queue' = Append(queue, e)
    <3>1. PICK e \in OtherEvents : queue' = Append(queue, e)
      BY <2>3
    <3>e. e \in Events /\ e # "finished"
      BY DEF Events, OtherEvents
    <3>2. \A i \in 1..Len(queue') : i \in 1..Len(queue) \/ i = Len(queue) + 1
      BY <1>1, <3>1, <3>e, AppendProperties
    <3> QED BY <1>1, <3>1, <3>2, <3>e, AppendProperties
  <2> QED BY <2>1, <2>2, <2>3 DEF Posted
<1> QED BY <1>2 DEF EventInv, Finishes

(* No step posts a second end of one OS scan.                                  *)
LEMMA EventStep == SlotInv /\ EventInv /\ [Next]_vars => EventInv'
<1> SUFFICES ASSUME SlotInv, EventInv, [Next]_vars PROVE EventInv'
  OBVIOUS
<1>1. ASSUME UNCHANGED <<queue, owner, joining>>, pc' = pc \/ owner # "os" PROVE EventInv'
  BY <1>1 DEF EventInv, Finishes
<1>2. CASE Press \/ Release
  BY <1>1, <1>2 DEF Press, Release
<1>3. CASE MenuDrops
  <2>1. owner # "os" /\ owner' = owner /\ joining' = joining
    BY <1>3 DEF MenuDrops, SlotInv, WorkerInItsScene
  <2> QED BY <1>3, <2>1, EventQuiet DEF MenuDrops, Posted
<1>4. CASE PingGui \/ PingWorker
  <2>1. owner # "os" /\ owner' # "os"
    BY <1>4, Turns
  <2>2. CASE PingGui
    BY <2>1, <2>2, EventQuiet
       DEF Posted, PingGui, EnterPing, RetryPing, StartPing, PingEvent, PingBack, PingJoined
  <2>3. CASE PingWorker
    <3>1. Posted /\ joining' = joining
      BY <2>3 DEF PingWorker, PingCheck, PingNeedsDora, PingResolve, PingSend, PingReply, PingWaits,
                  PingCancel, Resolve, Ask, ArpArrives, ArpTimeout, ResolveFails,
                  Posted, OtherEvents
    <3> QED BY <2>1, <3>1, EventQuiet
  <2> QED BY <1>4, <2>2, <2>3
<1>5. CASE PortsGui \/ PortsWorker
  <2>1. owner # "os" /\ owner' # "os"
    BY <1>5, Turns
  <2> QED
    BY <1>5, <2>1, EventQuiet
       DEF Posted, PortsGui, EnterPorts, StartPorts, PortsBack, PortsJoined,
           PortsWorker, PortsResolve, PortsProbe, PortsSynAck, PortsTimeout, PortsEnd,
           Resolve, Ask, ArpArrives, ArpTimeout, ResolveFails
<1>6. CASE SpoofGui \/ SpoofWorker
  <2>1. owner # "os" /\ owner' # "os"
    BY <1>6, Turns
  <2>2. CASE SpoofGui
    BY <2>1, <2>2, EventQuiet
       DEF SpoofGui, EnterSpoof, RetrySpoof, StartSpoof, SpoofEvent, SpoofBack, SpoofJoined, Posted
  <2>3. CASE SpoofWorker
    <3>1. Posted /\ joining' = joining
      BY <2>3 DEF SpoofWorker, SpoofCheck, SpoofToggle, SpoofEnds,
                  Posted, OtherEvents
    <3> QED BY <2>1, <3>1, EventQuiet
  <2> QED BY <1>6, <2>2, <2>3
<1>7. CASE SnifferGui \/ SnifferWorker
  <2>1. owner # "os" /\ owner' # "os"
    BY <1>7, Turns
  <2>2. CASE SnifferGui
    BY <2>1, <2>2, EventQuiet
       DEF Posted, SnifferGui, EnterSniffer, RetrySniffer, StartSniffer, OpenCapture, SnifferBack,
           SnifferEvent, SnifferJoined
  <2>3. CASE SnifferWorker
    <3>1. Posted /\ joining' = joining
      BY <2>3 DEF SnifferWorker, SnifferCheck, SnifferCreate, SnifferRegister, SnifferUndo,
                SnifferReports, SnifferStops,
                  SnifferUnregister, SnifferFilterOff, FilterOff, SnifferClose, SnifferTells,
                  Tells,
                  Posted, OtherEvents
    <3> QED BY <2>1, <3>1, EventQuiet
  <2> QED BY <1>7, <2>2, <2>3
<1>8. CASE ViewerGui \/ ViewerWorker
  <2>1. owner # "os" /\ owner' # "os"
    BY <1>8, Turns
  <2>2. CASE ViewerGui
    BY <2>1, <2>2, EventQuiet
       DEF Posted, ViewerGui, EnterViewer, RetryViewer, StartViewer, ViewerEvent, ViewerBack, ViewerJoined
  <2>3. CASE ViewerWorker
    <3>1. Posted /\ joining' = joining
      BY <2>3 DEF ViewerWorker, ViewerOpen, ViewerShow, ViewerText, ViewerKey, ViewerCloses,
              ViewerFails, ViewerReports, Tells,
                  Posted, OtherEvents
    <3> QED BY <2>1, <3>1, EventQuiet
  <2> QED BY <1>8, <2>2, <2>3
<1>9. CASE OsGui
  <2>1. CASE EnterOs \/ OsBack
    BY <1>1, <2>1 DEF EnterOs, OsBack
  <2>2. CASE StartOs
    BY <1>1, <2>2 DEF StartOs, EventInv, Finishes, SlotInv
  <2>3. CASE OsFinished
    <3>1. 1 \in 1..Len(queue) /\ Finishes(1) /\ queue' = Tail(queue)
      BY <2>3 DEF OsFinished, EventInv, Finishes
    <3>2. /\ owner = "os" /\ pc = "ended" /\ joining = "no"
          /\ \A i \in 1..Len(queue) : Finishes(i) => i = 1
      BY <3>1 DEF EventInv
    <3>3. joining' = "os" /\ UNCHANGED <<owner, pc>>
      BY <2>3, <3>2 DEF OsFinished
    <3>4. queue' \in Seq(Events) /\ \A i \in 1..Len(queue') : queue'[i] # "finished"
      BY <3>1, <3>2 DEF EventInv, Finishes
    <3> QED BY <3>2, <3>3, <3>4 DEF EventInv, Finishes
  <2>4. CASE OsJoined
    BY <2>4 DEF OsJoined, EventInv, Finishes
  <2> QED BY <1>9, <2>1, <2>2, <2>3, <2>4 DEF OsGui
<1>10. CASE OsWorker
  <2>1. CASE OsTells
    <3>1. /\ owner = "os" /\ pc = "tell" /\ joining = "no"
          /\ \A i \in 1..Len(queue) : ~Finishes(i)
          /\ queue' = Append(queue, "finished") /\ owner' = "os" /\ pc' = "ended" /\ joining' = "no"
      BY <2>1 DEF OsTells, EventInv
    <3>2. queue \in Seq(Events) /\ \A i \in 1..Len(queue) : queue[i] # "finished"
      BY <3>1 DEF EventInv, Finishes
    <3>3. /\ queue' \in Seq(Events) /\ Len(queue') = Len(queue) + 1
          /\ \A i \in 1..Len(queue) : queue'[i] = queue[i]
      <4>1. "finished" \in Events
        BY DEF Events
      <4> QED BY <3>1, <3>2, <4>1, AppendProperties
    <3>4. \A i \in 1..Len(queue') : queue'[i] = "finished" => i = Len(queue')
      BY <3>2, <3>3
    <3> QED BY <3>1, <3>3, <3>4 DEF EventInv, Finishes
  <2>2. CASE ~OsTells
    <3>1. owner = "os" /\ pc # "ended" /\ pc' # "ended" /\ UNCHANGED <<queue, owner, joining>>
      BY <1>10, <2>2
         DEF OsWorker, OsResolve, OsSyn, OsListened, OsRetry, OsRounds, OsGivesUp, OsPublishes,
             OsRst, OsSynAck, Resolve, Ask, ArpArrives, ArpTimeout, ResolveFails
    <3> QED BY <3>1 DEF EventInv, Finishes
  <2> QED BY <2>1, <2>2
<1>11. CASE Capture
  BY <1>1, <1>11 DEF Capture
<1>12. CASE UNCHANGED vars
  BY <1>1, <1>12 DEF vars, slotVars
<1> QED
  BY <1>2, <1>3, <1>4, <1>5, <1>6, <1>7, <1>8, <1>9, <1>10, <1>11, <1>12, Zenon
     DEF Next, Button, Gui, Worker

-----------------------------------------------------------------------------
(* A port is marked by answers of this scan, and what is published keeps them. *)
Shows(ports) ==
    \A p \in DOMAIN ports :
        /\ ports[p] = "OPEN" =>
              \E f \in air : /\ f.kind = "synack" /\ f.from = target
                             /\ f.port = p /\ f.scan = starts
        /\ ports[p] = "CLOSED" =>
              \E f \in air : f.kind = "rst" /\ f.from = target /\ f.port = p

IsPublished ==
    /\ published.target = target /\ published.scan = starts
    /\ Shows(published.ports)

ShownInv ==
    /\ DOMAIN results = ProbePorts
    /\ owner # "os" => results = AllPorts("UNKNOWN")
    /\ owner = "os" => Shows(results)
    /\ owner = "os" /\ pc \in {"tell", "ended"} => IsPublished
    /\ owner # "os" /\ scene = "os" /\ view = "results" => IsPublished

(* More answers on the air justify what fewer justified.                       *)
LEMMA ShownKept ==
    ASSUME NEW ports, air \subseteq air', target' = target, starts' = starts, Shows(ports)
    PROVE  \A p \in DOMAIN ports :
              /\ ports[p] = "OPEN" =>
                    \E f \in air' : /\ f.kind = "synack" /\ f.from = target'
                                    /\ f.port = p /\ f.scan = starts'
              /\ ports[p] = "CLOSED" =>
                    \E f \in air' : f.kind = "rst" /\ f.from = target' /\ f.port = p
BY DEF Shows

(* No step shows a port state that no answer of this scan justifies.           *)
LEMMA ShownStep == SlotInv /\ EventInv /\ ShownInv /\ [Next]_vars => ShownInv'
<1> SUFFICES ASSUME SlotInv, EventInv, ShownInv, [Next]_vars PROVE ShownInv'
  OBVIOUS
<1>1. ASSUME UNCHANGED <<results, published, air, target, starts>>,
             UNCHANGED <<owner, pc, scene, view>>
      PROVE  ShownInv'
  BY <1>1 DEF ShownInv, IsPublished, Shows
<1>2. ASSUME UNCHANGED results, owner # "os", owner' # "os", scene' # "os" PROVE ShownInv'
  BY <1>2 DEF ShownInv, AllPorts
<1>3. CASE Button \/ (Capture /\ NotSniffer)
  BY <1>1, <1>3 DEF Button, Press, Release, MenuDrops, Capture, NotSniffer, osVarsAll, osVars,
            netVars
<1>a. joining = "os" => owner = "os"
  BY DEF EventInv
<1>b. owner \notin {"none", "os"} => scene # "os"
  BY DEF SlotInv, WorkerInItsScene
<1>4. CASE (PingGui /\ NotPing) \/ (PingWorker /\ NotPing)
  <2>1. PingGui => scene' # "os"
    BY <1>a, Turns DEF PingGui, EnterPing, RetryPing, StartPing, PingEvent, PingBack, PingJoined
  <2>2. PingWorker => scene' # "os"
    BY <1>b DEF PingWorker, PingCheck, PingNeedsDora, PingResolve, PingSend, PingReply, PingWaits,
                PingCancel, Resolve, Ask, ArpArrives, ArpTimeout, ResolveFails
  <2> QED BY <1>2, <1>4, <2>1, <2>2, Turns DEF NotPing, osVarsAll, osVars
<1>5. CASE (PortsGui /\ NotPorts) \/ (PortsWorker /\ NotPorts)
  <2>1. PortsGui => scene' # "os"
    BY <1>a, Turns DEF PortsGui, EnterPorts, StartPorts, PortsBack, PortsJoined
  <2>2. PortsWorker => scene' # "os"
    BY <1>b DEF PortsWorker, PortsResolve, PortsProbe, PortsSynAck, PortsTimeout, PortsEnd,
                Resolve, Ask, ArpArrives, ArpTimeout, ResolveFails
  <2> QED BY <1>2, <1>5, <2>1, <2>2, Turns DEF NotPorts, osVarsAll, osVars
<1>6. CASE (SpoofGui /\ NotSpoof) \/ (SpoofWorker /\ NotSpoof)
  <2>1. SpoofGui => scene' # "os"
    BY <1>a, Turns DEF SpoofGui, EnterSpoof, RetrySpoof, StartSpoof, SpoofEvent, SpoofBack, SpoofJoined
  <2>2. SpoofWorker => scene' # "os"
    BY <1>b DEF SpoofWorker, SpoofCheck, SpoofToggle, SpoofEnds
  <2> QED BY <1>2, <1>6, <2>1, <2>2, Turns DEF NotSpoof, osVarsAll, osVars
<1>7. CASE (SnifferGui /\ NotSniffer) \/ (SnifferWorker /\ NotSniffer)
  <2>1. SnifferGui => scene' # "os"
    BY <1>a, Turns DEF SnifferGui, EnterSniffer, RetrySniffer, StartSniffer, OpenCapture,
                SnifferBack, SnifferEvent, SnifferJoined
  <2>2. SnifferWorker => scene' # "os"
    BY <1>b DEF SnifferWorker, SnifferCheck, SnifferCreate, SnifferRegister, SnifferUndo,
              SnifferReports, SnifferStops,
                SnifferUnregister, SnifferFilterOff, FilterOff, SnifferClose, SnifferTells, Tells
  <2> QED BY <1>2, <1>7, <2>1, <2>2, Turns DEF NotSniffer, osVarsAll, osVars
<1>8. CASE (ViewerGui /\ NotViewer) \/ (ViewerWorker /\ NotViewer)
  <2>1. ViewerGui => scene' # "os"
    BY <1>a, Turns DEF ViewerGui, EnterViewer, RetryViewer, StartViewer, ViewerEvent, ViewerBack,
                ViewerJoined
  <2>2. ViewerWorker => scene' # "os"
    BY <1>b DEF ViewerWorker, ViewerOpen, ViewerShow, ViewerText, ViewerKey, ViewerCloses,
              ViewerFails, ViewerReports, Tells
  <2> QED BY <1>2, <1>8, <2>1, <2>2, Turns DEF NotViewer, osVarsAll, osVars
<1>9. CASE OsGui
  <2>1. CASE EnterOs
    BY <2>1, Turns, <1>9 DEF EnterOs, osVarsAll, osVars, ShownInv, SlotInv, WorkerInItsScene
  <2>2. CASE StartOs
    BY <2>2, <1>9, Turns DEF StartOs, osVarsAll, osVars, ShownInv, SlotInv, AllPorts, Shows
  <2>3. CASE OsFinished
    BY <2>3 DEF OsFinished, osVarsAll, osVars, netVars, ShownInv, IsPublished, Shows
  <2>4. CASE OsBack
    BY <2>4 DEF OsBack, osVarsAll, osVars, ShownInv, IsPublished, Shows, SlotInv
  <2>5. CASE OsJoined
    BY <2>5, <1>a DEF OsJoined, ShownInv, IsPublished, Shows, AllPorts
  <2> QED BY <1>9, <2>1, <2>2, <2>3, <2>4, <2>5 DEF OsGui
<1>10. CASE OsWorker
  <2>1. CASE OsResolve \/ OsSyn \/ OsListened \/ OsRounds \/ OsTells
    <3>1. /\ owner = "os" /\ owner' = "os" /\ air \subseteq air' /\ target' = target
          /\ UNCHANGED <<starts, results, published>>
          /\ pc' \in {"tell", "ended"} => pc \in {"tell", "ended"}
      BY <2>1 DEF OsResolve, OsSyn, OsListened, OsRounds, OsTells, osVarsAll, osVars, netVars,
              Sends, Resolve, Ask, ArpArrives, ArpTimeout, ResolveFails
    <3> QED BY <3>1, ShownKept DEF ShownInv, IsPublished, Shows
  <2>2. CASE OsRetry
    <3>1. /\ owner = "os" /\ owner' = "os" /\ air \subseteq air' /\ target' = target
          /\ UNCHANGED <<starts, results, published>> /\ pc' \in {"icmp", "syn"}
      BY <2>2, Zenon DEF OsRetry, Sends
    <3> QED BY <3>1, ShownKept DEF ShownInv, IsPublished, Shows
  <2>3. CASE OsGivesUp
    BY <2>3 DEF OsGivesUp, Nothing, osVars, netVars, ShownInv, IsPublished, Shows
  <2>4. CASE OsPublishes
    BY <2>4 DEF OsPublishes, osVars, netVars, ShownInv, IsPublished, Shows
  <2>5. ASSUME NEW p \in ProbePorts, OsRst(p) PROVE ShownInv'
    BY <2>5 DEF OsRst, netVars, ShownInv, Shows
  <2>6. ASSUME NEW p \in ProbePorts, OsSynAck(p) PROVE ShownInv'
    BY <2>6 DEF OsSynAck, IsOurs, netVars, ShownInv, Shows
  <2> QED BY <1>10, <2>1, <2>2, <2>3, <2>4, <2>5, <2>6, Zenon DEF OsWorker
<1>11. CASE UNCHANGED vars
  BY <1>1, <1>11 DEF vars, slotVars, netVars, osVarsAll, osVars
<1> QED
  BY <1>3, <1>4, <1>5, <1>6, <1>7, <1>8, <1>9, <1>10, <1>11, Zenon DEF Next, Gui, Worker

-----------------------------------------------------------------------------
ToolsInv ==
    /\ SlotInv /\ NetInv /\ ListedInv /\ HeldInv /\ CaptureInv
    /\ EventInv /\ ShownInv

(* The invariant holds in every reachable state.                               *)
LEMMA ToolsCorrect == Spec => []ToolsInv
<1>1. Init => ToolsInv
  <2> SUFFICES ASSUME Init PROVE ToolsInv
    OBVIOUS
  <2>1. SlotInv
    BY SlotStart
  <2>2. NetInv
    BY DEF Init, NetInit, NetInv
  <2>3. ListedInv
    BY DEF Init, SlotInit, NetInit, PortInit, ListedInv, ListedIsOpen
  <2>4. HeldInv /\ CaptureInv
    BY DEF Init, SlotInit, SnifferInit, ViewerInit, HeldInv, CaptureInv
  <2>5. EventInv /\ ShownInv
    BY DEF Init, SlotInit, OsInit, AllPorts, EventInv, ShownInv, Shows
  <2> QED BY <2>1, <2>2, <2>3, <2>4, <2>5 DEF ToolsInv
<1>2. ToolsInv /\ [Next]_vars => ToolsInv'
  BY SlotStep, NetStep, ListedStep, HeldStep, CaptureStep, EventStep, ShownStep DEF ToolsInv
<1> QED BY <1>1, <1>2, PTL DEF Spec

(* No tool starts, and no scene changes, while the worker of another still runs*)
(* (app_user.c, the on_exit handlers of the scenes).                           *)
THEOREM OneToolAtATime == Spec => []WorkerInItsScene
<1>1. ToolsInv => WorkerInItsScene
  BY DEF ToolsInv, SlotInv
<1> QED BY <1>1, ToolsCorrect, PTL

(* The MAC a tool sends to is that of the next hop to its target               *)
(* (scanner_session.c:57-154).                                                 *)
THEOREM NextHopResolved == Spec => []MacIsNextHops
<1>1. ToolsInv => MacIsNextHops
  BY DEF ToolsInv, NetInv, MacIsNextHops, Heard, NextHop
<1> QED BY <1>1, ToolsCorrect, PTL

(* The port scanner lists ports of its range once, in order, and only those a  *)
(* scanned host answered for (tcp_module.c:231-275).                           *)
THEOREM PortsListedOpen == Spec => []ListedIsOpen
<1>1. ToolsInv => ListedIsOpen
  BY DEF ToolsInv, ListedInv
<1> QED BY <1>1, ToolsCorrect, PTL

(* The capture file, the handler and the filter are held by the step of the    *)
(* worker that needs them and by no other (SnifferScene.c, ReadPcapsScene.c).  *)
THEOREM FileAndFilterHeld == Spec => []ResourcesHeld
<1>1. ToolsInv => ResourcesHeld
  BY DEF ToolsInv, HeldInv, ResourcesHeld
<1> QED BY <1>1, ToolsCorrect, PTL

(* What is read back at a place before the first torn record was captured there*)
(* (capture_module.c:71-242).                                                  *)
THEOREM CaptureReadBack == Spec => []RecordsReadBack
<1>1. ToolsInv => RecordsReadBack
  BY DEF ToolsInv, CaptureInv, RecordsReadBack
<1> QED BY <1>1, ToolsCorrect, PTL

(* The results of the OS detector are of the scan and the target they name, and*)
(* its ports were answered for in that scan (os_detector_module.c:714-790,     *)
(* OsDetector.c:234-246).                                                      *)
THEOREM ResultsAreThisScan == Spec => []ShownIsThisScan
<1>1. ToolsInv => ShownIsThisScan
  BY DEF ToolsInv, SlotInv, ShownInv, IsPublished, Shows, ShownIsThisScan
<1> QED BY <1>1, ToolsCorrect, PTL
=============================================================================
