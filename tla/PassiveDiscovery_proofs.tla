----------------------- MODULE PassiveDiscovery_proofs -----------------------
(* Machine-checked proofs about Passive Discovery: its sessions, for every set *)
(* of protocols and any number of sessions (PassiveDiscovery), its database,   *)
(* for any number of entries and any frames (NeighborDb), and its pages of     *)
(* details, for texts, pages and fields of any length (Neighbors).             *)
EXTENDS PassiveDiscovery, Neighbors, FiniteSetTheorems, SequenceTheorems,
        WellFoundedInduction, TLAPS

(* A worker lives inside the discovery scene only, with its database, and the  *)
(* scene shows it unless the GUI thread is about to end it; the dispatcher     *)
(* runs its predicate only while it is registered.                             *)
WorkerInv ==
    /\ owned <=> wpc # "none"
    /\ owned => scene = "discovery" /\ db /\ gui # "leave"
    /\ owned /\ gui = "idle" => state \in {"starting", "listening"}
    /\ frame # NoFrame => wpc \in Armed

Looping == {"loop", "register", "cleanup"} \cup Armed

MulticastInv == multicast => wpc \in Looping

(* What the worker hears is of the mode the scene will merge with.             *)
ModeInv ==
    /\ session \in 0..MaxSessions
    /\ owned => session # 0
    /\ wpc \in Looping => selected = mode
    /\ frame # NoFrame => frame \in Protocols /\ selected \in {All, frame}

(* An observation that no merge was given belongs to a session that has not    *)
(* been finished and that finishing will merge.                                *)
UnmergedInv ==
    /\ wpc = "wait" => operational
    /\ \A o \in live : o \in saved \cup leftOut
                         \/ /\ wpc \in Looping \cup {"post", "done"}
                            /\ o \in Of(mode)
                            /\ operational \/ wpc = "trigger"

SessionInv == WorkerInv /\ MulticastInv /\ ModeInv /\ UnmergedInv

(* The invariant holds before the first session.                               *)
LEMMA SessionInit == Init => SessionInv
BY PassiveAssumption
   DEF Init, SessionInv, WorkerInv, MulticastInv, ModeInv, UnmergedInv, Armed, Looping

(* No step breaks the invariant of a session.                                  *)
LEMMA SessionStep == SessionInv /\ [Next]_vars => SessionInv'
<1> SUFFICES ASSUME SessionInv, [Next]_vars PROVE SessionInv'
  OBVIOUS
<1> USE DEF SessionInv, WorkerInv, MulticastInv, ModeInv, UnmergedInv, Armed, Looping, resultVars
<1>1. CASE Gui
  <2>1. CASE Open
    BY <2>1 DEF Open, workVars, waitVars, dbVars
  <2>2. CASE Other
    BY <2>2 DEF Other, InDiscovery, workVars, waitVars, dbVars
  <2>3. CASE StartRefused
    BY <2>3 DEF StartRefused, InDiscovery, workVars, waitVars
  <2>4. CASE StartWorker
    BY <2>4, PassiveAssumption DEF StartWorker, InDiscovery, waitVars
  <2>5. CASE OpenSaved
    BY <2>5 DEF OpenSaved, InDiscovery, workVars, waitVars
  <2>6. CASE ClearResults
    BY <2>6 DEF ClearResults, guiVars, workVars, waitVars
  <2>7. CASE Stop
    BY <2>7 DEF Stop, InDiscovery, FinishLive, workVars, waitVars, dbVars
  <2>8. CASE Back
    BY <2>8 DEF Back, InDiscovery, FinishLive, workVars, waitVars, dbVars
  <2>9. CASE Finished
    <3>1. \A o \in live' : o \in saved' \cup leftOut'
      <4>1. PICK kept \in SUBSET Covered : /\ saved' = saved \cup kept
                                          /\ leftOut' = leftOut \cup (Covered \ kept)
        BY <2>9 DEF Finished, Finish
      <4>2. wpc \in {"none", "done"} /\ live' \subseteq live
        BY <2>9 DEF Finished, Finish
      <4>3. \A o \in live : o \in saved \cup leftOut \cup Covered
        BY <4>2 DEF Covered
      <4> QED
        BY <4>1, <4>2, <4>3
    <3>2. /\ ~owned' /\ wpc' = "none" /\ frame' = NoFrame /\ ~multicast'
          /\ session' = session
      BY <2>9 DEF Finished, Finish, workVars, waitVars
    <3> QED
      BY <3>1, <3>2
  <2>10. CASE EventDropped
    BY <2>10 DEF EventDropped, TakeEvent, guiVars, workVars, waitVars, dbVars
  <2>11. CASE EventStarted
    BY <2>11 DEF EventStarted, TakeEvent, workVars, waitVars, dbVars
  <2>12. CASE EventError
    BY <2>12 DEF EventError, TakeEvent, FinishLive, workVars, waitVars, dbVars
  <2> QED
    BY <1>1, <2>1, <2>2, <2>3, <2>4, <2>5, <2>6, <2>7, <2>8, <2>9, <2>10, <2>11, <2>12 DEF Gui
<1>2. CASE Worker
  <2>1. CASE WDevice \/ WLink
    BY <2>1 DEF WDevice, WLink, WReturn, WGoes, guiVars, workVars, waitVars, dbVars
  <2>2. CASE WInit
    BY <2>2 DEF WInit, guiVars, waitVars
  <2>3. CASE WLoop
    BY <2>3 DEF WLoop, WEnd, WGoes, guiVars, workVars, waitVars, dbVars
  <2>4. CASE WRegister
    BY <2>4 DEF WRegister, WEnd, guiVars, workVars, waitVars, dbVars
  <2>5. CASE WTrigger
    BY <2>5 DEF WTrigger, guiVars, waitVars, dbVars
  <2>6. CASE WWait
    BY <2>6 DEF WWait, WGoes, guiVars, workVars, waitVars, dbVars
  <2>7. CASE WCleanup
    BY <2>7 DEF WCleanup, guiVars, waitVars, dbVars
  <2>8. CASE WPost
    BY <2>8 DEF WPost, guiVars, workVars, waitVars, dbVars
  <2> QED
    BY <1>2, <2>1, <2>2, <2>3, <2>4, <2>5, <2>6, <2>7, <2>8 DEF Worker
<1>3. ASSUME NEW p \in Protocols, DispatchBegin(p) PROVE SessionInv'
  BY <1>3 DEF DispatchBegin, guiVars, workVars, dbVars
<1>4. CASE DispatchEnd
  <2> DEFINE new == [protocol |-> frame, session |-> session]
  <2>1. /\ frame \in Protocols /\ selected = mode /\ mode \in {All, frame}
        /\ wpc \in Armed /\ session \in 1..MaxSessions
    BY <1>4, PassiveAssumption DEF DispatchEnd
  <2>2. new \in Of(mode)
    BY <2>1 DEF Of, Observations
  <2>3. \A o \in live' : o \in live \/ o = new
    BY <1>4 DEF DispatchEnd
  <2>4. /\ guiVars' = guiVars /\ session' = session /\ owned' = owned /\ wpc' = wpc
        /\ operational' = operational /\ workVars' = workVars /\ db' = db
        /\ resultVars' = resultVars
        /\ frame' = NoFrame
    BY <1>4 DEF DispatchEnd
  <2> QED
    BY <2>1, <2>2, <2>3, <2>4 DEF guiVars, workVars, Of
<1>5. CASE UNCHANGED vars
  BY <1>5 DEF vars, guiVars, workVars, waitVars, dbVars, Of
<1> QED
  BY <1>1, <1>2, <1>3, <1>4, <1>5 DEF Next

(* The invariant holds in every reachable state.                               *)
LEMMA SessionCorrect == Spec => []SessionInv
BY SessionInit, SessionStep, PTL DEF Spec

(* The database of a session is never released while its worker lives or the   *)
(* dispatcher writes to it, whatever the user presses and whatever events of   *)
(* earlier sessions arrive (PassiveDiscoveryScene.c:274-277, 350, 404-409).    *)
THEOREM DatabaseOutlivesWorker == Spec => []DbHeldInUse
<1>1. SessionInv => DbHeldInUse
  BY DEF SessionInv, WorkerInv, DbHeldInUse, Armed
<1> QED
  BY <1>1, SessionCorrect, PTL

(* No session leaves the chip accepting multicast frames                       *)
(* (passive_discovery_module.c:178, 228-229).                                  *)
THEOREM MulticastCorrect == Spec => []MulticastRestored
<1>1. SessionInv => MulticastRestored
  BY DEF SessionInv, MulticastInv, MulticastRestored, Looping, Armed
<1> QED
  BY <1>1, SessionCorrect, PTL

(* An observation leaves the database only after the merge of its session has  *)
(* dealt with it, or by the user's Clear Results: a release or a handler's     *)
(* init finds only observations of finished sessions, and finishing merges     *)
(* with the mode they were heard in.  What the merge leaves out (F4-023) is    *)
(* lost (PassiveDiscoveryScene.c:24-32).                                       *)
THEOREM LossesAreMerges == Spec => LostInMergeOnly
<1>1. SessionInv /\ [Next]_vars
         => [~ClearResults => \A o \in live \ live' : o \in saved \cup leftOut]_vars
  <2> SUFFICES ASSUME SessionInv, Next, ~ClearResults, NEW o \in live \ live'
               PROVE  o \in saved \cup leftOut
    BY DEF vars, dbVars, resultVars
  <2> USE DEF SessionInv, WorkerInv, UnmergedInv, Armed, Looping, resultVars
  <2>1. CASE Gui
    <3>1. StartRefused \/ OpenSaved \/ Finished
      BY <2>1 DEF Gui, Open, Other, StartWorker, Stop, Back, EventDropped, EventStarted,
                  EventError, FinishLive, dbVars
    <3>2. ~owned
      BY <3>1 DEF StartRefused, OpenSaved, InDiscovery, Finished, Finish
    <3> QED
      BY <3>2
  <2>2. CASE Worker
    <3>1. WInit
      BY <2>2 DEF Worker, WDevice, WLink, WReturn, WGoes, WLoop, WEnd, WRegister, WTrigger,
                  WWait, WCleanup, WPost, dbVars
    <3> QED
      BY <3>1 DEF WInit
  <2>3. CASE DispatchEnd
    BY <2>3 DEF DispatchEnd
  <2>4. ASSUME NEW p \in Protocols, DispatchBegin(p) PROVE o \in saved \cup leftOut
    BY <2>4 DEF DispatchBegin, dbVars
  <2> QED
    BY <2>1, <2>2, <2>3, <2>4 DEF Next
<1> QED
  BY <1>1, SessionCorrect, PTL DEF Spec, LostInMergeOnly
-----------------------------------------------------------------------------
(* A session does not end silently.                                           *)

ErrorOnItsWay == \E i \in DOMAIN events : events[i] \in Errors

(* The scene shows a session only while it has a worker, and asks it to stop   *)
(* only as it goes to join it; a worker that has left its loop by itself takes *)
(* an error with it, or has seen the button, and at its end the error is sent. *)
EndInv ==
    /\ events \in Seq(Errors \cup {"started"})
    /\ state \in {"starting", "listening"} => owned
    /\ owned /\ gui = "idle" => ~stop
    /\ exitEvent \in Errors \cup {"none"}
    /\ gui = "idle" /\ wpc \in {"cleanup", "post"} => exitEvent \in Errors \/ byButton
    /\ gui = "idle" /\ wpc = "done" => ErrorOnItsWay \/ byButton

(* What is sent arrives, and does not displace what is on its way.             *)
LEMMA Sent ==
    ASSUME events \in Seq(Errors \cup {"started"}), NEW e \in Errors \cup {"started"}, Send(e)
    PROVE  /\ events' \in Seq(Errors \cup {"started"})
           /\ ErrorOnItsWay => ErrorOnItsWay'
           /\ e \in Errors => ErrorOnItsWay'
<1>1. events' = Append(events, e) /\ DOMAIN events' = 1..(Len(events) + 1)
      /\ events'[Len(events) + 1] = e /\ \A i \in DOMAIN events : events'[i] = events[i]
  BY DEF Send
<1>2. DOMAIN events = 1..Len(events) /\ Len(events) \in Nat
  OBVIOUS
<1>3. events' \in Seq(Errors \cup {"started"})
  BY <1>1
<1>4. ErrorOnItsWay => ErrorOnItsWay'
  BY <1>1, <1>2 DEF ErrorOnItsWay
<1>5. e \in Errors => ErrorOnItsWay'
  BY <1>1, <1>2 DEF ErrorOnItsWay
<1> QED BY <1>3, <1>4, <1>5

(* Taking another event leaves an error on its way.                            *)
LEMMA Taken ==
    ASSUME events \in Seq(Errors \cup {"started"}), TakeEvent
    PROVE  /\ events' \in Seq(Errors \cup {"started"})
           /\ Head(events) = "started" => (ErrorOnItsWay => ErrorOnItsWay')
<1>1. events # <<>> /\ events' = Tail(events)
  BY DEF TakeEvent
<1>2. events' \in Seq(Errors \cup {"started"})
  BY <1>1
<1>3. ASSUME Head(events) = "started", ErrorOnItsWay PROVE ErrorOnItsWay'
  <2>1. PICK i \in DOMAIN events : events[i] \in Errors
    BY <1>3 DEF ErrorOnItsWay
  <2>2. i \in 1..Len(events) /\ i # 1 /\ Len(events) \in Nat
    BY <1>1, <1>3, <2>1 DEF Errors
  <2>3. i - 1 \in DOMAIN events' /\ events'[i - 1] = events[i]
    BY <1>1, <2>2
  <2> QED BY <2>1, <2>3 DEF ErrorOnItsWay
<1> QED BY <1>2, <1>3

(* No step breaks what the end of a session says.                              *)
LEMMA EndStep == SessionInv /\ EndInv /\ [Next]_vars => EndInv'
<1> SUFFICES ASSUME SessionInv, EndInv, [Next]_vars PROVE EndInv'
  OBVIOUS
<1> USE DEF SessionInv, WorkerInv, EndInv
<1>0. UNCHANGED events => UNCHANGED ErrorOnItsWay
  BY DEF ErrorOnItsWay
<1>1. CASE Gui
  <2>1. CASE Open
    BY <1>0, <2>1 DEF Open, workVars
  <2>2. CASE Other
    BY <1>0, <2>2 DEF Other, InDiscovery, workVars
  <2>3. CASE StartRefused
    BY <1>0, <2>3 DEF StartRefused, InDiscovery, workVars
  <2>4. CASE StartWorker
    BY <1>0, <2>4 DEF StartWorker, InDiscovery
  <2>5. CASE OpenSaved
    BY <1>0, <2>5 DEF OpenSaved, InDiscovery, workVars
  <2>6. CASE ClearResults
    BY <1>0, <2>6 DEF ClearResults, guiVars, workVars
  <2>7. CASE Stop
    BY <1>0, <2>7 DEF Stop, InDiscovery, FinishLive, workVars
  <2>8. CASE Back
    BY <1>0, <2>8 DEF Back, InDiscovery, FinishLive, workVars
  <2>9. CASE Finished
    BY <1>0, <2>9 DEF Finished, Finish, workVars
  <2>10. CASE EventDropped
    <3>1. scene # "discovery" /\ ~owned
      BY <2>10 DEF EventDropped
    <3>2. events' \in Seq(Errors \cup {"started"})
      BY <2>10, Taken DEF EventDropped
    <3> QED BY <2>10, <3>1, <3>2 DEF EventDropped, guiVars, workVars
  <2>11. CASE EventStarted
    <3>1. events' \in Seq(Errors \cup {"started"}) /\ (ErrorOnItsWay => ErrorOnItsWay')
      BY <2>11, Taken DEF EventStarted
    <3> QED BY <2>11, <3>1 DEF EventStarted, workVars
  <2>12. CASE EventError
    <3>1. events' \in Seq(Errors \cup {"started"})
      BY <2>12, Taken DEF EventError
    <3> QED BY <2>12, <3>1 DEF EventError, FinishLive, workVars
  <2> QED
    BY <1>1, <2>1, <2>2, <2>3, <2>4, <2>5, <2>6, <2>7, <2>8, <2>9, <2>10, <2>11, <2>12 DEF Gui
<1>2. CASE Worker
  <2>1. CASE WDevice \/ WLink
    <3>1. CASE WReturn("device", "device") \/ WReturn("link", "link")
      <4>1. \E e \in Errors : Send(e)
        BY <3>1 DEF WReturn, Errors
      <4>2. events' \in Seq(Errors \cup {"started"}) /\ ErrorOnItsWay'
        BY <4>1, Sent
      <4> QED BY <3>1, <4>2 DEF WReturn, guiVars, workVars
    <3>2. CASE WGoes("device", "link") \/ WGoes("link", "init")
      BY <1>0, <3>2 DEF WGoes, guiVars, workVars
    <3> QED BY <2>1, <3>1, <3>2 DEF WDevice, WLink
  <2>2. CASE WInit
    BY <1>0, <2>2 DEF WInit, guiVars
  <2>3. CASE WLoop
    <3>1. UNCHANGED <<guiVars, events, owned, stop>> /\ wpc = "loop"
      BY <2>3 DEF WLoop, WEnd, WGoes
    <3>2. UNCHANGED ErrorOnItsWay /\ (owned /\ gui = "idle" => ~stop)
      BY <1>0, <3>1
    <3>3. \/ wpc' = "cleanup" /\ exitEvent' = "none" /\ (stop \/ byButton')
          \/ wpc' = "cleanup" /\ exitEvent' = "scanner"
          \/ wpc' = "register" /\ UNCHANGED exitEvent
      BY <2>3 DEF WLoop, WCancelled, WEnd, WGoes, workVars
    <3>4. "scanner" \in Errors
      BY DEF Errors
    <3> QED BY <3>1, <3>2, <3>3, <3>4 DEF guiVars
  <2>4. CASE WRegister
    <3>1. UNCHANGED <<guiVars, events, owned, stop>> /\ wpc = "register"
      BY <2>4 DEF WRegister, WEnd
    <3>2. UNCHANGED ErrorOnItsWay
      BY <1>0, <3>1
    <3>3. \/ wpc' = "cleanup" /\ exitEvent' \in {"scanner", "rx"}
          \/ wpc' = "trigger" /\ UNCHANGED exitEvent
      BY <2>4 DEF WRegister, WEnd, workVars
    <3>4. {"scanner", "rx"} \subseteq Errors
      BY DEF Errors
    <3> QED BY <3>1, <3>2, <3>3, <3>4 DEF guiVars
  <2>5. CASE WTrigger
    <3>1. events' \in Seq(Errors \cup {"started"})
      BY <2>5, Sent DEF WTrigger
    <3> QED BY <2>5, <3>1 DEF WTrigger, guiVars
  <2>6. CASE WWait
    BY <1>0, <2>6 DEF WWait, WGoes, guiVars, workVars
  <2>7. CASE WCleanup
    BY <1>0, <2>7 DEF WCleanup, guiVars
  <2>8. CASE WPost
    <3>1. CASE exitEvent \in Errors /\ ~stop
      <4>1. Send(exitEvent)
        BY <2>8, <3>1 DEF WPost, Errors
      <4>2. events' \in Seq(Errors \cup {"started"}) /\ ErrorOnItsWay'
        BY <3>1, <4>1, Sent
      <4> QED BY <2>8, <4>2 DEF WPost, guiVars, workVars
    <3>2. CASE ~(exitEvent \in Errors /\ ~stop)
      <4>1. gui = "idle" => byButton
        BY <2>8, <3>2 DEF WPost
      <4>2. CASE UNCHANGED events
        BY <1>0, <2>8, <4>1, <4>2 DEF WPost, guiVars, workVars
      <4>3. CASE exitEvent # "none" /\ ~stop /\ Send(exitEvent)
        <5>1. exitEvent \in Errors
          BY <4>3
        <5> QED BY <3>2, <4>3, <5>1
      <4> QED BY <2>8, <4>2, <4>3 DEF WPost
    <3> QED BY <3>1, <3>2
  <2> QED
    BY <1>2, <2>1, <2>2, <2>3, <2>4, <2>5, <2>6, <2>7, <2>8 DEF Worker
<1>3. ASSUME NEW p \in Protocols, DispatchBegin(p) PROVE EndInv'
  BY <1>0, <1>3 DEF DispatchBegin, guiVars, workVars
<1>4. CASE DispatchEnd
  BY <1>0, <1>4 DEF DispatchEnd, guiVars, workVars
<1>5. CASE UNCHANGED vars
  BY <1>0, <1>5 DEF vars, guiVars, workVars
<1> QED
  BY <1>1, <1>2, <1>3, <1>4, <1>5 DEF Next

(* While the scene shows a session, its worker is running, its error is on the *)
(* way, or the BACK button has ended it                                        *)
(* (passive_discovery_module.c:160-170, 191-235).                              *)
THEOREM NeverSilent == Spec => []NoSilentEnd
<1>1. Init => EndInv
  BY DEF Init, EndInv
<1>2. SessionInv /\ EndInv => NoSilentEnd
  BY DEF SessionInv, WorkerInv, EndInv, ErrorOnItsWay, NoSilentEnd
<1> QED
  BY <1>1, <1>2, EndStep, SessionCorrect, PTL DEF Spec
-----------------------------------------------------------------------------
(* Types.                                                                      *)

SceneTypes ==
    /\ scene \in {"menu", "discovery", "list"}
    /\ state \in {"config", "starting", "listening", "finished", "error"}
    /\ gui \in {"idle", "stop", "back", "leave", "error"}
    /\ mode \in Modes /\ selected \in Modes
    /\ wpc \in {"none", "device", "link", "init", "loop", "register", "cleanup", "post", "done"}
                  \cup Armed
    /\ frame \in Protocols \cup {NoFrame}

FlagTypes ==
    /\ owned \in BOOLEAN /\ stop \in BOOLEAN /\ operational \in BOOLEAN
    /\ announced \in BOOLEAN /\ byButton \in BOOLEAN /\ matched \in BOOLEAN
    /\ multicast \in BOOLEAN /\ db \in BOOLEAN

ResultTypes ==
    live \subseteq Observations /\ saved \subseteq Observations /\ leftOut \subseteq Observations

(* What the scene shows, the position of the worker and the frame it is asked  *)
(* about stay in their ranges.                                                 *)
LEMMA SceneTyped == SceneTypes /\ [Next]_vars => SceneTypes'
<1> SUFFICES ASSUME SceneTypes, [Next]_vars PROVE SceneTypes'
  OBVIOUS
<1> USE DEF SceneTypes, Armed, guiVars, workVars, waitVars
<1>1. CASE Gui
  <2>1. CASE Finished
    <3>1. gui # "idle" /\ gui' = "idle" /\ wpc' = "none" /\ UNCHANGED <<mode, selected, frame>>
      BY <2>1 DEF Finished, Finish
    <3>2. state' \in {"config", "starting", "listening", "finished", "error"}
      BY <2>1 DEF Finished, Finish
    <3>3. scene' \in {"menu", "discovery", "list"}
      BY <2>1 DEF Finished, Finish
    <3> QED BY <3>1, <3>2, <3>3
  <2>2. CASE Open \/ Other \/ StartRefused \/ StartWorker \/ OpenSaved \/ ClearResults
    BY <2>2 DEF Open, Other, StartRefused, StartWorker, OpenSaved, ClearResults
  <2>3. CASE Stop \/ Back \/ EventDropped \/ EventStarted \/ EventError
    BY <2>3 DEF Stop, Back, EventDropped, EventStarted, EventError, FinishLive
  <2> QED BY <1>1, <2>1, <2>2, <2>3 DEF Gui
<1>2. CASE Worker
  <2>1. CASE WDevice \/ WLink \/ WInit \/ WTrigger \/ WWait
    BY <2>1 DEF WDevice, WLink, WReturn, WGoes, WInit, WTrigger, WWait
  <2>2. CASE WLoop \/ WRegister \/ WCleanup \/ WPost
    BY <2>2 DEF WLoop, WEnd, WGoes, WRegister, WCleanup, WPost
  <2> QED BY <1>2, <2>1, <2>2 DEF Worker
<1>3. CASE DispatchEnd \/ (\E p \in Protocols : DispatchBegin(p))
  BY <1>3 DEF DispatchEnd, DispatchBegin
<1> QED BY <1>1, <1>2, <1>3 DEF Next, vars

(* Flags stay flags.                                                           *)
LEMMA FlagsTyped == FlagTypes /\ [Next]_vars => FlagTypes'
<1> SUFFICES ASSUME FlagTypes, [Next]_vars PROVE FlagTypes'
  OBVIOUS
<1> USE DEF FlagTypes, workVars, waitVars, dbVars
<1>1. CASE Gui
  <2>1. CASE Finished
    BY <2>1 DEF Finished, Finish
  <2>2. CASE Open
    BY <2>2 DEF Open
  <2>7. CASE Other \/ ClearResults
    BY <2>7 DEF Other, ClearResults
  <2>3. CASE StartWorker \/ OpenSaved
    BY <2>3 DEF StartWorker, OpenSaved
  <2>4. CASE StartRefused
    BY <2>4 DEF StartRefused
  <2>5. CASE Stop \/ Back \/ EventError
    BY <2>5 DEF Stop, Back, EventError, FinishLive
  <2>6. CASE EventDropped \/ EventStarted
    BY <2>6 DEF EventDropped, EventStarted
  <2> QED BY <1>1, <2>1, <2>2, <2>3, <2>4, <2>5, <2>6, <2>7 DEF Gui
<1>2. CASE Worker
  <2>1. CASE WDevice
    BY <2>1 DEF WDevice, WReturn, WGoes
  <2>6. CASE WLink
    BY <2>6 DEF WLink, WReturn, WGoes
  <2>7. CASE WWait
    BY <2>7 DEF WWait, WReturn, WGoes
  <2>2. CASE WInit \/ WTrigger
    BY <2>2 DEF WInit, WTrigger
  <2>3. CASE WLoop
    BY <2>3 DEF WLoop, WEnd, WGoes
  <2>4. CASE WRegister
    BY <2>4 DEF WRegister, WEnd
  <2>5. CASE WCleanup \/ WPost
    BY <2>5 DEF WCleanup, WPost
  <2> QED BY <1>2, <2>1, <2>2, <2>3, <2>4, <2>5, <2>6, <2>7 DEF Worker
<1>3. CASE DispatchEnd \/ (\E p \in Protocols : DispatchBegin(p))
  BY <1>3 DEF DispatchEnd, DispatchBegin
<1> QED BY <1>1, <1>2, <1>3 DEF Next, vars

(* The database holds observations of sessions that were started.              *)
LEMMA ResultsTyped == SessionInv /\ ResultTypes /\ [Next]_vars => ResultTypes'
<1> SUFFICES ASSUME SessionInv, ResultTypes, [Next]_vars PROVE ResultTypes'
  OBVIOUS
<1> USE DEF ResultTypes, dbVars, resultVars
<1>1. CASE Gui
  <2>1. CASE Finished
    BY <2>1 DEF Finished, Finish, Covered
  <2>2. CASE Open \/ Other \/ StartRefused \/ StartWorker \/ OpenSaved \/ ClearResults
    BY <2>2 DEF Open, Other, StartRefused, StartWorker, OpenSaved, ClearResults
  <2>3. CASE Stop \/ Back \/ EventDropped \/ EventStarted \/ EventError
    BY <2>3 DEF Stop, Back, EventDropped, EventStarted, EventError, FinishLive
  <2> QED BY <1>1, <2>1, <2>2, <2>3 DEF Gui
<1>2. CASE Worker
  <2>1. CASE WDevice \/ WLink \/ WInit \/ WTrigger \/ WWait
    BY <2>1 DEF WDevice, WLink, WReturn, WGoes, WInit, WTrigger, WWait
  <2>2. CASE WLoop \/ WRegister \/ WCleanup \/ WPost
    BY <2>2 DEF WLoop, WEnd, WGoes, WRegister, WCleanup, WPost
  <2> QED BY <1>2, <2>1, <2>2 DEF Worker
<1>3. CASE DispatchEnd
  <2>1. frame \in Protocols /\ session \in 1..MaxSessions
    BY <1>3, PassiveAssumption DEF DispatchEnd, SessionInv, WorkerInv, ModeInv, Armed
  <2>2. [protocol |-> frame, session |-> session] \in Observations
    BY <2>1 DEF Observations
  <2> QED BY <1>3, <2>2 DEF DispatchEnd
<1>4. CASE \E p \in Protocols : DispatchBegin(p)
  BY <1>4 DEF DispatchBegin
<1> QED BY <1>1, <1>2, <1>3, <1>4 DEF Next, vars

(* Every variable keeps its type, for any protocols and sessions: what is in   *)
(* the database was heard by a session that was started, and a worker is in    *)
(* the slot exactly while it has a step to take                                *)
(* (PassiveDiscoveryScene.c:274-300, neighbor_db.c).                           *)
THEOREM DiscoveryTypeCorrect == Spec => []TypeOK
<1> DEFINE TypeInv == SceneTypes /\ FlagTypes /\ ResultTypes
<1>1. Init => EndInv
  BY DEF Init, EndInv
<1>2. Init => TypeInv
  <2> SUFFICES ASSUME Init PROVE TypeInv
    OBVIOUS
  <2>1. SceneTypes
    BY DEF Init, SceneTypes, Modes
  <2>2. FlagTypes
    BY DEF Init, FlagTypes
  <2>3. ResultTypes
    BY DEF Init, ResultTypes
  <2> QED BY <2>1, <2>2, <2>3
<1>3. SessionInv /\ TypeInv /\ [Next]_vars => TypeInv'
  BY SceneTyped, FlagsTyped, ResultsTyped
<1>4. SessionInv /\ EndInv /\ TypeInv => TypeOK
  BY DEF TypeOK, SessionInv, WorkerInv, ModeInv, EndInv, SceneTypes, FlagTypes, ResultTypes
<1> QED
  BY <1>1, <1>2, <1>3, <1>4, EndStep, SessionCorrect, PTL DEF Spec

-----------------------------------------------------------------------------
(* The neighbour database.                                                     *)

(* The occupied slots, and what a slot holds a record of.                       *)
Occupied == {i \in Slots : neighbors[i].source # "none"}
SlotKey(i) == <<neighbors[i].mac, neighbors[i].source>>

(* Slots and adverts correspond: a slot for each neighbour and protocol heard.  *)
DatabaseInv ==
    /\ neighbors = [i \in Slots |-> neighbors[i]]
    /\ \A k \in DOMAIN heard : IsAdvert(heard[k]) /\ Key(heard[k]) = k
    /\ \A i \in Occupied :
          SlotKey(i) \in DOMAIN heard /\ neighbors[i] = Expected(heard[SlotKey(i)])
    /\ \A k \in DOMAIN heard : \E i \in Occupied : SlotKey(i) = k
    /\ \A i, j \in Occupied : SlotKey(i) = SlotKey(j) => i = j

(* The record expected of an advert is of the same neighbour and protocol.      *)
LEMMA ExpectedFields ==
  ASSUME NEW a, IsAdvert(a)
  PROVE  /\ Expected(a).mac = a.record.mac /\ Expected(a).source = a.record.source
         /\ Expected(a).name = Kept(a.record.name, NameSize, a.record.source)
         /\ Expected(a).source # "none"
BY DEF IsAdvert, Expected, Free, Blank, Handlers

(* Keeping an identity keeps it of the record that is expected.                 *)
LEMMA ExpectedRenamed ==
  ASSUME NEW a, NEW b, IsAdvert(a), IsAdvert(b),
         a.record.source = "eapol", b.record.source = "eapol"
  PROVE  /\ Expected([a EXCEPT !.record.name = b.record.name])
               = [Expected(a) EXCEPT !.name = Expected(b).name]
         /\ IsAdvert([a EXCEPT !.record.name = b.record.name])
         /\ Key([a EXCEPT !.record.name = b.record.name]) = Key(a)
<1> DEFINE r == [a.record EXCEPT !.name = b.record.name]
           c == [a EXCEPT !.record.name = b.record.name]
<1>1. c.record = r
  BY DEF IsAdvert
<1>2. IsAdvert(c)
  BY <1>1 DEF IsAdvert, Free, Blank
<1>3. Key(c) = Key(a)
  BY <1>1 DEF IsAdvert, Key, Free, Blank
<1> DEFINE kept(text) == Kept(text, NameSize, "eapol")
           e(s) == [s EXCEPT !.name = kept(@), !.port = kept(@), !.chassis = kept(@),
                             !.vlanName = kept(@), !.description = NoText]
<1>4. Expected(a) = e(a.record) /\ Expected(b) = e(b.record) /\ Expected(c) = e(c.record)
  <2>1. r.source = "eapol"
    BY DEF IsAdvert, Free, Blank
  <2> QED
    BY <1>1, <2>1 DEF Expected
<1> HIDE DEF kept
<1>5. e(r) = [e(a.record) EXCEPT !.name = e(b.record).name]
  <2>1. "name" \in DOMAIN a.record /\ "name" \in DOMAIN b.record
    BY DEF IsAdvert, Free, Blank
  <2> QED
    BY <2>1 DEF IsAdvert
<1>6. Expected(c) = [Expected(a) EXCEPT !.name = Expected(b).name]
  BY <1>1, <1>4, <1>5
<1> QED
  BY <1>2, <1>3, <1>6

(* Slots and what was heard are equally many.                                   *)
LEMMA SlotsCounted ==
  ASSUME DatabaseInv
  PROVE  /\ Cardinality(Occupied) = Cardinality(DOMAIN heard)
         /\ Cardinality(DOMAIN heard) < MaxEntries <=> Occupied # Slots
<1>1. IsFiniteSet(Slots) /\ Cardinality(Slots) = MaxEntries
  BY FS_Interval, ReceiptsAssumption DEF Slots
<1>2. /\ IsFiniteSet(Occupied) /\ Cardinality(Occupied) <= MaxEntries
      /\ Cardinality(Occupied) = MaxEntries => Occupied = Slots
  BY <1>1, FS_Subset DEF Occupied
<1>3. Cardinality(Occupied) \in Nat
  BY <1>2, FS_CardinalityType
<1> DEFINE f == [i \in Occupied |-> SlotKey(i)]
<1>4. f \in Bijection(Occupied, DOMAIN heard)
  BY DEF DatabaseInv, Bijection, Injection, Surjection, IsInjective
<1>5. Cardinality(Occupied) = Cardinality(DOMAIN heard)
  BY <1>2, <1>4, FS_Bijection DEF ExistsBijection
<1> QED
  BY <1>1, <1>2, <1>3, <1>5, ReceiptsAssumption

(* The first slot that is free.                                                 *)
LEMMA FirstFree ==
  ASSUME NEW S, S \subseteq Slots, S # {}
  PROVE  \E i \in S : {j \in S : \A k \in S : j <= k} = {i}
<1>1. S \subseteq Nat
  BY ReceiptsAssumption DEF Slots
<1>2. PICK i \in S : \A j \in S : ~(<<j, i>> \in OpToRel(<, Nat))
  BY <1>1, NatLessThanWellFounded, WFMin
<1>3. \A j \in S : ~(j < i)
  BY <1>1, <1>2 DEF OpToRel
<1>4. \A j \in S : j \in Nat /\ i <= j /\ (j <= i => j = i)
  BY <1>1, <1>3
<1>5. \A j \in S : (\A k \in S : j <= k) <=> j = i
  BY <1>4
<1> QED
  BY <1>5

(* Storing what is expected of an advert in the slot of its neighbour and       *)
(* protocol, or in one that is free, keeps slots and adverts in correspondence. *)
LEMMA Stored ==
  ASSUME DatabaseInv,
         NEW a, IsAdvert(a), NEW i \in Slots,
         \/ i \in Occupied /\ SlotKey(i) = Key(a)
         \/ i \notin Occupied /\ Key(a) \notin DOMAIN heard,
         neighbors' = [j \in Slots |-> IF j = i THEN Expected(a) ELSE neighbors[j]],
         heard' = [k \in DOMAIN heard \cup {Key(a)} |-> IF k = Key(a) THEN a ELSE heard[k]]
  PROVE  DatabaseInv'
<1>1. /\ Occupied' = Occupied \cup {i}
      /\ SlotKey(i)' = Key(a) /\ neighbors'[i] = Expected(a)
      /\ \A j \in Occupied \ {i} : SlotKey(j)' = SlotKey(j) /\ neighbors'[j] = neighbors[j]
  BY ExpectedFields DEF Occupied, SlotKey, Key
<1>2. \A j \in Occupied \ {i} : SlotKey(j) # Key(a)
  BY DEF DatabaseInv
<1>3. (\A k \in DOMAIN heard : IsAdvert(heard[k]) /\ Key(heard[k]) = k)'
  <2> SUFFICES ASSUME NEW k \in DOMAIN heard'
               PROVE  IsAdvert(heard'[k]) /\ Key(heard'[k]) = k
    BY Zenon DEF Key, IsAdvert, Free
  <2>1. CASE k = Key(a)
    BY <2>1
  <2>2. CASE k # Key(a)
    BY <2>2 DEF DatabaseInv
  <2> QED
    BY <2>1, <2>2
<1>4. (\A j \in Occupied :
          SlotKey(j) \in DOMAIN heard /\ neighbors[j] = Expected(heard[SlotKey(j)]))'
  <2> SUFFICES ASSUME NEW j \in Occupied'
               PROVE  SlotKey(j)' \in DOMAIN heard' /\ neighbors'[j] = Expected(heard'[SlotKey(j)'])
    BY Zenon DEF Expected, KeptParts, Platform, Software
  <2>1. CASE j = i
    BY <1>1, <2>1
  <2>2. CASE j # i
    BY <1>1, <1>2, <2>2 DEF DatabaseInv
  <2> QED
    BY <2>1, <2>2
<1>5. (\A k \in DOMAIN heard : \E j \in Occupied : SlotKey(j) = k)'
  BY <1>1 DEF DatabaseInv
<1>6. (\A j, k \in Occupied : SlotKey(j) = SlotKey(k) => j = k)'
  BY <1>1, <1>2 DEF DatabaseInv
<1>7. (neighbors = [j \in Slots |-> neighbors[j]])'
  BY DEF Slots
<1> QED
  BY <1>3, <1>4, <1>5, <1>6, <1>7 DEF DatabaseInv

(* Forgetting the records of some handlers forgets their adverts.               *)
LEMMA Forgotten ==
  ASSUME DatabaseInv, NEW sources \in SUBSET Handlers, Forget(sources)
  PROVE  DatabaseInv'
<1>1. Free.source = "none" /\ "none" \notin sources
  BY DEF Free, Blank, Handlers
<1>2. /\ Occupied' = {i \in Occupied : neighbors[i].source \notin sources}
      /\ \A i \in Occupied' : neighbors'[i] = neighbors[i] /\ SlotKey(i)' = SlotKey(i)
  BY <1>1 DEF Forget, Occupied, SlotKey
<1>3. \A k : k \in DOMAIN heard' <=> k \in DOMAIN heard /\ k[2] \notin sources
  BY DEF Forget
<1>4. \A k \in DOMAIN heard' : heard'[k] = heard[k]
  BY DEF Forget
<1>5. \A i : SlotKey(i)[2] = neighbors[i].source
  BY DEF SlotKey
<1>6. (\A k \in DOMAIN heard : IsAdvert(heard[k]) /\ Key(heard[k]) = k)'
  <2> SUFFICES ASSUME NEW k \in DOMAIN heard'
               PROVE  IsAdvert(heard'[k]) /\ Key(heard'[k]) = k
    BY Zenon DEF Key, IsAdvert, Free
  <2> QED
    BY <1>3, <1>4 DEF DatabaseInv
<1>7. (\A i \in Occupied :
          SlotKey(i) \in DOMAIN heard /\ neighbors[i] = Expected(heard[SlotKey(i)]))'
  <2> SUFFICES ASSUME NEW i \in Occupied'
               PROVE  SlotKey(i)' \in DOMAIN heard' /\ neighbors'[i] = Expected(heard'[SlotKey(i)'])
    BY Zenon DEF Expected, KeptParts, Platform, Software
  <2>1. /\ i \in Occupied /\ neighbors[i].source \notin sources
        /\ neighbors'[i] = neighbors[i] /\ SlotKey(i)' = SlotKey(i)
    BY <1>2
  <2>2. SlotKey(i) \in DOMAIN heard /\ neighbors[i] = Expected(heard[SlotKey(i)])
    BY <2>1 DEF DatabaseInv
  <2>3. SlotKey(i) \in DOMAIN heard'
    BY <1>3, <1>5, <2>1, <2>2
  <2> QED
    BY <1>4, <2>1, <2>2, <2>3
<1>8. (\A k \in DOMAIN heard : \E i \in Occupied : SlotKey(i) = k)'
  <2> SUFFICES ASSUME NEW k \in DOMAIN heard' PROVE \E i \in Occupied' : SlotKey(i)' = k
    BY Zenon
  <2>1. k \in DOMAIN heard /\ k[2] \notin sources
    BY <1>3
  <2>2. PICK i \in Occupied : SlotKey(i) = k
    BY <2>1 DEF DatabaseInv
  <2>3. i \in Occupied'
    BY <1>2, <1>5, <2>1, <2>2
  <2> QED
    BY <1>2, <2>2, <2>3
<1>9. (\A i, j \in Occupied : SlotKey(i) = SlotKey(j) => i = j)'
  BY <1>2 DEF DatabaseInv
<1>10. (neighbors = [i \in Slots |-> neighbors[i]])'
  BY DEF Forget, Slots
<1> QED
  BY <1>6, <1>7, <1>8, <1>9, <1>10 DEF DatabaseInv

(* A frame leaves its whole advert in the slot of its neighbour, or in the      *)
(* first that is free, unless there is none or it is for no selected handler.   *)
LEMMA Received ==
  ASSUME FramesParsed, DatabaseInv, NEW sources, NEW receipt \in Receipts,
         Receive(sources, receipt)
  PROVE  DatabaseInv'
<1> DEFINE a == receipt.advert
           n == Expected(a)
           b == Renamed(a)
<1>1. IsAdvert(a)
  BY ReceiptsAssumption
<1>2. receipt.records = IF receipt.whole THEN {n} ELSE {}
  BY DEF FramesParsed, Accepted, Rejected
<1>3. CASE ~receipt.whole \/ a.record.source \notin sources
  <2>1. UNCHANGED databaseVars
    BY <1>2, <1>3 DEF Receive, Process, Rejected, databaseVars
  <2> QED
    BY <2>1 DEF databaseVars, DatabaseInv, Occupied, SlotKey
<1>4. CASE receipt.whole /\ a.record.source \in sources
  <2>1. /\ neighbors' = [i \in Slots |-> IF i \in Place(n) THEN Completed(n) ELSE neighbors[i]]
        /\ IF Key(a) \in DOMAIN heard \/ Cardinality(DOMAIN heard) < MaxEntries
              THEN heard' = [k \in DOMAIN heard \cup {Key(a)} |-> IF k = Key(a) THEN b ELSE heard[k]]
              ELSE UNCHANGED heard
    BY <1>2, <1>4 DEF Receive, Process, Rejected, Note
  <2>2. Known(n) = {i \in Occupied : SlotKey(i) = Key(a)}
    BY <1>1, ExpectedFields DEF Known, Occupied, SlotKey, Key
  <2>3. CASE Key(a) \in DOMAIN heard
    <3>1. PICK i \in Occupied : SlotKey(i) = Key(a) /\ Known(n) = {i}
      BY <2>2, <2>3 DEF DatabaseInv
    <3>2. Place(n) = {i}
      BY <3>1 DEF Place
    <3>3. Completed(n) = Expected(b) /\ IsAdvert(b) /\ Key(b) = Key(a)
      <4>1. n.source = a.record.source /\ n.name = Kept(a.record.name, NameSize, a.record.source)
        BY <1>1, ExpectedFields
      <4>2. CASE ~Unnamed(a)
        BY <1>1, <4>1, <4>2 DEF Completed, Renamed, Unnamed
      <4>3. CASE Unnamed(a)
        <5> DEFINE old == heard[Key(a)]
        <5>1. IsAdvert(old) /\ Key(old) = Key(a) /\ neighbors[i] = Expected(old)
          BY <2>3, <3>1 DEF DatabaseInv
        <5>2. old.record.source = "eapol" /\ a.record.source = "eapol"
          BY <4>3, <5>1 DEF Key, Unnamed
        <5>3. b = [a EXCEPT !.record.name = old.record.name]
          BY <2>3, <4>3 DEF Renamed
        <5>4. Completed(n) = [n EXCEPT !.name = Expected(old).name]
          <6>1. (CHOOSE j \in Known(n) : TRUE) = i
            BY <3>1
          <6> QED
            BY <3>1, <4>1, <4>3, <5>1, <6>1 DEF Completed, Unnamed
        <5> QED
          BY <1>1, <5>1, <5>2, <5>3, <5>4, ExpectedRenamed
      <4> QED
        BY <4>2, <4>3
    <3>4. neighbors' = [j \in Slots |-> IF j = i THEN Expected(b) ELSE neighbors[j]]
      BY <2>1, <3>2, <3>3
    <3>5. heard' = [k \in DOMAIN heard \cup {Key(b)} |-> IF k = Key(b) THEN b ELSE heard[k]]
      BY <2>1, <2>3, <3>3
    <3> QED
      BY <3>1, <3>3, <3>4, <3>5, Stored DEF Occupied
  <2>4. CASE Key(a) \notin DOMAIN heard
    <3>1. Known(n) = {}
      BY <2>2, <2>4 DEF DatabaseInv
    <3>2. Completed(n) = n /\ b = a
      BY <2>4, <3>1 DEF Completed, Renamed
    <3> DEFINE free == {i \in Slots : neighbors[i].source = "none"}
    <3>3. free = Slots \ Occupied /\ Place(n) = {i \in free : \A j \in free : i <= j}
      BY <3>1 DEF Place, Occupied
    <3>4. CASE Cardinality(DOMAIN heard) < MaxEntries
      <4>1. free # {} /\ free \subseteq Slots
        BY <3>3, <3>4, SlotsCounted DEF Occupied
      <4>2. PICK i \in free : Place(n) = {i}
        BY <3>3, <4>1, FirstFree
      <4>3. neighbors' = [j \in Slots |-> IF j = i THEN Expected(a) ELSE neighbors[j]]
        BY <2>1, <3>2, <4>2
      <4>4. heard' = [k \in DOMAIN heard \cup {Key(a)} |-> IF k = Key(a) THEN a ELSE heard[k]]
        BY <2>1, <3>2, <3>4
      <4> QED
        BY <1>1, <2>4, <3>3, <4>3, <4>4, Stored
    <3>5. CASE ~(Cardinality(DOMAIN heard) < MaxEntries)
      <4>1. free = {}
        BY <3>3, <3>5, SlotsCounted
      <4>2. neighbors' = neighbors /\ heard' = heard
        BY <2>1, <2>4, <3>3, <3>5, <4>1 DEF DatabaseInv
      <4> QED
        BY <4>2 DEF DatabaseInv, Occupied, SlotKey
    <3> QED
      BY <3>4, <3>5
  <2> QED
    BY <2>3, <2>4
<1> QED
  BY <1>3, <1>4

(* The correspondence is what the property says.                                *)
LEMMA Advertised ==
  ASSUME DatabaseInv
  PROVE  RecordsAreAdvertised
<1>1. {neighbors[i] : i \in Occupied} = {Expected(heard[k]) : k \in DOMAIN heard}
  BY DEF DatabaseInv
<1> QED
  BY <1>1, SlotsCounted DEF RecordsAreAdvertised, Occupied

(* The correspondence holds at first, and no call of the database breaks it.    *)
LEMMA DatabaseInit ==
  ASSUME DbInit
  PROVE  DatabaseInv
<1>1. DOMAIN heard = {}
  BY DEF DbInit
<1>2. Occupied = {}
  BY DEF DbInit, Occupied, EmptyDb, Free, Blank
<1> QED
  BY <1>1, <1>2 DEF DbInit, DatabaseInv, EmptyDb

(* What a neighbour is known by stays right over every step of the database.   *)
LEMMA DatabaseStep ==
  ASSUME FramesParsed, DatabaseInv, [DbNext]_databaseVars
  PROVE  DatabaseInv'
<1>1. CASE Release
  <2>1. DOMAIN heard' = {}
    BY <1>1 DEF Release
  <2>2. Occupied' = {}
    BY <1>1 DEF Release, Occupied, EmptyDb, Free, Blank
  <2> QED
    BY <1>1, <2>1, <2>2 DEF Release, DatabaseInv, EmptyDb
<1>2. ASSUME NEW sources \in SUBSET Handlers, Forget(sources) PROVE DatabaseInv'
  BY <1>2, Forgotten
<1>3. ASSUME NEW sources \in SUBSET Handlers, NEW receipt \in Receipts, Receive(sources, receipt)
      PROVE  DatabaseInv'
  BY <1>3, Received
<1>4. CASE UNCHANGED databaseVars
  BY <1>4 DEF databaseVars, DatabaseInv, Occupied, SlotKey
<1> QED
  BY <1>1, <1>2, <1>3, <1>4 DEF DbNext

(* Whatever is received, forgotten and released in whatever order, the          *)
(* database holds what was last advertised, if the handlers do their part       *)
(* (neighbor_db.c:24-58, lldp.c:453-528, cdp.c:168-299, eapol.c:90-161).        *)
THEOREM RecordsCorrect ==
  ASSUME FramesParsed
  PROVE  DbSpec => []RecordsAreAdvertised
<1>1. DbInit => DatabaseInv
  BY DatabaseInit
<1>2. DatabaseInv /\ [DbNext]_databaseVars => DatabaseInv'
  BY DatabaseStep
<1>3. DatabaseInv => RecordsAreAdvertised
  BY Advertised
<1> QED
  BY <1>1, <1>2, <1>3, PTL DEF DbSpec

-----------------------------------------------------------------------------
(* The layout of details.                                                      *)

(* Induction over the natural numbers, for the set of those that have a         *)
(* property.                                                                    *)
LEMMA Least ==
  ASSUME NEW S, S \subseteq Nat, S # {}
  PROVE  \E n \in S : \A m \in S : n <= m
<1>1. PICK n \in S : \A m \in S : ~(<<m, n>> \in OpToRel(<, Nat))
  BY NatLessThanWellFounded, WFMin
<1>2. \A m \in S : ~(m < n)
  BY <1>1 DEF OpToRel
<1> QED
  BY <1>2

(* Induction over the naturals, for a set instead of a predicate: a least number*)
(* outside of the set would have a predecessor in it.                          *)
LEMMA Induction ==
  ASSUME NEW S, 0 \in S, \A n \in Nat : n \in S => n + 1 \in S
  PROVE  Nat \subseteq S
<1> SUFFICES ASSUME Nat \ S # {} PROVE FALSE
  OBVIOUS
<1>1. PICK n \in Nat \ S : \A m \in Nat \ S : n <= m
  BY Least
<1>2. n # 0 /\ n - 1 \in Nat /\ n - 1 \in S
  BY <1>1
<1> QED
  BY <1>2

(* A step function can be iterated, so it defines a function by recursion.      *)
Follows(f, x, step) == f[0] = x /\ \A n \in Nat : f[n + 1] = step[n][f[n]]
Solves(f, x, step) == f = [n \in Nat |-> IF n = 0 THEN x ELSE step[n - 1][f[n - 1]]]

(* A step function can be iterated from any start: the finite iterations exist,*)
(* agree where both are defined, and together are one function.                *)
LEMMA Iterates ==
  ASSUME NEW D, NEW x \in D, NEW step \in [Nat -> [D -> D]]
  PROVE  \E f \in [Nat -> D] : Follows(f, x, step)
<1> DEFINE upTo(m, f) == /\ f \in [0..m -> D] /\ f[0] = x
                         /\ \A n \in 0..(m - 1) : f[n + 1] = step[n][f[n]]
           S == {m \in Nat : \E f \in [0..m -> D] : upTo(m, f)}
<1>1. 0 \in S
  <2>1. [n \in 0..0 |-> x] \in [0..0 -> D] /\ upTo(0, [n \in 0..0 |-> x])
    OBVIOUS
  <2> QED
    BY <2>1
<1>2. ASSUME NEW m \in Nat, m \in S PROVE m + 1 \in S
  <2>1. PICK f \in [0..m -> D] : upTo(m, f)
    BY <1>2
  <2> DEFINE g == [n \in 0..(m + 1) |-> IF n = m + 1 THEN step[m][f[m]] ELSE f[n]]
  <2>2. f[m] \in D /\ step[m][f[m]] \in D
    OBVIOUS
  <2>3. /\ g \in [0..(m + 1) -> D] /\ g[0] = f[0] /\ g[m + 1] = step[m][f[m]]
        /\ \A n \in 0..m : g[n] = f[n]
    BY <2>2
  <2> HIDE DEF g
  <2>4. g[0] = x
    BY <2>1, <2>3
  <2>5. ASSUME NEW n \in 0..m PROVE g[n + 1] = step[n][g[n]]
    <3>1. CASE n = m
      BY <2>3, <3>1
    <3>2. CASE n # m
      <4>1. n \in 0..(m - 1) /\ n + 1 \in 0..m
        BY <3>2
      <4> QED
        BY <2>1, <2>3, <4>1
    <3> QED
      BY <3>1, <3>2
  <2>6. \A n \in 0..((m + 1) - 1) : g[n + 1] = step[n][g[n]]
    <3>1. 0..((m + 1) - 1) = 0..m
      OBVIOUS
    <3> QED
      BY <2>5, <3>1
  <2>7. g \in [0..(m + 1) -> D] /\ upTo(m + 1, g)
    BY <2>3, <2>4, <2>6, Zenon
  <2>8. m + 1 \in Nat
    OBVIOUS
  <2> QED
    BY <2>7, <2>8, Zenon
<1> HIDE DEF S
<1>3. Nat \subseteq S
  BY <1>1, <1>2, Induction
<1> DEFINE F(m) == CHOOSE f \in [0..m -> D] : upTo(m, f)
<1>4. \A m \in Nat : upTo(m, F(m))
  BY <1>3 DEF S
<1> HIDE DEF F
<1>5. \A m \in Nat : F(m + 1)[m] = F(m)[m]
  <2> SUFFICES ASSUME NEW m \in Nat PROVE F(m + 1)[m] = F(m)[m]
    OBVIOUS
  <2> DEFINE E == {n \in Nat : n <= m => F(m + 1)[n] = F(m)[n]}
  <2>1. upTo(m, F(m)) /\ upTo(m + 1, F(m + 1))
    BY <1>4
  <2>2. 0 \in E
    BY <2>1
  <2>3. ASSUME NEW n \in Nat, n \in E PROVE n + 1 \in E
    BY <2>1, <2>3
  <2> HIDE DEF E
  <2>4. Nat \subseteq E
    BY <2>2, <2>3, Induction
  <2> QED
    BY <2>4 DEF E
<1> DEFINE h == [n \in Nat |-> F(n)[n]]
<1>6. h \in [Nat -> D] /\ h[0] = x
  BY <1>4
<1>7. \A n \in Nat : h[n + 1] = step[n][h[n]]
  <2> SUFFICES ASSUME NEW n \in Nat PROVE h[n + 1] = step[n][h[n]]
    OBVIOUS
  <2>1. upTo(n + 1, F(n + 1))
    BY <1>4
  <2>2. F(n + 1)[n + 1] = step[n][F(n + 1)[n]]
    BY <2>1
  <2> QED
    BY <1>5, <2>2
<1> QED
  BY <1>6, <1>7 DEF Follows

(* A recursive definition over the naturals has a solution.                    *)
LEMMA Recursion ==
  ASSUME NEW D, NEW x \in D, NEW step \in [Nat -> [D -> D]]
  PROVE  \E f \in [Nat -> D] : Solves(f, x, step)
<1>1. PICK f \in [Nat -> D] : Follows(f, x, step)
  BY Iterates, Zenon
<1>2. ASSUME NEW n \in Nat PROVE f[n] = IF n = 0 THEN x ELSE step[n - 1][f[n - 1]]
  <2>1. CASE n = 0
    BY <1>1, <2>1 DEF Follows
  <2>2. CASE n # 0
    <3>1. n - 1 \in Nat /\ (n - 1) + 1 = n
      BY <2>2
    <3>2. f[(n - 1) + 1] = step[n - 1][f[n - 1]]
      BY <1>1, <3>1 DEF Follows
    <3> QED
      BY <2>2, <3>1, <3>2
  <2> QED
    BY <2>1, <2>2
<1>3. f = [n \in Nat |-> f[n]]
  OBVIOUS
<1> QED
  BY <1>2, <1>3 DEF Solves

(* What such a function computes stays where it starts.                         *)
LEMMA Computes ==
  ASSUME NEW D, NEW at, at = [n \in Nat |-> at[n]], at[0] \in D,
         \A n \in Nat : at[n] \in D => at[n + 1] \in D
  PROVE  at \in [Nat -> D]
<1> DEFINE S == {n \in Nat : at[n] \in D}
<1>1. 0 \in S /\ \A n \in Nat : n \in S => n + 1 \in S
  OBVIOUS
<1> HIDE DEF S
<1>2. Nat \subseteq S
  BY <1>1, Induction
<1>3. \A n \in Nat : at[n] \in D
  BY <1>2 DEF S
<1> QED
  BY <1>3

(* The octets of texts.                                                         *)

(* The greatest of some natural numbers below a bound, and the least of some.   *)
LEMMA Greatest ==
  ASSUME NEW S, NEW b \in Nat, S \subseteq 0..b, S # {}
  PROVE  Max(S) \in S /\ \A n \in S : n <= Max(S)
<1> DEFINE T == {b - n : n \in S}
<1>1. T \subseteq Nat /\ T # {}
  <2>1. PICK m \in S : TRUE
    OBVIOUS
  <2>2. b - m \in T
    OBVIOUS
  <2>3. \A n \in S : b - n \in Nat
    OBVIOUS
  <2> QED
    BY <2>2, <2>3
<1>2. PICK k \in T : \A m \in T : k <= m
  BY <1>1, Least
<1>3. PICK n \in S : k = b - n
  OBVIOUS
<1>4. \A m \in S : m <= n
  <2> SUFFICES ASSUME NEW m \in S PROVE m <= n
    OBVIOUS
  <2>1. b - m \in T
    OBVIOUS
  <2> HIDE DEF T
  <2> QED
    BY <1>2, <1>3, <2>1
<1>5. \E x \in S : \A y \in S : x >= y
  BY <1>4
<1>6. Max(S) \in S /\ \A y \in S : Max(S) >= y
  BY <1>5 DEF Max
<1> QED
  BY <1>6

(* Min of a nonempty set of naturals is its least member.                      *)
LEMMA Smallest ==
  ASSUME NEW S, S \subseteq Nat, S # {}
  PROVE  Min(S) \in S /\ \A n \in S : Min(S) <= n
<1>1. \E x \in S : \A y \in S : x <= y
  BY Least
<1> QED
  BY <1>1 DEF Min

(* A glyph is whole.                                                            *)
LEMMA Glyph ==
  ASSUME NEW t \in Seq(Octets), NEW p \in 1..Len(t)
  PROVE  GlyphLength(t, p) \in 1..4 /\ p + GlyphLength(t, p) <= Len(t) + 1
<1> DEFINE long == CASE t[p] \in 192..223 -> 2
                     [] t[p] \in 224..239 -> 3
                     [] t[p] \in 240..247 -> 4
                     [] OTHER -> 1
           whole == p + long - 1 <= Len(t) /\ \A i \in (p + 1)..(p + long - 1) : t[i] \in 128..191
<1>1. long \in 1..4
  OBVIOUS
<1>2. GlyphLength(t, p) = IF whole THEN long ELSE 1
  BY DEF GlyphLength
<1> HIDE DEF long
<1> QED
  BY <1>1, <1>2

(* The next octet that is not a space.                                          *)
LEMMA Skip ==
  ASSUME NEW t \in Seq(Octets), NEW p \in 1..(Len(t) + 1)
  PROVE  /\ SkipSpaces(t, p) \in p..(Len(t) + 1)
         /\ \A i \in p..(SkipSpaces(t, p) - 1) : t[i] = Space
<1> DEFINE S == {q \in p..(Len(t) + 1) : q > Len(t) \/ t[q] # Space}
<1>1. S \subseteq Nat /\ Len(t) + 1 \in S
  OBVIOUS
<1>2. Min(S) \in S /\ \A n \in S : Min(S) <= n
  BY <1>1, Smallest
<1>3. SkipSpaces(t, p) = Min(S)
  BY DEF SkipSpaces
<1>4. \A i \in p..(Min(S) - 1) : t[i] = Space
  <2> SUFFICES ASSUME NEW i \in p..(Min(S) - 1), t[i] # Space PROVE FALSE
    OBVIOUS
  <2>1. Min(S) \in p..(Len(t) + 1)
    BY <1>2
  <2>2. i \in S /\ i < Min(S)
    BY <2>1
  <2> QED
    BY <1>2, <2>1, <2>2
<1> QED
  BY <1>2, <1>3, <1>4

(* The next glyph is behind this one.                                           *)
LEMMA Forward ==
  ASSUME NEW t \in Seq(Octets), NEW p \in 1..(Len(t) + 1)
  PROVE  /\ NextGlyph(t, p) \in p..(Len(t) + 1)
         /\ p <= Len(t) => NextGlyph(t, p) > p
<1>1. p <= Len(t) => GlyphLength(t, p) \in 1..4 /\ p + GlyphLength(t, p) <= Len(t) + 1
  BY Glyph
<1> QED
  BY <1>1 DEF NextGlyph

(* The starts of glyphs are where their recursive definition puts them.        *)
LEMMA GlyphsRecursion ==
  ASSUME NEW t \in Seq(Octets), NEW start \in 1..(Len(t) + 1)
  PROVE  /\ Glyphs(t, start) \in [Nat -> 1..(Len(t) + 1)]
         /\ Glyphs(t, start)[0] = start
         /\ \A n \in Nat : Glyphs(t, start)[n + 1] = NextGlyph(t, Glyphs(t, start)[n])
<1> DEFINE D == 1..(Len(t) + 1)
           step == [n \in Nat |-> [p \in D |-> NextGlyph(t, p)]]
           at == Glyphs(t, start)
<1>1. \A p \in D : NextGlyph(t, p) \in D
  BY Forward
<1>2. PICK f \in [Nat -> D] : Solves(f, start, step)
  <2>1. start \in D /\ step \in [Nat -> [D -> D]]
    BY <1>1
  <2> HIDE DEF step, D
  <2> QED
    BY <2>1, Recursion, Zenon
<1>3. f = [n \in Nat |-> IF n = 0 THEN start ELSE NextGlyph(t, f[n - 1])]
  <2>1. ASSUME NEW n \in Nat PROVE f[n] = IF n = 0 THEN start ELSE NextGlyph(t, f[n - 1])
    <3>1. n # 0 => n - 1 \in Nat
      OBVIOUS
    <3>2. n # 0 => step[n - 1][f[n - 1]] = NextGlyph(t, f[n - 1])
      BY <3>1
    <3> HIDE DEF step
    <3> QED
      BY <1>2, <3>2 DEF Solves
  <2>2. f = [n \in Nat |-> f[n]]
    OBVIOUS
  <2> QED
    BY <2>1, <2>2
<1>4. at = [n \in Nat |-> IF n = 0 THEN start ELSE NextGlyph(t, at[n - 1])]
  BY <1>3, Zenon DEF Glyphs
<1> HIDE DEF at
<1>5. ASSUME NEW n \in Nat PROVE at[n + 1] = NextGlyph(t, at[n])
  <2>1. n + 1 \in Nat /\ n + 1 # 0 /\ (n + 1) - 1 = n
    OBVIOUS
  <2>2. at[n + 1] = NextGlyph(t, at[(n + 1) - 1])
    BY <1>4, <2>1, Zenon
  <2> QED
    BY <2>1, <2>2
<1>6. at[0] = start
  BY <1>4
<1>7. at \in [Nat -> D]
  <2>1. at = [n \in Nat |-> at[n]]
    BY <1>4, Zenon
  <2>2. at[0] \in D
    BY <1>6
  <2>3. ASSUME NEW n \in Nat, at[n] \in D PROVE at[n + 1] \in D
    BY <1>1, <1>5, <2>3, Zenon
  <2> HIDE DEF D
  <2> QED
    BY <2>1, <2>2, <2>3, Computes, Zenon
<1> QED
  BY <1>5, <1>6, <1>7 DEF at

(* A page ends behind its start, and within the text.                           *)
LEMMA End ==
  ASSUME GlyphsPerPage \in Nat \ {0}, NEW t \in Seq(Octets), NEW start \in 1..Len(t)
  PROVE  PageEnd(t, start) \in (start + 1)..(Len(t) + 1)
<1> DEFINE at == Glyphs(t, start)
           spaces == {p \in {at[n] : n \in 0..(GlyphsPerPage - 1)} :
                         p > start /\ p <= Len(t) /\ t[p] = Space}
<1>1. at \in [Nat -> 1..(Len(t) + 1)] /\ at[0] = start
      /\ \A n \in Nat : at[n + 1] = NextGlyph(t, at[n])
  <2>1. start \in 1..(Len(t) + 1)
    OBVIOUS
  <2> QED
    BY <2>1, GlyphsRecursion, Zenon
<1>2. at[GlyphsPerPage] > start
  <2> DEFINE S == {n \in Nat : at[n + 1] > start}
  <2>1. 0 \in S
    <3>1. at[0 + 1] = NextGlyph(t, at[0]) /\ at[0] = start
      <4>1. 0 \in Nat
        OBVIOUS
      <4> QED
        BY <1>1, <4>1, Zenon
    <3>2. NextGlyph(t, start) > start
      BY Forward
    <3> QED
      BY <3>1, <3>2
  <2>2. ASSUME NEW n \in Nat, n \in S PROVE n + 1 \in S
    <3>1. n + 1 \in Nat /\ at[n + 1] \in 1..(Len(t) + 1)
      <4>1. n + 1 \in Nat
        OBVIOUS
      <4> QED
        BY <1>1, <4>1, Zenon
    <3>2. at[(n + 1) + 1] = NextGlyph(t, at[n + 1])
      BY <1>1, <3>1
    <3>3. NextGlyph(t, at[n + 1]) >= at[n + 1] /\ NextGlyph(t, at[n + 1]) \in Nat
      BY <3>1, Forward
    <3> QED
      BY <2>2, <3>1, <3>2, <3>3
  <2> HIDE DEF S
  <2>3. Nat \subseteq S
    BY <2>1, <2>2, Induction
  <2>4. GlyphsPerPage - 1 \in Nat /\ (GlyphsPerPage - 1) + 1 = GlyphsPerPage
    OBVIOUS
  <2> QED
    BY <2>3, <2>4 DEF S
<1>3. PageEnd(t, start) =
        IF at[GlyphsPerPage] <= Len(t) /\ spaces # {} THEN Max(spaces) ELSE at[GlyphsPerPage]
  BY Zenon DEF PageEnd
<1>4. spaces \subseteq 0..Len(t) /\ \A p \in spaces : p > start
  BY <1>1
<1>5. ASSUME spaces # {} PROVE Max(spaces) \in (start + 1)..(Len(t) + 1)
  <2> HIDE DEF spaces, at
  <2>1. Len(t) \in Nat
    OBVIOUS
  <2>2. Max(spaces) \in spaces
    BY <1>4, <1>5, <2>1, Greatest
  <2>3. Max(spaces) \in 0..Len(t) /\ Max(spaces) > start
    BY <1>4, <2>2, Zenon
  <2> QED
    BY <2>1, <2>3
<1>6. at[GlyphsPerPage] \in 1..(Len(t) + 1)
  BY <1>1
<1> HIDE DEF spaces, at
<1> QED
  BY <1>2, <1>3, <1>5, <1>6

(* The next page starts behind this one.                                        *)
LEMMA Onward ==
  ASSUME GlyphsPerPage \in Nat \ {0}, NEW t \in Seq(Octets), NEW p \in 1..(Len(t) + 1)
  PROVE  /\ NextPage(t, p) \in p..(Len(t) + 1)
         /\ p <= Len(t) => NextPage(t, p) > p
<1>1. CASE p > Len(t)
  BY <1>1 DEF NextPage
<1>2. CASE p <= Len(t)
  <2>1. PageEnd(t, p) \in (p + 1)..(Len(t) + 1)
    BY <1>2, End
  <2>2. SkipSpaces(t, PageEnd(t, p)) \in PageEnd(t, p)..(Len(t) + 1)
    BY <2>1, Skip
  <2> QED
    BY <1>2, <2>1, <2>2 DEF NextPage
<1> QED
  BY <1>1, <1>2

(* The starts of pages are where their recursive definition puts them.         *)
LEMMA PagesRecursion ==
  ASSUME GlyphsPerPage \in Nat \ {0}, NEW t \in Seq(Octets)
  PROVE  /\ Pages(t) \in [Nat -> 1..(Len(t) + 1)]
         /\ Pages(t)[0] = 1
         /\ \A n \in Nat : Pages(t)[n + 1] = NextPage(t, Pages(t)[n])
<1> DEFINE D == 1..(Len(t) + 1)
           step == [n \in Nat |-> [p \in D |-> NextPage(t, p)]]
           start == Pages(t)
<1>1. \A p \in D : NextPage(t, p) \in D
  BY Onward
<1>2. PICK f \in [Nat -> D] : Solves(f, 1, step)
  <2>1. 1 \in D /\ step \in [Nat -> [D -> D]]
    BY <1>1
  <2> HIDE DEF step, D
  <2> QED
    BY <2>1, Recursion, Zenon
<1>3. f = [n \in Nat |-> IF n = 0 THEN 1 ELSE NextPage(t, f[n - 1])]
  <2>1. ASSUME NEW n \in Nat PROVE f[n] = IF n = 0 THEN 1 ELSE NextPage(t, f[n - 1])
    <3>1. n # 0 => n - 1 \in Nat
      OBVIOUS
    <3>2. n # 0 => step[n - 1][f[n - 1]] = NextPage(t, f[n - 1])
      BY <3>1
    <3> HIDE DEF step
    <3> QED
      BY <1>2, <3>2 DEF Solves
  <2>2. f = [n \in Nat |-> f[n]]
    OBVIOUS
  <2> QED
    BY <2>1, <2>2
<1>4. start = [n \in Nat |-> IF n = 0 THEN 1 ELSE NextPage(t, start[n - 1])]
  BY <1>3, Zenon DEF Pages
<1> HIDE DEF start
<1>5. ASSUME NEW n \in Nat PROVE start[n + 1] = NextPage(t, start[n])
  <2>1. n + 1 \in Nat /\ n + 1 # 0 /\ (n + 1) - 1 = n
    OBVIOUS
  <2>2. start[n + 1] = NextPage(t, start[(n + 1) - 1])
    BY <1>4, <2>1, Zenon
  <2> QED
    BY <2>1, <2>2
<1>6. start[0] = 1
  BY <1>4
<1>7. start \in [Nat -> D]
  <2>1. start = [n \in Nat |-> start[n]]
    BY <1>4, Zenon
  <2>2. start[0] \in D
    BY <1>6
  <2>3. ASSUME NEW n \in Nat, start[n] \in D PROVE start[n + 1] \in D
    BY <1>1, <1>5, <2>3, Zenon
  <2> HIDE DEF D
  <2> QED
    BY <2>1, <2>2, <2>3, Computes, Zenon
<1> QED
  BY <1>5, <1>6, <1>7 DEF start

(* The pages of a text are those that start in it, at most one an octet.        *)
LEMMA Starts ==
  ASSUME GlyphsPerPage \in Nat \ {0}, NEW t \in Seq(Octets), NEW n \in Nat
  PROVE  /\ Pages(t)[n] \in 1..(Len(t) + 1)
         /\ Pages(t)[n + 1] \in Pages(t)[n]..(Len(t) + 1)
         /\ Pages(t)[n] <= Len(t) => Pages(t)[n + 1] > Pages(t)[n]
<1>1. Pages(t)[n] \in 1..(Len(t) + 1) /\ Pages(t)[n + 1] = NextPage(t, Pages(t)[n])
  BY PagesRecursion, Zenon
<1> QED
  BY <1>1, Onward

(* Every page that is counted starts in the text, and no other does.           *)
LEMMA Counted ==
  ASSUME GlyphsPerPage \in Nat \ {0}, NEW t \in Seq(Octets), t # <<>>
  PROVE  /\ PageCount(Chars(t)) \in 1..Len(t)
         /\ \A n \in Nat : Pages(t)[n] <= Len(t) <=> n < PageCount(Chars(t))
<1> DEFINE L == Len(t)
           start == Pages(t)
           ends(n) == PageStart(t, n) > L
           total(n) == n \in 0..L /\ ends(n) /\ \A m \in 0..(n - 1) : ~ends(m)
<1>1. L \in Nat \ {0}
  OBVIOUS
<1>2. start[0] = 1 /\ \A n \in Nat : start[n] \in 1..(L + 1)
  BY PagesRecursion
<1>3. \A n \in Nat : start[n + 1] >= start[n] /\ (start[n] <= L => start[n + 1] > start[n])
  BY Starts
<1>4. \A n \in Nat : ends(n) <=> start[n] > L
  BY DEF PageStart
<1>5. PageCount(Chars(t)) = CHOOSE n \in 0..L : ends(n) /\ \A m \in 0..(n - 1) : ~ends(m)
  BY Zenon DEF PageCount, Chars, NoText
<1> HIDE DEF L, start, ends
<1>6. ends(L)
  <2> DEFINE S == {n \in Nat : start[n] >= n + 1 \/ start[n] > L}
  <2>1. 0 \in S
    BY <1>2
  <2>2. ASSUME NEW n \in Nat, n \in S PROVE n + 1 \in S
    <3>1. n + 1 \in Nat
      OBVIOUS
    <3>2. start[n] \in 1..(L + 1) /\ start[n + 1] \in 1..(L + 1)
      BY <1>2, <3>1, Zenon
    <3>3. start[n + 1] >= start[n] /\ (start[n] <= L => start[n + 1] > start[n])
      BY <1>3
    <3> QED
      BY <1>1, <2>2, <3>1, <3>2, <3>3
  <2> HIDE DEF S
  <2>3. Nat \subseteq S
    BY <2>1, <2>2, Induction
  <2> QED
    BY <1>1, <1>2, <1>4, <2>3 DEF S
<1>7. \E n \in 0..L : ends(n) /\ \A m \in 0..(n - 1) : ~ends(m)
  <2> DEFINE E == {n \in 0..L : ends(n)}
  <2>1. E \subseteq Nat /\ L \in E
    BY <1>1, <1>6
  <2>2. PICK n \in E : \A m \in E : n <= m
    BY <2>1, Least
  <2>3. \A m \in 0..(n - 1) : ~ends(m)
    BY <1>1, <2>2
  <2> QED
    BY <2>2, <2>3
<1> DEFINE N == PageCount(Chars(t))
<1>8. N \in 0..L /\ ends(N) /\ \A m \in 0..(N - 1) : ~ends(m)
  BY <1>5, <1>7, Zenon
<1> HIDE DEF N
<1>9. N # 0
  BY <1>1, <1>2, <1>4, <1>8
<1>10. \A n \in Nat : n >= N => start[n] > L
  <2> DEFINE S == {n \in Nat : start[N + n] > L}
  <2>1. 0 \in S
    BY <1>1, <1>4, <1>8
  <2>2. ASSUME NEW n \in Nat, n \in S PROVE n + 1 \in S
    <3>1. N + n \in Nat /\ (N + n) + 1 = N + (n + 1) /\ (N + n) + 1 \in Nat
      BY <1>8
    <3>2. start[N + n] \in 1..(L + 1) /\ start[(N + n) + 1] \in 1..(L + 1)
      BY <1>2, <3>1, Zenon
    <3>3. start[(N + n) + 1] >= start[N + n]
      BY <1>3, <3>1, Zenon
    <3> QED
      BY <1>1, <2>2, <3>1, <3>2, <3>3
  <2> HIDE DEF S
  <2>3. Nat \subseteq S
    BY <2>1, <2>2, Induction
  <2>4. ASSUME NEW n \in Nat, n >= N PROVE start[n] > L
    <3>1. n - N \in Nat /\ N + (n - N) = n
      BY <1>8, <2>4
    <3>2. start[N + (n - N)] > L
      BY <2>3, <3>1 DEF S
    <3> QED
      BY <3>1, <3>2
  <2> QED
    BY <2>4
<1>11. \A n \in Nat : start[n] <= L <=> n < N
  BY <1>1, <1>2, <1>4, <1>8, <1>10
<1> QED
  BY <1>8, <1>9, <1>11 DEF N, L, start

(* A text without its spaces, octet after octet.                                *)
LEMMA SolidRecursion ==
  ASSUME NEW t
  PROVE  /\ Solid(t)[0] = <<>>
         /\ \A n \in Nat : Solid(t)[n + 1] = IF t[n + 1] = Space THEN Solid(t)[n]
                                              ELSE Append(Solid(t)[n], t[n + 1])
<1> DEFINE V == {t[i] : i \in Nat}
           D == Seq(V)
           next(n, x) == IF t[n + 1] = Space THEN x ELSE Append(x, t[n + 1])
           step == [n \in Nat |-> [x \in D |-> next(n, x)]]
           upTo == Solid(t)
<1>1. \A n \in Nat, x \in D : next(n, x) \in D
  <2> SUFFICES ASSUME NEW n \in Nat, NEW x \in D PROVE next(n, x) \in D
    OBVIOUS
  <2>1. t[n + 1] \in V
    OBVIOUS
  <2> HIDE DEF V
  <2> QED
    BY <2>1
<1>2. PICK f \in [Nat -> D] : Solves(f, <<>>, step)
  <2>1. <<>> \in D
    OBVIOUS
  <2>2. step \in [Nat -> [D -> D]]
    <3> HIDE DEF next, D
    <3> QED
      BY <1>1
  <2> HIDE DEF step, D
  <2> QED
    BY <2>1, <2>2, Recursion, Zenon
<1>3. f = [i \in Nat |-> IF i = 0 THEN <<>>
                         ELSE IF t[i] = Space THEN f[i - 1] ELSE Append(f[i - 1], t[i])]
  <2>1. ASSUME NEW i \in Nat
        PROVE  f[i] = IF i = 0 THEN <<>>
                      ELSE IF t[i] = Space THEN f[i - 1] ELSE Append(f[i - 1], t[i])
    <3>1. CASE i = 0
      BY <1>2, <3>1 DEF Solves
    <3>2. CASE i # 0
      <4>1. i - 1 \in Nat /\ (i - 1) + 1 = i
        BY <3>2
      <4>2. f[i] = step[i - 1][f[i - 1]]
        <5> HIDE DEF step
        <5> QED
          BY <1>2, <3>2 DEF Solves
      <4>3. f[i - 1] \in D
        <5> HIDE DEF D
        <5> QED
          BY <4>1
      <4>4. step[i - 1][f[i - 1]] = next(i - 1, f[i - 1])
        <5> HIDE DEF D, next
        <5> QED
          BY <4>1, <4>3
      <4> QED
        BY <3>2, <4>1, <4>2, <4>4
    <3> QED
      BY <3>1, <3>2
  <2>2. f = [i \in Nat |-> f[i]]
    <3> HIDE DEF D
    <3> QED
      OBVIOUS
  <2> QED
    BY <2>1, <2>2
<1>4. upTo = [i \in Nat |-> IF i = 0 THEN <<>>
                            ELSE IF t[i] = Space THEN upTo[i - 1] ELSE Append(upTo[i - 1], t[i])]
  BY <1>3, Zenon DEF Solid
<1> HIDE DEF upTo
<1>5. ASSUME NEW n \in Nat
      PROVE  upTo[n + 1] = IF t[n + 1] = Space THEN upTo[n] ELSE Append(upTo[n], t[n + 1])
  <2>1. n + 1 \in Nat /\ n + 1 # 0 /\ (n + 1) - 1 = n
    OBVIOUS
  <2>2. upTo[n + 1] = IF t[n + 1] = Space THEN upTo[(n + 1) - 1]
                      ELSE Append(upTo[(n + 1) - 1], t[n + 1])
    BY <1>4, <2>1, Zenon
  <2> QED
    BY <2>1, <2>2
<1>6. upTo[0] = <<>>
  BY <1>4
<1> QED
  BY <1>5, <1>6 DEF upTo

(* What is left of a text without spaces is a text.                            *)
LEMMA SolidTyped ==
  ASSUME NEW t \in Seq(Octets), NEW n \in 0..Len(t)
  PROVE  Solid(t)[n] \in Seq(Octets)
<1> DEFINE S == {m \in Nat : m <= Len(t) => Solid(t)[m] \in Seq(Octets)}
<1>1. 0 \in S
  <2>1. Solid(t)[0] = <<>>
    BY SolidRecursion
  <2>2. <<>> \in Seq(Octets)
    OBVIOUS
  <2> QED
    BY <2>1, <2>2
<1>2. ASSUME NEW m \in Nat, m \in S PROVE m + 1 \in S
  <2> SUFFICES ASSUME m + 1 <= Len(t) PROVE Solid(t)[m + 1] \in Seq(Octets)
    OBVIOUS
  <2>1. Solid(t)[m] \in Seq(Octets) /\ t[m + 1] \in Octets
    BY <1>2
  <2>2. Solid(t)[m + 1] = IF t[m + 1] = Space THEN Solid(t)[m]
                          ELSE Append(Solid(t)[m], t[m + 1])
    BY SolidRecursion
  <2> QED
    BY <2>1, <2>2
<1> HIDE DEF S
<1>3. Nat \subseteq S
  BY <1>1, <1>2, Induction
<1> QED
  BY <1>3 DEF S

(* The whole text without its spaces is a text.                                *)
LEMMA Stays ==
  ASSUME NEW t \in Seq(Octets)
  PROVE  NoSpaces(t) \in Seq(Octets)
<1>1. Len(t) \in 0..Len(t)
  OBVIOUS
<1> QED
  BY <1>1, SolidTyped, Zenon DEF NoSpaces

(* The octets that stay of two texts are those of one and of the other.         *)
LEMMA SolidFirst ==
  ASSUME NEW s \in Seq(Octets), NEW u \in Seq(Octets), NEW n \in 0..Len(s)
  PROVE  Solid(s \o u)[n] = Solid(s)[n]
<1> DEFINE r == s \o u
           S == {m \in Nat : m <= Len(s) => Solid(r)[m] = Solid(s)[m]}
<1>1. 0 \in S
  BY SolidRecursion
<1>2. ASSUME NEW m \in Nat, m \in S PROVE m + 1 \in S
  <2> SUFFICES ASSUME m + 1 <= Len(s) PROVE Solid(r)[m + 1] = Solid(s)[m + 1]
    OBVIOUS
  <2>1. r[m + 1] = s[m + 1]
    OBVIOUS
  <2>2. Solid(r)[m] = Solid(s)[m]
    BY <1>2
  <2> HIDE DEF r
  <2> QED
    BY <2>1, <2>2, SolidRecursion
<1> HIDE DEF S
<1>3. Nat \subseteq S
  BY <1>1, <1>2, Induction
<1> QED
  BY <1>3 DEF S

(* An octet behind two texts is one behind the second.                         *)
LEMMA AppendBehind ==
  ASSUME NEW s \in Seq(Octets), NEW u \in Seq(Octets), NEW x \in Octets
  PROVE  Append(s \o u, x) = s \o Append(u, x)
OBVIOUS

(* Leaving spaces out of two texts is leaving them out of one and of the other.*)
LEMMA Concatenated ==
  ASSUME NEW s \in Seq(Octets), NEW u \in Seq(Octets)
  PROVE  NoSpaces(s \o u) = NoSpaces(s) \o NoSpaces(u)
<1> DEFINE r == s \o u
           L == Len(s)
           S == {m \in Nat : m <= Len(u) => Solid(r)[L + m] = Solid(s)[L] \o Solid(u)[m]}
<1>1. r \in Seq(Octets) /\ Len(r) = L + Len(u) /\ L \in Nat /\ Len(u) \in Nat
  OBVIOUS
<1>2. Solid(s)[L] \in Seq(Octets)
  BY <1>1, SolidTyped
<1>3. 0 \in S
  <2>1. Solid(u)[0] = <<>>
    BY SolidRecursion
  <2>2. Solid(r)[L] = Solid(s)[L]
    BY <1>1, SolidFirst
  <2>3. Solid(s)[L] \o <<>> = Solid(s)[L]
    BY <1>2
  <2>4. L + 0 = L
    BY <1>1
  <2>5. Solid(r)[L + 0] = Solid(s)[L] \o Solid(u)[0]
    BY <2>1, <2>2, <2>3, <2>4, Zenon
  <2> QED
    BY <2>5
<1>4. ASSUME NEW m \in Nat, m \in S PROVE m + 1 \in S
  <2> SUFFICES ASSUME m + 1 <= Len(u) PROVE Solid(r)[L + (m + 1)] = Solid(s)[L] \o Solid(u)[m + 1]
    <3>1. m + 1 \in Nat
      OBVIOUS
    <3> QED
      BY <3>1, Zenon
  <2>1. L + m \in Nat /\ (L + m) + 1 = L + (m + 1)
    BY <1>1
  <2>2. r[(L + m) + 1] = u[m + 1] /\ u[m + 1] \in Octets
    BY <1>1
  <2>3. Solid(r)[L + m] = Solid(s)[L] \o Solid(u)[m]
    <3>1. m <= Len(u)
      BY <1>1
    <3> QED
      BY <1>4, <3>1, Zenon
  <2>4. Solid(u)[m] \in Seq(Octets)
    BY <1>1, SolidTyped
  <2> HIDE DEF r, L
  <2>5. Solid(r)[(L + m) + 1] = IF u[m + 1] = Space THEN Solid(r)[L + m]
                                ELSE Append(Solid(r)[L + m], u[m + 1])
    BY <2>1, <2>2, SolidRecursion
  <2>6. Solid(u)[m + 1] = IF u[m + 1] = Space THEN Solid(u)[m] ELSE Append(Solid(u)[m], u[m + 1])
    BY SolidRecursion
  <2>7. Append(Solid(s)[L] \o Solid(u)[m], u[m + 1]) = Solid(s)[L] \o Append(Solid(u)[m], u[m + 1])
    BY <1>2, <2>2, <2>4, AppendBehind, Zenon
  <2> QED
    BY <2>1, <2>3, <2>5, <2>6, <2>7
<1> HIDE DEF S
<1>5. Nat \subseteq S
  BY <1>3, <1>4, Induction
<1>6. Solid(r)[L + Len(u)] = Solid(s)[L] \o Solid(u)[Len(u)]
  <2>1. Len(u) \in S /\ Len(u) <= Len(u)
    BY <1>1, <1>5
  <2> QED
    BY <2>1, Zenon DEF S
<1> QED
  BY <1>1, <1>6 DEF NoSpaces

(* Of spaces nothing stays.                                                     *)
LEMMA OnlySpaces ==
  ASSUME NEW t \in Seq(Octets), \A i \in 1..Len(t) : t[i] = Space
  PROVE  NoSpaces(t) = <<>>
<1> DEFINE S == {m \in Nat : m <= Len(t) => Solid(t)[m] = <<>>}
<1>1. 0 \in S
  BY SolidRecursion
<1>2. ASSUME NEW m \in Nat, m \in S PROVE m + 1 \in S
  <2> SUFFICES ASSUME m + 1 <= Len(t) PROVE Solid(t)[m + 1] = <<>>
    OBVIOUS
  <2>1. Solid(t)[m] = <<>> /\ t[m + 1] = Space
    BY <1>2
  <2> QED
    BY <2>1, SolidRecursion
<1> HIDE DEF S
<1>3. Nat \subseteq S
  BY <1>1, <1>2, Induction
<1>4. Len(t) \in Nat
  OBVIOUS
<1> QED
  BY <1>3, <1>4 DEF S, NoSpaces

(* Cutting a text into parts.                                                   *)
LEMMA Part ==
  ASSUME NEW t \in Seq(Octets), NEW i \in 1..(Len(t) + 1), NEW j \in (i - 1)..Len(t)
  PROVE  /\ SubSeq(t, i, j) \in Seq(Octets) /\ Len(SubSeq(t, i, j)) = j - i + 1
         /\ \A k \in 1..(j - i + 1) : SubSeq(t, i, j)[k] = t[k + i - 1]
OBVIOUS

(* A part of a text is two parts that meet.                                    *)
LEMMA Adjacent ==
  ASSUME NEW t \in Seq(Octets), NEW i \in 1..(Len(t) + 1), NEW j \in (i - 1)..Len(t),
         NEW k \in j..Len(t)
  PROVE  SubSeq(t, i, k) = SubSeq(t, i, j) \o SubSeq(t, j + 1, k)
<1>1. j + 1 \in 1..(Len(t) + 1) /\ k \in ((j + 1) - 1)..Len(t) /\ k \in (i - 1)..Len(t)
  OBVIOUS
<1>2. /\ SubSeq(t, i, j) \in Seq(Octets) /\ Len(SubSeq(t, i, j)) = j - i + 1
      /\ \A n \in 1..(j - i + 1) : SubSeq(t, i, j)[n] = t[n + i - 1]
  BY Part
<1>3. /\ SubSeq(t, i, k) \in Seq(Octets) /\ Len(SubSeq(t, i, k)) = k - i + 1
      /\ \A n \in 1..(k - i + 1) : SubSeq(t, i, k)[n] = t[n + i - 1]
  BY <1>1, Part
<1>4. /\ SubSeq(t, j + 1, k) \in Seq(Octets) /\ Len(SubSeq(t, j + 1, k)) = k - (j + 1) + 1
      /\ \A n \in 1..(k - (j + 1) + 1) : SubSeq(t, j + 1, k)[n] = t[n + (j + 1) - 1]
  BY <1>1, Part
<1> DEFINE a == SubSeq(t, i, j)
           b == SubSeq(t, j + 1, k)
           c == SubSeq(t, i, k)
<1> HIDE DEF a, b, c
<1>5. a \o b \in Seq(Octets) /\ Len(a \o b) = Len(c)
  BY <1>1, <1>2, <1>3, <1>4 DEF a, b, c
<1>6. \A n \in 1..Len(c) : c[n] = (a \o b)[n]
  BY <1>1, <1>2, <1>3, <1>4 DEF a, b, c
<1>7. c = a \o b
  BY <1>3, <1>5, <1>6, SeqEqual DEF c
<1> QED
  BY <1>7 DEF a, b, c

(* Trimming a text loses spaces only.                                          *)
LEMMA Trimmed ==
  ASSUME NEW t \in Seq(Octets)
  PROVE  /\ TrimRight(t) \in Seq(Octets) /\ Len(TrimRight(t)) <= Len(t)
         /\ NoSpaces(TrimRight(t)) = NoSpaces(t)
<1> DEFINE S == {0} \cup {i \in DOMAIN t : t[i] # Space}
           m == Max(S)
           rest == SubSeq(t, m + 1, Len(t))
<1>1. Len(t) \in Nat /\ S \subseteq 0..Len(t) /\ S # {}
  OBVIOUS
<1>2. m \in S /\ \A i \in S : i <= m
  BY <1>1, Greatest
<1>3. m \in 0..Len(t)
  BY <1>1, <1>2
<1>4. \A i \in (m + 1)..Len(t) : t[i] = Space
  <2> SUFFICES ASSUME NEW i \in (m + 1)..Len(t), t[i] # Space PROVE FALSE
    BY Zenon
  <2>1. m < i /\ i \in 1..Len(t)
    BY <1>3
  <2>2. i \in S
    BY <2>1
  <2> HIDE DEF m, S
  <2> QED
    BY <1>2, <1>3, <2>1, <2>2
<1>5. TrimRight(t) = SubSeq(t, 1, m)
  BY DEF TrimRight
<1> HIDE DEF m
<1>6. SubSeq(t, 1, m) \in Seq(Octets) /\ Len(SubSeq(t, 1, m)) = m
  BY <1>3, Part
<1>7. /\ rest \in Seq(Octets) /\ Len(rest) = Len(t) - m
      /\ \A k \in 1..(Len(t) - m) : rest[k] = t[k + m]
  BY <1>3, Part
<1>8. NoSpaces(rest) = <<>>
  <2> HIDE DEF rest
  <2>1. ASSUME NEW k \in 1..Len(rest) PROVE rest[k] = Space
    <3>1. k \in 1..(Len(t) - m)
      BY <1>7
    <3>2. k + m \in (m + 1)..Len(t)
      BY <1>1, <1>3, <3>1
    <3> QED
      BY <1>4, <1>7, <3>1, <3>2
  <2> QED
    BY <1>7, <2>1, OnlySpaces
<1>9. t = SubSeq(t, 1, m) \o rest
  <2>1. SubSeq(t, 1, Len(t)) = SubSeq(t, 1, m) \o rest
    <3>1. 1 \in 1..(Len(t) + 1) /\ m \in (1 - 1)..Len(t) /\ Len(t) \in m..Len(t)
      BY <1>3
    <3> QED
      BY <3>1, Adjacent, Zenon
  <2>2. SubSeq(t, 1, Len(t)) = t
    OBVIOUS
  <2> QED
    BY <2>1, <2>2, Zenon
<1>10. NoSpaces(t) = NoSpaces(SubSeq(t, 1, m)) \o NoSpaces(rest)
  BY <1>6, <1>7, <1>9, Concatenated, Zenon
<1>11. NoSpaces(SubSeq(t, 1, m)) \in Seq(Octets)
  BY <1>6, Stays
<1>12. NoSpaces(t) = NoSpaces(SubSeq(t, 1, m))
  BY <1>8, <1>10, <1>11
<1> QED
  BY <1>3, <1>5, <1>6, <1>12

(* A cut text fits the field, and one that fits is not cut.                    *)
LEMMA CutFits ==
  ASSUME NEW t \in Seq(Octets), NEW size \in Nat \ {0}
  PROVE  /\ Cut(t, size) \in Seq(Octets) /\ Len(Cut(t, size)) < size
         /\ Len(Cut(t, size)) <= Len(t)
         /\ Len(t) < size => Cut(t, size) = t
<1> DEFINE S == {Len(t), size - 1}
<1>1. S \subseteq Nat /\ S # {}
  OBVIOUS
<1>2. Min(S) \in S /\ \A n \in S : Min(S) <= n
  BY <1>1, Smallest
<1>3. Min(S) \in 0..Len(t) /\ Min(S) < size /\ (Len(t) < size => Min(S) = Len(t))
  BY <1>2
<1>4. Cut(t, size) = SubSeq(t, 1, Min(S))
  BY DEF Cut
<1> DEFINE m == Min(S)
<1> HIDE DEF m
<1>5. SubSeq(t, 1, m) \in Seq(Octets) /\ Len(SubSeq(t, 1, m)) = m
  <2>1. m \in (1 - 1)..Len(t)
    BY <1>3 DEF m
  <2> QED
    BY <2>1, Part
<1>6. SubSeq(t, 1, Len(t)) = t
  OBVIOUS
<1>7. m \in 0..Len(t) /\ m < size /\ (Len(t) < size => m = Len(t)) /\ Cut(t, size) = SubSeq(t, 1, m)
  BY <1>3, <1>4, Zenon DEF m
<1>8. Len(t) < size => SubSeq(t, 1, m) = t
  BY <1>6, <1>7, Zenon
<1>9. m <= Len(t) /\ m < size
  BY <1>7
<1> QED
  BY <1>5, <1>7, <1>8, <1>9, Zenon

(* Each page of a text fits the line, and shows what stays of its part.         *)
LEMMA PageShows ==
  ASSUME GlyphsPerPage \in Nat \ {0}, LineSize \in Nat \ {0},
         NEW t \in Seq(Octets), Len(t) < LineSize,
         NEW n \in Nat, Pages(t)[n] <= Len(t)
  PROVE  /\ GetPage(Chars(t), n) \in Seq(Octets)
         /\ Len(GetPage(Chars(t), n)) < LineSize
         /\ NoSpaces(SubSeq(t, 1, Pages(t)[n + 1] - 1))
              = NoSpaces(SubSeq(t, 1, Pages(t)[n] - 1)) \o NoSpaces(GetPage(Chars(t), n))
<1> DEFINE p == Pages(t)[n]
           e == PageEnd(t, p)
           q == SkipSpaces(t, e)
           shown == SubSeq(t, p, e - 1)
           skipped == SubSeq(t, e, q - 1)
           before == SubSeq(t, 1, p - 1)
<1>1. p \in 1..Len(t) /\ Len(t) \in Nat
  <2>1. Pages(t)[n] \in 1..(Len(t) + 1)
    BY Starts, Zenon
  <2> QED
    BY <2>1
<1>2. e \in (p + 1)..(Len(t) + 1)
  <2> HIDE DEF p
  <2> QED
    BY <1>1, End
<1>3. q \in e..(Len(t) + 1) /\ \A i \in e..(q - 1) : t[i] = Space
  <2> HIDE DEF e
  <2>1. e \in 1..(Len(t) + 1)
    BY <1>1, <1>2
  <2> QED
    BY <2>1, Skip, Zenon
<1>4. Pages(t)[n + 1] = q
  <2>1. Pages(t)[n + 1] = NextPage(t, p)
    BY PagesRecursion, Zenon
  <2>2. ~(p > Len(t))
    BY <1>1
  <2> QED
    BY <2>1, <2>2, Zenon DEF NextPage
<1>5. GetPage(Chars(t), n) = Cut(TrimRight(shown), LineSize)
  <2>1. t # <<>> /\ ~(p > Len(t))
    BY <1>1
  <2>2. Chars(t).form = "chars" /\ Chars(t) # NoText /\ Chars(t).octets = t
    BY <2>1 DEF Chars, NoText
  <2> HIDE DEF Chars, NoText
  <2> QED
    BY <2>1, <2>2, Zenon DEF GetPage, PageStart
<1> HIDE DEF p, e, q
<1>6. shown \in Seq(Octets) /\ Len(shown) = e - p
  <2>1. p \in 1..(Len(t) + 1) /\ e - 1 \in (p - 1)..Len(t) /\ (e - 1) - p + 1 = e - p
    BY <1>1, <1>2
  <2> QED
    BY <2>1, Part
<1>7. before \in Seq(Octets)
  <2>1. 1 \in 1..(Len(t) + 1) /\ p - 1 \in (1 - 1)..Len(t)
    BY <1>1
  <2> QED
    BY <2>1, Part, Zenon
<1>8. /\ skipped \in Seq(Octets) /\ Len(skipped) = q - e
      /\ \A k \in 1..(q - e) : skipped[k] = t[k + e - 1]
  <2>1. e \in 1..(Len(t) + 1) /\ q - 1 \in (e - 1)..Len(t) /\ (q - 1) - e + 1 = q - e
    BY <1>1, <1>2, <1>3
  <2> QED
    BY <2>1, Part
<1>9. SubSeq(t, 1, q - 1) = (before \o shown) \o skipped
  <2>1. /\ 1 \in 1..(Len(t) + 1) /\ p - 1 \in (1 - 1)..Len(t) /\ e - 1 \in (p - 1)..Len(t)
        /\ e - 1 \in (1 - 1)..Len(t) /\ q - 1 \in (e - 1)..Len(t)
        /\ (e - 1) + 1 = e /\ (p - 1) + 1 = p
    BY <1>1, <1>2, <1>3
  <2>2. SubSeq(t, 1, e - 1) = before \o SubSeq(t, (p - 1) + 1, e - 1)
    BY <2>1, Adjacent, Zenon
  <2>3. SubSeq(t, 1, q - 1) = SubSeq(t, 1, e - 1) \o SubSeq(t, (e - 1) + 1, q - 1)
    BY <2>1, Adjacent, Zenon
  <2> QED
    BY <2>1, <2>2, <2>3, Zenon
<1> HIDE DEF shown, before, skipped
<1>10. NoSpaces(skipped) = <<>>
  <2>1. \A k \in 1..Len(skipped) : skipped[k] = Space
    <3> SUFFICES ASSUME NEW k \in 1..(q - e) PROVE skipped[k] = Space
      BY <1>8, Zenon
    <3>1. k + e - 1 \in e..(q - 1)
      BY <1>1, <1>2, <1>3
    <3>2. t[k + e - 1] = Space
      BY <1>3, <3>1
    <3> QED
      BY <1>8, <3>2, Zenon
  <2> QED
    BY <1>8, <2>1, OnlySpaces
<1>11. NoSpaces(SubSeq(t, 1, q - 1)) = NoSpaces(before) \o NoSpaces(shown)
  <2>1. before \o shown \in Seq(Octets)
    BY <1>6, <1>7
  <2>2. NoSpaces(SubSeq(t, 1, q - 1)) = NoSpaces(before \o shown) \o NoSpaces(skipped)
    BY <1>8, <1>9, <2>1, Concatenated, Zenon
  <2>3. NoSpaces(before \o shown) = NoSpaces(before) \o NoSpaces(shown)
    BY <1>6, <1>7, Concatenated
  <2>4. NoSpaces(before \o shown) \in Seq(Octets)
    BY <2>1, Stays, Zenon
  <2>5. NoSpaces(before \o shown) \o <<>> = NoSpaces(before \o shown)
    BY <2>4, ConcatEmptySeq, Zenon
  <2> QED
    BY <1>10, <2>2, <2>3, <2>5, Zenon
<1>12. /\ TrimRight(shown) \in Seq(Octets) /\ Len(TrimRight(shown)) < LineSize
       /\ NoSpaces(TrimRight(shown)) = NoSpaces(shown)
  <2>1. /\ TrimRight(shown) \in Seq(Octets) /\ Len(TrimRight(shown)) <= Len(shown)
        /\ NoSpaces(TrimRight(shown)) = NoSpaces(shown)
    BY <1>6, Trimmed
  <2>2. Len(shown) <= Len(t)
    BY <1>1, <1>2, <1>6
  <2> QED
    BY <1>1, <1>6, <2>1, <2>2
<1>13. GetPage(Chars(t), n) = TrimRight(shown)
  BY <1>5, <1>12, CutFits, Zenon
<1> QED
  BY <1>4, <1>11, <1>12, <1>13, Zenon DEF before, p

(* A text that fits the line; what its pages show, of the first, the first two, *)
(* up to all of them.                                                           *)
IsText(text) ==
    /\ text = [form |-> text.form, octets |-> text.octets]
    /\ text.octets \in Seq(Octets) /\ Len(text.octets) < LineSize
Shows(text, v) ==
    /\ PageCount(text) \in Nat \ {0}
    /\ v[0] = <<>>
    /\ \A k \in 0..(PageCount(text) - 1) :
          /\ GetPage(text, k) \in Seq(Octets) /\ Len(GetPage(text, k)) < LineSize
          /\ v[k] \in Seq(Octets)
          /\ v[k + 1] = v[k] \o NoSpaces(GetPage(text, k))
    /\ v[PageCount(text)] = NoSpaces(OrNotAvailable(text).octets)

(* The pages of a text show all that stays of it, in order, each within a line.*)
LEMMA TextShown ==
  ASSUME GlyphsPerPage \in Nat \ {0}, LineSize \in Nat, LineSize > 6, NEW text, IsText(text)
  PROVE  \E v : Shows(text, v)
<1>1. CASE text.form # "chars" \/ text = NoText
  <2> DEFINE o == OrNotAvailable(text).octets
             v == [k \in Nat |-> IF k = 0 THEN <<>> ELSE NoSpaces(o)]
  <2>1. PageCount(text) = 1 /\ \A k : GetPage(text, k) = o
    BY <1>1, Zenon DEF PageCount, GetPage
  <2>2. o \in Seq(Octets) /\ Len(o) < LineSize
    <3>1. CASE text = NoText
      <4>1. o = <<78, 47, 65>>
        BY <3>1 DEF OrNotAvailable, NotAvailable, Chars
      <4>2. <<78, 47, 65>> \in Seq(Octets) /\ Len(<<78, 47, 65>>) = 3
        BY DEF Octets
      <4> QED
        BY <4>1, <4>2
    <3>2. CASE text # NoText
      BY <3>2 DEF OrNotAvailable, IsText
    <3> QED
      BY <3>1, <3>2
  <2> HIDE DEF o
  <2>3. v[0] = <<>> /\ v[1] = NoSpaces(o) /\ NoSpaces(o) \in Seq(Octets)
    BY <2>2, Stays
  <2>4. <<>> \o NoSpaces(o) = NoSpaces(o) /\ <<>> \in Seq(Octets)
    BY <2>3
  <2> HIDE DEF v
  <2>5. \A k \in 0..(1 - 1) : k = 0 /\ k + 1 = 1
    OBVIOUS
  <2>6. \A k \in 0..(1 - 1) :
           /\ o \in Seq(Octets) /\ Len(o) < LineSize
           /\ v[k] \in Seq(Octets) /\ v[k + 1] = v[k] \o NoSpaces(o)
    BY <2>2, <2>3, <2>4, <2>5, Zenon
  <2>7. 1 \in Nat \ {0}
    OBVIOUS
  <2>8. Shows(text, v)
    BY <2>1, <2>3, <2>6, <2>7, Zenon DEF Shows, o
  <2> QED
    BY <2>8
<1>2. CASE text.form = "chars" /\ text # NoText
  <2> DEFINE t == text.octets
             N == PageCount(text)
             v == [k \in Nat |-> NoSpaces(SubSeq(t, 1, Pages(t)[k] - 1))]
  <2>1. text = Chars(t) /\ t \in Seq(Octets) /\ Len(t) < LineSize
    BY <1>2, Zenon DEF IsText, Chars
  <2>2. t # <<>>
    BY <1>2, <2>1, Zenon DEF NoText
  <2> HIDE DEF t
  <2>3. OrNotAvailable(text).octets = t
    BY <1>2, Zenon DEF OrNotAvailable, t
  <2>4. N \in Nat \ {0} /\ \A n \in Nat : Pages(t)[n] <= Len(t) <=> n < N
    <3>1. N \in 1..Len(t) /\ \A n \in Nat : Pages(t)[n] <= Len(t) <=> n < N
      BY <2>1, <2>2, Counted, Zenon
    <3> QED
      BY <3>1
  <2>5. v[0] = <<>>
    <3>1. Pages(t)[0] = 1
      BY <2>1, PagesRecursion
    <3>2. v[0] = NoSpaces(SubSeq(t, 1, 0))
      BY <3>1
    <3>3. SubSeq(t, 1, 0) = <<>> /\ <<>> \in Seq(Octets) /\ \A i \in 1..Len(<<>>) : <<>>[i] = Space
      BY <2>1
    <3> QED
      BY <3>2, <3>3, OnlySpaces, Zenon
  <2>6. ASSUME NEW k \in 0..(N - 1)
        PROVE  /\ GetPage(text, k) \in Seq(Octets) /\ Len(GetPage(text, k)) < LineSize
               /\ v[k] \in Seq(Octets)
               /\ v[k + 1] = v[k] \o NoSpaces(GetPage(text, k))
    <3>1. k \in Nat /\ k + 1 \in Nat /\ k < N
      BY <2>4
    <3>2. Pages(t)[k] <= Len(t) /\ Pages(t)[k] \in 1..(Len(t) + 1)
      BY <2>1, <2>4, <3>1, Starts, Zenon
    <3>3. SubSeq(t, 1, Pages(t)[k] - 1) \in Seq(Octets)
      <4>1. 1 \in 1..(Len(t) + 1) /\ Pages(t)[k] - 1 \in (1 - 1)..Len(t)
        BY <2>1, <3>2
      <4> QED
        BY <2>1, <4>1, Part, Zenon
    <3>4. LineSize \in Nat \ {0}
      OBVIOUS
    <3>5. /\ GetPage(text, k) \in Seq(Octets) /\ Len(GetPage(text, k)) < LineSize
          /\ NoSpaces(SubSeq(t, 1, Pages(t)[k + 1] - 1))
               = NoSpaces(SubSeq(t, 1, Pages(t)[k] - 1)) \o NoSpaces(GetPage(text, k))
      BY <2>1, <3>1, <3>2, <3>4, PageShows, Zenon
    <3> QED
      BY <3>1, <3>3, <3>5, Stays, Zenon
  <2>7. v[N] = NoSpaces(t)
    <3>1. N \in Nat /\ ~(Pages(t)[N] <= Len(t)) /\ Pages(t)[N] \in 1..(Len(t) + 1)
      <4>1. N \in Nat /\ ~(N < N)
        BY <2>4
      <4> QED
        BY <2>1, <2>4, <4>1, Starts, Zenon
    <3>2. Pages(t)[N] - 1 = Len(t) /\ SubSeq(t, 1, Len(t)) = t
      BY <2>1, <3>1
    <3> QED
      BY <3>1, <3>2, Zenon
  <2> HIDE DEF v
  <2>8. Shows(text, v)
    BY <2>3, <2>4, <2>5, <2>6, <2>7, Zenon DEF Shows
  <2> QED
    BY <2>8
<1> QED
  BY <1>1, <1>2

(* Each of a set of numbers has so many of them in front of it, from none on.   *)
LEMMA Ranked ==
  ASSUME NEW b \in Nat, NEW S, S \subseteq 0..b, NEW k \in 0..(Cardinality(S) - 1)
  PROVE  Nth(S, k) \in S /\ Cardinality({j \in S : j < Nth(S, k)}) = k
<1> DEFINE below(i) == {j \in S : j < i}
           c(i) == Cardinality(below(i))
           M == {i \in Nat : i <= b + 1 /\ c(i) > k}
<1>0. \A j \in S : j \in Nat /\ j <= b
  OBVIOUS
<1>1. IsFiniteSet(0..b) /\ IsFiniteSet(S) /\ Cardinality(S) \in Nat /\ k \in Nat
  <2>1. IsFiniteSet(0..b)
    BY FS_Interval
  <2>2. IsFiniteSet(S) /\ Cardinality(S) \in Nat
    BY <2>1, FS_Subset, FS_CardinalityType
  <2> QED
    BY <2>1, <2>2
<1>2. \A i \in Nat : IsFiniteSet(below(i)) /\ c(i) \in Nat
  <2> SUFFICES ASSUME NEW i \in Nat PROVE IsFiniteSet(below(i)) /\ c(i) \in Nat
    OBVIOUS
  <2>1. below(i) \subseteq S
    OBVIOUS
  <2> HIDE DEF below
  <2> QED
    BY <1>1, <2>1, FS_Subset, FS_CardinalityType
<1>3. c(0) = 0
  <2>1. \A j \in S : ~(j < 0)
    BY <1>0
  <2>2. below(0) = {}
    BY <2>1, Zenon
  <2> QED
    BY <2>2, FS_EmptySet, Zenon
<1>4. c(b + 1) = Cardinality(S)
  <2>1. \A j \in S : j < b + 1
    BY <1>0
  <2>2. below(b + 1) = S
    BY <2>1, Zenon
  <2> QED
    BY <2>2, Zenon
<1>5. ASSUME NEW i \in Nat PROVE c(i + 1) = IF i \in S THEN c(i) + 1 ELSE c(i)
  <2>0. \A j \in S : j < i + 1 <=> j < i \/ j = i
    BY <1>0
  <2>1. CASE i \in S
    <3>0. ~(i < i)
      OBVIOUS
    <3>1. below(i + 1) = below(i) \cup {i} /\ i \notin below(i)
      BY <2>0, <2>1, <3>0, Zenon
    <3> HIDE DEF below
    <3>2. Cardinality(below(i) \cup {i}) = Cardinality(below(i)) + 1
      BY <1>2, <3>1, FS_AddElement
    <3> QED
      BY <2>1, <3>1, <3>2
  <2>2. CASE i \notin S
    <3>1. below(i + 1) = below(i)
      BY <2>0, <2>2, Zenon
    <3> QED
      BY <2>2, <3>1, Zenon
  <2> QED
    BY <2>1, <2>2
<1> HIDE DEF c
<1>6. PICK m \in M : \A i \in M : m <= i
  <2>1. b + 1 \in M
    BY <1>1, <1>4
  <2>2. M \subseteq Nat /\ M # {}
    BY <2>1
  <2> HIDE DEF M
  <2> QED
    BY <2>2, Least
<1>7. m - 1 \in Nat /\ m - 1 \notin M
  BY <1>3, <1>6
<1>8. c(m) = IF m - 1 \in S THEN c(m - 1) + 1 ELSE c(m - 1)
  <2>1. (m - 1) + 1 = m
    BY <1>7
  <2> QED
    BY <1>5, <1>7, <2>1
<1>9. m - 1 \in S /\ c(m - 1) = k
  <2>1. m \in Nat /\ m <= b + 1 /\ c(m) > k
    BY <1>6
  <2>2. c(m - 1) \in Nat /\ ~(c(m - 1) > k)
    <3>1. m - 1 <= b + 1
      BY <1>7, <2>1
    <3>2. c(m - 1) \in Nat
      BY <1>2, <1>7, Zenon DEF c
    <3> QED
      BY <1>7, <3>1, <3>2, Zenon
  <2> HIDE DEF M
  <2> QED
    BY <1>1, <1>7, <1>8, <2>1, <2>2
<1>10. \E i \in S : Cardinality({j \in S : j < i}) = k
  BY <1>9 DEF c
<1> QED
  BY <1>10, Zenon DEF Nth

(* Capabilities are octets, whatever they are.                                  *)
LEMMA LettersTyped ==
  ASSUME NEW mask
  PROVE  Letters(mask) \in Seq(Octets)
<1> DEFINE bits == {i \in 0..15 : (mask \div 2 ^ i) % 2 = 1}
           C == Cardinality(bits)
           at(k) == CASE k % 3 = 1 -> 65 + Nth(bits, k \div 3)
                      [] k % 3 = 2 -> 44
                      [] k % 3 = 0 -> Space
<1>1. bits \subseteq 0..15
  OBVIOUS
<1> HIDE DEF bits
<1>2. C \in Nat
  <2>1. IsFiniteSet(0..15)
    <3>1. 0 \in Int /\ 15 \in Int
      OBVIOUS
    <3> QED
      BY <3>1, FS_Interval, Zenon
  <2> QED
    BY <1>1, <2>1, FS_Subset, FS_CardinalityType
<1>3. ASSUME NEW k \in 1..(3 * C - 2) PROVE at(k) \in Octets
  <2>0. k \in Nat /\ k <= 3 * C - 2
    BY <1>2
  <2>1. k % 3 \in 0..2 /\ k \div 3 \in Nat /\ k = 3 * (k \div 3) + (k % 3)
    BY <2>0
  <2>2. CASE k % 3 = 1
    <3>1. k \div 3 \in 0..(C - 1)
      BY <1>2, <2>0, <2>1, <2>2
    <3>2. 15 \in Nat
      OBVIOUS
    <3>3. Nth(bits, k \div 3) \in 0..15
      BY <1>1, <3>1, <3>2, Ranked, Zenon
    <3>4. at(k) = 65 + Nth(bits, k \div 3)
      BY <2>2
    <3> QED
      BY <3>3, <3>4 DEF Octets
  <2>3. CASE k % 3 = 2
    BY <2>3 DEF Octets
  <2>4. CASE k % 3 = 0
    BY <2>4 DEF Octets, Space
  <2> QED
    BY <2>1, <2>2, <2>3, <2>4
<1>4. Letters(mask) = [k \in 1..(3 * C - 2) |-> at(k)]
  BY Zenon DEF Letters, bits
<1> HIDE DEF at
<1>5. CASE C = 0
  <2>1. 1..(3 * C - 2) = {}
    BY <1>5
  <2>2. [k \in 1..(3 * C - 2) |-> at(k)] = <<>>
    BY <2>1
  <2>3. <<>> \in Seq(Octets)
    OBVIOUS
  <2> QED
    BY <1>4, <2>2, <2>3, Zenon
<1>6. CASE C # 0
  <2> DEFINE n == 3 * C - 2
  <2>1. n \in Nat
    BY <1>2, <1>6
  <2> HIDE DEF n
  <2>2. [k \in 1..n |-> at(k)] \in Seq(Octets)
    BY <1>3, <2>1 DEF n
  <2> QED
    BY <1>4, <2>2 DEF n
<1> QED
  BY <1>5, <1>6

(* What is shown of capabilities is octets.                                     *)
LEMMA CapabilitiesTyped ==
  ASSUME NEW n
  PROVE  /\ LldpCapabilities(n) = Chars(LldpCapabilities(n).octets)
         /\ LldpCapabilities(n).octets \in Seq(Octets)
         /\ CdpCapabilities(n) = Chars(CdpCapabilities(n).octets)
         /\ CdpCapabilities(n).octets \in Seq(Octets)
<1>1. /\ <<78, 47, 65>> \in Seq(Octets) /\ <<78, 111, 110, 101>> \in Seq(Octets)
      /\ <<32, 35>> \in Seq(Octets) /\ <<59, 32>> \in Seq(Octets)
  BY DEF Octets
<1>2. Letters(n.enabled) \in Seq(Octets) /\ Letters(n.capabilities) \in Seq(Octets)
  BY LettersTyped
<1>3. /\ NoneOr(Letters(n.enabled)) \in Seq(Octets)
      /\ NoneOr(Letters(n.capabilities)) \in Seq(Octets)
  BY <1>1, <1>2, Zenon DEF NoneOr
<1>4. /\ Letters(n.enabled) \o <<32, 35>> \in Seq(Octets)
      /\ Letters(n.capabilities) \o <<32, 35>> \in Seq(Octets)
      /\ NoneOr(Letters(n.enabled)) \o <<59, 32>> \in Seq(Octets)
  BY <1>1, <1>2, <1>3, ConcatProperties
<1>5. NoneOr(Letters(n.enabled)) \o <<59, 32>> \o NoneOr(Letters(n.capabilities)) \in Seq(Octets)
  BY <1>3, <1>4, ConcatProperties
<1>6. \A o : Chars(o).octets = o
  BY DEF Chars
<1>7. \E o \in Seq(Octets) : LldpCapabilities(n) = Chars(o)
  BY <1>1, <1>4, <1>5, Zenon DEF LldpCapabilities, NotAvailable
<1>8. \E o \in Seq(Octets) : CdpCapabilities(n) = Chars(o)
  BY <1>1, <1>4, Zenon DEF CdpCapabilities, NotAvailable
<1> QED
  BY <1>6, <1>7, <1>8, Zenon

(* The items of a record: headings that differ, and pages that fit the screen.  *)
IsItem(item) ==
    /\ item.heading # NoHeading /\ item.count \in Nat \ {0} /\ item.long \in BOOLEAN
    /\ item.long =>
          /\ item.count = PageCount(item.text)
          /\ \A k \in 0..(item.count - 1) :
                GetPage(item.text, k) \in Seq(Octets) /\ Len(GetPage(item.text, k)) < LineSize
AreItems(items) ==
    /\ Len(items) \in Nat \ {0} /\ DOMAIN items = 1..Len(items)
    /\ \A i \in DOMAIN items : IsItem(items[i])
    /\ \A i, j \in DOMAIN items : i # j => items[i].heading # items[j].heading

(* The pages up to an item are those of the one before, and its own.            *)
LEMMA UpToRecursion ==
  ASSUME NEW items, AreItems(items)
  PROVE  /\ PagesUpTo(items) \in [Nat -> Nat] /\ PagesUpTo(items)[0] = 0
         /\ \A i \in DOMAIN items :
               PagesUpTo(items)[i] = PagesUpTo(items)[i - 1] + items[i].count
<1> DEFINE next(i, x) == IF i \notin DOMAIN items THEN 0 ELSE x + items[i].count
           step == [n \in Nat |-> [x \in Nat |-> next(n + 1, x)]]
           pages == PagesUpTo(items)
<1>1. DOMAIN items \subseteq Nat \ {0} /\ \A i \in DOMAIN items : items[i].count \in Nat
  <2>1. \A i \in DOMAIN items : items[i].count \in Nat
    BY DEF AreItems, IsItem
  <2>2. DOMAIN items = 1..Len(items) /\ Len(items) \in Nat
    BY DEF AreItems
  <2> QED
    BY <2>1, <2>2
<1>2. \A i, x \in Nat : next(i, x) \in Nat
  BY <1>1
<1>3. PICK f \in [Nat -> Nat] : Solves(f, 0, step)
  <2>1. 0 \in Nat /\ step \in [Nat -> [Nat -> Nat]]
    <3> HIDE DEF next
    <3> QED
      BY <1>2
  <2> HIDE DEF step
  <2> QED
    BY <2>1, Recursion, Zenon
<1>4. f = [i \in Nat |-> IF i \notin DOMAIN items THEN 0 ELSE f[i - 1] + items[i].count]
  <2>1. ASSUME NEW i \in Nat
        PROVE  f[i] = IF i \notin DOMAIN items THEN 0 ELSE f[i - 1] + items[i].count
    <3>1. CASE i = 0
      BY <1>1, <1>3, <3>1 DEF Solves
    <3>2. CASE i # 0
      <4>1. i - 1 \in Nat /\ (i - 1) + 1 = i
        BY <3>2
      <4>2. f[i] = step[i - 1][f[i - 1]]
        <5> HIDE DEF step
        <5> QED
          BY <1>3, <3>2 DEF Solves
      <4>3. step[i - 1][f[i - 1]] = next(i, f[i - 1])
        <5> HIDE DEF next
        <5> QED
          BY <4>1
      <4> QED
        BY <4>2, <4>3, Zenon
    <3> QED
      BY <3>1, <3>2
  <2>2. f = [i \in Nat |-> f[i]]
    OBVIOUS
  <2> QED
    BY <2>1, <2>2
<1>5. pages = [i \in Nat |-> IF i \notin DOMAIN items THEN 0 ELSE pages[i - 1] + items[i].count]
  BY <1>4, Zenon DEF PagesUpTo
<1> HIDE DEF pages
<1>6. \A i \in Nat : pages[i] = next(i, pages[i - 1])
  BY <1>5, Zenon
<1>7. pages[0] = 0
  BY <1>1, <1>6
<1>8. pages \in [Nat -> Nat]
  <2>1. pages = [n \in Nat |-> pages[n]]
    BY <1>5, Zenon
  <2>2. ASSUME NEW n \in Nat, pages[n] \in Nat PROVE pages[n + 1] \in Nat
    <3>1. n + 1 \in Nat /\ (n + 1) - 1 = n
      OBVIOUS
    <3> HIDE DEF next
    <3> QED
      BY <1>2, <1>6, <2>2, <3>1
  <2>3. pages[0] \in Nat
    BY <1>7
  <2> QED
    BY <2>1, <2>2, <2>3, Computes, Zenon
<1>9. \A i \in DOMAIN items : i \in Nat
  BY <1>1
<1>10. \A i \in DOMAIN items : pages[i] = pages[i - 1] + items[i].count
  BY <1>6, <1>9, Zenon
<1> QED
  BY <1>7, <1>8, <1>10, Zenon DEF pages

(* The pages in front of a later item are no fewer.                            *)
LEMMA UpToGrows ==
  ASSUME NEW items, AreItems(items), NEW i \in DOMAIN items, NEW j \in DOMAIN items, i < j
  PROVE  PagesUpTo(items)[i] <= PagesUpTo(items)[j - 1]
<1> DEFINE K == Len(items)
           pages == PagesUpTo(items)
           S == {m \in Nat : i + m + 1 <= K => pages[i] <= pages[i + m]}
<1>1. K \in Nat \ {0} /\ DOMAIN items = 1..K /\ \A m \in 1..K : items[m].count \in Nat
  BY DEF AreItems, IsItem
<1>2. /\ pages \in [Nat -> Nat]
      /\ \A m \in 1..K : pages[m] = pages[m - 1] + items[m].count
  BY <1>1, UpToRecursion
<1> HIDE DEF K, pages
<1>3. 0 \in S
  BY <1>1, <1>2
<1>4. ASSUME NEW m \in Nat, m \in S PROVE m + 1 \in S
  <2> SUFFICES ASSUME i + (m + 1) + 1 <= K PROVE pages[i] <= pages[i + (m + 1)]
    OBVIOUS
  <2>1. i + (m + 1) \in 1..K /\ (i + (m + 1)) - 1 = i + m /\ i + m \in Nat /\ i \in Nat
    BY <1>1
  <2>2. pages[i + (m + 1)] = pages[i + m] + items[i + (m + 1)].count
    BY <1>2, <2>1
  <2>3. pages[i] <= pages[i + m]
    BY <1>1, <1>4
  <2>4. items[i + (m + 1)].count \in Nat /\ pages[i] \in Nat /\ pages[i + m] \in Nat
    BY <1>1, <1>2, <2>1
  <2> QED
    BY <2>2, <2>3, <2>4
<1> HIDE DEF S
<1>5. Nat \subseteq S
  BY <1>3, <1>4, Induction
<1>6. j - i - 1 \in Nat /\ i + (j - i - 1) = j - 1 /\ i + (j - i - 1) + 1 <= K
  BY <1>1
<1>7. pages[i] <= pages[i + (j - i - 1)]
  BY <1>5, <1>6, Zenon DEF S
<1> QED
  BY <1>6, <1>7 DEF pages

(* A page is on one item, or past the last.                                     *)
LEMMA OnItem ==
  ASSUME NEW items, AreItems(items), NEW number \in Nat, number < PagesUpTo(items)[Len(items)]
  PROVE  \E i \in DOMAIN items :
            number \in PagesUpTo(items)[i - 1]..(PagesUpTo(items)[i] - 1)
<1> DEFINE K == Len(items)
           pages == PagesUpTo(items)
           S == {i \in 0..K : number < pages[i]}
<1>1. K \in Nat \ {0} /\ DOMAIN items = 1..K
  BY DEF AreItems
<1>2. pages \in [Nat -> Nat] /\ pages[0] = 0
  BY UpToRecursion
<1> HIDE DEF K, pages
<1>3. S \subseteq Nat /\ K \in S
  BY <1>1 DEF K, pages
<1>4. PICK i \in S : \A j \in S : i <= j
  BY <1>3, Least
<1>5. i \in 1..K /\ i - 1 \in 0..K /\ i - 1 \notin S
  <2>1. i \in 0..K /\ number < pages[i]
    BY <1>4
  <2>2. i # 0
    BY <1>2, <2>1
  <2>3. i \in 1..K /\ i - 1 \in 0..K /\ ~(i <= i - 1)
    BY <1>1, <2>1, <2>2
  <2> HIDE DEF S
  <2> QED
    BY <1>4, <2>3, Zenon
<1>6. number \in pages[i - 1]..(pages[i] - 1)
  <2>1. number < pages[i] /\ ~(number < pages[i - 1])
    BY <1>4, <1>5
  <2>2. pages[i] \in Nat /\ pages[i - 1] \in Nat
    BY <1>1, <1>2, <1>5
  <2> QED
    BY <2>1, <2>2
<1> QED
  BY <1>1, <1>5, <1>6 DEF pages

(* A page is of one item only.                                                 *)
LEMMA OneItem ==
  ASSUME NEW items, AreItems(items), NEW i \in DOMAIN items, NEW j \in DOMAIN items, NEW number,
         number \in PagesUpTo(items)[i - 1]..(PagesUpTo(items)[i] - 1),
         number \in PagesUpTo(items)[j - 1]..(PagesUpTo(items)[j] - 1)
  PROVE  i = j
<1> DEFINE pages == PagesUpTo(items)
<1>1. i \in Nat \ {0} /\ j \in Nat \ {0}
  BY DEF AreItems
<1>2. i < j => pages[i] <= pages[j - 1]
  BY UpToGrows
<1>3. j < i => pages[j] <= pages[i - 1]
  BY UpToGrows
<1>4. /\ pages[i] \in Nat /\ pages[i - 1] \in Nat
      /\ pages[j] \in Nat /\ pages[j - 1] \in Nat
  <2>1. pages \in [Nat -> Nat]
    BY UpToRecursion
  <2> QED
    BY <1>1, <2>1
<1> HIDE DEF pages
<1>5. number \in pages[i - 1]..(pages[i] - 1) /\ number \in pages[j - 1]..(pages[j] - 1)
  BY DEF pages
<1> QED
  BY <1>1, <1>2, <1>3, <1>4, <1>5

(* So a page shows its part of the item that it is on, and past the last none.  *)
LEMMA Built ==
  ASSUME NEW n, AreItems(Items(n)), NEW i \in DOMAIN Items(n), NEW number,
         number \in PagesUpTo(Items(n))[i - 1]..(PagesUpTo(Items(n))[i] - 1)
  PROVE  /\ BuildPage(n, number).heading = Items(n)[i].heading
         /\ BuildPage(n, number).line =
              IF Items(n)[i].long
                 THEN GetPage(Items(n)[i].text, number - PagesUpTo(Items(n))[i - 1]) ELSE <<>>
<1> DEFINE items == Items(n)
           pages == PagesUpTo(items)
           showing == {j \in DOMAIN items : number \in pages[j - 1]..(pages[j] - 1)}
           show(j) == [heading |-> items[j].heading, value |-> items[j].value,
                       line |-> IF items[j].long THEN GetPage(items[j].text, number - pages[j - 1])
                                                 ELSE <<>>]
<1>1. i \in showing
  BY Zenon
<1>2. \A j \in showing : j = i
  BY OneItem, Zenon
<1>3. (CHOOSE j \in showing : TRUE) = i
  BY <1>1, <1>2, Zenon
<1>4. BuildPage(n, number) = IF showing = {} THEN EmptyScreen ELSE show(CHOOSE j \in showing : TRUE)
  BY Zenon DEF BuildPage, PageAmong
<1> HIDE DEF showing
<1>5. showing # {}
  BY <1>1
<1>6. BuildPage(n, number) = show(i)
  <2> HIDE DEF show
  <2> QED
    BY <1>3, <1>4, <1>5, Zenon
<1> HIDE DEF items, pages
<1>7. /\ show(i).heading = items[i].heading
      /\ show(i).line = IF items[i].long THEN GetPage(items[i].text, number - pages[i - 1]) ELSE <<>>
  OBVIOUS
<1> HIDE DEF show
<1> QED
  BY <1>6, <1>7, Zenon DEF items, pages

(* Behind the pages of the last item there is nothing.                         *)
LEMMA Past ==
  ASSUME NEW n, AreItems(Items(n))
  PROVE  BuildPage(n, PagesUpTo(Items(n))[Len(Items(n))]) = EmptyScreen
<1> DEFINE items == Items(n)
           K == Len(items)
           pages == PagesUpTo(items)
           number == pages[K]
           showing == {j \in DOMAIN items : number \in pages[j - 1]..(pages[j] - 1)}
<1>1. K \in Nat \ {0} /\ DOMAIN items = 1..K
  BY DEF AreItems
<1>2. \A j \in DOMAIN items : pages[j] <= number
  <2> SUFFICES ASSUME NEW j \in DOMAIN items PROVE pages[j] <= number
    OBVIOUS
  <2>0. K \in DOMAIN items
    <3> HIDE DEF K
    <3> QED
      BY <1>1
  <2>1. pages \in [Nat -> Nat] /\ pages[K] = pages[K - 1] + items[K].count
    BY <2>0, UpToRecursion, Zenon
  <2>2. items[K].count \in Nat
    <3>1. IsItem(items[K])
      BY <2>0, Zenon DEF AreItems
    <3> QED
      BY <3>1 DEF IsItem
  <2>3. j < K => pages[j] <= pages[K - 1]
    BY <2>0, UpToGrows, Zenon
  <2>4. j \in 1..K /\ K \in Nat \ {0}
    BY <1>1, Zenon
  <2> HIDE DEF items, pages, K
  <2>5. pages[j] \in Nat /\ pages[K - 1] \in Nat
    <3>1. K - 1 \in Nat /\ j \in Nat
      BY <2>4
    <3> QED
      BY <2>1, <3>1
  <2>6. CASE j = K
    BY <2>1, <2>2, <2>5, <2>6
  <2>7. CASE j # K
    <3>1. j < K
      BY <2>4, <2>7
    <3> QED
      BY <2>1, <2>2, <2>3, <2>5, <3>1
  <2> QED
    BY <2>6, <2>7
<1>3. pages \in [Nat -> Nat]
  BY UpToRecursion
<1>4. BuildPage(n, number) =
        IF showing = {} THEN EmptyScreen
        ELSE [heading |-> items[CHOOSE j \in showing : TRUE].heading,
              value |-> items[CHOOSE j \in showing : TRUE].value,
              line |-> IF items[CHOOSE j \in showing : TRUE].long
                          THEN GetPage(items[CHOOSE j \in showing : TRUE].text,
                                       number - pages[(CHOOSE j \in showing : TRUE) - 1])
                          ELSE <<>>]
  BY Zenon DEF BuildPage, PageAmong
<1> HIDE DEF items, pages, K
<1>5. showing = {}
  <2> SUFFICES ASSUME NEW j \in showing PROVE FALSE
    OBVIOUS
  <2>1. j \in DOMAIN items /\ number \in pages[j - 1]..(pages[j] - 1) /\ pages[j] <= number
    BY <1>2
  <2>2. j \in Nat /\ j - 1 \in Nat /\ K \in Nat
    BY <1>1, <2>1
  <2>3. pages[j] \in Nat /\ pages[j - 1] \in Nat /\ number \in Nat
    <3> HIDE DEF showing
    <3> QED
      BY <1>3, <2>2
  <2> HIDE DEF showing
  <2> QED
    BY <2>1, <2>3
<1> HIDE DEF showing, number
<1>6. BuildPage(n, number) = EmptyScreen
  BY <1>4, <1>5, Zenon
<1> QED
  BY <1>6 DEF number, pages, items, K

(* The lines of a heading, one behind the other.                                *)
AreLines(lines, pages, heading, count) ==
    /\ lines \in [Nat -> Seq(Octets)] /\ lines[0] = <<>>
    /\ \A p \in 1..count :
          lines[p] = IF pages[p].heading = heading THEN lines[p - 1] \o pages[p].line ELSE lines[p - 1]

(* The lines of a heading are those its recursive definition collects.         *)
LEMMA LinesRecursion ==
  ASSUME NEW pages, NEW heading, NEW count \in Nat, DOMAIN pages = 1..count,
         \A p \in DOMAIN pages : pages[p].line \in Seq(Octets)
  PROVE  AreLines(LinesOf(pages, heading), pages, heading, count)
<1> DEFINE D == Seq(Octets)
           next(p, x) == IF p \notin DOMAIN pages THEN <<>>
                         ELSE IF pages[p].heading = heading THEN x \o pages[p].line ELSE x
           step == [n \in Nat |-> [x \in D |-> next(n + 1, x)]]
           lines == LinesOf(pages, heading)
<1>1. \A p \in Nat, x \in D : next(p, x) \in D
  <2> SUFFICES ASSUME NEW p \in Nat, NEW x \in D PROVE next(p, x) \in D
    OBVIOUS
  <2>1. <<>> \in D
    OBVIOUS
  <2>2. p \in DOMAIN pages => x \o pages[p].line \in D
    BY ConcatProperties
  <2> HIDE DEF D
  <2> QED
    BY <2>1, <2>2, Zenon
<1>2. PICK f \in [Nat -> D] : Solves(f, <<>>, step)
  <2>1. <<>> \in D /\ step \in [Nat -> [D -> D]]
    <3>1. <<>> \in D
      OBVIOUS
    <3> HIDE DEF next, D
    <3> QED
      BY <1>1, <3>1
  <2> HIDE DEF step, D
  <2> QED
    BY <2>1, Recursion, Zenon
<1>3. f = [p \in Nat |-> IF p \notin DOMAIN pages THEN <<>>
                         ELSE IF pages[p].heading = heading THEN f[p - 1] \o pages[p].line
                         ELSE f[p - 1]]
  <2>1. ASSUME NEW p \in Nat PROVE f[p] = next(p, f[p - 1])
    <3>1. CASE p = 0
      BY <1>2, <3>1 DEF Solves
    <3>2. CASE p # 0
      <4>1. p - 1 \in Nat /\ (p - 1) + 1 = p
        BY <3>2
      <4>2. f[p] = step[p - 1][f[p - 1]]
        <5> HIDE DEF step
        <5> QED
          BY <1>2, <3>2 DEF Solves
      <4>3. step[p - 1][f[p - 1]] = next(p, f[p - 1])
        <5> HIDE DEF next, D
        <5> QED
          BY <4>1
      <4> QED
        BY <4>2, <4>3, Zenon
    <3> QED
      BY <3>1, <3>2
  <2>2. f = [p \in Nat |-> f[p]]
    <3> HIDE DEF D
    <3> QED
      OBVIOUS
  <2> QED
    BY <2>1, <2>2
<1>4. lines = [p \in Nat |-> IF p \notin DOMAIN pages THEN <<>>
                             ELSE IF pages[p].heading = heading THEN lines[p - 1] \o pages[p].line
                             ELSE lines[p - 1]]
  BY <1>3, Zenon DEF LinesOf
<1> HIDE DEF lines
<1>5. \A p \in Nat : lines[p] = next(p, lines[p - 1])
  BY <1>4, Zenon
<1>6. lines[0] = <<>>
  <2>1. 0 \in Nat /\ 0 \notin DOMAIN pages
    OBVIOUS
  <2> QED
    BY <1>5, <2>1, Zenon
<1>7. lines \in [Nat -> D]
  <2>1. lines = [p \in Nat |-> lines[p]]
    BY <1>4, Zenon
  <2>2. ASSUME NEW p \in Nat, lines[p] \in D PROVE lines[p + 1] \in D
    <3>1. p + 1 \in Nat /\ (p + 1) - 1 = p
      OBVIOUS
    <3>2. lines[p + 1] = next(p + 1, lines[p])
      <4> HIDE DEF next
      <4> QED
        BY <1>5, <3>1
    <3> HIDE DEF next, D
    <3> QED
      BY <1>1, <2>2, <3>1, <3>2
  <2>3. lines[0] \in D
    BY <1>6
  <2> HIDE DEF D
  <2> QED
    BY <2>1, <2>2, <2>3, Computes, Zenon
<1>8. \A p \in 1..count : p \in Nat /\ p \in DOMAIN pages
  OBVIOUS
<1>9. \A p \in 1..count :
         lines[p] = IF pages[p].heading = heading THEN lines[p - 1] \o pages[p].line ELSE lines[p - 1]
  BY <1>5, <1>8, Zenon
<1> QED
  BY <1>6, <1>7, <1>9, Zenon DEF lines, AreLines

(* Every page of a record has a heading, and its line fits the screen.          *)
LEMMA PageFits ==
  ASSUME LineSize \in Nat \ {0}, NEW n, AreItems(Items(n)),
         NEW number \in 0..(PagesUpTo(Items(n))[Len(Items(n))] - 1)
  PROVE  /\ BuildPage(n, number).heading # NoHeading
         /\ BuildPage(n, number).line \in Seq(Octets)
         /\ Len(BuildPage(n, number).line) < LineSize
<1> DEFINE items == Items(n)
           pages == PagesUpTo(items)
<1>1. pages \in [Nat -> Nat] /\ \A i \in DOMAIN items : pages[i] = pages[i - 1] + items[i].count
  BY UpToRecursion, Zenon
<1>2. Len(items) \in Nat /\ DOMAIN items = 1..Len(items)
  BY Zenon DEF AreItems
<1>3. number \in Nat /\ number < pages[Len(items)]
  <2> HIDE DEF pages, items
  <2>1. pages[Len(items)] \in Nat
    BY <1>1, <1>2
  <2>2. number \in 0..(pages[Len(items)] - 1)
    BY Zenon DEF pages, items
  <2> QED
    BY <2>1, <2>2
<1>4. PICK i \in DOMAIN items : number \in pages[i - 1]..(pages[i] - 1)
  BY <1>3, OnItem, Zenon
<1>5. /\ BuildPage(n, number).heading = items[i].heading
      /\ BuildPage(n, number).line = IF items[i].long THEN GetPage(items[i].text, number - pages[i - 1])
                                   ELSE <<>>
  BY <1>4, Built, Zenon
<1>6. IsItem(items[i])
  BY Zenon DEF AreItems
<1> HIDE DEF items, pages
<1>7. number - pages[i - 1] \in 0..(items[i].count - 1)
  <2>0. i \in 1..Len(items)
    BY <1>2, Zenon
  <2>1. i - 1 \in Nat
    BY <1>2, <2>0
  <2>2. items[i].count \in Nat
    BY <1>6, Zenon DEF IsItem
  <2>3. pages[i - 1] \in Nat /\ pages[i] = pages[i - 1] + items[i].count
    BY <1>1, <2>1, Zenon
  <2> QED
    BY <1>4, <2>2, <2>3
<1>8. items[i].long =>
        /\ GetPage(items[i].text, number - pages[i - 1]) \in Seq(Octets)
        /\ Len(GetPage(items[i].text, number - pages[i - 1])) < LineSize
  BY <1>6, <1>7, Zenon DEF IsItem
<1>9. <<>> \in Seq(Octets) /\ Len(<<>>) < LineSize
  OBVIOUS
<1>10. items[i].heading # NoHeading
  BY <1>6, Zenon DEF IsItem
<1> QED
  BY <1>5, <1>8, <1>9, <1>10, Zenon

(* Of a text, the pages show all that is not a space, in order.                 *)
LEMMA HeadingShown ==
  ASSUME LineSize \in Nat \ {0}, NEW n, AreItems(Items(n)), NEW j \in DOMAIN Items(n),
         Items(n)[j].long, NEW v, Shows(Items(n)[j].text, v)
  PROVE  NoSpaces(Shown(FirstPages(n, PagesUpTo(Items(n))[Len(Items(n))]), Items(n)[j].heading))
            = NoSpaces(OrNotAvailable(Items(n)[j].text).octets)
<1> DEFINE items == Items(n)
           upTo == PagesUpTo(items)
           total == upTo[Len(items)]
           pages == FirstPages(n, total)
           text == items[j].text
           heading == items[j].heading
           N == PageCount(text)
           b == upTo[j - 1]
           lines == LinesOf(pages, heading)
           at(p) == IF p < b THEN 0 ELSE IF p > b + N THEN N ELSE p - b
           S == {p \in Nat : p <= total => NoSpaces(lines[p]) = v[at(p)]}
<1>1. /\ upTo \in [Nat -> Nat]
      /\ \A i \in DOMAIN items : upTo[i] = upTo[i - 1] + items[i].count
  BY UpToRecursion, Zenon
<1>2. Len(items) \in Nat \ {0} /\ DOMAIN items = 1..Len(items)
  BY Zenon DEF AreItems
<1>3. N \in Nat \ {0} /\ items[j].count = N
  BY Zenon DEF AreItems, IsItem, Shows
<1>4. /\ v[0] = <<>>
      /\ \A k \in 0..(N - 1) : /\ GetPage(text, k) \in Seq(Octets) /\ v[k] \in Seq(Octets)
                              /\ v[k + 1] = v[k] \o NoSpaces(GetPage(text, k))
      /\ v[N] = NoSpaces(OrNotAvailable(text).octets)
  BY Zenon DEF Shows
<1>5. total \in Nat /\ b \in Nat /\ upTo[j] = b + N /\ b + N <= total
  <2>1. upTo[j] = b + N
    BY <1>1, <1>3, Zenon
  <2>2. j < Len(items) => upTo[j] <= upTo[Len(items) - 1]
    <3>1. Len(items) \in DOMAIN items
      <4> HIDE DEF items
      <4> QED
        BY <1>2
    <3> QED
      BY <3>1, UpToGrows, Zenon
  <2>3. upTo[Len(items)] = upTo[Len(items) - 1] + items[Len(items)].count
        /\ items[Len(items)].count \in Nat
    <3>1. Len(items) \in DOMAIN items
      <4> HIDE DEF items
      <4> QED
        BY <1>2
    <3>2. IsItem(items[Len(items)])
      BY <3>1, Zenon DEF AreItems
    <3>3. items[Len(items)].count \in Nat
      BY <3>2 DEF IsItem
    <3> QED
      BY <1>1, <3>1, <3>3, Zenon
  <2>4. j \in 1..Len(items)
    BY <1>2, Zenon
  <2> HIDE DEF items, upTo, N
  <2>5. /\ upTo[j] \in Nat /\ upTo[j - 1] \in Nat
        /\ upTo[Len(items)] \in Nat /\ upTo[Len(items) - 1] \in Nat
    <3>1. j \in Nat /\ j - 1 \in Nat /\ Len(items) \in Nat /\ Len(items) - 1 \in Nat
      BY <1>2, <2>4
    <3> QED
      BY <1>1, <3>1
  <2>6. CASE j = Len(items)
    BY <2>1, <2>5, <2>6
  <2>7. CASE j # Len(items)
    <3>1. j < Len(items)
      BY <1>2, <2>4, <2>7
    <3> QED
      BY <2>1, <2>2, <2>3, <2>5, <3>1
  <2> QED
    BY <2>6, <2>7
<1>6. /\ DOMAIN pages = 1..total /\ Len(pages) = total
      /\ \A p \in 1..total : pages[p] = BuildPage(n, p - 1)
  <2> HIDE DEF total
  <2> QED
    BY <1>5 DEF FirstPages
<1>7. \A p \in 1..total : pages[p].line \in Seq(Octets)
  <2> SUFFICES ASSUME NEW p \in 1..total PROVE pages[p].line \in Seq(Octets)
    BY Zenon
  <2>1. p - 1 \in 0..(total - 1)
    <3> HIDE DEF total
    <3> QED
      BY <1>5
  <2>2. BuildPage(n, p - 1).line \in Seq(Octets)
    BY <2>1, PageFits, Zenon
  <2> QED
    BY <1>6, <2>2, Zenon
<1>8. /\ lines \in [Nat -> Seq(Octets)] /\ lines[0] = <<>>
      /\ \A p \in 1..total :
            lines[p] = IF pages[p].heading = heading THEN lines[p - 1] \o pages[p].line ELSE lines[p - 1]
  <2> HIDE DEF total, pages, heading
  <2>1. \A p \in DOMAIN pages : pages[p].line \in Seq(Octets)
    BY <1>6, <1>7, Zenon
  <2>2. total \in Nat /\ DOMAIN pages = 1..total
    BY <1>5, <1>6, Zenon
  <2>3. AreLines(lines, pages, heading, total)
    BY <2>1, <2>2, LinesRecursion
  <2> QED
    BY <2>3, Zenon DEF AreLines
<1> HIDE DEF lines
<1>9. 0 \in S
  <2>1. NoSpaces(<<>>) = <<>>
    <3>1. <<>> \in Seq(Octets) /\ \A i \in 1..Len(<<>>) : <<>>[i] = Space
      OBVIOUS
    <3> QED
      BY <3>1, OnlySpaces, Zenon
  <2>2. at(0) = 0
    <3> HIDE DEF b, N
    <3> QED
      BY <1>3, <1>5
  <2>3. 0 \in Nat
    OBVIOUS
  <2> HIDE DEF at
  <2> QED
    BY <1>4, <1>8, <2>1, <2>2, <2>3, Zenon
<1>10. ASSUME NEW p \in Nat, p \in S PROVE p + 1 \in S
  <2>0. p + 1 \in Nat /\ (p + 1) - 1 = p
    OBVIOUS
  <2> SUFFICES ASSUME p + 1 <= total PROVE NoSpaces(lines[p + 1]) = v[at(p + 1)]
    BY <2>0, Zenon
  <2>1. p + 1 \in 1..total /\ p < total /\ p <= total
    <3> HIDE DEF total
    <3> QED
      BY <1>5
  <2>2. NoSpaces(lines[p]) = v[at(p)] /\ lines[p] \in Seq(Octets)
    <3> HIDE DEF at, total
    <3> QED
      BY <1>8, <1>10, <2>1, Zenon
  <2>3. lines[p + 1] = IF BuildPage(n, p).heading = heading THEN lines[p] \o BuildPage(n, p).line
                       ELSE lines[p]
    <3> HIDE DEF total, pages, heading
    <3> QED
      BY <1>6, <1>8, <2>0, <2>1, Zenon
  <2>4. PICK i \in DOMAIN items : p \in upTo[i - 1]..(upTo[i] - 1)
    BY <2>1, OnItem, Zenon
  <2>5. /\ BuildPage(n, p).heading = items[i].heading
        /\ BuildPage(n, p).line = IF items[i].long THEN GetPage(items[i].text, p - upTo[i - 1]) ELSE <<>>
    BY <2>4, Built, Zenon
  <2>6. CASE i = j
    <3>1. p - b \in 0..(N - 1) /\ at(p) = p - b /\ at(p + 1) = (p - b) + 1
      <4>1. p \in b..(b + N - 1)
        <5>1. p \in b..(upTo[j] - 1)
          BY <2>4, <2>6, Zenon
        <5>2. b \in Nat /\ upTo[j] = b + N
          BY <1>5, Zenon
        <5> HIDE DEF b, N, upTo
        <5> QED
          BY <1>3, <5>1, <5>2
      <4> HIDE DEF b, N
      <4> QED
        BY <1>3, <1>5, <4>1
    <3>2. BuildPage(n, p).line = GetPage(text, p - b) /\ BuildPage(n, p).heading = heading
      BY <2>5, <2>6, Zenon
    <3>3. lines[p + 1] = lines[p] \o GetPage(text, p - b)
      BY <2>3, <3>2, Zenon
    <3> HIDE DEF at, text, b, N
    <3>4. GetPage(text, p - b) \in Seq(Octets) /\ v[(p - b) + 1] = v[p - b] \o NoSpaces(GetPage(text, p - b))
      BY <1>4, <3>1, Zenon
    <3>5. NoSpaces(lines[p] \o GetPage(text, p - b)) = NoSpaces(lines[p]) \o NoSpaces(GetPage(text, p - b))
      BY <2>2, <3>4, Concatenated, Zenon
    <3> QED
      BY <2>2, <3>1, <3>3, <3>4, <3>5, Zenon
  <2>7. CASE i # j
    <3>1. items[i].heading # heading
      BY <2>7, Zenon DEF AreItems
    <3>2. ~(p \in b..(upTo[j] - 1))
      BY <2>4, <2>7, OneItem, Zenon
    <3>3. at(p + 1) = at(p)
      <4> HIDE DEF b, N, upTo
      <4> QED
        BY <1>3, <1>5, <3>2
    <3>4. lines[p + 1] = lines[p]
      BY <2>3, <2>5, <3>1, Zenon
    <3> QED
      BY <2>2, <3>3, <3>4, Zenon
  <2> QED
    BY <2>6, <2>7
<1>11. total \in S
  <2> HIDE DEF S
  <2>1. Nat \subseteq S
    BY <1>9, <1>10, Induction
  <2> QED
    BY <1>5, <2>1
<1>12. NoSpaces(lines[total]) = v[at(total)]
  <2>1. total <= total
    <3> HIDE DEF total
    <3> QED
      BY <1>5
  <2> HIDE DEF at
  <2> QED
    BY <1>11, <2>1, Zenon
<1>13. at(total) = N
  <2> HIDE DEF total, b, N
  <2> QED
    BY <1>3, <1>5
<1> HIDE DEF at
<1>14. Shown(pages, heading) = lines[total]
  BY <1>6, Zenon DEF Shown, lines
<1> QED
  BY <1>4, <1>12, <1>13, <1>14, Zenon

(* Records of which the items are counted are shown completely.                 *)
LEMMA Complete ==
  ASSUME GlyphsPerPage \in Nat \ {0}, LineSize \in Nat, LineSize > 6,
         NEW n, NEW a, AreItems(Items(n)),
         DetailsPageCount(n) = PagesUpTo(Items(n))[Len(Items(n))],
         \A t \in Texts(a) : \E j \in DOMAIN Items(n) :
            /\ Items(n)[j].heading = t[1] /\ Items(n)[j].long
            /\ Items(n)[j].text = t[2] /\ IsText(t[2])
  PROVE  PagesAreComplete(n, a)
<1> DEFINE total == DetailsPageCount(n)
           pages == FirstPages(n, total)
<1>1. total \in Nat
  <2>1. PagesUpTo(Items(n)) \in [Nat -> Nat] /\ Len(Items(n)) \in Nat
    BY UpToRecursion, Zenon DEF AreItems
  <2> QED
    BY <2>1
<1>2. LineSize \in Nat \ {0}
  OBVIOUS
<1>3. BuildPage(n, total) = EmptyScreen
  BY Past, Zenon
<1>4. DOMAIN pages = 1..total /\ \A p \in 1..total : pages[p] = BuildPage(n, p - 1)
  BY Zenon DEF FirstPages
<1>5. ASSUME NEW p \in 1..total
      PROVE  BuildPage(n, p - 1).heading # NoHeading /\ Len(BuildPage(n, p - 1).line) < LineSize
  <2>1. p - 1 \in 0..(total - 1)
    <3> HIDE DEF total
    <3> QED
      BY <1>1
  <2> QED
    BY <1>2, <2>1, PageFits, Zenon
<1>6. ASSUME NEW t \in Texts(a)
      PROVE  NoSpaces(Shown(pages, t[1])) = NoSpaces(OrNotAvailable(t[2]).octets)
  <2>1. PICK j \in DOMAIN Items(n) : /\ Items(n)[j].heading = t[1] /\ Items(n)[j].long
                                     /\ Items(n)[j].text = t[2] /\ IsText(t[2])
    BY Zenon
  <2>2. PICK v : Shows(Items(n)[j].text, v)
    BY <2>1, TextShown
  <2>3. NoSpaces(Shown(FirstPages(n, PagesUpTo(Items(n))[Len(Items(n))]), Items(n)[j].heading))
           = NoSpaces(OrNotAvailable(Items(n)[j].text).octets)
    BY <1>2, <2>1, <2>2, HeadingShown
  <2>4. NoSpaces(Shown(FirstPages(n, DetailsPageCount(n)), t[1])) = NoSpaces(OrNotAvailable(t[2]).octets)
    BY <2>1, <2>3, Zenon
  <2> QED
    BY <2>4
<1> HIDE DEF total, pages
<1>7. \A p \in DOMAIN pages : pages[p].heading # NoHeading /\ Len(pages[p].line) < LineSize
  BY <1>4, <1>5, Zenon
<1>8. /\ \A p \in DOMAIN pages : pages[p].heading # NoHeading /\ Len(pages[p].line) < LineSize
      /\ BuildPage(n, total) = EmptyScreen
      /\ \A t \in Texts(a) : NoSpaces(Shown(pages, t[1])) = NoSpaces(OrNotAvailable(t[2]).octets)
  BY <1>3, <1>6, <1>7, Zenon
<1> QED
  BY <1>8, Zenon DEF PagesAreComplete, pages, total

(* Texts make items; capabilities, too, though not all of them need to be shown.*)
IsLong(item, heading, text) ==
    /\ IsItem(item) /\ item.long /\ item.heading = heading /\ item.text = text
    /\ item.count = PageCount(text) /\ PageCount(text) \in Nat
IsShort(item, heading) == IsItem(item) /\ item.heading = heading /\ item.count = 1

(* An item on one page is one that takes one page.                             *)
LEMMA ShortItem ==
  ASSUME NEW heading, heading # NoHeading, NEW value
  PROVE  IsShort(Short(heading, value), heading)
BY DEF IsShort, IsItem, Short

(* A text that is laid out on pages is an item that takes as many as it has.   *)
LEMMA TextItem ==
  ASSUME GlyphsPerPage \in Nat \ {0}, LineSize \in Nat, LineSize > 6,
         NEW heading, heading # NoHeading, NEW text, IsText(text)
  PROVE  IsLong(Long(heading, text), heading, text)
<1>1. PICK v : Shows(text, v)
  BY TextShown
<1>2. /\ Long(heading, text).heading = heading /\ Long(heading, text).long = TRUE
      /\ Long(heading, text).text = text /\ Long(heading, text).count = PageCount(text)
  BY DEF Long
<1>3. PageCount(text) \in Nat
  BY <1>1 DEF Shows
<1>4. TRUE \in BOOLEAN
  OBVIOUS
<1> QED
  BY <1>1, <1>2, <1>3, <1>4, Zenon DEF IsLong, IsItem, Shows

(* So are the capabilities.                                                    *)
LEMMA CapabilitiesItem ==
  ASSUME GlyphsPerPage \in Nat \ {0}, LineSize \in Nat, LineSize > 6,
         NEW heading, heading # NoHeading, NEW o \in Seq(Octets)
  PROVE  IsLong(Long(heading, Chars(o)), heading, Chars(o))
<1> DEFINE text == Chars(o)
<1>1. CASE o = <<>>
  <2>1. IsText(text)
    BY <1>1 DEF IsText, Chars
  <2> QED
    BY <2>1, TextItem
<1>2. CASE o # <<>>
  <2>1. PageCount(text) \in 1..Len(o) /\ \A k \in Nat : Pages(o)[k] <= Len(o) <=> k < PageCount(text)
    BY <1>2, Counted
  <2>2. PageCount(text) \in Nat \ {0}
    BY <2>1
  <2>3. text.form = "chars" /\ text # NoText /\ text.octets = o
    BY <1>2 DEF Chars, NoText
  <2> HIDE DEF text
  <2>4. ASSUME NEW k \in 0..(PageCount(text) - 1)
        PROVE  GetPage(text, k) \in Seq(Octets) /\ Len(GetPage(text, k)) < LineSize
    <3> DEFINE p == Pages(o)[k]
               shown == SubSeq(o, p, PageEnd(o, p) - 1)
    <3>1. k \in Nat /\ k < PageCount(text)
      BY <2>2
    <3>2. p <= Len(o) /\ p \in 1..(Len(o) + 1)
      BY <2>1, <3>1, Starts, Zenon
    <3> HIDE DEF p
    <3>3. p \in 1..Len(o) /\ ~(p > Len(o))
      BY <3>2
    <3>4. GetPage(text, k) = Cut(TrimRight(shown), LineSize)
      BY <2>3, <3>3, Zenon DEF GetPage, PageStart, p
    <3>5. PageEnd(o, p) \in (p + 1)..(Len(o) + 1)
      BY <3>3, End
    <3>6. p \in 1..(Len(o) + 1) /\ PageEnd(o, p) - 1 \in (p - 1)..Len(o)
      BY <3>3, <3>5
    <3>7. shown \in Seq(Octets)
      BY <3>6, Part, Zenon
    <3>8. TrimRight(shown) \in Seq(Octets)
      BY <3>7, Trimmed, Zenon
    <3>9. LineSize \in Nat \ {0}
      OBVIOUS
    <3> HIDE DEF shown
    <3>10. /\ Cut(TrimRight(shown), LineSize) \in Seq(Octets)
           /\ Len(Cut(TrimRight(shown), LineSize)) < LineSize
      BY <3>8, <3>9, CutFits, Zenon
    <3> QED
      BY <3>4, <3>10, Zenon
  <2>5. /\ Long(heading, text).heading = heading /\ Long(heading, text).long = TRUE
        /\ Long(heading, text).text = text /\ Long(heading, text).count = PageCount(text)
    BY DEF Long
  <2>6. TRUE \in BOOLEAN
    OBVIOUS
  <2>7. PageCount(text) \in Nat
    BY <2>2
  <2> QED
    BY <2>2, <2>4, <2>5, <2>6, <2>7, Zenon DEF IsLong, IsItem, text
<1> QED
  BY <1>1, <1>2

(* What a record of LLDP shows are items, and they are counted.                 *)
LEMMA LldpCounted ==
  ASSUME GlyphsPerPage \in Nat \ {0}, LineSize \in Nat, LineSize > 6,
         NEW n, n.source = "lldp",
         IsText(n.name), IsText(n.port), IsText(n.chassis), IsText(n.description),
         IsText(n.vlanName), ~n.hasVlanName => n.vlanName = NoText
  PROVE  /\ AreItems(Items(n))
         /\ DetailsPageCount(n) = PagesUpTo(Items(n))[Len(Items(n))]
<1> DEFINE items == LldpItems(n)
           names == <<"SYSTEM_NAME", "SOURCE_MAC", "PORT", "CHASSIS", "TTL", "CAPABILITIES",
                      "SYSTEM_DESCRIPTION", "PORT_VLAN_ID", "VLAN_NAME", "NETWORK_POLICY_VLAN",
                      "POE_DEVICE", "MED_POWER">>
<1>1. Items(n) = items
  BY DEF Items
<1>2. Len(items) = 12 /\ DOMAIN items = 1..12
  BY DEF LldpItems
<1>3. items[1] = Long(names[1], n.name)
  BY DEF LldpItems
<1>4. PICK x2 : items[2] = Short(names[2], x2)
  BY DEF LldpItems, Origin
<1>5. items[3] = Long(names[3], n.port)
  BY DEF LldpItems
<1>6. items[4] = Long(names[4], n.chassis)
  BY DEF LldpItems
<1>7. PICK x5 : items[5] = Short(names[5], x5)
  BY DEF LldpItems, Origin
<1>8. items[6] = Long(names[6], LldpCapabilities(n))
  BY DEF LldpItems
<1>9. items[7] = Long(names[7], n.description)
  BY DEF LldpItems
<1>10. PICK x8 : items[8] = Short(names[8], x8)
  BY DEF LldpItems, Origin
<1>11. items[9] = Long(names[9], IF n.hasVlanName THEN n.vlanName ELSE NoText)
  BY DEF LldpItems
<1>12. PICK x10 : items[10] = Short(names[10], x10)
  BY DEF LldpItems, Origin
<1>13. PICK x11 : items[11] = Short(names[11], x11)
  BY DEF LldpItems, Origin
<1>14. PICK x12 : items[12] = Short(names[12], x12)
  BY DEF LldpItems, Origin
<1>15. /\ names[1] # NoHeading /\ names[2] # NoHeading /\ names[3] # NoHeading
      /\ names[4] # NoHeading /\ names[5] # NoHeading /\ names[6] # NoHeading
      /\ names[7] # NoHeading /\ names[8] # NoHeading /\ names[9] # NoHeading
      /\ names[10] # NoHeading /\ names[11] # NoHeading /\ names[12] # NoHeading
  BY DEF NoHeading
<1>16. \A k, m \in 1..12 : k # m => names[k] # names[m]
  OBVIOUS
<1> HIDE DEF items, names
<1>17. IsLong(items[1], names[1], n.name)
  <2>1. IsLong(Long(names[1], n.name), names[1], n.name)
    BY <1>15, TextItem
  <2> QED
    BY <1>3, <2>1, Zenon
<1>18. IsShort(items[2], names[2])
  <2>1. IsShort(Short(names[2], x2), names[2])
    BY <1>15, ShortItem
  <2> QED
    BY <1>4, <2>1, Zenon
<1>19. IsLong(items[3], names[3], n.port)
  <2>1. IsLong(Long(names[3], n.port), names[3], n.port)
    BY <1>15, TextItem
  <2> QED
    BY <1>5, <2>1, Zenon
<1>20. IsLong(items[4], names[4], n.chassis)
  <2>1. IsLong(Long(names[4], n.chassis), names[4], n.chassis)
    BY <1>15, TextItem
  <2> QED
    BY <1>6, <2>1, Zenon
<1>21. IsShort(items[5], names[5])
  <2>1. IsShort(Short(names[5], x5), names[5])
    BY <1>15, ShortItem
  <2> QED
    BY <1>7, <2>1, Zenon
<1>22. IsLong(items[6], names[6], LldpCapabilities(n))
  <2>1. PICK o \in Seq(Octets) : LldpCapabilities(n) = Chars(o)
    BY CapabilitiesTyped, Zenon
  <2>2. IsLong(Long(names[6], Chars(o)), names[6], Chars(o))
    BY <1>15, CapabilitiesItem
  <2> QED
    BY <1>8, <2>1, <2>2, Zenon
<1>23. IsLong(items[7], names[7], n.description)
  <2>1. IsLong(Long(names[7], n.description), names[7], n.description)
    BY <1>15, TextItem
  <2> QED
    BY <1>9, <2>1, Zenon
<1>24. IsShort(items[8], names[8])
  <2>1. IsShort(Short(names[8], x8), names[8])
    BY <1>15, ShortItem
  <2> QED
    BY <1>10, <2>1, Zenon
<1>25. IsLong(items[9], names[9], n.vlanName)
  <2>1. items[9] = Long(names[9], n.vlanName)
    BY <1>11, Zenon
  <2>2. IsLong(Long(names[9], n.vlanName), names[9], n.vlanName)
    BY <1>15, TextItem
  <2> QED
    BY <2>1, <2>2, Zenon
<1>26. IsShort(items[10], names[10])
  <2>1. IsShort(Short(names[10], x10), names[10])
    BY <1>15, ShortItem
  <2> QED
    BY <1>12, <2>1, Zenon
<1>27. IsShort(items[11], names[11])
  <2>1. IsShort(Short(names[11], x11), names[11])
    BY <1>15, ShortItem
  <2> QED
    BY <1>13, <2>1, Zenon
<1>28. IsShort(items[12], names[12])
  <2>1. IsShort(Short(names[12], x12), names[12])
    BY <1>15, ShortItem
  <2> QED
    BY <1>14, <2>1, Zenon
<1>29. /\ IsItem(items[1]) /\ IsItem(items[2])
      /\ IsItem(items[3]) /\ IsItem(items[4])
      /\ IsItem(items[5]) /\ IsItem(items[6])
      /\ IsItem(items[7]) /\ IsItem(items[8])
      /\ IsItem(items[9]) /\ IsItem(items[10])
      /\ IsItem(items[11]) /\ IsItem(items[12])
      /\ items[1].heading = names[1] /\ items[2].heading = names[2]
      /\ items[3].heading = names[3] /\ items[4].heading = names[4]
      /\ items[5].heading = names[5] /\ items[6].heading = names[6]
      /\ items[7].heading = names[7] /\ items[8].heading = names[8]
      /\ items[9].heading = names[9] /\ items[10].heading = names[10]
      /\ items[11].heading = names[11] /\ items[12].heading = names[12]
  BY <1>17, <1>18, <1>19, <1>20, <1>21, <1>22, <1>23, <1>24, <1>25, <1>26, <1>27, <1>28, Zenon DEF IsLong, IsShort
<1>30. /\ items[1].count = PageCount(n.name) /\ PageCount(n.name) \in Nat
      /\ items[2].count = 1
      /\ items[3].count = PageCount(n.port) /\ PageCount(n.port) \in Nat
      /\ items[4].count = PageCount(n.chassis) /\ PageCount(n.chassis) \in Nat
      /\ items[5].count = 1
      /\ items[6].count = PageCount(LldpCapabilities(n)) /\ PageCount(LldpCapabilities(n)) \in Nat
      /\ items[7].count = PageCount(n.description) /\ PageCount(n.description) \in Nat
      /\ items[8].count = 1
      /\ items[9].count = PageCount(n.vlanName) /\ PageCount(n.vlanName) \in Nat
      /\ items[10].count = 1
      /\ items[11].count = 1
      /\ items[12].count = 1
  BY <1>17, <1>18, <1>19, <1>20, <1>21, <1>22, <1>23, <1>24, <1>25, <1>26, <1>27, <1>28, Zenon DEF IsLong, IsShort
<1>31. \A k \in 1..12 : IsItem(items[k]) /\ items[k].heading = names[k]
  <2> SUFFICES ASSUME NEW k \in 1..12 PROVE IsItem(items[k]) /\ items[k].heading = names[k]
    BY Zenon
  <2>1. \/ k = 1 \/ k = 2 \/ k = 3 \/ k = 4 \/ k = 5 \/ k = 6
        \/ k = 7 \/ k = 8 \/ k = 9 \/ k = 10 \/ k = 11 \/ k = 12
    OBVIOUS
  <2> QED
    BY <1>29, <2>1, Zenon
<1>32. Len(items) \in Nat \ {0} /\ DOMAIN items = 1..Len(items)
  BY <1>2
<1>33. AreItems(items)
  <2>1. \A k, m \in DOMAIN items : k # m => items[k].heading # items[m].heading
    <3> SUFFICES ASSUME NEW k \in DOMAIN items, NEW m \in DOMAIN items, k # m
                 PROVE  items[k].heading # items[m].heading
      BY Zenon
    <3>1. names[k] # names[m] /\ items[k].heading = names[k] /\ items[m].heading = names[m]
      BY <1>2, <1>16, <1>31, Zenon
    <3> QED
      BY <3>1, Zenon
  <2>2. \A k \in DOMAIN items : IsItem(items[k])
    BY <1>2, <1>31, Zenon
  <2> QED
    BY <1>32, <2>1, <2>2, Zenon DEF AreItems
<1> DEFINE pages == PagesUpTo(items)
<1>34. pages[0] = 0 /\ \A k \in 1..12 : pages[k] = pages[k - 1] + items[k].count
  BY <1>2, <1>33, UpToRecursion, Zenon
<1> HIDE DEF pages
<1>35. /\ pages[1] = pages[0] + items[1].count /\ pages[2] = pages[1] + items[2].count
      /\ pages[3] = pages[2] + items[3].count /\ pages[4] = pages[3] + items[4].count
      /\ pages[5] = pages[4] + items[5].count /\ pages[6] = pages[5] + items[6].count
      /\ pages[7] = pages[6] + items[7].count /\ pages[8] = pages[7] + items[8].count
      /\ pages[9] = pages[8] + items[9].count /\ pages[10] = pages[9] + items[10].count
      /\ pages[11] = pages[10] + items[11].count /\ pages[12] = pages[11] + items[12].count
  BY <1>34
<1>36. pages[12] = PageCount(n.name) + PageCount(n.port) + PageCount(n.chassis)
                     + PageCount(LldpCapabilities(n)) + PageCount(n.description)
                     + PageCount(n.vlanName) + 6
  BY <1>30, <1>34, <1>35
<1>37. DetailsPageCount(n) = pages[12]
  BY <1>36 DEF DetailsPageCount, LldpPageCount
<1> QED
  BY <1>1, <1>2, <1>33, <1>37, Zenon DEF pages

(* So are those of a record of CDP.                                             *)
LEMMA CdpCounted ==
  ASSUME GlyphsPerPage \in Nat \ {0}, LineSize \in Nat, LineSize > 6,
         NEW n, n.source = "cdp",
         IsText(n.name), IsText(n.port),
         IsText(Parts(n.description).platform), IsText(Parts(n.description).software)
  PROVE  /\ AreItems(Items(n))
         /\ DetailsPageCount(n) = PagesUpTo(Items(n))[Len(Items(n))]
<1> DEFINE items == CdpItems(n)
           names == <<"DEVICE_ID", "SOURCE_MAC", "PORT_ID", "TTL", "CAPABILITIES", "PLATFORM",
                      "SOFTWARE_VERSION">>
<1>1. Items(n) = items
  BY DEF Items
<1>2. Len(items) = 7 /\ DOMAIN items = 1..7
  BY DEF CdpItems
<1>3. items[1] = Long(names[1], n.name)
  BY DEF CdpItems
<1>4. PICK x2 : items[2] = Short(names[2], x2)
  BY DEF CdpItems, Origin
<1>5. items[3] = Long(names[3], n.port)
  BY DEF CdpItems
<1>6. PICK x4 : items[4] = Short(names[4], x4)
  BY DEF CdpItems, Origin
<1>7. items[5] = Long(names[5], CdpCapabilities(n))
  BY DEF CdpItems
<1>8. items[6] = Long(names[6], Parts(n.description).platform)
  BY DEF CdpItems
<1>9. items[7] = Long(names[7], Parts(n.description).software)
  BY DEF CdpItems
<1>10. /\ names[1] # NoHeading /\ names[2] # NoHeading /\ names[3] # NoHeading
      /\ names[4] # NoHeading /\ names[5] # NoHeading /\ names[6] # NoHeading
      /\ names[7] # NoHeading
  BY DEF NoHeading
<1>11. \A k, m \in 1..7 : k # m => names[k] # names[m]
  OBVIOUS
<1> HIDE DEF items, names
<1>12. IsLong(items[1], names[1], n.name)
  <2>1. IsLong(Long(names[1], n.name), names[1], n.name)
    BY <1>10, TextItem
  <2> QED
    BY <1>3, <2>1, Zenon
<1>13. IsShort(items[2], names[2])
  <2>1. IsShort(Short(names[2], x2), names[2])
    BY <1>10, ShortItem
  <2> QED
    BY <1>4, <2>1, Zenon
<1>14. IsLong(items[3], names[3], n.port)
  <2>1. IsLong(Long(names[3], n.port), names[3], n.port)
    BY <1>10, TextItem
  <2> QED
    BY <1>5, <2>1, Zenon
<1>15. IsShort(items[4], names[4])
  <2>1. IsShort(Short(names[4], x4), names[4])
    BY <1>10, ShortItem
  <2> QED
    BY <1>6, <2>1, Zenon
<1>16. IsLong(items[5], names[5], CdpCapabilities(n))
  <2>1. PICK o \in Seq(Octets) : CdpCapabilities(n) = Chars(o)
    BY CapabilitiesTyped, Zenon
  <2>2. IsLong(Long(names[5], Chars(o)), names[5], Chars(o))
    BY <1>10, CapabilitiesItem
  <2> QED
    BY <1>7, <2>1, <2>2, Zenon
<1>17. IsLong(items[6], names[6], Parts(n.description).platform)
  <2>1. IsLong(Long(names[6], Parts(n.description).platform), names[6], Parts(n.description).platform)
    BY <1>10, TextItem
  <2> QED
    BY <1>8, <2>1, Zenon
<1>18. IsLong(items[7], names[7], Parts(n.description).software)
  <2>1. IsLong(Long(names[7], Parts(n.description).software), names[7], Parts(n.description).software)
    BY <1>10, TextItem
  <2> QED
    BY <1>9, <2>1, Zenon
<1>19. /\ IsItem(items[1]) /\ IsItem(items[2])
      /\ IsItem(items[3]) /\ IsItem(items[4])
      /\ IsItem(items[5]) /\ IsItem(items[6])
      /\ IsItem(items[7])
      /\ items[1].heading = names[1] /\ items[2].heading = names[2]
      /\ items[3].heading = names[3] /\ items[4].heading = names[4]
      /\ items[5].heading = names[5] /\ items[6].heading = names[6]
      /\ items[7].heading = names[7]
  BY <1>12, <1>13, <1>14, <1>15, <1>16, <1>17, <1>18, Zenon DEF IsLong, IsShort
<1>20. /\ items[1].count = PageCount(n.name) /\ PageCount(n.name) \in Nat
      /\ items[2].count = 1
      /\ items[3].count = PageCount(n.port) /\ PageCount(n.port) \in Nat
      /\ items[4].count = 1
      /\ items[5].count = PageCount(CdpCapabilities(n)) /\ PageCount(CdpCapabilities(n)) \in Nat
      /\ items[6].count = PageCount(Parts(n.description).platform) /\ PageCount(Parts(n.description).platform) \in Nat
      /\ items[7].count = PageCount(Parts(n.description).software) /\ PageCount(Parts(n.description).software) \in Nat
  BY <1>12, <1>13, <1>14, <1>15, <1>16, <1>17, <1>18, Zenon DEF IsLong, IsShort
<1>21. \A k \in 1..7 : IsItem(items[k]) /\ items[k].heading = names[k]
  <2> SUFFICES ASSUME NEW k \in 1..7 PROVE IsItem(items[k]) /\ items[k].heading = names[k]
    BY Zenon
  <2>1. \/ k = 1 \/ k = 2 \/ k = 3 \/ k = 4 \/ k = 5 \/ k = 6
        \/ k = 7
    OBVIOUS
  <2> QED
    BY <1>19, <2>1, Zenon
<1>22. Len(items) \in Nat \ {0} /\ DOMAIN items = 1..Len(items)
  BY <1>2
<1>23. AreItems(items)
  <2>1. \A k, m \in DOMAIN items : k # m => items[k].heading # items[m].heading
    <3> SUFFICES ASSUME NEW k \in DOMAIN items, NEW m \in DOMAIN items, k # m
                 PROVE  items[k].heading # items[m].heading
      BY Zenon
    <3>1. names[k] # names[m] /\ items[k].heading = names[k] /\ items[m].heading = names[m]
      BY <1>2, <1>11, <1>21, Zenon
    <3> QED
      BY <3>1, Zenon
  <2>2. \A k \in DOMAIN items : IsItem(items[k])
    BY <1>2, <1>21, Zenon
  <2> QED
    BY <1>22, <2>1, <2>2, Zenon DEF AreItems
<1> DEFINE pages == PagesUpTo(items)
<1>24. pages[0] = 0 /\ \A k \in 1..7 : pages[k] = pages[k - 1] + items[k].count
  BY <1>2, <1>23, UpToRecursion, Zenon
<1> HIDE DEF pages
<1>25. /\ pages[1] = pages[0] + items[1].count /\ pages[2] = pages[1] + items[2].count
      /\ pages[3] = pages[2] + items[3].count /\ pages[4] = pages[3] + items[4].count
      /\ pages[5] = pages[4] + items[5].count /\ pages[6] = pages[5] + items[6].count
      /\ pages[7] = pages[6] + items[7].count
  BY <1>24
<1>26. pages[7] = PageCount(n.name) + PageCount(n.port) + PageCount(CdpCapabilities(n))
                     + PageCount(Parts(n.description).platform)
                     + PageCount(Parts(n.description).software) + 2
  BY <1>20, <1>24, <1>25
<1>27. DetailsPageCount(n) = pages[7]
  BY <1>26 DEF DetailsPageCount, CdpPageCount
<1> QED
  BY <1>1, <1>2, <1>23, <1>27, Zenon DEF pages

(* And those of EAPOL.                                                          *)
LEMMA EapolCounted ==
  ASSUME GlyphsPerPage \in Nat \ {0}, LineSize \in Nat, LineSize > 6,
         NEW n, n.source = "eapol",
         IsText(n.name)
  PROVE  /\ AreItems(Items(n))
         /\ DetailsPageCount(n) = PagesUpTo(Items(n))[Len(Items(n))]
<1> DEFINE items == EapolItems(n)
           names == <<"IDENTITY", "SOURCE_MAC", "EAPOL_VERSION", "EAP_TYPE">>
<1>1. Items(n) = items
  BY DEF Items
<1>2. Len(items) = 4 /\ DOMAIN items = 1..4
  BY DEF EapolItems
<1>3. items[1] = Long(names[1], n.name)
  BY DEF EapolItems
<1>4. PICK x2 : items[2] = Short(names[2], x2)
  BY DEF EapolItems, Origin
<1>5. PICK x3 : items[3] = Short(names[3], x3)
  BY DEF EapolItems, Origin
<1>6. PICK x4 : items[4] = Short(names[4], x4)
  BY DEF EapolItems, Origin
<1>7. /\ names[1] # NoHeading /\ names[2] # NoHeading /\ names[3] # NoHeading
      /\ names[4] # NoHeading
  BY DEF NoHeading
<1>8. \A k, m \in 1..4 : k # m => names[k] # names[m]
  OBVIOUS
<1> HIDE DEF items, names
<1>9. IsLong(items[1], names[1], n.name)
  <2>1. IsLong(Long(names[1], n.name), names[1], n.name)
    BY <1>7, TextItem
  <2> QED
    BY <1>3, <2>1, Zenon
<1>10. IsShort(items[2], names[2])
  <2>1. IsShort(Short(names[2], x2), names[2])
    BY <1>7, ShortItem
  <2> QED
    BY <1>4, <2>1, Zenon
<1>11. IsShort(items[3], names[3])
  <2>1. IsShort(Short(names[3], x3), names[3])
    BY <1>7, ShortItem
  <2> QED
    BY <1>5, <2>1, Zenon
<1>12. IsShort(items[4], names[4])
  <2>1. IsShort(Short(names[4], x4), names[4])
    BY <1>7, ShortItem
  <2> QED
    BY <1>6, <2>1, Zenon
<1>13. /\ IsItem(items[1]) /\ IsItem(items[2])
      /\ IsItem(items[3]) /\ IsItem(items[4])
      /\ items[1].heading = names[1] /\ items[2].heading = names[2]
      /\ items[3].heading = names[3] /\ items[4].heading = names[4]
  BY <1>9, <1>10, <1>11, <1>12, Zenon DEF IsLong, IsShort
<1>14. /\ items[1].count = PageCount(n.name) /\ PageCount(n.name) \in Nat
      /\ items[2].count = 1
      /\ items[3].count = 1
      /\ items[4].count = 1
  BY <1>9, <1>10, <1>11, <1>12, Zenon DEF IsLong, IsShort
<1>15. \A k \in 1..4 : IsItem(items[k]) /\ items[k].heading = names[k]
  <2> SUFFICES ASSUME NEW k \in 1..4 PROVE IsItem(items[k]) /\ items[k].heading = names[k]
    BY Zenon
  <2>1. \/ k = 1 \/ k = 2 \/ k = 3 \/ k = 4
    OBVIOUS
  <2> QED
    BY <1>13, <2>1, Zenon
<1>16. Len(items) \in Nat \ {0} /\ DOMAIN items = 1..Len(items)
  BY <1>2
<1>17. AreItems(items)
  <2>1. \A k, m \in DOMAIN items : k # m => items[k].heading # items[m].heading
    <3> SUFFICES ASSUME NEW k \in DOMAIN items, NEW m \in DOMAIN items, k # m
                 PROVE  items[k].heading # items[m].heading
      BY Zenon
    <3>1. names[k] # names[m] /\ items[k].heading = names[k] /\ items[m].heading = names[m]
      BY <1>2, <1>8, <1>15, Zenon
    <3> QED
      BY <3>1, Zenon
  <2>2. \A k \in DOMAIN items : IsItem(items[k])
    BY <1>2, <1>15, Zenon
  <2> QED
    BY <1>16, <2>1, <2>2, Zenon DEF AreItems
<1> DEFINE pages == PagesUpTo(items)
<1>18. pages[0] = 0 /\ \A k \in 1..4 : pages[k] = pages[k - 1] + items[k].count
  BY <1>2, <1>17, UpToRecursion, Zenon
<1> HIDE DEF pages
<1>19. /\ pages[1] = pages[0] + items[1].count /\ pages[2] = pages[1] + items[2].count
      /\ pages[3] = pages[2] + items[3].count /\ pages[4] = pages[3] + items[4].count
  BY <1>18
<1>20. pages[4] = PageCount(n.name) + 3
  BY <1>14, <1>18, <1>19
<1>21. DetailsPageCount(n) = pages[4]
  BY <1>20 DEF DetailsPageCount, EapolPageCount
<1> QED
  BY <1>1, <1>2, <1>17, <1>21, Zenon DEF pages

-----------------------------------------------------------------------------
(* What is kept of an advert is text.                                           *)
LEMMA KeptFits ==
  ASSUME NEW text, Readable(text), NEW size \in 1..LineSize, NEW source
  PROVE  IsText(Kept(text, size, source))
<1>1. LineSize \in Nat /\ LineSize > 6 /\ size \in Nat \ {0} /\ size <= LineSize
  BY PagesAssumption
<1>2. text.octets \in Seq(Octets)
  BY DEF Readable
<1>3. CASE text.form # "chars"
  <2>1. Kept(text, size, source) = text
    BY <1>3, Zenon DEF Kept
  <2>2. Len(text.octets) < LineSize
    BY <1>1, <1>2, <1>3 DEF Readable
  <2> QED
    BY <2>1, <2>2, Zenon DEF IsText, Readable
<1>4. CASE text.form = "chars"
  <2> DEFINE cut == Cut(text.octets, size)
  <2>1. cut \in Seq(Octets) /\ Len(cut) < size
    BY <1>1, <1>2, CutFits, Zenon
  <2>2. TrimRight(cut) \in Seq(Octets) /\ Len(TrimRight(cut)) <= Len(cut)
    BY <2>1, Trimmed, Zenon
  <2>3. Kept(text, size, source) = Chars(cut) \/ Kept(text, size, source) = Chars(TrimRight(cut))
    BY <1>4, Zenon DEF Kept
  <2> HIDE DEF cut
  <2>4. Len(cut) < LineSize /\ Len(TrimRight(cut)) < LineSize
    BY <1>1, <2>1, <2>2
  <2>5. \A o \in Seq(Octets) : Len(o) < LineSize => IsText(Chars(o))
    BY DEF IsText, Chars
  <2> QED
    BY <2>1, <2>2, <2>3, <2>4, <2>5, Zenon
<1> QED
  BY <1>3, <1>4

(* Of a platform and a software version there is a cut that leaves each its     *)
(* share.                                                                       *)
LEMMA CutExists ==
  ASSUME NEW p \in Nat, NEW s \in Nat
  PROVE  \E c \in (0..p) \X (0..s) :
            /\ c[1] >= Min({p, PlatformShare}) /\ c[2] >= Min({s, SoftwareShare})
            /\ c[1] + c[2] = Min({p + s, PlatformShare + SoftwareShare})
<1>1. PlatformShare \in Nat /\ SoftwareShare \in Nat
  BY PagesAssumption
<1>2. \A x, y \in Nat : Min({x, y}) = IF x <= y THEN x ELSE y
  <2> SUFFICES ASSUME NEW x \in Nat, NEW y \in Nat
               PROVE  Min({x, y}) = IF x <= y THEN x ELSE y
    BY Zenon
  <2>1. Min({x, y}) \in {x, y} /\ \A m \in {x, y} : Min({x, y}) <= m
    <3>1. {x, y} \subseteq Nat /\ {x, y} # {}
      OBVIOUS
    <3> QED
      BY <3>1, Smallest
  <2> QED
    BY <2>1
<1> DEFINE P == Min({p, PlatformShare})
           S == Min({s, SoftwareShare})
           T == Min({p + s, PlatformShare + SoftwareShare})
<1>3. /\ P = IF p <= PlatformShare THEN p ELSE PlatformShare
      /\ S = IF s <= SoftwareShare THEN s ELSE SoftwareShare
      /\ T = IF p + s <= PlatformShare + SoftwareShare THEN p + s
             ELSE PlatformShare + SoftwareShare
  <2>1. p + s \in Nat /\ PlatformShare + SoftwareShare \in Nat
    BY <1>1
  <2> QED
    BY <1>1, <1>2, <2>1, Zenon
<1> HIDE DEF P, S, T
<1> DEFINE x == IF p + S <= T THEN p ELSE T - S
<1>4. /\ x \in 0..p /\ T - x \in 0..s
      /\ x >= P /\ T - x >= S /\ x + (T - x) = T
  BY <1>1, <1>3
<1> HIDE DEF x
<1>5. /\ <<x, T - x>> \in (0..p) \X (0..s)
      /\ <<x, T - x>>[1] = x /\ <<x, T - x>>[2] = T - x
  BY <1>4
<1> QED
  BY <1>4, <1>5, Zenon DEF P, S, T

(* What is kept of them fits the fields, and nothing of nothing.                *)
LEMMA PartsKept ==
  ASSUME NEW a, a.platform \in Seq(Octets), a.software \in Seq(Octets)
  PROVE  /\ KeptParts(a)[1] \in Seq(Octets) /\ Len(KeptParts(a)[1]) < NameSize
         /\ KeptParts(a)[2] \in Seq(Octets) /\ Len(KeptParts(a)[2]) < DescriptionSize
         /\ Platform(a) \o Software(a) = <<>> => KeptParts(a)[1] = <<>> /\ KeptParts(a)[2] = <<>>
<1> DEFINE p == Len(Platform(a))
           s == Len(Software(a))
           cut == CHOOSE c \in (0..p) \X (0..s) :
                     /\ c[1] >= Min({p, PlatformShare}) /\ c[2] >= Min({s, SoftwareShare})
                     /\ c[1] + c[2] = Min({p + s, PlatformShare + SoftwareShare})
<1>1. NameSize \in Nat \ {0} /\ DescriptionSize \in Nat \ {0}
  BY PagesAssumption
<1>2. Platform(a) \in Seq(Octets) /\ Len(Platform(a)) < NameSize
  <2>1. Cut(a.platform, NameSize) \in Seq(Octets) /\ Len(Cut(a.platform, NameSize)) < NameSize
    BY <1>1, CutFits, Zenon
  <2>2. /\ TrimRight(Cut(a.platform, NameSize)) \in Seq(Octets)
        /\ Len(TrimRight(Cut(a.platform, NameSize))) <= Len(Cut(a.platform, NameSize))
    BY <2>1, Trimmed, Zenon
  <2> QED
    BY <1>1, <2>1, <2>2 DEF Platform
<1>3. Software(a) \in Seq(Octets) /\ Len(Software(a)) < DescriptionSize
  <2>1. /\ Cut(a.software, DescriptionSize) \in Seq(Octets)
        /\ Len(Cut(a.software, DescriptionSize)) < DescriptionSize
    BY <1>1, CutFits, Zenon
  <2>2. /\ TrimRight(Cut(a.software, DescriptionSize)) \in Seq(Octets)
        /\ Len(TrimRight(Cut(a.software, DescriptionSize))) <= Len(Cut(a.software, DescriptionSize))
    BY <2>1, Trimmed, Zenon
  <2> QED
    BY <1>1, <2>1, <2>2 DEF Software
<1>4. p \in Nat /\ s \in Nat
  BY <1>2, <1>3
<1>5. KeptParts(a) = <<SubSeq(Platform(a), 1, cut[1]), SubSeq(Software(a), 1, cut[2])>>
  BY Zenon DEF KeptParts
<1>6. cut \in (0..p) \X (0..s)
  <2> HIDE DEF p, s
  <2> QED
    BY <1>4, CutExists, Zenon
<1> HIDE DEF cut
<1>7. cut[1] \in 0..p /\ cut[2] \in 0..s
  BY <1>6
<1>8. /\ KeptParts(a)[1] = SubSeq(Platform(a), 1, cut[1])
      /\ KeptParts(a)[2] = SubSeq(Software(a), 1, cut[2])
  <2> DEFINE x == SubSeq(Platform(a), 1, cut[1])
             y == SubSeq(Software(a), 1, cut[2])
  <2> HIDE DEF x, y
  <2>1. KeptParts(a) = <<x, y>>
    BY <1>5, Zenon DEF x, y
  <2>2. KeptParts(a)[1] = x /\ KeptParts(a)[2] = y
    BY <2>1
  <2> QED
    BY <2>2, Zenon DEF x, y
<1>9. /\ SubSeq(Platform(a), 1, cut[1]) \in Seq(Octets)
      /\ Len(SubSeq(Platform(a), 1, cut[1])) < NameSize
  BY <1>1, <1>2, <1>7
<1>10. /\ SubSeq(Software(a), 1, cut[2]) \in Seq(Octets)
       /\ Len(SubSeq(Software(a), 1, cut[2])) < DescriptionSize
  BY <1>1, <1>3, <1>7
<1>11. ASSUME Platform(a) \o Software(a) = <<>>
       PROVE  SubSeq(Platform(a), 1, cut[1]) = <<>> /\ SubSeq(Software(a), 1, cut[2]) = <<>>
  <2>1. p = 0 /\ s = 0
    BY <1>2, <1>3, <1>11
  <2>2. cut[1] = 0 /\ cut[2] = 0
    BY <1>7, <2>1
  <2> QED
    BY <1>2, <1>3, <2>2
<1> QED
  BY <1>8, <1>9, <1>10, <1>11, Zenon

(* The description of a record of CDP is divided into the parts that were kept. *)
LEMMA Divided ==
  ASSUME NEW p \in Seq(Octets), Len(p) < NameSize, NEW s \in Seq(Octets),
         \A i \in 1..Len(p) : SubSeq(p \o Separator \o s, i, i + 2) # Separator
  PROVE  /\ Parts(Chars(p \o Separator \o s)).platform = Chars(p)
         /\ Parts(Chars(p \o Separator \o s)).software = Chars(s)
<1> DEFINE d == p \o Separator \o s
           at == {i \in 1..(Len(d) - 2) : SubSeq(d, i, i + 2) = Separator}
<1>1. NameSize \in Nat \ {0}
  BY PagesAssumption
<1>2. d \in Seq(Octets) /\ Len(d) = Len(p) + 3 + Len(s)
  BY DEF Separator, Octets
<1>3. SubSeq(d, Len(p) + 1, (Len(p) + 1) + 2) = Separator
  <2>1. Separator \in Seq(Octets) /\ Len(Separator) = 3
    BY DEF Separator, Octets
  <2>2. \A k \in 1..3 : d[Len(p) + k] = Separator[k]
    <3> DEFINE e == p \o Separator
    <3>0. /\ e \in Seq(Octets) /\ Len(e) = Len(p) + Len(Separator)
          /\ \A i \in 1..(Len(p) + Len(Separator)) :
                e[i] = IF i <= Len(p) THEN p[i] ELSE Separator[i - Len(p)]
      BY <2>1, ConcatProperties
    <3> HIDE DEF e
    <3>1. e \in Seq(Octets) /\ Len(e) = Len(p) + 3
      BY <2>1, <3>0
    <3>2. \A k \in 1..3 : e[Len(p) + k] = Separator[k]
      <4> SUFFICES ASSUME NEW k \in 1..3 PROVE e[Len(p) + k] = Separator[k]
        OBVIOUS
      <4>1. /\ Len(p) + k \in 1..(Len(p) + Len(Separator))
            /\ ~(Len(p) + k <= Len(p)) /\ (Len(p) + k) - Len(p) = k
        BY <2>1
      <4> QED
        BY <3>0, <4>1, Zenon
    <3>3. \A k \in 1..Len(e) : (e \o s)[k] = e[k]
      BY <3>1
    <3>4. \A k \in 1..3 : Len(p) + k \in 1..Len(e)
      BY <3>1
    <3> QED
      BY <3>2, <3>3, <3>4, Zenon DEF e
  <2> DEFINE part == SubSeq(d, Len(p) + 1, (Len(p) + 1) + 2)
  <2>3. Len(p) + 1 \in 1..(Len(d) + 1) /\ (Len(p) + 1) + 2 \in ((Len(p) + 1) - 1)..Len(d)
    BY <1>2
  <2> HIDE DEF d
  <2>4. /\ part \in Seq(Octets) /\ Len(part) = ((Len(p) + 1) + 2) - (Len(p) + 1) + 1
        /\ \A k \in 1..(((Len(p) + 1) + 2) - (Len(p) + 1) + 1) : part[k] = d[k + (Len(p) + 1) - 1]
    BY <1>2, <2>3, Part, Zenon
  <2>5. ((Len(p) + 1) + 2) - (Len(p) + 1) + 1 = 3
        /\ \A k \in 1..3 : k + (Len(p) + 1) - 1 = Len(p) + k
    OBVIOUS
  <2> HIDE DEF part
  <2>6. part \in Seq(Octets) /\ Len(part) = 3 /\ \A k \in 1..3 : part[k] = Separator[k]
    BY <2>2, <2>4, <2>5
  <2>7. part = Separator
    BY <2>1, <2>6
  <2> QED
    BY <2>7 DEF part
<1>4. SubSeq(d, 1, Len(p)) = p
  BY DEF Separator, Octets
<1>5. SubSeq(d, Len(p) + 4, Len(d)) = s
  BY DEF Separator, Octets
<1>6. \A i \in 1..Len(p) : SubSeq(d, i, i + 2) # Separator
  OBVIOUS
<1>7. Chars(d).octets = d
  BY DEF Chars
<1> HIDE DEF d
<1>8. Len(p) + 1 \in at /\ at \subseteq Nat /\ at # {}
  <2>1. Len(p) + 1 \in 1..(Len(d) - 2)
    BY <1>2
  <2>2. Len(p) + 1 \in at
    BY <1>3, <2>1, Zenon
  <2>3. at \subseteq Nat
    OBVIOUS
  <2> QED
    BY <2>2, <2>3
<1>9. Min(at) = Len(p) + 1
  <2>1. Min(at) \in at /\ \A i \in at : Min(at) <= i
    <3> HIDE DEF at
    <3> QED
      BY <1>8, Smallest
  <2>2. Min(at) \in 1..(Len(d) - 2) /\ SubSeq(d, Min(at), Min(at) + 2) = Separator
    BY <2>1, Zenon
  <2>3. Min(at) \notin 1..Len(p)
    BY <1>6, <2>2, Zenon
  <2>4. Min(at) <= Len(p) + 1
    BY <1>8, <2>1, Zenon
  <2> HIDE DEF at
  <2> QED
    BY <1>2, <2>2, <2>3, <2>4
<1> HIDE DEF at
<1>10. Min(at) - 1 = Len(p) /\ Min(at) + 3 = Len(p) + 4
  BY <1>9
<1>11. Parts(Chars(d)) = [platform |-> Chars(Cut(SubSeq(d, 1, Min(at) - 1), NameSize)),
                          software |-> Chars(SubSeq(d, Min(at) + 3, Len(d)))]
  BY <1>7, <1>8, Zenon DEF Parts, at
<1>12. Cut(p, NameSize) = p
  BY <1>1, CutFits, Zenon
<1>13. Parts(Chars(d)) = [platform |-> Chars(p), software |-> Chars(s)]
  BY <1>4, <1>5, <1>10, <1>11, <1>12, Zenon
<1>14. Parts(Chars(d)).platform = Chars(p) /\ Parts(Chars(d)).software = Chars(s)
  BY <1>13
<1> QED
  BY <1>14 DEF d

(* The description of a CDP neighbour divides into the platform and the software*)
(* version that were stored in it.                                             *)
LEMMA PartsOf ==
  ASSUME NEW a, IsAdvert(a), a.record.source = "cdp", Legible(a)
  PROVE  /\ Parts(Expected(a).description).platform = Chars(KeptParts(a)[1])
         /\ Parts(Expected(a).description).software = Chars(KeptParts(a)[2])
         /\ IsText(Chars(KeptParts(a)[1])) /\ IsText(Chars(KeptParts(a)[2]))
<1> DEFINE p == KeptParts(a)[1]
           s == KeptParts(a)[2]
<1>1. a.platform \in Seq(Octets) /\ a.software \in Seq(Octets)
  BY DEF Legible
<1>2. /\ p \in Seq(Octets) /\ Len(p) < NameSize
      /\ s \in Seq(Octets) /\ Len(s) < DescriptionSize
      /\ Platform(a) \o Software(a) = <<>> => p = <<>> /\ s = <<>>
  BY <1>1, PartsKept, Zenon
<1>3. \A i \in 1..Len(p) : SubSeq(p \o Separator \o s, i, i + 2) # Separator
  BY Zenon DEF Legible, Undivided
<1>4. Expected(a).description = IF Platform(a) \o Software(a) = <<>> THEN NoText
                                ELSE Chars(p \o Separator \o s)
  BY DEF IsAdvert, Expected, Free, Blank
<1> HIDE DEF p, s
<1>5. IsText(Chars(p)) /\ IsText(Chars(s))
  <2>1. Len(p) < LineSize /\ Len(s) < LineSize
    BY <1>2, PagesAssumption
  <2>2. \A o \in Seq(Octets) : Len(o) < LineSize => IsText(Chars(o))
    BY DEF IsText, Chars
  <2> QED
    BY <1>2, <2>1, <2>2, Zenon
<1>6. CASE Platform(a) \o Software(a) = <<>>
  <2>1. p = <<>> /\ s = <<>> /\ Expected(a).description = NoText
    BY <1>2, <1>4, <1>6, Zenon
  <2>2. Parts(NoText) = [platform |-> NoText, software |-> NoText]
    <3>1. {i \in 1..(Len(NoText.octets) - 2) : SubSeq(NoText.octets, i, i + 2) = Separator} = {}
      BY DEF NoText, Chars
    <3> QED
      BY <3>1, Zenon DEF Parts
  <2>3. Parts(NoText).platform = NoText /\ Parts(NoText).software = NoText
    BY <2>2
  <2>4. Chars(<<>>) = NoText
    BY DEF NoText
  <2> QED
    BY <1>5, <2>1, <2>3, <2>4, Zenon DEF p, s
<1>7. CASE Platform(a) \o Software(a) # <<>>
  <2>1. Expected(a).description = Chars(p \o Separator \o s)
    BY <1>4, <1>7, Zenon
  <2>2. /\ Parts(Chars(p \o Separator \o s)).platform = Chars(p)
        /\ Parts(Chars(p \o Separator \o s)).software = Chars(s)
    BY <1>2, <1>3, Divided, Zenon
  <2> QED
    BY <1>5, <2>1, <2>2, Zenon DEF p, s
<1> QED
  BY <1>6, <1>7

(* The texts of the record expected of an advert.                               *)
LEMMA ExpectedTexts ==
  ASSUME NEW a, IsAdvert(a), Legible(a)
  PROVE  /\ IsText(Expected(a).name) /\ IsText(Expected(a).port) /\ IsText(Expected(a).chassis)
         /\ IsText(Expected(a).vlanName)
         /\ ~Expected(a).hasVlanName => Expected(a).vlanName = NoText
         /\ a.record.source = "lldp" => IsText(Expected(a).description)
<1> DEFINE r == a.record
<1>1. /\ Expected(a).name = Kept(r.name, NameSize, r.source)
      /\ Expected(a).port = Kept(r.port, NameSize, r.source)
      /\ Expected(a).chassis = Kept(r.chassis, NameSize, r.source)
      /\ Expected(a).vlanName = Kept(r.vlanName, NameSize, r.source)
      /\ Expected(a).hasVlanName = r.hasVlanName
      /\ r.source = "lldp" => Expected(a).description = Kept(r.description, DescriptionSize, "lldp")
  BY DEF IsAdvert, Expected, Free, Blank
<1>2. /\ Readable(r.name) /\ Readable(r.port) /\ Readable(r.chassis)
      /\ Readable(r.description) /\ Readable(r.vlanName)
      /\ ~r.hasVlanName => r.vlanName = NoText
  BY Zenon DEF Legible
<1>3. NameSize \in 1..LineSize /\ DescriptionSize \in 1..LineSize
  BY PagesAssumption
<1> HIDE DEF r
<1>4. \A source : Kept(NoText, NameSize, source) = NoText
  <2> SUFFICES ASSUME NEW source PROVE Kept(NoText, NameSize, source) = NoText
    BY Zenon
  <2>1. NoText.form = "chars" /\ NoText.octets = <<>> /\ Chars(<<>>) = NoText
    BY DEF NoText, Chars
  <2>2. NameSize \in Nat \ {0} /\ <<>> \in Seq(Octets)
    BY <1>3, PagesAssumption
  <2>3. Cut(<<>>, NameSize) \in Seq(Octets) /\ Len(Cut(<<>>, NameSize)) <= Len(<<>>)
    BY <2>2, CutFits, Zenon
  <2>4. Cut(<<>>, NameSize) = <<>>
    BY <2>3
  <2>5. TrimRight(<<>>) \in Seq(Octets) /\ Len(TrimRight(<<>>)) <= Len(<<>>)
    BY <2>2, Trimmed, Zenon
  <2>6. TrimRight(<<>>) = <<>>
    BY <2>5
  <2> QED
    BY <2>1, <2>4, <2>6, Zenon DEF Kept
<1>5. /\ IsText(Kept(r.name, NameSize, r.source)) /\ IsText(Kept(r.port, NameSize, r.source))
      /\ IsText(Kept(r.chassis, NameSize, r.source)) /\ IsText(Kept(r.vlanName, NameSize, r.source))
      /\ IsText(Kept(r.description, DescriptionSize, "lldp"))
  BY <1>2, <1>3, KeptFits, Zenon
<1> QED
  BY <1>1, <1>2, <1>4, <1>5, Zenon DEF r

(* What a text is shown as.                                                     *)
LEMMA LongFields ==
  ASSUME NEW heading, NEW text
  PROVE  Long(heading, text).heading = heading /\ Long(heading, text).long
         /\ Long(heading, text).text = text
BY DEF Long

(* The pages of an LLDP neighbour are complete, and as many as are counted.    *)
LEMMA LldpComplete ==
  ASSUME NEW a, IsAdvert(a), a.record.source = "lldp", Legible(a)
  PROVE  PagesAreComplete(Expected(a), a) /\ AreItems(Items(Expected(a)))
         /\ DetailsPageCount(Expected(a)) = PagesUpTo(Items(Expected(a)))[Len(Items(Expected(a)))]
<1> DEFINE n == Expected(a)
<1>1. GlyphsPerPage \in Nat \ {0} /\ LineSize \in Nat /\ LineSize > 6
  BY PagesAssumption
<1>2. n.source = "lldp"
  BY DEF IsAdvert, Expected, Free, Blank
<1>3. /\ IsText(n.name) /\ IsText(n.port) /\ IsText(n.chassis) /\ IsText(n.description)
      /\ IsText(n.vlanName) /\ (~n.hasVlanName => n.vlanName = NoText)
  BY ExpectedTexts, Zenon
<1>4. Texts(a) = {<<"SYSTEM_NAME", n.name>>, <<"PORT", n.port>>, <<"CHASSIS", n.chassis>>,
                  <<"SYSTEM_DESCRIPTION", n.description>>, <<"VLAN_NAME", n.vlanName>>}
  <2> HIDE DEF n
  <2> QED
    BY <1>2 DEF Texts, n
<1> HIDE DEF n
<1>5. AreItems(Items(n)) /\ DetailsPageCount(n) = PagesUpTo(Items(n))[Len(Items(n))]
  BY <1>1, <1>2, <1>3, LldpCounted, Zenon
<1>6. Items(n) = LldpItems(n)
  BY <1>2 DEF Items
<1>7. /\ LldpItems(n)[1] = Long("SYSTEM_NAME", n.name) /\ LldpItems(n)[3] = Long("PORT", n.port)
      /\ LldpItems(n)[4] = Long("CHASSIS", n.chassis)
      /\ LldpItems(n)[7] = Long("SYSTEM_DESCRIPTION", n.description)
      /\ LldpItems(n)[9] = Long("VLAN_NAME", IF n.hasVlanName THEN n.vlanName ELSE NoText)
      /\ {1, 3, 4, 7, 9} \subseteq DOMAIN LldpItems(n)
  BY DEF LldpItems
<1>8. (IF n.hasVlanName THEN n.vlanName ELSE NoText) = n.vlanName
  BY <1>3
<1>9. ASSUME NEW t \in Texts(a)
      PROVE  \E j \in DOMAIN Items(n) :
                /\ Items(n)[j].heading = t[1] /\ Items(n)[j].long
                /\ Items(n)[j].text = t[2] /\ IsText(t[2])
  <2> DEFINE P(j, h, x) == /\ Items(n)[j].heading = h /\ Items(n)[j].long
                           /\ Items(n)[j].text = x /\ IsText(x) /\ j \in DOMAIN Items(n)
  <2>1. P(1, "SYSTEM_NAME", n.name)
    BY <1>3, <1>6, <1>7, LongFields
  <2>2. P(3, "PORT", n.port)
    BY <1>3, <1>6, <1>7, LongFields
  <2>3. P(4, "CHASSIS", n.chassis)
    BY <1>3, <1>6, <1>7, LongFields
  <2>4. P(7, "SYSTEM_DESCRIPTION", n.description)
    BY <1>3, <1>6, <1>7, LongFields
  <2>5. P(9, "VLAN_NAME", n.vlanName)
    BY <1>3, <1>6, <1>7, <1>8, LongFields
  <2>6. \/ t[1] = "SYSTEM_NAME" /\ t[2] = n.name
        \/ t[1] = "PORT" /\ t[2] = n.port
        \/ t[1] = "CHASSIS" /\ t[2] = n.chassis
        \/ t[1] = "SYSTEM_DESCRIPTION" /\ t[2] = n.description
        \/ t[1] = "VLAN_NAME" /\ t[2] = n.vlanName
    BY <1>4
  <2> HIDE DEF P
  <2>7. \E j : P(j, t[1], t[2])
    BY <2>1, <2>2, <2>3, <2>4, <2>5, <2>6, Zenon
  <2> QED
    BY <2>7, Zenon DEF P
<1>10. PagesAreComplete(n, a)
  BY <1>1, <1>5, <1>9, Complete, Zenon
<1> QED
  BY <1>5, <1>10, Zenon DEF n

(* Those of a CDP neighbour are.                                               *)
LEMMA CdpComplete ==
  ASSUME NEW a, IsAdvert(a), a.record.source = "cdp", Legible(a)
  PROVE  PagesAreComplete(Expected(a), a) /\ AreItems(Items(Expected(a)))
         /\ DetailsPageCount(Expected(a)) = PagesUpTo(Items(Expected(a)))[Len(Items(Expected(a)))]
<1> DEFINE n == Expected(a)
           platform == Chars(KeptParts(a)[1])
           software == Chars(KeptParts(a)[2])
<1>1. GlyphsPerPage \in Nat \ {0} /\ LineSize \in Nat /\ LineSize > 6
  BY PagesAssumption
<1>2. n.source = "cdp"
  BY DEF IsAdvert, Expected, Free, Blank
<1>3. IsText(n.name) /\ IsText(n.port)
  BY ExpectedTexts, Zenon
<1>4. /\ Parts(n.description).platform = platform /\ Parts(n.description).software = software
      /\ IsText(platform) /\ IsText(software)
  BY PartsOf, Zenon
<1>5. Texts(a) = {<<"DEVICE_ID", n.name>>, <<"PORT_ID", n.port>>,
                  <<"PLATFORM", platform>>, <<"SOFTWARE_VERSION", software>>}
  <2> HIDE DEF n, platform, software
  <2> QED
    BY <1>2 DEF Texts, n, platform, software
<1> HIDE DEF n, platform, software
<1>6. AreItems(Items(n)) /\ DetailsPageCount(n) = PagesUpTo(Items(n))[Len(Items(n))]
  BY <1>1, <1>2, <1>3, <1>4, CdpCounted, Zenon
<1>7. Items(n) = CdpItems(n)
  BY <1>2 DEF Items
<1>8. /\ CdpItems(n)[1] = Long("DEVICE_ID", n.name) /\ CdpItems(n)[3] = Long("PORT_ID", n.port)
      /\ CdpItems(n)[6] = Long("PLATFORM", Parts(n.description).platform)
      /\ CdpItems(n)[7] = Long("SOFTWARE_VERSION", Parts(n.description).software)
      /\ {1, 3, 6, 7} \subseteq DOMAIN CdpItems(n)
  BY DEF CdpItems
<1>9. ASSUME NEW t \in Texts(a)
      PROVE  \E j \in DOMAIN Items(n) :
                /\ Items(n)[j].heading = t[1] /\ Items(n)[j].long
                /\ Items(n)[j].text = t[2] /\ IsText(t[2])
  <2> DEFINE P(j, h, x) == /\ Items(n)[j].heading = h /\ Items(n)[j].long
                           /\ Items(n)[j].text = x /\ IsText(x) /\ j \in DOMAIN Items(n)
  <2>1. P(1, "DEVICE_ID", n.name)
    BY <1>3, <1>7, <1>8, LongFields
  <2>2. P(3, "PORT_ID", n.port)
    BY <1>3, <1>7, <1>8, LongFields
  <2>3. P(6, "PLATFORM", platform)
    BY <1>4, <1>7, <1>8, LongFields
  <2>4. P(7, "SOFTWARE_VERSION", software)
    BY <1>4, <1>7, <1>8, LongFields
  <2>5. \/ t[1] = "DEVICE_ID" /\ t[2] = n.name
        \/ t[1] = "PORT_ID" /\ t[2] = n.port
        \/ t[1] = "PLATFORM" /\ t[2] = platform
        \/ t[1] = "SOFTWARE_VERSION" /\ t[2] = software
    BY <1>5
  <2> HIDE DEF P
  <2>6. \E j : P(j, t[1], t[2])
    BY <2>1, <2>2, <2>3, <2>4, <2>5, Zenon
  <2> QED
    BY <2>6, Zenon DEF P
<1>10. PagesAreComplete(n, a)
  BY <1>1, <1>6, <1>9, Complete, Zenon
<1> QED
  BY <1>6, <1>10, Zenon DEF n

(* Those of an EAPOL neighbour are.                                            *)
LEMMA EapolComplete ==
  ASSUME NEW a, IsAdvert(a), a.record.source = "eapol", Legible(a)
  PROVE  PagesAreComplete(Expected(a), a) /\ AreItems(Items(Expected(a)))
         /\ DetailsPageCount(Expected(a)) = PagesUpTo(Items(Expected(a)))[Len(Items(Expected(a)))]
<1> DEFINE n == Expected(a)
<1>1. GlyphsPerPage \in Nat \ {0} /\ LineSize \in Nat /\ LineSize > 6
  BY PagesAssumption
<1>2. n.source = "eapol"
  BY DEF IsAdvert, Expected, Free, Blank
<1>3. IsText(n.name)
  BY ExpectedTexts, Zenon
<1>4. Texts(a) = {<<"IDENTITY", n.name>>}
  <2> HIDE DEF n
  <2> QED
    BY <1>2 DEF Texts, n
<1> HIDE DEF n
<1>5. AreItems(Items(n)) /\ DetailsPageCount(n) = PagesUpTo(Items(n))[Len(Items(n))]
  BY <1>1, <1>2, <1>3, EapolCounted, Zenon
<1>6. Items(n) = EapolItems(n)
  BY <1>2 DEF Items
<1>7. EapolItems(n)[1] = Long("IDENTITY", n.name) /\ 1 \in DOMAIN EapolItems(n)
  BY DEF EapolItems
<1>8. ASSUME NEW t \in Texts(a)
      PROVE  \E j \in DOMAIN Items(n) :
                /\ Items(n)[j].heading = t[1] /\ Items(n)[j].long
                /\ Items(n)[j].text = t[2] /\ IsText(t[2])
  <2>1. t[1] = "IDENTITY" /\ t[2] = n.name
    BY <1>4
  <2>2. 1 \in DOMAIN Items(n) /\ Items(n)[1] = Long("IDENTITY", n.name)
    BY <1>6, <1>7
  <2>3. Items(n)[1].heading = "IDENTITY" /\ Items(n)[1].long /\ Items(n)[1].text = n.name
    BY <2>2, LongFields
  <2> QED
    BY <1>3, <2>1, <2>2, <2>3
<1>9. PagesAreComplete(n, a)
  BY <1>1, <1>5, <1>8, Complete, Zenon
<1> QED
  BY <1>5, <1>9, Zenon DEF n

(* The record expected of an advert is shown completely, whatever the protocol. *)
LEMMA ShownCompletely ==
  ASSUME NEW a, IsAdvert(a), Legible(a)
  PROVE  PagesAreComplete(Expected(a), a) /\ DetailsPageCount(Expected(a)) \in Nat \ {0}
<1> DEFINE items == Items(Expected(a))
<1>1. a.record.source \in {"lldp", "cdp", "eapol"}
  BY DEF IsAdvert, Handlers
<1>2. /\ PagesAreComplete(Expected(a), a) /\ AreItems(items)
      /\ DetailsPageCount(Expected(a)) = PagesUpTo(items)[Len(items)]
  BY <1>1, LldpComplete, CdpComplete, EapolComplete
<1> HIDE DEF items
<1>3. PagesUpTo(items)[Len(items)] \in Nat \ {0}
  <2>1. Len(items) \in Nat \ {0} /\ DOMAIN items = 1..Len(items)
    BY <1>2, Zenon DEF AreItems
  <2>2. Len(items) \in DOMAIN items /\ Len(items) - 1 \in Nat
    BY <2>1
  <2>3. items[Len(items)].count \in Nat \ {0}
    BY <1>2, <2>2, Zenon DEF AreItems, IsItem
  <2> DEFINE pages == PagesUpTo(items)
             before == Len(items) - 1
  <2>4. pages \in [Nat -> Nat] /\ pages[Len(items)] = pages[before] + items[Len(items)].count
    BY <1>2, <2>2, UpToRecursion, Zenon
  <2>5. before \in Nat
    BY <2>2
  <2> HIDE DEF pages, before
  <2>6. pages[before] \in Nat
    BY <2>4, <2>5
  <2>7. pages[before] + items[Len(items)].count \in Nat \ {0}
    BY <2>3, <2>6
  <2> QED
    BY <2>4, <2>7, Zenon DEF pages
<1> QED
  BY <1>2, <1>3, Zenon

-----------------------------------------------------------------------------
(* The screens, which write to the database by its calls only.                  *)

(* What was heard of neighbours is legible, what is open is of a selection, and *)
(* a page of details is one of a neighbour that is listed.                      *)
TextsInv == \A k \in DOMAIN heard : Legible(heard[k])
SelectionInv == protocol \in Selections
PageInv ==
    screen = "details" =>
        chosen \in 0..(Cardinality(Listed) - 1) /\ page \in 0..(Count - 1)

(* A selection is a set of protocols.                                          *)
LEMMA SourcesTyped ==
  ASSUME NEW m \in Selections
  PROVE  Sources(m) \in SUBSET Handlers
BY DEF Selections, Sources

(* Every step of the screens is one of the database, or leaves it alone.        *)
LEMMA ScreensStep == SelectionInv /\ [ScreensNext]_sessionVars => SelectionInv' /\ [DbNext]_databaseVars
<1> SUFFICES ASSUME protocol \in Selections, [ScreensNext]_sessionVars
             PROVE  protocol' \in Selections /\ [DbNext]_databaseVars
  BY DEF SelectionInv
<1>1. ASSUME NEW m \in Selections, StartHearing(m)
      PROVE  DbNext /\ protocol' \in Selections
  BY <1>1, SourcesTyped DEF StartHearing, DbNext
<1>2. ASSUME NEW receipt \in Receipts, Hear(receipt)
      PROVE  DbNext /\ protocol' \in Selections
  BY <1>2, SourcesTyped DEF Hear, screenVars, DbNext
<1>3. ASSUME NEW position, Choose(position)
      PROVE  UNCHANGED databaseVars /\ protocol' \in Selections
  BY <1>3 DEF Choose
<1>4. CASE StopHearing \/ RightPage \/ LeftPage
  BY <1>4 DEF StopHearing, RightPage, LeftPage
<1>5. CASE ClearListed
  BY <1>5, SourcesTyped DEF ClearListed, DbNext
<1>6. CASE LeaveScreen
  BY <1>6 DEF LeaveScreen, DbNext
<1>7. CASE UNCHANGED sessionVars
  BY <1>7 DEF sessionVars, screenVars
<1> QED
  BY <1>1, <1>2, <1>3, <1>4, <1>5, <1>6, <1>7 DEF ScreensNext

(* So what the screens find in the database is what was advertised              *)
(* (PassiveNeighborListScene.c, PassiveNeighborDetailsScene.c).                 *)
THEOREM ScreensCorrect ==
  ASSUME FramesParsed
  PROVE  ScreensSpec => []RecordsAreAdvertised
<1>1. ScreensInit => DbInit /\ SelectionInv
  BY DEF ScreensInit, SelectionInv, Selections
<1>2. ScreensSpec => DbSpec
  BY <1>1, ScreensStep, PTL DEF ScreensSpec, DbSpec
<1> QED
  BY <1>2, RecordsCorrect, PTL

(* The advert of a supplicant stays legible with the identity it gave before.   *)
LEMMA RenamedLegible ==
  ASSUME NEW a, NEW name, IsAdvert(a), Legible(a), a.record.source = "eapol", Readable(name)
  PROVE  Legible([a EXCEPT !.record.name = name])
<1> DEFINE b == [a EXCEPT !.record.name = name]
           r == a.record
<1>1. /\ b.record.name = name /\ b.record.port = r.port /\ b.record.chassis = r.chassis
      /\ b.record.description = r.description /\ b.record.vlanName = r.vlanName
      /\ b.record.hasVlanName = r.hasVlanName /\ b.record.source = "eapol"
      /\ b.platform = a.platform /\ b.software = a.software
  BY DEF IsAdvert, Free, Blank
<1>2. /\ Readable(r.port) /\ Readable(r.chassis) /\ Readable(r.description) /\ Readable(r.vlanName)
      /\ a.platform \in Seq(Octets) /\ a.software \in Seq(Octets)
      /\ ~r.hasVlanName => r.vlanName = NoText
  BY Zenon DEF Legible
<1>3. "eapol" # "cdp"
  OBVIOUS
<1> HIDE DEF b, r
<1>4. \A text \in {b.record.name, b.record.port, b.record.chassis, b.record.description,
                   b.record.vlanName} : Readable(text)
  BY <1>1, <1>2
<1>5. /\ b.platform \in Seq(Octets) /\ b.software \in Seq(Octets)
      /\ ~b.record.hasVlanName => b.record.vlanName = NoText
      /\ b.record.source # "cdp"
  BY <1>1, <1>2, <1>3, Zenon
<1>6. Legible(b)
  BY <1>4, <1>5, Zenon DEF Legible
<1> QED
  BY <1>6, Zenon DEF b

(* What is heard stays legible.                                                 *)
LEMMA TextsStep ==
  ASSUME AdvertsLegible, DatabaseInv, TextsInv, [DbNext]_databaseVars
  PROVE  TextsInv'
<1> USE DEF TextsInv
<1>1. CASE Release
  <2>1. DOMAIN heard' = {}
    BY <1>1 DEF Release
  <2> QED
    BY <2>1
<1>2. ASSUME NEW sources \in SUBSET Handlers, Forget(sources) PROVE TextsInv'
  <2>1. \A k \in DOMAIN heard' : k \in DOMAIN heard /\ heard'[k] = heard[k]
    BY <1>2 DEF Forget
  <2> QED
    BY <2>1
<1>3. ASSUME NEW sources \in SUBSET Handlers, NEW receipt \in Receipts, Receive(sources, receipt)
      PROVE  TextsInv'
  <2> DEFINE a == receipt.advert
  <2>1. UNCHANGED heard \/ Note(a)
    BY <1>3, Zenon DEF Receive
  <2>2. Legible(a) /\ IsAdvert(a)
    BY ReceiptsAssumption, Zenon DEF AdvertsLegible
  <2>3. Legible(Renamed(a))
    <3>1. CASE ~(Unnamed(a) /\ Key(a) \in DOMAIN heard)
      <4>1. Renamed(a) = a
        BY <3>1, Zenon DEF Renamed
      <4> QED
        BY <2>2, <4>1, Zenon
    <3>2. CASE Unnamed(a) /\ Key(a) \in DOMAIN heard
      <4>1. Renamed(a) = [a EXCEPT !.record.name = heard[Key(a)].record.name]
        BY <3>2, Zenon DEF Renamed
      <4>2. Legible(heard[Key(a)])
        BY <3>2, Zenon
      <4>3. Readable(heard[Key(a)].record.name)
        BY <4>2, Zenon DEF Legible
      <4>4. a.record.source = "eapol"
        BY <3>2, Zenon DEF Unnamed
      <4>5. Legible([a EXCEPT !.record.name = heard[Key(a)].record.name])
        BY <2>2, <4>3, <4>4, RenamedLegible, Zenon
      <4> QED
        BY <4>1, <4>5, Zenon
    <3> QED
      BY <3>1, <3>2
  <2>4. CASE Note(a)
    <3>1. heard' = [k \in DOMAIN heard \cup {Key(a)} |-> IF k = Key(a) THEN Renamed(a) ELSE heard[k]]
      BY <2>4, Zenon DEF Note
    <3>2. \A k \in DOMAIN heard' : heard'[k] = Renamed(a) \/ (k \in DOMAIN heard /\ heard'[k] = heard[k])
      <4>1. DOMAIN heard' = DOMAIN heard \cup {Key(a)}
        BY <3>1, Zenon
      <4>2. \A k \in DOMAIN heard \cup {Key(a)} : heard'[k] = IF k = Key(a) THEN Renamed(a) ELSE heard[k]
        BY <3>1, Zenon
      <4> SUFFICES ASSUME NEW k \in DOMAIN heard'
                   PROVE  heard'[k] = Renamed(a) \/ (k \in DOMAIN heard /\ heard'[k] = heard[k])
        BY Zenon
      <4>3. CASE k = Key(a)
        BY <4>1, <4>2, <4>3
      <4>4. CASE k # Key(a)
        <5>1. k \in DOMAIN heard
          BY <4>1, <4>4
        <5> QED
          BY <4>1, <4>2, <4>4, <5>1, Zenon
      <4> QED
        BY <4>3, <4>4
    <3> QED
      BY <2>3, <3>2
  <2>5. CASE UNCHANGED heard
    BY <2>5
  <2> QED
    BY <2>1, <2>4, <2>5
<1>4. CASE UNCHANGED databaseVars
  BY <1>4 DEF databaseVars
<1> QED
  BY <1>1, <1>2, <1>3, <1>4 DEF DbNext

(* A neighbour that is listed has a page to show, and its pages are complete.   *)
LEMMA ListedShown ==
  ASSUME DatabaseInv, TextsInv, SelectionInv, NEW position \in 0..(Cardinality(Listed) - 1)
  PROVE  LET n == neighbors[SlotAt(position)]
         IN /\ DetailsPageCount(n) \in Nat \ {0}
            /\ PagesAreComplete(n, heard[<<n.mac, n.source>>])
<1> DEFINE i == SlotAt(position)
           n == neighbors[i]
<1>1. Listed \subseteq Slots /\ MaxEntries \in Nat
  BY ReceiptsAssumption DEF Listed
<1>2. Listed \subseteq 0..MaxEntries
  BY <1>1 DEF Slots
<1>3. i \in Listed
  BY <1>1, <1>2, Ranked, Zenon DEF SlotAt
<1> HIDE DEF i
<1>4. n.source \in Handlers
  <2>1. n.source \in Sources(protocol) /\ Sources(protocol) \in SUBSET Handlers
    BY <1>3, SourcesTyped, Zenon DEF Listed, SelectionInv
  <2> QED
    BY <2>1
<1>5. i \in Occupied
  BY <1>1, <1>3, <1>4 DEF Occupied, Handlers
<1>6. SlotKey(i) \in DOMAIN heard /\ n = Expected(heard[SlotKey(i)])
  BY <1>5, Zenon DEF DatabaseInv
<1>7. IsAdvert(heard[SlotKey(i)]) /\ Legible(heard[SlotKey(i)])
  BY <1>6, Zenon DEF DatabaseInv, TextsInv
<1>8. /\ PagesAreComplete(Expected(heard[SlotKey(i)]), heard[SlotKey(i)])
      /\ DetailsPageCount(Expected(heard[SlotKey(i)])) \in Nat \ {0}
  BY <1>7, ShownCompletely, Zenon
<1>9. SlotKey(i) = <<n.mac, n.source>>
  BY Zenon DEF SlotKey
<1>10. DetailsPageCount(n) \in Nat \ {0} /\ PagesAreComplete(n, heard[<<n.mac, n.source>>])
  BY <1>6, <1>8, <1>9, Zenon
<1> QED
  BY <1>10, Zenon DEF i

(* A page that is open stays one of its neighbour.                              *)
LEMMA PageStep ==
  ASSUME DatabaseInv, TextsInv, SelectionInv, PageInv, [ScreensNext]_sessionVars
  PROVE  PageInv'
<1>1. ASSUME UNCHANGED databaseVars, UNCHANGED protocol, NEW c, chosen' = c
      PROVE  Listed' = Listed /\ Count' = DetailsPageCount(neighbors[SlotAt(c)])
  <2>1. neighbors' = neighbors
    BY <1>1 DEF databaseVars
  <2>2. Listed' = Listed
    BY <1>1, <2>1, Zenon DEF Listed
  <2>3. Count' = DetailsPageCount(neighbors'[Nth(Listed', chosen')])
    BY Zenon DEF Count, SelectedNeighbor, SlotAt
  <2> QED
    BY <1>1, <2>1, <2>2, <2>3, Zenon DEF SlotAt
<1>2. Count = DetailsPageCount(neighbors[SlotAt(chosen)])
  BY Zenon DEF Count, SelectedNeighbor
<1>3. screen = "details" => Count \in Nat \ {0}
  BY <1>2, ListedShown DEF PageInv
<1>4. ASSUME NEW m \in Selections, StartHearing(m) PROVE PageInv'
  BY <1>4 DEF StartHearing, PageInv
<1>5. ASSUME NEW receipt \in Receipts, Hear(receipt) PROVE PageInv'
  BY <1>5 DEF Hear, screenVars, PageInv
<1>6. ASSUME NEW position \in 0..(Cardinality(Listed) - 1), Choose(position) PROVE PageInv'
  <2>1. /\ UNCHANGED databaseVars /\ UNCHANGED protocol /\ chosen' = position /\ page' = 0
    BY <1>6 DEF Choose
  <2>2. Listed' = Listed /\ Count' = DetailsPageCount(neighbors[SlotAt(position)])
    BY <1>1, <2>1, Zenon
  <2>3. DetailsPageCount(neighbors[SlotAt(position)]) \in Nat \ {0}
    BY ListedShown
  <2>4. page' \in 0..(Count' - 1)
    BY <2>1, <2>2, <2>3
  <2>5. chosen' \in 0..(Cardinality(Listed') - 1)
    BY <2>1, <2>2, Zenon
  <2> QED
    BY <2>4, <2>5, Zenon DEF PageInv
<1>7. CASE StopHearing \/ ClearListed \/ LeaveScreen
  BY <1>7 DEF StopHearing, ClearListed, LeaveScreen, PageInv
<1>8. CASE RightPage \/ LeftPage
  <2>1. /\ UNCHANGED databaseVars /\ UNCHANGED protocol /\ chosen' = chosen /\ screen = "details"
        /\ \/ page' = IF page + 1 >= Count THEN 0 ELSE page + 1
           \/ page' = IF page = 0 THEN Count - 1 ELSE page - 1
    BY <1>8, Zenon DEF RightPage, LeftPage
  <2>2. Listed' = Listed /\ Count' = Count
    BY <1>1, <1>2, <2>1, Zenon
  <2>3. chosen \in 0..(Cardinality(Listed) - 1) /\ page \in 0..(Count - 1) /\ Count \in Nat \ {0}
    BY <1>3, <2>1, Zenon DEF PageInv
  <2>4. page' \in 0..(Count - 1)
    <3> HIDE DEF Count
    <3> QED
      BY <2>1, <2>3
  <2> QED
    BY <2>1, <2>2, <2>3, <2>4, Zenon DEF PageInv
<1>9. CASE UNCHANGED sessionVars
  <2>1. /\ UNCHANGED databaseVars /\ UNCHANGED protocol /\ chosen' = chosen
        /\ screen' = screen /\ page' = page
    BY <1>9 DEF sessionVars, screenVars
  <2>2. Listed' = Listed /\ Count' = Count
    BY <1>1, <1>2, <2>1, Zenon
  <2> QED
    BY <2>1, <2>2, Zenon DEF PageInv
<1> QED
  BY <1>4, <1>5, <1>6, <1>7, <1>8, <1>9 DEF ScreensNext

(* Going through the pages of a neighbour shows all that it advertised of its   *)
(* texts, in order, on pages that fit the screen and none of which is empty,    *)
(* whatever was heard, forgotten and chosen before                              *)
(* (passive_details_text.c:42-125, lldp_module.c:279-491, cdp_module.c:80-207,  *)
(* eapol_module.c:51-217, PassiveNeighborDetailsScene.c:143-192).               *)
THEOREM PagesCorrect ==
  ASSUME FramesParsed, AdvertsLegible
  PROVE  ScreensSpec => []PagesShowAdvert
<1>1. ScreensInit => DatabaseInv /\ TextsInv /\ SelectionInv /\ PageInv
  <2> SUFFICES ASSUME ScreensInit PROVE DatabaseInv /\ TextsInv /\ SelectionInv /\ PageInv
    OBVIOUS
  <2>1. DatabaseInv
    BY DatabaseInit DEF ScreensInit
  <2>2. TextsInv
    <3>1. DOMAIN heard = {}
      BY DEF ScreensInit, DbInit
    <3> QED
      BY <3>1 DEF TextsInv
  <2>3. SelectionInv /\ PageInv
    BY DEF ScreensInit, SelectionInv, Selections, PageInv
  <2> QED
    BY <2>1, <2>2, <2>3
<1>2. DatabaseInv /\ TextsInv /\ SelectionInv /\ PageInv /\ [ScreensNext]_sessionVars
         => DatabaseInv' /\ TextsInv' /\ SelectionInv' /\ PageInv'
  BY ScreensStep, DatabaseStep, TextsStep, PageStep
<1>3. DatabaseInv /\ TextsInv /\ SelectionInv /\ PageInv => PagesShowAdvert
  <2> SUFFICES ASSUME DatabaseInv, TextsInv, SelectionInv, PageInv, screen = "details"
               PROVE  /\ page < Count
                      /\ page = 0 => PagesAreComplete(SelectedNeighbor,
                                        heard[<<SelectedNeighbor.mac, SelectedNeighbor.source>>])
    BY Zenon DEF PagesShowAdvert
  <2>1. chosen \in 0..(Cardinality(Listed) - 1) /\ page \in 0..(Count - 1)
    BY Zenon DEF PageInv
  <2>2. /\ DetailsPageCount(SelectedNeighbor) \in Nat \ {0}
        /\ PagesAreComplete(SelectedNeighbor, heard[<<SelectedNeighbor.mac, SelectedNeighbor.source>>])
    BY <2>1, ListedShown, Zenon DEF SelectedNeighbor
  <2>3. page < Count
    <3>1. Count \in Nat
      BY <2>2 DEF Count
    <3> HIDE DEF Count
    <3> QED
      BY <2>1, <3>1
  <2> QED
    BY <2>2, <2>3, Zenon
<1> QED
  BY <1>1, <1>2, <1>3, PTL DEF ScreensSpec
=============================================================================
