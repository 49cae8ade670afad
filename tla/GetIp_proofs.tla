----------------------------- MODULE GetIp_proofs -----------------------------
(* Machine-checked proofs about GetIp, for any servers, any number of attempts *)
(* and any timeout.                                                            *)
EXTENDS GetIp, TLAPS

Tuples == [ip : Sources, gateway : Sources, mask : Sources,
           mac : Servers \cup {Saved, None}, isDora : BOOLEAN, isStatic : BOOLEAN]

Exchanging == {"loop", "restore", "copy"}             \* the steps of an attempt until the
Concluding == {"resume", "flags", "static", "announce", "done"}  \* copy, and after it

ThreadInv ==
    /\ tuple \in Tuples
    /\ tpc \in {"none", "begin", "pause", "prepare"} \cup Exchanging \cup Concluding
    /\ owned \in BOOLEAN
    /\ (owned <=> tpc # "none")
    /\ offer \in Servers \cup {None}

(* What stands in the tuple at each step: what was there before, of one source,*)
(* or the lease acknowledged in this attempt; its mask is written when the     *)
(* acknowledgement arrives, the address and the gateway when the loop is over. *)
LeaseInv ==
    IF ret /\ tpc \in Exchanging \cup Concluding
    THEN /\ ack \in Leases /\ ack.xid = xid /\ Acknowledged(ack)
         /\ tuple.mask = ack /\ tuple.ip = tuple.gateway
         /\ tpc \in Concluding => tuple.ip = ack
    ELSE tuple.ip = tuple.gateway /\ tuple.gateway = tuple.mask

(* is_static_ip follows is_dora within one step.                               *)
FlagInv ==
    /\ tpc = "static" => ret /\ tuple.isDora
    /\ tpc = "announce" /\ ret => tuple.isDora
    /\ tpc # "static" /\ tuple.isDora => tuple.isStatic

(* The dispatcher is paused from one step of the worker to another, and the    *)
(* broadcast filter changed from one to another.                               *)
ChipInv ==
    /\ paused = IF tpc \in {"prepare", "resume"} \cup Exchanging THEN 1 ELSE 0
    /\ tpc \in {"copy"} \cup Concluding => broadcast = wasBroadcast

AttemptInv == ThreadInv /\ LeaseInv /\ FlagInv /\ ChipInv

(* The invariant holds before the first attempt.                               *)
LEMMA AttemptInit == Init => AttemptInv
<1> SUFFICES ASSUME Init PROVE AttemptInv
  OBVIOUS
<1>1. PICK dr, st \in BOOLEAN :
         /\ dr => st
         /\ tuple = [ip |-> Saved, gateway |-> Saved, mask |-> Saved, mac |-> Saved,
                     isDora |-> dr, isStatic |-> st]
  BY DEF Init
<1>2. tuple \in Tuples /\ tuple.ip = Saved /\ tuple.gateway = Saved /\ tuple.mask = Saved
      /\ (tuple.isDora => tuple.isStatic)
  BY <1>1 DEF Tuples, Sources
<1> QED BY <1>2 DEF Init, AttemptInv, ThreadInv, LeaseInv, FlagInv, ChipInv, Exchanging, Concluding

(* Nothing of an attempt changes while the GUI thread works, but for the slot. *)
LEMMA GuiStep ==
    ASSUME AttemptInv, Gui
    PROVE  AttemptInv'
<1> USE DEF AttemptInv, ThreadInv, LeaseInv, FlagInv, ChipInv, Exchanging, Concluding, Acknowledged,
            chipVars, doraVars
<1>1. CASE Enter
  <2>1. UNCHANGED <<sent, offer, ack, ret, xid, tuple, paused, broadcast, wasBroadcast>>
    BY <1>1 DEF Enter
  <2>2. CASE ~owned /\ owned' = TRUE /\ tpc' = "begin"
    BY <2>1, <2>2
  <2>3. CASE UNCHANGED <<owned, tpc>>
    BY <2>1, <2>3
  <2> QED BY <1>1, <2>2, <2>3 DEF Enter
<1>2. CASE HandleEvent \/ Back
  BY <1>2 DEF HandleEvent, Back
<1>3. CASE Joined
  BY <1>3 DEF Joined
<1> QED BY <1>1, <1>2, <1>3 DEF Gui

(* A step of either thread keeps the invariant.                                *)
LEMMA ThreadStep ==
    ASSUME AttemptInv, Thread \/ Tick \/ UNCHANGED vars
    PROVE  AttemptInv'
<1> USE DEF AttemptInv, ThreadInv, LeaseInv, FlagInv, ChipInv, Exchanging, Concluding, Acknowledged,
            guiVars, chipVars, KeepsTrying
<1>1. CASE ThreadBegin \/ ThreadPause
  BY <1>1 DEF ThreadBegin, ThreadPause
<1>2. CASE Prepare
  BY <1>2 DEF Prepare
<1>3. CASE SendDiscover
  BY <1>3 DEF SendDiscover
<1>4. CASE SendRequest
  BY <1>4 DEF SendRequest
<1>5. CASE \E s \in Servers, x \in Attempts : ReceiveOffer(s, x)
  BY <1>5 DEF ReceiveOffer
<1>6. ASSUME NEW l \in Leases, ReceiveAck(l) PROVE AttemptInv'
  <2>1. tuple' \in Tuples /\ tuple'.mask = l
        /\ tuple'.ip = tuple.ip /\ tuple'.gateway = tuple.gateway
        /\ tuple'.isDora = tuple.isDora /\ tuple'.isStatic = tuple.isStatic
    BY <1>6 DEF ReceiveAck, Tuples, Sources
  <2> QED BY <1>6, <2>1 DEF ReceiveAck, TakesAck
<1>7. CASE LoopExit \/ Tick
  BY <1>7 DEF LoopExit, Tick
<1>8. CASE Restore
  BY <1>8 DEF Restore
<1>9. CASE CopyTuple
  <2>1. CASE ret
    <3>1. /\ tuple' \in Tuples /\ tuple'.mask = tuple.mask
          /\ tuple'.ip = ack /\ tuple'.gateway = ack
          /\ tuple'.isDora = tuple.isDora /\ tuple'.isStatic = tuple.isStatic
      BY <1>9, <2>1 DEF CopyTuple, Copies, Tuples, Sources
    <3> QED BY <1>9, <2>1, <3>1 DEF CopyTuple
  <2>2. CASE ~ret
    BY <1>9, <2>2 DEF CopyTuple, Copies
  <2> QED BY <2>1, <2>2
<1>10. CASE ThreadResume
  BY <1>10 DEF ThreadResume
<1>11. CASE SetDora
  <2>1. CASE ~cancel /\ ret
    <3>1. /\ tuple' \in Tuples /\ tuple'.mask = tuple.mask /\ tuple'.ip = tuple.ip
          /\ tuple'.gateway = tuple.gateway /\ tuple'.isDora
      BY <1>11, <2>1 DEF SetDora, Tuples
    <3> QED BY <1>11, <2>1, <3>1 DEF SetDora
  <2>2. CASE ~(~cancel /\ ret)
    BY <1>11, <2>2 DEF SetDora
  <2> QED BY <2>1, <2>2
<1>12. CASE SetStatic
  <2>1. /\ tuple' \in Tuples /\ tuple'.mask = tuple.mask /\ tuple'.ip = tuple.ip
        /\ tuple'.gateway = tuple.gateway /\ tuple'.isDora = tuple.isDora /\ tuple'.isStatic
    BY <1>12 DEF SetStatic, Tuples
  <2> QED BY <1>12, <2>1 DEF SetStatic
<1>13. CASE ThreadAnnounce
  BY <1>13 DEF ThreadAnnounce
<1>14. CASE UNCHANGED vars
  BY <1>14 DEF vars, doraVars
<1> QED BY <1>1, <1>2, <1>3, <1>4, <1>5, <1>6, <1>7, <1>8, <1>9, <1>10, <1>11, <1>12, <1>13, <1>14
        DEF Thread, Receive

(* The invariant holds in every reachable state.                               *)
LEMMA AttemptCorrect == FairSpec => []AttemptInv
<1>1. AttemptInv /\ [Next]_vars => AttemptInv'
  BY GuiStep, ThreadStep DEF Next
<1> QED BY <1>1, AttemptInit, PTL DEF FairSpec

(* What a worker reports as acquired is one lease, whole, acknowledged to a    *)
(* request of its own attempt, however late, often and disordered answers come *)
(* (dhcp_protocol.c:293-334, GetIPScene.c:35).                                 *)
THEOREM LeaseReported == FairSpec => []ReportedLease
<1>1. AttemptInv => ReportedLease
  BY DEF AttemptInv, ThreadInv, LeaseInv, FlagInv, ReportedLease, Acknowledged, Exchanging, Concluding
<1> QED BY <1>1, AttemptCorrect, PTL

(* Wherever BACK, a timeout or a lost link cut an attempt, address, gateway and*)
(* mask are left of one source (dhcp_protocol.c:302, 330-334).                 *)
THEOREM NetworkWhole == FairSpec => []NetworkStateWhole
<1>1. AttemptInv => NetworkStateWhole
  BY DEF AttemptInv, ThreadInv, LeaseInv, FlagInv, NetworkStateWhole, Exchanging, Concluding
<1> QED BY <1>1, AttemptCorrect, PTL

(* However an attempt ends, the broadcast filter is as before and the          *)
(* dispatcher runs (dhcp_protocol.c:239-240, 324-328).                         *)
THEOREM ChipAsBefore == FairSpec => []ChipRestored
<1>1. AttemptInv => ChipRestored
  BY DEF AttemptInv, ChipInv, ChipRestored, Exchanging, Concluding
<1> QED BY <1>1, AttemptCorrect, PTL

-----------------------------------------------------------------------------
(* Types.                                                                      *)

(* A worker that has not drawn its transaction id has one left to draw, and    *)
(* nothing is requested before a server's offer has been taken: so the server a *)
(* request is sent to, and whose MAC an acknowledgement installs, is one.      *)
DrawInv ==
    /\ tpc \in {"begin", "pause", "prepare"} => xid < MaxAttempts
    /\ tpc \in Exchanging => xid # 0
    /\ offer = None => /\ dora # "REQUEST"
                       /\ \A x \in Attempts, s \in Servers : Request(x, s) \notin sent

TypeInv == TypeOK /\ DrawInv /\ AttemptInv

(* The types hold before the first attempt.                                    *)
LEMMA TypeInit == Init => TypeOK /\ DrawInv
<1> SUFFICES ASSUME Init PROVE TypeOK /\ DrawInv
  OBVIOUS
<1>1. tuple.ip = Saved /\ tuple.gateway = Saved /\ tuple.mask = Saved /\ tuple.mac = Saved
      /\ tuple.isDora \in BOOLEAN /\ tuple.isStatic \in BOOLEAN
  BY DEF Init
<1>2. /\ sent = {} /\ scene = "menu" /\ shown = "nothing" /\ gui = "idle" /\ events = <<>>
      /\ owned = FALSE /\ cancel = FALSE /\ tpc = "none" /\ dora = "INIT" /\ ret = FALSE
      /\ elapsed = 0 /\ xid = 0 /\ offer = None /\ ack = None
      /\ broadcast \in BOOLEAN /\ wasBroadcast = FALSE /\ paused = 0
  BY DEF Init
<1>3. elapsed \in 0..(Timeout + 1) /\ xid \in 0..MaxAttempts /\ xid < MaxAttempts
  BY <1>2, GetIpAssumption
<1>4. sent \subseteq Messages /\ events \in Seq({"wait", "got", "failed"})
  BY <1>2
<1>5. owned \in BOOLEAN /\ cancel \in BOOLEAN /\ ret \in BOOLEAN /\ wasBroadcast \in BOOLEAN
  BY <1>2
<1>6. TypeOK
  BY <1>1, <1>2, <1>3, <1>4, <1>5 DEF TypeOK, Sources
<1>7. DrawInv
  BY <1>2, <1>3 DEF DrawInv, Exchanging
<1> QED BY <1>6, <1>7

(* The GUI thread keeps the types; it consumes events of the queue.            *)
LEMMA TypeGui ==
    ASSUME TypeInv, Gui
    PROVE  TypeOK' /\ DrawInv'
<1> USE DEF TypeInv, TypeOK, DrawInv, Exchanging, chipVars, doraVars
<1>1. CASE Enter
  <2>1. UNCHANGED <<sent, gui, events, dora, ret, elapsed, xid, offer, ack, wasBroadcast,
                    broadcast, paused, tuple>> /\ scene' = "getip"
    BY <1>1 DEF Enter
  <2>2. CASE /\ xid < MaxAttempts
             /\ owned' = TRUE /\ cancel' = FALSE /\ tpc' = "begin" /\ shown' = "nothing"
    <3>1. owned' \in BOOLEAN /\ cancel' \in BOOLEAN /\ (owned' <=> tpc' # "none")
      BY <2>2
    <3>2. TypeOK'
      BY <2>1, <2>2, <3>1
    <3>3. DrawInv'
      BY <2>1, <2>2
    <3> QED BY <3>2, <3>3
  <2>3. CASE shown' = "absent" /\ UNCHANGED <<owned, cancel, tpc>>
    BY <2>1, <2>3
  <2> QED BY <1>1, <2>2, <2>3 DEF Enter
<1>2. CASE HandleEvent
  <2>1. Head(events) \in {"wait", "got", "failed"} /\ Tail(events) \in Seq({"wait", "got", "failed"})
    BY <1>2 DEF HandleEvent
  <2>2. events' \in Seq({"wait", "got", "failed"})
        /\ gui' \in {"idle", "got", "failed", "leave"}
        /\ shown' \in {"nothing", "waiting", "got", "failed", "absent"}
    BY <1>2, <2>1 DEF HandleEvent
  <2> QED BY <1>2, <2>2 DEF HandleEvent
<1>3. CASE Back
  BY <1>3 DEF Back
<1>4. CASE Joined
  <2>1. owned' \in BOOLEAN /\ (owned' <=> tpc' # "none") /\ gui' = "idle"
        /\ scene' \in {"menu", "getip"}
        /\ shown' \in {"nothing", "waiting", "got", "failed", "absent"}
    BY <1>4 DEF Joined
  <2> QED BY <1>4, <2>1 DEF Joined
<1> QED BY <1>1, <1>2, <1>3, <1>4 DEF Gui

(* The worker keeps the types.                                                 *)
LEMMA TypeThread ==
    ASSUME TypeInv, Thread \/ Tick \/ UNCHANGED vars
    PROVE  TypeOK' /\ DrawInv'
<1> USE GetIpAssumption DEF TypeInv, TypeOK, DrawInv, Exchanging, guiVars, chipVars, KeepsTrying
<1>1. CASE ThreadBegin
  <2>1. events' \in Seq({"wait", "got", "failed"})
    BY <1>1 DEF ThreadBegin, Announce
  <2> QED BY <1>1, <2>1 DEF ThreadBegin
<1>2. CASE ThreadPause
  BY <1>2 DEF ThreadPause, AttemptInv, ChipInv
<1>3. CASE Prepare
  <2>1. xid + 1 \in 0..MaxAttempts /\ xid + 1 # 0
    BY <1>3 DEF Prepare
  <2>2. /\ xid' = xid + 1 /\ dora' = "INIT" /\ ret' = FALSE /\ elapsed' = 0 /\ tpc' = "loop"
        /\ wasBroadcast' = broadcast /\ broadcast' = TRUE
        /\ UNCHANGED <<sent, scene, shown, gui, events, owned, cancel, offer, ack, paused, tuple>>
        /\ owned
    BY <1>3 DEF Prepare
  <2>3. DrawInv'
    BY <2>1, <2>2
  <2>4. /\ broadcast' \in BOOLEAN /\ wasBroadcast' \in BOOLEAN /\ ret' \in BOOLEAN
        /\ elapsed' \in 0..(Timeout + 1)
    <3>1. broadcast' \in BOOLEAN /\ ret' \in BOOLEAN
      BY <2>2, Zenon
    <3>2. wasBroadcast' \in BOOLEAN /\ elapsed' = 0
      BY <2>2
    <3> QED BY <3>1, <3>2
  <2>5. /\ xid' = xid + 1 /\ dora' = "INIT" /\ tpc' = "loop"
        /\ UNCHANGED <<sent, scene, shown, gui, events, owned, cancel, offer, ack, paused, tuple>>
        /\ (owned <=> tpc # "none") /\ (owned' <=> tpc' # "none")
    BY <1>3, <2>2
  <2>6. TypeOK'
    BY <2>1, <2>4, <2>5
  <2> QED BY <2>3, <2>6
<1>4. CASE SendDiscover
  <2>1. xid \in Attempts
    BY <1>4 DEF SendDiscover, Attempts
  <2>2. \A x \in Attempts, s \in Servers : Request(x, s) # Discover(xid)
    BY DEF Request, Discover
  <2>3. Discover(xid) \in Messages
    BY <2>1 DEF Messages
  <2> QED BY <1>4, <2>1, <2>2, <2>3 DEF SendDiscover
<1>5. CASE SendRequest
  <2>1. xid \in Attempts
    BY <1>5 DEF SendRequest, Attempts
  <2>2. offer \in Servers
    BY <1>5 DEF SendRequest
  <2>3. Request(xid, offer) \in Messages
    BY <2>1, <2>2 DEF Messages
  <2> QED BY <1>5, <2>1, <2>2, <2>3 DEF SendRequest
<1>6. CASE \E s \in Servers, x \in Attempts : ReceiveOffer(s, x)
  BY <1>6 DEF ReceiveOffer
<1>7. ASSUME NEW l \in Leases, ReceiveAck(l) PROVE TypeOK' /\ DrawInv'
  <2>1. offer \in Servers
    BY <1>7 DEF ReceiveAck, Acknowledged, Leases
  <2>2. tuple'.mask = l /\ tuple'.mac = offer /\ tuple'.ip = tuple.ip
        /\ tuple'.gateway = tuple.gateway
        /\ tuple'.isDora = tuple.isDora /\ tuple'.isStatic = tuple.isStatic
    BY <1>7 DEF ReceiveAck, AttemptInv, ThreadInv, Tuples
  <2> QED BY <1>7, <2>1, <2>2 DEF ReceiveAck, Sources
<1>8. CASE Tick
  BY <1>8 DEF Tick
<1>9. CASE LoopExit \/ Restore
  BY <1>9 DEF LoopExit, Restore
<1>10. CASE CopyTuple
  <2>1. tuple' \in Tuples /\ tuple'.mac = tuple.mac
    <3>1. tuple \in Tuples /\ (ret => ack \in Sources)
      BY <1>10 DEF CopyTuple, AttemptInv, ThreadInv, LeaseInv, Concluding, Sources
    <3>2. tuple' = tuple \/ (ret /\ tuple' = [tuple EXCEPT !.ip = ack, !.gateway = ack])
      BY <1>10 DEF CopyTuple, Copies
    <3> HIDE DEF TypeInv, DrawInv, TypeOK
    <3>3. CASE tuple' = tuple
      BY <3>1, <3>3
    <3>4. CASE ret /\ tuple' = [tuple EXCEPT !.ip = ack, !.gateway = ack]
      BY <3>1, <3>4 DEF Tuples
    <3> QED BY <3>2, <3>3, <3>4
  <2>2. tpc = "copy" /\ tpc' = "resume"
        /\ UNCHANGED <<sent, scene, shown, gui, events, owned, cancel, dora, ret, elapsed, xid,
                       offer, ack, wasBroadcast, broadcast, paused>>
    BY <1>10 DEF CopyTuple
  <2> QED BY <2>1, <2>2 DEF Tuples
<1>11. CASE ThreadResume
  BY <1>11 DEF ThreadResume, AttemptInv, ChipInv
<1>12. CASE SetDora
  <2>1. tuple' \in Tuples /\ tuple'.mac = tuple.mac
    BY <1>12 DEF SetDora, AttemptInv, ThreadInv, Tuples
  <2> QED BY <1>12, <2>1 DEF SetDora, Tuples
<1>13. CASE SetStatic
  <2>1. tuple' \in Tuples /\ tuple'.mac = tuple.mac
    BY <1>13 DEF SetStatic, AttemptInv, ThreadInv, Tuples
  <2> QED BY <1>13, <2>1 DEF SetStatic, Tuples
<1>14. CASE ThreadAnnounce
  <2>1. events' \in Seq({"wait", "got", "failed"})
    BY <1>14 DEF ThreadAnnounce, Announce
  <2> QED BY <1>14, <2>1 DEF ThreadAnnounce
<1>15. CASE UNCHANGED vars
  BY <1>15 DEF vars, doraVars
<1> QED BY <1>1, <1>2, <1>3, <1>4, <1>5, <1>6, <1>7, <1>8, <1>9, <1>10, <1>11, <1>12, <1>13, <1>14,
           <1>15 DEF Thread, Receive

(* Every variable keeps its type, for any servers and attempts: no attempt      *)
(* takes an answer before an offer, so the MAC that goes with the network is   *)
(* always a server's, and the dispatcher is paused once at most                *)
(* (dhcp_protocol.c:261-308).                                                  *)
THEOREM LeaseTypeCorrect == FairSpec => []TypeOK
<1>1. TypeInv /\ [Next]_vars => TypeInv'
  BY GuiStep, ThreadStep, TypeGui, TypeThread DEF Next, TypeInv
<1>2. Init => TypeInv
  BY AttemptInit, TypeInit DEF TypeInv
<1>3. TypeInv => TypeOK
  BY DEF TypeInv
<1> QED BY <1>1, <1>2, <1>3, PTL DEF FairSpec
===============================================================================
