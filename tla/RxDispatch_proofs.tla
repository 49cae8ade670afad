-------------------------- MODULE RxDispatch_proofs --------------------------
(***************************************************************************)
(* Machine-checked proofs about RxDispatch, for every set of clients, every *)
(* registry size and every traffic.  Each step lemma has one step per       *)
(* action of the specification.                                             *)
(***************************************************************************)
EXTENDS RxDispatch, FiniteSetTheorems, TLAPS

(* A step keeps the state well typed, once the loop over the slots is known  *)
(* to stay inside the registry.                                              *)
LEMMA TypeStep ==
    ASSUME TypeOK, CallInv, [Next]_vars
    PROVE  TypeOK'
<1> USE DEF TypeOK, chipVars, wakeVars, ctlVars, regVars, dispVars, waitVars, workerVars
<1>1. ASSUME NEW f \in Frame, FrameArrives(f) PROVE TypeOK'
  BY <1>1 DEF FrameArrives
<1>2. CASE Dispatcher
  <2>1. CASE DLoop
    BY <2>1 DEF DLoop, DGoto
  <2>2. CASE DWake
    <3>1. flag' \in BOOLEAN
      BY <2>2 DEF DWake
    <3>2. /\ dpc' = "woke"
          /\ UNCHANGED <<chipVars, isr, ctlVars, regVars, dframe, dslot, dctx, waitVars, workerVars, mpc>>
      BY <2>2 DEF DWake, DGoto
    <3> QED BY <3>1, <3>2
  <2>3. CASE DFallback
    BY <2>3 DEF DFallback, DGoto
  <2>4. CASE DWoke
    BY <2>4 DEF DWoke, DGoto
  <2>5. CASE DCheckPause
    BY <2>5 DEF DCheckPause, DGoto
  <2>6. CASE DAck
    BY <2>6 DEF DAck, DGoto
  <2>7. CASE DUnack
    <3>1. acked' \in BOOLEAN
      BY <2>7 DEF DUnack
    <3>2. /\ dpc' = "drain"
          /\ UNCHANGED <<chipVars, wakeVars, running, pauseCount, regVars, dframe, dslot, dctx,
                         waitVars, workerVars, mpc>>
      BY <2>7 DEF DUnack, DGoto
    <3> QED BY <3>1, <3>2
  <2>8. CASE DDrain
    BY <2>8 DEF DDrain, DGoto
  <2>9. CASE DReceive
    <3>1. rxq # <<>> => Head(rxq) \in Frame /\ Tail(rxq) \in Seq(Frame)
      OBVIOUS
    <3>2. rxq' \in Seq(Frame) /\ rxbuf' \in Frame \cup {NoOne} /\ dframe' \in Frame \cup {NoOne}
      BY <2>9, <3>1 DEF DReceive, DGoto, ReceivePacket
    <3> QED
      BY <2>9, <3>2 DEF DReceive, DGoto
  <2>10. CASE DLock
    BY <2>10, BoundsAreNat DEF DLock, Slots
  <2>11. CASE DPredicate
    BY <2>11, BoundsAreNat DEF DPredicate, Slots
  <2>12. CASE DHandler
    <3>1. dslot' \in 1 .. (MaxSlots + 1)
      BY <2>12, BoundsAreNat DEF DHandler, CallInv, Slots
    <3>2. sem' \in [Waiters -> {"freed", "empty", "token"}] /\ matched' \in [Waiters -> BOOLEAN]
      BY <2>12 DEF DHandler
    <3> QED
      BY <2>12, <3>1, <3>2 DEF DHandler
  <2>13. CASE DUnlock
    BY <2>13, BoundsAreNat DEF DUnlock, Slots
  <2> QED BY <1>2, <2>1, <2>2, <2>3, <2>4, <2>5, <2>6, <2>7, <2>8, <2>9, <2>10, <2>11,
             <2>12, <2>13 DEF Dispatcher
<1>3. ASSUME NEW w \in Waiters, WBegin(w) \/ Waiter(w) PROVE TypeOK'
  <2>1. CASE WBegin(w)
    BY <2>1 DEF WBegin, WGoto, Workers, WaitPc
  <2>2. CASE WRegister(w)
    <3>1. CASE FreeSlots = {}
      <4>1. handle' \in [Handlers -> Slots \cup {0}] /\ slots' = slots
        BY <2>2, <3>1 DEF WRegister, Register, Handlers
      <4> QED
        BY <2>2, <3>1, <4>1 DEF WRegister, WGoto, Workers, WaitPc
    <3>2. ASSUME NEW i \in FreeSlots,
                 slots' = [slots EXCEPT ![i] = w], handle' = [handle EXCEPT ![w] = i]
          PROVE  TypeOK'
      <4>1. w \in Handlers /\ i \in Slots
        BY <2>2, <3>2 DEF FreeSlots, Handlers
      <4>2. slots' \in [Slots -> Handlers \cup {NoOne}] /\ handle' \in [Handlers -> Slots \cup {0}]
        BY <3>2, <4>1
      <4> QED
        BY <2>2, <4>2 DEF WRegister, WGoto, Workers, WaitPc
    <3> QED
      BY <2>2, <3>1, <3>2 DEF WRegister, Register
  <2>3. CASE WTrigger(w)
    BY <2>3 DEF WTrigger, WGoto, Workers, WaitPc
  <2>4. CASE WGot(w)
    BY <2>4 DEF WGot, WGoto, Workers, WaitPc
  <2>5. CASE WGiveUp(w)
    BY <2>5 DEF WGiveUp, WGoto, Workers, WaitPc
  <2>6. CASE WUnregister(w)
    BY <2>6 DEF WUnregister, WGoto, Unregister, Workers, WaitPc
  <2>7. CASE WFree(w)
    BY <2>7 DEF WFree, WGoto, Workers, WaitPc
  <2> QED BY <1>3, <2>1, <2>2, <2>3, <2>4, <2>5, <2>6, <2>7 DEF Waiter
<1>4. ASSUME NEW p \in Pausers, PBegin(p) \/ Pauser(p) \/ PReceive(p) PROVE TypeOK'
  <2>1. CASE PBegin(p)
    BY <2>1 DEF PBegin, WGoto, Workers, WaitPc
  <2>2. CASE PPause(p)
    <3>1. pauseCount' \in Nat
      BY <2>2 DEF PPause
    <3>2. wpc' \in [Workers -> {"idle", "pause", "kick", "await", "own", "resume", "read"}
                             \cup WaitPc]
      BY <2>2 DEF PPause, WGoto, Workers
    <3>3. gotAck' \in [Pausers -> BOOLEAN] /\ acked' \in BOOLEAN
      BY <2>2 DEF PPause, WGoto
    <3> QED
      BY <2>2, <3>1, <3>2, <3>3 DEF PPause
  <2>3. CASE PKick(p)
    BY <2>3 DEF PKick, WGoto, Workers, WaitPc
  <2>4. CASE PReturn(p)
    BY <2>4 DEF PReturn, Workers, WaitPc
  <2>5. CASE PReceive(p)
    <3>1. rxq' \in Seq(Frame) /\ rxbuf' \in Frame \cup {NoOne} /\ dframe' \in Frame \cup {NoOne}
      BY <2>5 DEF PReceive, ReceiveDirect, ReceivePacket
    <3> QED
      BY <2>5, <3>1 DEF PReceive, ReceiveDirect
  <2>6. CASE PResume(p)
    <3>1. pauseCount' \in Nat
      BY <2>6 DEF PResume
    <3>2. wpc' \in [Workers -> {"idle", "pause", "kick", "await", "own", "resume", "read"}
                             \cup WaitPc]
      BY <2>6 DEF PResume, Workers
    <3>3. gotAck' \in [Pausers -> BOOLEAN] /\ acked' \in BOOLEAN
      BY <2>6 DEF PResume
    <3> QED
      BY <2>6, <3>1, <3>2, <3>3 DEF PResume
  <2>7. CASE PResumeKick(p)
    BY <2>7 DEF PResumeKick, WGoto, Workers, WaitPc
  <2> QED BY <1>4, <2>1, <2>2, <2>3, <2>4, <2>5, <2>6, <2>7 DEF Pauser
<1>5. ASSUME NEW r \in Readers, RBegin(r) \/ RReceive(r) \/ REnd(r) PROVE TypeOK'
  <2>1. CASE RBegin(r)
    BY <2>1 DEF RBegin, WGoto, Workers, WaitPc
  <2>2. CASE RReceive(r)
    <3>1. rxq' \in Seq(Frame) /\ rxbuf' \in Frame \cup {NoOne} /\ dframe' \in Frame \cup {NoOne}
      BY <2>2 DEF RReceive, ReceiveDirect, ReceivePacket
    <3> QED
      BY <2>2, <3>1 DEF RReceive, ReceiveDirect
  <2>3. CASE REnd(r)
    BY <2>3 DEF REnd, WGoto, Workers, WaitPc
  <2> QED BY <1>5, <2>1, <2>2, <2>3
<1>6. CASE Startup
  <2>1. CASE MInit
    BY <2>1 DEF MInit
  <2>2. CASE MInstallIsr
    BY <2>2 DEF MInstallIsr
  <2>3. ASSUME NEW a \in AutoReplies, MRegister(a) PROVE TypeOK'
    <3>1. CASE FreeSlots = {}
      <4>1. handle' \in [Handlers -> Slots \cup {0}] /\ slots' = slots
        BY <2>3, <3>1 DEF MRegister, Register, Handlers
      <4> QED
        BY <2>3, <3>1, <4>1 DEF MRegister, Workers, WaitPc
    <3>2. ASSUME NEW i \in FreeSlots,
                 slots' = [slots EXCEPT ![i] = a], handle' = [handle EXCEPT ![a] = i]
          PROVE  TypeOK'
      <4>1. a \in Handlers /\ i \in Slots
        BY <2>3, <3>2 DEF FreeSlots, Handlers
      <4>2. slots' \in [Slots -> Handlers \cup {NoOne}] /\ handle' \in [Handlers -> Slots \cup {0}]
        BY <3>2, <4>1
      <4> QED
        BY <2>3, <4>2 DEF MRegister, Workers, WaitPc
    <3> QED
      BY <2>3, <3>1, <3>2 DEF MRegister, Register
  <2>4. CASE MRun
    BY <2>4 DEF MRun
  <2> QED BY <1>6, <2>1, <2>2, <2>3, <2>4 DEF Startup
<1>7. CASE MShutdown \/ Teardown
  <2>1. CASE MShutdown
    BY <2>1 DEF MShutdown
  <2>2. CASE MJoin
    BY <2>2 DEF MJoin
  <2>3. ASSUME NEW a \in AutoReplies, MUnregister(a) PROVE TypeOK'
    BY <2>3 DEF MUnregister, Unregister
  <2>4. CASE MRemoveIsr
    <3>1. isr' \in BOOLEAN
      BY <2>4 DEF MRemoveIsr
    <3>2. /\ mpc' = "stop"
          /\ UNCHANGED <<chipVars, flag, ctlVars, regVars, dispVars, waitVars, workerVars>>
      BY <2>4 DEF MRemoveIsr
    <3> QED BY <3>1, <3>2
  <2>5. CASE MStop
    <3>1. running' \in BOOLEAN
      BY <2>5 DEF MStop
    <3>2. /\ mpc' = "kick"
          /\ UNCHANGED <<chipVars, wakeVars, pauseCount, acked, regVars, dispVars, waitVars, workerVars>>
      BY <2>5 DEF MStop
    <3> QED BY <3>1, <3>2
  <2>6. CASE MKick
    BY <2>6 DEF MKick
  <2>7. CASE MReap
    BY <2>7 DEF MReap
  <2> QED BY <1>7, <2>1, <2>2, <2>3, <2>4, <2>5, <2>6, <2>7 DEF Teardown
<1>8. CASE UNCHANGED vars
  BY <1>8 DEF vars
<1> QED BY <1>1, <1>2, <1>3, <1>4, <1>5, <1>6, <1>7, <1>8 DEF Next, Terminated

(* The mutex is held exactly while the dispatcher is at the slots, and the   *)
(* handler it calls is still in its slot when it calls it.                   *)
LEMMA CallStep ==
    ASSUME TypeOK, LockInv, CallInv, BootInv, [Next]_vars
    PROVE  LockInv' /\ CallInv'
<1>t. /\ slots \in [Slots -> Handlers \cup {NoOne}] /\ NoOne \notin Handlers
      /\ dslot \in Slots \/ dslot = MaxSlots + 1
      /\ \A i \in Slots : i # 0 /\ i <= MaxSlots
      /\ ~(MaxSlots + 1 <= MaxSlots)
  BY BoundsAreNat, NoOneIsFresh DEF TypeOK, Slots
<1> USE DEF LockInv, CallInv, Locked, chipVars, wakeVars, ctlVars, regVars, dispVars, waitVars, workerVars
<1>1. ASSUME NEW f \in Frame, FrameArrives(f) PROVE LockInv' /\ CallInv'
  BY <1>1 DEF FrameArrives
<1>2. CASE Dispatcher
  <2>1. CASE DLoop
    BY <2>1 DEF DLoop, DGoto
  <2>2. CASE DWake
    BY <2>2 DEF DWake, DGoto
  <2>3. CASE DFallback
    BY <2>3 DEF DFallback, DGoto
  <2>4. CASE DWoke
    BY <2>4 DEF DWoke, DGoto
  <2>5. CASE DCheckPause
    BY <2>5 DEF DCheckPause, DGoto
  <2>6. CASE DAck
    BY <2>6 DEF DAck, DGoto
  <2>7. CASE DUnack
    BY <2>7 DEF DUnack, DGoto
  <2>8. CASE DDrain
    BY <2>8 DEF DDrain, DGoto
  <2>9. CASE DReceive
    BY <2>9 DEF DReceive, DGoto, ReceivePacket
  <2>10. CASE DLock
    BY <2>10 DEF DLock
  <2>11. CASE DPredicate
    BY <2>11, <1>t DEF DPredicate
  <2>12. CASE DHandler
    BY <2>12, <1>t DEF DHandler
  <2>13. CASE DUnlock
    BY <2>13 DEF DUnlock
  <2> QED BY <1>2, <2>1, <2>2, <2>3, <2>4, <2>5, <2>6, <2>7, <2>8, <2>9, <2>10, <2>11,
             <2>12, <2>13 DEF Dispatcher
<1>3. ASSUME NEW w \in Waiters, WBegin(w) \/ Waiter(w) PROVE LockInv' /\ CallInv'
  <2>1. CASE WBegin(w)
    BY <2>1 DEF WBegin, WGoto
  <2>2. CASE WRegister(w)
    BY <2>2, <1>t DEF WRegister, WGoto, Register, FreeSlots, Slots
  <2>3. CASE WTrigger(w)
    BY <2>3 DEF WTrigger, WGoto
  <2>4. CASE WGot(w)
    BY <2>4 DEF WGot, WGoto
  <2>5. CASE WGiveUp(w)
    BY <2>5 DEF WGiveUp, WGoto
  <2>6. CASE WUnregister(w)
    BY <2>6, <1>t DEF WUnregister, WGoto, Unregister, Slots
  <2>7. CASE WFree(w)
    BY <2>7 DEF WFree, WGoto
  <2> QED BY <1>3, <2>1, <2>2, <2>3, <2>4, <2>5, <2>6, <2>7 DEF Waiter
<1>4. ASSUME NEW p \in Pausers, PBegin(p) \/ Pauser(p) \/ PReceive(p) PROVE LockInv' /\ CallInv'
  <2>1. CASE PBegin(p)
    BY <2>1 DEF PBegin, WGoto
  <2>2. CASE PPause(p)
    BY <2>2 DEF PPause, WGoto
  <2>3. CASE PKick(p)
    BY <2>3 DEF PKick, WGoto
  <2>4. CASE PReturn(p)
    BY <2>4 DEF PReturn
  <2>5. CASE PReceive(p)
    BY <2>5 DEF PReceive, ReceiveDirect
  <2>6. CASE PResume(p)
    BY <2>6 DEF PResume
  <2>7. CASE PResumeKick(p)
    BY <2>7 DEF PResumeKick, WGoto
  <2> QED BY <1>4, <2>1, <2>2, <2>3, <2>4, <2>5, <2>6, <2>7 DEF Pauser
<1>5. ASSUME NEW r \in Readers, RBegin(r) \/ RReceive(r) \/ REnd(r) PROVE LockInv' /\ CallInv'
  <2>1. CASE RBegin(r)
    BY <2>1 DEF RBegin, WGoto
  <2>2. CASE RReceive(r)
    BY <2>2 DEF RReceive, ReceiveDirect
  <2>3. CASE REnd(r)
    BY <2>3 DEF REnd, WGoto
  <2> QED BY <1>5, <2>1, <2>2, <2>3
<1>6. CASE Startup
  <2>1. CASE MInit
    BY <2>1 DEF MInit, BootInv
  <2>2. CASE MInstallIsr
    BY <2>2 DEF MInstallIsr
  <2>3. ASSUME NEW a \in AutoReplies, MRegister(a) PROVE LockInv' /\ CallInv'
    BY <2>3, <1>t DEF MRegister, Register, FreeSlots, Registered
  <2>4. CASE MRun
    BY <2>4 DEF MRun
  <2> QED BY <1>6, <2>1, <2>2, <2>3, <2>4 DEF Startup
<1>7. CASE MShutdown \/ Teardown
  <2>1. CASE MShutdown
    BY <2>1 DEF MShutdown
  <2>2. CASE MJoin
    BY <2>2 DEF MJoin
  <2>3. ASSUME NEW a \in AutoReplies, MUnregister(a) PROVE LockInv' /\ CallInv'
    BY <2>3, <1>t DEF MUnregister, Unregister, Registered, Slots
  <2>4. CASE MRemoveIsr
    BY <2>4 DEF MRemoveIsr
  <2>5. CASE MStop
    BY <2>5 DEF MStop
  <2>6. CASE MKick
    BY <2>6 DEF MKick
  <2>7. CASE MReap
    BY <2>7 DEF MReap
  <2> QED BY <1>7, <2>1, <2>2, <2>3, <2>4, <2>5, <2>6, <2>7 DEF Teardown
<1>8. CASE UNCHANGED vars
  BY <1>8 DEF vars
<1> QED BY <1>1, <1>2, <1>3, <1>4, <1>5, <1>6, <1>7, <1>8 DEF Next, Terminated

(* The registry, the handles and the semaphores stay in step.               *)
LEMMA RegistryStep ==
    ASSUME TypeOK, RegistryExact, HandleInv, SemInv, [Next]_vars
    PROVE  RegistryExact' /\ HandleInv' /\ SemInv'
<1>t. /\ slots \in [Slots -> Handlers \cup {NoOne}] /\ NoOne \notin Handlers
      /\ handle \in [Handlers -> Slots \cup {0}] /\ 0 \notin Slots
      /\ wpc \in [Workers -> {"idle", "pause", "kick", "await", "own", "resume", "read"}
                            \cup WaitPc]
      /\ sem \in [Waiters -> {"freed", "empty", "token"}]
      /\ \A w \in Waiters : w \in Workers /\ w \notin Pausers /\ w \notin Readers
                                        /\ w \notin AutoReplies
      /\ \A p \in Pausers \cup Readers : p \in Workers
  BY BoundsAreNat, NoOneIsFresh, ClientsDisjoint DEF TypeOK, Slots, Workers
<1> USE DEF RegistryExact, HandleInv, SemInv, WaitPc, chipVars, wakeVars, ctlVars, regVars, dispVars, waitVars, workerVars
<1>1. ASSUME NEW f \in Frame, FrameArrives(f) PROVE RegistryExact' /\ HandleInv' /\ SemInv'
  BY <1>1 DEF FrameArrives
<1>2. CASE Dispatcher
  <2>1. CASE DLoop
    BY <2>1 DEF DLoop, DGoto
  <2>2. CASE DWake
    BY <2>2 DEF DWake, DGoto
  <2>3. CASE DFallback
    BY <2>3 DEF DFallback, DGoto
  <2>4. CASE DWoke
    BY <2>4 DEF DWoke, DGoto
  <2>5. CASE DCheckPause
    BY <2>5 DEF DCheckPause, DGoto
  <2>6. CASE DAck
    BY <2>6 DEF DAck, DGoto
  <2>7. CASE DUnack
    BY <2>7 DEF DUnack, DGoto
  <2>8. CASE DDrain
    BY <2>8 DEF DDrain, DGoto
  <2>9. CASE DReceive
    BY <2>9 DEF DReceive, DGoto, ReceivePacket
  <2>10. CASE DLock
    BY <2>10 DEF DLock
  <2>11. CASE DPredicate
    BY <2>11 DEF DPredicate
  <2>12. CASE DHandler
    BY <2>12, <1>t DEF DHandler
  <2>13. CASE DUnlock
    BY <2>13 DEF DUnlock
  <2> QED BY <1>2, <2>1, <2>2, <2>3, <2>4, <2>5, <2>6, <2>7, <2>8, <2>9, <2>10, <2>11,
             <2>12, <2>13 DEF Dispatcher
<1>3. ASSUME NEW w \in Waiters, WBegin(w) \/ Waiter(w) PROVE RegistryExact' /\ HandleInv' /\ SemInv'
  <2>1. CASE WBegin(w)
    <3>1. wpc[w] = "idle" /\ handle' = handle /\ slots' = slots
      BY <2>1 DEF WBegin, CanStart
    <3>2. \A w0 \in Waiters : /\ wpc'[w0] = IF w0 = w THEN "register" ELSE wpc[w0]
                              /\ sem'[w0] = IF w0 = w THEN "empty" ELSE sem[w0]
      BY <2>1, <1>t DEF WBegin, WGoto
    <3> QED
      BY <3>1, <3>2
  <2>2. CASE WRegister(w)
    <3>0. \A h \in Handlers : h # w => [handle EXCEPT ![w] = 0][h] = handle[h]
      BY <1>t
    <3>1. CASE FreeSlots = {}
      <4>1. handle' = [handle EXCEPT ![w] = 0] /\ slots' = slots /\ sem' = sem
        BY <2>2, <3>1 DEF WRegister, Register, FreeSlots
      <4>2. \A w0 \in Waiters : w0 # w => handle'[w0] = handle[w0] /\ wpc'[w0] = wpc[w0]
        BY <2>2, <1>t, <4>1, <3>0 DEF WRegister, WGoto, Handlers
      <4>3. \A a0 \in AutoReplies : a0 # w => handle'[a0] = handle[a0]
        BY <1>t, <4>1, <3>0 DEF Handlers
      <4>4. handle'[w] = 0
        BY <2>2, <1>t, <4>1 DEF Handlers
      <4> QED
        BY <2>2, <1>t, <3>1, <4>1, <4>2, <4>3, <4>4 DEF WRegister, WGoto, FreeSlots, Registered
    <3>2. ASSUME NEW i \in FreeSlots,
                 slots' = [slots EXCEPT ![i] = w], handle' = [handle EXCEPT ![w] = i]
          PROVE  RegistryExact' /\ HandleInv' /\ SemInv'
      <4>1. w \in Handlers /\ i \in Slots /\ slots[i] = NoOne
        BY <2>2, <3>2 DEF FreeSlots, Handlers
      <4>2. \A j \in Slots : slots'[j] = IF j = i THEN w ELSE slots[j]
        BY <1>t, <3>2, <4>1
      <4>3. \A h \in Handlers : handle'[h] = IF h = w THEN i ELSE handle[h]
        BY <1>t, <3>2, <4>1
      <4>4. \A w0 \in Waiters : w0 \in Handlers /\ w0 \in Workers
        BY DEF Handlers, Workers
      <4> QED
        BY <2>2, <1>t, <4>1, <4>2, <4>3, <4>4 DEF WRegister, WGoto, Handlers, Registered
    <3> QED
      BY <2>2, <3>1, <3>2 DEF WRegister, Register
  <2>3. CASE WTrigger(w)
    BY <2>3, <1>t DEF WTrigger, WGoto
  <2>4. CASE WGot(w)
    BY <2>4, <1>t DEF WGot, WGoto
  <2>5. CASE WGiveUp(w)
    BY <2>5, <1>t DEF WGiveUp, WGoto
  <2>6. CASE WUnregister(w)
    <3>1. handle[w] \in Slots /\ slots[handle[w]] = w
      BY <2>6, <1>t DEF WUnregister, Registered, Handlers
    <3>2. \A i \in Slots : slots'[i] = IF i = handle[w] THEN NoOne ELSE slots[i]
      BY <2>6 DEF WUnregister, Unregister
    <3>3. \A w0 \in Waiters : wpc'[w0] = IF w0 = w THEN "free" ELSE wpc[w0]
      BY <2>6, <1>t DEF WUnregister, WGoto
    <3> QED
      BY <2>6, <1>t, <3>1, <3>2, <3>3 DEF WUnregister, Handlers
  <2>7. CASE WFree(w)
    BY <2>7, <1>t DEF WFree, WGoto
  <2> QED BY <1>3, <2>1, <2>2, <2>3, <2>4, <2>5, <2>6, <2>7 DEF Waiter
<1>4. ASSUME NEW p \in Pausers, PBegin(p) \/ Pauser(p) \/ PReceive(p) PROVE RegistryExact' /\ HandleInv' /\ SemInv'
  <2>1. CASE PBegin(p)
    BY <2>1, <1>t DEF PBegin, WGoto
  <2>2. CASE PPause(p)
    BY <2>2, <1>t DEF PPause, WGoto
  <2>3. CASE PKick(p)
    BY <2>3, <1>t DEF PKick, WGoto
  <2>4. CASE PReturn(p)
    BY <2>4, <1>t DEF PReturn
  <2>5. CASE PReceive(p)
    BY <2>5 DEF PReceive, ReceiveDirect
  <2>6. CASE PResume(p)
    BY <2>6, <1>t DEF PResume
  <2>7. CASE PResumeKick(p)
    BY <2>7, <1>t DEF PResumeKick, WGoto
  <2> QED BY <1>4, <2>1, <2>2, <2>3, <2>4, <2>5, <2>6, <2>7 DEF Pauser
<1>5. ASSUME NEW r \in Readers, RBegin(r) \/ RReceive(r) \/ REnd(r) PROVE RegistryExact' /\ HandleInv' /\ SemInv'
  <2>1. CASE RBegin(r)
    BY <2>1, <1>t DEF RBegin, WGoto
  <2>2. CASE RReceive(r)
    BY <2>2 DEF RReceive, ReceiveDirect
  <2>3. CASE REnd(r)
    BY <2>3, <1>t DEF REnd, WGoto
  <2> QED BY <1>5, <2>1, <2>2, <2>3
<1>6. CASE Startup
  <2>1. CASE MInit
    BY <2>1 DEF MInit
  <2>2. CASE MInstallIsr
    BY <2>2 DEF MInstallIsr
  <2>3. ASSUME NEW a \in AutoReplies, MRegister(a) PROVE RegistryExact' /\ HandleInv' /\ SemInv'
    <3>0. \A h \in Handlers : h # a => [handle EXCEPT ![a] = 0][h] = handle[h]
      BY <1>t
    <3>1. CASE FreeSlots = {}
      <4>1. handle' = [handle EXCEPT ![a] = 0] /\ slots' = slots /\ sem' = sem
        BY <2>3, <3>1 DEF MRegister, Register, FreeSlots
      <4>2. \A w0 \in Waiters : w0 # a => handle'[w0] = handle[w0] /\ wpc'[w0] = wpc[w0]
        BY <2>3, <1>t, <4>1, <3>0 DEF MRegister, Handlers
      <4>3. \A a0 \in AutoReplies : a0 # a => handle'[a0] = handle[a0]
        BY <1>t, <4>1, <3>0 DEF Handlers
      <4>4. handle'[a] = 0
        BY <2>3, <1>t, <4>1 DEF Handlers
      <4> QED
        BY <2>3, <1>t, <3>1, <4>1, <4>2, <4>3, <4>4 DEF MRegister, FreeSlots, Registered
    <3>2. ASSUME NEW i \in FreeSlots,
                 slots' = [slots EXCEPT ![i] = a], handle' = [handle EXCEPT ![a] = i]
          PROVE  RegistryExact' /\ HandleInv' /\ SemInv'
      <4>1. a \in Handlers /\ i \in Slots /\ slots[i] = NoOne
        BY <2>3, <3>2 DEF FreeSlots, Handlers
      <4>2. \A j \in Slots : slots'[j] = IF j = i THEN a ELSE slots[j]
        BY <1>t, <3>2, <4>1
      <4>3. \A h \in Handlers : handle'[h] = IF h = a THEN i ELSE handle[h]
        BY <1>t, <3>2, <4>1
      <4>4. \A w0 \in Waiters : w0 \in Handlers /\ w0 \in Workers
        BY DEF Handlers, Workers
      <4> QED
        BY <2>3, <1>t, <4>1, <4>2, <4>3, <4>4 DEF MRegister, Handlers, Registered
    <3> QED
      BY <2>3, <3>1, <3>2 DEF MRegister, Register
  <2>4. CASE MRun
    BY <2>4 DEF MRun
  <2> QED BY <1>6, <2>1, <2>2, <2>3, <2>4 DEF Startup
<1>7. CASE MShutdown \/ Teardown
  <2>1. CASE MShutdown
    BY <2>1 DEF MShutdown
  <2>2. CASE MJoin
    BY <2>2 DEF MJoin
  <2>3. ASSUME NEW a \in AutoReplies, MUnregister(a) PROVE RegistryExact' /\ HandleInv' /\ SemInv'
    <3>1. handle[a] \in Slots /\ slots[handle[a]] = a
      BY <2>3, <1>t DEF MUnregister, Registered, Handlers
    <3>2. \A i \in Slots : slots'[i] = IF i = handle[a] THEN NoOne ELSE slots[i]
      BY <2>3 DEF MUnregister, Unregister
    <3>3. wpc' = wpc
      BY <2>3, <1>t DEF MUnregister, WGoto
    <3> QED
      BY <2>3, <1>t, <3>1, <3>2, <3>3 DEF MUnregister, Handlers
  <2>4. CASE MRemoveIsr
    BY <2>4 DEF MRemoveIsr
  <2>5. CASE MStop
    BY <2>5 DEF MStop
  <2>6. CASE MKick
    BY <2>6 DEF MKick
  <2>7. CASE MReap
    BY <2>7 DEF MReap
  <2> QED BY <1>7, <2>1, <2>2, <2>3, <2>4, <2>5, <2>6, <2>7 DEF Teardown
<1>8. CASE UNCHANGED vars
  BY <1>8 DEF vars
<1> QED BY <1>1, <1>2, <1>3, <1>4, <1>5, <1>6, <1>7, <1>8 DEF Next, Terminated

(* The auto-replies are in the registry only between app_alloc and app_free, *)
(* and the dispatcher does not run before rx_dispatch_init.                  *)
LEMMA AutoStep ==
    ASSUME TypeOK, AutoInv, BootInv, [Next]_vars
    PROVE  AutoInv' /\ BootInv'
<1>t. /\ slots \in [Slots -> Handlers \cup {NoOne}]
      /\ NoOne \notin AutoReplies
      /\ \A w \in Waiters : w \notin AutoReplies
  BY NoOneIsFresh, ClientsDisjoint DEF TypeOK, Handlers, Workers
<1>s. slots' = slots /\ mpc' = mpc /\ (dpc' = dpc \/ dpc # "off") => AutoInv' /\ BootInv'
  BY DEF AutoInv, BootInv
<1> USE DEF chipVars, wakeVars, ctlVars, regVars, dispVars, waitVars, workerVars
<1>1. ASSUME NEW f \in Frame, FrameArrives(f) PROVE AutoInv' /\ BootInv'
  BY <1>1, <1>s DEF FrameArrives
<1>2. CASE Dispatcher
  <2>1. CASE DLoop \/ DWake \/ DFallback \/ DWoke \/ DCheckPause \/ DAck \/ DUnack
    BY <2>1, <1>s DEF DLoop, DWake, DFallback, DWoke, DCheckPause, DAck, DUnack, DGoto
  <2>2. CASE DDrain \/ DReceive \/ DLock \/ DPredicate \/ DHandler \/ DUnlock
    BY <2>2, <1>s DEF DDrain, DReceive, DLock, DPredicate, DHandler, DUnlock, DGoto
  <2> QED BY <1>2, <2>1, <2>2 DEF Dispatcher
<1>3. ASSUME NEW w \in Waiters, WBegin(w) \/ Waiter(w) PROVE AutoInv' /\ BootInv'
  <2>1. CASE WBegin(w) \/ WTrigger(w) \/ WGot(w) \/ WGiveUp(w) \/ WFree(w)
    BY <2>1, <1>s DEF WBegin, WTrigger, WGot, WGiveUp, WFree
  <2>2. CASE WRegister(w)
    <3>1. mpc' = mpc /\ dpc' = dpc
      BY <2>2 DEF WRegister
    <3>2. \A i \in Slots : slots'[i] = slots[i] \/ slots'[i] = w
      BY <2>2, <1>t DEF WRegister, Register, FreeSlots
    <3> QED
      BY <3>1, <3>2, <1>t DEF AutoInv, BootInv
  <2>3. CASE WUnregister(w)
    <3>1. mpc' = mpc /\ dpc' = dpc /\ \A i \in Slots : slots'[i] \in {slots[i], NoOne}
      BY <2>3 DEF WUnregister, Unregister
    <3> QED
      BY <3>1, <1>t DEF AutoInv, BootInv
  <2> QED BY <1>3, <2>1, <2>2, <2>3 DEF Waiter
<1>4. ASSUME NEW p \in Pausers, PBegin(p) \/ Pauser(p) \/ PReceive(p) PROVE AutoInv' /\ BootInv'
  BY <1>4, <1>s DEF Pauser, PBegin, PPause, PKick, PReturn, PReceive, ReceiveDirect, PResume, PResumeKick
<1>5. ASSUME NEW r \in Readers, RBegin(r) \/ RReceive(r) \/ REnd(r) PROVE AutoInv' /\ BootInv'
  BY <1>5, <1>s DEF RBegin, RReceive, ReceiveDirect, REnd
<1>6. CASE Startup
  <2>1. CASE MInit
    BY <2>1 DEF MInit, AutoInv, BootInv
  <2>2. CASE MInstallIsr \/ MRun
    BY <2>2 DEF MInstallIsr, MRun, AutoInv, BootInv
  <2>3. ASSUME NEW a \in AutoReplies, MRegister(a) PROVE AutoInv' /\ BootInv'
    BY <2>3 DEF MRegister, AutoInv, BootInv
  <2> QED BY <1>6, <2>1, <2>2, <2>3 DEF Startup
<1>7. CASE MShutdown \/ Teardown
  <2>1. CASE MShutdown \/ MJoin
    BY <2>1 DEF MShutdown, MJoin, AutoInv, BootInv
  <2>2. ASSUME NEW a \in AutoReplies, MUnregister(a) PROVE AutoInv' /\ BootInv'
    BY <2>2 DEF MUnregister, AutoInv, BootInv
  <2>3. CASE MRemoveIsr
    BY <2>3 DEF MRemoveIsr, AutoInv, BootInv, Registered
  <2>4. CASE MStop \/ MKick \/ MReap
    BY <2>4 DEF MStop, MKick, MReap, AutoInv, BootInv
  <2> QED BY <1>7, <2>1, <2>2, <2>3, <2>4 DEF Teardown
<1>8. CASE UNCHANGED vars
  BY <1>8, <1>s DEF vars
<1> QED BY <1>1, <1>2, <1>3, <1>4, <1>5, <1>6, <1>7, <1>8 DEF Next, Terminated

(* The strengthened invariant holds when app_alloc starts.                   *)
LEMMA RegistryInit == Init => RegistryInv
<1> SUFFICES ASSUME Init PROVE RegistryInv
  OBVIOUS
<1>1. TypeOK
  <2>1. rxq \in Seq(Frame) /\ dslot \in 1 .. (MaxSlots + 1)
    BY BoundsAreNat DEF Init
  <2>2. /\ wpc \in [Workers -> {"idle", "pause", "kick", "await", "own", "resume", "read"}
                              \cup WaitPc]
        /\ sem \in [Waiters -> {"freed", "empty", "token"}]
        /\ matched \in [Waiters -> BOOLEAN]
        /\ asked \in [Waiters -> BOOLEAN] /\ offered \in [Waiters -> BOOLEAN]
        /\ gotAck \in [Pausers -> BOOLEAN]
    BY DEF Init
  <2>3. slots \in [Slots -> Handlers \cup {NoOne}] /\ handle \in [Handlers -> Slots \cup {0}]
    BY DEF Init
  <2> QED
    BY <2>1, <2>2, <2>3 DEF Init, TypeOK
<1>2. LockInv /\ CallInv /\ BootInv
  BY DEF Init, LockInv, CallInv, BootInv, Locked
<1>3. \A i \in Slots : slots[i] = NoOne /\ NoOne \notin Handlers
  BY NoOneIsFresh DEF Init
<1>4. \A w \in Waiters : wpc[w] = "idle"
  BY DEF Init, Workers
<1>5. RegistryExact /\ HandleInv /\ SemInv /\ AutoInv
  BY <1>3, <1>4 DEF RegistryExact, HandleInv, SemInv, AutoInv, WaitPc, Handlers
<1> QED
  BY <1>1, <1>2, <1>5 DEF RegistryInv

(* The registry, the handles, the semaphores, the mutex and the dispatcher   *)
(* agree in every reachable state: no rx_unregister clears the slot of       *)
(* another client and none is left behind (rx_dispatch.c, rx_register and    *)
(* rx_unregister under the dispatch mutex).                                  *)
THEOREM RegistryCorrect == Spec => []RegistryInv
<1>1. RegistryInv /\ [Next]_vars => RegistryInv'
  <2> SUFFICES ASSUME RegistryInv, [Next]_vars PROVE RegistryInv'
    OBVIOUS
  <2>1. /\ TypeOK /\ LockInv /\ CallInv /\ RegistryExact
        /\ HandleInv /\ SemInv /\ AutoInv /\ BootInv
    BY DEF RegistryInv
  <2>2. TypeOK'
    BY <2>1, TypeStep
  <2>3. LockInv' /\ CallInv'
    BY <2>1, CallStep
  <2>4. RegistryExact' /\ HandleInv' /\ SemInv'
    BY <2>1, RegistryStep
  <2>5. AutoInv' /\ BootInv'
    BY <2>1, AutoStep
  <2> QED
    BY <2>2, <2>3, <2>4, <2>5 DEF RegistryInv
<1> QED
  BY RegistryInit, <1>1, PTL DEF Spec

(* Every variable keeps its type, the loop of the dispatcher over the slots  *)
(* stays inside the registry, and the pause counter never goes below zero.   *)
THEOREM TypeCorrect == Spec => []TypeOK
<1>1. RegistryInv => TypeOK
  BY DEF RegistryInv
<1> QED
  BY <1>1, RegistryCorrect, PTL

(* No handler runs on the stack frame of a wait that has returned, nor on an *)
(* App that has been freed, whatever the interleaving of the dispatcher, the *)
(* workers and the GUI thread, and for any number of them.                   *)
THEOREM ContextsAlive == Spec => []CtxAlive
<1>1. RegistryInv => CtxAlive
  <2> SUFFICES ASSUME RegistryInv PROVE CtxAlive
    OBVIOUS
  <2>1. slots \in [Slots -> Handlers \cup {NoOne}]
    BY DEF RegistryInv, TypeOK
  <2>2. ASSUME NEW i \in Slots, slots[i] # NoOne PROVE Alive(slots[i])
    <3>1. CASE slots[i] \in Waiters
      <4>1. wpc[slots[i]] \in {"trigger", "wait", "unregister"}
        BY <3>1 DEF RegistryInv, RegistryExact
      <4> QED
        BY <3>1, <4>1 DEF RegistryInv, SemInv, WaitPc, Alive
    <3>2. CASE slots[i] \notin Waiters
      <4>1. slots[i] \in AutoReplies
        BY <2>1, <2>2, <3>2 DEF Handlers
      <4> QED
        BY <3>2, <4>1 DEF RegistryInv, AutoInv, Alive
    <3> QED BY <3>1, <3>2
  <2>3. dctx # NoOne => dslot \in Slots /\ dctx = slots[dslot]
    BY DEF RegistryInv, CallInv
  <2> QED
    BY <2>2, <2>3 DEF CtxAlive
<1> QED
  BY <1>1, RegistryCorrect, PTL

(* What a step that leaves the owners of pauses alone may do.               *)
LEMMA PauseKept ==
    ASSUME PauseInv, PauseOwners' = PauseOwners, pauseCount' = pauseCount,
           gotAck' = gotAck,
           \A p \in Pausers : wpc'[p] = "own" => wpc[p] = "own",
           acked' => acked,
           dpc \in DispIdle /\ (pauseCount > 0) => dpc' \in DispIdle,
           \A p \in Pausers : wpc[p] = "own" => pauseCount > 0
    PROVE  PauseInv'
BY DEF PauseInv, AckedPauseExcludes

(* The pause counter counts the owners, and an acknowledged pause excludes   *)
(* the dispatcher: every step keeps it so.                                   *)
LEMMA PauseStep ==
    ASSUME TypeOK, PauseInv, [Next]_vars
    PROVE  PauseInv'
<1>t. /\ wpc \in [Workers -> {"idle", "pause", "kick", "await", "own", "resume", "read"}
                            \cup WaitPc]
      /\ gotAck \in [Pausers -> BOOLEAN] /\ pauseCount \in Nat
      /\ \A p \in Pausers : p \in Workers /\ p \notin Waiters /\ p \notin Readers
  BY ClientsDisjoint DEF TypeOK, Workers
<1>f. IsFiniteSet(PauseOwners) /\ Cardinality(PauseOwners) \in Nat
  BY PausersFinite, FS_Subset, FS_CardinalityType DEF PauseOwners
<1>o. \A p \in Pausers : wpc[p] = "own" => pauseCount > 0
  <2> SUFFICES ASSUME NEW p \in Pausers, wpc[p] = "own" PROVE pauseCount > 0
    OBVIOUS
  <2>1. PauseOwners # {}
    BY DEF PauseOwners
  <2>2. Cardinality(PauseOwners) # 0
    BY <2>1, <1>f, FS_EmptySet
  <2> QED
    BY <2>2, <1>f DEF PauseInv
<1>k. (\A p \in Pausers : wpc'[p] = wpc[p]) => PauseOwners' = PauseOwners
  BY DEF PauseOwners
<1> USE DEF chipVars, wakeVars, ctlVars, regVars, dispVars, waitVars, workerVars
<1>1. ASSUME NEW f \in Frame, FrameArrives(f) PROVE PauseInv'
  BY <1>1, <1>k, <1>o, PauseKept DEF FrameArrives
<1>2. CASE Dispatcher
  <2>k. wpc' = wpc /\ gotAck' = gotAck /\ pauseCount' = pauseCount
    <3>1. CASE DLoop \/ DWake \/ DFallback \/ DWoke \/ DCheckPause \/ DAck \/ DUnack
      BY <3>1 DEF DLoop, DWake, DFallback, DWoke, DCheckPause, DAck, DUnack
    <3>2. CASE DDrain \/ DReceive \/ DLock \/ DPredicate \/ DHandler \/ DUnlock
      BY <3>2 DEF DDrain, DReceive, DLock, DPredicate, DHandler, DUnlock
    <3> QED BY <1>2, <3>1, <3>2 DEF Dispatcher
  <2>1. CASE DAck
    <3>1. dpc' = "loop"
      BY <2>1 DEF DAck, DGoto
    <3> QED
      BY <2>k, <3>1, <1>k DEF PauseInv, AckedPauseExcludes, DispIdle
  <2>2. CASE DUnack
    <3>1. ~acked' /\ dpc = "unack"
      BY <2>2 DEF DUnack
    <3> QED
      BY <2>k, <3>1, <1>k, <1>o DEF PauseInv, AckedPauseExcludes, DispIdle
  <2>3. CASE ~DAck /\ ~DUnack
    <3>1. acked' = acked
      BY <1>2, <2>3 DEF Dispatcher, DLoop, DWake, DFallback, DWoke, DCheckPause, DDrain,
                        DReceive, DLock, DPredicate, DHandler, DUnlock
    <3>2. dpc \in DispIdle /\ pauseCount > 0 => dpc' \in DispIdle
      BY <1>2, <2>3 DEF Dispatcher, DLoop, DWake, DFallback, DWoke, DCheckPause, DDrain,
                        DReceive, DLock, DPredicate, DHandler, DUnlock, DGoto, DispIdle
    <3> QED
      BY <2>k, <3>1, <3>2, <1>k, <1>o, PauseKept
  <2> QED BY <2>1, <2>2, <2>3
<1>3. ASSUME NEW w \in Waiters, WBegin(w) \/ Waiter(w) PROVE PauseInv'
  <2>1. pauseCount' = pauseCount /\ acked' = acked /\ dpc' = dpc /\ gotAck' = gotAck
    BY <1>3 DEF Waiter, WBegin, WRegister, WTrigger, WGot, WGiveUp, WUnregister, WFree, WGoto
  <2>2. \A p \in Pausers : wpc'[p] = wpc[p]
    BY <1>3, <1>t DEF Waiter, WBegin, WRegister, WTrigger, WGot, WGiveUp, WUnregister, WFree,
                      WGoto
  <2> QED
    BY <2>1, <2>2, <1>k, <1>o, PauseKept
<1>4. ASSUME NEW p \in Pausers, PBegin(p) \/ Pauser(p) \/ PReceive(p) PROVE PauseInv'
  <2>w. /\ dpc' = dpc
        /\ \A q \in Pausers : q # p => wpc'[q] = wpc[q] /\ gotAck'[q] = gotAck[q]
    BY <1>4, <1>t DEF Pauser, PBegin, PPause, PKick, PReturn, PReceive, ReceiveDirect,
                      PResume, PResumeKick, WGoto
  <2>1. CASE PBegin(p)
    <3>1. wpc[p] = "idle" /\ wpc'[p] = "pause" /\ gotAck' = gotAck
          /\ acked' = acked /\ pauseCount' = pauseCount
      BY <2>1, <2>w, <1>t DEF PBegin, CanStart, WGoto
    <3>2. PauseOwners' = PauseOwners
      BY <2>w, <3>1 DEF PauseOwners
    <3> QED
      BY <2>w, <3>1, <3>2, <1>o, PauseKept
  <2>2. CASE PPause(p)
    <3>1. wpc[p] = "pause" /\ wpc'[p] = "kick" /\ gotAck' = gotAck /\ ~acked'
          /\ pauseCount' = pauseCount + 1
      BY <2>2, <2>w, <1>t DEF PPause, WGoto
    <3>2. PauseOwners' = PauseOwners \cup {p} /\ p \notin PauseOwners
      BY <2>w, <3>1 DEF PauseOwners
    <3>3. Cardinality(PauseOwners') = Cardinality(PauseOwners) + 1
      BY <3>2, <1>f, FS_AddElement
    <3>4. pauseCount' = Cardinality(PauseOwners)'
      BY <3>1, <3>3 DEF PauseInv
    <3>5. AckedPauseExcludes'
      BY <2>w, <3>1 DEF PauseInv, AckedPauseExcludes
    <3> QED
      BY <3>1, <3>4, <3>5 DEF PauseInv
  <2>3. CASE PKick(p)
    <3>1. wpc[p] = "kick" /\ wpc'[p] = "await" /\ gotAck' = gotAck
          /\ acked' = acked /\ pauseCount' = pauseCount
      BY <2>3, <2>w, <1>t DEF PKick, WGoto
    <3>2. PauseOwners' = PauseOwners
      BY <2>w, <3>1 DEF PauseOwners
    <3> QED
      BY <2>w, <3>1, <3>2, <1>o, PauseKept
  <2>4. CASE PReturn(p)
    <3>1. wpc[p] = "await" /\ wpc'[p] = "own" /\ gotAck'[p] = acked
          /\ acked' = acked /\ pauseCount' = pauseCount
      BY <2>4, <2>w, <1>t DEF PReturn
    <3>2. PauseOwners' = PauseOwners /\ p \in PauseOwners
      BY <2>w, <3>1 DEF PauseOwners
    <3>3. pauseCount > 0
      <4>1. Cardinality(PauseOwners) # 0
        BY <3>2, <1>f, FS_EmptySet
      <4> QED
        BY <4>1, <1>f DEF PauseInv
    <3> QED
      BY <2>w, <3>1, <3>2, <3>3 DEF PauseInv, AckedPauseExcludes
  <2>5. CASE PReceive(p)
    BY <2>5, <1>k, <1>o, PauseKept DEF PReceive, ReceiveDirect
  <2>6. CASE PResume(p)
    <3>1. wpc[p] = "own" /\ wpc'[p] = "resume" /\ gotAck'[p] = FALSE
          /\ acked' = acked /\ pauseCount' = pauseCount - 1
      BY <2>6, <2>w, <1>t, <1>o DEF PResume
    <3>2. PauseOwners' = PauseOwners \ {p} /\ p \in PauseOwners
      BY <2>w, <3>1 DEF PauseOwners
    <3>3. Cardinality(PauseOwners') = Cardinality(PauseOwners) - 1
      BY <3>2, <1>f, FS_RemoveElement
    <3>4. pauseCount' = Cardinality(PauseOwners)'
      BY <3>1, <3>3 DEF PauseInv
    <3>5. AckedPauseExcludes'
      BY <2>w, <3>1 DEF PauseInv, AckedPauseExcludes
    <3>6. acked' /\ pauseCount' > 0 => dpc' \in DispIdle
      BY <2>w, <3>1, <1>t DEF PauseInv
    <3> QED
      BY <3>4, <3>5, <3>6 DEF PauseInv
  <2>7. CASE PResumeKick(p)
    <3>1. wpc[p] = "resume" /\ wpc'[p] = "idle" /\ gotAck' = gotAck
          /\ acked' = acked /\ pauseCount' = pauseCount
      BY <2>7, <2>w, <1>t DEF PResumeKick, WGoto
    <3>2. PauseOwners' = PauseOwners
      BY <2>w, <3>1 DEF PauseOwners
    <3> QED
      BY <2>w, <3>1, <3>2, <1>o, PauseKept
  <2> QED BY <1>4, <2>1, <2>2, <2>3, <2>4, <2>5, <2>6, <2>7 DEF Pauser
<1>5. ASSUME NEW r \in Readers, RBegin(r) \/ RReceive(r) \/ REnd(r) PROVE PauseInv'
  <2>1. pauseCount' = pauseCount /\ acked' = acked /\ dpc' = dpc /\ gotAck' = gotAck
    BY <1>5 DEF RBegin, RReceive, ReceiveDirect, REnd, WGoto
  <2>2. \A p \in Pausers : wpc'[p] = wpc[p]
    BY <1>5, <1>t DEF RBegin, RReceive, ReceiveDirect, REnd, WGoto
  <2> QED
    BY <2>1, <2>2, <1>k, <1>o, PauseKept
<1>6. CASE Startup \/ MShutdown \/ Teardown
  <2>1. pauseCount' = pauseCount /\ acked' = acked /\ gotAck' = gotAck /\ wpc' = wpc
    BY <1>6 DEF Startup, Teardown, MInit, MInstallIsr, MRegister, MRun, MShutdown, MJoin,
                MUnregister, MRemoveIsr, MStop, MKick, MReap
  <2>2. dpc' = dpc \/ dpc' = "loop"
    BY <1>6 DEF Startup, Teardown, MInit, MInstallIsr, MRegister, MRun, MShutdown, MJoin,
                MUnregister, MRemoveIsr, MStop, MKick, MReap
  <2> QED
    BY <2>1, <2>2, <1>k, <1>o, PauseKept DEF DispIdle
<1>7. CASE UNCHANGED vars
  BY <1>7, <1>k, <1>o, PauseKept DEF vars
<1> QED BY <1>1, <1>2, <1>3, <1>4, <1>5, <1>6, <1>7 DEF Next, Terminated

(* No thread that reads the chip under an acknowledged rx_dispatch_pause     *)
(* meets the dispatcher there, for any number of threads that pause at once, *)
(* and pause_count never loses or gains a pause.                             *)
THEOREM PauseCorrect == Spec => []PauseInv
<1>1. Init => PauseInv
  <2> SUFFICES ASSUME Init PROVE PauseInv
    OBVIOUS
  <2>1. PauseOwners = {}
    BY DEF Init, PauseOwners, Workers
  <2>2. Cardinality(PauseOwners) = 0
    BY <2>1, FS_EmptySet
  <2>3. \A p \in Pausers : wpc[p] # "own"
    BY DEF Init, Workers
  <2> QED
    BY <2>2, <2>3 DEF Init, PauseInv, AckedPauseExcludes
<1>2. TypeOK /\ PauseInv /\ [Next]_vars => PauseInv'
  BY PauseStep
<1> QED
  BY <1>1, <1>2, TypeCorrect, PTL DEF Spec

(* The promise alone: an acknowledged pause keeps the dispatcher away.       *)
THEOREM AckedPauseCorrect == Spec => []AckedPauseExcludes
<1>1. PauseInv => AckedPauseExcludes
  BY DEF PauseInv
<1> QED
  BY <1>1, PauseCorrect, PTL
-----------------------------------------------------------------------------
(* No reply is missed.                                                       *)

Asking == {"trigger", "wait", "unregister"}      \* the steps of a wait that is registered

(* A request that has left comes from a wait that is still registered.       *)
AskedInv == \A w \in Waiters : asked[w] => wpc[w] \in {"wait", "unregister"}

(* A frame the dispatcher holds is the one in the buffer, unless somebody    *)
(* has overwritten it; while it is offered to one slot after the other, the  *)
(* waits in the slots behind the loop have taken it if they are registered;  *)
(* and a wait that was offered a frame it asks for has taken one.            *)
OfferInv ==
    /\ dframe # NoOne => dframe = rxbuf
    /\ \A w \in Waiters : dpc \in Locked /\ dframe # NoOne /\ w \in Match[dframe] =>
          (wpc[w] \in Asking /\ handle[w] < dslot => matched[w])
    /\ \A w \in Waiters : offered[w] => matched[w]

(* What a step other than one of the loop over the slots may do.             *)
LEMMA OfferKept ==
    ASSUME OfferInv,
           \A w \in Waiters : matched'[w] = matched[w] /\ offered'[w] = offered[w],
           \/ dframe' = dframe /\ rxbuf' = rxbuf
           \/ dframe' # NoOne => dframe' = dframe /\ dframe' = rxbuf',
           dpc' \in Locked => dpc \in Locked /\ dslot' = dslot,
           dpc' \in Locked => \A w \in Waiters : /\ handle'[w] = handle[w]
                                                 /\ wpc'[w] \in Asking => wpc[w] \in Asking
    PROVE  OfferInv'
BY DEF OfferInv

(* No wait asks unregistered, whatever the step.                             *)
LEMMA AskedStep ==
    ASSUME RegistryInv, AskedInv, [Next]_vars
    PROVE  AskedInv'
<1> USE DEF AskedInv, waitVars, workerVars
<1>t. /\ asked \in [Waiters -> BOOLEAN] /\ \A w \in Waiters : w \in Workers
      /\ wpc \in [Workers -> {"idle", "pause", "kick", "await", "own", "resume", "read"}
                            \cup WaitPc]
  BY DEF RegistryInv, TypeOK, Workers
<1>0. ASSUME UNCHANGED asked, \A w \in Waiters : wpc'[w] = wpc[w] PROVE AskedInv'
  BY <1>0
<1>1. CASE \/ \E f \in Frame : FrameArrives(f)
           \/ Startup \/ MShutdown \/ Teardown \/ UNCHANGED vars
  BY <1>0, <1>1 DEF FrameArrives, Startup, MInit, MInstallIsr, MRegister, MRun, MShutdown, Teardown,
                    MJoin, MUnregister, MRemoveIsr, MStop, MKick, MReap, vars
<1>2. CASE Dispatcher
  BY <1>0, <1>2 DEF Dispatcher, DLoop, DWake, DFallback, DWoke, DCheckPause, DAck, DUnack, DDrain,
                    DReceive, DLock, DPredicate, DHandler, DUnlock
<1>3. ASSUME NEW w \in Waiters, WBegin(w) \/ Waiter(w) PROVE AskedInv'
  <2>1. /\ \A v \in Waiters \ {w} : wpc'[v] = wpc[v] /\ asked'[v] = asked[v]
        /\ \/ asked'[w] = FALSE
           \/ wpc'[w] = "wait"
           \/ asked'[w] = asked[w] /\ wpc[w] \in {"register", "free"}
           \/ asked'[w] = asked[w] /\ wpc'[w] = "unregister"
    <3>1. CASE WBegin(w)
      BY <1>t, <3>1 DEF WBegin, WGoto
    <3>2. CASE WRegister(w) \/ WFree(w)
      BY <1>t, <3>2 DEF WRegister, WFree, WGoto
    <3>3. CASE WTrigger(w)
      BY <1>t, <3>3 DEF WTrigger, WGoto
    <3>4. CASE WGot(w) \/ WGiveUp(w)
      BY <1>t, <3>4 DEF WGot, WGiveUp, WGoto
    <3>5. CASE WUnregister(w)
      BY <1>t, <3>5 DEF WUnregister, WGoto
    <3> QED
      BY <1>3, <3>1, <3>2, <3>3, <3>4, <3>5 DEF Waiter
  <2> QED
    BY <2>1
<1>4. ASSUME NEW t \in Pausers \cup Readers,
             \/ PBegin(t) \/ Pauser(t) \/ PReceive(t)
             \/ RBegin(t) \/ RReceive(t) \/ REnd(t)
      PROVE  AskedInv'
  <2>1. \A w \in Waiters : w # t
    BY ClientsDisjoint
  <2>2. UNCHANGED asked /\ \A w \in Waiters : wpc'[w] = wpc[w]
    BY <1>4, <1>t, <2>1 DEF PBegin, Pauser, PPause, PKick, PReturn, PResume, PResumeKick,
                            PReceive, RBegin, RReceive, REnd, ReceiveDirect, WGoto
  <2> QED
    BY <1>0, <2>2
<1> QED
  BY <1>1, <1>2, <1>3, <1>4 DEF Next, Terminated

(* A frame is offered to every wait that asks for it, whatever the step.     *)
LEMMA OfferStep ==
    ASSUME RegistryInv, AskedInv, OfferInv, [Next]_vars
    PROVE  OfferInv'
<1> USE DEF chipVars, wakeVars, ctlVars, regVars, dispVars, waitVars, workerVars
<1>t. /\ wpc \in [Workers -> {"idle", "pause", "kick", "await", "own", "resume", "read"}
                            \cup WaitPc]
      /\ offered \in [Waiters -> BOOLEAN] /\ matched \in [Waiters -> BOOLEAN]
      /\ handle \in [Handlers -> Slots \cup {0}] /\ dslot \in 1 .. (MaxSlots + 1)
      /\ mutex = "held" <=> dpc \in Locked
      /\ \A w \in Waiters : w \in Workers /\ w \in Handlers
      /\ MaxSlots \in Nat
  BY BoundsAreNat DEF RegistryInv, TypeOK, LockInv, Workers, Handlers
<1>h. \A w \in Waiters : wpc[w] \in Asking => handle[w] \in Slots /\ slots[handle[w]] = w
  BY DEF RegistryInv, HandleInv, RegistryExact, Asking
<1>1. ASSUME NEW f \in Frame, FrameArrives(f) PROVE OfferInv'
  BY <1>1, OfferKept DEF FrameArrives
<1>2. CASE Dispatcher
  <2>1. CASE DLoop \/ DWake \/ DFallback \/ DWoke \/ DCheckPause \/ DAck \/ DUnack \/ DDrain
    <3>1. dpc' \notin Locked /\ UNCHANGED <<rxbuf, dframe, wpc, matched, offered, handle>>
      BY <2>1 DEF DLoop, DWake, DFallback, DWoke, DCheckPause, DAck, DUnack, DDrain, DGoto, Locked
    <3> QED BY <3>1, OfferKept
  <2>2. CASE DReceive
    <3>1. dpc' \notin Locked /\ UNCHANGED <<wpc, matched, offered, handle>>
      BY <2>2 DEF DReceive, DGoto, Locked
    <3>2. \/ UNCHANGED <<rxbuf, dframe>>
          \/ dframe' = rxbuf'
      BY <2>2 DEF DReceive, DGoto, ReceivePacket
    <3> QED BY <3>1, <3>2 DEF OfferInv
  <2>3. CASE DLock
    <3>1. dslot' = 1 /\ UNCHANGED <<rxbuf, dframe, wpc, matched, offered, handle>>
      BY <2>3 DEF DLock
    <3>2. \A w \in Waiters : wpc[w] \in Asking => ~(handle[w] < 1)
      BY <1>h, <1>t DEF Slots
    <3> QED BY <3>1, <3>2 DEF OfferInv
  <2>4. CASE DPredicate
    <3>1. /\ dpc = "slot" /\ dpc' \in Locked /\ dslot \in Slots
          /\ UNCHANGED <<rxbuf, dframe, wpc, matched, offered, handle>>
      BY <2>4, <1>t DEF DPredicate, Locked, Slots
    <3>2. CASE dslot' = dslot
      BY <3>1, <3>2, OfferKept DEF Locked
    <3>3. CASE dslot' = dslot + 1 /\ ~(slots[dslot] # NoOne /\ Accepts(slots[dslot]))
      <4>1. ASSUME NEW w \in Waiters, dframe # NoOne, w \in Match[dframe], wpc[w] \in Asking,
                   handle[w] < dslot + 1
            PROVE  matched[w]
        <5>1. handle[w] \in Nat /\ dslot \in Nat
          BY <1>t DEF Slots
        <5>2. CASE handle[w] = dslot
          <6>1. slots[dslot] = w /\ w # NoOne
            BY <1>h, <1>t, <4>1, <5>2, NoOneIsFresh
          <6>2. ~Accepts(w) /\ w \in Match[rxbuf]
            BY <3>3, <4>1, <6>1 DEF OfferInv
          <6> QED BY <4>1, <6>2 DEF Accepts
        <5>3. CASE handle[w] # dslot
          <6>1. handle[w] < dslot
            BY <4>1, <5>1, <5>3
          <6> QED BY <3>1, <4>1, <6>1 DEF OfferInv, Locked
        <5> QED BY <5>2, <5>3
      <4> QED BY <3>1, <3>3, <4>1 DEF OfferInv
    <3> QED BY <2>4, <3>2, <3>3 DEF DPredicate
  <2>5. CASE DHandler
    <3>1. /\ dpc = "handler" /\ dpc' \in Locked /\ dslot' = dslot + 1
          /\ UNCHANGED <<rxbuf, dframe, wpc, offered, handle>>
          /\ dslot \in Slots /\ dctx = slots[dslot]
      BY <2>5 DEF DHandler, Locked, RegistryInv, CallInv
    <3>2. \A w \in Waiters : matched[w] => matched'[w]
      BY <2>5, <1>t DEF DHandler
    <3>3. dctx \in Waiters => matched'[dctx]
      BY <2>5, <1>t DEF DHandler
    <3>4. ASSUME NEW w \in Waiters, dframe # NoOne, w \in Match[dframe], wpc[w] \in Asking,
                 handle[w] < dslot + 1
          PROVE  matched'[w]
      <4>1. handle[w] \in Nat /\ dslot \in Nat
        BY <1>t DEF Slots
      <4>2. CASE handle[w] = dslot
        <5>1. dctx = w
          BY <1>h, <3>1, <3>4, <4>2
        <5> QED BY <3>3, <5>1
      <4>3. CASE handle[w] # dslot
        <5>1. handle[w] < dslot
          BY <3>4, <4>1, <4>3
        <5>2. matched[w]
          BY <3>1, <3>4, <5>1 DEF OfferInv, Locked
        <5> QED BY <3>2, <5>2
      <4> QED BY <4>2, <4>3
    <3> QED BY <3>1, <3>2, <3>4 DEF OfferInv
  <2>6. CASE DUnlock
    <3>1. /\ dpc = "slot" /\ dslot = MaxSlots + 1 /\ dpc' \notin Locked /\ dframe' = NoOne
          /\ UNCHANGED <<wpc, matched>>
      BY <2>6 DEF DUnlock, Locked
    <3>2. \A w \in Waiters : offered'[w] <=>
             (offered[w] \/ (asked[w] /\ dframe # NoOne /\ w \in Match[dframe]))
      BY <2>6 DEF DUnlock
    <3>3. ASSUME NEW w \in Waiters, asked[w], dframe # NoOne, w \in Match[dframe]
          PROVE  matched[w]
      <4>1. wpc[w] \in Asking
        BY <3>3 DEF AskedInv, Asking
      <4>2. handle[w] < dslot
        BY <1>h, <1>t, <3>1, <4>1 DEF Slots
      <4> QED BY <3>1, <3>3, <4>1, <4>2 DEF OfferInv, Locked
    <3> QED BY <3>1, <3>2, <3>3 DEF OfferInv
  <2> QED BY <1>2, <2>1, <2>2, <2>3, <2>4, <2>5, <2>6 DEF Dispatcher
<1>3. ASSUME NEW w \in Waiters, WBegin(w) \/ Waiter(w) PROVE OfferInv'
  <2>d. UNCHANGED <<rxbuf, dispVars>>
    BY <1>3 DEF Waiter, WBegin, WRegister, WTrigger, WGot, WGiveUp, WUnregister, WFree
  <2>w. \A v \in Waiters \ {w} : wpc'[v] = wpc[v]
    BY <1>3, <1>t DEF Waiter, WBegin, WRegister, WTrigger, WGot, WGiveUp, WUnregister, WFree, WGoto
  <2>1. CASE WBegin(w)
    <3>1. /\ wpc'[w] = "register" /\ offered'[w] = FALSE /\ UNCHANGED handle
          /\ \A v \in Waiters \ {w} : matched'[v] = matched[v] /\ offered'[v] = offered[v]
      BY <2>1, <1>t DEF WBegin, WGoto
    <3> QED BY <2>d, <2>w, <3>1 DEF OfferInv, Asking
  <2>2. CASE WRegister(w)
    <3>1. dpc \notin Locked /\ wpc[w] = "register" /\ UNCHANGED <<matched, offered>>
      BY <2>2, <1>t DEF WRegister, Register
    <3> QED BY <2>d, <3>1, OfferKept
  <2>3. CASE WTrigger(w)
    <3>1. /\ wpc[w] = "trigger" /\ wpc'[w] = "wait"
          /\ UNCHANGED <<matched, offered, handle>>
      BY <2>3, <1>t DEF WTrigger, WGoto
    <3>2. \A v \in Waiters : wpc'[v] \in Asking <=> wpc[v] \in Asking
      BY <2>w, <3>1 DEF Asking
    <3> QED BY <2>d, <3>1, <3>2, OfferKept
  <2>4. CASE WGot(w) \/ WGiveUp(w) \/ WUnregister(w) \/ WFree(w)
    <3>1. /\ wpc[w] \in Asking \/ wpc'[w] = "idle"
          /\ UNCHANGED <<matched, offered, handle>>
      BY <2>4, <1>t DEF WGot, WGiveUp, WUnregister, WFree, WGoto, Asking
    <3>2. \A v \in Waiters : wpc'[v] \in Asking => wpc[v] \in Asking
      BY <2>w, <3>1 DEF Asking
    <3> QED BY <2>d, <3>1, <3>2, OfferKept
  <2> QED BY <1>3, <2>1, <2>2, <2>3, <2>4 DEF Waiter
<1>4. ASSUME NEW t \in Pausers \cup Readers,
             \/ PBegin(t) \/ Pauser(t) \/ PReceive(t)
             \/ RBegin(t) \/ RReceive(t) \/ REnd(t)
      PROVE  OfferInv'
  <2>1. /\ \A w \in Waiters : wpc'[w] = wpc[w]
        /\ UNCHANGED <<matched, offered, handle, dpc, dslot>>
    <3>1. \A w \in Waiters : w # t
      BY ClientsDisjoint
    <3> QED
      BY <1>4, <1>t, <3>1 DEF PBegin, Pauser, PPause, PKick, PReturn, PResume, PResumeKick,
                        PReceive, RBegin, RReceive, REnd, ReceiveDirect, WGoto
  <2>2. \/ dframe' = dframe /\ rxbuf' = rxbuf
        \/ dframe' # NoOne => dframe' = dframe /\ dframe' = rxbuf'
    BY <1>4 DEF PBegin, Pauser, PPause, PKick, PReturn, PResume, PResumeKick,
                PReceive, RBegin, RReceive, REnd, ReceiveDirect
  <2> QED BY <2>1, <2>2, OfferKept
<1>5. CASE Startup
  <2>1. CASE MInit
    <3>1. dpc' \notin Locked /\ UNCHANGED <<rxbuf, dframe, wpc, matched, offered>>
      BY <2>1 DEF MInit, Locked
    <3> QED BY <3>1, OfferKept
  <2>2. ASSUME NEW a \in AutoReplies, MRegister(a) PROVE OfferInv'
    <3>1. dpc \notin Locked /\ UNCHANGED <<rxbuf, dispVars, wpc, matched, offered>>
      BY <2>2, <1>t DEF MRegister, Register
    <3> QED BY <3>1, OfferKept
  <2>3. CASE MInstallIsr \/ MRun
    BY <2>3, OfferKept DEF MInstallIsr, MRun
  <2> QED BY <1>5, <2>1, <2>2, <2>3 DEF Startup
<1>6. CASE MShutdown \/ Teardown
  BY <1>6, OfferKept DEF MShutdown, Teardown, MJoin, MUnregister, Unregister, MRemoveIsr, MStop,
                         MKick, MReap
<1>7. CASE UNCHANGED vars
  BY <1>7, OfferKept DEF vars
<1> QED BY <1>1, <1>2, <1>3, <1>4, <1>5, <1>6, <1>7 DEF Next, Terminated

(* From its request to its unregistration a wait misses no matching frame    *)
(* that goes through the dispatcher and is not overwritten there, however    *)
(* many waits and slots there are (scanner_session.c:234-259).               *)
THEOREM RepliesTaken == Spec => []ReplyNotMissed
<1>1. Init => AskedInv /\ OfferInv
  <2> SUFFICES ASSUME Init PROVE AskedInv /\ OfferInv
    OBVIOUS
  <2>1. \A w \in Waiters : asked[w] = FALSE /\ offered[w] = FALSE
    BY DEF Init
  <2>2. dframe = NoOne
    BY DEF Init
  <2> QED BY <2>1, <2>2 DEF AskedInv, OfferInv
<1>2. OfferInv => ReplyNotMissed
  BY DEF OfferInv, ReplyNotMissed
<1> QED
  BY <1>1, <1>2, AskedStep, OfferStep, RegistryCorrect, PTL DEF Spec

=============================================================================
