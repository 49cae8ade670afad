--------------------------- MODULE EncDriver_proofs ---------------------------
(* Machine-checked proofs about EncDriver, for any threads, any size of the    *)
(* ring and of the frames in it and any number of retries.  What is said of    *)
(* registers and frames holds as long as the chip is started once              *)
(* (~Restarts; the run EncStartClaim shows why); types and mutual exclusion,   *)
(* at the end, hold however often it is started.                               *)
EXTENDS EncDriver, SequenceTheorems, TLAPS

-----------------------------------------------------------------------------
(* The mutex and the banks.                                                   *)

PcOf(t) == IF t = Main THEN {"idle"} \cup StartPc ELSE {"idle"} \cup ReceivePc \cup SendPc \cup LinkPc

CallTypes ==
    /\ bank \in Banks /\ bsel \in Banks
    /\ pc \in [Threads -> {"idle"} \cup ReceivePc \cup SendPc \cup StartPc \cup LinkPc]
    /\ selected \in [Threads -> BOOLEAN]
    /\ boot \in {"reset", "start", "mac", "up"}

(* Whoever is inside the driver has its mutex; between the selection of a bank *)
(* and the access the bank stays the one selected; the cached bank is the      *)
(* chip's from the reset on, and bank 0 when enc28j60_start is called.         *)
CallInv ==
    /\ CallTypes
    /\ \A t \in Threads : pc[t] # "idle" => mutex = t
    /\ \A t \in Threads : pc[t] # "idle" => boot = IF t = Main THEN "start" ELSE "up"
    /\ \A t \in Threads : pc[t] \in PcOf(t)
    /\ \A t \in Threads : selected[t] =>
          pc[t] \in DOMAIN RegisterAt /\ bank = Bank[RegisterAt[pc[t]]]
    /\ boot # "reset" => bank = bsel
    /\ boot = "start" /\ pc[Main] = "idle" => bank = 0
    /\ NoStrayAccess

USE DEF Threads, Goto, Leave, Enter, Access, Hit, May, driver, calls, ringVars, chip

(* No call is under way at the start.                                          *)
LEMMA CallInit == Init => CallInv
BY DEF Init, CallInv, CallTypes, NoStrayAccess, PcOf, Banks, StartPc

(* Every register a step names lies in one of the four banks.                  *)
LEMMA BankValues ==
    /\ DOMAIN RegisterAt = {"release", "count", "point", "load", "poll", "status", "miird",
                            "mistat", "mird", "ring", "filters", "phlcon", "mac", "phcon2"}
    /\ \A l \in DOMAIN RegisterAt : Bank[RegisterAt[l]] \in Banks
    /\ Bank["ERXFCON"] \in Banks /\ Bank["MAADR"] \in Banks
BY DEF RegisterAt, Bank, Banks

(* A step of a function that is under way: what it selects and accesses.       *)
LEMMA SelectStep ==
    ASSUME CallInv, NEW t \in Threads, SetBank(t)
    PROVE  CallInv'
<1> USE BankValues DEF CallInv, CallTypes, SetBank, Select, NoStrayAccess
<1>1. pc[t] # "idle" /\ boot # "reset" /\ mutex = t
  OBVIOUS
<1>2. \A u \in Threads \ {t} : ~selected[u]
  BY <1>1
<1> QED BY <1>1, <1>2

(* A step of a function that is under way accesses what it selected, or nothing. *)
LEMMA MoveStep ==
    ASSUME CallInv, NEW t \in Threads, pc[t] # "idle",
           \/ Access(t)
           \/ ~selected[t] /\ UNCHANGED <<selected, bank, bsel, stray>>,
           NEW l \in PcOf(t), pc' = [pc EXCEPT ![t] = l],
           l # "idle" => UNCHANGED <<mutex, boot>>,
           l = "idle" /\ t # Main => UNCHANGED boot,
           l = "idle" /\ t = Main => boot' = "mac"
    PROVE  CallInv'
<1> USE DEF CallInv, CallTypes, NoStrayAccess
<1>1. mutex = t /\ boot # "reset" /\ (boot = "start" <=> t = Main)
  BY DEF PcOf
<1>2. \A u \in Threads \ {t} : pc[u] = "idle" /\ ~selected[u] /\ pc'[u] = "idle" /\ ~selected'[u]
  BY <1>1, BankValues
<1>3. pc'[t] = l /\ ~selected'[t]
  OBVIOUS
<1>4. bank' = bank /\ bsel' = bsel /\ stray' = {} /\ selected' \in [Threads -> BOOLEAN]
  BY <1>1
<1>5. pc' \in [Threads -> {"idle"} \cup ReceivePc \cup SendPc \cup StartPc \cup LinkPc]
  BY DEF PcOf
<1>6. boot' \in {"reset", "start", "mac", "up"} /\ (boot' # "reset")
  BY <1>1
<1>7. \A u \in Threads : pc'[u] # "idle" => mutex' = u /\ boot' = IF u = Main THEN "start" ELSE "up"
  BY <1>1, <1>2, <1>3
<1>8. \A u \in Threads : pc'[u] \in PcOf(u)
  BY <1>2, <1>3 DEF PcOf
<1>9. ~(boot' = "start" /\ pc'[Main] = "idle")
  BY <1>1, <1>2, <1>3
<1> QED BY <1>2, <1>3, <1>4, <1>5, <1>6, <1>7, <1>8, <1>9

(* A step of a receive, a send or a link poll keeps CallInv.                   *)
LEMMA UserCall ==
    ASSUME CallInv, NEW t \in Users, UserStep(t)
    PROVE  CallInv'
<1> USE MainIsNoUser, BankValues
<1>1. t \in Threads /\ t # Main /\ (selected[t] => pc[t] \in DOMAIN RegisterAt)
  BY DEF CallInv
<1>2. {"idle"} \cup ReceivePc \cup SendPc \cup LinkPc = PcOf(t)
  BY <1>1 DEF PcOf
<1> USE DEF ReceivePc, SendPc, LinkPc
<1>3. CASE SetBank(t)
  BY <1>3, SelectStep
<1>4. CASE RecvRelease(t)
  BY <1>1, <1>2, <1>4, MoveStep DEF RecvRelease
<1>5. CASE RecvCount(t)
  BY <1>1, <1>2, <1>5, MoveStep DEF RecvCount
<1>6. CASE RecvPoint(t) \/ RecvHeader(t)
  BY <1>1, <1>2, <1>6, MoveStep DEF RecvPoint, RecvHeader
<1>7. CASE RecvDec(t)
  BY <1>1, <1>2, <1>7, MoveStep DEF RecvDec
<1>8. CASE SendReset(t)
  BY <1>1, <1>2, <1>8, MoveStep DEF SendReset
<1>9. CASE SendLoad(t) \/ SendFire(t)
  BY <1>1, <1>2, <1>9, MoveStep DEF SendLoad, SendFire
<1>10. CASE SendPoll(t)
  BY <1>1, <1>2, <1>10, MoveStep DEF SendPoll
<1>11. CASE SendStatus(t)
  BY <1>1, <1>2, <1>11, MoveStep DEF SendStatus
<1>12. CASE LinkStep(t)
  BY <1>1, <1>2, <1>12, MoveStep DEF LinkStep
<1> QED BY <1>3, <1>4, <1>5, <1>6, <1>7, <1>8, <1>9, <1>10, <1>11, <1>12 DEF UserStep

(* A step of enc28j60_start keeps CallInv.                                     *)
LEMMA StartCall ==
    ASSUME CallInv, StartStep
    PROVE  CallInv'
<1> USE MainIsNoUser, BankValues
<1>1. Main \in Threads /\ (selected[Main] => pc[Main] \in DOMAIN RegisterAt)
  BY DEF CallInv
<1>2. {"idle"} \cup StartPc = PcOf(Main)
  BY DEF PcOf
<1>3. pc[Main] # "idle" => boot = "start"
  BY DEF CallInv
<1> USE DEF StartPc
<1>4. CASE SetBank(Main)
  BY <1>4, SelectStep
<1>5. CASE StartClock
  <2>1. CASE Goto(Main, "ring")
    BY <1>1, <1>2, <1>5, <2>1, MoveStep DEF StartClock
  <2>2. CASE Return(FALSE)
    BY <1>1, <1>2, <1>3, <1>5, <2>2, MoveStep DEF StartClock, Return
  <2> QED BY <1>5, <2>1, <2>2 DEF StartClock
<1>6. CASE StartRing \/ StartFilters \/ StartMac
  BY <1>1, <1>2, <1>6, MoveStep DEF StartRing, StartFilters, StartMac
<1>7. CASE StartPhy
  <2>1. CASE Return(FALSE)
    BY <1>1, <1>2, <1>3, <1>7, <2>1, MoveStep DEF StartPhy, Return
  <2>2. CASE ~Return(FALSE)
    BY <1>1, <1>2, <1>7, <2>2, MoveStep DEF StartPhy
  <2> QED BY <2>1, <2>2
<1>8. CASE StartEnable
  <2>1. mutex = Main /\ \A u \in Threads \ {Main} : pc[u] = "idle" /\ ~selected[u]
    BY <1>8 DEF StartEnable, CallInv
  <2>2. ~selected[Main] /\ boot' = "mac" /\ pc' = [pc EXCEPT ![Main] = "idle"]
    BY <1>1, <1>3, <1>8 DEF StartEnable, Return
  <2> QED BY <1>8, <2>1, <2>2 DEF StartEnable, CallInv, CallTypes, NoStrayAccess, PcOf
<1> QED BY <1>4, <1>5, <1>6, <1>7, <1>8 DEF StartStep

(* No step breaks CallInv.                                                     *)
LEMMA CallStep ==
    ASSUME ~Restarts, CallInv, [Next]_vars
    PROVE  CallInv'
<1> USE MainIsNoUser
<1>1. CASE \E s \in FrameSizes, ok \in BOOLEAN : ChipReceives(s, ok)
  BY <1>1 DEF ChipReceives, CallInv, CallTypes, NoStrayAccess
<1>2. ASSUME NEW t \in Users, Receive(t) \/ Send(t) \/ Link(t) PROVE CallInv'
  <2>1. pc[t] = "idle" /\ ~selected[t] /\ mutex' = t /\ boot = "up"
    BY <1>2, BankValues DEF Receive, Send, Link, CallInv, CallTypes
  <2>2. \A u \in Threads : pc[u] = "idle"
    BY <1>2 DEF Receive, Send, Link, CallInv
  <2>3. UNCHANGED <<bank, bsel, selected, stray, boot>>
    BY <1>2 DEF Receive, Send, Link
  <2>4. PICK l \in ReceivePc \cup SendPc \cup LinkPc : pc' = [pc EXCEPT ![t] = l]
    BY <1>2 DEF Receive, Send, Link, ReceivePc, SendPc, LinkPc
  <2>5. \A u \in Threads : ~selected[u]
    BY <2>2, BankValues DEF CallInv
  <2> QED BY <2>1, <2>2, <2>3, <2>4, <2>5 DEF CallInv, CallTypes, NoStrayAccess, PcOf
<1>3. CASE \E t \in Users : SetFilter(t)
  <2>1. \A u \in Threads : ~selected[u]
    BY <1>3, BankValues DEF SetFilter, CallInv, NoThread
  <2> QED BY <1>3, <2>1, BankValues
          DEF SetFilter, Select, CallInv, CallTypes, NoStrayAccess
<1>4. CASE SetMac(Main)
  <2>1. \A u \in Threads : pc[u] = "idle" /\ ~selected[u]
    BY <1>4, BankValues DEF SetMac, CallInv
  <2> QED BY <1>4, <2>1, BankValues DEF SetMac, Select, CallInv, CallTypes, NoStrayAccess
<1>5. CASE NoSettings
  BY <1>5 DEF NoSettings, CallInv, CallTypes, NoStrayAccess
<1>6. CASE SoftReset
  <2>1. \A u \in Threads : pc[u] = "idle" /\ ~selected[u]
    BY <1>6, BankValues DEF SoftReset, CallInv
  <2> QED BY <1>6, <2>1 DEF SoftReset, CallInv, CallTypes, NoStrayAccess, Banks
<1>7. CASE Start
  <2>1. \A u \in Threads : pc[u] = "idle" /\ ~selected[u]
    BY <1>7, BankValues DEF Start, CallInv
  <2>2. boot = "start" /\ boot' = boot /\ bank = 0 /\ bsel = 0 /\ mutex' = Main
    BY <1>7, <2>1 DEF Start, CallInv
  <2>3. pc' = [pc EXCEPT ![Main] = "clkrdy"] /\ selected' = selected
    BY <1>7 DEF Start
  <2> QED BY <1>7, <2>1, <2>2, <2>3
          DEF Start, CallInv, CallTypes, NoStrayAccess, Banks, PcOf, StartPc
<1>8. CASE UNCHANGED vars
  BY <1>8 DEF vars, CallInv, CallTypes, NoStrayAccess
<1> QED BY <1>1, <1>2, <1>3, <1>4, <1>5, <1>6, <1>7, <1>8, UserCall, StartCall DEF Next

(* Every register access reaches the register it names, whichever threads use  *)
(* the driver at once (set_bank_with_mask, enc28j60.c:83).                     *)
THEOREM AccessesHit == ASSUME ~Restarts PROVE Spec => []NoStrayAccess
<1>1. Init => CallInv
  BY CallInit
<1>2. CallInv /\ [Next]_vars => CallInv'
  BY CallStep
<1>3. CallInv => NoStrayAccess
  BY DEF CallInv
<1> QED BY <1>1, <1>2, <1>3, PTL DEF Spec

-----------------------------------------------------------------------------
(* Distances in the ring.                                                     *)

Dist(from, c) == (c - from) % Cells

(* The distance forward on the ring, without the remainder.                    *)
LEMMA DistIs ==
    ASSUME NEW from \in Ring, NEW c \in Ring
    PROVE  /\ Dist(from, c) = IF from <= c THEN c - from ELSE c - from + Cells
           /\ Dist(from, c) \in Ring
<1>1. Cells \in Nat \ {0} /\ from \in Nat /\ c \in Nat /\ from < Cells /\ c < Cells
  BY SizesFit DEF Ring
<1>2. CASE from <= c
  BY <1>1, <1>2 DEF Dist, Ring
<1>3. CASE ~(from <= c)
  <2>1. c - from \in Int /\ c - from < 0 /\ -Cells <= c - from
    BY <1>1, <1>3
  <2>2. (c - from) % Cells = (c - from) + Cells
    BY <1>1, <2>1
  <2> QED BY <1>1, <1>3, <2>2 DEF Dist, Ring
<1> QED BY <1>2, <1>3

(* Going on by k cells adds k to the distance, short of a full turn.           *)
LEMMA Ahead ==
    ASSUME NEW from \in Ring, NEW c \in Ring, NEW k \in Nat, Dist(from, c) + k < Cells
    PROVE  (c + k) % Cells \in Ring /\ Dist(from, (c + k) % Cells) = Dist(from, c) + k
<1>1. Cells \in Nat \ {0} /\ from \in Nat /\ c \in Nat /\ from < Cells /\ c < Cells
  BY SizesFit DEF Ring
<1>2. Dist(from, c) = IF from <= c THEN c - from ELSE c - from + Cells
  BY DistIs
<1>3. k < Cells
  BY <1>1, <1>2
<1>4. CASE c + k < Cells
  <2>1. (c + k) % Cells = c + k
    BY <1>1, <1>4
  <2>2. c + k \in Ring
    BY <1>1, <1>4 DEF Ring
  <2>3. \A e \in Ring : Dist(from, e) = IF from <= e THEN e - from ELSE e - from + Cells
    BY DistIs
  <2> QED BY <1>1, <1>2, <2>1, <2>2, <2>3
<1>5. CASE ~(c + k < Cells)
  <2>1. (c + k) % Cells = c + k - Cells
    BY <1>1, <1>3, <1>5
  <2>2. c + k - Cells \in Ring
    BY <1>1, <1>3, <1>5 DEF Ring
  <2>3. \A e \in Ring : Dist(from, e) = IF from <= e THEN e - from ELSE e - from + Cells
    BY DistIs
  <2> QED BY <1>1, <1>2, <1>3, <1>5, <2>1, <2>2, <2>3
<1> QED BY <1>4, <1>5

(* Distances from the cell before n, for cells not before n.                   *)
LEMMA Released ==
    ASSUME NEW from \in Ring, NEW n \in Ring, NEW c \in Ring,
           1 <= Dist(from, n), Dist(from, n) <= Dist(from, c)
    PROVE  /\ (n - 1) % Cells \in Ring
           /\ Dist((n - 1) % Cells, c) = Dist(from, c) - Dist(from, n) + 1
<1>1. /\ Cells \in Nat \ {0} /\ from \in Nat /\ n \in Nat /\ c \in Nat
      /\ from < Cells /\ n < Cells /\ c < Cells
  BY SizesFit DEF Ring
<1>2. /\ Dist(from, n) = IF from <= n THEN n - from ELSE n - from + Cells
      /\ Dist(from, c) = IF from <= c THEN c - from ELSE c - from + Cells
  BY DistIs
<1>3. (n - 1) % Cells = IF n = 0 THEN Cells - 1 ELSE n - 1
  BY <1>1
<1>4. (n - 1) % Cells \in Ring
  BY <1>1, <1>3 DEF Ring
<1>5. \A e \in Ring : Dist(e, c) = IF e <= c THEN c - e ELSE c - e + Cells
  BY DistIs
<1>6. CASE n = 0
  BY <1>1, <1>2, <1>3, <1>4, <1>5, <1>6
<1>7. CASE n # 0
  BY <1>1, <1>2, <1>3, <1>4, <1>5, <1>7
<1> QED BY <1>6, <1>7

-----------------------------------------------------------------------------
(* The ring.                                                                  *)

Ends(f) == (f.at + f.size) % Cells
From(f) == Dist(rdpt, f.at)

RingTypes ==
    /\ next \in Ring /\ rdpt \in Ring /\ wrpt \in Ring /\ unreleased \in BOOLEAN
    /\ frames \in Seq(StoredFrame)

(* Nothing is received before the chip is enabled.                             *)
QuietBoot == boot \in {"reset", "start"} =>
    rxen = FALSE /\ frames = <<>> /\ next = 0 /\ rdpt = 0 /\ wrpt = 0 /\ ~unreleased

(* The frames follow each other from rx_next_packet to ERXWRPT.                *)
OrderInv ==
    /\ \A i \in 1 .. Len(frames) : From(frames[i]) + frames[i].size <= Dist(rdpt, wrpt)
    /\ \A i \in 1 .. Len(frames) : \A j \in (i + 1) .. Len(frames) :
          From(frames[i]) + frames[i].size <= From(frames[j])
    /\ \A i \in 1 .. Len(frames) :
          Ends(frames[i]) = IF i = Len(frames) THEN wrpt ELSE frames[i + 1].at
    /\ next = IF Reading THEN Ends(frames[1])
              ELSE IF frames = <<>> THEN wrpt ELSE frames[1].at

(* What receive_packet knows at each of its steps, and how much is released.   *)
ReadInv ==
    /\ \A t \in Users :
          /\ pc[t] \in {"point", "header", "dec"} => frames # <<>>
          /\ pc[t] = "header" => erdpt = next
          /\ pc[t] \in {"count", "point", "header"} => ~unreleased
          /\ pc[t] \in {"release", "dec"} => unreleased
    /\ IF unreleased THEN 1 <= Dist(rdpt, next) ELSE Dist(rdpt, next) <= 1

RingInv == RingTypes /\ QuietBoot /\ OrderInv /\ ReadInv

(* Sizes and distances are numbers.                                            *)
LEMMA Numbers ==
    ASSUME RingTypes
    PROVE  /\ Cells \in Nat \ {0} /\ FrameSizes \subseteq Nat \ {0}
           /\ Dist(rdpt, wrpt) \in Nat /\ Dist(rdpt, wrpt) < Cells
           /\ Dist(rdpt, next) \in Nat /\ Dist(rdpt, next) < Cells
           /\ Len(frames) \in Nat
           /\ \A i \in 1 .. Len(frames) :
                 /\ frames[i] \in StoredFrame
                 /\ frames[i].at \in Ring /\ frames[i].size \in Nat \ {0}
                 /\ From(frames[i]) \in Nat /\ From(frames[i]) < Cells
<1>1. Cells \in Nat \ {0} /\ FrameSizes \subseteq Nat \ {0}
  BY SizesFit
<1>2. \A c \in Ring : Dist(rdpt, c) \in Nat /\ Dist(rdpt, c) < Cells
  BY <1>1, DistIs DEF RingTypes, Ring
<1>3. Len(frames) \in Nat /\ \A i \in 1 .. Len(frames) : frames[i] \in StoredFrame
  BY ElementOfSeq, LenProperties DEF RingTypes
<1> QED BY <1>1, <1>2, <1>3 DEF RingTypes, From, StoredFrame

(* The ring is empty at the start.                                             *)
LEMMA RingInit == Init => RingInv
<1> SUFFICES ASSUME Init PROVE RingInv
  OBVIOUS
<1>1. 0 \in Ring
  BY SizesFit DEF Ring
<1>2. Dist(0, 0) = 0
  BY <1>1, DistIs
<1>3. ~Reading /\ \A t \in Users : pc[t] = "idle"
  BY DEF Init, Reading
<1>4. frames = <<>> /\ Len(frames) = 0
  BY DEF Init
<1>5. frames \in Seq(StoredFrame)
  BY <1>4
<1>6. RingTypes /\ QuietBoot
  BY <1>1, <1>5 DEF Init, RingTypes, QuietBoot
<1>7. OrderInv
  BY <1>3, <1>4 DEF Init, OrderInv
<1> QED BY <1>2, <1>3, <1>6, <1>7
        DEF Init, RingInv, ReadInv

(* A step that leaves the ring alone and no thread at or out of a reading step.*)
LEMMA RingKept ==
    ASSUME RingInv, UNCHANGED <<next, unreleased, rdpt, wrpt, frames>>,
           boot' \in {"reset", "start"} => boot \in {"reset", "start"} /\ rxen' = rxen,
           \A t \in Users : \/ pc'[t] = pc[t] /\ (pc[t] = "header" => erdpt' = erdpt)
                            \/ pc[t] \notin ReceivePc /\ pc'[t] \notin ReceivePc
    PROVE  RingInv'
<1>1. Reading' = Reading
  BY DEF Reading, ReceivePc
<1> QED BY <1>1 DEF RingInv, RingTypes, QuietBoot, OrderInv, ReadInv, Ends, From, Dist, ReceivePc

(* The chip appends a frame in the cells that are free.                        *)
LEMMA RingReceives ==
    ASSUME RingInv, NEW s \in FrameSizes, NEW ok \in BOOLEAN, ChipReceives(s, ok)
    PROVE  RingInv'
<1> DEFINE d == Dist(rdpt, wrpt)
           n == Len(frames)
           f == [at |-> wrpt, size |-> s, ok |-> ok]
<1>1. RingTypes /\ OrderInv /\ QuietBoot /\ ReadInv
  BY DEF RingInv
<1>2. /\ Cells \in Nat \ {0} /\ s \in Nat \ {0} /\ d \in Nat /\ n \in Nat
      /\ \A i \in 1 .. n : frames[i].at \in Ring /\ frames[i].size \in Nat \ {0}
                           /\ From(frames[i]) \in Nat
  BY <1>1, Numbers
<1>3. d + s < Cells
  <2>1. s <= (Cells - 1) - d
    BY DEF ChipReceives, Free, Dist
  <2> QED BY <1>2, <2>1
<1>4. wrpt' = (wrpt + s) % Cells /\ wrpt' \in Ring /\ Dist(rdpt, wrpt') = d + s
  BY <1>1, <1>2, <1>3, Ahead DEF ChipReceives, RingTypes
<1>5. /\ frames' = Append(frames, f) /\ Len(frames') = n + 1
      /\ frames'[n + 1] = f /\ \A i \in 1 .. n : frames'[i] = frames[i]
      /\ frames' \in Seq(StoredFrame)
  <2>1. f \in StoredFrame
    BY <1>1 DEF RingTypes, StoredFrame
  <2>2. frames \in Seq(StoredFrame)
    BY <1>1 DEF RingTypes
  <2> QED BY <2>1, <2>2, AppendProperties DEF ChipReceives
<1>6. UNCHANGED <<next, unreleased, pc, boot, rxen, rdpt, erdpt>> /\ Reading' = Reading
  BY DEF ChipReceives, Reading
<1>7. RingTypes' /\ QuietBoot'
  BY <1>1, <1>4, <1>5, <1>6 DEF RingTypes, QuietBoot, ChipReceives
<1>8. Dist(rdpt', frames'[n + 1].at) = d
      /\ (\A i \in 1 .. n : Dist(rdpt', frames'[i].at) = From(frames[i]))
  BY <1>5, <1>6 DEF From
<1>9. Dist(rdpt, wrpt)' = d + s
  BY <1>4, <1>6 DEF Dist
<1>10. \A i \in 1 .. n : From(frames[i]) + frames[i].size <= d
  BY <1>1 DEF OrderInv
<1>11. \A i \in 1 .. Len(frames') : Dist(rdpt', frames'[i].at) + frames'[i].size <= Dist(rdpt, wrpt)'
  <2> SUFFICES ASSUME NEW i \in 1 .. (n + 1)
               PROVE  Dist(rdpt', frames'[i].at) + frames'[i].size <= d + s
    BY <1>5, <1>9
  <2>1. CASE i = n + 1
    BY <1>2, <1>5, <1>8, <2>1
  <2>2. CASE i \in 1 .. n
    BY <1>2, <1>5, <1>8, <1>10, <2>2
  <2> QED BY <1>2, <2>1, <2>2
<1>12. \A i \in 1 .. Len(frames') : \A j \in (i + 1) .. Len(frames') :
          Dist(rdpt', frames'[i].at) + frames'[i].size <= Dist(rdpt', frames'[j].at)
  <2> SUFFICES ASSUME NEW i \in 1 .. (n + 1), NEW j \in (i + 1) .. (n + 1)
               PROVE  Dist(rdpt', frames'[i].at) + frames'[i].size <= Dist(rdpt', frames'[j].at)
    BY <1>5
  <2>1. i \in 1 .. n
    BY <1>2
  <2>2. CASE j = n + 1
    BY <1>5, <1>8, <1>10, <2>1, <2>2
  <2>3. CASE j \in (i + 1) .. n
    <3>1. j \in 1 .. n
      BY <2>1, <2>3
    <3>2. From(frames[i]) + frames[i].size <= From(frames[j])
      BY <1>1, <2>1, <2>3 DEF OrderInv
    <3> QED BY <1>5, <1>8, <2>1, <3>1, <3>2
  <2> QED BY <1>2, <2>2, <2>3
<1>13. \A i \in 1 .. Len(frames') :
          Ends(frames'[i]) = IF i = Len(frames') THEN wrpt' ELSE frames'[i + 1].at
  <2> SUFFICES ASSUME NEW i \in 1 .. (n + 1)
               PROVE  Ends(frames'[i]) = IF i = n + 1 THEN wrpt' ELSE frames'[i + 1].at
    BY <1>5
  <2>1. CASE i = n + 1
    BY <1>4, <1>5, <2>1 DEF Ends
  <2>2. CASE i \in 1 .. n
    <3>1. Ends(frames[i]) = IF i = n THEN wrpt ELSE frames[i + 1].at
      BY <1>1, <2>2 DEF OrderInv
    <3>2. i # n => i + 1 \in 1 .. n
      BY <1>2, <2>2
    <3> QED BY <1>2, <1>5, <2>2, <3>1, <3>2
  <2> QED BY <1>2, <2>1, <2>2
<1>14. next' = IF Reading' THEN Ends(frames'[1]) ELSE IF frames' = <<>> THEN wrpt' ELSE frames'[1].at
  <2>1. Reading => n > 0
    BY <1>1, <1>2, EmptySeq DEF ReadInv, Reading, RingTypes
  <2>2. CASE n > 0
    <3>1. frames'[1] = frames[1] /\ frames # <<>> /\ frames' # <<>>
      BY <1>2, <1>5, <2>2
    <3> QED BY <1>1, <1>6, <3>1 DEF OrderInv
  <2>3. CASE n = 0
    <3>1. frames = <<>>
      BY <1>1, <2>3, EmptySeq DEF RingTypes
    <3>2. ~Reading
      BY <2>1, <2>3
    <3>3. Len(frames') = 1 /\ frames'[1] = f
      BY <1>5, <2>3
    <3>4. frames' # <<>> /\ frames'[1].at = wrpt
      BY <3>3
    <3>5. next = wrpt
      BY <1>1, <3>1, <3>2 DEF OrderInv
    <3> QED BY <1>6, <3>2, <3>4, <3>5
  <2> QED BY <1>2, <2>2, <2>3
<1>15. OrderInv'
  BY <1>11, <1>12, <1>13, <1>14 DEF OrderInv, From, Dist, Ends
<1>16. ReadInv'
  <2>1. frames' # <<>>
    BY <1>2, <1>5
  <2> QED BY <1>1, <1>6, <2>1 DEF ReadInv, Dist
<1> QED BY <1>7, <1>15, <1>16 DEF RingInv

(* Two extents keep their order when both move.                                *)
LEMMA Shift ==
    ASSUME NEW a \in Nat, NEW z \in Nat, NEW b \in Nat, NEW k \in Nat, a + z <= b
    PROVE  (a - k + 1) + z <= b - k + 1
OBVIOUS

(* receive_packet moves ERXRDPT to the cell before the next frame.             *)
LEMMA RingReleases ==
    ASSUME CallInv, RingInv, NEW t \in Users, RecvRelease(t)
    PROVE  RingInv'
<1> DEFINE d == Dist(rdpt, wrpt)
           e == Dist(rdpt, next)
<1>1. RingTypes /\ OrderInv /\ QuietBoot /\ ReadInv
  BY DEF RingInv
<1>2. /\ Cells \in Nat \ {0} /\ d \in Nat /\ e \in Nat
      /\ \A i \in 1 .. Len(frames) : frames[i].at \in Ring /\ frames[i].size \in Nat \ {0}
                                     /\ From(frames[i]) \in Nat
  BY <1>1, Numbers
<1>3. t # Main /\ t \in Threads /\ mutex = t /\ boot = "up"
  BY MainIsNoUser DEF CallInv, RecvRelease
<1>4. Hit("ERXRDPT")
  BY <1>3 DEF CallInv, RecvRelease, RegisterAt
<1>5. rdpt' = (next - 1) % Cells /\ unreleased' = FALSE
      /\ UNCHANGED <<next, wrpt, frames, boot, rxen>> /\ pc' = [pc EXCEPT ![t] = "count"]
  BY <1>4 DEF RecvRelease
<1>6. pc[t] = "release" /\ unreleased /\ 1 <= e
  BY <1>1 DEF RecvRelease, ReadInv
<1>7. ~Reading /\ ~Reading'
  BY <1>3, <1>5, <1>6 DEF Reading, CallInv, CallTypes
<1>8. e <= d /\ \A i \in 1 .. Len(frames) : e <= From(frames[i])
  <2>1. CASE frames = <<>>
    BY <1>1, <1>2, <1>7, <2>1 DEF OrderInv
  <2>2. CASE frames # <<>>
    <3>1. Len(frames) \in Nat \ {0}
      BY <1>1, <2>2, EmptySeq, LenProperties DEF RingTypes
    <3>2. 1 \in 1 .. Len(frames) /\ next = frames[1].at /\ e = From(frames[1])
      BY <1>1, <1>7, <2>2, <3>1 DEF OrderInv, From
    <3>3. From(frames[1]) + frames[1].size <= d
      BY <1>1, <3>2 DEF OrderInv
    <3>4. ASSUME NEW i \in 2 .. Len(frames)
          PROVE  e <= From(frames[i])
      <4>1. i \in 1 .. Len(frames) /\ i \in (1 + 1) .. Len(frames)
        OBVIOUS
      <4>2. From(frames[1]) + frames[1].size <= From(frames[i])
        BY <1>1, <3>2, <4>1 DEF OrderInv
      <4> QED BY <1>2, <3>2, <4>1, <4>2
    <3> QED BY <1>2, <3>1, <3>2, <3>3, <3>4
  <2> QED BY <2>1, <2>2
<1>9. rdpt' \in Ring /\ \A c \in Ring : e <= Dist(rdpt, c) => Dist(rdpt', c) = Dist(rdpt, c) - e + 1
  <2>1. next \in Ring /\ rdpt \in Ring
    BY <1>1 DEF RingTypes
  <2>2. (next - 1) % Cells \in Ring /\ Dist(rdpt, next) <= Dist(rdpt, next)
    BY <1>2, <1>6, <2>1, Released
  <2>3. \A c \in Ring : e <= Dist(rdpt, c) =>
            Dist((next - 1) % Cells, c) = Dist(rdpt, c) - e + 1
    BY <1>6, <2>1, Released
  <2> QED BY <1>5, <2>2, <2>3
<1>10. Dist(rdpt, wrpt)' = d - e + 1 /\ Dist(rdpt, next)' = 1
  <2>1. Dist(rdpt', wrpt) = d - e + 1
    BY <1>1, <1>8, <1>9 DEF RingTypes
  <2>2. Dist(rdpt', next) = e - e + 1
    BY <1>1, <1>2, <1>9 DEF RingTypes
  <2> QED BY <1>2, <1>5, <2>1, <2>2 DEF Dist
<1>11. \A i \in 1 .. Len(frames) : From(frames[i])' = From(frames[i]) - e + 1
  BY <1>2, <1>5, <1>8, <1>9 DEF From, Dist
<1>12. OrderInv'
  <2>1. \A i \in 1 .. Len(frames) : (From(frames[i]) - e + 1) + frames[i].size <= d - e + 1
    BY <1>1, <1>2 DEF OrderInv
  <2>2. \A i \in 1 .. Len(frames) : \A j \in (i + 1) .. Len(frames) :
            (From(frames[i]) - e + 1) + frames[i].size <= From(frames[j]) - e + 1
    <3> SUFFICES ASSUME NEW i \in 1 .. Len(frames), NEW j \in (i + 1) .. Len(frames)
                 PROVE  (From(frames[i]) - e + 1) + frames[i].size <= From(frames[j]) - e + 1
      OBVIOUS
    <3>1. j \in 1 .. Len(frames)
      OBVIOUS
    <3>2. From(frames[i]) + frames[i].size <= From(frames[j])
      BY <1>1 DEF OrderInv
    <3>3. From(frames[i]) \in Nat /\ frames[i].size \in Nat /\ From(frames[j]) \in Nat /\ e \in Nat
      BY <1>2, <3>1
    <3> QED BY <3>2, <3>3, Shift
  <2>3. \A i \in 1 .. Len(frames) : \A j \in (i + 1) .. Len(frames) : j \in 1 .. Len(frames)
    OBVIOUS
  <2>4. /\ \A i \in 1 .. Len(frames)' : From(frames[i])' + frames'[i].size <= Dist(rdpt, wrpt)'
        /\ \A i \in 1 .. Len(frames)' : \A j \in (i + 1) .. Len(frames)' :
              From(frames[i])' + frames'[i].size <= From(frames[j])'
    BY <1>5, <1>10, <1>11, <2>1, <2>2, <2>3
  <2> QED BY <1>1, <1>5, <1>7, <2>4 DEF OrderInv, Ends
<1>13. ReadInv'
  <2>1. \A u \in Users : pc'[u] = IF u = t THEN "count" ELSE "idle"
    BY <1>3, <1>5 DEF CallInv, CallTypes
  <2> QED BY <1>5, <1>10, <2>1 DEF ReadInv
<1>14. RingTypes' /\ QuietBoot'
  BY <1>1, <1>3, <1>5, <1>9 DEF RingTypes, QuietBoot
<1> QED BY <1>12, <1>13, <1>14 DEF RingInv

(* The header that is read is that of the first frame.                         *)
LEMMA RingReads ==
    ASSUME CallInv, RingInv, NEW t \in Users, RecvHeader(t)
    PROVE  RingInv' /\ Aligned
<1>1. RingTypes /\ OrderInv /\ QuietBoot /\ ReadInv
  BY DEF RingInv
<1>2. t # Main /\ t \in Threads /\ mutex = t /\ boot = "up" /\ pc[t] = "header"
  BY MainIsNoUser DEF CallInv, RecvHeader
<1>3. \A u \in Threads \ {t} : pc[u] = "idle"
  BY <1>2 DEF CallInv
<1>4. frames # <<>> /\ erdpt = next /\ ~unreleased /\ Dist(rdpt, next) <= 1
  BY <1>1, <1>2 DEF ReadInv
<1>5. ~Reading
  BY <1>2, <1>3 DEF Reading
<1>6. 1 \in 1 .. Len(frames) /\ next = frames[1].at /\ Head(frames) = frames[1]
  BY <1>1, <1>4, <1>5, EmptySeq, LenProperties DEF RingTypes, OrderInv
<1>7. Aligned
  BY <1>4, <1>6 DEF Aligned
<1>8. next' = Ends(frames[1])
  BY <1>6, <1>7 DEF RecvHeader, Ends
<1>9. /\ unreleased' = TRUE /\ pc' = [pc EXCEPT ![t] = "dec"]
      /\ UNCHANGED <<rdpt, wrpt, frames, boot, rxen, erdpt>>
  BY DEF RecvHeader
<1>10. pc'[t] = "dec" /\ \A u \in Users \ {t} : pc'[u] = "idle"
  BY <1>2, <1>3, <1>9 DEF CallInv, CallTypes
<1>11. /\ Cells \in Nat \ {0} /\ frames[1].at \in Ring /\ frames[1].size \in Nat \ {0}
       /\ From(frames[1]) \in Nat /\ Dist(rdpt, wrpt) \in Nat /\ Dist(rdpt, wrpt) < Cells
       /\ From(frames[1]) + frames[1].size <= Dist(rdpt, wrpt)
  BY <1>1, <1>6, Numbers DEF OrderInv
<1>12. next' \in Ring /\ Dist(rdpt, next') = From(frames[1]) + frames[1].size
  BY <1>1, <1>8, <1>11, Ahead DEF RingTypes, From, Ends
<1>13. OrderInv'
  BY <1>1, <1>8, <1>9, <1>10, <1>2 DEF OrderInv, Ends, From, Dist, Reading
<1>14. ReadInv'
  <2>1. 1 <= Dist(rdpt, next)'
    BY <1>9, <1>11, <1>12 DEF Dist
  <2> QED BY <1>4, <1>9, <1>10, <2>1 DEF ReadInv
<1>15. RingTypes' /\ QuietBoot'
  BY <1>1, <1>2, <1>9, <1>12 DEF RingTypes, QuietBoot
<1> QED BY <1>7, <1>13, <1>14, <1>15 DEF RingInv

(* The frame that was read is counted out.                                     *)
LEMMA RingCounts ==
    ASSUME CallInv, RingInv, NEW t \in Users, RecvDec(t)
    PROVE  RingInv'
<1> DEFINE n == Len(frames)
<1>1. RingTypes /\ OrderInv /\ QuietBoot /\ ReadInv
  BY DEF RingInv
<1>2. t # Main /\ t \in Threads /\ mutex = t /\ boot = "up" /\ pc[t] = "dec"
  BY MainIsNoUser DEF CallInv, RecvDec
<1>3. \A u \in Threads \ {t} : pc[u] = "idle"
  BY <1>2 DEF CallInv
<1>4. frames # <<>> /\ unreleased /\ Reading /\ next = Ends(frames[1])
  BY <1>1, <1>2 DEF ReadInv, Reading, OrderInv
<1>5. n \in Nat \ {0}
  BY <1>1, <1>4, EmptySeq, LenProperties DEF RingTypes
<1>6. /\ frames' \in Seq(StoredFrame)
      /\ Len(frames') = n - 1 /\ \A i \in 1 .. (n - 1) : frames'[i] = frames[i + 1]
  BY <1>1, <1>4, <1>5, HeadTailProperties DEF RecvDec, RingTypes
<1>7. UNCHANGED <<next, unreleased, rdpt, wrpt, boot, rxen, erdpt>> /\ pc' = [pc EXCEPT ![t] = "idle"]
  BY DEF RecvDec
<1>8. (\A u \in Users : pc'[u] = "idle") /\ ~Reading'
  BY <1>2, <1>3, <1>7 DEF CallInv, CallTypes, Reading
<1>9. \A i \in 1 .. (n - 1) :
         Dist(rdpt', frames'[i].at) + frames'[i].size <= Dist(rdpt', wrpt')
  <2> SUFFICES ASSUME NEW i \in 1 .. (n - 1)
               PROVE  From(frames[i + 1]) + frames[i + 1].size <= Dist(rdpt, wrpt)
    BY <1>6, <1>7 DEF From
  <2>1. i + 1 \in 1 .. n
    BY <1>5
  <2> QED BY <1>1, <2>1 DEF OrderInv
<1>10. \A i \in 1 .. (n - 1) : \A j \in (i + 1) .. (n - 1) :
         Dist(rdpt', frames'[i].at) + frames'[i].size <= Dist(rdpt', frames'[j].at)
  <2> SUFFICES ASSUME NEW i \in 1 .. (n - 1), NEW j \in (i + 1) .. (n - 1)
               PROVE  Dist(rdpt', frames'[i].at) + frames'[i].size <= Dist(rdpt', frames'[j].at)
    OBVIOUS
  <2>1. i + 1 \in 1 .. n /\ j \in 1 .. (n - 1) /\ j + 1 \in ((i + 1) + 1) .. n
    BY <1>5
  <2>2. From(frames[i + 1]) + frames[i + 1].size <= From(frames[j + 1])
    BY <1>1, <2>1 DEF OrderInv
  <2> QED BY <1>6, <1>7, <2>1, <2>2 DEF From
<1>11. \A i \in 1 .. (n - 1) :
         Ends(frames'[i]) = IF i = n - 1 THEN wrpt' ELSE frames'[i + 1].at
  <2> SUFFICES ASSUME NEW i \in 1 .. (n - 1)
               PROVE  Ends(frames'[i]) = IF i = n - 1 THEN wrpt' ELSE frames'[i + 1].at
    OBVIOUS
  <2>1. i + 1 \in 1 .. n /\ (i + 1 = n <=> i = n - 1) /\ (i # n - 1 => i + 1 \in 1 .. (n - 1))
    BY <1>5
  <2>2. Ends(frames[i + 1]) = IF i + 1 = n THEN wrpt ELSE frames[(i + 1) + 1].at
    BY <1>1, <2>1 DEF OrderInv
  <2> QED BY <1>6, <1>7, <2>1, <2>2
<1>12. next' = IF frames' = <<>> THEN wrpt' ELSE frames'[1].at
  <2>1. Ends(frames[1]) = IF 1 = n THEN wrpt ELSE frames[1 + 1].at
    <3>1. 1 \in 1 .. n
      BY <1>5
    <3> QED BY <1>1, <3>1 DEF OrderInv
  <2>2. CASE n = 1
    BY <1>4, <1>6, <1>7, <2>1, <2>2, EmptySeq
  <2>3. CASE n # 1
    <3>1. 1 \in 1 .. (n - 1) /\ frames' # <<>>
      BY <1>5, <1>6, <2>3
    <3> QED BY <1>4, <1>6, <1>7, <2>1, <2>3, <3>1
  <2> QED BY <2>2, <2>3
<1>13. OrderInv'
  BY <1>6, <1>8, <1>9, <1>10, <1>11, <1>12 DEF OrderInv, Ends, From, Dist
<1>14. ReadInv'
  BY <1>1, <1>7, <1>8 DEF ReadInv, Dist
<1>15. RingTypes' /\ QuietBoot'
  BY <1>1, <1>2, <1>6, <1>7 DEF RingTypes, QuietBoot
<1> QED BY <1>13, <1>14, <1>15 DEF RingInv

(* The first steps of receive_packet: it is entered, counts and sets ERDPT.    *)
LEMMA RingBegins ==
    ASSUME CallInv, RingInv, NEW t \in Users,
           Receive(t) \/ RecvCount(t) \/ RecvPoint(t)
    PROVE  RingInv'
<1>1. UNCHANGED <<next, unreleased, rdpt, wrpt, frames, boot, rxen>>
  BY DEF Receive, RecvCount, RecvPoint
<1>2. t # Main /\ t \in Threads /\ \A u \in Threads \ {t} : pc[u] = "idle" /\ pc'[u] = pc[u]
  <2>1. mutex = t \/ mutex = NoThread
    BY MainIsNoUser DEF Receive, RecvCount, RecvPoint, CallInv
  <2> QED BY <2>1, MainIsNoUser DEF CallInv, CallTypes, Receive, RecvCount, RecvPoint
<1>3. ~Reading /\ ~Reading'
  <2>1. pc[t] # "dec" /\ pc'[t] # "dec"
    BY <1>2 DEF CallInv, CallTypes, Receive, RecvCount, RecvPoint
  <2> QED BY <1>2, <2>1 DEF Reading
<1>4. RingTypes' /\ QuietBoot' /\ OrderInv'
  BY <1>1, <1>3 DEF RingInv, RingTypes, QuietBoot, OrderInv, Ends, From, Dist
<1>5. ReadInv'
  <2>1. CASE Receive(t)
    <3>1. pc'[t] = IF unreleased THEN "release" ELSE "count"
      BY <1>2, <2>1 DEF Receive, CallInv, CallTypes
    <3> QED BY <1>1, <1>2, <3>1 DEF RingInv, ReadInv, Dist
  <2>2. CASE RecvCount(t)
    <3>1. pc[t] = "count" /\ (pc'[t] = "idle" \/ (pc'[t] = "point" /\ frames # <<>>))
      <4>1. pc[t] = "count" /\ pc \in [Threads -> {"idle"} \cup ReceivePc \cup SendPc \cup StartPc \cup LinkPc]
        BY <2>2 DEF RecvCount, CallInv, CallTypes
      <4>2. \/ frames # <<>> /\ pc' = [pc EXCEPT ![t] = "point"]
            \/ pc' = [pc EXCEPT ![t] = "idle"]
        BY <2>2 DEF RecvCount
      <4>3. CASE frames # <<>> /\ pc' = [pc EXCEPT ![t] = "point"]
        BY <1>2, <4>1, <4>3
      <4>4. CASE pc' = [pc EXCEPT ![t] = "idle"]
        <5>1. pc'[t] = "idle"
          BY <1>2, <4>1, <4>4
        <5> QED BY <4>1, <5>1
      <4> QED BY <4>2, <4>3, <4>4
    <3> QED BY <1>1, <1>2, <3>1 DEF RingInv, ReadInv, Dist
  <2>3. CASE RecvPoint(t)
    <3>1. Hit("ERDPT")
      BY <1>2, <2>3 DEF RecvPoint, CallInv, RegisterAt
    <3>2. pc[t] = "point" /\ pc'[t] = "header" /\ erdpt' = next
      BY <1>2, <2>3, <3>1 DEF RecvPoint, CallInv, CallTypes
    <3> QED BY <1>1, <1>2, <3>2 DEF RingInv, ReadInv, Dist
  <2> QED BY <2>1, <2>2, <2>3
<1> QED BY <1>4, <1>5 DEF RingInv

(* The other functions leave the ring alone, and so does the start of a chip   *)
(* that has received nothing.                                                  *)
LEMMA RingOthers ==
    ASSUME CallInv, RingInv, NEW t \in Users,
           \/ Send(t) \/ Link(t) \/ SetFilter(t) \/ SetBank(t) \/ LinkStep(t)
           \/ SendReset(t) \/ SendLoad(t) \/ SendFire(t) \/ SendPoll(t) \/ SendStatus(t)
    PROVE  RingInv'
<1> USE DEF Send, Link, SetFilter, SetBank, LinkStep, SendReset, SendLoad, SendFire, SendPoll,
            SendStatus, Select
<1>1. UNCHANGED <<next, unreleased, rdpt, wrpt, frames, boot, rxen>>
  OBVIOUS
<1>2. CASE SetFilter(t) \/ SetBank(t)
  BY <1>1, <1>2, RingKept
<1>3. CASE ~(SetFilter(t) \/ SetBank(t))
  <2>1. t # Main /\ t \in Threads /\ \A u \in Threads \ {t} : pc[u] = "idle" /\ pc'[u] = pc[u]
    <3>1. mutex = t \/ mutex = NoThread
      BY <1>3, MainIsNoUser DEF CallInv
    <3> QED BY <1>3, <3>1, MainIsNoUser DEF CallInv, CallTypes
  <2>2. pc[t] \notin ReceivePc /\ pc'[t] \notin ReceivePc
    BY <1>3, <2>1 DEF CallInv, CallTypes, ReceivePc
  <2> QED BY <1>1, <2>1, <2>2, RingKept
<1> QED BY <1>2, <1>3

(* Starting the chip keeps RingInv: there is no frame to lose yet.             *)
LEMMA RingStarts ==
    ASSUME ~Restarts, CallInv, RingInv,
           StartStep \/ SetMac(Main) \/ NoSettings \/ SoftReset \/ Start
    PROVE  RingInv'
<1>1. \A u \in Users : u \in Threads /\ u # Main
  BY MainIsNoUser
<1>2. CASE StartStep
  <2> USE DEF StartStep, SetBank, StartClock, StartRing, StartFilters, StartPhy, StartMac,
              StartEnable, Return, Select
  <2>1. pc[Main] # "idle"
    BY <1>2 DEF RegisterAt
  <2>2. mutex = Main /\ boot = "start" /\ \A u \in Users : pc[u] = "idle"
    BY <1>1, <2>1 DEF CallInv
  <2>3. \A u \in Users : pc'[u] = pc[u]
    BY <1>1, <1>2 DEF CallInv, CallTypes
  <2>4. next = 0 /\ rdpt = 0 /\ wrpt = 0 /\ frames = <<>> /\ ~unreleased
    BY <2>2 DEF RingInv, QuietBoot
  <2>5. UNCHANGED <<next, unreleased, rdpt, wrpt, frames>>
    BY <1>2, <2>4
  <2>6. boot' = "mac" \/ (boot' = boot /\ rxen' = rxen)
    <3>1. CASE StartEnable
      <4>1. boot' = "mac"
        BY <2>2, <3>1
      <4> QED BY <4>1
    <3>2. CASE ~StartEnable
      <4>1. rxen' = rxen
        BY <1>2, <3>2
      <4> QED BY <1>2, <2>2, <3>2, <4>1 DEF RingInv, RingTypes
    <3> QED BY <3>1, <3>2
  <2> QED BY <2>2, <2>3, <2>5, <2>6, RingKept DEF ReceivePc
<1>3. CASE SetMac(Main) \/ NoSettings
  BY <1>3, RingKept DEF SetMac, NoSettings, Select
<1>4. CASE SoftReset
  <2>1. boot = "reset" /\ boot' = "start" /\ UNCHANGED pc
    BY <1>4 DEF SoftReset
  <2>2. \A u \in Users : pc[u] = "idle"
    BY <1>1, <2>1 DEF CallInv
  <2>3. UNCHANGED <<next, unreleased, rdpt, wrpt, frames>> /\ rxen' = rxen
    BY <1>4, <2>1 DEF SoftReset, RingInv, QuietBoot, RingTypes
  <2> QED BY <2>1, <2>2, <2>3, RingKept DEF ReceivePc
<1>5. CASE Start
  <2>1. boot = "start" /\ boot' = boot /\ rxen' = rxen
    BY <1>5 DEF Start
  <2>2. UNCHANGED <<next, unreleased, rdpt, wrpt, frames>>
    BY <1>5, <2>1 DEF Start, RingInv, QuietBoot, RingTypes
  <2>3. \A u \in Users : pc[u] = "idle" /\ pc'[u] = pc[u]
    BY <1>1, <1>5, <2>1 DEF Start, CallInv, CallTypes
  <2> QED BY <2>1, <2>2, <2>3, RingKept DEF ReceivePc
<1> QED BY <1>2, <1>3, <1>4, <1>5

(* No step breaks RingInv, as long as the chip is not started twice.           *)
LEMMA RingStep ==
    ASSUME ~Restarts, CallInv, RingInv, [Next]_vars
    PROVE  RingInv'
<1>1. ASSUME NEW t \in Users, UserStep(t) PROVE RingInv'
  <2>1. CASE RecvRelease(t) BY <2>1, RingReleases
  <2>2. CASE RecvHeader(t) BY <2>2, RingReads
  <2>3. CASE RecvDec(t) BY <2>3, RingCounts
  <2>4. CASE RecvCount(t) \/ RecvPoint(t) BY <2>4, RingBegins
  <2>5. CASE SendReset(t) \/ SendLoad(t) \/ SendFire(t) \/ SendPoll(t) \/ SendStatus(t)
             \/ LinkStep(t) \/ SetBank(t)
    BY <2>5, RingOthers, Zenon
  <2> QED BY <1>1, <2>1, <2>2, <2>3, <2>4, <2>5 DEF UserStep
<1>2. ASSUME NEW t \in Users, Receive(t) \/ Send(t) \/ Link(t) \/ SetFilter(t) PROVE RingInv'
  BY <1>2, RingBegins, RingOthers
<1>3. ASSUME NEW s \in FrameSizes, NEW ok \in BOOLEAN, ChipReceives(s, ok) PROVE RingInv'
  BY <1>3, RingReceives
<1>4. CASE UNCHANGED vars
  BY <1>4, RingKept DEF vars
<1> QED BY <1>1, <1>2, <1>3, <1>4, RingStarts DEF Next

(* Both invariants hold in every reachable state.                              *)
LEMMA RingCorrect == ASSUME ~Restarts PROVE Spec => [](CallInv /\ RingInv)
<1>1. Init => CallInv /\ RingInv
  BY CallInit, RingInit
<1>2. CallInv /\ RingInv /\ [Next]_vars => CallInv' /\ RingInv'
  BY CallStep, RingStep, Zenon
<1> QED BY <1>1, <1>2, PTL DEF Spec

-----------------------------------------------------------------------------
(* The queue.                                                                 *)

(* A frame is appended to what is waiting whether or not one is being read.    *)
LEMMA AppendBehind ==
    ASSUME NEW S, NEW q \in Seq(S), NEW f \in S, q # <<>>
    PROVE  Tail(Append(q, f)) = Append(Tail(q), f)
<1>1. Len(q) \in Nat \ {0}
  BY EmptySeq, LenProperties
<1>2. /\ Tail(q) \in Seq(S) /\ Len(Tail(q)) = Len(q) - 1
      /\ \A i \in 1 .. (Len(q) - 1) : Tail(q)[i] = q[i + 1]
  BY HeadTailProperties
<1>3. /\ Append(q, f) \in Seq(S) /\ Append(q, f) # <<>> /\ Len(Append(q, f)) = Len(q) + 1
      /\ Append(q, f)[Len(q) + 1] = f /\ \A i \in 1 .. Len(q) : Append(q, f)[i] = q[i]
  BY AppendProperties
<1>4. /\ Tail(Append(q, f)) \in Seq(S) /\ Len(Tail(Append(q, f))) = Len(q)
      /\ \A i \in 1 .. Len(q) : Tail(Append(q, f))[i] = Append(q, f)[i + 1]
  BY <1>1, <1>3, HeadTailProperties
<1>5. /\ Append(Tail(q), f) \in Seq(S) /\ Len(Append(Tail(q), f)) = Len(q)
      /\ Append(Tail(q), f)[Len(q)] = f
      /\ \A i \in 1 .. (Len(q) - 1) : Append(Tail(q), f)[i] = q[i + 1]
  BY <1>1, <1>2, AppendProperties
<1>6. \A i \in 1 .. Len(q) : Tail(Append(q, f))[i] = Append(Tail(q), f)[i]
  <2> SUFFICES ASSUME NEW i \in 1 .. Len(q)
               PROVE  Append(q, f)[i + 1] = Append(Tail(q), f)[i]
    BY <1>4
  <2>1. CASE i = Len(q)
    BY <1>3, <1>5, <2>1
  <2>2. CASE i # Len(q)
    <3>1. i \in 1 .. (Len(q) - 1) /\ i + 1 \in 1 .. Len(q)
      BY <1>1, <2>2
    <3> QED BY <1>3, <1>5, <3>1
  <2> QED BY <2>1, <2>2
<1> QED BY <1>4, <1>5, <1>6, SeqEqual

(* A step of the chip or of the driver stores a frame, receives one, or leaves *)
(* the queue as it is.                                                         *)
LEMMA QueueStep ==
    ASSUME ~Restarts, CallInv, RingInv, [Next]_vars
    PROVE  [Queue!Next]_(Queue!vars)
<1> USE DEF Queue!vars
<1>1. frames \in Seq(StoredFrame) /\ \A u \in Users : u \in Threads /\ u # Main
  BY MainIsNoUser DEF RingInv, RingTypes
<1>2. CASE Reading' = Reading /\ frames' = frames /\ buffer' = buffer
  BY <1>2 DEF Waiting
<1>3. ASSUME NEW s \in FrameSizes, NEW ok \in BOOLEAN, ChipReceives(s, ok)
      PROVE  Queue!Next
  <2> DEFINE f == [at |-> wrpt, size |-> s, ok |-> ok]
  <2>1. f \in StoredFrame
    BY DEF RingInv, RingTypes, StoredFrame
  <2>2. frames' = Append(frames, f) /\ frames' # <<>> /\ Reading' = Reading /\ buffer' = buffer
    BY <1>1, <1>3, <2>1, AppendProperties DEF ChipReceives, Reading
  <2> HIDE DEF f
  <2>3. Waiting' = Append(Waiting, f)
    <3>1. CASE Reading /\ frames # <<>>
      BY <1>1, <2>1, <2>2, <3>1, AppendBehind DEF Waiting
    <3>2. CASE ~Reading
      BY <2>2, <3>2 DEF Waiting
    <3>3. Reading => frames # <<>>
      BY DEF RingInv, ReadInv, Reading
    <3> QED BY <3>1, <3>2, <3>3
  <2> QED BY <2>1, <2>2, <2>3 DEF Queue!Next, Queue!Store
<1>4. ASSUME NEW t \in Users, RecvHeader(t) PROVE Queue!Next
  <2>1. frames # <<>> /\ Aligned
    BY <1>4, RingReads DEF Aligned
  <2>2. pc[t] = "header" /\ \A u \in Users \ {t} : pc[u] = "idle"
    BY <1>1, <1>4 DEF RecvHeader, CallInv
  <2>3. ~Reading /\ Reading' /\ frames' = frames
    BY <1>1, <1>4, <2>2 DEF RecvHeader, Reading, CallInv, CallTypes
  <2>4. Waiting = frames /\ Waiting' = Tail(frames)
    BY <2>1, <2>3 DEF Waiting
  <2>5. Head(frames) \in StoredFrame
    BY <1>1, <2>1, HeadTailProperties
  <2>6. buffer' = IF Head(frames).ok THEN Head(frames) ELSE buffer
    BY <1>4, <2>1 DEF RecvHeader
  <2> QED BY <2>1, <2>4, <2>5, <2>6 DEF Queue!Next, Queue!Receive
<1>5. ASSUME NEW t \in Users, RecvDec(t) PROVE UNCHANGED Queue!vars
  <2>1. pc[t] = "dec" /\ (\A u \in Users \ {t} : pc[u] = "idle") /\ pc'[t] = "idle"
        /\ \A u \in Users \ {t} : pc'[u] = "idle"
    BY <1>1, <1>5 DEF RecvDec, CallInv, CallTypes
  <2>2. Reading /\ ~Reading' /\ frames # <<>>
    BY <2>1 DEF Reading, RingInv, ReadInv
  <2> QED BY <1>5, <2>2 DEF RecvDec, Waiting
<1>6. ASSUME NEW t \in Users,
             \/ Receive(t) \/ RecvRelease(t) \/ RecvCount(t) \/ RecvPoint(t)
             \/ Send(t) \/ Link(t) \/ SetFilter(t) \/ SetBank(t) \/ LinkStep(t)
             \/ SendReset(t) \/ SendLoad(t) \/ SendFire(t) \/ SendPoll(t) \/ SendStatus(t)
      PROVE  Reading' = Reading /\ frames' = frames /\ buffer' = buffer
  <2> USE DEF Receive, RecvRelease, RecvCount, RecvPoint, Send, SetFilter, SetBank, Link, LinkStep,
              SendReset, SendLoad, SendFire, SendPoll, SendStatus, Select
  <2>1. frames' = frames /\ buffer' = buffer
    BY <1>6
  <2>2. \A u \in Users : u # t => pc'[u] = pc[u]
    BY <1>1, <1>6 DEF CallInv, CallTypes
  <2>3. pc[t] = "dec" <=> pc'[t] = "dec"
    BY <1>1, <1>6 DEF CallInv, CallTypes
  <2> QED BY <2>1, <2>2, <2>3 DEF Reading
<1>7. ASSUME StartStep \/ SetMac(Main) \/ NoSettings \/ Start
      PROVE  Reading' = Reading /\ frames' = frames /\ buffer' = buffer
  <2> USE DEF StartStep, SetBank, StartClock, StartRing, StartFilters, StartPhy, StartMac,
              StartEnable, Return, Select, SetMac, NoSettings, Start
  <2>1. frames' = frames /\ buffer' = buffer
    BY <1>7
  <2>2. \A u \in Users : pc'[u] = pc[u]
    BY <1>1, <1>7 DEF CallInv, CallTypes
  <2> QED BY <2>1, <2>2 DEF Reading
<1>8. CASE SoftReset
  <2>1. frames = <<>> /\ boot = "reset"
    BY <1>8 DEF SoftReset, RingInv, QuietBoot
  <2> QED BY <1>2, <1>8, <2>1 DEF SoftReset, Reading
<1>9. CASE UNCHANGED vars
  BY <1>2, <1>9 DEF vars, Reading
<1> QED BY <1>2, <1>3, <1>4, <1>5, <1>6, <1>7, <1>8, <1>9 DEF Next, UserStep

(* The driver and the chip are the queue that the receive path takes them for: *)
(* frames come out in the order they were stored, each once and whole          *)
(* (receive_packet, enc28j60.c:648-698).                                       *)
THEOREM QueueImplemented == ASSUME ~Restarts PROVE Spec => ImplementsQueue
<1>1. Init => Queue!Init
  <2>1. NoFrame \notin StoredFrame
    BY SizesFit DEF NoFrame, StoredFrame
  <2> QED BY <2>1 DEF Init, Queue!Init, Waiting
<1>2. CallInv /\ RingInv /\ [Next]_vars => [Queue!Next]_(Queue!vars)
  BY QueueStep
<1> QED BY <1>1, <1>2, RingCorrect, PTL DEF Spec, ImplementsQueue, Queue!Spec

-----------------------------------------------------------------------------
(* What the ring invariant says.                                              *)

(* The cells the chip may write next hold no frame that is still to be read,   *)
(* however full the ring (enc28j60.c:624-700).                                 *)
THEOREM UnreadKept == ASSUME ~Restarts PROVE Spec => []UnreadIntact
<1>1. RingInv => UnreadIntact
  <2> SUFFICES ASSUME RingInv, NEW i \in 1 .. Len(frames),
                      NEW j \in 0 .. (frames[i].size - 1), NEW k \in 0 .. (Free - 1),
                      (frames[i].at + j) % Cells = (wrpt + k) % Cells
               PROVE  FALSE
    <3>1. DOMAIN frames = 1 .. Len(frames)
      BY LenProperties DEF RingInv, RingTypes
    <3> QED BY <3>1 DEF UnreadIntact, CellsOf, Writable
  <2>1. /\ Cells \in Nat \ {0} /\ Dist(rdpt, wrpt) \in Nat /\ rdpt \in Ring /\ wrpt \in Ring
        /\ frames[i].at \in Ring /\ frames[i].size \in Nat \ {0} /\ From(frames[i]) \in Nat
        /\ Dist(rdpt, wrpt) < Cells
    BY Numbers DEF RingInv, RingTypes
  <2>2. From(frames[i]) + frames[i].size <= Dist(rdpt, wrpt)
    BY DEF RingInv, OrderInv
  <2>3. Free = (Cells - 1) - Dist(rdpt, wrpt)
    BY DEF Free, Dist
  <2>4. j \in Nat /\ k \in Nat /\ j < frames[i].size /\ Dist(rdpt, wrpt) + k < Cells
    BY <2>1, <2>3
  <2>5. Dist(rdpt, (wrpt + k) % Cells) = Dist(rdpt, wrpt) + k
    BY <2>1, <2>4, Ahead
  <2>6. Dist(rdpt, frames[i].at) + j < Cells
    BY <2>1, <2>2, <2>4 DEF From
  <2>7. Dist(rdpt, (frames[i].at + j) % Cells) = From(frames[i]) + j
    BY <2>1, <2>4, <2>6, Ahead DEF From
  <2> QED BY <2>1, <2>2, <2>4, <2>5, <2>7
<1> QED BY <1>1, RingCorrect, PTL

(* With every frame read and receive_packet called once more, the whole ring   *)
(* but the cell below ERXRDPT is free again (enc28j60.c:624-700).              *)
THEOREM RingRegained == ASSUME ~Restarts PROVE Spec => []NothingLeaks
<1>1. CallInv /\ RingInv => NothingLeaks
  <2> SUFFICES ASSUME CallInv, RingInv, NEW t \in Users, pc[t] = "count", frames = <<>>
               PROVE  Free >= Cells - 2
    BY DEF NothingLeaks
  <2>1. ~Reading
    BY DEF CallInv, Reading
  <2>2. next = wrpt /\ Dist(rdpt, next) <= 1
    BY <2>1 DEF RingInv, OrderInv, ReadInv
  <2>3. Cells \in Nat \ {0} /\ Dist(rdpt, wrpt) \in Nat
    BY Numbers DEF RingInv
  <2>4. Free = (Cells - 1) - Dist(rdpt, wrpt)
    BY DEF Free, Dist
  <2> QED BY <2>2, <2>3, <2>4
<1> QED BY <1>1, RingCorrect, PTL

-----------------------------------------------------------------------------
(* Types and mutual exclusion, also when the chip is started again under its   *)
(* users.                                                                      *)

Pcs == {"idle"} \cup ReceivePc \cup SendPc \cup StartPc \cup LinkPc

CallsTyped ==
    /\ mutex \in Threads \cup {NoThread}
    /\ pc \in [Threads -> Pcs]
    /\ selected \in [Threads -> BOOLEAN]
    /\ retry \in [Threads -> 0 .. (MaxRetry + 1)]
    /\ boot \in {"reset", "start", "mac", "up"} /\ connected \in BOOLEAN
BanksTyped == bank \in Banks /\ bsel \in Banks /\ stray \subseteq Registers
ChipTyped ==
    /\ unreleased \in BOOLEAN /\ ready \in BOOLEAN /\ rxen \in BOOLEAN
    /\ next \in Ring /\ rdpt \in Ring /\ wrpt \in Ring /\ erdpt \in Ring \cup {Tsv}
    /\ frames \in Seq(StoredFrame) /\ buffer \in StoredFrame \cup {NoFrame}
    /\ tx \in {"none", "done", "error", "late", "stuck"}

(* Whoever is inside a function of the driver has its mutex.                   *)
OneInside == \A t \in Threads : pc[t] # "idle" => mutex = t

(* A step of a thread that is inside: it goes on, or leaves and releases.      *)
LEMMA InsideMoves ==
    ASSUME CallsTyped, OneInside, NEW t \in Threads, pc[t] # "idle",
           NEW l \in Pcs, pc' = [pc EXCEPT ![t] = l],
           IF l = "idle" THEN mutex' = NoThread ELSE mutex' = mutex,
           \/ retry' = retry
           \/ retry' = [retry EXCEPT ![t] = 0]
           \/ retry[t] <= MaxRetry /\ retry' = [retry EXCEPT ![t] = @ + 1],
           \/ selected' = selected
           \/ selected' = [selected EXCEPT ![t] = FALSE],
           boot' \in {"reset", "start", "mac", "up"}, connected' \in BOOLEAN
    PROVE  CallsTyped' /\ OneInside'
<1>1. mutex = t /\ \A u \in Threads \ {t} : pc[u] = "idle"
  BY DEF OneInside
<1>2. \A u \in Threads \ {t} : pc'[u] = "idle"
  BY <1>1 DEF CallsTyped
<1>3. OneInside'
  BY <1>1, <1>2 DEF OneInside, CallsTyped
<1>4. retry' \in [Threads -> 0 .. (MaxRetry + 1)]
  <2>1. MaxRetry \in Nat
    BY RetryIsNat
  <2>2. CASE retry[t] <= MaxRetry /\ retry' = [retry EXCEPT ![t] = @ + 1]
    <3>1. retry[t] \in 0 .. (MaxRetry + 1)
      BY DEF CallsTyped
    <3>2. retry[t] + 1 \in 0 .. (MaxRetry + 1)
      BY <2>1, <2>2, <3>1
    <3> QED BY <2>2, <3>2 DEF CallsTyped
  <2>3. 0 \in 0 .. (MaxRetry + 1)
    BY <2>1
  <2> QED BY <2>2, <2>3 DEF CallsTyped
<1>5. selected' \in [Threads -> BOOLEAN]
  BY DEF CallsTyped
<1>6. pc' \in [Threads -> Pcs]
  BY DEF CallsTyped
<1>7. mutex' \in Threads \cup {NoThread}
  BY <1>1
<1> QED BY <1>3, <1>4, <1>5, <1>6, <1>7 DEF CallsTyped

(* What a step of a function under way does to the calls.                      *)
LEMMA UserMoves ==
    ASSUME CallsTyped, OneInside, NEW t \in Users, UserStep(t)
    PROVE  CallsTyped' /\ OneInside'
<1>1. t \in Threads /\ boot \in {"reset", "start", "mac", "up"} /\ connected \in BOOLEAN
      /\ retry[t] \in Nat /\ MaxRetry \in Nat
  BY RetryIsNat DEF CallsTyped
<1>2. ReceivePc \subseteq Pcs /\ SendPc \subseteq Pcs /\ LinkPc \subseteq Pcs /\ "idle" \in Pcs
  BY DEF Pcs
<1> USE DEF ReceivePc, SendPc, LinkPc
<1>3. CASE SetBank(t)
  BY <1>1, <1>3 DEF SetBank, CallsTyped, OneInside
<1>4. CASE RecvRelease(t) \/ RecvPoint(t) \/ RecvHeader(t)
  BY <1>1, <1>2, <1>4, InsideMoves DEF RecvRelease, RecvPoint, RecvHeader
<1>5. CASE RecvCount(t)
  BY <1>1, <1>2, <1>5, InsideMoves DEF RecvCount
<1>6. CASE RecvDec(t)
  BY <1>1, <1>2, <1>6, InsideMoves DEF RecvDec
<1>7. CASE SendReset(t)
  BY <1>1, <1>2, <1>7, InsideMoves DEF SendReset
<1>8. CASE SendLoad(t) \/ SendFire(t)
  BY <1>1, <1>2, <1>8, InsideMoves DEF SendLoad, SendFire
<1>9. CASE SendPoll(t)
  BY <1>1, <1>2, <1>9, InsideMoves DEF SendPoll
<1>10. CASE SendStatus(t)
  <2>1. pc[t] # "idle" /\ boot' = boot /\ connected' = connected
        /\ selected' = [selected EXCEPT ![t] = FALSE]
    BY <1>10 DEF SendStatus
  <2>2. CASE Leave(t)
    BY <1>1, <1>2, <2>1, <2>2, InsideMoves
  <2>3. CASE ~Leave(t)
    <3>1. retry[t] <= MaxRetry /\ retry' = [retry EXCEPT ![t] = @ + 1]
          /\ pc' = [pc EXCEPT ![t] = "txreset"] /\ mutex' = mutex
      BY <1>1, <1>10, <2>3 DEF SendStatus
    <3> QED BY <1>1, <1>2, <2>1, <3>1, InsideMoves
  <2> QED BY <2>2, <2>3
<1>11. CASE LinkStep(t)
  BY <1>1, <1>2, <1>11, InsideMoves DEF LinkStep
<1> QED BY <1>3, <1>4, <1>5, <1>6, <1>7, <1>8, <1>9, <1>10, <1>11 DEF UserStep

(* The steps of enc28j60_start.                                                *)
LEMMA StartMoves ==
    ASSUME CallsTyped, OneInside, StartStep
    PROVE  CallsTyped' /\ OneInside'
<1>1. Main \in Threads /\ boot \in {"reset", "start", "mac", "up"} /\ connected \in BOOLEAN
  BY DEF CallsTyped
<1>2. StartPc \subseteq Pcs /\ "idle" \in Pcs
  BY DEF Pcs
<1> USE DEF StartPc, Return
<1>3. CASE SetBank(Main)
  BY <1>1, <1>3 DEF SetBank, CallsTyped, OneInside
<1>4. CASE StartClock
  BY <1>1, <1>2, <1>4, InsideMoves DEF StartClock
<1>5. CASE StartRing \/ StartFilters \/ StartMac
  BY <1>1, <1>2, <1>5, InsideMoves DEF StartRing, StartFilters, StartMac
<1>6. CASE StartPhy
  BY <1>1, <1>2, <1>6, InsideMoves DEF StartPhy
<1>7. CASE StartEnable
  BY <1>1, <1>2, <1>7, InsideMoves DEF StartEnable
<1> QED BY <1>3, <1>4, <1>5, <1>6, <1>7 DEF StartStep

(* A function is entered when nobody is inside.                                *)
LEMMA EnterMoves ==
    ASSUME CallsTyped, OneInside, NEW t \in Threads, NEW l \in Pcs, Enter(t, l),
           UNCHANGED <<retry, boot, connected>>
    PROVE  CallsTyped' /\ OneInside'
<1>1. \A u \in Threads : pc[u] = "idle"
  BY MainIsNoUser DEF OneInside
<1>2. pc' = [pc EXCEPT ![t] = l] /\ mutex' = t /\ selected' = selected
  OBVIOUS
<1>3. OneInside'
  BY <1>1, <1>2 DEF OneInside, CallsTyped
<1> QED BY <1>2, <1>3 DEF CallsTyped

(* No step of any thread lets a second one in, or a thread out of its calls.   *)
LEMMA CallsStep == CallsTyped /\ OneInside /\ [Next]_vars => CallsTyped' /\ OneInside'
<1> SUFFICES ASSUME CallsTyped, OneInside, [Next]_vars
             PROVE  CallsTyped' /\ OneInside'
  OBVIOUS
<1>1. ASSUME NEW t \in Users, Receive(t) \/ Send(t) \/ Link(t)
      PROVE  CallsTyped' /\ OneInside'
  <2>1. t \in Threads /\ {"release", "count", "txreset", "miird"} \subseteq Pcs
    BY DEF Pcs, ReceivePc, SendPc, LinkPc
  <2>2. CASE Receive(t)
    <3> HIDE DEF Enter
    <3> QED BY <2>1, <2>2, EnterMoves DEF Receive
  <2>3. CASE Send(t) \/ Link(t)
    <3> HIDE DEF Enter
    <3> QED BY <2>1, <2>3, EnterMoves DEF Send, Link
  <2> QED BY <1>1, <2>2, <2>3
<1>2. CASE Start
  <2>1. Main \in Threads /\ "clkrdy" \in Pcs
    BY DEF Pcs, StartPc
  <2> HIDE DEF Enter
  <2> QED BY <1>2, <2>1, EnterMoves DEF Start
<1>3. CASE SetMac(Main) \/ NoSettings \/ SoftReset
  BY <1>3 DEF SetMac, NoSettings, SoftReset, CallsTyped, OneInside
<1>4. ASSUME UNCHANGED calls PROVE CallsTyped' /\ OneInside'
  BY <1>4 DEF CallsTyped, OneInside
<1>5. (\E s \in FrameSizes, ok \in BOOLEAN : ChipReceives(s, ok)) => UNCHANGED calls
  BY DEF ChipReceives
<1>6. (\E t \in Users : SetFilter(t)) \/ UNCHANGED vars => UNCHANGED calls
  BY DEF SetFilter, vars
<1> QED BY <1>1, <1>2, <1>3, <1>4, <1>5, <1>6, UserMoves, StartMoves DEF Next

(* A register that a step names is one of the chip's.                          *)
LEMMA BanksStep == BanksTyped /\ [Next]_vars => BanksTyped'
<1> SUFFICES ASSUME BanksTyped, [Next]_vars PROVE BanksTyped'
  OBVIOUS
<1>1. /\ \A l \in DOMAIN RegisterAt : RegisterAt[l] \in Registers /\ Bank[RegisterAt[l]] \in Banks
      /\ {"ERXFCON", "MAADR"} \subseteq Registers
      /\ Bank["ERXFCON"] \in Banks /\ Bank["MAADR"] \in Banks /\ 0 \in Banks
  BY DEF RegisterAt, Registers, Bank, Banks
<1>2. ASSUME NEW t \in Threads, Access(t), pc[t] \in DOMAIN RegisterAt PROVE BanksTyped'
  BY <1>1, <1>2 DEF BanksTyped
<1>3. ASSUME UNCHANGED <<bank, bsel, stray>> PROVE BanksTyped'
  BY <1>3 DEF BanksTyped
<1>4. ASSUME NEW t \in Threads, SetBank(t) PROVE BanksTyped'
  BY <1>1, <1>4 DEF SetBank, Select, BanksTyped
<1>5. ASSUME NEW t \in Users, UserStep(t) PROVE BanksTyped'
  <2>1. t \in Threads
    OBVIOUS
  <2> HIDE DEF Access
  <2>2. CASE \/ RecvRelease(t) \/ RecvCount(t) \/ RecvPoint(t) \/ SendLoad(t)
             \/ SendPoll(t) \/ SendStatus(t) \/ LinkStep(t)
    BY <1>2, <2>1, <2>2, BankValues
       DEF RecvRelease, RecvCount, RecvPoint, SendLoad, SendPoll, SendStatus, LinkStep
  <2>3. CASE RecvHeader(t) \/ RecvDec(t) \/ SendReset(t) \/ SendFire(t)
    BY <1>3, <2>3 DEF RecvHeader, RecvDec, SendReset, SendFire
  <2> QED BY <1>4, <1>5, <2>1, <2>2, <2>3 DEF UserStep
<1>6. CASE StartStep
  <2>1. Main \in Threads
    OBVIOUS
  <2> HIDE DEF Access
  <2>2. CASE StartRing \/ StartFilters \/ StartPhy \/ StartMac
    BY <1>2, <2>1, <2>2, BankValues DEF StartRing, StartFilters, StartPhy, StartMac
  <2>3. CASE StartClock
    BY <1>3, <2>3 DEF StartClock
  <2>4. CASE StartEnable
    BY <1>1, <2>4 DEF StartEnable, BanksTyped
  <2> QED BY <1>4, <1>6, <2>1, <2>2, <2>3, <2>4 DEF StartStep
<1>7. CASE \E t \in Users : Receive(t) \/ Send(t) \/ Link(t)
  BY <1>3, <1>7 DEF Receive, Send, Link
<1>8. CASE (\E t \in Users : SetFilter(t)) \/ SetMac(Main)
  BY <1>1, <1>8 DEF SetFilter, SetMac, Select, BanksTyped
<1>9. CASE NoSettings \/ (\E s \in FrameSizes, ok \in BOOLEAN : ChipReceives(s, ok)) \/ UNCHANGED vars
  BY <1>3, <1>9 DEF NoSettings, ChipReceives, vars
<1>10. CASE SoftReset \/ Start
  BY <1>1, <1>10 DEF SoftReset, Start, BanksTyped
<1> QED BY <1>5, <1>6, <1>7, <1>8, <1>9, <1>10 DEF Next

(* The pointers stay on the ring, whatever is read as a header.                *)
LEMMA ChipStep == ChipTyped /\ [Next]_vars => ChipTyped'
<1> SUFFICES ASSUME ChipTyped, [Next]_vars PROVE ChipTyped'
  OBVIOUS
<1>1. Cells \in Nat \ {0} /\ FrameSizes \subseteq Nat \ {0} /\ 0 \in Ring
  BY SizesFit DEF Ring
<1>2. \A a \in Int : a % Cells \in Ring
  BY <1>1 DEF Ring
<1>3. ASSUME UNCHANGED <<unreleased, next, erdpt, tx, ringVars, buffer>> PROVE ChipTyped'
  BY <1>3 DEF ChipTyped
<1>4. ASSUME NEW s \in FrameSizes, NEW ok \in BOOLEAN, ChipReceives(s, ok) PROVE ChipTyped'
  <2>1. [at |-> wrpt, size |-> s, ok |-> ok] \in StoredFrame
    BY DEF ChipTyped, StoredFrame
  <2>2. frames' \in Seq(StoredFrame)
    BY <1>4, <2>1, AppendProperties DEF ChipReceives, ChipTyped
  <2>3. wrpt + s \in Int
    BY <1>1 DEF ChipTyped, Ring
  <2>4. wrpt' \in Ring
    BY <1>2, <1>4, <2>3 DEF ChipReceives
  <2> QED BY <1>4, <2>2, <2>4 DEF ChipReceives, ChipTyped
<1>5. ASSUME NEW t \in Users, RecvRelease(t) PROVE ChipTyped'
  <2>1. next - 1 \in Int
    BY DEF ChipTyped, Ring
  <2> QED BY <1>2, <1>5, <2>1 DEF RecvRelease, ChipTyped
<1>6. ASSUME NEW t \in Users, RecvPoint(t) \/ SendPoll(t) PROVE ChipTyped'
  BY <1>6 DEF RecvPoint, SendPoll, ChipTyped
<1>7. ASSUME NEW t \in Users, RecvHeader(t) PROVE ChipTyped'
  <2>1. CASE Aligned
    <3>1. Head(frames) \in StoredFrame
      BY <2>1, HeadTailProperties DEF Aligned, ChipTyped
    <3>2. Head(frames).at + Head(frames).size \in Int
      <4>1. Head(frames).at \in Ring /\ Head(frames).size \in FrameSizes
        BY <3>1 DEF StoredFrame
      <4> HIDE DEF Ring
      <4>2. Ring \subseteq Int /\ FrameSizes \subseteq Int
        BY <1>1 DEF Ring
      <4>3. \A a \in Int, b \in Int : a + b \in Int
        OBVIOUS
      <4> QED BY <4>1, <4>2, <4>3
    <3>3. next' \in Ring /\ buffer' \in StoredFrame \cup {NoFrame}
      BY <1>2, <1>7, <2>1, <3>1, <3>2 DEF RecvHeader, ChipTyped
    <3> QED BY <1>7, <3>3 DEF RecvHeader, ChipTyped
  <2>2. CASE ~Aligned
    BY <1>7, <2>2 DEF RecvHeader, ChipTyped
  <2> QED BY <2>1, <2>2
<1>8. ASSUME NEW t \in Users, RecvDec(t) PROVE ChipTyped'
  <2>1. frames' \in Seq(StoredFrame)
    BY <1>8, HeadTailProperties DEF RecvDec, ChipTyped
  <2> QED BY <1>8, <2>1 DEF RecvDec, ChipTyped
<1>9. ASSUME NEW t \in Users, SendReset(t) \/ SendFire(t) \/ SendStatus(t) PROVE ChipTyped'
  BY <1>9 DEF SendReset, SendFire, SendStatus, ChipTyped
<1>10. ASSUME NEW t \in Users,
              RecvCount(t) \/ SendLoad(t) \/ LinkStep(t) \/ SetBank(t) \/ Receive(t) \/ Send(t)
              \/ Link(t) \/ SetFilter(t)
       PROVE  ChipTyped'
  BY <1>3, <1>10 DEF RecvCount, SendLoad, LinkStep, SetBank, Receive, Send, Link, SetFilter
<1>11. CASE StartStep
  <2>1. CASE StartRing
    BY <1>1, <2>1 DEF StartRing, ChipTyped
  <2>2. CASE StartEnable
    BY <2>2 DEF StartEnable, ChipTyped
  <2>3. CASE SetBank(Main) \/ StartClock \/ StartFilters \/ StartPhy \/ StartMac
    BY <1>3, <2>3 DEF SetBank, StartClock, StartFilters, StartPhy, StartMac
  <2> QED BY <1>11, <2>1, <2>2, <2>3 DEF StartStep
<1>12. CASE SoftReset
  <2>1. <<>> \in Seq(StoredFrame)
    OBVIOUS
  <2> QED BY <1>1, <1>12, <2>1 DEF SoftReset, ChipTyped
<1>13. CASE Start
  BY <1>1, <1>13 DEF Start, ChipTyped
<1>14. CASE SetMac(Main) \/ NoSettings \/ UNCHANGED vars
  BY <1>3, <1>14 DEF SetMac, NoSettings, vars
<1> QED BY <1>4, <1>5, <1>6, <1>7, <1>8, <1>9, <1>10, <1>11, <1>12, <1>13, <1>14 DEF Next, UserStep

(* Everything is well typed at the start.                                      *)
LEMMA TypesInit == Init => CallsTyped /\ OneInside /\ BanksTyped /\ ChipTyped
<1> SUFFICES ASSUME Init PROVE CallsTyped /\ OneInside /\ BanksTyped /\ ChipTyped
  OBVIOUS
<1>1. Cells \in Nat \ {0} /\ MaxRetry \in Nat
  BY SizesFit, RetryIsNat
<1>2. 0 \in Ring /\ 0 \in 0 .. (MaxRetry + 1) /\ 0 \in Banks
  BY <1>1 DEF Ring, Banks
<1>3. <<>> \in Seq(StoredFrame)
  OBVIOUS
<1>4. CallsTyped /\ OneInside
  BY <1>2 DEF Init, CallsTyped, OneInside, Pcs
<1>5. BanksTyped
  BY <1>2 DEF Init, BanksTyped
<1>6. ChipTyped
  BY <1>2, <1>3 DEF Init, ChipTyped
<1> QED BY <1>4, <1>5, <1>6

(* The driver and the chip stay within their types however often the chip is   *)
(* started: no pointer leaves the ring, whatever was read as a header, and a   *)
(* transmission is retried MaxRetry + 1 times at most (enc28j60.c:636-645).    *)
THEOREM DriverTypeCorrect == Spec => []TypeOK
<1>1. CallsTyped /\ BanksTyped /\ ChipTyped => TypeOK
  BY DEF CallsTyped, BanksTyped, ChipTyped, TypeOK, Pcs
<1>2. CallsTyped /\ OneInside /\ BanksTyped /\ ChipTyped /\ [Next]_vars
        => CallsTyped' /\ OneInside' /\ BanksTyped' /\ ChipTyped'
  BY CallsStep, BanksStep, ChipStep
<1> QED BY <1>1, <1>2, TypesInit, PTL DEF Spec

(* No two threads are inside the driver at once, even when the chip is started *)
(* again under its users: what then goes wrong with the banks is not a race    *)
(* (furi_mutex_acquire, enc28j60.c:600).                                       *)
THEOREM MutualExclusion == Spec => [](\A t \in Threads, u \in Threads :
                                         pc[t] # "idle" /\ pc[u] # "idle" => t = u)
<1>1. OneInside => (\A t \in Threads, u \in Threads : pc[t] # "idle" /\ pc[u] # "idle" => t = u)
  BY DEF OneInside
<1>2. CallsTyped /\ OneInside /\ [Next]_vars => CallsTyped' /\ OneInside'
  BY CallsStep
<1> QED BY <1>1, <1>2, TypesInit, PTL DEF Spec
===============================================================================
