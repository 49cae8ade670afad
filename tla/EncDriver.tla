------------------------------ MODULE EncDriver ------------------------------
(***************************************************************************)
(* The ENC28J60 driver (libraries/chip/enc28j60.c): banked registers seen   *)
(* through a cached bank number, the ring of received frames, transmission  *)
(* with its retries, and the start-up sequence, called by several threads   *)
(* under the mutex of the chip.  The chip itself is modelled from what the  *)
(* driver assumes of it: a register access reaches the bank that ECON1      *)
(* selects, and a received frame is stored between ERXWRPT and ERXRDPT.     *)
(*                                                                          *)
(* Selecting the bank of a register and accessing it are separate steps; a  *)
(* step that accesses registers covers the neighbouring registers of the    *)
(* same bank.  Addresses of the receive ring are counted in cells.          *)
(***************************************************************************)
EXTENDS Integers, Sequences, FiniteSets

CONSTANTS
    Users,        \* threads that receive, send and use the PHY and the filters
    Main,         \* the GUI thread, which starts the chip
    Restarts,     \* may Main start the chip again while the users run?
    Cells,        \* size of the receive ring, RXSTOP_INIT - RXSTART_INIT + 1
    FrameSizes,   \* cells a received frame may take
    MaxRetry      \* 16: late collisions are retried while retry <= MaxRetry

Threads == Users \cup {Main}
NoThread == "nobody"
ASSUME MainIsNoUser == Main \notin Users /\ NoThread \notin Threads
ASSUME SizesFit == Cells \in Nat \ {0} /\ FrameSizes \subseteq 1 .. (Cells - 1)
ASSUME RetryIsNat == MaxRetry \in Nat /\ Restarts \in BOOLEAN

(* The bank of each register the driver uses (the address macros).          *)
Bank == [ERXST |-> 0, ERXRDPT |-> 0, ERDPT |-> 0, EWRPT |-> 0, ETXND |-> 0, EIR |-> 0, ECON1 |-> 0,
         EPKTCNT |-> 1, ERXFCON |-> 1, MIREGADR |-> 2, MACON1 |-> 2, MISTAT |-> 3, MAADR |-> 3]
Registers == DOMAIN Bank
Banks == 0 .. 3
Ring == 0 .. (Cells - 1)
Tsv == -1            \* the transmit status vector, outside of the ring
StoredFrame == [at : Ring, size : FrameSizes, ok : BOOLEAN]   \* ok: "received ok" is set
NoFrame == [at |-> 0, size |-> 0, ok |-> FALSE]   \* octets that are no frame

VARIABLES
    bank,        \* enc28j60_t.bank: the bank the driver believes is selected
    next,        \* enc28j60_t.rx_next_packet
    unreleased,  \* enc28j60_t.rx_packet_unreleased
    mutex,       \* enc28j60_t.mutex
    pc,          \* where each thread is inside a driver function
    selected,    \* set_bank_with_mask has returned for the access at pc
    retry,       \* local variable of send_packet, per thread; 0 outside of it
    boot,        \* how far app_alloc has come: reset, start, mac, up
    connected,   \* App.enc28j60_connected
    bsel,        \* chip: the bank selected in ECON1
    ready,       \* chip: the ring and transmit pointers hold the driver's values
    rxen,        \* chip: reception is enabled
    rdpt,        \* chip: ERXRDPT, the cell up to which it may write
    wrpt,        \* chip: ERXWRPT, the next cell it writes
    erdpt,       \* chip: ERDPT, the cell a buffer read starts from, or Tsv
    frames,      \* chip: received frames not counted out yet (EPKTCNT = Len)
    buffer,      \* the frame receive_packet wrote to its caller's buffer last
    tx,          \* chip: outcome of the transmission under way, "none" when nobody reads it
    stray        \* history: registers an access missed because of the bank

driver == <<bank, next, unreleased>>
calls == <<mutex, pc, selected, retry, boot, connected>>
ringVars == <<ready, rxen, rdpt, wrpt, frames>>
chip == <<bsel, erdpt, tx, ringVars>>
vars == <<driver, calls, chip, buffer, stray>>

ReceivePc == {"release", "count", "point", "header", "dec"}
SendPc == {"txreset", "load", "fire", "poll", "status"}
StartPc == {"clkrdy", "ring", "filters", "phlcon", "mac", "phcon2", "enable"}
LinkPc == {"miird", "mistat", "mird"}

TypeOK ==
    /\ bank \in Banks /\ next \in Ring /\ unreleased \in BOOLEAN
    /\ mutex \in Threads \cup {NoThread}
    /\ pc \in [Threads -> {"idle"} \cup ReceivePc \cup SendPc \cup StartPc \cup LinkPc]
    /\ selected \in [Threads -> BOOLEAN]
    /\ retry \in [Threads -> 0 .. (MaxRetry + 1)]
    /\ boot \in {"reset", "start", "mac", "up"} /\ connected \in BOOLEAN
    /\ bsel \in Banks /\ ready \in BOOLEAN /\ rxen \in BOOLEAN
    /\ rdpt \in Ring /\ wrpt \in Ring /\ erdpt \in Ring \cup {Tsv}
    /\ frames \in Seq(StoredFrame) /\ buffer \in StoredFrame \cup {NoFrame}
    /\ tx \in {"none", "done", "error", "late", "stuck"}
    /\ stray \subseteq Registers

(* enc28j60_alloc; the chip may hold anything the last application left.    *)
Init ==
    /\ bank = 0 /\ next = 0 /\ unreleased = FALSE
    /\ mutex = NoThread /\ pc = [t \in Threads |-> "idle"]
    /\ selected = [t \in Threads |-> FALSE] /\ retry = [t \in Threads |-> 0]
    /\ boot = "reset" /\ connected = FALSE
    /\ bsel \in Banks /\ ready = FALSE /\ rxen = FALSE
    /\ rdpt = 0 /\ wrpt = 0 /\ erdpt = 0 /\ frames = <<>> /\ tx = "none"
    /\ buffer = NoFrame /\ stray = {}

-----------------------------------------------------------------------------
(* Register access.                                                          *)

(* The register that the driver accesses at each point, if any.             *)
RegisterAt ==
    [release |-> "ERXRDPT", count |-> "EPKTCNT", point |-> "ERDPT", load |-> "EWRPT",
     poll |-> "EIR", status |-> "EIR", miird |-> "MIREGADR", mistat |-> "MISTAT",
     mird |-> "MIREGADR", ring |-> "ERXST", filters |-> "ERXFCON", phlcon |-> "MISTAT",
     mac |-> "MAADR", phcon2 |-> "MISTAT"]

(* set_bank_with_mask: ECON1 is written only if the cached bank differs.    *)
Select(r) ==
    /\ bank' = Bank[r]
    /\ bsel' = IF bank = Bank[r] THEN bsel ELSE Bank[r]
SetBank(t) ==
    /\ pc[t] \in DOMAIN RegisterAt /\ ~selected[t]
    /\ Select(RegisterAt[pc[t]])
    /\ selected' = [selected EXCEPT ![t] = TRUE]
    /\ UNCHANGED <<next, unreleased, mutex, pc, retry, boot, connected, erdpt, tx,
                   buffer, ringVars, stray>>

(* The access reaches the register only if its bank is selected in the chip. *)
Access(t) ==
    /\ selected[t]
    /\ selected' = [selected EXCEPT ![t] = FALSE]
    /\ stray' = IF bsel = Bank[RegisterAt[pc[t]]] THEN stray ELSE stray \cup {RegisterAt[pc[t]]}
    /\ UNCHANGED <<bank, bsel>>
Hit(r) == bsel = Bank[r]

Goto(t, l) == pc' = [pc EXCEPT ![t] = l] /\ UNCHANGED <<mutex, retry, boot, connected>>

(* Variant: a function that does not take the mutex.                         *)
EnterUnlocked(t, l) ==
    /\ pc[t] = "idle"
    /\ mutex' = t
    /\ pc' = [pc EXCEPT ![t] = l]
    /\ UNCHANGED selected

(* furi_mutex_acquire at the top of every public function, and its release. *)
Enter(t, l) ==
    /\ pc[t] = "idle" /\ mutex = NoThread
    /\ mutex' = t
    /\ pc' = [pc EXCEPT ![t] = l]
    /\ UNCHANGED selected
Leave(t) ==
    /\ mutex' = NoThread
    /\ pc' = [pc EXCEPT ![t] = "idle"]
    /\ retry' = [retry EXCEPT ![t] = 0]

May(t) == boot = "up" /\ t \in Users

-----------------------------------------------------------------------------
(* The chip stores a frame in the free part of its ring.                     *)

Free == (Cells - 1) - ((wrpt - rdpt) % Cells)
CellsOf(f) == {(f.at + k) % Cells : k \in 0 .. (f.size - 1)}

ChipReceives(s, ok) ==
    /\ rxen /\ ready /\ s <= Free
    /\ frames' = Append(frames, [at |-> wrpt, size |-> s, ok |-> ok])
    /\ wrpt' = (wrpt + s) % Cells
    /\ UNCHANGED <<driver, calls, bsel, erdpt, tx, ready, rxen, rdpt, buffer, stray>>

-----------------------------------------------------------------------------
(* receive_packet.                                                           *)

Receive(t) ==
    /\ May(t) /\ Enter(t, IF unreleased THEN "release" ELSE "count")
    /\ UNCHANGED <<driver, retry, boot, connected, chip, buffer, stray>>

(* Variants: everything received so far is released; no release at the start. *)
ReleaseWith(t, at) ==
    /\ pc[t] = "release"
    /\ Access(t)
    /\ rdpt' = at
    /\ unreleased' = FALSE
    /\ Goto(t, "count")
    /\ UNCHANGED <<next, erdpt, tx, buffer, ready, rxen, wrpt, frames>>
ReleaseAll(t) == ReleaseWith(t, (wrpt - 1) % Cells)
ReleaseNotAtStart(t) == ReleaseWith(t, IF next = 0 THEN rdpt ELSE next - 1)

RecvRelease(t) ==  \* ERXRDPT = rx_next_packet - 1, or RXSTOP_INIT
    /\ pc[t] = "release"
    /\ Access(t)
    /\ rdpt' = IF Hit("ERXRDPT") THEN (next - 1) % Cells ELSE rdpt
    /\ unreleased' = FALSE
    /\ Goto(t, "count")
    /\ UNCHANGED <<next, erdpt, tx, buffer, ready, rxen, wrpt, frames>>

RecvCount(t) ==    \* if(EPKTCNT > 0)
    /\ pc[t] = "count"
    /\ Access(t)
    /\ \/ /\ frames # <<>> /\ Hit("EPKTCNT")
          /\ Goto(t, "point")
       \/ /\ frames = <<>> \/ ~Hit("EPKTCNT")
          /\ Leave(t) /\ UNCHANGED <<boot, connected>>
    /\ UNCHANGED <<next, unreleased, erdpt, tx, buffer, ringVars>>

(* Variant: ERDPT is trusted to be where the last read left it.              *)
RecvNoPoint(t) ==
    /\ pc[t] = "point"
    /\ Access(t)
    /\ Goto(t, "header")
    /\ UNCHANGED <<next, unreleased, erdpt, tx, buffer, ringVars>>

RecvPoint(t) ==    \* ERDPT = rx_next_packet
    /\ pc[t] = "point"
    /\ Access(t)
    /\ erdpt' = IF Hit("ERDPT") THEN next ELSE erdpt
    /\ Goto(t, "header")
    /\ UNCHANGED <<next, unreleased, tx, buffer, ringVars>>

(* The header and the data are read from ERDPT on; the header says where    *)
(* the next frame starts and whether this one was received well, and only   *)
(* then is it read.  What is not a header says anything.                    *)
Aligned == frames # <<>> /\ erdpt = Head(frames).at
RecvHeader(t) ==
    /\ pc[t] = "header"
    /\ IF Aligned
       THEN /\ next' = (Head(frames).at + Head(frames).size) % Cells
            /\ buffer' = IF Head(frames).ok THEN Head(frames) ELSE buffer
       ELSE next' \in Ring /\ buffer' \in {buffer, NoFrame}
    /\ unreleased' = TRUE
    /\ Goto(t, "dec")
    /\ UNCHANGED <<bank, selected, chip, stray>>

RecvDec(t) ==      \* ECON2_PKTDEC
    /\ pc[t] = "dec"
    /\ frames' = IF frames = <<>> THEN frames ELSE Tail(frames)
    /\ Leave(t)
    /\ UNCHANGED <<driver, selected, boot, connected, bsel, erdpt, tx, buffer, ready, rxen, rdpt, wrpt, stray>>

-----------------------------------------------------------------------------
(* send_packet.                                                              *)

Send(t) ==
    /\ May(t) /\ Enter(t, "txreset")
    /\ UNCHANGED <<driver, retry, boot, connected, chip, buffer, stray>>

SendReset(t) ==    \* TXRST, clear TXERIF and TXIF
    /\ pc[t] = "txreset"
    /\ tx' = "none"
    /\ Goto(t, IF retry[t] = 0 THEN "load" ELSE "fire")
    /\ UNCHANGED <<driver, selected, bsel, erdpt, buffer, ringVars, stray>>

SendLoad(t) ==     \* EWRPT, ETXND, the control byte and the frame
    /\ pc[t] = "load"
    /\ Access(t)
    /\ Goto(t, "fire")
    /\ UNCHANGED <<next, unreleased, erdpt, tx, buffer, ringVars>>

SendFire(t) ==     \* TXRTS; the chip transmits, fails or hangs
    /\ pc[t] = "fire"
    /\ tx' \in {"done", "error", "late", "stuck"}
    /\ Goto(t, "poll")
    /\ UNCHANGED <<driver, selected, bsel, erdpt, buffer, ringVars, stray>>

SendPoll(t) ==     \* up to 1000 reads of EIR; TXIF without TXERIF ends the call
    /\ pc[t] = "poll"
    /\ Access(t)
    /\ IF tx = "done"
       THEN Leave(t) /\ tx' = "none" /\ UNCHANGED <<boot, connected, erdpt>>
       ELSE /\ erdpt' = IF Hit("EIR") THEN Tsv ELSE erdpt
            /\ Goto(t, "status") /\ UNCHANGED tx
    /\ UNCHANGED <<next, unreleased, buffer, ringVars>>

(* Variant: late collisions are retried without a limit.                     *)
SendStatusForever(t) ==
    /\ pc[t] = "status"
    /\ Access(t)
    /\ IF tx = "late"
       THEN /\ pc' = [pc EXCEPT ![t] = "txreset"]
            /\ UNCHANGED <<mutex, retry>>
       ELSE Leave(t)
    /\ tx' = "none"
    /\ UNCHANGED <<next, unreleased, boot, connected, erdpt, buffer, ringVars>>

SendStatus(t) ==   \* TXERIF and late collision, and retry <= 16: again
    /\ pc[t] = "status"
    /\ Access(t)
    /\ IF tx = "late" /\ ~(retry[t] > MaxRetry)
       THEN /\ retry' = [retry EXCEPT ![t] = @ + 1]
            /\ pc' = [pc EXCEPT ![t] = "txreset"]
            /\ UNCHANGED mutex
       ELSE Leave(t)
    /\ tx' = "none"
    /\ UNCHANGED <<next, unreleased, boot, connected, erdpt, buffer, ringVars>>

-----------------------------------------------------------------------------
(* is_link_up, through the MII registers; the filters; the MAC address.     *)

Link(t) ==
    /\ May(t) /\ Enter(t, "miird")
    /\ UNCHANGED <<driver, retry, boot, connected, chip, buffer, stray>>
LinkStep(t) ==
    \/ /\ pc[t] = "miird"   \* MIREGADR, MICMD
       /\ Access(t) /\ Goto(t, "mistat")
       /\ UNCHANGED <<next, unreleased, erdpt, tx, buffer, ringVars>>
    \/ /\ pc[t] = "mistat"  \* wait_phy_ready, up to 100 ms
       /\ Access(t) /\ Goto(t, "mird")
       /\ UNCHANGED <<next, unreleased, erdpt, tx, buffer, ringVars>>
    \/ /\ pc[t] = "mird"    \* MICMD, MIRD, unless the PHY stayed busy
       /\ Access(t) /\ Leave(t)
       /\ UNCHANGED <<next, unreleased, boot, connected, erdpt, tx, buffer, ringVars>>

(* enable_, disable_ and is_..._enabled read and write ERXFCON.              *)
SetFilter(t) ==
    /\ May(t) /\ pc[t] = "idle" /\ mutex = NoThread
    /\ Select("ERXFCON")
    /\ stray' = IF bsel' = Bank["ERXFCON"] THEN stray ELSE stray \cup {"ERXFCON"}
    /\ UNCHANGED <<next, unreleased, calls, erdpt, tx, buffer, ringVars>>

SetMac(t) ==       \* enc28j60_set_mac: settings_load at boot, the settings scene
    /\ pc[t] = "idle" /\ mutex = NoThread /\ t = Main
    /\ boot \in {"mac", "up"}
    /\ Select("MAADR")
    /\ stray' = IF bsel' = Bank["MAADR"] THEN stray ELSE stray \cup {"MAADR"}
    /\ boot' = "up"
    /\ UNCHANGED <<next, unreleased, mutex, pc, selected, retry, connected, erdpt, tx, buffer, ringVars>>

NoSettings ==      \* settings_load finds no MAC address to set
    /\ boot = "mac"
    /\ boot' = "up"
    /\ UNCHANGED <<driver, mutex, pc, selected, retry, connected, chip, buffer, stray>>

-----------------------------------------------------------------------------
(* enc28j60_soft_reset and enc28j60_start.                                   *)

(* app_alloc resets and starts; later only a scene that finds the chip      *)
(* disconnected starts it again, and only GetIPScene resets it before.      *)
SoftReset ==
    /\ pc[Main] = "idle" /\ mutex = NoThread
    /\ \/ boot = "reset" /\ boot' = "start"
       \/ boot = "up" /\ Restarts /\ ~connected /\ UNCHANGED boot
    /\ bank' = 0 /\ next' = 0 /\ unreleased' = FALSE
    /\ bsel' = 0 /\ ready' = FALSE /\ rxen' = FALSE
    /\ frames' = <<>> /\ rdpt' = 0 /\ wrpt' = 0 /\ erdpt' = 0 /\ tx' = "none"
    /\ UNCHANGED <<mutex, pc, selected, retry, connected, buffer, stray>>

Start ==           \* the driver's state is reset, the chip's is not
    /\ boot = "start" \/ (boot = "up" /\ Restarts /\ ~connected)
    /\ Enter(Main, "clkrdy")
    /\ bank' = 0 /\ next' = 0 /\ unreleased' = FALSE
    /\ UNCHANGED <<retry, boot, connected, chip, buffer, stray>>

Return(ok) ==      \* of enc28j60_start, to app_alloc or to the scene
    /\ Leave(Main)
    /\ connected' = ok
    /\ boot' = IF boot = "start" THEN "mac" ELSE boot

StartClock ==      \* ESTAT_CLKRDY within a second
    /\ pc[Main] = "clkrdy"
    /\ \/ Goto(Main, "ring") \/ Return(FALSE)
    /\ UNCHANGED <<driver, selected, chip, buffer, stray>>

StartRing ==       \* ERXST, ERXRDPT, ERXND, ETXST, ETXND
    /\ pc[Main] = "ring"
    /\ Access(Main)
    /\ IF Hit("ERXST")
       THEN ready' = TRUE /\ rdpt' = 0 /\ wrpt' = 0
       ELSE UNCHANGED <<ready, rdpt, wrpt>>
    /\ Goto(Main, "filters")
    /\ UNCHANGED <<next, unreleased, erdpt, tx, buffer, rxen, frames>>

StartFilters ==    \* EPMM0..7, EPMCS, ERXFCON
    /\ pc[Main] = "filters"
    /\ Access(Main)
    /\ Goto(Main, "phlcon")
    /\ UNCHANGED <<next, unreleased, erdpt, tx, buffer, ringVars>>

StartPhy ==        \* write_Phy(PHLCON), write_Phy(PHCON2): busy for 100 ms fails
    /\ pc[Main] \in {"phlcon", "phcon2"}
    /\ Access(Main)
    /\ \/ Goto(Main, IF pc[Main] = "phlcon" THEN "mac" ELSE "enable")
       \/ Return(FALSE)
    /\ UNCHANGED <<next, unreleased, erdpt, tx, buffer, ringVars>>

StartMac ==        \* MACON1, MACON3, MAIPG, MABBIPG, MAMXFL, MAADR0..5
    /\ pc[Main] = "mac"
    /\ Access(Main)
    /\ Goto(Main, "phcon2")
    /\ UNCHANGED <<next, unreleased, erdpt, tx, buffer, ringVars>>

StartEnable ==     \* EIE, ECON1_RXEN, then EREVID
    /\ pc[Main] = "enable"
    /\ bank' = Bank["MAADR"] /\ bsel' = Bank["MAADR"] /\ UNCHANGED <<selected, stray>>
    /\ rxen' = TRUE
    /\ Return(TRUE)
    /\ UNCHANGED <<next, unreleased, erdpt, tx, buffer, ready, rdpt, wrpt, frames>>

-----------------------------------------------------------------------------
UserStep(t) ==
    \/ RecvRelease(t) \/ RecvCount(t) \/ RecvPoint(t) \/ RecvHeader(t) \/ RecvDec(t)
    \/ SendReset(t) \/ SendLoad(t) \/ SendFire(t) \/ SendPoll(t) \/ SendStatus(t)
    \/ LinkStep(t) \/ SetBank(t)
StartStep ==
    SetBank(Main) \/ StartClock \/ StartRing \/ StartFilters \/ StartPhy \/ StartMac \/ StartEnable

Next ==
    \/ \E s \in FrameSizes, ok \in BOOLEAN : ChipReceives(s, ok)
    \/ \E t \in Users : Receive(t) \/ Send(t) \/ Link(t) \/ SetFilter(t) \/ UserStep(t)
    \/ SetMac(Main) \/ NoSettings \/ SoftReset \/ Start \/ StartStep

Spec == Init /\ [][Next]_vars

(* Every function of the driver goes on once it has the mutex; when one is  *)
(* called is up to the application.                                         *)
FairSpec == Spec /\ WF_vars(StartStep) /\ \A t \in Users : WF_vars(UserStep(t))

-----------------------------------------------------------------------------
(* Properties.                                                               *)

(* Every register access reaches the register it names: the cached bank and *)
(* the one the chip has selected never differ when it matters (B-6).        *)
NoStrayAccess == stray = {}

(* The driver and the chip make the queue of FrameQueue: frames come out in  *)
(* the order they were stored, each once, whole and if it was received well, *)
(* whatever other functions did with ERDPT and the banks in between and      *)
(* wherever the ring wraps (enc28j60.c:648-698).  A frame leaves the queue   *)
(* when its header is read, before it is counted out.                        *)
Reading == \E t \in Users : pc[t] = "dec"
Waiting == IF Reading /\ frames # <<>> THEN Tail(frames) ELSE frames
Queue == INSTANCE FrameQueue WITH
            Frame <- StoredFrame, BadFrame <- {f \in StoredFrame : ~f.ok},
            queue <- Waiting, delivered <- buffer
ImplementsQueue == Queue!Spec

(* The cells the chip may write next hold no frame that is still to be read. *)
Writable == {(wrpt + k) % Cells : k \in 0 .. (Free - 1)}
UnreadIntact == \A i \in DOMAIN frames : CellsOf(frames[i]) \cap Writable = {}

(* No cell is lost: once every frame has been read and the function is       *)
(* called once more, the ring is whole again, up to the cell kept below      *)
(* ERXRDPT.                                                                  *)
NothingLeaks ==
    \A t \in Users : pc[t] = "count" /\ frames = <<>> => Free >= Cells - 2

(* Every function gives the chip back, however often transmissions collide   *)
(* and whatever the PHY and the oscillator do.                               *)
MutexReleased == \A t \in Threads : mutex = t ~> mutex # t

(* enc28j60.h says of enc28j60_start that it "performs the necessary         *)
(* configuration to bring the ENC28J60 into a ready state, including setting *)
(* up buffers": when it has returned success, the pointers are set.          *)
StartSetsUpBuffers == connected /\ mutex # Main => ready

=============================================================================
