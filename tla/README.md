# A formal model of the ENC28J60 Ethernet application

TLA+ modules for the Flipper Zero Ethernet application in `src/EthernetAppDemo`,
the TLC configurations that check them on small instances, and theorems about
them checked by TLAPS. Paths below are relative to `src/EthernetAppDemo` unless
they start with `docs/`.

## 1. The system

The application is one process with a handful of threads:

* the **GUI thread** runs `app_main`, the scene manager and every scene handler;
* at most one **feature worker** (DORA, Passive Discovery, ARP scan, ping, ports,
  OS detector, sniffer, ...) lives in the slot guarded by `app_thread_claim`;
* the **dispatcher thread** drains the chip and offers each frame to registered
  handlers;
* the **interrupt** of the chip wakes the dispatcher.

They share the ENC28J60 and its driver structure (one mutex), the registry of
handlers (another mutex), the `App` structure (no lock), and files on the card.

### Inventory

| Component | State | Operations | Talks to | What makes it correct |
|---|---|---|---|---|
| Receive dispatcher `libraries/chip/rx_dispatch.c` | registry of slots, `running`, `pause_count`, `acked_pause`, thread flag | init, deinit, register, unregister, pause, resume, the thread's loop | driver (reads), handlers (calls), workers (pause) | no context used after its owner is gone; no reply missed; an acknowledged pause means exclusive use; frames do not get stuck; shutdown ends |
| Scanner session `libraries/scanner/scanner_session.c` | ARP cache, a semaphore and a context per wait, both on the stack | wait for packet, resolve next hop, cancel | dispatcher, worker | every wait returns; register before trigger; a cached MAC is that of the hop |
| Application `app_user.c` | worker slot, feature flags, last scan file | alloc, free, claim, join, shutdown, last scan load and save | everything | one worker at a time; every join can end; the list read back is the list written |
| Driver `libraries/chip/enc28j60.c` | cached bank, next packet pointer, release pending, mutex | send, receive, filters, PHY, MAC, reset, start | chip | every access reaches its bank; reads start at a frame; unread frames are not overwritten; the mutex is given back |
| Passive history `libraries/protocol_tools/passive_history.c` | a file of records, an index of it, a temporary file | load, merge, clear, decode | neighbour database, scenes | a call changes the file whole or not at all, whatever fails and whenever the power goes |
| Neighbour database `libraries/protocol_tools/neighbor_db.c` | fixed slots of records | acquire, release, add, update, find, clear | dispatcher (writes), GUI (reads, releases) | not released while in use; what it holds is lost in a merge only |
| Passive Discovery `scenes/PassiveDiscoveryScene.c`, `scenes/PassiveNeighborListScene.c`, `modules/passive_discovery_module.c` | scene state, mode, stop flag, worker, events | start, stop, back, retry, saved, clear, the worker | all of the above | no session ends silently; the filter is restored; BACK always gets out |
| DHCP and Get IP `modules/dhcp_protocol.c`, `scenes/GetIPScene.c` | transaction state, the network tuple and its flags | enter, back, the DORA thread | driver (directly, under a pause), servers | what is reported is one lease of this attempt; a cancelled attempt leaves a usable tuple and the chip as it was |
| Settings `libraries/settings/settings.c`, `scenes/SettingsScene.c` | address, gateway, mask and MACs in memory, the flags that say where they are from, a file of named fields | load, save, edit address, edit or draw a MAC | a torn or old file restores no network; what is restored was in memory together; a finished save comes back |
| Address editor `draw_functions/ip_assigner.c` | digits, selector, the caller's address | left, right, up, down | scenes that ask for an address | the address used is the one shown |
| ARP scanner and last scan `modules/arp_module.c`, `scenes/ArpScannerScene.c` | host list, host count, cancel flag, date of the last scan | scan, cancel, open saved list | driver, dispatcher, file | a host has its own MAC; only completed scans are saved; the list shown is the one saved |
| Ping `scenes/PingScene.c`, `modules/ping_module.c` | counts of requests and replies, a view | start, retry, BACK, the worker | session, event queue | the GUI gets out of its join whoever is waiting for whom |
| Port scanner `scenes/PortsScannerScene.c`, `modules/tcp_module.c` | a list of open ports | start, BACK, the worker | session, dispatcher | a port listed is open at the host of this scan |
| OS detector `scenes/OsDetector.c`, `modules/os_detector_module.c` | port states, probes under way, results, a view | start, BACK, the worker | session, chip (reads it directly), event queue | what is shown is from this scan |
| ARP spoofing `scenes/ArpspoofingScene.c`, `modules/arp_module.c` | an attack flag | start, stop | driver | the worker is gone when the scene is |
| Sniffer and PCAP `scenes/SnifferScene.c`, `modules/capture_module.c`, `scenes/ReadPcapsScene.c` | the capture file, the filter, a handler, an index when read back | capture, stop, open, page | driver, dispatcher, file | no handler runs on a closed file; the filter is restored; the index points at records |
| Parsers of neighbour frames `libraries/protocol_tools/{lldp,cdp,eapol}.c` | none | walk the TLVs of a frame | Passive Discovery | nothing of a cut frame or of padding reaches a record |
| Handlers and details `modules/{lldp,cdp,eapol}_module.c`, `modules/passive_details_text.c`, `scenes/PassiveNeighborDetailsScene.c` | selected neighbour, page | dispatch a frame, count pages, build a page | neighbour database | the pages show the whole record, and no page is empty |
| Frame builders `libraries/protocol_tools/*.c` | none | build, checksum | all tools | fields in their places |
| Startup guard, menus, drawing, views | heap figures, menu position | arithmetic, presentation | GUI | |

### What is hard here

* **Stack contexts in a shared registry.** A wait registers a predicate whose
  context is a local variable of the waiting thread. A wait that times out while
  the dispatcher is inside its predicate must not return before the dispatcher
  has left it.
* **A pause by polling.** `rx_dispatch_pause` is a counter, an acknowledgement
  flag and a poll loop of 40 ms. Overlapping pauses, resumes and stale
  acknowledgements are what can go wrong.
* **An edge-triggered interrupt** over a level (frames are stored): an edge lost
  while the dispatcher is busy or paused must be made up for by the fallback.
* **A cached bank number** shared by all threads, and a read pointer that the
  transmit path also moves.
* **Blocking joins on the GUI thread**: leaving a scene waits for its worker.
* **Events that outlive their session**: custom events are queued and are handled
  by whichever scene is current, possibly a later visit with a newer worker.
* **Files rewritten by several calls**, each of which may fail or be the last
  before a power cut. The settings are written over the only copy.
* **One worker slot, one event queue, and joins.** A worker that posts an event to
  a full queue waits for the GUI thread, which may be waiting for the worker.
* **Answers to earlier requests.** An ARP reply, a SYN-ACK or a RST may be late,
  repeated, or meant for the scan of another target.
* **Frames of any length.** An LLDP, CDP or EAPOL frame is cut, padded, or lacks
  fields that an earlier one had.
* **Pages counted in one function and built in another**, from texts that break at
  spaces and must not break inside a glyph.

`PROJECT.json` lists these one by one under `hazards`, with the line where each
bites and the property that would catch it.

## 2. Modules

| Module | Models | Used by |
|---|---|---|
| `RxDispatch` | chip queue, interrupt, dispatcher thread, registry, scanner waits, pauses, direct readers, start-up and teardown | `MCRxDispatch`, `RxDispatch_proofs` |
| `FrameQueue` | what the receive path takes chip and driver for: a queue of frames | `EncDriver` (by `INSTANCE`) |
| `EncDriver` | banked registers, receive ring, transmission, PHY, filters, start-up of the chip | `MCEncDriver`, `EncDriver_proofs` |
| `HistoryStore` | what saved results promise: an atomic set of observations | `PassiveHistory` (by `INSTANCE`) |
| `PassiveHistory` | the files, index, live database, merge and clear step by step, faults and power cuts | `MCPassiveHistory`, `PassiveHistory_proofs` |
| `GetIp` | scene, DORA thread, servers and network | `MCGetIp`, `GetIp_proofs` |
| `PassiveDiscovery` | scenes, worker, events, the dispatcher's use of the database | `MCPassiveDiscovery`, `PassiveDiscovery_proofs` |
| `DetailsText` | texts, trimming, cutting at a glyph, layout on pages | `Neighbor` |
| `Neighbor` | records of the neighbour database, frames, reading octets | the three parsers |
| `LldpFrame`, `CdpFrame`, `EapolFrame` | a frame of the protocol into a record | `NeighborWire`, `NeighborPages` |
| `NeighborWire` | what neighbours put on the wire, and every frame that may be captured of it | `MCNeighbors` |
| `NeighborDb` | the neighbour database and the handlers that write to it | `Neighbors`, `PassiveDiscovery_proofs` |
| `NeighborPages` | counting and building the pages of a record | `Neighbors` |
| `Neighbors` | composes them: dispatch by protocol, the database, list and pages (`ScreensSpec`) | `MCNeighbors`, `PassiveDiscovery_proofs` |
| `ArpScan` | Scan Hosts: its scene, worker, waits, the dispatcher that fills in MACs, and the last scan file | `MCArpScan`, `ArpScan_proofs` |
| `IpEditor` | the address editor: selector, digits and the bytes they are written to | `Settings` (by `INSTANCE`) |
| `Settings` | the settings in memory, the scenes that change them, loading and saving the file | `MCSettings`, `Settings_proofs` |
| `WorkerSlot` | the one worker, the scene that owns it, BACK, the event queue, joins | `Session` |
| `Session` | resolution of the next hop, waiting for frames, the answers under way | the tools |
| `PingTool`, `PortScan`, `OsScan`, `Spoof`, `Sniffer`, `PcapViewer` | one tool each: its scene and its worker; `PcapViewer` extends `Sniffer`, whose file it reads | `Tools` |
| `Tools` | composes the six over one slot, one queue and one network | `MCTools`, `Tools_proofs` |

### How the state and actions correspond to the code

**RxDispatch.** `slots[i]` is `g_dispatch.slots[i].ctx`, `handle[h]` the pointer
`rx_register` returned, `pauseCount`, `acked`, `running` the fields of the same
name, `flag` the thread flag `RX_FLAG_INT`. The dispatcher thread has a program
counter `dpc` with one value per access to shared state, so that the test of
`pause_count`, the acknowledgement, `receive_packet` and the mutex are separate
steps and other threads run between any two. A worker's `wpc` does the same for
`scanner_wait_for_packet` and for pause, reads and resume. `rxq` is the chip's
queue (`EPKTCNT` is its length) and `rxbuf` the buffer `rx_buffer` all readers
share. `dframe`, `asked` and `offered` are history variables: the frame the dispatcher
took, whether the request of a wait has left, and whether a matching frame was
dispatched since then and before the wait unregistered. Semaphores are
"freed", "empty" or "token"; using a freed one is what `CtxAlive` excludes. A
timed wait may end at any moment.

**EncDriver.** `bank` is the driver's cache and `bsel` the bank the chip has
selected. Selecting a bank (`SetBank`) and accessing a register (`Access`) are
two steps, which makes a race on the cached bank a state. Ring addresses count in
cells; a frame takes one or two of them. A driver function occupies the mutex
over several steps. The filter and MAC functions hold it over one access group
and are one step. SPI transfers are atomic, as each runs under the SPI bus lock.
A frame has the cell it starts at, its size and the "received ok" bit of its header;
`buffer` is the frame `receive_packet` wrote to its caller last, and nothing that is a
frame if the read did not start at one. The queue of `FrameQueue` is `Waiting`: the
frames of the ring without the one whose header has been read and which `ECON2_PKTDEC`
has not yet counted out.

**PassiveHistory and HistoryStore.** `final` and `temp` are the two files, each a
sequence of records and whether it is absent, corrupt, torn or whole. `pc` steps
through `passive_history_merge_live` or `passive_history_clear`: begin the
temporary file, copy record by record, add live observations, write header and
sync, rename, return. `IoFault` and `Crash` may interrupt it anywhere. The
abstract store of `HistoryStore` is `SavedSet`, what `history_load` would read.

**GetIp.** `tpc` is the DORA thread, `dora` its `state_dora_t`. `sent` is what
servers were sent; an answer to a message in `sent` can arrive at any later time,
any number of times, also in a later attempt. `offer` stands for the
three variables an OFFER sets (`ip_client`, `ip_server`, `MAC_DESTINATION`),
`ack` for those an ACK sets. `tuple` is the application's address, gateway, mask
and MAC with the flags `is_dora` and `is_static_ip`; each component names the
lease it came from, so a mixture is visible.

**PassiveDiscovery.** `state` and `mode` are the fields of
`app->passive_discovery`, `gui` says why the GUI thread is inside
`passive_discovery_finish_live`, `wpc` is the worker, `frame` the frame whose
predicate the dispatcher is running (the predicate writes the database). A merge may
save any part of what it is given, as writing fails or the file is full, and the scene
goes on all the same, since it ignores the result; `saved` and `leftOut` are history:
what merges were given and saved, and what they were given and did not save.

**ArpScan.** `scene` and `view` are what is on the screen, `owned` the worker
slot, `wpc` the worker from `scanner_session_init` to its custom event. The entry
`list[counter]` has two writers, as in the code: the dispatcher writes `mac` inside
`arp_reply_match_predicate` and the worker writes `ip` after `rx_unregister`.
Addresses and MACs are represented by the host and scan they come from, so a pair
of two different hosts is visible. `file` is `last_scan.bin`: absent, or a header
(with or without, count and date) and as much of the body as was written.
`results` is history: what each scan that asked every address had found.
`WLoop` and `WGiveUp` may see a cancel the scene has not handled yet, because
`scanner_cancel_requested` also reads the level of the button.

**IpEditor and Settings.** `digits`, `selector` and `address` are `digits_array`,
`selector_position` and the caller's `ip_array`, which in `Settings` is
`ethernet->ip_address`: an octet that overflows reaches the settings and the file.
UP and DOWN are the two validation functions as one function each of the digits of
an octet. One octet stands for the four of an address and the six of a MAC, and a
mask is valid as in `settings_dora_tuple_is_valid`. `file` is the version in the
header (0 without one) and the fields written so far, in the order of
`settings_save`; a save opens (and truncates), writes the header and one field per
step, and any step may be the last. `Start` is `settings_load` with everything it
sets before it stops at a missing field. `kept` is history: memory when the file
was last opened for writing.

**Tools.** `owner` is `thread_alternative_owner`, `pc` the worker's position,
`joining` why the GUI thread is inside `furi_thread_join`. `queue` holds the custom
events; a worker that posts to a full queue waits. `pressed` is the level of BACK
that workers read themselves (`scanner_cancel_requested` and the like), which is not
the same as the event the GUI handles when the button goes up. `air` is the set of
answers hosts have given, each tagged with who sent it and the scan or round it
answers; any of them may arrive at any later wait, any number of times. What a tool
registers, opens or enables (handler, capture file, promiscuous filter) is a
variable of its own, so that one left behind is a state. The OS detector reads the
chip without a pause, so any answer may be taken by the dispatcher instead. A worker
that looks at a flag and then posts does so in two steps, and a failed set-up is undone
one call at a time.
`pcap` is the capture as records, in which a failed write leaves a torn one, and
the viewer's index is the positions `read_pcap` counts in it.

**Neighbors.** Frames are sequences of octets. The encoders that turn an advert
into a frame (`LldpWire`, `CdpWire`, `EapolWire`) stand for the neighbour, are not
code of this repository, and are marked external. `Captures` are the frames, every
prefix of one, and frames with octets of padding behind them; the parsers walk each as
the C code does, with every length the code checks. What was captured and parsed is
the constant `Receipts` of `NeighborDb`, so that the database and what is proved of it
do not depend on the encoders. `neighbors` is the array of the same name; `heard` is
history: the last complete advert of each neighbour and protocol. The worker is joined before the
list or a page can be opened, so nothing is heard meanwhile; the clearing of saved
results belongs to `PassiveHistory`. A row of the list is a record by its rank among
the listed slots (`SlotAt`). Where the glyphs of a text, its pages and the pages of
items start are functions on the natural numbers (`Glyphs`, `Pages`, `PagesUpTo`), one
for each loop of the code. The code counts pages in eight bits, the model in natural
numbers: two pages that follow each other hold a page's worth of glyphs, so texts of 127
octets give a record far fewer than 256.

## 3. Runs

All runs finish within the times given (two TLC workers).

| Run | Instance | States | Shows |
|---|---|---|---|
| `RxContract` | 2 waits, 2 pausing threads, 1 direct reader, 1 auto-reply, 2 slots, 3 kinds of frame, queue of 2, 2 workers at once | 2.1 M | the contract of `rx_dispatch.h`, beyond the one worker slot of today's application: `CtxAlive`, `RegistryInv`, `AckedPauseExcludes`, `ReplyNotMissed` |
| `RxLive` | 1 wait, 1 pausing thread, unbounded traffic | 108 k | `QueueServed`, `WaitReturns`, `ShutdownCompletes` |
| `EncDriver` | 2 threads, 4 cells, frames of 1 or 2 cells, 1 retry | 136 k | `NoStrayAccess`, `UnreadIntact`, `NothingLeaks`, `ImplementsQueue`, `MutexReleased` |
| `PassiveHistory` | 2 sources, 2 protocols, 2 contents, a file and a database of 2 | 515 k | `FinalStaysReadable`, `SavedIndexCurrent`, `ImplementsStore` |
| `GetIp` | 2 servers, 2 attempts, timeout of 1 tick | 603 k | `ReportedLease`, `NetworkStateWhole`, `ChipRestored`, `BackReturns` |
| `PassiveDiscovery` | 2 protocols and All, 2 sessions | 677 k | `DbHeldInUse`, `MulticastRestored`, `NoSilentEnd`, `LostInMergeOnly`, `FinishReturns` |
| `ArpScan` | 2 addresses, 3 scans | 344 k | `FoundPaired`, `SavedIsCompleted`, `ShownIsSaved`, `ScanEnds` |
| `Neighbors` | 9 adverts of 3 neighbours, every prefix of their frames, 3 octets of padding, a database of 3, fields of 6 and 12 octets, 3 glyphs a page | 40 k | `RecordsAreAdvertised`: records hold what was advertised, whatever came cut or padded; `PagesShowAdvert`: the pages counted are those built, and show all of it |
| `Settings` | 1 octet, 2 leases (one with a mask that is none), a second MAC, files of both earlier versions, 3 changes between starts | 1.15 M | `RestoredTuple`, `SavedIsRestored`, `OverflowOnlyFrom56` |
| `Tools` | all six tools, 2 starts of a worker, queue of 2, a target on the link and one behind the gateway, ports that wrap at 3, 2 packets, 2 tries | 655 k | `WorkerInItsScene`, `MacIsNextHops`, `ListedIsOpen`, `ShownIsThisScan`, `ResourcesHeld`, `RecordsReadBack`, `GuiIsFreed` |
| `EncStartClaim` | start of a disconnected chip while a thread uses it | | pointers written to the wrong bank (finding 1) |
| `HistoryReadClaim` | reads of the card may fail | | a merge drops the saved list (finding 2) |

Type invariants cost a run nothing that a proof does not give: those of
`RxDispatch`, `PassiveDiscovery` and `ArpScan` are proved (section 4), and the
inductive invariants of the other proofs contain theirs.

### Why these bounds are enough to be interesting

* *RxContract.* With two slots and three handlers the registry is full for the
  last one, so the NULL handle occurs; two pausing threads give overlapping
  pauses; three kinds of frame (one that matches everything, one that matches
  nothing, one the chip marks bad) take every branch of the drain loop; a queue
  of two makes both kinds of edge (empty to non-empty, and none) occur. The
  instance allows two workers, which the application does not do today; the
  contract in the header does not depend on the single slot.
* *EncDriver.* Four cells with frames of one and two wrap the ring in every
  phase; a retry bound of 1 in place of 16 shows the first, the repeated and the
  abandoned transmission. Two threads are enough for a race on the bank.
* *PassiveHistory.* Two sources times two protocols are four keys for files and a
  database of two: full file, full database, updates, new keys and filtered
  records all occur. One power cut or fault at any step, any number of times.
* *ArpScan.* Two addresses let the answer of one arrive while the other is asked
  and leave list entries half written; three scans are one that is completed, one
  that is cut short, and one that starts from what both left in memory and file.
* *Settings.* Octets do not touch each other in the editor or the file. Three
  changes reach an address that overflows, a lease that replaces a typed address,
  and a typed address on top of a lease, each followed by a save that breaks off
  after any field and a start.
* *Tools.* Two starts are the least with which an answer, an event or a file of one
  tool meets another, or the same tool with another target. A queue of two fills
  while the GUI is joining. The two targets, one behind the gateway, have different
  open ports, and the range of ports passes the last one.
* *Neighbors.* The sizes of fields and pages are scaled down so that each text has
  one that fits, one that is cut (once inside a glyph of two octets) and one of
  several pages. The database of three is full with the third neighbour. `MCNeighbors`
  names which advert is there for what.
* *GetIp.* Two servers race; the second attempt can receive every answer to the
  first. One tick before the timeout is enough as any step may come before it.
* *PassiveDiscovery.* Two sessions let events and observations of the first
  reach the second; two protocols give a mode that excludes what the other heard.

### Fairness

TLC checks liveness with these assumptions and no others.

* `RxLive`: every thread that can run does (the scheduler of the firmware is
  preemptive with equal or inherited priorities); a thread that waits for the
  dispatch mutex gets it if it is free again and again (FreeRTOS hands a mutex to
  a waiter). Traffic is unbounded, and no frame is ever required to arrive.
  Starting features and quitting are up to the user.
* `EncDriver`: a driver function that has the mutex goes on.
* `GetIp`: the worker runs and its clock advances; receiving anything, and a link
  that goes down, are not assumed. The GUI thread leaves a join that may end.
* `ArpScan`: the worker runs, so its waits end by their timeout, and the GUI
  thread handles an event that is queued.
* `Tools`: the GUI thread and the worker run (`WF_vars(Gui)`, `WF_vars(Worker)`),
  and a worker of the OS detector that listens gets out of its loop by the frame or
  the time; nothing about the user, the hosts or the network.
* `Settings`, `Neighbors` and `PassiveHistory` state no liveness and no fairness.
* `PassiveDiscovery`: the worker and the dispatcher run; `rx_unregister`
  gets the mutex when it is free again and again; nothing about user or network.

### Findings

1. `enc28j60_start` without a soft reset before it resets the cached bank and not
   the chip's. If another thread has left the chip in another bank, the ring
   pointers are written elsewhere while the call reports success
   (`EncStartClaim`).
2. A load of the saved results that fails is indistinguishable from an empty file
   for a merge, which then replaces the file by the live results alone
   (`HistoryReadClaim`).

### Observations

Met while modelling. They are part of the models, so the properties above hold in
spite of them; no run is spent on showing them.

*Receiving.* `rx_dispatch_pause` gives up after 20 polls of 2 ms and returns as if
it had been acknowledged (`rx_dispatch.c:205`), where the header says it blocks until
the dispatcher is idle (`rx_dispatch.h:48`); `AckedPauseExcludes` is what does hold.
`os_scan` calls `receive_packet` into the shared buffer without a pause
(`os_detector_module.c:690`), against the comment that only the dispatcher reads the
chip (`scanner_session.c:107`), so the frame a handler is looking at may change.
`get_arp_reply` does not look at the EtherType.

*Addresses.* DOWN on the first digit of an octet from 056 to 059 shows 256 to 259
and stores the byte modulo 256 (`ip_assigner.c:308`); `OverflowOnlyFrom56` says that
this is the only way to such an octet. A typed address is paired with the gateway and
mask of an earlier lease and marked as acquired (`SettingsScene.c:226`, F4-011 of
`docs/BACKLOG.md`); `RestoredTuple` takes that pair for the network it was in memory.
BACK after the fields of an ACK have been copied leaves `is_dora` and `is_static_ip`
as they were before (`GetIPScene.c:33-38`, F4-012): `NetworkStateWhole` is about
address, gateway and mask and does not cover those flags. A file whose network is not
valid still restores the address and the static flag.

*Merging.* `passive_discovery_finish_live` ignores the result of
`passive_history_merge_live` (`PassiveDiscoveryScene.c:28`), and a record past the limit
of the file is skipped without failing (`passive_history.c:734`). The session ends as if
everything had been saved, and the next start, Saved or BACK drops the rest, which
`docs/BACKLOG.md` (F4-023) and `docs/ARCHITECTURE.md:306` record as open. In
`PassiveDiscovery` a merge may save any part of what it is given, so these losses occur in the
run; that whatever leaves the database was saved does not hold. What holds is
`LostInMergeOnly`: nothing is lost that no merge was given, whatever the order of events,
errors and buttons, so as long as merges succeed nothing is lost at all.

*Joins.* The `on_exit` of Ping joins the worker without telling it to stop, and relies
on the worker having seen the button. When it has not, the GUI thread waits for all the
remaining pings, and if their events fill the queue, for ever. The reader of captures is
told, but may already wait for room to post a text (`ReadPcapsScene.c:229`) or an error
when BACK is handled before the events ahead of it. `GuiIsFreed` says that these two are
the only ways for a join not to end.

*Port scanner.* Labels count past 65535 while the ports they are sent to wrap. A
SYN-ACK that an earlier target repeats is credited to the present one, so
`ListedIsOpen` is stated of the hosts that were scanned. The worker appends to a
submenu the GUI thread is drawing.

*OS detector.* "Filtered" is never shown; a scan that is cancelled can show results
without ports; options, windows and sequences are stored per attempt and read back
as if only successes were stored; a RST to the ACK probe marks an open port closed;
`os_score_resolve` is not reached.

*Captures.* An empty capture counts one position and then reports a read error; the
reader skips `orig_len` and not `incl_len` octets; a read that fails while positions are
counted only makes the capture look shorter; a torn record shifts all that
follow; a long BACK ends the reader without an event.

*Neighbours.* A CDP platform that contains " | " is split there when its page is
built; LLDP frames without the mandatory TLVs are accepted; two power TLVs write the
same type field; a text of only spaces gives a blank page; the database is shared by
the protocols, so one can crowd the others out.

## 4. Proofs

TLAPS checks the following for every value of the constants.

`RxDispatch_proofs`, from the named assumptions of `RxDispatch` (the kinds of
clients are disjoint, pausing threads are finitely many, the bounds are natural
numbers, a name for "no one" is fresh, auto-replies fit the registry):

* `RegistryCorrect`: `Spec => []RegistryInv`. The registry is exact only if
  handles are, handles only if the lock discipline holds, and a context is alive
  only if its wait has not reached `free`. `RegistryInv` is the conjunction that
  is inductive: types, `LockInv` (the dispatcher owns the mutex exactly while it
  looks at slots), `CallInv` (the context it calls is that of its current slot),
  `RegistryExact`, `HandleInv`, `SemInv`, `AutoInv`, `BootInv`. It is proved in
  four lemmas, one per group of conjuncts (`TypeStep`, `CallStep`,
  `RegistryStep`, `AutoStep`), each with a step per action.
* `TypeCorrect` and `ContextsAlive` follow.
* `PauseCorrect`: `Spec => []PauseInv`. `acked` alone says nothing: it may be left
  from an earlier pause. What is inductive is that `pause_count` equals the number
  of threads between pause and resume, and that an acknowledgement that stands
  while somebody pauses was given by a dispatcher that has stayed idle.
  Cardinalities are handled with the library's finite set theorems.
* `AckedPauseCorrect` follows.
* `RepliesTaken`: `Spec => []ReplyNotMissed`. A frame is offered slot by slot, so
  what is inductive (`OfferInv`, on top of `RegistryInv`) is that the waits in the
  slots behind the loop have taken it if they ask for it, and that the frame held is
  the one in the buffer unless somebody received over it. A wait cannot enter a slot
  the loop has passed, since registration needs the dispatch mutex; and a wait whose
  request has left is in its slot (`AskedInv`), since it registers before it asks. A
  wait that asked first would miss an answer that comes at once, which the run's
  mutant shows.

`PassiveDiscovery_proofs`, from the assumption of `PassiveDiscovery`:

* `SessionInv` relates worker, database, filter and mode (`WorkerInv`,
  `MulticastInv`, `ModeInv`) and says that every observation of a session that no
  merge was given yet is of a protocol the current mode selects and that a merge is
  still to come (`UnmergedInv`).
* `DatabaseOutlivesWorker`, `MulticastCorrect` and `LossesAreMerges` (an action
  property) follow.
* `EndInv` adds what the end of a session says: the stop flag is up only when the GUI
  thread is about to join, so a worker that has left its loop by itself has an error to
  send or has seen the button, and an error that was sent stays in the queue until
  the scene takes it. `NeverSilent` follows.
* `DiscoveryTypeCorrect`: what is written to the database is an observation of a
  session that was started, since by `ModeInv` a worker has one.

* The database is proved for any number of entries, neighbours and frames, under one
  hypothesis about the parsers, `FramesParsed`: of a whole frame the record it
  advertises, of any other nothing. TLC evaluates it for every frame of the `Neighbors`
  run. `DatabaseInv` is a bijection between the occupied slots and the neighbours
  heard; it is needed because which slot is written, and whether there is one, depends
  on it (`Stored`, `SlotsCounted`), and because the identity a frame does not repeat is
  read from the slot (`ExpectedRenamed`). `RecordsCorrect` follows for the calls of the
  database in any order, and `ScreensCorrect` for the specification of the run, whose
  steps are steps of the database or leave it alone (`ScreensStep`).
* `PagesCorrect`: `ScreensSpec => []PagesShowAdvert`, for texts, pages, lines and
  fields of any length. The argument goes from a text to the screen:
  * The loops are functions defined by recursion. `Recursion` shows that such a
    definition has a solution, and `Induction` is stated for sets, which needs no
    operator as a parameter; both are proved here, from the least-number principle
    (`Least`).
  * Every page ends behind its start and starts where the one before it ended, but for
    spaces, so the pages together hold the text without its spaces, and there are as
    many as `PageCount` says (`Counted`, `TextShown`).
  * The pages of items lie one behind the other, each page is of one item, and there is
    none behind the last (`UpToGrows`, `OneItem`, `Past`); so the lines collected under a
    heading are those of the one item that has it.
  * The figure of each protocol's count function is the sum over the items its build
    function goes through (`LldpComplete`, `CdpComplete`, `EapolComplete`). For CDP this
    needs that the stored description divides where it was joined (`PartsOf`).
  * `PageInv` (the row chosen is of the list, the page one of those counted) and
    `TextsInv` (what was heard is legible, also after an identity was carried over,
    `RenamedLegible`) are inductive, with `DatabaseInv`.

  `AdvertsLegible` is its hypothesis about adverts: texts are octets, an address has six
  at most, and the platform of a CDP neighbour does not contain the separator the code
  divides at (see Observations: for one that does the property is false, and no theorem
  says otherwise). TLC evaluates it for the adverts of the run. `PagesAssumption` is about
  the sizes: the code's (45 glyphs, 128 octets for a line, 64 and 128 for fields) satisfy it.

`ArpScan_proofs`, from the assumption of `ArpScan` (the bounds are natural
numbers):

* `ScanInv` is inductive: types, what the worker knows at each step of its loop
  (`WorkInv`), a matched wait has its MAC in the next entry (`MacInv`), and whose
  scan the file is at each step of saving (`FileInv`), with the three properties.
  `FoundPaired` needs `MacInv`, because the MAC is written by another thread and
  earlier than the address. `SavedIsCompleted` needs that a scan that is saved has
  asked every address, and that the date in the file is older than the scan until
  the header is written.
* `HostsPaired`, `FileCompleted`, `ListIsFile` and `ScanTypeCorrect` follow.

`EncDriver_proofs`, from the assumptions of `EncDriver` (names of threads differ, a frame
fits the ring with a cell to spare, bounds are natural numbers) and `~Restarts` as a
hypothesis of each theorem:

* `CallInv` says what the caller of each step holds: the mutex from its first
  register to its last, a cached bank that is the chip's, and, after selecting, the
  bank of the register it accesses next. `AccessesHit` follows.
* `RingInv` says where everything lies on the ring. Cells are ordered by their
  distance from the chip's read pointer (`Dist`), which turns wrap-around into
  inequalities: frames lie one behind the other from the driver's next packet
  pointer to the write pointer, none of them reaching the read pointer again. The arithmetic is in lemmas about distances modulo the ring
  (`DistIs` and those after it), one per way the pointers move; the steps cite them. `UnreadKept` and
  `RingRegained` follow.
* `QueueImplemented`: `Spec => ImplementsQueue`, the refinement of `FrameQueue`. A
  reception by the chip is `Store`, the read of a header is `Receive`, since by
  `RingInv` it starts at the oldest frame that is waiting (`RingReads`), and every
  other step changes nothing of the queue (`QueueStep`).
* `DriverTypeCorrect` and `MutualExclusion` do without that hypothesis: also when the
  chip is started again, types hold and no two threads are inside the driver. What a
  restart breaks is where the registers are, not the mutex.

`GetIp_proofs`, from the assumption of `GetIp`:

* `AttemptInv` relates the DORA thread's position to what it may have received
  (`LeaseInv`: an ACK it accepted answers a request of this attempt), to the tuple
  (`FlagInv`), and to the chip (`ChipInv`). An answer may be any one ever sent, so
  `LeaseInv` rests on transaction ids and not on order. `LeaseReported`, `NetworkWhole` and
  `ChipAsBefore` follow.
* `LeaseTypeCorrect` needs `DrawInv`: a worker that is about to draw a transaction id
  has one left, and nothing is requested before a server has offered, so the MAC an
  acknowledgement installs is a server's.

`PassiveHistory_proofs`, from the assumption of `PassiveHistory`:

* `FileInv` says which keys the file being written has: those copied, in the order
  of the index, then live ones that are not in the index, so no key comes twice and
  the limit is kept. `ReplacedByReadable` follows, for reads that fail as well.
* `IndexInv` (an index in use is that of the file) needs reads that do not fail
  (`~LoadFaults`). `IndexIsCurrent` follows.
* `ContentInv` says what each record written so far is: the live successor of a
  saved record, that record, or a new live one, with none left out while there was room.
* `HistoryTypeCorrect`: with `SizeInv`, which rests on the bounds `FileInv` gives for
  the file being written, no file ever holds more records than an index takes.
* `StoreImplemented`: `Spec => ImplementsStore`, the refinement. Every step but the
  rename is a step of the abstract store that changes nothing saved, and the rename
  is the store's `Merge` or `Clear` (`MergeCommits`, `ClearCommits`). How many
  were added is counted with a bijection from the positions (`Counted`).

`Settings_proofs`, from the assumption of `Settings`:

* `FileInv`: the file is empty, of an earlier version, or holds the first so many
  fields of what memory was when the save opened it; and memory does not change
  while a save is under way. An earlier version has too few fields to
  restore a network. `RestoredWhole` and `SavedRestored` follow.
* `EditorInv` is inductive because it says that the first digit of an octet is 2 at
  most. An edit that takes an octet past 255 is then one of finitely many, and the
  arithmetic of the two validation functions (`PressShown`, `SubtractionOfDigits`)
  leaves DOWN from 056 to 059 only: `OverflowsOnlyFrom56`.
* `SettingsTypeCorrect`: `TypeInv` says of which type each field of a file is, in the
  current and in earlier versions, so that what loading takes is typed.

`Tools_proofs`, from the assumptions of `WorkerSlot` and the tools:

* `ToolsInv` is inductive. Its parts are `SlotInv` (who runs where), `NetInv` (which
  host's MAC is in use), `ListedInv` (SYN-ACKs come from open ports), `HeldInv` (a
  handler, a file or a filter has its owner), `CaptureInv` (sound records are the
  packets in order), `EventInv` (an OS scan posts its end once, and no event of it
  is left when another starts) and `ShownInv` (what the OS detector may show is
  justified by answers to this scan).
* One theorem for each of the six invariants of the run follows.

### Only model-checked

Liveness (`RxLive`, `MutexReleased`, `BackReturns`, `FinishReturns`, `ScanEnds`,
`GuiIsFreed`) is out of the prover's reach. What the parsers make of a frame
(`FramesParsed`) is a hypothesis of three theorems and checked for the frames of the
run; the parsers walk a frame by recursion over its fields, against encoders that are
not code of this repository. Every safety and action property of a passing run is
stated by a theorem.

## 5. Assumptions and limits

* `storage_common_rename` replaces its target atomically. The repository records
  as open whether FAT does (F4-033).
* `PassiveHistory` assumes that a good file can be read (`LoadFaults = FALSE`):
  without it finding 2 breaks the refinement. `EncDriver` does not start the chip
  again while others use it (`Restarts = FALSE`): without it finding 1 breaks
  `NoStrayAccess`.
* Custom events are not lost. Their queue is bounded in `Tools`, where a worker that
  posts to a full one waits, and unbounded in the other modules.
* `Tools`: the user picks a tool from the menu when the events and buttons before
  it have been handled. A session resolves one target, so its cache never answers
  and is left out. Whether an address is on the link is decided by the code's mask.
* DHCP servers are honest; the network is not. Two attempts never draw the same
  random transaction id.
* The worker slot is one (`app_thread_claim`); `GetIp` and `PassiveDiscovery`
  model a refused claim as a nondeterministic failure, `Tools` the slot itself.
* `ArpScan` takes a scan to ask distinct addresses, a good file to be readable and
  the body of a file not to be written when its header was not. `ShownIsSaved` is
  stated for whole files: with a file that was cut short the list may end in
  entries of an earlier load, which the repository records as open (F4-019, F4-020).
* Heap exhaustion is a nondeterministic failure where the code checks for it.
* Time is abstract: a timeout may fire at any moment, except in `GetIp`, where
  ticks restart as they do in the code.
* Drawing, logging and formatting are left out.

### Not modelled

* The scoring of OS fingerprints (`os_detector_module.c`): arithmetic on floats
  over tables. What reaches it, port states and answers, is modelled.
* The builders of ARP, IP, TCP, UDP and ICMP frames and `dhcp.c`: they put fields in
  buffers, and the models take a frame by what it says.
* The UDP scan, which the scene offers no way to choose. `tcp_handshake_process`
  and its variant, `tcp_os_detector`, `arp_get_specific_mac` and `lldp_module_run`
  have no caller. `ArpSpoofingSpecificIP.c` is compiled for `DEV_MODE` only.
* The contents of automatic ARP and ping replies; that they are handlers of the
  dispatcher is in `RxDispatch`.
* The heap arithmetic of the startup guard (its verdict is a choice), menus, drawing
  and the input of scan parameters.

## 6. Plan

Done: the receive path first, since every feature relies on it; the driver below
it; then the features with most state of their own (Passive Discovery with its
storage, Get IP, Scan Hosts); then the settings with the address editor, the tools
that share the worker slot, and the frames and pages of neighbours. Every module
with state of more than one thread has its main invariants proved.

To come:

1. `PassiveDiscovery` and `ArpScan` over `WorkerSlot`, so that one composition has
   every worker.
2. The ports and probes of the OS detector up to the figures its scoring starts from.
