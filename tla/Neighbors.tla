----------------------------- MODULE Neighbors -----------------------------
(* From the frames of neighbours to the screen: the neighbour database, the     *)
(* list and the pages of details (PassiveNeighborListScene.c,                   *)
(* PassiveNeighborDetailsScene.c).  How sessions start and end, and threads,    *)
(* are PassiveDiscovery's; nothing is heard while the list or details are open. *)
EXTENDS NeighborDb, NeighborPages

ASSUME PagesAssumption ==
    /\ GlyphsPerPage \in Nat \ {0} /\ LineSize \in Nat /\ LineSize > 6
    /\ NameSize \in 1..LineSize /\ DescriptionSize \in 1..LineSize
    /\ PlatformShare \in Nat /\ SoftwareShare \in Nat

VARIABLES
    protocol,       \* app->passive_discovery.protocol
    screen,         \* "config", "listening", "list", "details"
    chosen,         \* app->passive_selected_neighbor
    page            \* app->passive_details_page

screenVars == <<protocol, screen, chosen, page>>
sessionVars == <<databaseVars, screenVars>>

Selections == Handlers \cup {"all"}
Sources(m) == IF m = "all" THEN Handlers ELSE {m}

ScreensInit ==
    /\ DbInit
    /\ protocol = "all" /\ screen = "config" /\ chosen = 0 /\ page = 0

(* passive_discovery_dispatch_frame                                             *)
Hear(receipt) ==
    /\ screen = "listening"
    /\ Receive(Sources(protocol), receipt)
    /\ UNCHANGED screenVars

-----------------------------------------------------------------------------
(* The scenes.                                                                  *)

(* passive_discovery_handlers_init: the neighbours of other protocols stay.     *)
StartHearing(m) ==
    /\ screen = "config"
    /\ protocol' = m /\ screen' = "listening"
    /\ Forget(Sources(m))
    /\ UNCHANGED <<chosen, page>>

StopHearing ==
    /\ screen = "listening"
    /\ screen' = "list" /\ chosen' = 0
    /\ UNCHANGED <<databaseVars, protocol, page>>

(* neighbor_db_get_by_position and neighbor_db_get_by_source: the slot that has *)
(* so many listed ones in front of it.                                          *)
Listed == {i \in Slots : neighbors[i].source \in Sources(protocol)}
SlotAt(position) == Nth(Listed, position)

(* passive_neighbor_callback                                                    *)
Choose(position) ==
    /\ screen = "list"
    /\ chosen' = position
    /\ screen' = "details" /\ page' = 0
    /\ UNCHANGED <<databaseVars, protocol>>

ClearListed ==
    /\ screen = "list"
    /\ Forget(Sources(protocol))
    /\ chosen' = 0
    /\ UNCHANGED <<protocol, screen, page>>

(* passive_details_get_selected_neighbor                                        *)
SelectedNeighbor == neighbors[SlotAt(chosen)]
Count == DetailsPageCount(SelectedNeighbor)

(* passive_details_callback                                                     *)
RightPage ==
    /\ screen = "details"
    /\ page' = IF page + 1 >= Count THEN 0 ELSE page + 1
    /\ UNCHANGED <<databaseVars, protocol, screen, chosen>>

LeftPage ==
    /\ screen = "details"
    /\ page' = IF page = 0 THEN Count - 1 ELSE page - 1
    /\ UNCHANGED <<databaseVars, protocol, screen, chosen>>

(* BACK; leaving the scene of Passive Discovery gives the database back.        *)
LeaveScreen ==
    /\ \/ screen = "details" /\ screen' = "list" /\ page' = 0 /\ UNCHANGED databaseVars
       \/ screen = "list" /\ screen' = "config" /\ UNCHANGED <<databaseVars, page>>
       \/ /\ screen \in {"listening", "config"} /\ screen' = "config"
          /\ Release /\ UNCHANGED page
    /\ UNCHANGED <<protocol, chosen>>

ScreensNext ==
    \/ \E m \in Selections : StartHearing(m)
    \/ \E receipt \in Receipts : Hear(receipt)
    \/ \E position \in 0..(Cardinality(Listed) - 1) : Choose(position)
    \/ StopHearing \/ ClearListed \/ RightPage \/ LeftPage \/ LeaveScreen

ScreensSpec == ScreensInit /\ [][ScreensNext]_sessionVars

-----------------------------------------------------------------------------
(* Properties.                                                                  *)

Texts(a) ==
    LET e == Expected(a)
    IN CASE e.source = "lldp" ->
              {<<"SYSTEM_NAME", e.name>>, <<"PORT", e.port>>, <<"CHASSIS", e.chassis>>,
               <<"SYSTEM_DESCRIPTION", e.description>>, <<"VLAN_NAME", e.vlanName>>}
         [] e.source = "cdp" ->
              {<<"DEVICE_ID", e.name>>, <<"PORT_ID", e.port>>,
               <<"PLATFORM", Chars(KeptParts(a)[1])>>, <<"SOFTWARE_VERSION", Chars(KeptParts(a)[2])>>}
         [] e.source = "eapol" -> {<<"IDENTITY", e.name>>}

(* What the theorem about the pages assumes of adverts: texts are octets,       *)
(* addresses are short, and no separator is in the platform of a description.   *)
Octets == 0..255
Readable(text) ==
    /\ text = [form |-> text.form, octets |-> text.octets]
    /\ text.octets \in Seq(Octets) /\ (text.form = "chars" \/ Len(text.octets) <= 6)
Undivided(a) ==
    LET kept == KeptParts(a)
    IN \A i \in 1..Len(kept[1]) : SubSeq(kept[1] \o Separator \o kept[2], i, i + 2) # Separator
Legible(a) ==
    LET r == a.record
    IN /\ \A text \in {r.name, r.port, r.chassis, r.description, r.vlanName} : Readable(text)
       /\ a.platform \in Seq(Octets) /\ a.software \in Seq(Octets)
       /\ ~r.hasVlanName => r.vlanName = NoText
       /\ r.source = "cdp" => Undivided(a)
AdvertsLegible == \A receipt \in Receipts : Legible(receipt.advert)

(* The pages shown of a record are complete: those that are counted are those   *)
(* there are, none is empty, a page of text fits the screen, and the pages of a *)
(* text show all its glyphs, in order.                                          *)
PagesAreComplete(n, a) ==
    LET pages == FirstPages(n, DetailsPageCount(n))
    IN /\ \A p \in DOMAIN pages : pages[p].heading # NoHeading /\ Len(pages[p].line) < LineSize
       /\ BuildPage(n, DetailsPageCount(n)) = EmptyScreen
       /\ \A t \in Texts(a) :
             NoSpaces(Shown(pages, t[1])) = NoSpaces(OrNotAvailable(t[2]).octets)

(* Going through the pages of a neighbour shows what it advertised              *)
(* (passive_details_text.c:42-125, lldp_module.c:279-491, cdp_module.c:80-207,  *)
(* eapol_module.c:51-217, PassiveNeighborDetailsScene.c:143-192).               *)
PagesShowAdvert ==
    screen = "details" =>
        LET n == SelectedNeighbor
        IN /\ page < Count
           /\ page = 0 => PagesAreComplete(n, heard[<<n.mac, n.source>>])
=============================================================================
