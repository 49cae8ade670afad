--------------------------- MODULE NeighborPages ---------------------------
(* The pages of details of a record: how many there are, and what each shows    *)
(* (lldp_module.c, cdp_module.c, eapol_module.c).  Headings name their field,   *)
(* a capability is one letter, and numbers and names of codes are left as they  *)
(* are in the record.                                                           *)
EXTENDS LldpFrame, CdpFrame, EapolFrame

(* A long text goes over pages of its own; a short one is on the one page of    *)
(* its heading.                                                                 *)
Long(heading, text) ==
    [heading |-> heading, long |-> TRUE, text |-> text, count |-> PageCount(text), value |-> 0]
Short(heading, value) ==
    [heading |-> heading, long |-> FALSE, text |-> NoText, count |-> 1, value |-> value]
IfThere(there, value) == IF there THEN value ELSE {}

Letters(mask) ==
    LET bits == {i \in 0..15 : (mask \div 2 ^ i) % 2 = 1}
    IN [k \in 1..(3 * Cardinality(bits) - 2) |->
           CASE k % 3 = 1 -> 65 + Nth(bits, k \div 3)
             [] k % 3 = 2 -> 44
             [] k % 3 = 0 -> Space]
NoneOr(t) == IF t = <<>> THEN <<78, 111, 110, 101>> ELSE t

(* lldp_format_capabilities and cdp_format_capabilities                         *)
LldpCapabilities(n) ==
    IF n.capabilities = 0 /\ n.enabled = 0 THEN NotAvailable
    ELSE IF n.capabilities = n.enabled THEN Chars(Letters(n.enabled) \o <<32, 35>>)
    ELSE Chars(NoneOr(Letters(n.enabled)) \o <<59, 32>> \o NoneOr(Letters(n.capabilities)))
CdpCapabilities(n) ==
    IF n.capabilities = 0 THEN NotAvailable ELSE Chars(Letters(n.capabilities) \o <<32, 35>>)

(* cdp_get_description_parts: at the first separator.                           *)
Parts(description) ==
    LET d == description.octets
        at == {i \in 1..(Len(d) - 2) : SubSeq(d, i, i + 2) = Separator}
    IN IF at = {} THEN [platform |-> NoText, software |-> description]
       ELSE [platform |-> Chars(Cut(SubSeq(d, 1, Min(at) - 1), NameSize)),
             software |-> Chars(SubSeq(d, Min(at) + 3, Len(d)))]

-----------------------------------------------------------------------------
(* lldp_build_details_page, cdp_build_details_page, eapol_build_details_page:   *)
(* what they go through, in order.                                              *)

Origin(n) == Short("SOURCE_MAC", <<n.mac, OrNotAvailable(n.management)>>)

LldpItems(n) ==
    << Long("SYSTEM_NAME", n.name), Origin(n),
       Long("PORT", n.port), Long("CHASSIS", n.chassis),
       Short("TTL", n.ttl),
       Long("CAPABILITIES", LldpCapabilities(n)),
       Long("SYSTEM_DESCRIPTION", n.description),
       Short("PORT_VLAN_ID", <<IfThere(n.hasPvid, {n.pvid}), IfThere(n.hasVlanName, {n.vlan})>>),
       Long("VLAN_NAME", IF n.hasVlanName THEN n.vlanName ELSE NoText),
       Short("NETWORK_POLICY_VLAN", IfThere(n.hasPolicy, {n.policy})),
       Short("POE_DEVICE",
             <<IfThere(n.poe.mdi, {<<n.poe.supported, n.poe.pair, n.poe.class>>}),
               IfThere(n.poe.mdi \/ n.poe.values, {n.poe.type})>>),
       Short("MED_POWER",
             IfThere(n.poe.values,
                     {<<n.poe.watts, n.poe.type, n.poe.source, n.poe.priority>>})) >>

CdpItems(n) ==
    << Long("DEVICE_ID", n.name), Origin(n),
       Long("PORT_ID", n.port),
       Short("TTL", n.ttl),
       Long("CAPABILITIES", CdpCapabilities(n)),
       Long("PLATFORM", Parts(n.description).platform),
       Long("SOFTWARE_VERSION", Parts(n.description).software) >>

EapolItems(n) ==
    << Long("IDENTITY", n.name),
       Short("SOURCE_MAC", <<n.mac, n.packetType>>),
       Short("EAPOL_VERSION",
             <<n.version, IfThere(n.packetType = EapPacket, {n.eapCode})>>),
       Short("EAP_TYPE", IfThere(n.packetType = EapPacket /\ n.eapCode \notin SuccessOrFailure,
                                 {n.eapType})) >>

Items(n) ==
    CASE n.source = "lldp" -> LldpItems(n)
      [] n.source = "cdp" -> CdpItems(n)
      [] n.source = "eapol" -> EapolItems(n)

(* Each item takes its pages off the page asked for, until one shows it; past   *)
(* the last the screen stays empty.                                             *)
NoHeading == "none"
EmptyScreen == [heading |-> NoHeading, line |-> <<>>, value |-> 0]
PagesUpTo(items) ==
    LET pages[i \in Nat] ==
            IF i \notin DOMAIN items THEN 0 ELSE pages[i - 1] + items[i].count
    IN pages
PageAmong(items, pages, page) ==
    LET showing == {i \in DOMAIN items : page \in pages[i - 1]..(pages[i] - 1)}
        show(i) == [heading |-> items[i].heading, value |-> items[i].value,
                    line |-> IF items[i].long THEN GetPage(items[i].text, page - pages[i - 1])
                                              ELSE <<>>]
    IN IF showing = {} THEN EmptyScreen ELSE show(CHOOSE i \in showing : TRUE)
BuildPage(n, page) == PageAmong(Items(n), PagesUpTo(Items(n)), page)

(* Going through pages, and the lines of those of a heading, one behind the     *)
(* other.                                                                       *)
FirstPages(n, count) == [p \in 1..count |-> BuildPage(n, p - 1)]
LinesOf(pages, heading) ==
    LET lines[p \in Nat] ==
            IF p \notin DOMAIN pages THEN <<>>
            ELSE IF pages[p].heading = heading THEN lines[p - 1] \o pages[p].line
            ELSE lines[p - 1]
    IN lines
Shown(pages, heading) == LinesOf(pages, heading)[Len(pages)]

-----------------------------------------------------------------------------
(* lldp_get_details_page_count, cdp_get_.., eapol_get_..: counted apart.        *)
LldpPageCount(n) ==
    PageCount(n.name) + PageCount(n.port) + PageCount(n.chassis)
        + PageCount(LldpCapabilities(n)) + PageCount(n.description) + PageCount(n.vlanName) + 6
CdpPageCount(n) ==
    PageCount(n.name) + PageCount(n.port) + PageCount(CdpCapabilities(n))
        + PageCount(Parts(n.description).platform) + PageCount(Parts(n.description).software) + 2
EapolPageCount(n) == PageCount(n.name) + 3

(* Variant: the platform, which not every switch sends, is not counted.         *)
DetailsPageCountNoPlatform(n) ==
    CASE n.source = "lldp" -> LldpPageCount(n)
      [] n.source = "cdp" -> CdpPageCount(n) - PageCount(Parts(n.description).platform)
      [] n.source = "eapol" -> EapolPageCount(n)
DetailsPageCount(n) ==
    CASE n.source = "lldp" -> LldpPageCount(n)
      [] n.source = "cdp" -> CdpPageCount(n)
      [] n.source = "eapol" -> EapolPageCount(n)
=============================================================================
