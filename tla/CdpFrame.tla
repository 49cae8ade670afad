------------------------------ MODULE CdpFrame ------------------------------
(* Parsing a CDP frame into a record (cdp.c), and the description a record      *)
(* keeps of platform and software.                                              *)
EXTENDS Neighbor

CONSTANTS
    PlatformShare,      \* 47
    SoftwareShare       \* 77

MaxPdu == 1492          \* a payload of 802.3 without LLC and SNAP
Separator == <<32, 124, 32>>

ASSUME CdpAssumption == PlatformShare + SoftwareShare = DescriptionSize - Len(Separator) - 1

(* The sum of all words with the carries added in is 0xFFFF.                    *)
WordSum(b) ==
    LET at(p) == b[p] * 256 + IF p = Len(b) THEN 0 ELSE b[p + 1]
        sum[n \in 0..Len(b)] ==
            IF n = 0 THEN 0 ELSE sum[n - 1] + IF n % 2 = 1 THEN at(n) ELSE 0
    IN sum[Len(b)]
ChecksumIsValid(b) == WordSum(b) # 0 /\ WordSum(b) % 65535 = 0

(* cdp_get_pdu: what the header declares, if that much was captured.            *)
Pdu(f) ==
    IF f.carries = "cdp" /\ f.declared \in 4..Min({Len(f.payload), MaxPdu})
       THEN Accepted(SubSeq(f.payload, 1, f.declared)) ELSE Rejected

(* cdp_parse_addresses: the first IPv4 address, or the one found before.  More  *)
(* than 2^16 addresses are in no frame.                                         *)
Addresses(v, found) ==
    LET count == IF v[1] # 0 \/ v[2] # 0 THEN 65536 ELSE Word(v, 3)
        fits(p, size) == p + size - 1 <= Len(v)
        from[p \in 5..(Len(v) + 1), left \in 0..count, old \in {found, NoText} \cup
                {Formatted("ipv4", SubSeq(v, q, q + 3)) : q \in 5..(Len(v) - 3)}] ==
            IF left = 0 THEN (IF p = Len(v) + 1 THEN Accepted(old) ELSE Rejected)
            ELSE IF ~fits(p, 2) \/ ~fits(p + 2, v[p + 1] + 2) THEN Rejected
            ELSE LET q == p + 4 + v[p + 1]
                     size == Word(v, q - 2)
                     ipv4 == v[p] = 1 /\ v[p + 1] = 1 /\ v[p + 2] = 204
                 IN IF ~fits(q, size) \/ (ipv4 /\ size # 4) THEN Rejected
                    ELSE from[q + size, left - 1,
                              IF ipv4 /\ old = NoText
                                 THEN Formatted("ipv4", SubSeq(v, q, q + 3)) ELSE old]
    IN IF Len(v) < 4 THEN Rejected ELSE from[5, count, found]

(* The information of the TLVs so far, with one more.                           *)
WithTlv(info, tlv) ==
    LET v == tlv.value
    IN CASE tlv.type = 1 -> Accepted([info EXCEPT !.device = PrintableText(v, NameSize)])
         [] tlv.type \in {2, 22} ->
               {[info EXCEPT !.management = a] : a \in Addresses(v, info.management)}
         [] tlv.type = 3 -> Accepted([info EXCEPT !.port = PrintableText(v, NameSize)])
         [] tlv.type = 4 -> IF Len(v) # 4 THEN Rejected
                            ELSE Accepted([info EXCEPT !.capabilities = Word(v, 3)])
         [] tlv.type = 5 -> Accepted([info EXCEPT !.software = PrintableText(v, DescriptionSize)])
         [] tlv.type = 6 -> Accepted([info EXCEPT !.platform = PrintableText(v, NameSize)])
         [] OTHER -> Accepted(info)

CdpInfo(b) ==
    LET blank == [device |-> NoText, management |-> NoText, port |-> NoText,
                  capabilities |-> 0, software |-> NoText, platform |-> NoText]
        ends(p) == p + 3 <= Len(b) /\ Word(b, p + 2) >= 4 /\ p + Word(b, p + 2) - 1 <= Len(b)
        starts[p \in 1..(Len(b) + 1)] ==
            IF p = Len(b) + 1 THEN Accepted(<<>>)
            ELSE IF ~ends(p) THEN Rejected
            ELSE {<<[type |-> Word(b, p), value |-> SubSeq(b, p + 4, p + Word(b, p + 2) - 1)]>> \o r :
                     r \in starts[p + Word(b, p + 2)]}
        add(infos, tlv) == UNION {WithTlv(info, tlv) : info \in infos}
    IN UNION {FoldLeft(add, Accepted(blank), tlvs) : tlvs \in starts[5]}

(* cdp_store_description: each part has its share, and what the other leaves.   *)
StoreDescription(platform, software) ==
    LET capacity == PlatformShare + SoftwareShare
        p == Min({Len(platform), PlatformShare})
        s == Min({Len(software), capacity - p})
    IN IF platform = <<>> /\ software = <<>> THEN NoText
       ELSE Chars(SubSeq(platform, 1, Min({Len(platform), capacity - s}))
                     \o Separator \o SubSeq(software, 1, s))

(* cdp_parse and cdp_fill_neighbor                                              *)
CdpParse(f) ==
    LET record(b, info) ==
            [Blank(f.source, "cdp") EXCEPT
                !.name = info.device, !.port = info.port, !.management = info.management,
                !.description = StoreDescription(info.platform.octets, info.software.octets),
                !.ttl = b[2], !.capabilities = info.capabilities]
        readable == {b \in Pdu(f) : ChecksumIsValid(b) /\ b[1] \in {1, 2}}
    IN UNION {{record(b, info) : info \in {i \in CdpInfo(b) : i.device # NoText}} : b \in readable}
=============================================================================
