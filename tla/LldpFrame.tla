----------------------------- MODULE LldpFrame -----------------------------
(* Parsing an LLDP frame into a record (lldp.c).                                *)
EXTENDS Neighbor

EndTlv == 0
Ieee8021 == <<0, 128, 194>>
Ieee8023 == <<0, 18, 15>>
LldpMed == <<0, 18, 187>>

(* lldp_parse_chassis_id and lldp_parse_port_id: the subtypes differ.           *)
Identifier(v, macType, networkType, old) ==
    CASE v[1] = macType -> IF Len(v) = 7 THEN Formatted("mac", Tail(v)) ELSE old
      [] v[1] = networkType ->
            IF Len(v) = 6 /\ v[2] = 1 THEN Formatted("ipv4", SubSeq(v, 3, 6)) ELSE old
      [] v[1] \in (1..7) \ {macType, networkType} -> StringText(Tail(v), NameSize)
      [] OTHER -> old

ChassisId(n, v) ==
    IF Len(v) < 2 THEN n
    ELSE [n EXCEPT !.chassisType = v[1], !.chassis = Identifier(v, 4, 5, @)]
PortId(n, v) ==
    IF Len(v) < 2 THEN n
    ELSE [n EXCEPT !.portType = v[1], !.port = Identifier(v, 3, 4, @)]
Ttl(n, v) == IF Len(v) # 2 THEN n ELSE [n EXCEPT !.ttl = Word(v, 1)]
SystemName(n, v) == IF v = <<>> THEN n ELSE [n EXCEPT !.name = StringText(v, NameSize)]
SystemDescription(n, v) ==
    IF v = <<>> THEN n ELSE [n EXCEPT !.description = StringText(v, DescriptionSize)]
SystemCapabilities(n, v) ==
    IF Len(v) # 4 THEN n
    ELSE [n EXCEPT !.capabilities = Word(v, 1), !.enabled = Word(v, 3)]
ManagementAddress(n, v) ==
    IF Len(v) >= 6 /\ v[1] = 5 /\ v[2] = 1
       THEN [n EXCEPT !.management = Formatted("ipv4", SubSeq(v, 3, 6))] ELSE n

Pvid(n, v) ==
    IF Len(v) # 6 THEN n ELSE [n EXCEPT !.hasPvid = TRUE, !.pvid = Word(v, 5)]
VlanName(n, v) ==
    IF Len(v) < 7 \/ v[7] = 0 \/ 7 + v[7] # Len(v) THEN n
    ELSE [n EXCEPT !.hasVlanName = TRUE, !.vlan = Word(v, 5),
                   !.vlanName = StringText(SubSeq(v, 8, Len(v)), NameSize)]
NetworkPolicy(n, v) ==
    IF Len(v) # 8 THEN n
    ELSE [n EXCEPT !.hasPolicy = TRUE, !.policy = (v[6] % 32) * 128 + v[7] \div 2]
Poe8023(n, v) ==
    IF Len(v) < 7 THEN n
    ELSE [n EXCEPT !.poe.mdi = TRUE, !.poe.type = 1 - (v[5] % 2),
                   !.poe.supported = (v[5] \div 2) % 2 = 1,
                   !.poe.pair = v[6], !.poe.class = v[7]]
PoeMed(n, v) ==
    IF Len(v) # 7 THEN n
    ELSE [n EXCEPT !.poe.values = TRUE, !.poe.type = v[5] \div 64,
                   !.poe.source = (v[5] \div 16) % 4, !.poe.priority = v[5] % 16,
                   !.poe.watts = Word(v, 6)]

Organizational(n, v) ==
    IF Len(v) < 4 THEN n
    ELSE LET kind == <<SubSeq(v, 1, 3), v[4]>>
         IN CASE kind = <<Ieee8021, 1>> -> Pvid(n, v)
              [] kind = <<Ieee8021, 3>> -> VlanName(n, v)
              [] kind = <<Ieee8023, 2>> -> Poe8023(n, v)
              [] kind = <<LldpMed, 2>> -> NetworkPolicy(n, v)
              [] kind = <<LldpMed, 4>> -> PoeMed(n, v)
              [] OTHER -> n

Applied(n, tlv) ==
    CASE tlv.type = 1 -> ChassisId(n, tlv.value)
      [] tlv.type = 2 -> PortId(n, tlv.value)
      [] tlv.type = 3 -> Ttl(n, tlv.value)
      [] tlv.type = 5 -> SystemName(n, tlv.value)
      [] tlv.type = 6 -> SystemDescription(n, tlv.value)
      [] tlv.type = 7 -> SystemCapabilities(n, tlv.value)
      [] tlv.type = 8 -> ManagementAddress(n, tlv.value)
      [] tlv.type = 127 -> Organizational(n, tlv.value)
      [] OTHER -> n

(* The TLVs up to the end TLV; without one, or with one that leaves the frame,  *)
(* there are none.                                                              *)
LldpTlvs(b) ==
    LET length(p) == (b[p] % 2) * 256 + b[p + 1]
        from[p \in 1..(Len(b) + 1)] ==
            IF p + 1 > Len(b) \/ p + 1 + length(p) > Len(b) THEN Rejected
            ELSE IF b[p] \div 2 = EndTlv THEN Accepted(<<>>)
            ELSE {<<[type |-> b[p] \div 2, value |-> SubSeq(b, p + 2, p + 1 + length(p))]>> \o rest :
                     rest \in from[p + 2 + length(p)]}
    IN from[1]

(* is_lldp, lldp_parse and lldp_fill_neighbor                                   *)
LldpParse(f) ==
    IF f.carries # "lldp" THEN Rejected
    ELSE {FoldLeft(Applied, Blank(f.source, "lldp"), tlvs) : tlvs \in LldpTlvs(f.payload)}
=============================================================================
