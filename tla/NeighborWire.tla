---------------------------- MODULE NeighborWire ----------------------------
(* From what neighbours advertise to what the handlers of the protocols make of *)
(* it: an advert is [record, platform, software], the wire encodes it, the link *)
(* captures a part of it, and the handler parses that.                          *)
EXTENDS LldpFrame, CdpFrame, EapolFrame

Octets2(w) == <<w \div 256, w % 256>>
Sent(condition, octets) == IF condition THEN octets ELSE <<>>

Tlv(type, v) == <<type * 2 + Len(v) \div 256, Len(v) % 256>> \o v
Id(subtype, text) ==
    <<subtype>> \o Sent(text.form = "ipv4", <<1>>) \o text.octets
LldpWire(r) ==
    Tlv(1, Id(r.chassisType, r.chassis)) \o Tlv(2, Id(r.portType, r.port))
        \o Tlv(3, Octets2(r.ttl)) \o Tlv(4, <<112>>)
        \o Tlv(5, r.name.octets) \o Tlv(6, r.description.octets)
        \o Tlv(7, Octets2(r.capabilities) \o Octets2(r.enabled))
        \o Sent(r.management # NoText, Tlv(8, <<5, 1>> \o r.management.octets \o <<2, 0, 0, 0, 1, 0>>))
        \o Sent(r.hasPvid, Tlv(127, Ieee8021 \o <<1>> \o Octets2(r.pvid)))
        \o Sent(r.hasVlanName, Tlv(127, Ieee8021 \o <<3>> \o Octets2(r.vlan)
                                            \o <<Len(r.vlanName.octets)>> \o r.vlanName.octets))
        \o Sent(r.hasPolicy, Tlv(127, LldpMed \o <<2, 1, r.policy \div 128, (r.policy % 128) * 2, 0>>))
        \o Sent(r.poe.mdi, Tlv(127, Ieee8023 \o <<2, (1 - r.poe.type) + (IF r.poe.supported THEN 2 ELSE 0),
                                                   r.poe.pair, r.poe.class>>))
        \o Sent(r.poe.values, Tlv(127, LldpMed
                      \o <<4, r.poe.type * 64 + r.poe.source * 16 + r.poe.priority>>
                      \o Octets2(r.poe.watts)))
        \o Tlv(EndTlv, <<>>)

CdpTlv(type, v) == Octets2(type) \o Octets2(Len(v) + 4) \o v
CdpWire(a) ==
    LET r == a.record
        rest == CdpTlv(1, r.name.octets)
                   \o Sent(r.management # NoText,
                           CdpTlv(2, <<0, 0, 0, 2, 1, 1, 129, 0, 1, 9>>
                                        \o <<1, 1, 204, 0, 4>> \o r.management.octets))
                   \o CdpTlv(3, r.port.octets)
                   \o CdpTlv(4, <<0, 0>> \o Octets2(r.capabilities))
                   \o CdpTlv(5, a.software) \o CdpTlv(10, <<0, 1>>) \o CdpTlv(6, a.platform)
        sum == WordSum(<<2, r.ttl, 0, 0>> \o rest)
    IN <<2, r.ttl>> \o Octets2(65535 - (1 + ((sum - 1) % 65535))) \o rest

EapolWire(r) ==
    LET named == <<r.eapType>> \o r.name.octets
        typed == IF r.eapCode \in SuccessOrFailure THEN <<>> ELSE named
        body == Sent(r.packetType = EapPacket,
                     <<r.eapCode, 7>> \o Octets2(4 + Len(typed)) \o typed)
    IN <<r.version, r.packetType>> \o Octets2(Len(body)) \o body

Wire(a) == CASE a.record.source = "lldp" -> LldpWire(a.record)
             [] a.record.source = "cdp" -> CdpWire(a)
             [] a.record.source = "eapol" -> EapolWire(a.record)

(* The frame of an advert, of which the first octets are captured, or all with  *)
(* the padding.                                                                 *)
Frame(a, captured, padding) ==
    [source |-> a.record.mac, carries |-> a.record.source, declared |-> Len(Wire(a)),
     payload |-> SubSeq(Wire(a) \o padding, 1, captured)]

(* passive_discovery_dispatch_frame: the handler a frame is for.                *)
Parse(f) ==
    CASE f.carries = "lldp" -> LldpParse(f)
      [] f.carries = "cdp" -> CdpParse(f)
      [] f.carries = "eapol" -> EapolParse(f)

(* Every frame that may be captured of adverts, and what its handler makes of   *)
(* it.                                                                          *)
Captures(adverts, padding) ==
    UNION {{[advert |-> a, whole |-> captured >= Len(Wire(a)),
             records |-> Parse(Frame(a, captured, padding))] :
                captured \in 0..(Len(Wire(a)) + Len(padding))} : a \in adverts}
=============================================================================
