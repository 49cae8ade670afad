------------------------------ MODULE Neighbor ------------------------------
(* The record of a neighbour (neighbor_db.h) and the frames it comes from.  A   *)
(* frame is its source, what its destination and type say it carries, the      *)
(* length its 802.3 header declares, and the octets captured of its payload.   *)
EXTENDS DetailsText

CONSTANTS
    NameSize,           \* 64: names, ports, identifiers, identities, platforms
    DescriptionSize     \* 128: descriptions, software versions

NoPoe == [supported |-> FALSE, pair |-> 0, class |-> 0, type |-> 0, source |-> 0,
          priority |-> 0, watts |-> 0, mdi |-> FALSE, values |-> FALSE]

(* A record of which only the source is known.                                  *)
Blank(mac, source) ==
    [mac |-> mac, source |-> source,
     name |-> NoText, port |-> NoText, management |-> NoText, chassis |-> NoText,
     description |-> NoText, ttl |-> 0, capabilities |-> 0, enabled |-> 0,
     chassisType |-> 0, portType |-> 0,
     hasPvid |-> FALSE, pvid |-> 0, hasVlanName |-> FALSE, vlan |-> 0, vlanName |-> NoText,
     hasPolicy |-> FALSE, policy |-> 0, poe |-> NoPoe,
     version |-> 0, packetType |-> 0, eapCode |-> 0, eapType |-> 0]

(* What a handler makes of a frame: a record, or none.                          *)
Rejected == {}
Accepted(n) == {n}

Printable(t) == [i \in DOMAIN t |-> IF t[i] \in 32..126 THEN t[i] ELSE Space]

(* cdp_copy_text and eapol_copy_identity                                        *)
PrintableText(octets, size) == Chars(TrimRight(Printable(Cut(octets, size))))

(* lldp_copy_string_field, and the copies of strings in lldp_fill_neighbor,     *)
(* which stop at a zero.                                                        *)
StringText(octets, size) ==
    LET t == Cut(octets, size)
    IN Chars(SubSeq(t, 1, Min({Len(t)} \cup {i - 1 : i \in {j \in DOMAIN t : t[j] = 0}})))
=============================================================================
