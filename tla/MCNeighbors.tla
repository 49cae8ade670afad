---------------------------- MODULE MCNeighbors ----------------------------
(* A switch that speaks LLDP and CDP and changes what it says, another that     *)
(* speaks CDP, and a supplicant; texts of several pages, with glyphs of two     *)
(* octets at the edge of a field and of a page, words that break, and an        *)
(* identity of spaces only.                                                     *)
EXTENDS Neighbors, NeighborWire

Ipv4(last) == Formatted("ipv4", <<10, 0, 0, last>>)
Plain(record) == [record |-> record, platform |-> <<>>, software |-> <<>>]

Rich == [Blank("m1", "lldp") EXCEPT
    !.chassisType = 4, !.chassis = Formatted("mac", <<2, 0, 32, 0, 0, 1>>),
    !.portType = 5, !.port = Chars(<<71, 32, 49>>),
    !.name = Chars(<<97, 98, 195, 169, 195, 169, 99>>),
    !.description = Chars(<<97, 32, 98, 98, 32, 32, 99, 99, 99, 99, 32, 195, 177, 100>>),
    !.management = Ipv4(1), !.ttl = 300, !.capabilities = 20, !.enabled = 4,
    !.hasPvid = TRUE, !.pvid = 257, !.hasVlanName = TRUE, !.vlan = 2, !.vlanName = Chars(<<118, 32, 32, 50>>),
    !.hasPolicy = TRUE, !.policy = 300,
    !.poe = [supported |-> TRUE, pair |-> 1, class |-> 2, type |-> 1, source |-> 2,
             priority |-> 3, watts |-> 300, mdi |-> TRUE, values |-> TRUE]]
Poor == [Blank("m1", "lldp") EXCEPT
    !.chassisType = 5, !.chassis = Ipv4(2), !.portType = 7, !.port = Chars(<<50>>), !.ttl = 1]

Switch(mac, device, platform, software) ==
    [record |-> [Blank(mac, "cdp") EXCEPT
                    !.name = Chars(device), !.port = Chars(<<80>>), !.management = Ipv4(3),
                    !.ttl = 180, !.capabilities = 41],
     platform |-> platform, software |-> software]

Supplicant(type, code, identity) ==
    [Blank("m3", "eapol") EXCEPT !.version = 2, !.packetType = type, !.eapCode = code,
                                 !.eapType = IF code \in {1, 2} THEN 1 ELSE 0,
                                 !.name = Chars(identity)]

MCAdverts ==
    {Plain(Rich), Plain(Poor),
     Switch("m1", <<82, 49>>, <<99, 100, 101, 102>>, <<118, 49, 32, 50, 51, 52, 53, 54, 55, 56, 57, 48, 49>>),
     Switch("m2", <<82, 50, 51, 52, 53, 54>>, <<99, 100, 101, 102, 103>>, <<118, 49>>),
     Plain(Supplicant(0, 2, <<98, 111, 32, 98>>)), Plain(Supplicant(0, 2, <<97>>)),
     Plain(Supplicant(0, 2, <<32, 32>>)), Plain(Supplicant(1, 0, <<>>)), Plain(Supplicant(0, 3, <<>>))}
MCReceipts == Captures(MCAdverts, <<0, 1, 65>>)

(* What the theorems about the database and the pages assume of the handlers    *)
(* and of adverts, for every frame that may be captured here.                   *)
ASSUME FramesAreParsed == FramesParsed
ASSUME AdvertsAreLegible == AdvertsLegible
=============================================================================
