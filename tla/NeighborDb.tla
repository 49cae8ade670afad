----------------------------- MODULE NeighborDb -----------------------------
(* The neighbour database (neighbor_db.c) and the handlers that write what they *)
(* hear to it (passive_discovery_module.c, lldp_module.c, cdp_module.c,         *)
(* eapol_module.c).  A receipt is what was captured of an advert: the advert,   *)
(* whether all of its frame is there, and the records its handler makes of it.  *)
EXTENDS CdpFrame

CONSTANTS
    MaxEntries,     \* 32
    Receipts        \* what may be captured: [advert, whole, records]

VARIABLES
    neighbors,      \* the slots
    heard           \* history: for each neighbour and protocol, its last advert

databaseVars == <<neighbors, heard>>

Handlers == {"lldp", "cdp", "eapol"}
Slots == 1..MaxEntries
Free == Blank("nobody", "none")
EmptyDb == [i \in Slots |-> Free]

(* An advert is for a handler, and its record has the fields of neighbor_t.     *)
IsAdvert(a) ==
    /\ a = [field \in {"record", "platform", "software"} |-> a[field]]
    /\ a.record = [field \in DOMAIN Free |-> a.record[field]]
    /\ a.record.source \in Handlers

ASSUME ReceiptsAssumption ==
    MaxEntries \in Nat /\ \A receipt \in Receipts : IsAdvert(receipt.advert)

DbInit == neighbors = EmptyDb /\ heard = <<>>

-----------------------------------------------------------------------------
(* neighbor_db_find_by_source, and the slot neighbor_db_add takes.              *)
Known(n) == {i \in Slots : neighbors[i].mac = n.mac /\ neighbors[i].source = n.source}
Place(n) ==
    LET free == {i \in Slots : neighbors[i].source = "none"}
    IN IF Known(n) # {} THEN Known(n) ELSE {i \in free : \A j \in free : i <= j}

(* eapol_module_process_frame keeps an identity that a frame does not repeat.   *)
(* Variant: the record is replaced like the others.                             *)
CompletedNot(n) == n
Completed(n) ==
    IF n.source = "eapol" /\ n.name = NoText /\ Known(n) # {}
       THEN [n EXCEPT !.name = neighbors[CHOOSE i \in Known(n) : TRUE].name] ELSE n

Process(records) ==
    LET put(n) == [i \in Slots |-> IF i \in Place(n) THEN Completed(n) ELSE neighbors[i]]
    IN IF records = Rejected THEN UNCHANGED neighbors
       ELSE \E n \in records : neighbors' = put(n)

(* What fits of a text: LLDP texts are cut, the others lose the spaces at the   *)
(* end as well.                                                                 *)
Kept(text, size, source) ==
    IF text.form # "chars" THEN text
    ELSE IF source = "lldp" THEN Chars(Cut(text.octets, size))
    ELSE Chars(TrimRight(Cut(text.octets, size)))

(* What the last adverts are, told from the adverts alone.                      *)
Key(a) == <<a.record.mac, a.record.source>>
Unnamed(a) == a.record.source = "eapol" /\ Kept(a.record.name, NameSize, "eapol") = NoText
Renamed(a) ==
    IF Unnamed(a) /\ Key(a) \in DOMAIN heard
       THEN [a EXCEPT !.record.name = heard[Key(a)].record.name] ELSE a
Note(a) ==
    heard' = [k \in DOMAIN heard \cup {Key(a)} |-> IF k = Key(a) THEN Renamed(a) ELSE heard[k]]

(* A frame is offered to the handlers of the selected sources.                  *)
Receive(sources, receipt) ==
    LET a == receipt.advert
    IN /\ Process(IF a.record.source \in sources THEN receipt.records ELSE Rejected)
       /\ IF /\ receipt.whole
             /\ a.record.source \in sources
             /\ Key(a) \in DOMAIN heard \/ Cardinality(DOMAIN heard) < MaxEntries
             THEN Note(a) ELSE UNCHANGED heard

(* neighbor_db_clear_by_source; a record has one source.                        *)
Forget(sources) ==
    /\ neighbors' = [i \in Slots |-> IF neighbors[i].source \in sources THEN Free
                                                                      ELSE neighbors[i]]
    /\ heard' = [k \in {k \in DOMAIN heard : k[2] \notin sources} |-> heard[k]]

(* neighbor_db_release; the next neighbor_db_acquire finds it empty.            *)
Release == neighbors' = EmptyDb /\ heard' = <<>>

DbNext ==
    \/ Release
    \/ \E sources \in SUBSET Handlers :
          Forget(sources) \/ \E receipt \in Receipts : Receive(sources, receipt)

DbSpec == DbInit /\ [][DbNext]_databaseVars

-----------------------------------------------------------------------------
(* Properties.                                                                  *)

(* A platform and a software version that are too long for their field together *)
(* are both cut, none below its share, so that the field is full.               *)
Platform(a) == TrimRight(Cut(a.platform, NameSize))
Software(a) == TrimRight(Cut(a.software, DescriptionSize))
KeptParts(a) ==
    LET p == Len(Platform(a))
        s == Len(Software(a))
        cut == CHOOSE c \in (0..p) \X (0..s) :
                  /\ c[1] >= Min({p, PlatformShare}) /\ c[2] >= Min({s, SoftwareShare})
                  /\ c[1] + c[2] = Min({p + s, PlatformShare + SoftwareShare})
    IN <<SubSeq(Platform(a), 1, cut[1]), SubSeq(Software(a), 1, cut[2])>>

Expected(a) ==
    LET r == a.record
        kept(text) == Kept(text, NameSize, r.source)
    IN [r EXCEPT !.name = kept(@), !.port = kept(@), !.chassis = kept(@), !.vlanName = kept(@),
                 !.description =
                    IF r.source = "lldp" THEN Kept(@, DescriptionSize, "lldp")
                    ELSE IF r.source = "eapol" \/ Platform(a) \o Software(a) = <<>> THEN NoText
                    ELSE Chars(KeptParts(a)[1] \o Separator \o KeptParts(a)[2])]

(* What the handlers promise the database: of a complete frame the record it    *)
(* advertises, cut to the fields, and nothing of any other, whatever comes      *)
(* behind it or was lost (lldp.c:453-528, cdp.c:168-299, eapol.c:90-161).       *)
FramesParsed ==
    \A receipt \in Receipts :
        receipt.records =
            IF receipt.whole THEN Accepted(Expected(receipt.advert)) ELSE Rejected

(* The database holds, for each neighbour and protocol heard since the session  *)
(* began, what its last complete frame advertised, cut to the fields, and the   *)
(* last identity an EAPOL supplicant gave; nothing of a truncated frame, of the *)
(* padding or of another frame, and no neighbour is lost while there is room    *)
(* (lldp.c:453-528, cdp.c:168-299, eapol.c:90-161, eapol_module.c:26-35).       *)
RecordsAreAdvertised ==
    LET occupied == {i \in Slots : neighbors[i].source # "none"}
    IN /\ {neighbors[i] : i \in occupied} = {Expected(heard[k]) : k \in DOMAIN heard}
       /\ Cardinality(occupied) = Cardinality(DOMAIN heard)
=============================================================================
