----------------------------- MODULE EapolFrame -----------------------------
(* Parsing an EAPOL frame into a record (eapol.c).                              *)
EXTENDS Neighbor

EapPacket == 0
Request == 1
Response == 2
SuccessOrFailure == {3, 4}
IdentityType == 1

(* eapol_parse_eap                                                              *)
Eap(body, n) ==
    LET length == Word(body, 3)
        coded == [n EXCEPT !.eapCode = body[1]]
        typed == [coded EXCEPT !.eapType = body[5]]
        named == [typed EXCEPT !.name = PrintableText(SubSeq(body, 6, length), NameSize)]
    IN IF Len(body) < 4 \/ length \notin 4..Len(body) THEN Rejected
       ELSE IF body[1] \in SuccessOrFailure
               THEN (IF length = 4 THEN Accepted(coded) ELSE Rejected)
       ELSE IF body[1] \notin {Request, Response} \/ length < 5 THEN Rejected
       ELSE IF body[1] = Response /\ body[5] = IdentityType THEN Accepted(named)
       ELSE Accepted(typed)

(* is_eapol, eapol_parse and eapol_fill_neighbor                                *)
EapolParse(f) ==
    LET b == f.payload
        length == Word(b, 3)
        n == [Blank(f.source, "eapol") EXCEPT !.version = b[1], !.packetType = b[2]]
    IN IF f.carries # "eapol" \/ Len(b) < 4 THEN Rejected
       ELSE IF b[1] \notin 1..3 \/ length > Len(b) - 4 THEN Rejected
       ELSE CASE b[2] = EapPacket -> Eap(SubSeq(b, 5, 4 + length), n)
              [] b[2] \in {1, 2} -> IF length = 0 THEN Accepted(n) ELSE Rejected
              [] b[2] = 3 -> IF length >= 1 THEN Accepted(n) ELSE Rejected
              [] OTHER -> Rejected
=============================================================================
