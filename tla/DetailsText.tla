---------------------------- MODULE DetailsText ----------------------------
(* Texts of neighbours and their layout on pages (passive_details_text.c).  A  *)
(* text is a sequence of octets without a zero; an address is formatted from   *)
(* its octets, in fewer glyphs than a page has.                                *)
EXTENDS Naturals, Sequences, FiniteSets, SequencesExt

CONSTANTS
    GlyphsPerPage,      \* PASSIVE_DETAILS_GLYPHS_PER_PAGE, 45
    LineSize            \* line2 of passive_draw_details, 128

Space == 32
Chars(octets) == [form |-> "chars", octets |-> octets]
Formatted(form, octets) == [form |-> form, octets |-> octets]
NoText == Chars(<<>>)
NotAvailable == Chars(<<78, 47, 65>>)
OrNotAvailable(text) == IF text = NoText THEN NotAvailable ELSE text

Solid(t) ==
    LET upTo[i \in Nat] == IF i = 0 THEN <<>>
                           ELSE IF t[i] = Space THEN upTo[i - 1] ELSE Append(upTo[i - 1], t[i])
    IN upTo
NoSpaces(t) == Solid(t)[Len(t)]
TrimRight(t) == SubSeq(t, 1, Max({0} \cup {i \in DOMAIN t : t[i] # Space}))
Cut(t, size) == SubSeq(t, 1, Min({Len(t), size - 1}))
(* The number that has so many of a set in front of it.                        *)
Nth(S, k) == CHOOSE i \in S : Cardinality({j \in S : j < i}) = k
Word(b, p) == b[p] * 256 + b[p + 1]

(* passive_details_utf8_sequence_length                                        *)
GlyphLength(t, p) ==
    LET long == CASE t[p] \in 192..223 -> 2
                  [] t[p] \in 224..239 -> 3
                  [] t[p] \in 240..247 -> 4
                  [] OTHER -> 1
    IN IF p + long - 1 <= Len(t) /\ \A i \in (p + 1)..(p + long - 1) : t[i] \in 128..191
          THEN long ELSE 1

SkipSpaces(t, p) == Min({q \in p..(Len(t) + 1) : q > Len(t) \/ t[q] # Space})

NextGlyph(t, p) == IF p > Len(t) THEN p ELSE p + GlyphLength(t, p)
Glyphs(t, start) ==
    LET at[n \in Nat] == IF n = 0 THEN start ELSE NextGlyph(t, at[n - 1]) IN at

(* passive_details_page_end: where the next page starts, at a space if the     *)
(* page has one behind its first glyph.                                        *)
PageEnd(t, start) ==
    LET at == Glyphs(t, start)
        spaces == {p \in {at[n] : n \in 0..(GlyphsPerPage - 1)} :
                      p > start /\ p <= Len(t) /\ t[p] = Space}
    IN IF at[GlyphsPerPage] <= Len(t) /\ spaces # {} THEN Max(spaces) ELSE at[GlyphsPerPage]

NextPage(t, p) == IF p > Len(t) THEN p ELSE SkipSpaces(t, PageEnd(t, p))
Pages(t) ==
    LET start[n \in Nat] == IF n = 0 THEN 1 ELSE NextPage(t, start[n - 1]) IN start
PageStart(t, page) == Pages(t)[page]

(* passive_details_text_page_count                                             *)
PageCount(text) ==
    IF text.form # "chars" \/ text = NoText THEN 1
    ELSE LET ends(n) == PageStart(text.octets, n) > Len(text.octets)
         IN CHOOSE n \in 0..Len(text.octets) : ends(n) /\ \A m \in 0..(n - 1) : ~ends(m)

(* passive_details_text_get_page                                               *)
GetPage(text, page) ==
    IF text.form # "chars" \/ text = NoText THEN OrNotAvailable(text).octets
    ELSE LET t == text.octets
             start == PageStart(t, page)
         IN IF start > Len(t) THEN <<>>
            ELSE Cut(TrimRight(SubSeq(t, start, PageEnd(t, start) - 1)), LineSize)
=============================================================================
