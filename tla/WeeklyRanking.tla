--------------------------- MODULE WeeklyRanking ---------------------------
(***************************************************************************)
(* The calculations of the weekly report: the two rankings of              *)
(* weekly_performance_service.py and the sections that                     *)
(* change_reason_service.py takes from the answer of the language model.   *)
(***************************************************************************)
EXTENDS Integers, Sequences, FiniteSetsExt, SequencesExt

CONSTANTS TopN, MaxChars

ASSUME RankingAssumption == TopN \in Nat \ {0} /\ MaxChars \in Nat \ {0}

\* sorted(..., reverse=True) is stable: equal rates keep the order they had.
Ahead(ps, j, i) == ps[j].rate > ps[i].rate \/ (ps[j].rate = ps[i].rate /\ j < i)
Place(ps, i) == 1 + Cardinality({j \in DOMAIN ps : Ahead(ps, j, i)})
ByRate(ps) == [k \in DOMAIN ps |-> ps[CHOOSE i \in DOMAIN ps : Place(ps, i) = k]]

LastN(s, n) == SubSeq(s, IF Len(s) > n THEN Len(s) - n + 1 ELSE 1, Len(s))

TopPerformers(ps) ==
    SubSeq(ByRate(ps), 1, IF Len(ps) < TopN THEN Len(ps) ELSE TopN)
\* Without the [::-1] of the longer lists.
BottomUnreversed(ps) == LastN(ByRate(ps), TopN)
BottomPerformers(ps) == Reverse(LastN(ByRate(ps), TopN))

-----------------------------------------------------------------------------
(* A text is a sequence of markers, of ends of a sentence, ".", and of     *)
(* other characters.                                                       *)

NoSections == [parsed |-> FALSE]

\* text.find: 0 where Python has -1.
Find(text, marker) ==
    LET found == {i \in DOMAIN text : text[i] = marker}
    IN  IF found = {} THEN 0 ELSE Min(found)

LastSentence(text) ==
    LET ends == {i \in DOMAIN text : text[i] = "."}
    IN  IF ends = {} THEN 0 ELSE Max(ends)

\* Without the "- 1" that leaves room for the ellipsis.
TrimmedAtLimit(text) ==
    IF Len(text) <= MaxChars THEN text
    ELSE Append(SubSeq(text, 1, MaxChars), "...")

\* _trim_to_max_chars: cut behind a sentence of the second half, or anywhere.
Trimmed(text) ==
    LET cut == SubSeq(text, 1, MaxChars - 1)
        end == LastSentence(cut)
    IN  IF Len(text) <= MaxChars THEN text
        ELSE IF end > MaxChars \div 2 + 1 THEN Append(SubSeq(cut, 1, end), "...")
        ELSE Append(cut, "...")

\* _parse_sections: three markers in order, and something behind each of them.
ParsedSections(text) ==
    LET market == Find(text, "market")
        top == Find(text, "top")
        bottom == Find(text, "bottom")
    IN  IF /\ market > 0 /\ market + 1 < top
           /\ top + 1 < bottom /\ bottom < Len(text)
        THEN [parsed |-> TRUE,
              market_overview |-> Trimmed(SubSeq(text, market + 1, top - 1)),
              top_commentary |-> Trimmed(SubSeq(text, top + 1, bottom - 1)),
              bottom_commentary |-> Trimmed(SubSeq(text, bottom + 1, Len(text)))]
        ELSE NoSections

\* generate_change_reasons: no key, no performer, no answer or an answer of
\* another form are all "no sections"; no exception leaves it.
ChangeReasons(top, bottom, answers) ==
    {NoSections}
    \union IF top = <<>> /\ bottom = <<>> THEN {}
           ELSE {ParsedSections(text) : text \in answers}

=============================================================================
