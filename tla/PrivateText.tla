------------------------------ MODULE PrivateText ------------------------------
(***************************************************************************)
(* What is done to a text before it is kept or sent: the chunks of an      *)
(* imported document (packages/memory/src/ingest.ts), the detection and    *)
(* the redaction of sensitive spans (packages/privacy/src: detectors.ts,   *)
(* redaction.ts) and the sources named by a disclosure (disclosure.ts), as *)
(* functions.  What the regular expressions of the detectors find is an    *)
(* input; lower case goes letter by letter, as it does but for the Greek   *)
(* sigma.  A span is the set of positions from start (counted from 0) to   *)
(* before end.                                                             *)
(***************************************************************************)
EXTENDS Integers, Sequences, FiniteSets, SequencesExt

CONSTANTS Texts, Terms,            \* what is imported or sent; terms of a workspace
          Found,                   \* what the person marks and the patterns find
          Limits,                  \* values of maxDetections
          Documents,               \* texts with the places where a chunk may end
          ChunkCharacters, Minimum, Overlap, MaxChunks,
          Nothing, Error

VARIABLES given, made
tvars == <<given, made>>

Larger(a, b) == IF a > b THEN a ELSE b
Smaller(a, b) == IF a < b THEN a ELSE b
-------------------------------------------------------------------------------
\* Lower case, where one letter may become two: "I" stands for U+0130.
Lower(letter) == CASE letter = "A" -> <<"a">>
                   [] letter = "I" -> <<"i", "dot">>
                   [] OTHER -> <<letter>>
Folded(text) == FlattenSeq([i \in DOMAIN text |-> Lower(text[i])])

\* Occurrences of a term as addCustomTerms finds them: the search goes on after the
\* last one found.
At(text, term, i) == i + Len(term) <= Len(text) /\ SubSeq(text, i + 1, i + Len(term)) = term
RECURSIVE Occurrences(_, _, _)
Occurrences(text, term, offset) ==
    LET starts == {i \in offset..Len(text) : At(text, term, i)}
    IN  IF starts = {} THEN <<>>
        ELSE LET i == CHOOSE s \in starts : \A t \in starts : s <= t
             IN  <<[start |-> i, end |-> i + Len(term), category |-> "custom",
                    restricted |-> FALSE]>> \o Occurrences(text, term, i + Len(term))

\* Terms of one character are dropped, and those with one lower case are one term.
UniqueTerms(terms) ==
    FoldLeft(LAMBDA unique, t : IF Folded(t) \in ToSet(unique) THEN unique
                                ELSE Append(unique, Folded(t)),
             <<>>, SelectSeq(terms, LAMBDA t : Len(t) > 1))

\* detectSensitiveData: the person's marks first, then the restricted patterns, the
\* terms and the other patterns, one more than the limit at most; more than the limit
\* is an error and never a shorter list.  Terms are sought in the lower-cased text, and
\* their places there are taken for places in the text, which may be a shorter one.
CustomSpans(g) ==
    LET terms == UniqueTerms(g.terms)
        text == Folded(g.text)
    IN  FlattenSeq([i \in DOMAIN terms |-> Occurrences(text, terms[i], 0)])
AllSpans(g) ==
    SelectSeq(g.found, LAMBDA s : s.category = "manual")
    \o SelectSeq(g.found, LAMBDA s : s.category # "manual" /\ s.restricted)
    \o CustomSpans(g)
    \o SelectSeq(g.found, LAMBDA s : s.category # "manual" /\ ~s.restricted)
Candidates(g) == SubSeq(AllSpans(g), 1, Smaller(Len(AllSpans(g)), g.limit + 1))
Truncated(g) == SubSeq(AllSpans(g), 1, Smaller(Len(AllSpans(g)), g.limit))
Collected(g) == Candidates(g)
Inside(text, spans) == \A s \in ToSet(spans) : s.start < s.end /\ s.end <= Len(text)
Detect(g) == IF Len(Collected(g)) > g.limit \/ ~Inside(g.text, g.found) THEN Error
             ELSE Collected(g)

\* mergeSensitiveSpans: sorted by start, the longer one first; spans that touch are
\* one, as severe as the most severe of them.
Sorted(spans) ==
    SortSeq(spans, LAMBDA a, b : a.start < b.start \/ (a.start = b.start /\ a.end > b.end))
Joined(merged, s) ==
    IF merged = <<>> \/ s.start > Last(merged).end
    THEN Append(merged, [start |-> s.start, end |-> s.end, categories |-> {s.category},
                         restricted |-> s.restricted])
    ELSE Append(Front(merged),
                LET p == Last(merged)
                IN  [p EXCEPT !.end = Larger(@, s.end), !.categories = @ \cup {s.category},
                              !.restricted = @ \/ s.restricted])
Merge(spans) == FoldLeft(Joined, <<>>, Sorted(spans))

\* redactSensitiveData: each merged span gives way to a placeholder that occurs nowhere
\* else, here its index with what the map keeps for it.  Index 0 is a plain character.
Piece(index, kept) == [index |-> index, kept |-> kept]
Plain(text) == [i \in DOMAIN text |-> Piece(0, <<text[i]>>)]
Redact(text, merged) ==
    FlattenSeq([k \in DOMAIN merged |->
        Plain(SubSeq(text, (IF k = 1 THEN 0 ELSE merged[k - 1].end) + 1, merged[k].start))
        \o <<Piece(k, SubSeq(text, merged[k].start + 1, merged[k].end))>>])
    \o Plain(SubSeq(text, (IF merged = <<>> THEN 0 ELSE Last(merged).end) + 1, Len(text)))

\* A span that ends after the text is an error of mergeSensitiveSpans.
Redacted(text, spans) == IF Inside(text, spans) THEN Redact(text, Merge(spans)) ELSE Error

\* rehydrateText, with the map of this redaction.
Rehydrate(pieces) == FlattenSeq([i \in DOMAIN pieces |-> pieces[i].kept])
-------------------------------------------------------------------------------
\* preferredBoundary: the last heading, blank line or end of a sentence before the
\* hard end of a chunk, the first of the three that is far enough from its start.
LastIndex(document, mark, hardEnd) ==
    LET places == {i \in 0..Smaller(hardEnd, Len(document) - 1) : document[i + 1] = mark}
    IN  IF places = {} THEN -1 ELSE CHOOSE i \in places : \A j \in places : i >= j
Boundary(document, start, hardEnd) ==
    LET far == SelectSeq(<<LastIndex(document, "heading", hardEnd),
                           LastIndex(document, "blank", hardEnd),
                           LastIndex(document, "sentence", hardEnd) + 1>>,
                         LAMBDA c : c >= start + Minimum)
    IN  IF hardEnd >= Len(document) THEN Len(document)
        ELSE IF far = <<>> THEN hardEnd ELSE Head(far)

\* createChunks: chunks overlap, and there are at most MaxChunks of them.
NextStart(start, end) == Larger(start + 1, end - Overlap)
RECURSIVE ChunksFrom(_, _, _)
ChunksFrom(document, start, sofar) ==
    IF start >= Len(document) THEN sofar
    ELSE IF Len(sofar) >= MaxChunks THEN Error
    ELSE LET end == Boundary(document, start, Smaller(Len(document), start + ChunkCharacters))
             chunks == Append(sofar, [start |-> start, end |-> end])
         IN  IF end >= Len(document) THEN chunks
             ELSE ChunksFrom(document, NextStart(start, end), chunks)
-------------------------------------------------------------------------------
TInputs == {g \in [kind : {"send"}, text : Texts, terms : Terms, found : Found, limit : Limits] :
               Inside(g.text, SelectSeq(g.found, LAMBDA s : s.category # "manual"))}
           \cup [kind : {"keep"}, document : Documents]

TInit == given \in TInputs /\ made = Nothing
Prepare ==
    /\ made = Nothing /\ UNCHANGED given
    /\ made' = IF given.kind = "keep" THEN ChunksFrom(given.document, 0, <<>>)
               ELSE IF Detect(given) = Error THEN Error
               ELSE Redacted(given.text, Detect(given))
-------------------------------------------------------------------------------
\* The positions that were detected, by every detector and without a limit.
Covered(g) == UNION {s.start..(s.end - 1) : s \in ToSet(AllSpans(g))}

\* The places i..j of the text read as a term, and no letter up to there is longer in
\* lower case: where one is, the code takes other places for those of the term.
Reads(text, term, i, j) ==
    /\ Len(term) > 1 /\ Folded(SubSeq(text, i, j)) = Folded(term)
    /\ \A k \in 1..j : Len(Lower(text[k])) = 1

\* What leaves has no character that any detector found and every other one in its
\* order, and the answer can be given its words back.  No term of the workspace is left
\* whole in it, in capitals or not, but for one that follows a letter whose lower case
\* is longer.  When there is more to hide than the limit allows, or a place to hide is
\* not in the text, nothing leaves.
HidesWhatWasFound == given.kind = "send" /\ made # Nothing =>
    LET spans == AllSpans(given)
        covered == Covered(given)
        open == SelectSeq([i \in DOMAIN given.text |-> i], LAMBDA i : i - 1 \notin covered)
    IN  IF made = Error THEN Len(spans) > given.limit \/ ~Inside(given.text, spans)
        ELSE /\ SelectSeq(made, LAMBDA p : p.index = 0)
                    = [k \in DOMAIN open |-> Piece(0, <<given.text[open[k]]>>)]
             /\ Rehydrate(made) = given.text
             /\ \A t \in ToSet(given.terms), i, j \in DOMAIN given.text :
                    Reads(given.text, t, i, j) => \E k \in i..j : k - 1 \in covered
             /\ \A s \in ToSet(spans) : \E m \in ToSet(Merge(spans)) :
                    /\ s.start >= m.start /\ s.end <= m.end /\ s.category \in m.categories
                    /\ s.restricted => m.restricted

\* The chunks of a document hold all of it, each begins after the one before it and
\* not after its end, and none is longer than a chunk may be, but for the one character
\* that ends a sentence.  Only a document with too many chunks is refused.
ChunksHoldAll == given.kind = "keep" /\ made # Nothing =>
    IF made = Error THEN Len(given.document) > MaxChunks * (Minimum - Overlap)
    ELSE /\ given.document # <<>> => made[1].start = 0 /\ Last(made).end = Len(given.document)
         /\ \A k \in DOMAIN made : made[k].end - made[k].start <= ChunkCharacters + 1
         /\ \A k \in 1..(Len(made) - 1) : /\ made[k + 1].start > made[k].start
                                          /\ made[k + 1].start <= made[k].end
                                          /\ made[k + 1].end > made[k].end

NothingIsLostOrShown == HidesWhatWasFound /\ ChunksHoldAll
===============================================================================
