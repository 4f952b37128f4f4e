---------------------------- MODULE GroundedAnswers ----------------------------
(***************************************************************************)
(* A task of the workbench that the local model executes                   *)
(* (localModelExecute, apps/workbench/src/integrations.ts), with the check *)
(* of what the model writes and its one repair                             *)
(* (packages/core/src/structured-output.ts).  Whatever the model writes,   *)
(* an answer is quoted from passages the person selected, or there is none.*)
(* A text is a sequence of characters; "A" is the capital of "a", " " is   *)
(* white space; other characters are their own normal form.                *)
(***************************************************************************)
EXTENDS Naturals, Sequences, FiniteSets, SequencesExt

CONSTANTS Characters,              \* of which texts are written
          Found,                   \* sets of passages a search of the selected sources may return
          Answers, Quotes,         \* texts a model may write as an answer and as evidence
          MaxQuotes,               \* the limit of evidence.length
          Unknown                  \* no result yet, and the text of a draft

\* The normal form of a character.
Lower(c) == IF c = "A" THEN "a" ELSE c

TextsAssumption == /\ Answers \cup Quotes \cup UNION Found \subseteq Seq(Characters)
                   /\ \A c \in Characters : Lower(c) \in Characters

Tasks == {"extract", "summarize", "draft"}

VARIABLES task, passages, pc, generations, result
gvars == <<task, passages, pc, generations, result>>
-------------------------------------------------------------------------------
Blank(s) == ToSet(s) \subseteq {" "}
Starts(s) == {i \in DOMAIN s : s[i] # " "}
Least(S) == CHOOSE i \in S : \A j \in S : i <= j
Greatest(S) == CHOOSE i \in S : \A j \in S : i >= j
Trim(s) == IF Blank(s) THEN <<>> ELSE SubSeq(s, Least(Starts(s)), Greatest(Starts(s)))
Within(s, t) == \E i \in 0..Len(t) : i + Len(s) <= Len(t) /\ SubSeq(t, i + 1, i + Len(s)) = s

\* normalizeEvidence: one space for any white space, none at the ends, no capitals.
Kept(t) == {i \in DOMAIN t : t[i] = " " => t[i - 1] # " "}
Place(K, n) == CHOOSE i \in K : Cardinality({j \in K : j < i}) = n - 1
Normalize(s) ==
    LET t == Trim(s) IN [n \in 1..Cardinality(Kept(t)) |-> Lower(t[Place(Kept(t), n)])]

Spaced(quotes) == FoldLeft(LAMBDA s, q : IF s = <<>> THEN q ELSE s \o <<" ">> \o q, <<>>, quotes)

\* What a model writes: no whole answer, something that is not the JSON asked for, too
\* much of it, or an object with the keys asked for.  An extraction has one quote.
Replies(quotes) ==
    [kind : {"blank", "other", "large"}]
    \cup [kind : {"object"}, answer : Answers, abstain : BOOLEAN, evidence : quotes]
QuotesOf(t) == IF t = "summarize" THEN UNION {[1..n -> Quotes] : n \in 0..(MaxQuotes + 1)}
               ELSE [1..1 -> Quotes]

\* validate, of an extraction and of a summary.
Quoted(q) == \E p \in passages : Within(q, p)
NothingAsserted(r) ==
    /\ Blank(r.answer) /\ IF task = "extract" THEN Blank(r.evidence[1]) ELSE r.evidence = <<>>
AnyEvidence(r) ==
    /\ ~Blank(r.answer) /\ ~Blank(r.evidence[1])
    /\ Within(Normalize(r.answer), Normalize(r.evidence[1]))
Extracted(r) == AnyEvidence(r) /\ Quoted(Trim(r.evidence[1]))
Summarized(r) ==
    /\ ~Blank(r.answer) /\ r.evidence # <<>> /\ IsInjective(r.evidence)
    /\ \A i \in DOMAIN r.evidence : Quoted(r.evidence[i])
    /\ Normalize(r.answer) = Normalize(Spaced(r.evidence))
Valid(r) ==
    /\ r.kind = "object"
    /\ task = "summarize" => /\ Len(r.evidence) <= MaxQuotes
                             /\ \A i \in DOMAIN r.evidence : Len(r.evidence[i]) >= 1
    /\ IF r.abstain THEN NothingAsserted(r)
       ELSE IF task = "extract" THEN Extracted(r) ELSE Summarized(r)

\* The answer returned, with the passages that hold one of its quotes.
Answered(r) ==
    IF r.abstain THEN [abstain |-> TRUE, answer |-> <<>>, citations |-> {}]
    ELSE LET quotes == IF task = "extract" THEN {Trim(r.evidence[1])} ELSE ToSet(r.evidence)
         IN  [abstain |-> FALSE, answer |-> Trim(r.answer),
              citations |-> {p \in passages : \E q \in quotes : Within(q, p)}]
-------------------------------------------------------------------------------
GInit == /\ task \in Tasks /\ passages = {} /\ pc = "asked" /\ generations = 0 /\ result = Unknown

\* The search of the selected sources, of which there may be none; without a passage
\* nothing is generated.
SearchSources ==
    /\ pc = "asked" /\ passages' \in Found /\ UNCHANGED <<task, generations>>
    /\ IF task \in {"extract", "summarize"} /\ passages' = {}
       THEN /\ pc' = "done"
            /\ result' = [abstain |-> TRUE, answer |-> <<>>, citations |-> {}]
       ELSE pc' = "generating" /\ UNCHANGED result

\* A generation and the check of what it wrote.  What is invalid is asked for once
\* more; what is blank or too large is not.  Other tasks are not checked.
Generate ==
    /\ pc = "generating" /\ generations' = generations + 1 /\ UNCHANGED <<task, passages>>
    /\ \E r \in Replies(QuotesOf(task)) :
          IF r.kind = "blank" \/ (task # "draft" /\ r.kind = "large")
          THEN pc' = "failed" /\ UNCHANGED result
          ELSE IF task = "draft"
          THEN /\ pc' = "done"
               /\ result' = [abstain |-> FALSE, answer |-> Unknown, citations |-> passages]
          ELSE IF Valid(r) THEN pc' = "done" /\ result' = Answered(r)
          ELSE pc' = (IF generations = 0 THEN "generating" ELSE "failed") /\ UNCHANGED result

\* The person cancels, the page is locked, or the runtime reports an error.
Stop == /\ pc \in {"asked", "generating"} /\ pc' = "failed"
        /\ UNCHANGED <<task, passages, generations, result>>

GNext == SearchSources \/ Generate \/ Stop
GSpec == GInit /\ [][GNext]_gvars
-------------------------------------------------------------------------------
Words(s) == {w \in {SubSeq(s, i, j) : i, j \in DOMAIN s} : w # <<>> /\ " " \notin ToSet(w)}

\* An answer with a citation of selected passages, and only such, is returned for an
\* extraction or a summary; a model that has no passage is not asked, and none is asked
\* more than twice.
AnswersAreCited ==
    /\ generations <= 2
    /\ task # "draft" /\ passages = {} => generations = 0
    /\ pc = "done" /\ task # "draft" =>
          /\ result.abstain <=> result.citations = {}
          /\ result.abstain <=> result.answer = <<>>
          /\ result.citations \subseteq passages

\* An extraction reads in one passage that is cited, word for word.
ExtractionsAreQuoted ==
    pc = "done" /\ task = "extract" /\ ~result.abstain =>
        \E p \in result.citations : Within(Normalize(result.answer), Normalize(p))

\* The words of a summary read in the passages that are cited.
SummariesAreQuoted ==
    pc = "done" /\ task = "summarize" =>
        \A w \in Words(Normalize(result.answer)) :
            \E p \in result.citations : Within(w, Normalize(p))

\* See the three parts.
AnswersAreQuoted == AnswersAreCited /\ ExtractionsAreQuoted /\ SummariesAreQuoted
===============================================================================
