---------------------------- MODULE CanonicalJson ----------------------------
(***************************************************************************)
(* canonicalize of packages/contracts/src/json.ts and of                   *)
(* packages/workflows/src/canonical.ts: the text that stands for a value   *)
(* when it is fingerprinted.  Whoever compares two fingerprints (approvals,*)
(* disclosures, proposals, plans) takes them for a comparison of values.   *)
(* A value is a tree; an object is the sequence of its entries in the      *)
(* order they were added, and no two of them have the same key.  A         *)
(* character is one that JSON treats apart, or "x", "y", "y2"; the last two *)
(* are the same letter to a collation, and different to a comparison of    *)
(* code units.                                                             *)
(***************************************************************************)
EXTENDS Naturals, Sequences, FiniteSets, SequencesExt

CONSTANTS Families,               \* sets of values to be compared with each other
          MaxDepth, MaxEntries, MaxCharacters, MaxText, Forbidden,
          Nothing, Error

VARIABLES compared, texts
jvars == <<compared, texts>>

Null == [type |-> "null"]
Text(s) == [type |-> "string", of |-> s]
Number(n) == [type |-> "number", of |-> n]
Array(vs) == [type |-> "array", of |-> vs]
Object(es) == [type |-> "object", of |-> es]         \* entries [key |-> a text, value |-> a value]
-------------------------------------------------------------------------------
\* What an array or an object holds, one level down.
Parts(v) == CASE v.type = "array" -> v.of
              [] v.type = "object" -> [i \in DOMAIN v.of |-> v.of[i].value]
              [] OTHER -> <<>>
Keys(v) == IF v.type = "object" THEN {v.of[i].key : i \in DOMAIN v.of} ELSE {}

\* What both packages refuse: a value nested too deep, and a key of an object's own machinery.
RECURSIVE IsSafe(_, _)
IsSafe(v, depth) ==
    /\ depth <= MaxDepth /\ Keys(v) \cap Forbidden = {}
    /\ \A i \in DOMAIN Parts(v) : IsSafe(Parts(v)[i], depth + 1)

\* What the contracts refuse besides: long strings and keys, and too many items and entries.
RECURSIVE IsShort(_)
IsShort(v) ==
    /\ \A s \in Keys(v) \cup (IF v.type = "string" THEN {v.of} ELSE {}) : Len(s) <= MaxCharacters
    /\ \A i \in DOMAIN Parts(v) : IsShort(Parts(v)[i])
RECURSIVE Entries(_)
Entries(v) == FoldLeft(LAMBDA n, w : n + 1 + Entries(w), 0, Parts(v))

\* assertJsonValue.
IsJsonValue(v) == IsSafe(v, 0) /\ IsShort(v) /\ Entries(v) <= MaxEntries

\* JSON.stringify of a string.
Unescaped(s) == <<"quote">> \o s \o <<"quote">>
Escaped(s) ==
    <<"quote">> \o FlattenSeq([i \in DOMAIN s |-> IF s[i] \in {"quote", "backslash"}
                                                  THEN <<"backslash", s[i]>> ELSE <<s[i]>>])
                \o <<"quote">>
Quoted(s) == Escaped(s)

\* The order of keys: by code units, or by a collation that does not tell y and y2 apart.
CodeUnit == [c \in {"quote", "comma", "colon", "backslash", "x", "y", "y2", "open"} |->
    CASE c = "quote" -> 1 [] c = "comma" -> 2 [] c = "colon" -> 3 [] c = "backslash" -> 4
      [] c = "x" -> 5 [] c = "y" -> 6 [] c = "y2" -> 7 [] OTHER -> 8]
Letter == [CodeUnit EXCEPT !["y2"] = CodeUnit["y"]]
Lower(s, t, weight) ==
    \/ Len(s) < Len(t) /\ \A i \in DOMAIN s : weight[s[i]] = weight[t[i]]
    \/ \E i \in DOMAIN s \cap DOMAIN t :
          weight[s[i]] < weight[t[i]] /\ \A j \in 1..(i - 1) : weight[s[j]] = weight[t[j]]

\* A sort keeps entries in their order that the comparison does not tell apart.
InOrder(es, weight) ==
    LET First(i, j) == \/ Lower(es[i].key, es[j].key, weight)
                       \/ ~Lower(es[j].key, es[i].key, weight) /\ i < j
        order == SetToSortSeq(DOMAIN es, First)
    IN  [k \in DOMAIN es |-> es[order[k]]]

Joined(parts) ==
    FlattenSeq([i \in DOMAIN parts |-> IF i = 1 THEN parts[i] ELSE <<"comma">> \o parts[i]])

\* canonicalize, with the order of keys of one package or the other.
RECURSIVE Serialized(_, _)
Serialized(v, weight) ==
    CASE v.type = "string" -> Quoted(v.of)
      [] v.type = "number" -> v.of
      [] v.type = "array" ->
            <<"[">> \o Joined([i \in DOMAIN v.of |-> Serialized(v.of[i], weight)]) \o <<"]">>
      [] v.type = "object" ->
            LET es == InOrder(v.of, weight)
            IN  <<"open">> \o Joined([i \in DOMAIN es |->
                    Quoted(es[i].key) \o <<"colon">> \o Serialized(es[i].value, weight)]) \o <<"}">>
      [] OTHER -> <<"null">>

Canonical(v) ==
    IF IsJsonValue(v) /\ Len(Serialized(v, CodeUnit)) <= MaxText
    THEN Serialized(v, CodeUnit) ELSE Error
WorkflowCanonical(v) == IF IsSafe(v, 0) THEN Serialized(v, Letter) ELSE Error

JInit == compared \in Families /\ texts = Nothing
Canonicalize ==
    /\ texts = Nothing /\ UNCHANGED compared
    /\ texts' = {[value |-> v, contract |-> Canonical(v), workflow |-> WorkflowCanonical(v)] :
                    v \in compared}
-------------------------------------------------------------------------------
\* What a value is, whatever the order in which its entries were added.
RECURSIVE Meaning(_)
Meaning(v) ==
    CASE v.type = "array" -> [v EXCEPT !.of = [i \in DOMAIN v.of |-> Meaning(v.of[i])]]
      [] v.type = "object" ->
            [v EXCEPT !.of = {<<v.of[i].key, Meaning(v.of[i].value)>> : i \in DOMAIN v.of}]
      [] OTHER -> v

\* Two values have one text only if they are the same value, in both packages, and in the
\* contracts the same value has one text; what the contracts have a text for the workflows do.
TextsIdentify == texts # Nothing =>
    LET told == {t \in texts : t.contract # Error}
        kept == {t \in texts : t.workflow # Error}
        meant == {<<t.contract, Meaning(t.value)>> : t \in told}
    IN  /\ Cardinality(meant) = Cardinality({t.contract : t \in told})
        /\ Cardinality(meant) = Cardinality({Meaning(t.value) : t \in told})
        /\ Cardinality({<<t.workflow, Meaning(t.value)>> : t \in kept})
              = Cardinality({t.workflow : t \in kept})
        /\ told \subseteq kept
===============================================================================
