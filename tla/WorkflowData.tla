----------------------------- MODULE WorkflowData -----------------------------
(***************************************************************************)
(* What a workflow computes with rows (packages/workflows/src: csv.ts,     *)
(* expressions.ts, operations.ts) as functions, with the check a CSV file  *)
(* passes when it is imported into the vault (packages/memory/src/         *)
(* ingest.ts).  A character is one of the classes the code tells apart, a  *)
(* text is a sequence of characters.  A primitive value is its type and    *)
(* its place among the values of its type; a string that spells a number   *)
(* or a date keeps that fact.  The step Compute evaluates one input.       *)
(***************************************************************************)
EXTENDS Integers, Sequences, FiniteSets, SequencesExt

CONSTANTS Tables,        \* sequences of rows of texts, to be written and read again
          Values, Predicates,
          Nothing, Error

Characters == {"quote", "comma", "cr", "lf", "formula", "space", "apostrophe", "x", "y"}
Spaces == {"space", "cr", "lf"}

VARIABLES input, output
dvars == <<input, output>>
-------------------------------------------------------------------------------
\* escapeCsv: a cell that a spreadsheet may take for a formula gets an apostrophe,
\* one with a separator in it is quoted and its quotes are doubled.
LooksLikeFormula(cell) ==
    \/ cell # <<>> /\ Head(cell) = "cr"
    \/ \E i \in DOMAIN cell : cell[i] = "formula" /\ \A j \in 1..(i - 1) : cell[j] \in Spaces

Guarded(cell) == IF LooksLikeFormula(cell) THEN <<"apostrophe">> \o cell ELSE cell

DoubledQuotes(cell) ==
    FlattenSeq([i \in DOMAIN cell |-> IF cell[i] = "quote" THEN <<"quote", "quote">> ELSE <<cell[i]>>])
InnerQuotes(cell) == DoubledQuotes(cell)

EscapeCsv(cell) ==
    IF ToSet(Guarded(cell)) \cap {"quote", "comma", "cr", "lf"} = {} THEN Guarded(cell)
    ELSE <<"quote">> \o InnerQuotes(Guarded(cell)) \o <<"quote">>

\* serializeCsv, for rows that have every column.
Line(cells) == EscapeCsv(cells[1]) \o <<"comma">> \o EscapeCsv(cells[2]) \o <<"cr", "lf">>
SerializeCsv(rows) ==
    IF rows = <<>> THEN <<"cr", "lf">>
    ELSE FlattenSeq(<<Line(<<<<"x">>, <<"y">>>>)>> \o [r \in DOMAIN rows |-> Line(rows[r])])

\* parseCsv, one character at a time.
WithoutReturn(field) ==
    IF field # <<>> /\ Last(field) = "cr" THEN Front(field) ELSE field
Unread == [records |-> <<>>, record |-> <<>>, field |-> <<>>, quoted |-> FALSE, skip |-> FALSE]

Scan(text, s, i) ==
    LET c == text[i]
        doubled == i < Len(text) /\ text[i + 1] = "quote"
    IN  CASE s.skip -> [s EXCEPT !.skip = FALSE]
          [] ~s.skip /\ s.quoted /\ c = "quote" /\ doubled ->
                [s EXCEPT !.field = Append(@, "quote"), !.skip = TRUE]
          [] ~s.skip /\ s.quoted /\ c = "quote" /\ ~doubled -> [s EXCEPT !.quoted = FALSE]
          [] ~s.skip /\ ~s.quoted /\ c = "quote" /\ s.field = <<>> -> [s EXCEPT !.quoted = TRUE]
          [] ~s.skip /\ ~s.quoted /\ c = "comma" ->
                [s EXCEPT !.record = Append(@, s.field), !.field = <<>>]
          [] ~s.skip /\ ~s.quoted /\ c = "lf" ->
                [s EXCEPT !.records = Append(@, Append(s.record, WithoutReturn(s.field))),
                          !.record = <<>>, !.field = <<>>]
          [] OTHER -> [s EXCEPT !.field = Append(@, c)]

Records(text) ==
    LET s == FoldLeft(LAMBDA acc, i : Scan(text, acc, i), Unread, [i \in DOMAIN text |-> i])
    IN  IF s.quoted THEN Error
        ELSE IF s.field # <<>> \/ s.record # <<>>
             THEN Append(s.records, Append(s.record, s.field)) ELSE s.records

Blank(cell) == ToSet(cell) \subseteq Spaces
Trim(cell) == IF Blank(cell) THEN <<>>
              ELSE LET kept == {i \in DOMAIN cell : cell[i] \notin Spaces}
                       Least == CHOOSE i \in kept : \A j \in kept : i <= j
                       Most == CHOOSE i \in kept : \A j \in kept : i >= j
                   IN  SubSeq(cell, Least, Most)

ParseCsv(text) ==
    LET records == Records(text)
        headers == [i \in DOMAIN Head(records) |-> Trim(Head(records)[i])]
        rows == SelectSeq(Tail(records), LAMBDA r : \E i \in DOMAIN r : r[i] # <<>>)
    IN  IF records = Error THEN Error
        ELSE IF records = <<>> THEN <<>>
        ELSE IF \A i \in DOMAIN headers : headers[i] = <<>> THEN <<>>
        ELSE IF \/ \E i \in DOMAIN headers : headers[i] = <<>>
                \/ ~IsInjective(headers)
                \/ \E r \in ToSet(rows) : Len(r) # Len(headers) THEN Error
        ELSE rows

\* validateCsv of the vault's import: a quote opens and closes wherever it is, and
\* each line that ends has as many columns as the first.
Toggle(text, s, i) ==
    LET c == text[i]
        doubled == s.quoted /\ i < Len(text) /\ text[i + 1] = "quote"
    IN  CASE s.skip -> [s EXCEPT !.skip = FALSE]
          [] ~s.skip /\ c = "quote" ->
                IF doubled THEN [s EXCEPT !.skip = TRUE] ELSE [s EXCEPT !.quoted = ~@]
          [] ~s.skip /\ ~s.quoted /\ c = "comma" -> [s EXCEPT !.now = @ + 1]
          [] ~s.skip /\ ~s.quoted /\ c = "lf" ->
                [s EXCEPT !.now = 1, !.columns = IF @ = 0 THEN s.now ELSE @,
                          !.uneven = @ \/ (/\ s.columns \notin {0, s.now}
                                           /\ ~Blank(SubSeq(text, 1, i - 1)))]
          [] OTHER -> s

Importable(text) ==
    LET s == FoldLeft(LAMBDA acc, i : Toggle(text, acc, i),
                      [quoted |-> FALSE, skip |-> FALSE, now |-> 1, columns |-> 0,
                       uneven |-> FALSE], [i \in DOMAIN text |-> i])
    IN  ~s.quoted /\ ~s.uneven
-------------------------------------------------------------------------------
\* The types of the values, and what JavaScript calls them.
Types == {"null", "number", "boolean", "word", "numeral", "date"}
JsType(v) == IF v.type \in {"word", "numeral", "date"} THEN "string" ELSE v.type
Sign(a, b) == IF a < b THEN -1 ELSE IF a > b THEN 1 ELSE 0

\* compare of expressions.ts.
Compare(a, b) ==
    IF a.type = "null" \/ b.type = "null"
    THEN Sign(IF a.type = "null" THEN 0 ELSE 1, IF b.type = "null" THEN 0 ELSE 1)
    ELSE IF JsType(a) # JsType(b) THEN Error ELSE Sign(a.n, b.n)

\* evaluatePredicate, with the error of the first operand that decides.
RECURSIVE Holds(_, _)
Holds(p, v) ==
    CASE p.op \in {"and", "or"} ->
            LET first == Holds(p.operands[1], v)
                decided == first = Error \/ first = (p.op = "or")
            IN  IF decided THEN first ELSE Holds(p.operands[2], v)
      [] p.op = "not" -> LET h == Holds(p.operand, v) IN IF h = Error THEN Error ELSE ~h
      [] OTHER ->
            LET c == Compare(v, p.literal)
            IN  IF c = Error THEN Error
                ELSE CASE p.op = "eq" -> c = 0 [] p.op = "neq" -> c # 0
                       [] p.op = "gt" -> c > 0 [] p.op = "gte" -> c >= 0
                       [] p.op = "lt" -> c < 0 [] OTHER -> c <= 0

\* comparePrimitive of operations.ts, by which rows are sorted.
SortModes == {"primitive", "decimal", "iso-date"}
Numeric(v) == v.type \in {"number", "numeral"}
ComparePrimitive(a, b, mode) ==
    IF a = b THEN 0
    ELSE IF a.type = "null" THEN -1
    ELSE IF b.type = "null" THEN 1
    ELSE CASE mode = "decimal" -> IF Numeric(a) /\ Numeric(b) THEN Sign(a.n, b.n) ELSE Error
           [] mode = "iso-date" ->
                IF a.type = "date" /\ b.type = "date" THEN Sign(a.n, b.n) ELSE Error
           [] OTHER -> IF JsType(a) # JsType(b) \/ "date" \in {a.type, b.type} THEN Error
                       ELSE Sign(a.n, b.n)

\* sortRows by one field: the index breaks ties, and a pair that cannot be compared
\* ends the operation.
Before(column, dir, mode, i, j) ==
    LET c == ComparePrimitive(column[i], column[j], mode)
        d == IF dir = "asc" THEN c ELSE -c
    IN  d < 0 \/ (d = 0 /\ i < j)
SortRows(column, dir, mode) ==
    IF \E i, j \in DOMAIN column : ComparePrimitive(column[i], column[j], mode) = Error THEN Error
    ELSE SetToSortSeq(DOMAIN column, LAMBDA i, j : Before(column, dir, mode, i, j))

FilterRows(column, p) ==
    LET kept == SelectSeq([i \in DOMAIN column |-> i], LAMBDA i : Holds(p, column[i]) = TRUE)
    IN  IF \E i \in DOMAIN column : Holds(p, column[i]) = Error THEN Error ELSE kept

\* aggregateRows for a sum, a least and a greatest value under a currency guard.
\* A row is an amount and a currency (a word, or something else).
Mixed(rows) == \E i, j \in DOMAIN rows : rows[i].currency # rows[j].currency
Aggregate(rows, operation) ==
    IF operation = "count" THEN [type |-> "number", n |-> Len(rows)]
    ELSE IF \/ \E i \in DOMAIN rows : rows[i].currency.type # "word"
            \/ Mixed(rows)
            \/ \E i \in DOMAIN rows : ~Numeric(rows[i].amount) THEN Error
    ELSE IF rows = <<>> THEN [type |-> "null", n |-> 0]
    ELSE LET ns == [i \in DOMAIN rows |-> rows[i].amount.n]
         IN  [type |-> "number",
              n |-> CASE operation = "sum" -> FoldLeft(LAMBDA x, y : x + y, 0, ns)
                      [] operation = "min" -> CHOOSE m \in ToSet(ns) : \A k \in ToSet(ns) : m <= k
                      [] OTHER -> CHOOSE m \in ToSet(ns) : \A k \in ToSet(ns) : m >= k]
-------------------------------------------------------------------------------
\* The inputs, and what the step computes of one.
ColumnOf(n) == [1..n -> Values]
DInputs ==
    [kind : {"table"}, rows : Tables]
    \cup [kind : {"filter"}, column : ColumnOf(2), p : Predicates]
    \cup [kind : {"sort"}, column : ColumnOf(3), dir : {"asc", "desc"}, mode : SortModes]
    \cup [kind : {"aggregate"}, rows : [1..2 -> [amount : Values, currency : Values]],
          op : {"count", "sum", "min", "max"}]

Computed(in) ==
    CASE in.kind = "table" -> ParseCsv(SerializeCsv(in.rows))
      [] in.kind = "filter" -> FilterRows(in.column, in.p)
      [] in.kind = "sort" -> SortRows(in.column, in.dir, in.mode)
      [] OTHER -> Aggregate(in.rows, in.op)

DInit == input \in DInputs /\ output = Nothing
Compute == output = Nothing /\ output' = Computed(input) /\ UNCHANGED input
-------------------------------------------------------------------------------
\* A table comes back from its file as it was, but for rows without any content and
\* the apostrophe before a formula; and the vault accepts the file.
ReadBack == input.kind = "table" =>
    /\ output = SelectSeq([r \in DOMAIN input.rows |-> [c \in 1..2 |-> Guarded(input.rows[r][c])]],
                          LAMBDA row : row # <<<<>>, <<>>>>)
    /\ Importable(SerializeCsv(input.rows))

\* The opposite of a predicate, written without a negation.
RECURSIVE Opposite(_)
Opposite(p) ==
    CASE p.op = "and" -> [p EXCEPT !.op = "or", !.operands = <<Opposite(@[1]), Opposite(@[2])>>]
      [] p.op = "or" -> [p EXCEPT !.op = "and", !.operands = <<Opposite(@[1]), Opposite(@[2])>>]
      [] p.op = "not" -> p.operand
      [] p.op = "eq" -> [p EXCEPT !.op = "neq"] [] p.op = "neq" -> [p EXCEPT !.op = "eq"]
      [] p.op = "gt" -> [p EXCEPT !.op = "lte"] [] p.op = "lte" -> [p EXCEPT !.op = "gt"]
      [] p.op = "lt" -> [p EXCEPT !.op = "gte"] [] OTHER -> [p EXCEPT !.op = "lt"]

\* A filter and the one by the opposite predicate share out the rows, those without a
\* value too, and fail on the same rows: an operand that is not looked at cannot fail.
Shared == input.kind = "filter" =>
    LET others == FilterRows(input.column, Opposite(input.p))
    IN  IF output = Error THEN others = Error
        ELSE IF others = Error THEN FALSE
        ELSE /\ ToSet(output) \cap ToSet(others) = {}
             /\ ToSet(output) \cup ToSet(others) = DOMAIN input.column

\* Sorting is a stable reordering by a comparison that is an order (whatever the
\* algorithm), and downwards is upwards read backwards but for ties.
Ordered == input.kind = "sort" /\ output # Error =>
    LET C(i, j) == ComparePrimitive(input.column[i], input.column[j], input.mode)
        D == DOMAIN input.column
    IN  /\ \A i, j \in D : C(i, j) = -C(j, i)
        /\ \A i, j, k \in D : C(i, j) <= 0 /\ C(j, k) <= 0 => C(i, k) <= 0
        /\ ToSet(output) = D /\ IsInjective(output)
        /\ \A i, j \in D : i < j =>
              LET c == C(output[i], output[j])
              IN  IF c = 0 THEN output[i] < output[j] ELSE c = IF input.dir = "asc" THEN -1 ELSE 1

\* Amounts of two currencies are never added up, in any operation but a count.
OneCurrency == input.kind = "aggregate" /\ output # Error /\ input.op # "count" =>
    \A i, j \in DOMAIN input.rows : input.rows[i].currency = input.rows[j].currency

DataIsKept == output # Nothing => ReadBack /\ Shared /\ Ordered /\ OneCurrency
===============================================================================
