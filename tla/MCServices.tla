------------------------------ MODULE MCServices ------------------------------
(***************************************************************************)
(* The services around the workflows and the vault, for TLC: the task      *)
(* facade, the workbench page and what its model answers, bridge sessions, *)
(* capability grants, the gateway, the migration of the vault, and the     *)
(* computations on plans, tables, texts, searches, values and saved        *)
(* recordings.  They share no state, so a behaviour is one of one of them, *)
(* which "part" names, and the states add up.                              *)
(***************************************************************************)
EXTENDS Services, Integers, Sequences, TLC

CONSTANTS x1, x2, x3, y1, y2, p1, p2, q2, s1, s2, Error

VARIABLES part,
    d_input, d_output, t_given, t_made,
    p_phase, p_request, p_plan, p_authority, p_next, p_values, p_used, p_read,
    r_asked, r_store, r_grants, r_query, r_found,
    a_task, a_passages, a_pc, a_generations, a_result,
    j_compared, j_texts,
    k_page, k_saved, k_changes, k_taken

data == <<d_input, d_output>>
text == <<t_given, t_made>>
plans == <<p_phase, p_request, p_plan, p_authority, p_next, p_values, p_used, p_read>>
search == <<r_asked, r_store, r_grants, r_query, r_found>>
answers == <<a_task, a_passages, a_pc, a_generations, a_result>>
json == <<j_compared, j_texts>>
contract == <<k_page, k_saved, k_changes, k_taken>>
kept == <<part, services>>
calculations == <<data, text, plans, search, answers, json, contract>>
all == <<kept, calculations>>

Three == {x1, x2, x3}
Two == {y1, y2}
Symmetry == Permutations(Three) \cup Permutations({p1, p2})
-------------------------------------------------------------------------------
\* The facade: two tasks; where they can run, and how that may change.
TwoTasks == {"search", "summarize"}
Base == [policy |-> "allowed", supported |-> TwoTasks, deterministic |-> {"search"},
         local |-> {"summarize"}, model |-> 1, localFailure |-> FALSE, explicit |-> TRUE,
         configured |-> TRUE, approved |-> TRUE, online |-> {"summarize"}]
MayBe == {Base, [Base EXCEPT !.local = {}], [Base EXCEPT !.policy = "SOURCE_REVOKED"],
          [Base EXCEPT !.model = 2], [Base EXCEPT !.local = {}, !.localFailure = TRUE]}
Summarizes == q2 :> "summarize"

TwoSessions == {[endpoint |-> 1, model |-> 1], [endpoint |-> 2, model |-> 1]}

\* Two sessions of the bridge: one searches, the other asks about a tool.
TypesAllowed == s1 :> {"page.capture-selection", "page.request-source-search", "bridge.cancel"}
                @@ s2 :> {"page.request-action-preview", "bridge.cancel"}
SourcesAllowed == s1 :> {1} @@ s2 :> {}
ToolsAllowed == s1 :> {} @@ s2 :> {1}
-------------------------------------------------------------------------------
\* Tables of up to two rows of two cells; cells of up to two of the characters that
\* the writer and the reader of CSV tell apart.
Cells == UNION {[1..n -> {"quote", "comma", "cr", "lf", "formula", "space"}] : n \in 0..2}
FewCells == {<<>>, <<"quote">>, <<"x">>, <<"lf">>}
Value(type, n) == [type |-> type, n |-> n]
Comparison(op, v) == [op |-> op, literal |-> v]
Comparisons == {Comparison(op, v) : op \in {"eq", "neq", "gt", "gte", "lt", "lte"},
                                    v \in {Value("number", 1), Value("word", 2), Value("null", 0)}}
Operands == {Comparison("eq", Value("number", 1)), Comparison("gt", Value("word", 1)),
             Comparison("neq", Value("null", 0))}
Data == INSTANCE WorkflowData WITH
    Tables <- {<<>>} \cup {<<r>> : r \in Cells \X Cells}
              \cup {<<r, q>> : r \in FewCells \X FewCells, q \in Cells \X FewCells},
    Values <- {Value("null", 0), Value("number", 1), Value("number", 2), Value("word", 1),
               Value("word", 2), Value("numeral", 1), Value("date", 1), Value("date", 2)},
    Predicates <- Comparisons
                  \cup {[op |-> op, operands |-> <<l, r>>] : op \in {"and", "or"},
                                                           l \in Operands, r \in Operands}
                  \cup {[op |-> "not", operand |-> l] : l \in Operands},
    Nothing <- None, input <- d_input, output <- d_output

\* Texts of up to four letters, one of them longer in lower case, or of six of which it is
\* the first two, so that a term is sought beside its place; with up to two findings beside
\* their terms; and documents around the size of a chunk.
Finding(i, j, c, r) == [start |-> i, end |-> j, category |-> c, restricted |-> r]
Findings == {Finding(0, 2, "manual", FALSE), Finding(1, 4, "token", TRUE),
             Finding(1, 2, "card", TRUE), Finding(2, 3, "email", FALSE), Finding(0, 1, "phone", FALSE)}
Xs(n) == [k \in 1..n |-> "x"]
Text == INSTANCE PrivateText WITH
    Texts <- UNION {[1..n -> {"a", "b", "I"}] : n \in 0..4}
             \cup UNION {[1..n -> {"A", "a", "b"}] : n \in 2..3}
             \cup {<<"I", "I">> \o t : t \in [1..4 -> {"a", "b"}]},
    Terms <- {<<>>, << <<"a", "A">>, <<"a", "a">> >>, << <<"a", "b">>, <<"b", "b">> >>,
              << <<"a", "b", "a">>, <<"b">> >>, << <<"I", "a">> >>},
    Found <- UNION {[1..n -> Findings] : n \in 0..2},
    Limits <- {1, 3},
    Documents <- {Xs(3) \o d \o e : d \in [1..5 -> {"x", "heading", "sentence"}],
                     e \in {<<>>, Xs(1), <<"blank">> \o Xs(3), Xs(16),
                            Xs(2) \o <<"sentence">> \o Xs(2) \o <<"heading", "x">>}}
                 \cup UNION {[1..n -> {"x", "heading", "blank", "sentence"}] : n \in 0..3},
    ChunkCharacters <- 6, Minimum <- 3, Overlap <- 1, MaxChunks <- 4,
    Nothing <- None, given <- t_given, made <- t_made
-------------------------------------------------------------------------------
\* Requests that compile and that do not; plans of up to three steps, well formed or not.
Revision(n) == [source |-> "s", revision |-> n]
AllCapabilities == {"input:read", "local-file:export", "source:read", "memory:search", "tool:t"}
Authority(granted, origin, n) == [granted |-> granted, origin |-> origin, revisions |-> {Revision(n)}]
Step(id, op, of, field, output, approval, continue) ==
    [id |-> id, op |-> op, ref |-> [of |-> of, field |-> field], output |-> output,
     approval |-> approval, continue |-> continue, tool |-> "tool:t"]
Steps == {Step("a", "source.select", "none", "", "rows", "none", FALSE),
          Step("a", "rows.filter", "input", "csv", "none", "none", FALSE),
          Step("a", "rows.filter", "b", "", "rows", "none", FALSE),
          Step("a", "approval.require", "none", "", "none", "none", TRUE),
          Step("b", "rows.filter", "a", "rows", "none", "none", FALSE),
          Step("b", "file.export", "a", "", "none", "a", FALSE),
          Step("b", "tool.invoke", "input", "csv", "none", "none", TRUE),
          Step("b", "memory.search", "none", "", "none", "none", FALSE)}
Plan(steps, origins, sources, tools) ==
    [steps |-> steps, capabilities |-> {"input:read"}, origins |-> origins, sources |-> sources,
     tools |-> tools, maxSteps |-> 2]
Plans == INSTANCE WorkflowPlans WITH
    Requests <- [asks : {"non-us", "sort", "other"}, columns : SUBSET {"country", "field"},
                 planner : BOOLEAN, source : {None, Revision(1)}, origin : {None}]
                \cup [asks : {"sort"}, columns : {{"field"}}, planner : {FALSE}, source : {None},
                      origin : {"o1"}],
    Planned <- {Plan(st, {}, {Revision(1)}, {"tool:t"}) : st \in UNION {[1..n -> Steps] : n \in 0..2}}
               \cup {Plan(st, {"o1"}, so, ts) : st \in [1..1 -> Steps],
                         so \in {{}, {Revision(1)}}, ts \in {{}, {"tool:t"}}}
               \cup {Plan(<<s, s, s>>, {}, {Revision(1)}, {}) : s \in Steps},
    Authorities <- {Authority(AllCapabilities, "o1", 1),
                    Authority(AllCapabilities \ {"tool:t"}, "o1", 1),
                    Authority(AllCapabilities \ {"source:read"}, "o1", 1),
                    Authority(AllCapabilities, "o2", 2)},
    Missing <- None,
    phase <- p_phase, request <- p_request, plan <- p_plan, authority <- p_authority,
    next <- p_next, values <- p_values, used <- p_used, read <- p_read
ASSUME Plans!PlannedAssumption

\* Three chunks of three documents, which what is asked tells apart in every way.
Chunk(d, current, terms, near) ==
    [document |-> d, workspace |-> "w", keptUntil |-> None, sensitivity |-> "open",
     origin |-> None, current |-> current, terms |-> terms, near |-> near]
Other(terms, near) == Chunk("b", TRUE, terms, near)
First == {Chunk("a", TRUE, ts, n) : ts \in {<<"x">>, <<"y">>}, n \in {None, 1}}
         \cup {Chunk("a", FALSE, <<"x">>, 1)}
Second == {[Other(<<"x", "y">>, 2) EXCEPT !.sensitivity = v] : v \in {"open", "secret"}}
          \cup {[Other(<<"x">>, None) EXCEPT !.keptUntil = k] : k \in {1, 2}}
          \cup {[Other(<<"y">>, 1) EXCEPT !.origin = o] : o \in {"o1", "o2"}}
          \cup {[Other(<<"x">>, 1) EXCEPT !.workspace = "v"]}
Third == {Chunk("c", TRUE, ts, n) : ts \in {<<"x", "x", "z">>, <<"y">>}, n \in {None, 1}}
Grant(sources, expires, revoked, origin) ==
    [workspace |-> "w", recipient |-> "r", sources |-> sources, expires |-> expires,
     revoked |-> revoked, origin |-> origin]
Anyone == [allowed |-> None, denied |-> {}, sensitivities |-> None, origin |-> None, recipient |-> None]
Callers == {Anyone, [Anyone EXCEPT !.denied = {"b"}], [Anyone EXCEPT !.allowed = {"a", "c"}],
            [Anyone EXCEPT !.sensitivities = {"open"}, !.origin = "o1"],
            [Anyone EXCEPT !.recipient = "r", !.origin = "o1"]}
Search == INSTANCE Retrieval WITH
    Stores <- {<<>>} \cup {<<f, s, t>> : f \in First, s \in Second, t \in Third},
    Grants <- {{}, {Grant({"a", "b"}, 2, FALSE, None)},
               {Grant({"a", "b", "c"}, 2, TRUE, None), Grant({"c"}, 2, FALSE, None)},
               {Grant({"a"}, 1, FALSE, None), Grant({"b"}, 2, FALSE, "o1"),
                [Grant({"c"}, 2, FALSE, None) EXCEPT !.workspace = "v"]}},
    Queries <- [workspace : {"w"}, terms : {{"x", "y"}}, limit : {2, 3}, provider : {TRUE}, auth : Callers]
                \cup [workspace : {"w"}, terms : {{"x"}}, limit : {1}, provider : {FALSE}, auth : Callers],
    Now <- 1,
    asked <- r_asked, store <- r_store, grants <- r_grants, query <- r_query, found <- r_found
ASSUME Search!SearchAssumption
-------------------------------------------------------------------------------
\* What a model may write of passages with spaces, capitals and each letter alone.
Written == {<<>>, <<" ">>, <<"a">>, <<"A">>, <<"b">>, <<"a", " ", "b">>, <<"b", " ">>,
            <<"a", " ", " ", "A">>}
Answered == INSTANCE GroundedAnswers WITH
    Characters <- {" ", "a", "A", "b"},
    Found <- {{}, {<<"a", " ", " ", "A", "b">>}, {<<"a", " ", "b">>, <<"A", " ">>}, {<<"b">>, <<"a">>}},
    Answers <- Written \cup {<<"b", " ", "a">>, <<" ", "a", " ", "a">>, <<"A", " ", "a", "b">>},
    Quotes <- Written, MaxQuotes <- 2, Unknown <- None,
    task <- a_task, passages <- a_passages, pc <- a_pc, generations <- a_generations, result <- a_result
ASSUME Answered!TextsAssumption

\* Values that a careless text would not tell apart: strings with the characters that
\* delimit them, keys in any order, parts of parts, and values at the limits.
Upto(n, S) == UNION {[1..k -> S] : k \in 0..n}
Json(type, of) == [type |-> type, of |-> of]
Entry(key, value) == [key |-> key, value |-> value]
Null == [type |-> "null"]
Strings == Upto(2, {"quote", "comma", "backslash", "x"}) \cup {<<"quote", "comma", "quote">>}
Entries == {Entry(<<k>>, v) : k \in {"x", "y", "y2", "quote"}, v \in {Null, Json("string", <<"x">>)}}
           \cup {Entry(<<"x", "x">>, Null)}
Inner == {Null, Json("number", <<"1">>), Json("array", <<>>), Json("object", <<>>),
          Json("array", <<Null>>), Json("object", <<Entry(<<"x">>, Null)>>),
          Json("array", <<Json("array", <<>>)>>)}
         \cup {Json("string", <<c>>) : c \in {"null", "1", "[", "}"}}
Canon == INSTANCE CanonicalJson WITH
    Families <- {
        {Json("array", [i \in DOMAIN v |-> Json("string", v[i])]) : v \in Upto(2, Strings)},
        {Json("object", es) : es \in {es \in Upto(3, Entries) :
            \A i, j \in DOMAIN es : es[i].key = es[j].key => i = j}},
        Inner \cup {Json("array", v) : v \in Upto(2, Inner)}
              \cup {Json("object", <<Entry(<<"x">>, v)>>) : v \in Inner}},
    MaxDepth <- 2, MaxEntries <- 4, MaxCharacters <- 3, MaxText <- 16,
    Forbidden <- {<<"x", "x">>}, Nothing <- None,
    compared <- j_compared, texts <- j_texts

Contract == INSTANCE DemoContract WITH
    Statuses <- {"review", "approved"}, Declarations <- {"read", "write"}, Strange <- None,
    Ids <- {1, 2}, Origins <- {"o1", "o2"}, Names <- {"v1", "v2"}, MaxEvents <- 1, MaxChanges <- 2,
    Nothing <- None,
    page <- k_page, saved <- k_saved, changes <- k_changes, taken <- k_taken
ASSUME Contract!ContractAssumption
-------------------------------------------------------------------------------
\* A service whose part it is not starts in one of its initial states, and stays there.
MCInit ==
    /\ part \in {"tasks", "desk", "bridge", "caps", "gate", "move", "data", "text", "plans", "search",
                "answers", "json", "contract"}
    /\ c_environment \in (IF part = "tasks" THEN MayBe ELSE {Base})
    /\ b_document \in (IF part = "bridge" THEN Two ELSE {y1})
    /\ h_expires \in (IF part = "gate" THEN [Two -> 0..LastTime + 1] ELSE {[d \in Two |-> 0]})
    /\ h_carries \in (IF part = "gate" THEN [Three -> Two] ELSE {[x \in Three |-> y1]})
    /\ Init
    /\ IF part = "data" THEN Data!DInit ELSE d_input = None /\ d_output = None
    /\ IF part = "text" THEN Text!TInit ELSE t_given = None /\ t_made = None
    /\ IF part = "plans" THEN Plans!PInit
       ELSE /\ p_phase = "done" /\ p_request = None /\ p_plan = None /\ p_authority = None
            /\ p_next = 0 /\ p_values = {} /\ p_used = {} /\ p_read = {}
    /\ IF part = "search" THEN Search!RInit
       ELSE /\ r_asked = "aborted" /\ r_store = <<>> /\ r_grants = {} /\ r_query = None
            /\ r_found = <<>>
    /\ IF part = "answers" THEN Answered!GInit
       ELSE a_task = None /\ a_passages = {} /\ a_pc = "failed" /\ a_generations = 0 /\ a_result = None
    /\ IF part = "json" THEN Canon!JInit ELSE j_compared = {} /\ j_texts = {}
    /\ IF part = "contract" THEN Contract!DInit
       ELSE k_page = None /\ k_saved = None /\ k_changes = 0 /\ k_taken = Error

ServiceStep == /\ \/ part = "tasks" /\ TasksStep
                  \/ part = "desk" /\ DeskStep
                  \/ part = "bridge" /\ BridgeStep
                  \/ part = "caps" /\ CapsStep
                  \/ part = "gate" /\ GateStep
                  \/ part = "move" /\ MoveStep
               /\ UNCHANGED <<part, calculations>>
DataStep == part = "data" /\ Data!Compute /\ UNCHANGED <<kept, text, plans, search, answers, json, contract>>
TextStep == part = "text" /\ Text!Prepare /\ UNCHANGED <<kept, data, plans, search, answers, json, contract>>
PlansStep == part = "plans" /\ Plans!PNext /\ UNCHANGED <<kept, data, text, search, answers, json, contract>>
SearchStep == part = "search" /\ Search!RNext /\ UNCHANGED <<kept, data, text, plans, answers, json, contract>>
AnswersStep == part = "answers" /\ Answered!GNext /\ UNCHANGED <<kept, data, text, plans, search, json, contract>>
JsonStep == part = "json" /\ Canon!Canonicalize /\ UNCHANGED <<kept, data, text, plans, search, answers, contract>>
ContractStep == part = "contract" /\ Contract!DNext /\ UNCHANGED <<kept, data, text, plans, search, answers, json>>
MCNext == \/ ServiceStep
          \/ DataStep \/ TextStep \/ PlansStep \/ SearchStep
          \/ AnswersStep \/ JsonStep \/ ContractStep
MCSpec == MCInit /\ [][MCNext]_all
-------------------------------------------------------------------------------
\* See WorkflowPlans, WorkflowData, PrivateText, Retrieval, GroundedAnswers, CanonicalJson
\* and DemoContract: what is computed on private data is what was granted, and loses or
\* shows nothing it must not; what is compared or taken back is what it was.
ComputesAsMeant ==
    CASE part = "plans" -> Plans!PlansRunAsGranted
      [] part = "data" -> Data!DataIsKept
      [] part = "text" -> Text!NothingIsLostOrShown
      [] part = "search" -> Search!FoundAsAllowed
      [] part = "answers" -> Answered!AnswersAreQuoted
      [] part = "json" -> Canon!TextsIdentify
      [] part = "contract" -> Contract!TakenAsPackaged
      [] OTHER -> TRUE
===============================================================================
