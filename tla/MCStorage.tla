------------------------------ MODULE MCStorage ------------------------------
(* Two keys, two values and the filters over them up to two levels.          *)
EXTENDS Storage, Filters

MCRank == [t \in {"null", "1", "2", "ab", "AB", "b"} |->
              CASE t = "null" -> 0 [] t = "1" -> 1 [] t = "2" -> 2 [] t = "AB" -> 3 [] t = "ab" -> 4 [] t = "b" -> 5]
MCLower == [t \in {"ab", "AB", "b"} |-> IF t = "b" THEN "b" ELSE "ab"]
MCLikes == [p \in {"a%"} |-> {"ab"}]

MCKeys == {Number("1"), Number("2")}
MCValues == {Text("ab"), Text("b")}
MCTexts == {Text("ab"), Text("AB"), Text("b")}
MCNullable == {Text("ab"), Text("AB"), Null}

MCDeletes == {Comparison("key", "eq", Number("1")), Comparison("a", "eq", Text("ab"))}

MCComparisons ==
    {Comparison("a", op, Text("ab")) : op \in {"eq", "neq", "gt", "gte", "lt", "lte"}}
        \cup {Comparison("key", op, Number("1")) : op \in {"eq", "gt"}}
        \cup {Comparison("a", op, Null) : op \in {"is", "eq", "neq"}}
        \cup {Comparison("a", "ilike", Text("a%")), Comparison("a", "like", Text("a%"))}
        \cup {Comparison("a", "eq", Text("1"))}
        \cup {Comparison("a", "in", list) : list \in {<< >>, <<Text("b")>>, <<Text("ab"), Text("b")>>}}

MCPairs(fs) == {<< >>} \cup {<<f>> : f \in fs} \cup {<<f, g>> : f, g \in fs}
MCOnce(fs) == fs \cup {Not(f) : f \in fs} \cup {And(p) : p \in MCPairs(fs)} \cup {Or(p) : p \in MCPairs(fs)}

MCFew == {Comparison("a", "gt", Text("ab")), Comparison("a", "in", <<Text("ab"), Text("b")>>)}
MCFilters == MCOnce(MCComparisons) \cup MCOnce(MCOnce(MCFew))

MCClients == [memory |-> {"c1", "c2"}, jsonl |-> {"c1"}, sql |-> {"c1", "c2"}]
MCTogether == [e \in {"memory", "jsonl", "sql"} |-> {"c1", "c2"}]

-----------------------------------------------------------------------------
(* What the engines find                                                     *)

\* A filter selects the same rows in the database as in the engines that judge
\* the rows in Python (filters/converter.py: to_sqlalchemy and evaluate).
SameRows ==
    found # Nothing /\ (\A leaf \in Leaves(found.filter) : leaf.op # "like")
        => ToSet(found.keys) = Evaluated(found.table, found.filter)

Readable(leaf) ==
    IF leaf.op = "in"
    THEN leaf.value # <<Text("")>> /\ \A v \in ToSet(leaf.value) : ReadInList(v.text) = v
    ELSE ReadAs(leaf.value.text) = leaf.value

\* A filter whose values look like what they are is read back from its query
\* string as it was (to_query_string and from_query_string).
ReadsBack ==
    found # Nothing /\ (\A leaf \in Leaves(found.filter) : Readable(leaf))
        => FromQueryString(ToQueryString(found.filter)) = found.filter

\* A filter means the same wherever it is judged, and however it came there.
FiltersAgree == SameRows /\ ReadsBack

\* "For any valid filter ... gives a filter that is semantically equivalent"
\* (tests/unit/test_filter_dsl_properties.py:1222).
AnyReadsBack == found # Nothing => FromQueryString(ToQueryString(found.filter)) = found.filter

\* "LIKE: pattern matching (case sensitive)", filters/dsl.py:22.
LikeMindsCase ==
    found # Nothing /\ found.filter.type = "comparison" /\ found.filter.op = "like"
        => ToSet(found.keys) = Evaluated(found.table, found.filter)
=============================================================================
