------------------------------- MODULE Filters -------------------------------
(* The filter language of the storage engines (session/orm/filters): a tree *)
(* of comparisons, what it means to the engines that judge rows in Python,  *)
(* what it means to a database, and its form as a query string.             *)
(*                                                                          *)
(* A value is a text with its kind; how texts compare, what they are        *)
(* without their case and which of them a LIKE pattern matches is given.  A *)
(* query string is the sequence of its words, brackets and commas: quoting  *)
(* keeps brackets and commas out of the values.                             *)
EXTENDS Integers, Sequences, SequencesExt

CONSTANTS
    Rank,       \* [texts -> numbers]: their order
    Lower,      \* [texts -> texts]: without the case
    Likes,      \* [patterns -> sets of texts]: what LIKE matches
    Numerals    \* the texts that read as numbers

Text(t)   == [kind |-> "text", text |-> t]
Number(t) == [kind |-> "number", text |-> t]
Null      == [kind |-> "null", text |-> "null"]

ValueBefore(v, w) == Rank[v.text] < Rank[w.text]

Comparison(field, op, value) == [type |-> "comparison", field |-> field, op |-> op, value |-> value]
And(fs) == [type |-> "and", filters |-> fs]
Or(fs)  == [type |-> "or", filters |-> fs]
Not(f)  == [type |-> "not", filter |-> f]

-----------------------------------------------------------------------------
(* In Python                                                                 *)

InAnyCase(texts) == {t \in DOMAIN Lower : \E u \in texts : Lower[t] = Lower[u]}

\* Values of two kinds do not compare.
Compared(op, a, b) ==
    /\ a.kind = b.kind
    /\ LET x == Rank[a.text]
           y == Rank[b.text]
       IN CASE op = "gt"  -> x > y
            [] op = "gte" -> x >= y
            [] op = "lt"  -> x < y
            [] op = "lte" -> x <= y

EvaluateComparison(f, row) ==
    LET a == row[f.field]
    IN CASE f.op \in {"eq", "is"} -> a = f.value
         [] f.op = "neq"   -> a # f.value
         [] f.op = "in"    -> a \in ToSet(f.value)
         [] f.op = "like"  -> a.kind = "text" /\ a.text \in Likes[f.value.text]
         [] f.op = "ilike" -> a.kind = "text" /\ a.text \in InAnyCase(Likes[f.value.text])
         [] OTHER          -> a # Null /\ f.value # Null /\ Compared(f.op, a, f.value)

RECURSIVE Evaluate(_, _)
Evaluate(f, row) ==
    CASE f.type = "comparison" -> EvaluateComparison(f, row)
      [] f.type = "and" -> \A i \in DOMAIN f.filters : Evaluate(f.filters[i], row)
      [] f.type = "or"  -> \E i \in DOMAIN f.filters : Evaluate(f.filters[i], row)
      [] f.type = "not" -> ~Evaluate(f.filter, row)

-----------------------------------------------------------------------------
(* In SQL: a comparison with a NULL is neither true nor false, and SQLite's  *)
(* LIKE does not look at the case.  Equality with None becomes IS NULL.      *)

Truth(b) == IF b THEN "true" ELSE "false"

SqlComparison(f, row) ==
    LET a == row[f.field]
    IN CASE f.op = "in" /\ f.value = << >>        -> "false"
         [] f.op # "in" /\ f.value = Null         -> Truth(EvaluateComparison(f, row))
         [] a = Null                              -> "unknown"
         [] f.op \in {"like", "ilike"}            -> Truth(a.text \in InAnyCase(Likes[f.value.text]))
         [] OTHER                                 -> Truth(EvaluateComparison(f, row))

Conjunction(truths) ==
    CASE "false" \in truths   -> "false"
      [] "unknown" \in truths /\ "false" \notin truths -> "unknown"
      [] OTHER                -> "true"

Negation(truth) ==
    CASE truth = "true" -> "false" [] truth = "false" -> "true" [] OTHER -> "unknown"

\* Seeded defect: a disjunction of nothing is no condition.
DisjunctionOfSome(truths) ==
    IF truths = {} THEN "true" ELSE Negation(Conjunction({Negation(t) : t \in truths}))

Disjunction(truths) == Negation(Conjunction({Negation(t) : t \in truths}))

RECURSIVE ToSql(_, _)
ToSql(f, row) ==
    CASE f.type = "comparison" -> SqlComparison(f, row)
      [] f.type = "and" -> Conjunction({ToSql(f.filters[i], row) : i \in DOMAIN f.filters})
      [] f.type = "or"  -> Disjunction({ToSql(f.filters[i], row) : i \in DOMAIN f.filters})
      [] f.type = "not" -> Negation(ToSql(f.filter, row))

\* The comparisons of a filter.
RECURSIVE Leaves(_)
Leaves(f) ==
    CASE f.type = "comparison" -> {f}
      [] f.type = "not" -> Leaves(f.filter)
      [] OTHER -> UNION {Leaves(f.filters[i]) : i \in DOMAIN f.filters}

-----------------------------------------------------------------------------
(* To a query string                                                         *)

Joined(parts) ==
    IF parts = << >> THEN << >>
    ELSE FoldLeft(LAMBDA sofar, part : sofar \o <<",">> \o part, Head(parts), Tail(parts))

Bracketed(parts) == <<"(">> \o Joined(parts) \o <<")">>

Operand(f) ==
    IF f.op = "in" THEN <<f.op>> \o Bracketed([i \in DOMAIN f.value |-> <<f.value[i].text>>])
    ELSE <<f.op, f.value.text>>

RECURSIVE Nested(_)
Nested(f) ==
    CASE f.type = "comparison" -> <<f.field>> \o Operand(f)
      [] f.type = "not" /\ f.filter.type = "comparison" -> <<f.filter.field, "not">> \o Operand(f.filter)
      [] f.type = "not" /\ f.filter.type # "comparison" -> <<"not">> \o Nested(f.filter)
      [] OTHER -> <<f.type>> \o Bracketed([i \in DOMAIN f.filters |-> Nested(f.filters[i])])

\* At the top an equals sign follows the first word.
ToQueryString(f) ==
    LET words == Nested(f) IN <<Head(words), "=">> \o Tail(words)

-----------------------------------------------------------------------------
(* From a query string: a value is what its text looks like                  *)

Error == [type |-> "error"]

ReadAs(text) ==
    [text |-> text,
     kind |-> (CASE text = "null" -> "null"
                 [] text \in {"true", "false"} -> "boolean"
                 [] text \in Numerals -> "number"
                 [] OTHER -> "text")]

\* A list holds no null and no boolean: they become texts.
ReadInList(text) ==
    LET v == ReadAs(text)
    IN CASE v.kind = "null"    -> [v EXCEPT !.kind = "text"]
         [] v.kind = "boolean" -> [kind |-> "text", text |-> IF text = "true" THEN "True" ELSE "False"]
         [] OTHER -> v

\* Seeded defect: splits at every comma.
SplitAtCommas(words) ==
    LET commas == {i \in DOMAIN words : words[i] = ","}
        cuts == <<0>> \o SetToSortSeq(commas, <) \o <<Len(words) + 1>>
    IN [n \in 1 .. Len(cuts) - 1 |-> SubSeq(words, cuts[n] + 1, cuts[n + 1] - 1)]

\* The parts between the commas outside of brackets; an empty last one is dropped.
SplitAtDepthZero(words) ==
    LET Count(b, i) == Len(SelectSeq(SubSeq(words, 1, i), LAMBDA w : w = b))
        commas == {i \in DOMAIN words : words[i] = "," /\ Count("(", i) = Count(")", i)}
        cuts == <<0>> \o SetToSortSeq(commas, <) \o <<Len(words) + 1>>
        parts == [n \in 1 .. Len(cuts) - 1 |-> SubSeq(words, cuts[n] + 1, cuts[n + 1] - 1)]
    IN IF Last(parts) = << >> THEN Front(parts) ELSE parts

Inside(words) == SubSeq(words, 2, Len(words) - 1)

Ops == {"eq", "neq", "gt", "gte", "lt", "lte", "like", "ilike", "in", "is"}

\* No text inside the brackets is no value, also where the one value is the empty text.
ReadList(words) ==
    IF words \in {<< >>, <<"">>} THEN << >>
    ELSE LET values == SelectSeq(words, LAMBDA w : w # ",")
         IN [i \in DOMAIN values |-> ReadInList(values[i])]

Bracketing(words) == words # << >> /\ Head(words) = "(" /\ Last(words) = ")"

FromOperand(field, words) ==
    CASE Len(words) < 2 \/ words[1] \notin Ops -> Error
      [] words[1] = "in" /\ ~Bracketing(Tail(words)) -> Error
      [] words[1] = "in" /\ Bracketing(Tail(words)) -> Comparison(field, "in", ReadList(Inside(Tail(words))))
      [] OTHER -> Comparison(field, words[1], ReadAs(words[2]))

Negated(f) == IF f = Error THEN Error ELSE Not(f)

FromComparison(field, words) ==
    IF words # << >> /\ Head(words) = "not" THEN Negated(FromOperand(field, Tail(words)))
    ELSE FromOperand(field, words)

RECURSIVE FromNested(_)

FromParts(type, words) ==
    LET parts == IF words = << >> THEN << >> ELSE SplitAtDepthZero(words)
        fs == [i \in DOMAIN parts |-> FromNested(parts[i])]
    IN IF Error \in {fs[i] : i \in DOMAIN fs} THEN Error ELSE [type |-> type, filters |-> fs]

FromNested(words) ==
    CASE words = << >> -> Error
      [] Head(words) \in {"and", "or"} /\ Bracketing(Tail(words)) ->
            FromParts(Head(words), Inside(Tail(words)))
      [] Head(words) = "not" -> Negated(FromNested(Tail(words)))
      [] OTHER -> FromComparison(Head(words), Tail(words))

FromQueryString(words) ==
    LET left  == Head(words)
        right == SubSeq(words, 3, Len(words))
    IN CASE left \in {"and", "or"} /\ Head(right) = "(" ->
               IF Bracketing(right) THEN FromParts(left, Inside(right)) ELSE Error
         [] left = "not" /\ FromNested(right) # Error -> Not(FromNested(right))
         [] OTHER -> FromComparison(left, right)
=============================================================================
