---------------------------- MODULE StorageProofs ----------------------------
(* Proof that Storage implements Table.                                      *)
EXTENDS Storage, TLAPS

\* A JSONL table has one client at a time.
OneWriter == "jsonl" \in DOMAIN Clients => \A c, d \in Clients["jsonl"] : c = d

\* The filters of deletes select the same rows in SQL and in Python.
Agreed ==
    \A f \in DeleteFilters, k \in Keys, v \in Values :
        Judges(f, [key |-> k, a |-> v]) <=> Selects(f, [key |-> k, a |-> v]) = "true"

Writes == [op : {"create", "update", "upsert"}, key : Keys, value : Values]

\* What a call does is what it was asked, or what an upsert has become.
IsCall(call) ==
    /\ call = [request |-> call.request, does |-> call.does, step |-> call.step, seen |-> call.seen]
    /\ call.step \in {"idle", "called", "merged", "refresh", "selected", "read", "install", "open", "dump", "done", "failed"}
    /\ call.step = "idle" => call = Idle
    /\ call.step # "idle" => call.request \in Requests
    /\ call.seen \in Tables
    /\ call.does = "delete" <=> call.request.op = "delete"
    /\ call.does = "create" => call.request.op \in {"create", "upsert"}
    /\ call.does = "update" => call.request.op \in {"update", "upsert"}
    /\ call.does = "upsert" => call.request.op = "upsert"

Typed ==
    /\ engine \in DOMAIN Clients /\ rows \in Tables /\ file \in Tables /\ loaded \in BOOLEAN
    /\ calls = [c \in Clients[engine] |-> calls[c]] /\ \A c \in Clients[engine] : IsCall(calls[c])

\* The cache and the file of a JSONL table, through the steps of its client.
Changed(table, request) ==
    IF request.op = "delete" THEN Without(table, Evaluated(table, request.filter)) ELSE With(table, request)
Ahead(c) == calls[c].step \in {"open", "dump"}
Cached ==
    engine = "jsonl" =>
        /\ loaded /\ (\A c \in DOMAIN calls : ~Ahead(c)) => file = rows
        /\ \A c \in DOMAIN calls :
            /\ calls[c].step \in {"read", "install"} => ~loaded
            /\ calls[c].step = "install" => calls[c].seen = file
            /\ Ahead(c) => loaded
            /\ calls[c].step = "open" => rows = Changed(file, calls[c].request)
            /\ calls[c].step = "dump" => file = Empty /\ calls[c].seen = rows

IInv == Typed /\ Cached

-----------------------------------------------------------------------------
(* Facts about tables *)

\* A table has values for some of the keys, and the empty table for none.
LEMMA TableFacts ==
    /\ Empty \in Tables /\ DOMAIN Empty = {}
    /\ \A t \in Tables : DOMAIN t \subseteq Keys /\ (\A k \in DOMAIN t : t[k] \in Values)
                         /\ t = [k \in DOMAIN t |-> t[k]]
    /\ \A t : t = [k \in DOMAIN t |-> t[k]] /\ DOMAIN t \subseteq Keys /\ (\A k \in DOMAIN t : t[k] \in Values)
                => t \in Tables
<1>1. Empty \in [{} -> Values] /\ {} \in SUBSET Keys /\ DOMAIN Empty = {}
  BY DEF Empty
<1> QED BY <1>1 DEF Tables

\* A table with one more row, or another value in a row, is a table.
LEMMA WithIsTable ==
    ASSUME NEW t \in Tables, NEW r \in Writes
    PROVE  With(t, r) \in Tables
<1>1. r.key \in Keys /\ r.value \in Values
  BY DEF Writes
<1> DEFINE w == With(t, r)
<1>2. DOMAIN w = DOMAIN t \cup {r.key} /\ \A k \in DOMAIN w : w[k] = IF k = r.key THEN r.value ELSE t[k]
  BY DEF With
<1>3. w = [k \in DOMAIN w |-> w[k]]
  BY DEF With
<1> HIDE DEF w
<1>4. w \in Tables
  BY <1>1, <1>2, <1>3, TableFacts
<1> QED BY <1>4 DEF w

\* A part of a table is a table of the rows it keeps.
LEMMA PartIsTable ==
    ASSUME NEW t \in Tables, NEW S, S \subseteq DOMAIN t
    PROVE  Restrict(t, S) \in Tables /\ DOMAIN Restrict(t, S) = S
<1> DEFINE p == Restrict(t, S)
<1>1. DOMAIN p = S /\ (\A k \in S : p[k] = t[k]) /\ p = [k \in DOMAIN p |-> p[k]]
  BY DEF Restrict
<1> HIDE DEF p
<1>2. p \in Tables
  BY <1>1, TableFacts
<1> QED BY <1>1, <1>2 DEF p

\* A table from which rows are removed is a table.
LEMMA WithoutIsTable ==
    ASSUME NEW t \in Tables, NEW S
    PROVE  Without(t, S) \in Tables
BY PartIsTable DEF Without

\* A table from which nothing is removed stays as it is.
LEMMA WithoutNothing ==
    ASSUME NEW t \in Tables
    PROVE  Without(t, {}) = t
<1>1. t = [k \in DOMAIN t |-> t[k]] /\ DOMAIN t \ {} = DOMAIN t
  BY TableFacts
<1> QED BY <1>1 DEF Without, Restrict

\* A table without rows is the empty one.
LEMMA NoRows ==
    ASSUME NEW t \in Tables, DOMAIN t = {}
    PROVE  t = Empty
<1>1. t = [k \in {} |-> t[k]] /\ Empty = [k \in {} |-> Empty[k]]
  BY TableFacts
<1> QED BY <1>1

\* To write a row that is there already changes nothing.
LEMMA WithWhatIsThere ==
    ASSUME NEW t \in Tables, NEW r, r.key \in DOMAIN t, t[r.key] = r.value
    PROVE  With(t, r) = t
<1> DEFINE w == With(t, r)
<1>1. w = [k \in DOMAIN t |-> t[k]]
  BY DEF With
<1> QED BY <1>1, TableFacts

\* Rows that are written to an empty file are what the file holds then.
LEMMA OverNothing ==
    ASSUME NEW t \in Tables, NEW rest \in SUBSET DOMAIN Empty
    PROVE  Over(t, Restrict(Empty, rest)) = t
<1>1. rest = {} /\ DOMAIN Restrict(Empty, rest) = {}
  BY TableFacts, PartIsTable
<1>2. Over(t, Restrict(Empty, rest)) = [k \in DOMAIN t |-> t[k]]
  BY <1>1 DEF Over
<1> QED BY <1>2, TableFacts

\* Rows written over others are a table.
LEMMA OverIsTable ==
    ASSUME NEW t \in Tables, NEW u \in Tables
    PROVE  Over(t, u) \in Tables
<1> DEFINE w == Over(t, u)
<1>1. DOMAIN w = DOMAIN t \cup DOMAIN u /\ (\A k \in DOMAIN w : w[k] = IF k \in DOMAIN t THEN t[k] ELSE u[k])
      /\ w = [k \in DOMAIN w |-> w[k]]
  BY DEF Over
<1> HIDE DEF w
<1>2. w \in Tables
  BY <1>1, TableFacts
<1> QED BY <1>2 DEF w

\* Filters that agree select the same rows in SQL and in Python.
LEMMA SameSelection ==
    ASSUME Agreed, NEW t \in Tables, NEW f \in DeleteFilters
    PROVE  Selected(t, f) = Evaluated(t, f)
BY TableFacts DEF Agreed, Selected, Evaluated, RowAt

\* The helpers of Table are those of Storage.
LEMMA AsInTable ==
    /\ \A t, r : T!With(t, r) = With(t, r)
    /\ \A t, S : T!Without(t, S) = Without(t, S)
    /\ \A t, f : T!Matching(t, f) = Evaluated(t, f)
    /\ T!Idle = [request |-> NoRequest, status |-> "idle", chosen |-> {}]
    /\ T!Writes = Writes /\ T!Deletes = [op : {"delete"}, filter : DeleteFilters]
<1>1. \A t, r : T!With(t, r) = With(t, r)
  BY DEF T!With, With
<1>2. \A t, S : T!Without(t, S) = Without(t, S)
  BY DEF T!Without, Without, T!Restrict, Restrict
<1>3. \A t, f : T!Matching(t, f) = Evaluated(t, f)
  BY DEF T!Matching, Evaluated, T!RowAt, RowAt
<1>4. T!Idle = [request |-> NoRequest, status |-> "idle", chosen |-> {}]
  BY DEF T!Idle, T!NoRequest, NoRequest
<1>5. T!Writes = Writes /\ T!Deletes = [op : {"delete"}, filter : DeleteFilters]
  BY DEF T!Writes, Writes, T!Deletes
<1> QED BY <1>1, <1>2, <1>3, <1>4, <1>5

-----------------------------------------------------------------------------
(* A client's call takes a step *)

Chosen(does, step, seen) == IF does = "delete" /\ engine = "sql" /\ step # "called" THEN {DOMAIN seen} ELSE {}
Answer(request, status, chosen) == [request |-> request, status |-> status, chosen |-> chosen]
To(c, request, does, step, seen) ==
    calls' = [calls EXCEPT ![c] = [request |-> request, does |-> does, step |-> step, seen |-> seen]]

\* A call that takes a step keeps its request and what it has seen.
LEMMA Becoming ==
    ASSUME Typed, NEW c \in DOMAIN calls, NEW s, Becomes(c, s)
    PROVE  To(c, calls[c].request, calls[c].does, s, calls[c].seen)
<1>1. calls[c] = [request |-> calls[c].request, does |-> calls[c].does, step |-> calls[c].step, seen |-> calls[c].seen]
  BY DEF Typed, IsCall
<1>2. [calls[c] EXCEPT !.step = s] = [request |-> calls[c].request, does |-> calls[c].does, step |-> s, seen |-> calls[c].seen]
  BY <1>1
<1>3. calls' = [calls EXCEPT ![c] = [calls[c] EXCEPT !.step = s]]
  BY DEF Becomes
<1> QED BY <1>2, <1>3 DEF To

\* A call that reads keeps its request and what it does.
LEMMA Seeing ==
    ASSUME Typed, NEW c \in DOMAIN calls, NEW s, NEW t, Sees(c, s, t)
    PROVE  To(c, calls[c].request, calls[c].does, s, t)
<1> DEFINE m == [calls[c] EXCEPT !.step = s]
<1>1. calls[c] = [request |-> calls[c].request, does |-> calls[c].does, step |-> calls[c].step, seen |-> calls[c].seen]
  BY DEF Typed, IsCall
<1>2. m = [request |-> calls[c].request, does |-> calls[c].does, step |-> s, seen |-> calls[c].seen]
  BY <1>1
<1> HIDE DEF m
<1>3. [m EXCEPT !.seen = t] = [request |-> calls[c].request, does |-> calls[c].does, step |-> s, seen |-> t]
  BY <1>2
<1>4. calls' = [calls EXCEPT ![c] = [m EXCEPT !.seen = t]]
  BY DEF Sees, m
<1> QED BY <1>3, <1>4 DEF To

\* What the caller is told of a call after its step.
LEMMA Moved ==
    ASSUME NEW c \in DOMAIN calls, engine' = engine, NEW r, NEW d, NEW s, NEW t, To(c, r, d, s, t)
    PROVE  Answers'[c] = Answer(r, Status(s), Chosen(d, s, t))
<1>1. DOMAIN calls' = DOMAIN calls /\ calls'[c] = [request |-> r, does |-> d, step |-> s, seen |-> t]
  BY DEF To
<1>2. Seen(c)' = Answer(r, Status(s), Chosen(d, s, t))
  BY <1>1 DEF Seen, Chosen, Answer
<1>3. Answers'[c] = Seen(c)'
  BY <1>1 DEF Answers
<1> QED BY <1>2, <1>3

\* A step of one call leaves the other calls alone.
LEMMA CallMoved ==
    ASSUME NEW c \in DOMAIN calls, NEW r, NEW d, NEW s, NEW t, To(c, r, d, s, t)
    PROVE  /\ DOMAIN calls' = DOMAIN calls
           /\ calls'[c] = [request |-> r, does |-> d, step |-> s, seen |-> t]
           /\ \A b \in DOMAIN calls : b # c => calls'[b] = calls[b]
BY DEF To

\* What the caller is told of a call.
LEMMA AnswerNow ==
    ASSUME NEW c \in DOMAIN calls
    PROVE  Answers[c] = Answer(calls[c].request, Status(calls[c].step),
                               Chosen(calls[c].does, calls[c].step, calls[c].seen))
BY DEF Answers, Seen, Chosen, Answer

\* A step of one call changes what one caller is told.
LEMMA OneAnswer ==
    ASSUME NEW c \in DOMAIN calls, engine' = engine, NEW r, NEW d, NEW s, NEW t, To(c, r, d, s, t),
           NEW v, Answers'[c] = v
    PROVE  Answers' = [Answers EXCEPT ![c] = v]
<1>1. DOMAIN calls' = DOMAIN calls /\ \A b \in DOMAIN calls : b # c => calls'[b] = calls[b]
  BY DEF To
<1>2. \A b \in DOMAIN calls : b # c => Seen(b)' = Seen(b)
  BY <1>1 DEF Seen
<1>3. Answers' = [b \in DOMAIN calls |-> IF b = c THEN v ELSE Seen(b)]
  BY <1>1, <1>2 DEF Answers
<1> QED BY <1>3 DEF Answers

\* A step that a caller does not see.
LEMMA Unseen ==
    ASSUME Typed, NEW c \in DOMAIN calls, engine' = engine, NEW d, NEW s, NEW t,
           To(c, calls[c].request, d, s, t), Status(s) = Status(calls[c].step),
           Chosen(d, s, t) = Chosen(calls[c].does, calls[c].step, calls[c].seen), Stored' = Stored
    PROVE  UNCHANGED T!vars
<1>1. Answers[c] = Answer(calls[c].request, Status(calls[c].step), Chosen(calls[c].does, calls[c].step, calls[c].seen))
  BY AnswerNow
<1>2. Answers'[c] = Answers[c]
  BY <1>1, Moved
<1>4. Answers' = [Answers EXCEPT ![c] = Answers[c]]
  BY <1>2, OneAnswer
<1>5. Answers' = Answers
  BY <1>4 DEF Answers
<1> QED BY <1>5 DEF T!vars

\* A step that changes what a caller is told.
LEMMA Told ==
    ASSUME Typed, NEW c \in DOMAIN calls, engine' = engine, NEW d, NEW s, NEW t,
           To(c, calls[c].request, d, s, t),
           Chosen(d, s, t) = Chosen(calls[c].does, calls[c].step, calls[c].seen)
    PROVE  T!Become(c, Status(calls[c].step), Status(s))
<1> DEFINE from == Status(calls[c].step)
           to == Status(s)
           h == Chosen(d, s, t)
<1>1. Answers[c] = Answer(calls[c].request, from, h)
  BY AnswerNow
<1>2. Answers'[c] = Answer(calls[c].request, to, h)
  BY Moved
<1> HIDE DEF from, to, h
<1>3. [Answers[c] EXCEPT !.status = to] = Answer(calls[c].request, to, h)
  BY <1>1 DEF Answer
<1>4. Answers' = [Answers EXCEPT ![c] = [Answers[c] EXCEPT !.status = to]]
  BY <1>2, <1>3, OneAnswer
<1>5. Answers[c].status = from /\ Answers' = [Answers EXCEPT ![c].status = to]
  BY <1>1, <1>4 DEF Answer
<1> QED BY <1>5 DEF T!Become, from, to

-----------------------------------------------------------------------------
(* The invariant *)

\* The invariant holds at the start, for every table that was stored before.
LEMMA IInvInit == Init => IInv
<1> SUFFICES ASSUME Init PROVE IInv
  OBVIOUS
<1>1. IsCall(Idle)
  BY TableFacts DEF IsCall, Idle, NoRequest
<1>2. rows \in Tables /\ file \in Tables
  BY TableFacts DEF Init
<1> QED BY <1>1, <1>2 DEF Init, IInv, Typed, Cached, Ahead, Idle

\* A step to a proper call and proper tables keeps to the values.
LEMMA TypedMove ==
    ASSUME Typed, NEW c \in DOMAIN calls, engine' = engine, NEW r, NEW d, NEW s, NEW t, To(c, r, d, s, t),
           IsCall([request |-> r, does |-> d, step |-> s, seen |-> t]),
           rows' \in Tables, file' \in Tables, loaded' \in BOOLEAN
    PROVE  Typed'
BY DEF Typed, To

\* A call that goes on stays a proper call.
LEMMA CallMoves ==
    ASSUME NEW call, IsCall(call), NEW t \in Tables, call.step # "idle",
           NEW s \in {"called", "merged", "refresh", "selected", "read", "install", "open", "dump", "done", "failed"}
    PROVE  IsCall([request |-> call.request, does |-> call.does, step |-> s, seen |-> t])
BY DEF IsCall

\* What a request makes of a table is a table.
LEMMA ChangedIsTable ==
    ASSUME NEW t \in Tables, NEW r \in Requests
    PROVE  Changed(t, r) \in Tables
BY WithIsTable, WithoutIsTable DEF Changed, Requests, Writes

\* What a call does to the cache of a JSONL table.
LEMMA ActChanges ==
    ASSUME Typed, NEW c \in DOMAIN calls, calls[c].step # "idle", NEW t \in Tables, Act(c, t)
    PROVE  /\ rows' = Changed(t, calls[c].request) /\ rows' \in Tables
           /\ \E s \in {"open", "done"} :
                /\ Becomes(c, s)
                /\ s = "done" => /\ calls[c].request.op = "delete" /\ rows' = t
                                 /\ Evaluated(t, calls[c].request.filter) = {}
<1>1. calls[c].request \in Requests
  BY DEF Typed, IsCall
<1>2. rows' = Changed(t, calls[c].request)
  BY DEF Act, Changed
<1>3. rows' \in Tables
  BY <1>1, <1>2, ChangedIsTable
<1>4. \E s \in {"open", "done"} :
        /\ Becomes(c, s)
        /\ s = "done" => /\ calls[c].request.op = "delete" /\ Evaluated(t, calls[c].request.filter) = {}
                         /\ rows' = Without(t, {})
  BY DEF Act
<1> QED BY <1>2, <1>3, <1>4, WithoutNothing

-----------------------------------------------------------------------------
(* The steps of a call, as its caller and the readers of the table see them  *)

\* A call on a JSONL table is the only one.
LEMMA AloneInJsonl ==
    ASSUME OneWriter, Typed, engine = "jsonl", NEW c \in DOMAIN calls, NEW d \in DOMAIN calls
    PROVE  c = d
BY DEF OneWriter, Typed

\* What a reader finds, in terms of one call's step.
LEMMA StoredNow ==
    ASSUME OneWriter, Typed, NEW c \in DOMAIN calls
    PROVE  Stored = IF engine = "jsonl" /\ (~loaded \/ calls[c].step = "open") THEN file ELSE rows
BY AloneInJsonl DEF Stored

\* What a reader finds after a call's step.
LEMMA StoredNext ==
    ASSUME OneWriter, Typed, NEW c \in DOMAIN calls, engine' = engine,
           NEW r, NEW d, NEW s, NEW t, To(c, r, d, s, t)
    PROVE  Stored' = IF engine = "jsonl" /\ (~loaded' \/ s = "open") THEN file' ELSE rows'
<1>1. DOMAIN calls' = DOMAIN calls /\ calls'[c].step = s
  BY DEF To
<1>2. engine = "jsonl" => \A b \in DOMAIN calls : b = c
  BY AloneInJsonl
<1> QED BY <1>1, <1>2 DEF Stored

\* The parts of what a caller is told.
LEMMA Asked ==
    ASSUME NEW c \in DOMAIN calls
    PROVE  /\ Answers[c].request = calls[c].request
           /\ Answers[c].status = Status(calls[c].step)
           /\ Answers[c].chosen = Chosen(calls[c].does, calls[c].step, calls[c].seen)
<1>1. Answers[c] = Answer(calls[c].request, Status(calls[c].step), Chosen(calls[c].does, calls[c].step, calls[c].seen))
  BY AnswerNow
<1> QED BY <1>1 DEF Answer

\* A step of Table for one of the clients is a step of Table.
LEMMA StepOf ==
    ASSUME Typed, NEW c \in DOMAIN calls,
           T!Ask(c) \/ T!Write(c) \/ T!Choose(c) \/ T!Delete(c) \/ T!Refuse(c) \/ T!Vanished(c) \/ T!Return(c)
    PROVE  T!Next
BY DEF Typed, T!Next

\* A step that writes the row of its request and answers is Table's Write.
LEMMA WriteStep ==
    ASSUME Typed, NEW c \in DOMAIN calls, T!Become(c, "asked", "done"), calls[c].request.op # "delete",
           engine = "jsonl" \/ calls[c].request.op # "create" \/ calls[c].request.key \notin DOMAIN Stored,
           Stored' = With(Stored, calls[c].request)
    PROVE  T!Next
<1>1. T!Write(c)
  BY Asked, AsInTable DEF T!Write, T!Exclusive
<1> QED BY <1>1, StepOf

\* A step that removes what matched at a moment, and answers, is Table's Delete.
LEMMA DeleteStep ==
    ASSUME Typed, NEW c \in DOMAIN calls, T!Become(c, "asked", "done"), calls[c].request.op = "delete",
           NEW S \in Chosen(calls[c].does, calls[c].step, calls[c].seen)
                        \cup {Evaluated(Stored, calls[c].request.filter)},
           Stored' = Without(Stored, S)
    PROVE  T!Next
<1>1. T!Delete(c)
  BY Asked, AsInTable DEF T!Delete
<1> QED BY <1>1, StepOf

\* A step that fails without changing the table is Table's Refuse.
LEMMA RefuseStep ==
    ASSUME Typed, NEW c \in DOMAIN calls, T!Become(c, "asked", "failed"), calls[c].request.op # "delete",
           calls[c].request.op = "create" => calls[c].request.key \in DOMAIN Stored, Stored' = Stored
    PROVE  T!Next
<1>1. T!Refuse(c)
  BY Asked DEF T!Refuse
<1> QED BY <1>1, StepOf

\* A step that reports the update of a row that is gone as failed is Table's Vanished.
LEMMA VanishedStep ==
    ASSUME Typed, NEW c \in DOMAIN calls, T!Become(c, "done", "failed"),
           calls[c].request.op \in {"update", "upsert"},
           calls[c].request.key \notin DOMAIN Stored, Stored' = Stored
    PROVE  T!Next
<1>1. T!Vanished(c)
  BY Asked DEF T!Vanished
<1> QED BY <1>1, StepOf

\* A call that is under way keeps its request.
LEMMA MoveTyped ==
    ASSUME Typed, NEW c \in DOMAIN calls, engine' = engine, calls[c].step # "idle", NEW t \in Tables,
           NEW s \in {"called", "merged", "refresh", "selected", "read", "install", "open", "dump", "done", "failed"},
           To(c, calls[c].request, calls[c].does, s, t),
           rows' \in Tables, file' \in Tables, loaded' \in BOOLEAN
    PROVE  Typed'
<1>1. IsCall(calls[c])
  BY DEF Typed
<1>2. IsCall([request |-> calls[c].request, does |-> calls[c].does, step |-> s, seen |-> t])
  BY <1>1, CallMoves
<1> QED BY <1>2, TypedMove

\* What the caller is told at each step.
LEMMA StatusOf ==
    /\ \A s \in {"idle", "done", "failed"} : Status(s) = s
    /\ \A s \in {"refresh", "dump"} : Status(s) = "done"
    /\ \A s \in {"called", "merged", "selected", "read", "install", "open"} : Status(s) = "asked"
BY DEF Status

-----------------------------------------------------------------------------
(* Each action: it keeps the invariant and is a step of Table                *)

Follows == IInv' /\ (T!Next \/ UNCHANGED T!vars)

\* A call is asked for.
LEMMA CallFollows ==
    ASSUME OneWriter, IInv, NEW c \in DOMAIN calls, Call(c)
    PROVE  Follows
<1> USE DEF IInv
<1>1. PICK request \in Requests : To(c, request, request.op, "called", Empty)
  BY DEF Call, To
<1>2. engine' = engine /\ rows' = rows /\ file' = file /\ loaded' = loaded /\ calls[c] = Idle
  BY DEF Call
<1>3. IsCall([request |-> request, does |-> request.op, step |-> "called", seen |-> Empty])
  BY TableFacts DEF IsCall, Requests
<1>4. Typed'
  BY <1>1, <1>2, <1>3, TypedMove DEF Typed
<1>5. Cached'
  BY <1>1, <1>2, AloneInJsonl DEF Cached, Ahead, To, Idle
<1>6. Stored' = Stored
  BY <1>1, <1>2, StoredNow, StoredNext DEF Idle
<1>7. Answers'[c] = Answer(request, "asked", {})
  <2>1. Answers'[c] = Answer(request, Status("called"), Chosen(request.op, "called", Empty))
    BY <1>1, <1>2, Moved
  <2> QED BY <2>1 DEF Status, Chosen
<1>8. Answers' = [Answers EXCEPT ![c] = Answer(request, "asked", {})]
  BY <1>1, <1>2, <1>7, OneAnswer
<1>9. Answers[c] = T!Idle
  BY <1>2, AnswerNow, AsInTable DEF Answer, Idle, Status, Chosen
<1>10. request \in T!Writes \cup T!Deletes
  BY AsInTable DEF Requests, Writes
<1>11. T!Ask(c)
  BY <1>2, <1>6, <1>8, <1>9, <1>10 DEF T!Ask, Answer
<1> QED BY <1>4, <1>5, <1>11, StepOf DEF Follows

\* An upsert looks for its row: nobody sees it.
LEMMA UpsertFollows ==
    ASSUME OneWriter, IInv, NEW c \in DOMAIN calls, Upsert(c)
    PROVE  Follows
<1> USE DEF IInv
<1> DEFINE d == IF calls[c].request.key \in DOMAIN rows THEN "update" ELSE "create"
<1>1. engine' = engine /\ rows' = rows /\ file' = file /\ loaded' = loaded /\ engine \in {"memory", "sql"}
      /\ calls[c].step = "called" /\ calls[c].does = "upsert"
  BY DEF Upsert, At, OnlyRows
<1>2. To(c, calls[c].request, d, calls[c].step, calls[c].seen)
  <2>1. calls[c] = [request |-> calls[c].request, does |-> calls[c].does, step |-> calls[c].step, seen |-> calls[c].seen]
    BY DEF Typed, IsCall
  <2>2. calls' = [calls EXCEPT ![c] = [calls[c] EXCEPT !.does = d]]
    BY DEF Upsert
  <2> HIDE DEF d
  <2>3. [calls[c] EXCEPT !.does = d] = [request |-> calls[c].request, does |-> d, step |-> calls[c].step, seen |-> calls[c].seen]
    BY <2>1
  <2> QED BY <2>2, <2>3 DEF To
<1>3. d \in {"update", "create"}
  OBVIOUS
<1> HIDE DEF d
<1>4. IsCall([request |-> calls[c].request, does |-> d, step |-> calls[c].step, seen |-> calls[c].seen])
  BY <1>1, <1>3 DEF Typed, IsCall
<1>5. Typed'
  BY <1>1, <1>2, <1>4, TypedMove DEF Typed
<1>6. Cached'
  BY <1>1 DEF Cached
<1>7. Stored' = Stored
  BY <1>1, <1>2, StoredNow, StoredNext
<1>8. Chosen(d, calls[c].step, calls[c].seen) = Chosen(calls[c].does, calls[c].step, calls[c].seen)
  BY <1>1, <1>3 DEF Chosen
<1>9. UNCHANGED T!vars
  BY <1>1, <1>2, <1>7, <1>8, Unseen
<1> QED BY <1>5, <1>6, <1>9 DEF Follows

\* A create, in memory or in a database, writes its row or is refused.
LEMMA CreateFollows ==
    ASSUME OneWriter, IInv, NEW c \in DOMAIN calls, MemoryCreate(c) \/ SqlCreate(c)
    PROVE  Follows
<1> USE DEF IInv
<1>1. engine' = engine /\ file' = file /\ loaded' = loaded /\ engine \in {"memory", "sql"}
      /\ calls[c].step = "called" /\ calls[c].does = "create"
  BY DEF MemoryCreate, SqlCreate, At, OnlyRows
<1>2. calls[c].request \in Writes /\ calls[c].request.op # "delete" /\ calls[c].seen \in Tables
  BY <1>1 DEF Typed, IsCall, Requests, Writes
<1>3. Cached'
  BY <1>1 DEF Cached
<1>4. Stored = rows /\ Stored' = rows'
  BY <1>1 DEF Stored
<1>5. \A s : Chosen(calls[c].does, s, calls[c].seen) = Chosen(calls[c].does, calls[c].step, calls[c].seen)
  BY <1>1 DEF Chosen
<1>6. CASE calls[c].request.key \notin DOMAIN rows /\ rows' = With(rows, calls[c].request) /\ Becomes(c, "done")
  <2>1. To(c, calls[c].request, calls[c].does, "done", calls[c].seen)
    BY <1>6, Becoming
  <2>2. Typed'
    BY <1>1, <1>2, <1>6, <2>1, MoveTyped, WithIsTable DEF Typed
  <2>3. T!Become(c, "asked", "done")
    BY <1>1, <1>5, <2>1, Told, StatusOf
  <2>4. T!Next
    BY <1>2, <1>4, <1>6, <2>3, WriteStep
  <2> QED BY <1>3, <2>2, <2>4 DEF Follows
<1>7. CASE calls[c].request.key \in DOMAIN rows /\ Becomes(c, "failed") /\ rows' = rows
  <2>1. To(c, calls[c].request, calls[c].does, "failed", calls[c].seen)
    BY <1>7, Becoming
  <2>2. Typed'
    BY <1>1, <1>2, <1>7, <2>1, MoveTyped DEF Typed
  <2>3. T!Become(c, "asked", "failed")
    BY <1>1, <1>5, <2>1, Told, StatusOf
  <2>4. T!Next
    BY <1>2, <1>4, <1>7, <2>3, RefuseStep
  <2> QED BY <1>3, <2>2, <2>4 DEF Follows
<1> QED BY <1>6, <1>7 DEF MemoryCreate, SqlCreate

\* An update in memory writes its row.
LEMMA MemoryUpdateFollows ==
    ASSUME OneWriter, IInv, NEW c \in DOMAIN calls, MemoryUpdate(c)
    PROVE  Follows
<1> USE DEF IInv
<1>1. engine' = engine /\ file' = file /\ loaded' = loaded /\ engine = "memory"
      /\ calls[c].step = "called" /\ calls[c].does = "update"
      /\ rows' = With(rows, calls[c].request) /\ Becomes(c, "done")
  BY DEF MemoryUpdate, At, OnlyRows
<1>2. calls[c].request \in Writes /\ calls[c].request.op \in {"update", "upsert"} /\ calls[c].seen \in Tables
  BY <1>1 DEF Typed, IsCall, Requests, Writes
<1>3. Cached'
  BY <1>1 DEF Cached
<1>4. Stored = rows /\ Stored' = rows'
  BY <1>1 DEF Stored
<1>5. \A s : Chosen(calls[c].does, s, calls[c].seen) = Chosen(calls[c].does, calls[c].step, calls[c].seen)
  BY <1>1 DEF Chosen
<1>6. To(c, calls[c].request, calls[c].does, "done", calls[c].seen)
  BY <1>1, Becoming
<1>7. Typed'
  BY <1>1, <1>2, <1>6, MoveTyped, WithIsTable DEF Typed
<1>8. T!Become(c, "asked", "done")
  BY <1>1, <1>5, <1>6, Told, StatusOf
<1>9. T!Next
  BY <1>1, <1>2, <1>4, <1>8, WriteStep
<1> QED BY <1>3, <1>7, <1>9 DEF Follows

\* A delete in memory removes what matches.
LEMMA MemoryDeleteFollows ==
    ASSUME OneWriter, IInv, NEW c \in DOMAIN calls, MemoryDelete(c)
    PROVE  Follows
<1> USE DEF IInv
<1>1. engine' = engine /\ file' = file /\ loaded' = loaded /\ engine = "memory"
      /\ calls[c].step = "called" /\ calls[c].does = "delete"
      /\ rows' = Without(rows, Evaluated(rows, calls[c].request.filter)) /\ Becomes(c, "done")
  BY DEF MemoryDelete, At, OnlyRows, Matching
<1>2. calls[c].request.op = "delete" /\ calls[c].seen \in Tables
  BY <1>1 DEF Typed, IsCall
<1>3. Cached'
  BY <1>1 DEF Cached
<1>4. Stored = rows /\ Stored' = rows'
  BY <1>1 DEF Stored
<1>5. \A s : Chosen(calls[c].does, s, calls[c].seen) = Chosen(calls[c].does, calls[c].step, calls[c].seen)
  BY <1>1 DEF Chosen
<1>6. To(c, calls[c].request, calls[c].does, "done", calls[c].seen)
  BY <1>1, Becoming
<1>7. Typed'
  BY <1>1, <1>2, <1>6, MoveTyped, WithoutIsTable DEF Typed
<1>8. T!Become(c, "asked", "done")
  BY <1>1, <1>5, <1>6, Told, StatusOf
<1>9. T!Next
  BY <1>1, <1>2, <1>4, <1>8, DeleteStep
<1> QED BY <1>3, <1>7, <1>9 DEF Follows

\* What the steps of the SQL engine have in common.
LEMMA SqlStep ==
    ASSUME OneWriter, IInv, NEW c \in DOMAIN calls, NEW step, NEW ops, At(c, "sql", step, ops), OnlyRows,
           step # "idle"
    PROVE  /\ engine' = engine /\ engine = "sql" /\ file' = file /\ loaded' = loaded
           /\ calls[c].step = step /\ calls[c].does \in ops
           /\ calls[c].request \in Requests /\ calls[c].seen \in Tables
           /\ Cached' /\ Stored = rows /\ Stored' = rows'
           /\ rows \in Tables /\ file \in Tables /\ loaded \in BOOLEAN
BY DEF At, OnlyRows, IInv, Typed, IsCall, Cached, Stored

\* An update changes the table at its commit, or not at all if the row is as asked.
LEMMA SqlMergeFollows ==
    ASSUME OneWriter, IInv, NEW c \in DOMAIN calls, SqlMerge(c)
    PROVE  Follows
<1> USE DEF IInv
<1> DEFINE r == calls[c].request
           same == r.key \in DOMAIN rows /\ rows[r.key] = r.value
           part == Restrict(rows, DOMAIN rows \cap {r.key})
<1>1. At(c, "sql", "called", {"update"}) /\ OnlyRows /\ rows' = rows
      /\ Sees(c, IF same THEN "refresh" ELSE "merged", part)
  BY DEF SqlMerge
<1>2. /\ engine' = engine /\ engine = "sql" /\ file' = file /\ loaded' = loaded
      /\ calls[c].step = "called" /\ calls[c].does = "update"
      /\ Cached' /\ Stored = rows /\ Stored' = rows'
      /\ rows \in Tables /\ file \in Tables /\ loaded \in BOOLEAN
  BY <1>1, SqlStep
<1>3. r.op \in {"update", "upsert"}
  BY <1>2 DEF Typed, IsCall
<1>4. part \in Tables
  BY <1>2, PartIsTable
<1>5. \A s, t : Chosen(calls[c].does, s, t) = Chosen(calls[c].does, calls[c].step, calls[c].seen)
  BY <1>2 DEF Chosen
<1>6. same => With(rows, r) = rows
  BY <1>2, WithWhatIsThere
<1> HIDE DEF same, part
<1>7. CASE same
  <2>1. To(c, calls[c].request, calls[c].does, "refresh", part)
    BY <1>1, <1>7, Seeing
  <2>2. Typed'
    BY <1>1, <1>2, <1>4, <2>1, MoveTyped
  <2>3. T!Become(c, "asked", "done")
    BY <1>2, <1>5, <2>1, Told, StatusOf
  <2>4. T!Next
    BY <1>1, <1>2, <1>3, <1>6, <1>7, <2>3, WriteStep
  <2> QED BY <1>2, <2>2, <2>4 DEF Follows
<1>8. CASE ~same
  <2>1. To(c, calls[c].request, calls[c].does, "merged", part)
    BY <1>1, <1>8, Seeing
  <2>2. Typed'
    BY <1>1, <1>2, <1>4, <2>1, MoveTyped
  <2>3. UNCHANGED T!vars
    BY <1>1, <1>2, <1>5, <2>1, Unseen, StatusOf
  <2> QED BY <1>2, <2>2, <2>3 DEF Follows
<1> QED BY <1>7, <1>8

\* The commit of an update writes its row, or is refused.
LEMMA SqlCommitFollows ==
    ASSUME OneWriter, IInv, NEW c \in DOMAIN calls, SqlCommit(c)
    PROVE  Follows
<1> USE DEF IInv
<1>1. At(c, "sql", "merged", {"update"}) /\ OnlyRows
  BY DEF SqlCommit
<1>2. /\ engine' = engine /\ engine = "sql" /\ file' = file /\ loaded' = loaded
      /\ calls[c].step = "merged" /\ calls[c].does = "update" /\ calls[c].seen \in Tables
      /\ Cached' /\ Stored = rows /\ Stored' = rows'
      /\ rows \in Tables /\ file \in Tables /\ loaded \in BOOLEAN
  BY <1>1, SqlStep
<1>3. calls[c].request.op \in {"update", "upsert"} /\ calls[c].request \in Writes
  BY <1>2 DEF Typed, IsCall, Requests, Writes
<1>4. \A s : Chosen(calls[c].does, s, calls[c].seen) = Chosen(calls[c].does, calls[c].step, calls[c].seen)
  BY <1>2 DEF Chosen
<1>5. CASE rows' = With(rows, calls[c].request) /\ Becomes(c, "refresh")
  <2>1. To(c, calls[c].request, calls[c].does, "refresh", calls[c].seen)
    BY <1>5, Becoming
  <2>2. Typed'
    BY <1>2, <1>3, <1>5, <2>1, MoveTyped, WithIsTable
  <2>3. T!Become(c, "asked", "done")
    BY <1>2, <1>4, <2>1, Told, StatusOf
  <2>4. T!Next
    BY <1>2, <1>3, <1>5, <2>3, WriteStep
  <2> QED BY <1>2, <2>2, <2>4 DEF Follows
<1>6. CASE Becomes(c, "failed") /\ rows' = rows
  <2>1. To(c, calls[c].request, calls[c].does, "failed", calls[c].seen)
    BY <1>6, Becoming
  <2>2. Typed'
    BY <1>2, <1>6, <2>1, MoveTyped
  <2>3. T!Become(c, "asked", "failed")
    BY <1>2, <1>4, <2>1, Told, StatusOf
  <2>4. T!Next
    BY <1>2, <1>3, <1>6, <2>3, RefuseStep
  <2> QED BY <1>2, <2>2, <2>4 DEF Follows
<1> QED BY <1>5, <1>6 DEF SqlCommit

\* The row of an update may be gone at the refresh: the caller is told that it failed.
LEMMA SqlRefreshFollows ==
    ASSUME OneWriter, IInv, NEW c \in DOMAIN calls, SqlRefresh(c)
    PROVE  Follows
<1> USE DEF IInv
<1>1. At(c, "sql", "refresh", {"update"}) /\ OnlyRows /\ rows' = rows
  BY DEF SqlRefresh
<1>2. /\ engine' = engine /\ engine = "sql" /\ file' = file /\ loaded' = loaded
      /\ calls[c].step = "refresh" /\ calls[c].does = "update" /\ calls[c].seen \in Tables
      /\ Cached' /\ Stored = rows /\ Stored' = rows'
      /\ rows \in Tables /\ file \in Tables /\ loaded \in BOOLEAN
  BY <1>1, SqlStep
<1>3. calls[c].request.op \in {"update", "upsert"}
  BY <1>2 DEF Typed, IsCall
<1>4. \A s : Chosen(calls[c].does, s, calls[c].seen) = Chosen(calls[c].does, calls[c].step, calls[c].seen)
  BY <1>2 DEF Chosen
<1>5. CASE calls[c].request.key \in DOMAIN rows
  <2>1. To(c, calls[c].request, calls[c].does, "done", calls[c].seen)
    BY <1>5, Becoming DEF SqlRefresh
  <2>2. Typed'
    BY <1>1, <1>2, <2>1, MoveTyped
  <2>3. UNCHANGED T!vars
    BY <1>1, <1>2, <1>4, <2>1, Unseen, StatusOf
  <2> QED BY <1>2, <2>2, <2>3 DEF Follows
<1>6. CASE calls[c].request.key \notin DOMAIN rows
  <2>1. To(c, calls[c].request, calls[c].does, "failed", calls[c].seen)
    BY <1>6, Becoming DEF SqlRefresh
  <2>2. Typed'
    BY <1>1, <1>2, <2>1, MoveTyped
  <2>3. T!Become(c, "done", "failed")
    BY <1>2, <1>4, <2>1, Told, StatusOf
  <2>4. T!Next
    BY <1>1, <1>2, <1>3, <1>6, <2>3, VanishedStep
  <2> QED BY <1>2, <2>2, <2>4 DEF Follows
<1> QED BY <1>5, <1>6

\* The rows that the select of a delete has found are those that match then.
LEMMA SqlSelectFollows ==
    ASSUME OneWriter, Agreed, IInv, NEW c \in DOMAIN calls, SqlSelect(c)
    PROVE  Follows
<1> USE DEF IInv
<1> DEFINE f == calls[c].request.filter
           part == Restrict(rows, Selected(rows, f))
<1>1. At(c, "sql", "called", {"delete"}) /\ OnlyRows /\ rows' = rows
  BY DEF SqlSelect
<1>2. /\ engine' = engine /\ engine = "sql" /\ file' = file /\ loaded' = loaded
      /\ calls[c].step = "called" /\ calls[c].does = "delete" /\ calls[c].request \in Requests
      /\ Cached' /\ Stored = rows /\ Stored' = rows'
      /\ rows \in Tables /\ file \in Tables /\ loaded \in BOOLEAN
  BY <1>1, SqlStep
<1>3. calls[c].request.op = "delete" /\ f \in DeleteFilters
  BY <1>2 DEF Typed, IsCall, Requests
<1>4. Selected(rows, f) = Evaluated(rows, f)
  BY <1>2, <1>3, SameSelection
<1>5. part \in Tables /\ DOMAIN part = Evaluated(rows, f)
  <2>1. Selected(rows, f) \subseteq DOMAIN rows
    BY DEF Selected
  <2> QED BY <1>2, <1>4, <2>1, PartIsTable
<1>6. Sees(c, "selected", part)
  BY <1>2 DEF SqlSelect, Matching
<1> HIDE DEF part
<1>7. To(c, calls[c].request, calls[c].does, "selected", part)
  BY <1>6, Seeing
<1>8. Typed'
  BY <1>1, <1>2, <1>5, <1>7, MoveTyped
<1>9. Answers'[c] = Answer(calls[c].request, "asked", {Evaluated(rows, f)})
  <2>1. Answers'[c] = Answer(calls[c].request, Status("selected"), Chosen("delete", "selected", part))
    BY <1>2, <1>7, Moved
  <2>2. Chosen("delete", "selected", part) = {Evaluated(rows, f)}
    BY <1>2, <1>5 DEF Chosen
  <2> QED BY <2>1, <2>2, StatusOf
<1>10. Answers[c] = Answer(calls[c].request, "asked", {})
  <2>1. Answers[c] = Answer(calls[c].request, Status("called"), Chosen("delete", "called", calls[c].seen))
    BY <1>2, AnswerNow
  <2> QED BY <2>1, StatusOf DEF Chosen
<1>11. Answers' = [Answers EXCEPT ![c].chosen = {Evaluated(rows, f)}]
  <2> DEFINE e == {Evaluated(rows, f)}
  <2> HIDE DEF e
  <2>1. [Answers[c] EXCEPT !.chosen = e] = Answer(calls[c].request, "asked", e)
    BY <1>10 DEF Answer
  <2>2. Answers' = [Answers EXCEPT ![c] = Answer(calls[c].request, "asked", e)]
    BY <1>2, <1>7, <1>9, OneAnswer DEF e
  <2>3. Answers' = [Answers EXCEPT ![c] = [Answers[c] EXCEPT !.chosen = e]]
    BY <2>1, <2>2
  <2> QED BY <2>3 DEF e
<1>12. T!Matching(Stored, f) = Evaluated(rows, f)
  BY <1>2, AsInTable
<1>13. Answers[c].status = "asked" /\ Answers[c].request = calls[c].request
  BY <1>10 DEF Answer
<1>14. T!Choose(c)
  BY <1>1, <1>2, <1>3, <1>11, <1>12, <1>13 DEF T!Choose
<1> QED BY <1>2, <1>8, <1>14, StepOf DEF Follows

\* The second statement of an SQL delete removes the rows that the first has found.
LEMMA SqlDeleteFollows ==
    ASSUME OneWriter, IInv, NEW c \in DOMAIN calls, SqlDelete(c)
    PROVE  Follows
<1> USE DEF IInv
<1>1. At(c, "sql", "selected", {"delete"}) /\ OnlyRows
      /\ rows' = Without(rows, DOMAIN calls[c].seen) /\ Becomes(c, "done")
  BY DEF SqlDelete
<1>2. /\ engine' = engine /\ engine = "sql" /\ file' = file /\ loaded' = loaded
      /\ calls[c].step = "selected" /\ calls[c].does = "delete" /\ calls[c].seen \in Tables
      /\ Cached' /\ Stored = rows /\ Stored' = rows'
      /\ rows \in Tables /\ file \in Tables /\ loaded \in BOOLEAN
  BY <1>1, SqlStep
<1>3. calls[c].request.op = "delete"
  BY <1>2 DEF Typed, IsCall
<1>4. Chosen(calls[c].does, calls[c].step, calls[c].seen) = {DOMAIN calls[c].seen}
      /\ Chosen(calls[c].does, "done", calls[c].seen) = {DOMAIN calls[c].seen}
  BY <1>2 DEF Chosen
<1>5. To(c, calls[c].request, calls[c].does, "done", calls[c].seen)
  BY <1>1, Becoming
<1>6. Typed'
  BY <1>1, <1>2, <1>5, MoveTyped, WithoutIsTable
<1>7. T!Become(c, "asked", "done")
  BY <1>2, <1>4, <1>5, Told, StatusOf
<1>8. T!Next
  BY <1>1, <1>2, <1>3, <1>4, <1>7, DeleteStep
<1> QED BY <1>2, <1>6, <1>8 DEF Follows

\* What the steps of the JSONL engine have in common: its client is alone.
LEMMA JsonlStep ==
    ASSUME OneWriter, IInv, NEW c \in DOMAIN calls, NEW step, At(c, "jsonl", step, AllOps), step # "idle"
    PROVE  /\ engine' = engine /\ engine = "jsonl"
           /\ calls[c].step = step
           /\ calls[c].request \in Requests /\ calls[c].seen \in Tables
           /\ rows \in Tables /\ file \in Tables /\ loaded \in BOOLEAN
           /\ Stored = IF ~loaded \/ step = "open" THEN file ELSE rows
           /\ \A s, t : Chosen(calls[c].does, s, t) = Chosen(calls[c].does, calls[c].step, calls[c].seen)
BY StoredNow DEF At, IInv, Typed, IsCall, Chosen

\* The invariant of the cache, after a step of the only client.
LEMMA CachedNext ==
    ASSUME OneWriter, IInv, NEW c \in DOMAIN calls, engine = "jsonl", engine' = engine,
           NEW s, NEW t, To(c, calls[c].request, calls[c].does, s, t),
           loaded' /\ s \notin {"open", "dump"} => file' = rows',
           s \in {"read", "install"} => ~loaded',
           s = "install" => t = file',
           s \in {"open", "dump"} => loaded',
           s = "open" => rows' = Changed(file', calls[c].request),
           s = "dump" => file' = Empty /\ t = rows'
    PROVE  Cached'
<1>1. DOMAIN calls' = DOMAIN calls /\ calls'[c].step = s /\ calls'[c].seen = t /\ calls'[c].request = calls[c].request
  BY DEF To
<1>2. \A b \in DOMAIN calls : b = c
  BY AloneInJsonl DEF IInv
<1>3. Changed(file, calls[c].request)' = Changed(file', calls[c].request)
  BY <1>1 DEF Changed, Evaluated
<1> QED BY <1>1, <1>2, <1>3 DEF Cached, Ahead

\* A call changes the cache of a loaded table: readers see it once it is saved.
LEMMA ActFollows ==
    ASSUME OneWriter, IInv, NEW c \in DOMAIN calls, NEW step \in {"called", "install"},
           At(c, "jsonl", step, AllOps), Stored = file, Act(c, file), loaded' = TRUE, file' = file
    PROVE  Follows
<1> USE DEF IInv
<1>1. /\ engine' = engine /\ engine = "jsonl" /\ calls[c].step = step
      /\ calls[c].request \in Requests /\ calls[c].seen \in Tables
      /\ rows \in Tables /\ file \in Tables
      /\ \A s, t : Chosen(calls[c].does, s, t) = Chosen(calls[c].does, calls[c].step, calls[c].seen)
  BY JsonlStep
<1>2. PICK s \in {"open", "done"} :
        /\ Becomes(c, s)
        /\ s = "done" => /\ calls[c].request.op = "delete" /\ rows' = file
                         /\ Evaluated(file, calls[c].request.filter) = {}
  BY <1>1, ActChanges
<1>3. rows' = Changed(file, calls[c].request) /\ rows' \in Tables
  BY <1>1, ActChanges
<1>4. To(c, calls[c].request, calls[c].does, s, calls[c].seen)
  BY <1>2, Becoming
<1>5. Typed'
  BY <1>1, <1>3, <1>4, MoveTyped
<1>6. Cached'
  BY <1>1, <1>2, <1>3, <1>4, CachedNext
<1>7. Stored' = file
  BY <1>1, <1>2, <1>4, StoredNext
<1>8. CASE s = "open"
  <2>1. UNCHANGED T!vars
    BY <1>1, <1>4, <1>7, <1>8, Unseen, StatusOf
  <2> QED BY <1>5, <1>6, <2>1 DEF Follows
<1>9. CASE s = "done"
  <2>1. T!Become(c, "asked", "done")
    BY <1>1, <1>4, <1>9, Told, StatusOf
  <2>2. Without(Stored, {}) = Stored /\ Evaluated(Stored, calls[c].request.filter) = {}
    BY <1>1, <1>2, <1>9, WithoutNothing
  <2>3. T!Next
    BY <1>2, <1>7, <1>9, <2>1, <2>2, DeleteStep
  <2> QED BY <1>5, <1>6, <2>3 DEF Follows
<1> QED BY <1>2, <1>8, <1>9

\* A JSONL call changes the cache of a loaded table: nobody sees it before it is saved.
LEMMA JsonlCallFollows ==
    ASSUME OneWriter, IInv, NEW c \in DOMAIN calls, JsonlCall(c) \/ JsonlInstall(c)
    PROVE  Follows
<1>1. CASE JsonlCall(c)
  <2>1. At(c, "jsonl", "called", AllOps) /\ loaded /\ Act(c, rows) /\ loaded' = loaded /\ file' = file
    BY <1>1 DEF JsonlCall
  <2>2. Stored = rows
    BY <2>1, JsonlStep
  <2>3. file = rows
    BY <2>1, JsonlStep, AloneInJsonl DEF IInv, Cached, Ahead
  <2> QED BY <2>1, <2>2, <2>3, ActFollows DEF IInv, Typed
<1>2. CASE JsonlInstall(c)
  <2>1. At(c, "jsonl", "install", AllOps) /\ Act(c, calls[c].seen) /\ loaded' = TRUE /\ file' = file
    BY <1>2 DEF JsonlInstall
  <2>2. engine = "jsonl" /\ calls[c].step = "install"
    BY <2>1 DEF At
  <2>3. calls[c].seen = file /\ ~loaded
    BY <2>2 DEF IInv, Cached
  <2>4. Stored = file
    BY <2>2, <2>3, StoredNow DEF IInv
  <2> QED BY <2>1, <2>3, <2>4, ActFollows
<1> QED BY <1>1, <1>2

\* The first use of a JSONL table loads it: nobody sees it.
LEMMA JsonlLoadFollows ==
    ASSUME OneWriter, IInv, NEW c \in DOMAIN calls, JsonlLoad(c)
    PROVE  Follows
<1> USE DEF IInv
<1>1. At(c, "jsonl", "called", AllOps) /\ ~loaded /\ file' = file
  BY DEF JsonlLoad
<1>2. /\ engine' = engine /\ engine = "jsonl" /\ calls[c].step = "called"
      /\ calls[c].seen \in Tables /\ rows \in Tables /\ file \in Tables /\ Stored = file
      /\ \A s, t : Chosen(calls[c].does, s, t) = Chosen(calls[c].does, calls[c].step, calls[c].seen)
  BY <1>1, JsonlStep
<1>3. CASE rows' = Empty /\ Becomes(c, "read") /\ loaded' = loaded
  <2>1. To(c, calls[c].request, calls[c].does, "read", calls[c].seen)
    BY <1>3, Becoming
  <2>2. Typed'
    BY <1>1, <1>2, <1>3, <2>1, MoveTyped, TableFacts DEF Typed
  <2>3. Cached'
    BY <1>1, <1>2, <1>3, <2>1, CachedNext
  <2>4. Stored' = file
    BY <1>1, <1>2, <1>3, <2>1, StoredNext
  <2>5. UNCHANGED T!vars
    BY <1>2, <2>1, <2>4, Unseen, StatusOf
  <2> QED BY <2>2, <2>3, <2>5 DEF Follows
<1>4. CASE file = Empty /\ loaded' = TRUE /\ Act(c, Empty)
  BY <1>1, <1>2, <1>4, ActFollows
<1> QED BY <1>3, <1>4 DEF JsonlLoad

\* A thread reads the file: nobody sees it.
LEMMA JsonlReadFollows ==
    ASSUME OneWriter, IInv, NEW c \in DOMAIN calls, JsonlRead(c)
    PROVE  Follows
<1> USE DEF IInv
<1>1. At(c, "jsonl", "read", AllOps) /\ Sees(c, "install", file) /\ rows' = rows /\ file' = file /\ loaded' = loaded
  BY DEF JsonlRead
<1>2. /\ engine' = engine /\ engine = "jsonl" /\ calls[c].step = "read"
      /\ rows \in Tables /\ file \in Tables
      /\ \A s, t : Chosen(calls[c].does, s, t) = Chosen(calls[c].does, calls[c].step, calls[c].seen)
  BY <1>1, JsonlStep
<1>3. ~loaded
  BY <1>2 DEF Cached
<1>4. To(c, calls[c].request, calls[c].does, "install", file)
  BY <1>1, Seeing
<1>5. Typed'
  BY <1>1, <1>2, <1>3, <1>4, MoveTyped DEF Typed
<1>6. Cached'
  BY <1>1, <1>2, <1>3, <1>4, CachedNext
<1>7. Stored' = Stored
  BY <1>1, <1>2, <1>3, <1>4, StoredNow, StoredNext
<1>8. UNCHANGED T!vars
  BY <1>2, <1>4, <1>7, Unseen, StatusOf
<1> QED BY <1>5, <1>6, <1>8 DEF Follows

\* From the moment the file is opened for writing, the cache is the table.
LEMMA JsonlOpenFollows ==
    ASSUME OneWriter, IInv, NEW c \in DOMAIN calls, JsonlOpen(c)
    PROVE  Follows
<1> USE DEF IInv
<1>1. At(c, "jsonl", "open", AllOps) /\ Sees(c, "dump", rows) /\ rows' = rows /\ file' = Empty /\ loaded' = loaded
  BY DEF JsonlOpen
<1>2. /\ engine' = engine /\ engine = "jsonl" /\ calls[c].step = "open"
      /\ rows \in Tables /\ file \in Tables /\ Stored = file
      /\ \A s, t : Chosen(calls[c].does, s, t) = Chosen(calls[c].does, calls[c].step, calls[c].seen)
  BY <1>1, JsonlStep
<1>3. loaded /\ rows = Changed(file, calls[c].request)
  BY <1>2 DEF Cached, Ahead
<1>4. To(c, calls[c].request, calls[c].does, "dump", rows)
  BY <1>1, Seeing
<1>5. Typed'
  BY <1>1, <1>2, <1>3, <1>4, MoveTyped, TableFacts
<1>6. Cached'
  BY <1>1, <1>2, <1>3, <1>4, CachedNext
<1>7. Stored' = Changed(Stored, calls[c].request)
  BY <1>1, <1>2, <1>3, <1>4, StoredNext
<1>8. T!Become(c, "asked", "done")
  BY <1>2, <1>4, Told, StatusOf
<1>9. T!Next
  <2>1. CASE calls[c].request.op = "delete"
    BY <1>7, <1>8, <2>1, DeleteStep DEF Changed
  <2>2. CASE calls[c].request.op # "delete"
    BY <1>2, <1>7, <1>8, <2>2, WriteStep DEF Changed
  <2> QED BY <2>1, <2>2
<1> QED BY <1>5, <1>6, <1>9 DEF Follows

\* The rows are written to the file, which then holds what the cache holds.
LEMMA JsonlDumpFollows ==
    ASSUME OneWriter, IInv, NEW c \in DOMAIN calls, JsonlDump(c)
    PROVE  Follows
<1> USE DEF IInv
<1>1. At(c, "jsonl", "dump", AllOps) /\ rows' = rows /\ loaded' = loaded
  BY DEF JsonlDump
<1>2. /\ engine' = engine /\ engine = "jsonl" /\ calls[c].step = "dump" /\ calls[c].seen \in Tables
      /\ rows \in Tables /\ file \in Tables /\ loaded \in BOOLEAN
      /\ \A s, t : Chosen(calls[c].does, s, t) = Chosen(calls[c].does, calls[c].step, calls[c].seen)
  BY <1>1, JsonlStep
<1>3. loaded /\ file = Empty /\ calls[c].seen = rows
  BY <1>2 DEF Cached, Ahead
<1>4. Becomes(c, "done") /\ \E rest \in SUBSET DOMAIN file : file' = Over(rows, Restrict(file, rest))
  BY <1>3 DEF JsonlDump
<1>5. file' = rows
  BY <1>2, <1>3, <1>4, OverNothing
<1>6. To(c, calls[c].request, calls[c].does, "done", calls[c].seen)
  BY <1>4, Becoming
<1>7. Typed'
  BY <1>1, <1>2, <1>5, <1>6, MoveTyped
<1>8. Cached'
  BY <1>1, <1>2, <1>3, <1>5, <1>6, CachedNext
<1>9. Stored' = Stored
  BY <1>1, <1>2, <1>3, <1>6, StoredNow, StoredNext
<1>10. UNCHANGED T!vars
  BY <1>2, <1>6, <1>9, Unseen, StatusOf
<1> QED BY <1>7, <1>8, <1>10 DEF Follows

\* A call returns.
LEMMA ReturnFollows ==
    ASSUME OneWriter, IInv, NEW c \in DOMAIN calls, Return(c)
    PROVE  Follows
<1> USE DEF IInv
<1>1. /\ engine' = engine /\ rows' = rows /\ file' = file /\ loaded' = loaded
      /\ calls[c].step \in {"done", "failed"}
  BY DEF Return
<1>2. To(c, NoRequest, "none", "idle", Empty)
  BY DEF Return, To, Idle
<1>3. IsCall([request |-> NoRequest, does |-> "none", step |-> "idle", seen |-> Empty])
  BY TableFacts DEF IsCall, Idle, NoRequest
<1>4. Typed'
  BY <1>1, <1>2, <1>3, TypedMove DEF Typed
<1>5. Cached'
  BY <1>1, <1>2, AloneInJsonl DEF Cached, Ahead, To
<1>6. Stored' = Stored
  BY <1>1, <1>2, StoredNow, StoredNext
<1>7. Answers'[c] = T!Idle
  <2>1. Answers'[c] = Answer(NoRequest, Status("idle"), Chosen("none", "idle", Empty))
    BY <1>1, <1>2, Moved
  <2> QED BY <2>1, StatusOf, AsInTable DEF Chosen, Answer
<1>8. Answers' = [Answers EXCEPT ![c] = T!Idle]
  BY <1>1, <1>2, <1>7, OneAnswer
<1>9. Answers[c].status \in {"done", "failed"}
  BY <1>1, Asked, StatusOf
<1>10. T!Return(c)
  BY <1>1, <1>6, <1>8, <1>9 DEF T!Return
<1> QED BY <1>4, <1>5, <1>10, StepOf DEF Follows

\* The next process finds what Table promises: the whole table in a database,
\* nothing in memory, and the JSONL file, of which an interrupted save leaves a part.
LEMMA CrashFollows ==
    ASSUME OneWriter, IInv, Crash
    PROVE  Follows
<1> USE DEF IInv
<1>1. engine' = engine /\ calls' = [c \in DOMAIN calls |-> Idle] /\ loaded' = FALSE
      /\ rows' = IF engine = "sql" THEN rows ELSE Empty
  BY DEF Crash
<1>2. DOMAIN calls = Clients[engine] /\ rows \in Tables /\ file \in Tables /\ loaded \in BOOLEAN
  BY DEF Typed
<1>3. file' = file \/ (Dumping /\ \E part \in SUBSET DOMAIN rows : file' = Restrict(rows, part))
  BY DEF Crash
<1>4. file' \in Tables /\ rows' \in Tables
  BY <1>1, <1>2, <1>3, PartIsTable, TableFacts
<1>5. IsCall(Idle)
  BY TableFacts DEF IsCall, Idle, NoRequest
<1>6. Typed'
  BY <1>1, <1>2, <1>4, <1>5 DEF Typed
<1>7. Cached'
  BY <1>1 DEF Cached, Ahead, Idle
<1>8. Answers' = [c \in Clients[engine] |-> T!Idle]
  BY <1>1, <1>2, AsInTable DEF Answers, Seen, Status, Idle, NoRequest
<1>9. Stored' = IF engine = "jsonl" THEN file' ELSE rows'
  BY <1>1 DEF Stored
<1>10. CASE engine = "memory"
  <2>1. T!Crash
    BY <1>1, <1>8, <1>9, <1>10 DEF T!Crash, Empty
  <2> QED BY <1>6, <1>7, <2>1 DEF Follows, T!Next
<1>11. CASE engine = "sql"
  <2>1. Stored = rows
    BY <1>11 DEF Stored
  <2>2. T!Crash
    BY <1>1, <1>8, <1>9, <1>11, <2>1 DEF T!Crash
  <2> QED BY <1>6, <1>7, <2>2 DEF Follows, T!Next
<1>12. CASE engine = "jsonl"
  <2>1. Stored' = Stored \/ (Stored' \in T!Parts(Stored) /\ \E c \in DOMAIN Answers : Answers[c] # T!Idle)
    <3>1. CASE Dumping
      <4>1. PICK c \in DOMAIN calls : calls[c].step = "dump"
        BY <3>1 DEF Dumping
      <4>2. loaded /\ file = Empty
        BY <1>12, <4>1 DEF Cached, Ahead
      <4>3. Stored = rows
        BY <1>12, <4>1, <4>2, StoredNow
      <4>4. Answers[c].status = "done"
        BY <4>1, Asked, StatusOf
      <4>5. Answers[c] # T!Idle /\ c \in DOMAIN Answers
        BY <4>4, AsInTable DEF Answers
      <4>6. Empty = Restrict(rows, {})
        BY <1>2, PartIsTable, NoRows
      <4>7. \E part \in SUBSET DOMAIN rows : file' = Restrict(rows, part)
        BY <1>3, <4>2, <4>6
      <4>8. file' \in T!Parts(rows)
        BY <4>7 DEF T!Parts, T!Restrict, Restrict
      <4> QED BY <1>9, <1>12, <4>3, <4>5, <4>8
    <3>2. CASE ~Dumping /\ loaded /\ ~\E c \in DOMAIN calls : calls[c].step = "open"
      <4>1. file = rows
        BY <1>12, <3>2 DEF Cached, Ahead, Dumping
      <4> QED BY <1>3, <1>9, <1>12, <3>2, <4>1 DEF Stored
    <3>3. CASE ~Dumping /\ (~loaded \/ \E c \in DOMAIN calls : calls[c].step = "open")
      BY <1>3, <1>9, <1>12, <3>3 DEF Stored
    <3> QED BY <3>1, <3>2, <3>3
  <2>2. T!Crash
    BY <1>1, <1>8, <1>12, <2>1 DEF T!Crash
  <2> QED BY <1>6, <1>7, <2>2 DEF Follows, T!Next
<1> QED BY <1>10, <1>11, <1>12, StorageAssumption DEF Typed

\* A query changes nothing.
LEMMA StutterFollows ==
    ASSUME OneWriter, IInv, UNCHANGED <<engine, rows, file, loaded, calls>>
    PROVE  Follows
<1>1. Typed'
  BY DEF IInv, Typed
<1>2. Cached'
  BY DEF IInv, Cached, Ahead, Changed, Evaluated
<1>3. Answers' = Answers
  BY DEF Answers, Seen
<1>4. Stored' = Stored
  BY DEF Stored
<1> QED BY <1>1, <1>2, <1>3, <1>4 DEF Follows, IInv, T!vars

\* Every step keeps the invariant and is a step of Table, or is not seen.
LEMMA NextFollows ==
    ASSUME OneWriter, Agreed, IInv, [Next]_vars
    PROVE  Follows
<1>1. CASE \E c \in DOMAIN calls :
          \/ Call(c) \/ Upsert(c) \/ Return(c)
          \/ MemoryCreate(c) \/ MemoryUpdate(c) \/ MemoryDelete(c)
          \/ SqlCreate(c) \/ SqlMerge(c) \/ SqlCommit(c) \/ SqlRefresh(c)
          \/ SqlSelect(c) \/ SqlDelete(c)
          \/ JsonlCall(c) \/ JsonlLoad(c) \/ JsonlRead(c) \/ JsonlInstall(c)
          \/ JsonlOpen(c) \/ JsonlDump(c)
  BY <1>1, CallFollows, UpsertFollows, ReturnFollows, CreateFollows, MemoryUpdateFollows, MemoryDeleteFollows,
     SqlMergeFollows, SqlCommitFollows, SqlRefreshFollows, SqlSelectFollows, SqlDeleteFollows,
     JsonlCallFollows, JsonlLoadFollows, JsonlReadFollows, JsonlOpenFollows, JsonlDumpFollows
<1>2. CASE Crash
  BY <1>2, CrashFollows
<1>3. CASE Query
  BY <1>3, StutterFollows DEF Query
<1>4. CASE UNCHANGED vars
  BY <1>4, StutterFollows DEF vars
<1> QED BY <1>1, <1>2, <1>3, <1>4 DEF Next

-----------------------------------------------------------------------------

\* An engine starts as a table does.
LEMMA InitRefines == Init => T!Init
<1> SUFFICES ASSUME Init PROVE T!Init
  OBVIOUS
<1>1. Stored \in Tables /\ engine \in DOMAIN Clients
  BY DEF Init, Stored
<1>2. Answers = [c \in Clients[engine] |-> T!Idle]
  BY AsInTable DEF Init, Answers, Seen, Status, Idle, NoRequest
<1> QED BY <1>1, <1>2 DEF T!Init, Tables

\* The cache and the file of a JSONL table agree but while its client saves,
\* and the calls keep to their steps (engine.py and its three engines).
THEOREM CacheIsKept ==
    ASSUME OneWriter, Agreed
    PROVE  Spec => []IInv
<1>1. IInv /\ [Next]_vars => IInv'
  BY NextFollows DEF Follows
<1> QED BY <1>1, IInvInit, PTL DEF Spec

\* Over any number of clients, calls and crashes, and for any rows, a call that
\* was answered has changed the table once, one that failed has not, and a delete
\* removes only what matched at one moment (session/orm/engine.py).
THEOREM Refinement ==
    ASSUME OneWriter, Agreed
    PROVE  Spec => Implements
<1>1. IInv /\ [Next]_vars => [T!Next]_T!vars
  BY NextFollows DEF Follows
<1> QED BY <1>1, CacheIsKept, InitRefines, PTL DEF Spec, Implements, T!Spec
=============================================================================
