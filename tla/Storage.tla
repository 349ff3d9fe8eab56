------------------------------- MODULE Storage -------------------------------
(* The storage engines (session/orm): one table, in the memory of the        *)
(* process, in a JSONL file behind a cache, or in an SQL database, and the   *)
(* steps of the calls of several clients.  A step of a call is what happens  *)
(* under the memory engine's lock, between two awaits or in one thread of    *)
(* the JSONL engine, and in one statement or commit of the SQL engine.       *)
EXTENDS SequencesExt, Functions

CONSTANTS
    Clients,        \* the clients of each engine
    Keys, Values,
    DeleteFilters, QueryFilters, Orders,
    Judges(_, _),   \* whether a filter selects a row, for the engines that judge in Python
    Selects(_, _),  \* what a filter is of a row in SQL: "true", "false" or "unknown"
    Precedes(_, _), \* the order of two values
    MaxCalls, MaxCrashes

ASSUME StorageAssumption == DOMAIN Clients \subseteq {"memory", "jsonl", "sql"}

VARIABLES
    engine,     \* "memory", "jsonl" or "sql"
    rows,       \* the memory's or the database's table, the JSONL engine's cache
    file,       \* what the JSONL file holds
    loaded,     \* the JSONL table is one of _loaded_tables
    calls,      \* the call of each client and its next step
    found,      \* the answer of a query
    asked, crashes

vars == <<engine, rows, file, loaded, calls, found, asked, crashes>>

Nothing == [keys |-> << >>]
Requests ==
    [op : {"create", "update", "upsert"}, key : Keys, value : Values]
        \cup [op : {"delete"}, filter : DeleteFilters]

NoRequest == [op |-> "none"]
Empty == << >>
Idle == [request |-> NoRequest, does |-> "none", step |-> "idle", seen |-> Empty]

Tables == UNION {[keys -> Values] : keys \in SUBSET Keys}

RowAt(table, k) == [key |-> k, a |-> table[k]]
Evaluated(table, f) == {k \in DOMAIN table : Judges(f, RowAt(table, k))}
Selected(table, f)  == {k \in DOMAIN table : Selects(f, RowAt(table, k)) = "true"}
Matching(f) == IF engine = "sql" THEN Selected(rows, f) ELSE Evaluated(rows, f)

With(table, request) ==
    [k \in DOMAIN table \cup {request.key} |-> IF k = request.key THEN request.value ELSE table[k]]
Over(above, below) ==
    [k \in DOMAIN above \cup DOMAIN below |-> IF k \in DOMAIN above THEN above[k] ELSE below[k]]
Without(table, keys) == Restrict(table, DOMAIN table \ keys)

Init ==
    /\ engine \in DOMAIN Clients
    /\ \E table \in Tables :
          /\ rows = IF engine = "jsonl" THEN Empty ELSE table
          /\ file = IF engine = "jsonl" THEN table ELSE Empty
    /\ loaded = FALSE
    /\ calls = [c \in Clients[engine] |-> Idle]
    /\ found = Nothing
    /\ asked = 0
    /\ crashes = 0

Call(c) ==
    /\ calls[c] = Idle
    /\ asked < MaxCalls
    /\ \E request \in Requests :
          calls' = [calls EXCEPT ![c] = [request |-> request, does |-> request.op, step |-> "called", seen |-> Empty]]
    /\ asked' = asked + 1
    /\ found' = Nothing
    /\ UNCHANGED <<engine, rows, file, loaded, crashes>>

\* A step of call c that the engine e takes.
At(c, e, step, ops) ==
    /\ engine = e
    /\ calls[c].step = step
    /\ calls[c].does \in ops
    /\ UNCHANGED <<engine, found, asked, crashes>>

Becomes(c, step) == calls' = [calls EXCEPT ![c].step = step]
Sees(c, step, table) == calls' = [calls EXCEPT ![c].step = step, ![c].seen = table]
OnlyRows == UNCHANGED <<file, loaded>>

\* upsert: find_first by the key, then the call for what it found.
Upsert(c) ==
    /\ \E e \in {"memory", "sql"} : At(c, e, "called", {"upsert"})
    /\ calls' = [calls EXCEPT ![c].does = IF calls[c].request.key \in DOMAIN rows THEN "update" ELSE "create"]
    /\ UNCHANGED rows
    /\ OnlyRows

-----------------------------------------------------------------------------
(* In memory: each call runs under the lock                                  *)

MemoryCreate(c) ==
    /\ At(c, "memory", "called", {"create"})
    /\ OnlyRows
    /\ \/ /\ calls[c].request.key \notin DOMAIN rows
          /\ rows' = With(rows, calls[c].request)
          /\ Becomes(c, "done")
       \/ /\ calls[c].request.key \in DOMAIN rows
          /\ Becomes(c, "failed")
          /\ UNCHANGED rows

MemoryUpdate(c) ==
    /\ At(c, "memory", "called", {"update"})
    /\ OnlyRows
    /\ rows' = With(rows, calls[c].request)
    /\ Becomes(c, "done")

MemoryDelete(c) ==
    /\ At(c, "memory", "called", {"delete"})
    /\ OnlyRows
    /\ rows' = Without(rows, Matching(calls[c].request.filter))
    /\ Becomes(c, "done")

-----------------------------------------------------------------------------
(* In a database: a session's statements, and its commit                     *)

SqlCreate(c) ==
    /\ At(c, "sql", "called", {"create"})
    /\ OnlyRows
    /\ \/ /\ calls[c].request.key \notin DOMAIN rows
          /\ rows' = With(rows, calls[c].request)
          /\ Becomes(c, "done")
       \/ /\ calls[c].request.key \in DOMAIN rows
          /\ Becomes(c, "failed")
          /\ UNCHANGED rows

\* merge: selects the row; one without differences is not written.
SqlMerge(c) ==
    /\ At(c, "sql", "called", {"update"})
    /\ OnlyRows
    /\ LET request == calls[c].request
           same == request.key \in DOMAIN rows /\ rows[request.key] = request.value
       IN Sees(c, IF same THEN "refresh" ELSE "merged", Restrict(rows, DOMAIN rows \cap {request.key}))
    /\ UNCHANGED rows

\* commit: UPDATE of the row that merge found, else INSERT.
SqlCommit(c) ==
    /\ At(c, "sql", "merged", {"update"})
    /\ OnlyRows
    /\ \/ /\ calls[c].seen # Empty <=> calls[c].request.key \in DOMAIN rows
          /\ rows' = With(rows, calls[c].request)
          /\ Becomes(c, "refresh")
       \/ /\ ~(calls[c].seen # Empty <=> calls[c].request.key \in DOMAIN rows)
          /\ Becomes(c, "failed")
          /\ UNCHANGED rows

SqlRefresh(c) ==
    /\ At(c, "sql", "refresh", {"update"})
    /\ OnlyRows
    /\ Becomes(c, IF calls[c].request.key \in DOMAIN rows THEN "done" ELSE "failed")
    /\ UNCHANGED rows

SqlSelect(c) ==
    /\ At(c, "sql", "called", {"delete"})
    /\ OnlyRows
    /\ Sees(c, "selected", Restrict(rows, Matching(calls[c].request.filter)))
    /\ UNCHANGED rows

\* The rows are deleted by their primary keys.
SqlDelete(c) ==
    /\ At(c, "sql", "selected", {"delete"})
    /\ OnlyRows
    /\ rows' = Without(rows, DOMAIN calls[c].seen)
    /\ Becomes(c, "done")

-----------------------------------------------------------------------------
(* In a JSONL file: the table is loaded at its first use, each change is     *)
(* made in the cache and the whole table is then written                     *)

AllOps == {"create", "update", "upsert", "delete"}

\* Seeded defect: a delete is not saved.
ActUnsaved(c, cache) ==
    IF calls[c].request.op = "delete"
    THEN /\ rows' = Without(cache, Evaluated(cache, calls[c].request.filter))
         /\ Becomes(c, "done")
    ELSE /\ rows' = With(cache, calls[c].request)
         /\ Becomes(c, "open")

\* The call's change of the cache, up to the thread that saves it.
Act(c, cache) ==
    IF calls[c].request.op = "delete"
    THEN LET gone == Evaluated(cache, calls[c].request.filter)
         IN /\ rows' = Without(cache, gone)
            /\ Becomes(c, IF gone = {} THEN "done" ELSE "open")
    ELSE /\ rows' = With(cache, calls[c].request)
         /\ Becomes(c, "open")

JsonlCall(c) ==
    /\ At(c, "jsonl", "called", AllOps)
    /\ loaded
    /\ Act(c, rows)
    /\ UNCHANGED <<file, loaded>>

\* The cache is emptied before a thread reads the file; a file that is not
\* there is not read.
JsonlLoad(c) ==
    /\ At(c, "jsonl", "called", AllOps)
    /\ ~loaded
    /\ UNCHANGED file
    /\ \/ /\ rows' = Empty
          /\ Becomes(c, "read")
          /\ UNCHANGED loaded
       \/ /\ file = Empty
          /\ loaded' = TRUE
          /\ Act(c, Empty)

JsonlRead(c) ==
    /\ At(c, "jsonl", "read", AllOps)
    /\ Sees(c, "install", file)
    /\ UNCHANGED <<rows, file, loaded>>

JsonlInstall(c) ==
    /\ At(c, "jsonl", "install", AllOps)
    /\ loaded' = TRUE
    /\ Act(c, calls[c].seen)
    /\ UNCHANGED file

\* open(..., "w") empties the file.
JsonlOpen(c) ==
    /\ At(c, "jsonl", "open", AllOps)
    /\ file' = Empty
    /\ Sees(c, "dump", rows)
    /\ UNCHANGED <<rows, loaded>>

\* The rows are written over what another save has put there; a cache whose
\* keys change meanwhile ends the loop over it with an error.
JsonlDump(c) ==
    /\ At(c, "jsonl", "dump", AllOps)
    /\ UNCHANGED <<rows, loaded>>
    /\ LET seen == DOMAIN calls[c].seen
       IN \/ /\ DOMAIN rows = seen
             /\ \E rest \in SUBSET DOMAIN file : file' = Over(rows, Restrict(file, rest))
             /\ Becomes(c, "done")
          \/ /\ DOMAIN rows # seen
             /\ \E part \in SUBSET (seen \cap DOMAIN rows), rest \in SUBSET DOMAIN file :
                   file' = Over(Restrict(rows, part), Restrict(file, rest))
             /\ Becomes(c, "failed")

-----------------------------------------------------------------------------

Return(c) ==
    /\ calls[c].step \in {"done", "failed"}
    /\ calls' = [calls EXCEPT ![c] = Idle]
    /\ UNCHANGED <<engine, rows, file, loaded, found, asked, crashes>>

Dumping == \E c \in DOMAIN calls : calls[c].step = "dump"

\* The process dies and another one starts: a file that was being written may
\* hold a part of the table.
Crash ==
    /\ crashes < MaxCrashes
    /\ crashes' = crashes + 1
    /\ calls' = [c \in DOMAIN calls |-> Idle]
    /\ loaded' = FALSE
    /\ rows' = IF engine = "sql" THEN rows ELSE Empty
    /\ \/ UNCHANGED file
       \/ /\ Dumping
          /\ \E part \in SUBSET DOMAIN rows : file' = Restrict(rows, part)
    /\ found' = Nothing
    /\ UNCHANGED <<engine, asked>>

\* find_many: JSONL sorts upwards whatever the order asks.
Before(table, k, l, down) ==
    LET x == table[k]
        y == table[l]
    IN IF ~Precedes(x, y) /\ ~Precedes(y, x) THEN Precedes(k, l)
       ELSE IF down THEN Precedes(y, x) ELSE Precedes(x, y)

Find(f, order) ==
    LET table == IF engine = "jsonl" /\ ~loaded THEN file ELSE rows
        keys == IF engine = "sql" THEN Selected(table, f) ELSE Evaluated(table, f)
        down == order = "down" /\ engine # "jsonl"
    IN [table |-> table, filter |-> f, order |-> order,
        keys |-> SetToSortSeq(keys, LAMBDA k, l : Before(table, k, l, down))]

\* Queries are asked of the tables that there are at the start.
Query ==
    /\ asked = 0 /\ crashes = 0 /\ found = Nothing
    /\ \E f \in QueryFilters, order \in Orders : found' = Find(f, order)
    /\ UNCHANGED <<engine, rows, file, loaded, calls, asked, crashes>>

Next ==
    \/ \E c \in DOMAIN calls :
          \/ Call(c) \/ Upsert(c) \/ Return(c)
          \/ MemoryCreate(c) \/ MemoryUpdate(c) \/ MemoryDelete(c)
          \/ SqlCreate(c) \/ SqlMerge(c) \/ SqlCommit(c) \/ SqlRefresh(c)
          \/ SqlSelect(c) \/ SqlDelete(c)
          \/ JsonlCall(c) \/ JsonlLoad(c) \/ JsonlRead(c) \/ JsonlInstall(c)
          \/ JsonlOpen(c) \/ JsonlDump(c)
    \/ Crash
    \/ Query

Spec == Init /\ [][Next]_vars

-----------------------------------------------------------------------------
(* Properties                                                                *)

\* What a reader of the engine, or the next process, finds: the JSONL file
\* counts until the table is loaded, and while the cache is ahead of it.
Stored ==
    IF engine = "jsonl" /\ (~loaded \/ \E c \in DOMAIN calls : calls[c].step = "open")
    THEN file ELSE rows

Status(step) ==
    CASE step \in {"idle", "done", "failed"} -> step
      [] step \in {"refresh", "dump"} -> "done"
      [] OTHER                        -> "asked"

Seen(c) ==
    [request |-> calls[c].request, status |-> Status(calls[c].step),
     chosen |-> IF calls[c].does = "delete" /\ engine = "sql" /\ calls[c].step # "called"
                THEN {DOMAIN calls[c].seen} ELSE {}]

Answers == [c \in DOMAIN calls |-> Seen(c)]

T == INSTANCE Table WITH rows <- Stored, calls <- Answers

\* Every engine does what its callers rely on (Table): a call that was answered
\* has changed the table once, and for good where the table is durable; one that
\* failed has not; a delete removes only what matched at one moment.
Implements == T!Spec

\* "Create a new record. Returns the created record" (engine.py:70): a row is
\* gone from a table in use only while a delete is under way.
RowsStay ==
    [][(loaded \/ engine # "jsonl") /\ (\A c \in DOMAIN calls : calls[c] # Idle => calls[c].request.op # "delete")
          => DOMAIN rows \subseteq DOMAIN rows']_vars

\* "Prefix with - for descending" (sql_engine.py, memory_engine.py: find_many).
InOrder ==
    found # Nothing =>
        \A i, j \in DOMAIN found.keys :
            i < j /\ found.order = "down"
                => ~Precedes(found.table[found.keys[i]], found.table[found.keys[j]])

\* "Create or update a record": an upsert is not refused (engine.py:99).
UpsertSucceeds == \A c \in DOMAIN calls : calls[c].step = "failed" => calls[c].request.op # "upsert"
=============================================================================
