-------------------------------- MODULE Table --------------------------------
(* What the callers of a storage engine rely on (session/orm/engine.py): one *)
(* table and the calls that change it.  A call changes the table in one step *)
(* between its start and its return; one that failed has changed nothing;    *)
(* one that was answered is kept over a crash; nothing else changes a row.   *)
(*                                                                           *)
(* The weaker promises of some engines are named: a JSONL table takes every  *)
(* create (Exclusive), a memory table does not outlive its process, and a    *)
(* JSONL file that is being written when the process dies keeps only a part. *)
EXTENDS Functions

CONSTANTS
    Clients,    \* the clients of each engine
    Keys, Values, DeleteFilters,
    Judges(_, _)    \* whether a filter selects a row

VARIABLES
    engine,     \* "memory", "jsonl" or "sql": what stores the table
    rows,       \* the table: a value for each key that has a row
    calls       \* the call of each client

vars == <<engine, rows, calls>>

Writes == [op : {"create", "update", "upsert"}, key : Keys, value : Values]
Deletes == [op : {"delete"}, filter : DeleteFilters]
NoRequest == [op |-> "none"]
Idle == [request |-> NoRequest, status |-> "idle", chosen |-> {}]

RowAt(table, k) == [key |-> k, a |-> table[k]]
Matching(table, f) == {k \in DOMAIN table : Judges(f, RowAt(table, k))}

With(table, request) ==
    [k \in DOMAIN table \cup {request.key} |-> IF k = request.key THEN request.value ELSE table[k]]
Without(table, keys) == Restrict(table, DOMAIN table \ keys)

Exclusive == engine # "jsonl"
Become(c, from, to) ==
    /\ calls[c].status = from
    /\ calls' = [calls EXCEPT ![c].status = to]
    /\ UNCHANGED engine

Init ==
    /\ engine \in DOMAIN Clients
    /\ rows \in UNION {[keys -> Values] : keys \in SUBSET Keys}
    /\ calls = [c \in Clients[engine] |-> Idle]

Ask(c) ==
    /\ calls[c] = Idle
    /\ \E request \in Writes \cup Deletes :
          calls' = [calls EXCEPT ![c] = [request |-> request, status |-> "asked", chosen |-> {}]]
    /\ UNCHANGED <<engine, rows>>

\* A create finds no row of its key, where the engine looks.
Write(c) ==
    /\ Become(c, "asked", "done")
    /\ calls[c].request.op # "delete"
    /\ calls[c].request.op = "create" /\ Exclusive => calls[c].request.key \notin DOMAIN rows
    /\ rows' = With(rows, calls[c].request)

\* A delete settles what it removes at one moment and removes it at another.
Choose(c) ==
    /\ calls[c].status = "asked"
    /\ calls[c].request.op = "delete"
    /\ calls' = [calls EXCEPT ![c].chosen = {Matching(rows, calls[c].request.filter)}]
    /\ UNCHANGED <<engine, rows>>

Delete(c) ==
    /\ Become(c, "asked", "done")
    /\ calls[c].request.op = "delete"
    /\ \E keys \in calls[c].chosen \cup {Matching(rows, calls[c].request.filter)} : rows' = Without(rows, keys)

\* A create is refused because of the row of its key, a delete never.
Refuse(c) ==
    /\ Become(c, "asked", "failed")
    /\ calls[c].request.op # "delete"
    /\ calls[c].request.op = "create" => calls[c].request.key \in DOMAIN rows
    /\ UNCHANGED rows

\* An update whose row another call has removed since may be told that it failed.
Vanished(c) ==
    /\ Become(c, "done", "failed")
    /\ calls[c].request.op \in {"update", "upsert"}
    /\ calls[c].request.key \notin DOMAIN rows
    /\ UNCHANGED rows

Return(c) ==
    /\ calls[c].status \in {"done", "failed"}
    /\ calls' = [calls EXCEPT ![c] = Idle]
    /\ UNCHANGED <<engine, rows>>

Parts(table) == {Restrict(table, keys) : keys \in SUBSET DOMAIN table}

Crash ==
    /\ calls' = [c \in Clients[engine] |-> Idle]
    /\ CASE engine = "memory" -> rows' = << >>
         [] engine = "sql"    -> UNCHANGED rows
         [] engine = "jsonl"  -> \/ UNCHANGED rows
                                 \/ /\ \E c \in DOMAIN calls : calls[c] # Idle
                                    /\ rows' \in Parts(rows)
    /\ UNCHANGED engine

Next ==
    \/ \E c \in Clients[engine] :
          \/ Ask(c) \/ Write(c) \/ Choose(c) \/ Delete(c)
          \/ Refuse(c) \/ Vanished(c) \/ Return(c)
    \/ Crash

Spec == Init /\ [][Next]_vars
=============================================================================
