----------------------------- MODULE RunActionLog -----------------------------
(***************************************************************************)
(* The event-sourced history of one agent: the writers of                  *)
(* AgentRunActionService and its reader, load_messages, which reconstructs *)
(* the conversation from the rows of the run-action table and is the       *)
(* refinement mapping.                                                     *)
(*                                                                         *)
(* A log is the sequence of an agent's rows in the order the queries use,  *)
(* (created_at_ns, action_id).  A row is [type, run, ns, messages,         *)
(* target]; `messages` is the payload of an APPEND or REPLACE and `target` *)
(* the undo_before_run_id of an UNDO.                                      *)
(***************************************************************************)
EXTENDS Integers, Messages, TLC

CONSTANTS
    Runs,        \* run ids; runs may interleave their actions
    Payloads,    \* message lists a run appends
    Summary,     \* the message a compaction puts in front of what it keeps
    Markers,     \* the run boundaries recorded: RUN_START, RUN_END
    PageSize,    \* rows fetched by one query (200 in the code)
    MaxActions,  \* bound on the rows
    MaxTies      \* bound on the rows that share their created_at_ns

PageSizeAssumption == PageSize \in Nat \ {0}

------------------------------------------------------------------------------
(* Reading *)

\* Later than every row.
Never(log) == IF log = <<>> THEN 1 ELSE Last(log).ns + 1

\* _first_action_ns_of_run: Never for a run without rows, which makes the UNDO
\* of an unknown run a no-op.
FirstNs(log, run) ==
    LET rows == SelectSeq(log, LAMBDA a : a.run = run)
    IN  IF rows = <<>> THEN Never(log) ELSE rows[1].ns

\* Where the pages of the descending scan begin: behind the cursor, which is the
\* timestamp of the page before's last row, strictly.
PageStarts(desc) ==
    LET start[p \in 1..Len(desc) + 1] ==
            IF p = 1 THEN 1
            ELSE LET end == start[p - 1] + PageSize - 1
                     older == {i \in end + 1..Len(desc) : desc[i].ns < desc[end].ns}
                 IN  IF older = {} THEN Len(desc) + 1 ELSE Min(older)
    IN  {start[p] : p \in 1..Len(desc) + 1}

\* The rows the paginated queries return, newest first.
Scanned(log) ==
    LET desc == Listed(Reverse(log))
        starts == PageStarts(desc)
    IN  Filter(desc, LAMBDA i : \E s \in starts : i \in s..s + PageSize - 1)

\* Seeded defect: an UNDO counts although a later UNDO undid it.
CutoffOfEvery(log, rows) ==
    LET cutoff[i \in 0..Len(rows)] ==
            IF i = 0 THEN Never(log)
            ELSE IF rows[i].type # "UNDO" THEN cutoff[i - 1]
            ELSE Min({cutoff[i - 1], FirstNs(log, rows[i].target)})
    IN  Listed([i \in DOMAIN rows |-> cutoff[i - 1]])

\* The cutoff in force at each row: an UNDO that is not itself undone lowers it
\* to the first action of its target.
CutoffAt(log, rows) ==
    LET cutoff[i \in 0..Len(rows)] ==
            IF i = 0 THEN Never(log)
            ELSE LET before == cutoff[i - 1]
                     undoes == rows[i].type = "UNDO" /\ rows[i].ns < before
                 IN  IF undoes THEN Min({before, FirstNs(log, rows[i].target)}) ELSE before
    IN  Listed([i \in DOMAIN rows |-> cutoff[i - 1]])

\* The conversation before the read-side repairs: the newest REPLACE that is not
\* undone stops the scan and is the base for the APPENDs found before it.
Reconstruct(log) ==
    LET rows == Scanned(log)
        cutoff == CutoffAt(log, rows)
        Live(i) == rows[i].ns < cutoff[i]
        anchors == {i \in DOMAIN rows : rows[i].type = "REPLACE" /\ Live(i)}
        anchor == IF anchors = {} THEN Len(rows) + 1 ELSE Min(anchors)
        appends == Filter(rows, LAMBDA i : i < anchor /\ rows[i].type = "APPEND" /\ Live(i))
        payloads == [n \in DOMAIN appends |-> appends[Len(appends) + 1 - n].messages]
    IN  ApplyMessages(IF anchors = {} THEN <<>> ELSE rows[anchor].messages, FlattenSeq(payloads))

LoadMessages(log) == EnsurePaired(WithoutThinking(Reconstruct(log)))

------------------------------------------------------------------------------
(* Writing *)

VARIABLES
    log,    \* the rows, oldest first
    read,   \* history: what was reconstructed from the log after each row
    ties    \* rows stamped like the row before them

vars == <<log, read, ties>>

\* Rows carry increasing stamps (AgentRunActionModel.created_at_ns), except for
\* the ties allowed, and each write has been read back.
TypeOK ==
    /\ \A i \in DOMAIN log : log[i].run \in Runs /\ log[i].ns \in 1..MaxActions
    /\ \A i, j \in DOMAIN log : i < j => log[i].ns <= log[j].ns
    /\ ties \in 0..MaxTies
    /\ ties = Cardinality({i \in DOMAIN log : i > 1 /\ log[i].ns = log[i - 1].ns})
    /\ Len(read) = Len(log)

Init == log = <<>> /\ read = <<>> /\ ties = 0

Row(type, run, messages, target) ==
    [type |-> type, run |-> run, ns |-> Never(log), messages |-> messages, target |-> target]

\* The model's factories.
AppendRow(run, ms) == Row("APPEND", run, ms, run)
ReplaceRow(run, ms) == Row("REPLACE", run, ms, run)
UndoRow(run, target) == Row("UNDO", run, <<>>, target)
MarkerRow(type, run) == Row(type, run, <<>>, run)

\* engine.create: the row lands behind all others, or next to rows stamped
\* with the same nanosecond, where the random action_id decides.
Create(a) ==
    /\ Len(log) < MaxActions
    /\ \/ log' = Append(log, a) /\ UNCHANGED ties
       \/ /\ ties < MaxTies /\ log # <<>>
          /\ ties' = ties + 1
          /\ \E i \in 1..Len(log) + 1 :
                /\ \A j \in i..Len(log) : log[j].ns = Last(log).ns
                /\ log' = InsertAt(log, i, [a EXCEPT !.ns = Last(log).ns])
    /\ read' = Append(read, Reconstruct(log'))

\* What an executor can append now: a tool result only behind its call.
Appendable(ms) == AnswersOf(ms) \subseteq CallsOf(ms) \cup CallsOf(LoadMessages(log))

\* persist_append: drops reasoning-only messages and raises when nothing is
\* left.  A retry with a known idempotency key leaves the log alone: a stutter.
PersistAppend(run, ms) ==
    /\ Appendable(ms)
    /\ WithoutThinking(ms) # <<>>
    /\ Create(AppendRow(run, WithoutThinking(ms)))

\* What a compaction writes: a summary and a tail that does not begin with the
\* result of a call it cut off.
Compactions ==
    LET now == LoadMessages(log)
    IN  {<<Summary>> \o SubSeq(now, i, Len(now)) :
            i \in {j \in 2..Len(now) + 1 : AnswersOf(SubSeq(now, j, Len(now))) \subseteq CallsOf(SubSeq(now, j, Len(now)))}}

\* persist_replace.
PersistReplace(run) == \E ms \in Compactions : Create(ReplaceRow(run, ms))

\* persist_undo: no check on the target.
PersistUndo(run, target) == Create(UndoRow(run, target))

\* persist_run_start and persist_run_end: their idempotency key allows one row
\* of each per run.
PersistMarker(run, type) ==
    /\ \A i \in DOMAIN log : ~(log[i].run = run /\ log[i].type = type)
    /\ Create(MarkerRow(type, run))

Next ==
    \E run \in Runs :
        \/ \E ms \in Payloads : PersistAppend(run, ms)
        \/ PersistReplace(run)
        \/ \E target \in Runs : PersistUndo(run, target)
        \/ \E type \in Markers : PersistMarker(run, type)

Spec == Init /\ [][Next]_vars

------------------------------------------------------------------------------
(* Properties *)

\* The refinement mapping: what the reader returned last is the conversation,
\* and what it returned before a run's first row is that run's snapshot.
Acted == {log[i].run : i \in DOMAIN log}
FirstIndex(run) == Min({i \in DOMAIN log : log[i].run = run})
Before(i) == IF i = 1 THEN <<>> ELSE read[i - 1]

Reduction == INSTANCE Conversation WITH
    last <- IF log = <<>> THEN <<>> ELSE Last(log),
    conv <- Before(Len(log) + 1),
    snapshot <- [run \in Acted |-> Before(FirstIndex(run))]

\* The backward, paginated scan with its cutoff and its early stop computes the
\* forward reduction of the RFC: the reader returns after every write what the
\* written action makes of the conversation it returned before.
ReducesForward == Reduction!Spec

\* What a provider accepts: every tool call is answered behind the message
\* that makes it, whatever a crash, an UNDO or a compaction left in the log; no
\* message appears twice, and none is reasoning alone.
ProviderSafe ==
    LET ms == LoadMessages(log)
    IN  /\ \A i \in DOMAIN ms : \A c \in ms[i].calls : \E j \in i + 1..Len(ms) : c \in ms[j].answers
        /\ \A i, j \in DOMAIN ms : ms[i].id = ms[j].id => i = j
        /\ \A i \in DOMAIN ms : ~ms[i].thinking

\* Rows stamped with the same nanosecond are all read ("the composite key
\* already covers collisions", docs/rfcs/0022, sort key).
TiedRowsScanned == Scanned(log) = Reverse(log)
=============================================================================
