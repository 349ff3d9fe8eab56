--------------------------- MODULE HistoryArchive ---------------------------
(***************************************************************************)
(* The archive of a compacted conversation: what a compaction removes from *)
(* the context goes, message by message, to transcript.jsonl in the        *)
(* sandbox, each round closed by a boundary line, and the context that is  *)
(* left carries a hint that says how much is there.  There is no append in *)
(* the sandbox's interface: a round reads the file and writes it anew.     *)
(*                                                                         *)
(* Code: context_compaction/history_archive.py (HistoryArchiveWriter) and  *)
(* its caller ContextCompactionMiddleware._maybe_archive_compaction.       *)
(***************************************************************************)
EXTENDS Naturals, Sequences, FiniteSets, SequencesExt, FiniteSetsExt

CONSTANTS
    Shapes,       \* what a strategy leaves: "merge", "insert" or "drop" (see Compacted)
    Mishaps,      \* what may go wrong in a round (see Archive) or around it
    MaxMessages,  \* bound: messages of the conversation
    MaxRounds,    \* bound: compactions
    MaxMishaps    \* bound: mishaps

ArchiveAssumption ==
    /\ Shapes \subseteq {"merge", "insert", "drop"}
    /\ Mishaps \subseteq {"setup", "scan", "decode", "image", "read", "write",
                          "before", "torn", "after", "restart", "recreate"}
    /\ MaxMessages \in Nat /\ MaxRounds \in Nat /\ MaxMishaps \in Nat

VARIABLES
    history,     \* the agent's context: messages, oldest first
    box,         \* the sandbox in use: its number
    transcript,  \* sandbox -> lines of its transcript.jsonl
    images,      \* sandbox -> ids of the messages whose image is a file of its own
    writer,      \* the middleware's HistoryArchiveWriter, or NoWriter
    told,        \* ids of the messages the hints have called archived (history variable)
    lost,        \* those of them that a mishap has cost (history variable)
    suffered,    \* the mishaps so far (history variable)
    created, rounds, mishaps

recorded == <<told, lost, suffered>>
archiveVars == <<history, box, transcript, images, writer, recorded, created, rounds, mishaps>>

NoWriter == [box |-> 0, next |-> 0, total |-> 0]
Hint(total, latest) == [total |-> total, rounds |-> latest]
NoHint == Hint(0, 0)
Boxes == 1..(MaxMishaps + 1)

Message(id, image, summary, hint) == [id |-> id, image |-> image, summary |-> summary, hint |-> hint]

Init ==
    /\ history = <<>> /\ box = 1
    /\ transcript = [b \in Boxes |-> <<>>] /\ images = [b \in Boxes |-> {}]
    /\ writer = NoWriter /\ told = {} /\ lost = {} /\ suffered = {}
    /\ created = 0 /\ rounds = 0 /\ mishaps = 0

-----------------------------------------------------------------------------
(* The transcript *)

Boundary(round, count) == [kind |-> "boundary", round |-> round, count |-> count]
IsBoundary(line) == line.kind = "boundary"
Boundaries(lines) == SelectSeq(lines, IsBoundary)

\* Seeded defect: a new writer does not look at the file.
ScanNothing(lines) == [next |-> 1, total |-> 0]

\* _scan_transcript: the round to come and the messages archived so far.
Scan(lines) ==
    LET found == {Boundaries(lines)[i] : i \in DOMAIN Boundaries(lines)}
    IN  [next |-> Max({0} \cup {b.round : b \in found}) + 1,
         total |-> FoldSeq(LAMBDA b, sum : sum + b.count, 0, Boundaries(lines))]

\* _externalize_images and the lines of a round: an image goes to a file of its own and the
\* line refers to it; what does not decode stays in the line.  write_file answers with a
\* status nobody reads, so a failed write leaves a reference to nothing.
Line(m, mishap) ==
    [kind |-> "message", id |-> m.id,
     image |-> IF ~m.image THEN "none" ELSE IF mishap = "decode" THEN "inline" ELSE "file"]

RoundLines(removed, round, mishap) ==
    Append([i \in DOMAIN removed |-> Line(removed[i], mishap)],
           Boundary(round, Len(removed)))

Externalized(removed, mishap) ==
    IF mishap \in {"decode", "image"} THEN {}
    ELSE {m.id : m \in {removed[i] : i \in {j \in DOMAIN removed : removed[j].image}}}

-----------------------------------------------------------------------------
(* The hint *)

\* Seeded defect: the hint of an earlier round stays.
WithOldHints(messages) == messages

\* _remove_existing_archive_hints: only summaries and the framework's messages are searched;
\* a framework message that was nothing but a hint (its id is 0 here) goes with it.
WithoutHints(messages) ==
    LET kept == SelectSeq(messages, LAMBDA m : m.id # 0)
    IN  [i \in DOMAIN kept |-> IF kept[i].summary THEN [kept[i] EXCEPT !.hint = NoHint] ELSE kept[i]]

\* _inject_archive_hint: at the end of the first summary, or as a message of its own.
Hinted(messages, hint) ==
    LET clean == WithoutHints(messages)
        summaries == {i \in DOMAIN clean : clean[i].summary}
    IN  IF summaries = {} THEN Append(clean, Message(0, FALSE, FALSE, hint))
        ELSE [clean EXCEPT ![Min(summaries)].hint = hint]

-----------------------------------------------------------------------------
(* A compaction *)

\* What the strategies leave of a context from its message n on: the summary is merged into
\* the first message kept (which keeps its id and loses its image), or stands before it, or
\* there is none (a strategy of one's own).
Compacted(shape, n) ==
    LET kept == SubSeq(history, n, Len(history))
    IN  CASE shape = "merge"  -> [kept EXCEPT ![1] = Message(@.id, FALSE, TRUE, NoHint)]
          [] shape = "insert" -> <<Message(created + 1, FALSE, TRUE, NoHint)>> \o kept
          [] OTHER            -> kept

Ids(messages) == {messages[i].id : i \in DOMAIN messages}

\* from_sandbox: the writer of this middleware, made on first use and kept.
Writer(mishap) ==
    IF writer # NoWriter THEN writer
    ELSE LET found == IF mishap = "scan" THEN [next |-> 1, total |-> 0] ELSE Scan(transcript[box])
         IN  [box |-> box, next |-> found.next, total |-> found.total]

\* The file as a write of `content` leaves it: whole, not at all when the write fails (or its
\* sandbox is gone), or cut anywhere when the process dies while writing.
Written(old, content, mishap, alive) ==
    CASE ~alive \/ mishap \in {"write", "before"} -> {old}
      [] mishap = "torn" -> {SubSeq(content, 1, n) : n \in 0..(Len(content) - 1)}
      [] OTHER -> {content}

\* What a round costs of the archive: a failed read everything before it, and so may a write
\* that is cut short; a failed write, or one into a sandbox that is gone, the round itself.
Cost(mishap, alive, removed) ==
    (IF alive /\ mishap \in {"read", "torn"} THEN told ELSE {})
    \cup (IF mishap = "write" \/ ~alive THEN Ids(removed) ELSE {})

\* _maybe_archive_compaction with write_round.  A failed read counts as an empty file; the
\* writer counts the round whatever write_file answers.  With "before", "torn" and "after" the
\* process dies before, in or after the write: the context it leaves on disk is the old one.
Archive(before, after, mishap) ==
    LET removed == SelectSeq(before, LAMBDA m : m.id \notin Ids(after))
        w == Writer(mishap)
        alive == w.box = box
        existing == IF mishap = "read" \/ ~alive THEN <<>> ELSE transcript[w.box]
        next == [w EXCEPT !.next = @ + 1, !.total = @ + Len(removed)]
    IN  IF (mishap = "setup" /\ writer = NoWriter) \/ removed = <<>>
        THEN /\ history' = after
             /\ writer' = (IF mishap = "setup" THEN writer ELSE w)
             /\ UNCHANGED <<transcript, images, told, lost>>
        ELSE /\ \E lines \in Written(transcript[w.box], existing \o RoundLines(removed, w.next, mishap),
                                     mishap, alive) :
                    transcript' = [transcript EXCEPT ![w.box] = lines]
             /\ images' = [images EXCEPT ![w.box] = @ \cup (IF alive THEN Externalized(removed, mishap) ELSE {})]
             /\ IF mishap \in {"before", "torn", "after"}
                THEN writer' = NoWriter /\ UNCHANGED <<history, told>>
                ELSE /\ writer' = next
                     /\ history' = Hinted(after, Hint(next.total, next.next - 1))
                     /\ told' = told \cup Ids(removed)
             /\ lost' = lost \cup Cost(mishap, alive, removed)

\* A compaction of the context: everything before its message n is summarised away.
Compact ==
    /\ rounds < MaxRounds /\ rounds' = rounds + 1
    /\ \E shape \in Shapes, n \in 2..Len(history) :
        \E mishap \in (IF mishaps < MaxMishaps THEN Mishaps \ {"restart", "recreate"} ELSE {}) \cup {"none"} :
            /\ mishaps' = mishaps + (IF mishap = "none" THEN 0 ELSE 1)
            /\ suffered' = suffered \cup ({mishap} \ {"none"})
            /\ Archive(history, Compacted(shape, n), mishap)
            /\ created' = created + (IF shape = "insert" THEN 1 ELSE 0)
    /\ UNCHANGED box

-----------------------------------------------------------------------------
(* Around it *)

\* A message of the conversation, with an image or without.
Say ==
    /\ created < MaxMessages /\ created' = created + 1
    /\ \E image \in BOOLEAN : history' = Append(history, Message(created + 1, image, FALSE, NoHint))
    /\ UNCHANGED <<box, transcript, images, writer, recorded, rounds, mishaps>>

Mishap(kind) ==
    /\ kind \in Mishaps /\ mishaps < MaxMishaps /\ mishaps' = mishaps + 1
    /\ suffered' = suffered \cup {kind}

\* The agent is built anew from its persisted history.
Restart ==
    /\ Mishap("restart") /\ writer' = NoWriter
    /\ UNCHANGED <<history, box, transcript, images, told, lost, created, rounds>>

\* The sandbox is lost and another one made; the writer keeps the old one.
Recreate ==
    /\ Mishap("recreate") /\ box' = box + 1 /\ lost' = told
    /\ UNCHANGED <<history, transcript, images, writer, told, created, rounds>>

Next == Compact \/ Say \/ Restart \/ Recreate

Spec == Init /\ [][Next]_archiveVars

-----------------------------------------------------------------------------
(* Properties *)

TypeOK ==
    /\ box \in Boxes
    /\ \A b \in Boxes : \A i \in DOMAIN transcript[b] :
          transcript[b][i].kind \in {"message", "boundary"}
    /\ writer.box \in {0} \cup Boxes /\ told \subseteq 0..(MaxMessages + MaxRounds)

\* Lines of a transcript up to the boundary of round r.
UpTo(lines, r) ==
    LET ends == {i \in DOMAIN lines : IsBoundary(lines[i]) /\ lines[i].round = r}
    IN  IF ends = {} THEN <<>> ELSE SubSeq(lines, 1, Min(ends))

\* The messages of these ids are in the transcript of the sandbox in use, and with an image, in
\* the line or in a file that exists; an image whose write failed is missing.
There(ids) ==
    \A id \in ids : \E i \in DOMAIN transcript[box] :
        LET line == transcript[box][i]
        IN  /\ line.kind = "message" /\ line.id = id
            /\ line.image = "file" => id \in images[box] \/ "image" \in suffered

\* A message that a hint has called archived is there, unless a failed read or write, a write
\* cut short or a lost sandbox has cost it: no more than that is ever missing.
ArchivedIsThere == There(told \ lost)

\* Rounds are numbered 1, 2, 3, ... and each boundary counts the messages since the one before.
Numbered(lines) ==
    LET at(r) == Len(UpTo(lines, r))
    IN  \A r \in 1..Len(Boundaries(lines)) :
            /\ Boundaries(lines)[r].round = r
            /\ Boundaries(lines)[r].count = at(r) - (IF r = 1 THEN 0 ELSE at(r - 1)) - 1

\* So it is over crashes and restarts, unless a scan, a read or a write has failed.
RoundsInOrder == suffered \cap {"scan", "read", "write", "torn"} = {} => Numbered(transcript[box])

Hinting == {i \in DOMAIN history : history[i].hint # NoHint}

\* A hint tells what the transcript held when its round was written.
TellsTrue(hint) ==
    LET lines == UpTo(transcript[box], hint.rounds)
    IN  lines # <<>> /\ hint.total = Len(lines) - Len(Boundaries(lines))

\* The context holds one hint at most, whatever has failed, and it is true unless a scan, a read
\* or a write has failed or the sandbox was lost.
HintIsTrue ==
    /\ Cardinality(Hinting) <= 1
    /\ suffered \cap {"scan", "read", "write", "torn", "recreate"} = {} =>
          \A i \in Hinting : TellsTrue(history[i].hint)

\* What an agent is told of its archive is there: no message called archived is missing but for
\* what a named mishap costs, and where none has struck, the rounds are numbered and counted and
\* the hint is the latest and true (history_archive.write_round, _scan_transcript,
\* _inject_archive_hint).
ArchiveIsTrue == ArchivedIsThere /\ RoundsInOrder /\ HintIsTrue

\* What RFC-0021 says without any exception: what was removed can be read back, and rounds are
\* numbered on.  The code does not keep it where a read, a scan or a write fails.
ToldIsThere == There(told)
RoundsGoOn == Numbered(transcript[box])
=============================================================================
