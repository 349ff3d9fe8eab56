-------------------------------- MODULE Edits --------------------------------
(***************************************************************************)
(* The tools by which an agent edits files of its sandbox: apply_patch     *)
(* and replace (src/nexau/archs/tool/builtin/file_tools/apply_patch.py,    *)
(* replace.py) and multiedit (src/nexau/archs/tool/builtin/                *)
(* multiedit_tool.py).                                                     *)
(*                                                                         *)
(* A text is a sequence of characters: "nl" ends a line, " " is white      *)
(* space, and Plain maps punctuation to its plain form.  Carriage returns, *)
(* encodings, permission checks, directories and the diffs shown to a user *)
(* are left out.  A patch is a sequence of lines, each of a kind.          *)
(***************************************************************************)
EXTENDS SequencesExt, FiniteSetsExt, Integers

CONSTANTS
    Paths,      \* the files
    Plain,      \* function: the plain form of a character
    Absent,     \* no file
    Before,     \* what the files may hold at first
    Calls,      \* the calls of the tools
    MaxCalls, MaxFaults,           \* bounds on the calls and on the operations of the sandbox that fail
    FileTexts, Chunks, MaxChunks,  \* the inputs patching is checked on
    Texts, Olds, News, Strategies, \* the inputs replacing is checked on
    Hunks, MaxHunks                \* the hunks reading a patch is checked on

VARIABLES
    files,     \* the text of each file, or Absent
    call,      \* the call that is served, or NoCall
    step,      \* "idle", "look", "write" or "remove"
    done,      \* the hunks of the call that have been applied
    pending,   \* the text that is to be written
    first,     \* the files when the call began
    answer,    \* "none", "success" or "error"
    faults, count

vars == <<files, call, step, done, pending, first, answer, faults, count>>
NoCall == [tool |-> "none"]
-----------------------------------------------------------------------------
(* Texts and lines.                                                        *)

IsSpace(c) == c \in {" ", "nl"}
TrimEnd(s, P(_)) ==
    LET keep == {i \in DOMAIN s : ~P(s[i])} IN IF keep = {} THEN <<>> ELSE SubSeq(s, 1, Max(keep))
TrimStart(s, P(_)) ==
    LET keep == {i \in DOMAIN s : ~P(s[i])} IN IF keep = {} THEN <<>> ELSE SubSeq(s, Min(keep), Len(s))
Strip(s) == TrimStart(TrimEnd(s, IsSpace), IsSpace)

\* The lines of a text without their ends; a last line without an end counts.
Split(text) ==
    FoldLeft(LAMBDA ls, c : IF c = "nl" THEN Append(ls, <<>>) ELSE [ls EXCEPT ![Len(ls)] = Append(@, c)], <<<<>>>>, text)
FileLines(text) == LET ls == Split(text) IN IF Last(ls) = <<>> THEN Front(ls) ELSE ls
Joined(ls) == IF ls = <<>> THEN <<>> ELSE FlattenSeq([i \in DOMAIN ls |-> IF i = 1 THEN ls[i] ELSE <<"nl">> \o ls[i]])
-----------------------------------------------------------------------------
(* apply_patch: reading a patch.                                           *)

PatchLine(kind, arg) == [kind |-> kind, arg |-> arg]
Headers == {"add", "delete", "update"}
Chunk(context, old, new, eof) == [context |-> context, old |-> old, new |-> new, eof |-> eof]
NoContext == <<"@@">>
Hunk(kind, path, move, text, chunks) == [kind |-> kind, path |-> path, move |-> move, text |-> text, chunks |-> chunks]

\* The hunk that is read last is at the end of hunks; `lines` counts the lines of its last
\* chunk, -1 when no chunk is open.
Reading(hunks, lines, fresh, bad) == [hunks |-> hunks, lines |-> lines, fresh |-> fresh, bad |-> bad]
Refused(s) == [s EXCEPT !.bad = TRUE]

\* An update needs a chunk, and a chunk needs lines.
Closed(s) == s.lines # 0 /\ (s.hunks # <<>> /\ Last(s.hunks).kind = "update" => Last(s.hunks).chunks # <<>>)

OnHunk(s, Change(_)) == [s EXCEPT !.hunks = [@ EXCEPT ![Len(s.hunks)] = Change(@)]]
OpenChunk(s, context) ==
    [OnHunk(s, LAMBDA h : [h EXCEPT !.chunks = Append(@, Chunk(context, <<>>, <<>>, FALSE))]) EXCEPT !.lines = 0, !.fresh = FALSE]
InChunk(s, Change(_)) ==
    [OnHunk(s, LAMBDA h : [h EXCEPT !.chunks[Len(h.chunks)] = Change(@)]) EXCEPT !.lines = @ + 1]
ChunkLine(s, l) ==
    InChunk(s, LAMBDA c : [c EXCEPT !.old = IF l.kind = "plus" THEN @ ELSE Append(@, l.arg),
                                    !.new = IF l.kind = "minus" THEN @ ELSE Append(@, l.arg)])

ReadHeader(s, l) ==
    IF ~Closed(s) THEN Refused(s)
    ELSE Reading(Append(s.hunks, Hunk(l.kind, l.arg, Absent, <<>>, <<>>)), -1, TRUE, FALSE)

\* Seeded defect: a mark without context does not end the chunk before it.
ReadUpdateLoose(s, l) ==
    IF s.lines >= 0 /\ l.kind = "bare" THEN s ELSE IF l.kind \in {"context", "bare"} THEN OpenChunk(s, IF l.kind = "bare" THEN NoContext ELSE l.arg)
    ELSE IF l.kind = "eof" THEN [InChunk(s, LAMBDA c : [c EXCEPT !.eof = TRUE]) EXCEPT !.lines = -1]
    ELSE IF l.kind = "move" THEN OnHunk(s, LAMBDA h : [h EXCEPT !.move = l.arg]) ELSE ChunkLine(s, l)

\* A line of an update: of its open chunk, or the beginning of a chunk.  The first
\* chunk may begin without a mark.
ReadUpdate(s, l) ==
    LET body == l.kind \in {"same", "plus", "minus", "blank"}
        line == IF l.kind = "blank" THEN PatchLine("same", <<>>) ELSE l
        empty == line.kind = "same" /\ Strip(line.arg) = <<>>
    IN  CASE s.lines >= 0 /\ body -> ChunkLine(s, line)
          [] s.lines > 0 /\ l.kind = "eof" -> [InChunk(s, LAMBDA c : [c EXCEPT !.eof = TRUE]) EXCEPT !.lines = -1]
          [] s.fresh /\ l.kind = "move" -> [OnHunk(s, LAMBDA h : [h EXCEPT !.move = l.arg]) EXCEPT !.fresh = FALSE]
          [] s.lines # 0 /\ l.kind \in {"context", "bare"} -> OpenChunk(s, IF l.kind = "bare" THEN NoContext ELSE l.arg)
          [] s.lines < 0 /\ empty -> [s EXCEPT !.fresh = FALSE]
          [] s.lines < 0 /\ body /\ ~empty /\ Last(s.hunks).chunks = <<>> -> ChunkLine(OpenChunk(s, NoContext), line)
          [] OTHER -> Refused(s)

ReadLine(s, l) ==
    CASE s.bad -> s
      [] ~s.bad /\ l.kind \in Headers -> ReadHeader(s, l)
      [] ~s.bad /\ s.hunks # <<>> /\ l.kind = "plus" /\ Last(s.hunks).kind = "add" ->
            OnHunk(s, LAMBDA h : [h EXCEPT !.text = @ \o l.arg \o <<"nl">>])
      [] ~s.bad /\ s.hunks # <<>> /\ l.kind \notin Headers /\ Last(s.hunks).kind = "update" -> ReadUpdate(s, l)
      [] OTHER -> Refused(s)

Parse(patch) ==
    LET end == FoldLeft(ReadLine, Reading(<<>>, -1, FALSE, FALSE), patch)
    IN  [ok |-> ~end.bad /\ Closed(end), hunks |-> end.hunks]
-----------------------------------------------------------------------------
(* apply_patch: the chunks of an update.                                   *)

\* How alike two lines must be, from strict to lenient.
Alike(k, a, b) ==
    CASE k = 1 -> a = b
      [] k = 2 -> TrimEnd(a, IsSpace) = TrimEnd(b, IsSpace)
      [] k = 3 -> Strip(a) = Strip(b)
      [] k = 4 -> [i \in DOMAIN Strip(a) |-> Plain[Strip(a)[i]]] = [i \in DOMAIN Strip(b) |-> Plain[Strip(b)[i]]]

NotFound == -1
\* Lines before the place where the pattern stands, searched from `start` on; at the
\* end only for the last chunk of a file.
Seek(lines, pattern, start, eof) ==
    LET from == IF eof THEN Len(lines) - Len(pattern) ELSE start
        At(k) == {i \in from..(Len(lines) - Len(pattern)) : \A o \in DOMAIN pattern : Alike(k, lines[i + o], pattern[o])}
        passes == {k \in 1..4 : At(k) # {}}
    IN  IF pattern = <<>> THEN start
        ELSE IF Len(pattern) > Len(lines) \/ passes = {} THEN NotFound
        ELSE Min(At(Min(passes)))

Place(at, len, new) == [at |-> at, len |-> len, new |-> new]

\* Seeded defect: the search for a chunk begins at the top of the file.
PlacesFromTop(lines, chunks) ==
    LET Find(s, c) ==
            LET found == Seek(lines, c.old, 0, c.eof)
            IN  IF ~s.ok \/ found = NotFound THEN [s EXCEPT !.ok = FALSE]
                ELSE [s EXCEPT !.places = Append(@, Place(found, Len(c.old), c.new))]
    IN  FoldLeft(Find, [ok |-> TRUE, from |-> 0, places |-> <<>>], chunks)

\* A chunk whose lines stand at a place.
Put(s, c, at) ==
    IF at = NotFound THEN [s EXCEPT !.ok = FALSE]
    ELSE [s EXCEPT !.from = at + Len(c.old), !.places = Append(@, Place(at, Len(c.old), c.new))]
ButBlank(ls) == IF ls # <<>> /\ Last(ls) = <<>> THEN Front(ls) ELSE ls
Unblanked(c) == [c EXCEPT !.old = ButBlank(@), !.new = ButBlank(@)]
\* A last blank line of it is optional.
Tried(lines, s, c, from, at) ==
    IF at = NotFound /\ ButBlank(c.old) # c.old THEN Put(s, Unblanked(c), Seek(lines, Unblanked(c).old, from, c.eof))
    ELSE Put(s, c, at)

\* Where each chunk goes: after its context, its lines are looked for from there on; a
\* chunk that only adds goes to the end.
Places(lines, chunks) ==
    LET Behind(s, c, at) ==
            IF ~s.ok \/ (c.context # NoContext /\ at = NotFound) THEN [s EXCEPT !.ok = FALSE]
            ELSE IF c.old = <<>> THEN [s EXCEPT !.from = at + 1, !.places = Append(@, Place(Len(ButBlank(lines)), 0, c.new))]
            ELSE Tried(lines, s, c, at + 1, Seek(lines, c.old, at + 1, c.eof))
        Find(s, c) == Behind(s, c, IF c.context = NoContext THEN s.from - 1 ELSE Seek(lines, <<c.context>>, s.from, FALSE))
    IN  FoldLeft(Find, [ok |-> TRUE, from |-> 0, places |-> <<>>], chunks)

\* Stable, by place.
Sorted(places) ==
    LET order == SetToSortSeq(DOMAIN places, LAMBDA i, j : places[i].at < places[j].at \/ (places[i].at = places[j].at /\ i < j))
    IN  [i \in DOMAIN order |-> places[order[i]]]

\* From the last to the first: the places before stay true.
Replaced(lines, places) ==
    FoldRight(LAMBDA p, ls : SubSeq(ls, 1, p.at) \o p.new \o SubSeq(ls, p.at + p.len + 1, Len(ls)), Sorted(places), lines)

Ending(lines) == Joined(IF lines = <<>> \/ Last(lines) # <<>> THEN Append(lines, <<>>) ELSE lines)
Derived(text, found) ==
    [ok |-> found.ok, text |-> IF found.ok THEN Ending(Replaced(FileLines(text), found.places)) ELSE text]
Derive(text, chunks) == Derived(text, Places(FileLines(text), chunks))
-----------------------------------------------------------------------------
(* replace and multiedit.                                                  *)

At(text, i, s) == i + Len(s) - 1 <= Len(text) /\ SubSeq(text, i, i + Len(s) - 1) = s

\* Seeded defect: occurrences that overlap count, each of them.
SubstituteOverlapping(text, old, new, limit) ==
    LET starts == {i \in DOMAIN text : At(text, i, old)}
    IN  [text |-> FlattenSeq([i \in DOMAIN text |-> IF i \in starts THEN new ELSE IF \E j \in starts : j < i /\ i < j + Len(old) THEN <<>> ELSE <<text[i]>>]),
         count |-> Cardinality(starts)]

\* Occurrences from the left, at most `limit`; none overlaps the one before.
Substitute(text, old, new, limit) ==
    LET Step(s, i) ==
            IF s.skip > 0 THEN [s EXCEPT !.skip = @ - 1]
            ELSE IF s.count < limit /\ At(text, i, old)
                 THEN [text |-> s.text \o new, skip |-> Len(old) - 1, count |-> s.count + 1]
                 ELSE [s EXCEPT !.text = Append(@, text[i])]
    IN  FoldLeft(Step, [text |-> <<>>, skip |-> 0, count |-> 0], [i \in DOMAIN text |-> i])

\* A text ends with a new line exactly when it did before.
Ended(original, text) ==
    IF original # <<>> /\ Last(original) = "nl" THEN (IF text # <<>> /\ Last(text) = "nl" THEN text ELSE Append(text, "nl"))
    ELSE TrimEnd(text, LAMBDA c : c = "nl")

Indented(indent, new) == Joined([i \in DOMAIN Split(new) |-> indent \o Split(new)[i]])
Outcome(strategy, text, n) == [strategy |-> strategy, text |-> text, count |-> n]

Exact(text, old, new) ==
    LET s == Substitute(text, old, new, Len(text)) IN Outcome("exact", Ended(text, s.text), s.count)

\* Lines that are alike but for the space around them are replaced by the new lines, with
\* the indentation of the first; the line end of the last of them goes with them, and
\* the search goes on as many entries later as there are new lines.
Flexible(text, old, new) ==
    LET ls == Split(text)
        source == IF Last(ls) = <<>> THEN [i \in 1..(Len(ls) - 1) |-> Append(ls[i], "nl")]
                  ELSE [i \in DOMAIN ls |-> IF i < Len(ls) THEN Append(ls[i], "nl") ELSE ls[i]]
        wanted == [i \in DOMAIN Split(old) |-> Strip(Split(old)[i])]
        w == Len(wanted)
        Step(s, n) ==
            IF s.i + w - 1 > Len(s.source) THEN s
            ELSE IF \A o \in 1..w : Strip(s.source[s.i + o - 1]) = wanted[o]
                 THEN LET line == s.source[s.i]
                          space == {j \in 0..Len(line) : \A k \in 1..j : IsSpace(line[k])}
                      IN  [source |-> SubSeq(s.source, 1, s.i - 1) \o <<Indented(SubSeq(line, 1, Max(space)), new)>>
                                      \o SubSeq(s.source, s.i + w, Len(s.source)),
                           i |-> s.i + Len(Split(new)), count |-> s.count + 1]
                 ELSE [s EXCEPT !.i = @ + 1]
        end == FoldLeft(Step, [source |-> source, i |-> 1, count |-> 0], [n \in 1..Len(source) |-> n])
    IN  Outcome("flexible", Ended(text, FlattenSeq(end.source)), end.count)

\* The words of old with any space between them, at the beginning of a line; the first
\* place only.
Words(s) ==
    FoldLeft(LAMBDA a, c : IF IsSpace(c) THEN [a EXCEPT !.open = FALSE]
                           ELSE [words |-> IF a.open THEN [a.words EXCEPT ![Len(a.words)] = Append(@, c)] ELSE Append(a.words, <<c>>), open |-> TRUE],
             [words |-> <<>>, open |-> FALSE], s).words
SpaceFrom(text, i) == CHOOSE j \in i..(Len(text) + 1) : (j > Len(text) \/ ~IsSpace(text[j])) /\ \A k \in i..(j - 1) : IsSpace(text[k])
ByWords(text, old, new) ==
    LET Follow(i, word) == IF i = 0 THEN 0
                           ELSE LET j == SpaceFrom(text, i) IN IF At(text, j, word) THEN j + Len(word) ELSE 0
        End(i) == FoldLeft(Follow, i, Words(old))
        starts == {i \in DOMAIN text : (i = 1 \/ text[i - 1] = "nl") /\ End(i) # 0}
        i == Min(starts)
    IN  IF Words(old) = <<>> \/ starts = {} THEN Outcome("none", text, 0)
        ELSE Outcome("regex", Ended(text, SubSeq(text, 1, i - 1) \o Indented(SubSeq(text, i, SpaceFrom(text, i) - 1), new)
                                          \o SubSeq(text, End(i), Len(text))), 1)

FirstThat(a, b, c) == IF a.count > 0 THEN a ELSE IF b.count > 0 THEN b ELSE c
Calculate(text, old, new) == FirstThat(Exact(text, old, new), Flexible(text, old, new), ByWords(text, old, new))

Failed == [ok |-> FALSE, text |-> <<>>]

Written(c, r) == IF r.count = 0 \/ r.count # c.expected \/ c.old = c.new THEN Failed ELSE [ok |-> TRUE, text |-> r.text]
\* What replace writes: a new file for an empty old string, else as many replacements as
\* are expected.
Replace(text, c) ==
    IF c.old = <<>> THEN (IF text = Absent THEN [ok |-> TRUE, text |-> c.new] ELSE Failed)
    ELSE IF text = Absent THEN Failed
    ELSE Written(c, Calculate(text, c.old, c.new))

\* Each edit in turn, on what the one before left; an empty old string is found before
\* every character.
Edited(text, edits) ==
    LET Edit(s, e) ==
            LET r == Substitute(s.text, e.old, e.new, IF e.all THEN Len(s.text) ELSE 1)
                between == IF e.all THEN FlattenSeq([i \in DOMAIN s.text |-> <<s.text[i]>> \o e.new]) ELSE s.text
            IN  IF s.ok /\ e.old = <<>> THEN [s EXCEPT !.text = e.new \o between]
                ELSE IF ~s.ok \/ r.count = 0 THEN [s EXCEPT !.ok = FALSE]
                ELSE [s EXCEPT !.text = r.text]
    IN  FoldLeft(Edit, [ok |-> TRUE, text |-> text], edits)

\* The first edit may create the file.
MultiEdit(text, c) ==
    LET creates == c.edits # <<>> /\ c.edits[1].old = <<>>
    IN  IF c.edits = <<>> \/ (\E e \in Range(c.edits) : e.old = e.new) \/ creates # (text = Absent) THEN Failed
        ELSE IF creates THEN Edited(c.edits[1].new, Tail(c.edits)) ELSE Edited(text, c.edits)
-----------------------------------------------------------------------------
(* The calls.                                                              *)

Init ==
    /\ files \in Before
    /\ call = NoCall /\ step = "idle" /\ done = 0 /\ pending = <<>> /\ first = files
    /\ answer = "none" /\ faults = 0 /\ count = 0

Begin(c) ==
    /\ step = "idle" /\ count < MaxCalls
    /\ count' = count + 1 /\ call' = c /\ done' = 0 /\ pending' = <<>> /\ first' = files
    /\ IF c.tool = "patch" /\ (~Parse(c.patch).ok \/ Parse(c.patch).hunks = <<>>)
       THEN step' = "idle" /\ answer' = "error"
       ELSE step' = "look" /\ answer' = "none"
    /\ UNCHANGED <<files, faults>>

End(result) == step' = "idle" /\ answer' = result
TheHunk == Parse(call.patch).hunks[done + 1]
Target == IF call.tool # "patch" THEN call.path
          ELSE IF TheHunk.move = Absent THEN TheHunk.path ELSE TheHunk.move

\* What reading the file leads to: the text to write, or an error.
Wanted ==
    CASE call.tool = "replace" -> Replace(files[call.path], call)
      [] call.tool = "multiedit" -> MultiEdit(files[call.path], call)
      [] call.tool = "patch" /\ TheHunk.kind = "add" -> [ok |-> TRUE, text |-> TheHunk.text]
      [] call.tool = "patch" /\ TheHunk.kind = "delete" -> [ok |-> files[TheHunk.path] # Absent, text |-> <<>>]
      [] call.tool = "patch" /\ TheHunk.kind = "update" ->
            IF files[TheHunk.path] = Absent THEN Failed ELSE Derive(files[TheHunk.path], TheHunk.chunks)

Looked(wanted) ==
    IF wanted.ok
    THEN /\ step' = IF call.tool = "patch" /\ TheHunk.kind = "delete" THEN "remove" ELSE "write"
         /\ pending' = wanted.text /\ UNCHANGED answer
    ELSE End("error") /\ UNCHANGED pending
Look == step = "look" /\ Looked(Wanted) /\ UNCHANGED <<files, call, done, first, faults, count>>

Advance ==
    IF call.tool # "patch" \/ done + 1 = Len(Parse(call.patch).hunks) THEN End("success") ELSE step' = "look" /\ UNCHANGED answer

\* Seeded defect: a file that moves is removed from its old place before it is written.
WriteMovedFirst ==
    /\ step = "write"
    /\ files' = IF Target # (IF call.tool = "patch" THEN TheHunk.path ELSE Target) /\ files[TheHunk.path] # Absent
                THEN [files EXCEPT ![TheHunk.path] = Absent] ELSE [files EXCEPT ![Target] = pending]
    /\ IF files'[Target] = pending THEN done' = done + 1 /\ Advance ELSE UNCHANGED <<done, step, answer>>
    /\ UNCHANGED <<call, pending, first, faults, count>>

\* A move writes the new file first, and then removes the old one.
Write ==
    /\ step = "write"
    /\ files' = [files EXCEPT ![Target] = pending]
    /\ IF call.tool = "patch" /\ Target # TheHunk.path
       THEN step' = "remove" /\ UNCHANGED <<done, answer>>
       ELSE done' = done + 1 /\ Advance
    /\ UNCHANGED <<call, pending, first, faults, count>>

RemoveOld ==
    /\ step = "remove"
    /\ files' = [files EXCEPT ![TheHunk.path] = Absent]
    /\ done' = done + 1 /\ Advance
    /\ UNCHANGED <<call, pending, first, faults, count>>

\* The sandbox refuses the operation; the tool gives up where it is.
Fault ==
    /\ step # "idle" /\ faults < MaxFaults
    /\ faults' = faults + 1 /\ End("error")
    /\ UNCHANGED <<files, call, done, pending, first, count>>

Next ==
    \/ \E c \in Calls : Begin(c)
    \/ Look
    \/ Write
    \/ RemoveOld
    \/ Fault

Spec == Init /\ [][Next]_vars
-----------------------------------------------------------------------------
(* What the tools promise.                                                 *)

TypeOK ==
    /\ DOMAIN files = Paths /\ step \in {"idle", "look", "write", "remove"} /\ answer \in {"none", "success", "error"}
    /\ faults \in 0..MaxFaults /\ count \in 0..MaxCalls /\ done \in Nat

After(fs, h) ==
    LET text == CASE h.kind = "add" -> h.text
                  [] h.kind = "delete" -> Absent
                  [] h.kind = "update" -> Derive(fs[h.path], h.chunks).text
        gone == IF h.kind = "delete" \/ h.move # Absent THEN [fs EXCEPT ![h.path] = Absent] ELSE fs
    IN  [gone EXCEPT ![IF h.move = Absent THEN h.path ELSE h.move] = text]
Upto(hunks, k) == FoldLeft(After, first, SubSeq(hunks, 1, k))
AsFarAs(hunks, before) ==
    /\ files = before \/ (done < Len(hunks) /\ TheHunk.move # Absent /\ files = [before EXCEPT ![Target] = pending])
    /\ answer = "success" => done = Len(hunks)
\* multiedit and replace change a file in full or not at all, and what they say is true;
\* a patch that fails has applied the hunks before, and nothing of the text of a file
\* is gone that no hunk takes away.
AllOrSaid ==
    IF call.tool \in {"replace", "multiedit"}
    THEN files # first <=> (answer = "success" /\ files # first)
    ELSE call.tool = "patch" /\ Parse(call.patch).ok => AsFarAs(Parse(call.patch).hunks, Upto(Parse(call.patch).hunks, done))

Left(at, i) == IF i = 1 THEN 0 ELSE at[i - 1].at + at[i - 1].len
\* The places of the chunks in lines, the chunks that take lines away, the lines the others
\* add, and the lines of the new text.
Faithful(lines, at, taken, added, new) ==
    /\ \A i \in DOMAIN at : /\ Left(at, i) <= at[i].at
                            /\ \A o \in 1..at[i].len : Alike(4, lines[at[i].at + o], taken[i].old[o])
    /\ new = ButBlank(FlattenSeq([i \in DOMAIN at |-> SubSeq(lines, Left(at, i) + 1, at[i].at) \o at[i].new])
                      \o SubSeq(lines, Left(at, Len(at) + 1) + 1, Len(lines)) \o added)
\* A patch changes the lines it names, in their order, and no other: read from left to
\* right the new file is the old one with each chunk's lines in the place of lines
\* like those the chunk takes away (but for a blank line that is left at the end).
PatchIsFaithful ==
    \A text \in FileTexts, chunks \in UNION {[1..n -> Chunks] : n \in 1..MaxChunks} :
        LET made == Derive(text, chunks)
        IN  made.ok =>
                Faithful(FileLines(text), SelectSeq(Places(FileLines(text), chunks).places, LAMBDA p : p.len > 0),
                         SelectSeq(chunks, LAMBDA c : c.old # <<>>),
                         FlattenSeq([i \in DOMAIN chunks |-> IF chunks[i].old = <<>> THEN chunks[i].new ELSE <<>>]),
                         FileLines(made.text))

\* What is written as a patch is read as that patch.
Rendered(h) ==
    LET InText(c) == (IF c.context = NoContext THEN <<PatchLine("bare", <<>>)>> ELSE <<PatchLine("context", c.context)>>)
                     \o [i \in DOMAIN c.old |-> PatchLine("minus", c.old[i])] \o [i \in DOMAIN c.new |-> PatchLine("plus", c.new[i])]
                     \o (IF c.eof THEN <<PatchLine("eof", <<>>)>> ELSE <<>>)
    IN  <<PatchLine(h.kind, h.path)>>
        \o (IF h.move = Absent THEN <<>> ELSE <<PatchLine("move", h.move)>>)
        \o [i \in DOMAIN FileLines(h.text) |-> PatchLine("plus", FileLines(h.text)[i])]
        \o FlattenSeq([i \in DOMAIN h.chunks |-> InText(h.chunks[i])])
ParsesBack ==
    \A hs \in UNION {[1..n -> Hunks] : n \in 0..MaxHunks} :
        Parse(FlattenSeq([i \in DOMAIN hs |-> Rendered(hs[i])])) = [ok |-> TRUE, hunks |-> hs]

Spliced(text, old, new, S) ==
    FlattenSeq([i \in DOMAIN text |-> IF i \in S THEN new ELSE IF \E j \in S : j < i /\ i < j + Len(old) THEN <<>> ELSE <<text[i]>>])
\* S: the places the new string has taken, of the places where the old one stands.
Chosen(text, old, new, r, S, starts) ==
    /\ \A i, j \in S : i < j => i + Len(old) <= j
    /\ r.text = Ended(text, Spliced(text, old, new, S))
    /\ \A k \in starts : \E i \in S : i - Len(old) < k /\ k < i + Len(old)
LinesStay(lines, left, old) ==
    \A i \in DOMAIN lines : (\A l \in Range(Split(old)) : Strip(l) # Strip(lines[i])) => \E j \in DOMAIN left : left[j] = lines[i]
OnlyOld(text, old, new, r) ==
    r.count > 0 /\ r.strategy \in Strategies =>
        IF r.strategy = "exact"
        THEN LET starts == {i \in DOMAIN text : At(text, i, old)}
             IN  \E S \in kSubset(r.count, starts) : Chosen(text, old, new, r, S, starts)
        ELSE LinesStay(FileLines(text), FileLines(r.text), old)
\* A replacement leaves what it does not replace as it was: the text is the old one with
\* the new string in the place of as many occurrences as it counts.
ReplacesOnly == \A text \in Texts, old \in Olds, new \in News : OnlyOld(text, old, new, Calculate(text, old, new))
==============================================================================
