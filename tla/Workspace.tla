------------------------------ MODULE Workspace ------------------------------
(***************************************************************************)
(* The files of a sandbox: what each operation of the local sandbox does   *)
(* (src/nexau/archs/sandbox/local_sandbox.py), and the same operation of   *)
(* the remote one (e2b_sandbox.py), which is made of requests that may     *)
(* fail or lose their reply and with other tools' writes between them.     *)
(*                                                                         *)
(* A path is the sequence of its names; a tree maps the paths that exist   *)
(* to directories or files; a text is a sequence of pieces.                *)
(***************************************************************************)
EXTENDS SequencesExt, Integers

CONSTANTS
    Trees,      \* what the sandbox may hold at first
    Operations, \* the calls: [op, path, ...]
    Elsewhere,  \* what another tool may do meanwhile: calls as well
    MaxFaults   \* bound on lost replies and on requests that fail for good

WorkspaceAssumption == MaxFaults \in Nat

\* Pieces with a meaning to somebody: line ends, "\n" and "\\n" spelt out, bytes
\* that are not UTF-8.
LF == "LF"
CRLF == "CRLF"
Escape == "escape"
DoubleEscape == "double escape"
Bytes == "bytes"

Dir == [dir |-> TRUE, text |-> <<>>]
File(text) == [dir |-> FALSE, text |-> text]
Found(t, p) == p \in DOMAIN t
IsDir(t, p) == Found(t, p) /\ t[p].dir
Below(t, p) == {q \in DOMAIN t : IsStrictPrefix(p, q)}
Files(t, p) == {q \in Below(t, p) : ~t[q].dir}
Without(t, p) == [q \in DOMAIN t \ ({p} \cup Below(t, p)) |-> t[q]]
Put(t, p, x) == [q \in DOMAIN t \cup {p} |-> IF q = p THEN x ELSE t[q]]
Makeable(t, p) == \A q \in Prefixes(p) : Found(t, q) => t[q].dir
Made(t, p) == [q \in DOMAIN t \cup Prefixes(p) |-> IF q \in Prefixes(p) THEN Dir ELSE t[q]]

Ok(value) == [status |-> "ok", value |-> value]
Bad(status) == [status |-> status, value |-> {}]
Outcome(answer, t) == [answer |-> answer, tree |-> t]
Failed(t) == Outcome(Bad("error"), t)

Has(text, piece) == \E i \in DOMAIN text : text[i] = piece
Count(text, old) == Cardinality({i \in DOMAIN text : text[i] = old})
Swap(text, old, new) == FlattenSeq([i \in DOMAIN text |-> IF text[i] = old THEN new ELSE <<text[i]>>])

------------------------------------------------------------------------------
(* The local sandbox *)

Read(t, p) ==
    IF ~Found(t, p) THEN Outcome(Bad("missing"), t)
    ELSE IF t[p].dir \/ Has(t[p].text, Bytes) THEN Failed(t)
    ELSE Outcome(Ok({[i \in DOMAIN t[p].text |-> IF t[p].text[i] = CRLF THEN LF ELSE t[p].text[i]]}), t)

Write(t, p, text) ==
    LET made == Made(t, Front(p))
    IN  IF ~Makeable(t, Front(p)) THEN Failed(t)
        ELSE IF IsDir(made, p) THEN Failed(made)
        ELSE Outcome(Ok({}), Put(made, p, File(text)))

Delete(t, p) == IF Found(t, p) THEN Outcome(Ok({}), Without(t, p)) ELSE Outcome(Bad("missing"), t)
Exists(t, p) == Outcome(Ok(IF Found(t, p) THEN {p} ELSE {}), t)

Info(t, p) == Outcome(Ok(IF Found(t, p) THEN {<<p, t[p].dir>>} ELSE {}), t)

\* pattern: the names it matches.
List(t, p, recursive, pattern) ==
    IF ~IsDir(t, p) THEN Failed(t)
    ELSE Outcome(Ok({q \in Below(t, p) : Last(q) \in pattern /\ (recursive \/ Len(q) = Len(p) + 1)}), t)

MakeDirectory(t, p, parents) ==
    IF Makeable(t, p) /\ (parents \/ Found(t, Front(p))) THEN Outcome(Ok({}), Made(t, p)) ELSE Failed(t)

\* "" with "" is an update of nothing, of which a text has more than one.
Operation(old, new) == IF old = <<>> /\ new # <<>> THEN "create" ELSE "change"
\* An edit of a text; old2 and new2 are tried when the old string is not in it.
Edited(text, old, new, old2, new2) ==
    LET piece == IF old = <<>> \/ Has(text, old[1]) THEN old ELSE old2
        with == IF old = <<>> \/ Has(text, old[1]) THEN new ELSE new2
    IN  IF piece = <<>> THEN Bad(IF text = <<>> THEN "ok" ELSE "many")
        ELSE CASE Count(text, piece[1]) = 0 -> Bad("nomatch")
               [] Count(text, piece[1]) = 1 -> Ok({Swap(text, piece[1], with)})
               [] OTHER -> Bad("many")
LocalNormal(text) == Swap(text, DoubleEscape, <<Escape>>)
Edit(t, p, old, new) ==
    IF Operation(old, new) = "create"
    THEN IF Found(t, p) THEN Outcome(Bad("exists"), t) ELSE Write(t, p, new)
    ELSE IF ~Found(t, p) THEN Outcome(Bad("missing"), t)
    ELSE IF t[p].dir THEN Failed(t)
    ELSE LET edited == Edited(t[p].text, old, new, LocalNormal(old), LocalNormal(new))
         IN  IF edited.value = {} THEN Outcome(edited, t)
             ELSE Outcome(Ok({}), Put(t, p, File(CHOOSE x \in edited.value : TRUE)))

\* glob: [dir, deep, names, literal]; deep patterns have a ** behind dir.  Without
\* recursion ** stands for one directory.
Glob(t, g, recursive) ==
    Outcome(Ok({q \in Below(t, g.dir) : Last(q) \in g.names /\
        CASE ~g.deep -> Len(q) = Len(g.dir) + 1
          [] g.deep /\ recursive -> TRUE
          [] OTHER -> Len(q) = Len(g.dir) + 2}), t)

\* Copying a tree replaces what was there; source: relative paths to entries.
Upload(t, source, p) ==
    LET cleared == Without(t, p)
    IN  IF (Found(t, p) /\ ~t[p].dir) \/ ~Makeable(t, Front(p)) THEN Failed(t)
        ELSE Outcome(Ok({}), [q \in DOMAIN Made(cleared, p) \cup {p \o s : s \in DOMAIN source} |->
            IF \E s \in DOMAIN source : q = p \o s THEN source[CHOOSE s \in DOMAIN source : q = p \o s]
            ELSE Made(cleared, p)[q]])
\* The value is what has arrived on the host.
Download(t, p) ==
    IF ~IsDir(t, p) THEN Failed(t) ELSE Outcome(Ok({<<q, t[q].text>> : q \in Files(t, p)}), t)

Local(call, t) ==
    CASE call.op = "read" -> Read(t, call.path)
      [] call.op = "write" -> Write(t, call.path, call.text)
      [] call.op = "delete" -> Delete(t, call.path)
      [] call.op = "exists" -> Exists(t, call.path)
      [] call.op = "info" -> Info(t, call.path)
      [] call.op = "list" -> List(t, call.path, call.recursive, call.pattern)
      [] call.op = "mkdir" -> MakeDirectory(t, call.path, call.parents)
      [] call.op = "edit" -> Edit(t, call.path, call.old, call.new)
      [] call.op = "glob" -> Glob(t, call.glob, call.recursive)
      [] call.op = "upload" -> Upload(t, call.source, call.path)
      [] call.op = "download" -> Download(t, call.path)

------------------------------------------------------------------------------
(* The requests of the remote sandbox *)

\* What a request answers and does; "gone" is NotFoundException.
Served(r, t) ==
    CASE r.op = "exists" -> Exists(t, r.path)
      [] r.op = "info" -> IF Found(t, r.path) THEN Info(t, r.path) ELSE Outcome(Bad("gone"), t)
      [] r.op \in {"read", "probe"} -> IF ~Found(t, r.path) THEN Outcome(Bad("gone"), t)
                          ELSE IF t[r.path].dir THEN Failed(t) ELSE Outcome(Ok({t[r.path].text}), t)
      [] r.op = "remove" -> IF Found(t, r.path) THEN Delete(t, r.path) ELSE Outcome(Bad("gone"), t)
      [] r.op = "list" -> List(t, r.path, FALSE, r.pattern)
      [] r.op = "mkdir -p" -> MakeDirectory(t, r.path, TRUE)
      [] r.op = "mkdirs" -> IF \E p \in r.paths : ~Makeable(t, p) THEN Failed(t)
                            ELSE Outcome(Ok({}), [q \in DOMAIN t \cup UNION {Prefixes(p) : p \in r.paths} |->
                                                    IF Found(t, q) THEN t[q] ELSE Dir])
      [] r.op = "mkdir" -> IF Found(t, r.path) THEN Failed(t) ELSE MakeDirectory(t, r.path, FALSE)
      [] r.op = "write" -> Write(t, r.path, r.text)
      [] r.op = "write_files" ->
            LET targets == {r.path \o x : x \in r.files}
                made == DOMAIN t \cup UNION {Prefixes(q) : q \in targets}
            IN  IF \E q \in targets : IsDir(t, q) \/ ~Makeable(t, Front(q)) THEN Failed(t)
                ELSE Outcome(Ok({}), [q \in made |->
                        IF q \in targets THEN r.source[SubSeq(q, Len(r.path) + 1, Len(q))] ELSE IF Found(t, q) THEN t[q] ELSE Dir])
      [] r.op = "find" -> Outcome(Ok({q \in Below(t, r.glob.dir) : Last(q) \in r.glob.names /\
                (r.glob.deep => ~t[q].dir) /\ (r.literal => Len(q) = Len(r.glob.dir) + 1)}), t)

VARIABLES
    tree,   \* the sandbox
    o,      \* the call
    todo,   \* the requests it still makes, as far as they are known
    got,    \* what it has gathered
    answer, \* what it has returned, [status |-> "none"] before
    faults,
    start,  \* history: the tree it began with
    seen,   \* history: that tree, and the one another tool has made of it
    hit     \* history: the requests of it that failed or were repeated

vars == <<tree, o, todo, got, answer, faults, start, seen, hit>>

Ask(op, p) == [op |-> op, path |-> p]
InfoRequests(p) == <<Ask("exists", p), Ask("info", p), Ask("probe", p)>>
ReadRequests(p) == <<Ask("read", p)>> \o InfoRequests(p)
WriteRequests(p, text) == <<Ask("mkdir -p", Front(p)), [op |-> "write", path |-> p, text |-> text]>>
EveryName(t) == {Last(q) : q \in DOMAIN t \ {<<>>}}

\* The requests a call begins with.
First(op, t) ==
    CASE op.op = "read" -> ReadRequests(op.path)
      [] op.op = "write" -> WriteRequests(op.path, op.text)
      [] op.op = "info" -> InfoRequests(op.path)
      [] op.op = "delete" -> <<Ask("exists", op.path), Ask("remove", op.path)>>
      [] op.op \in {"exists", "edit", "list", "download"} -> <<Ask("exists", op.path)>>
      [] op.op = "mkdir" -> <<Ask(IF op.parents THEN "mkdir -p" ELSE "mkdir", op.path)>>
      [] op.op = "glob" -> <<[op |-> "find", glob |-> op.glob, literal |-> ~op.recursive]>>
      [] op.op = "upload" ->
            LET files == {s \in DOMAIN op.source : ~op.source[s].dir}
            IN  IF files = {} THEN <<>>
                ELSE <<[op |-> "mkdirs", paths |-> {op.path} \cup {op.path \o Front(s) : s \in files}],
                       [op |-> "write_files", path |-> op.path, source |-> op.source, files |-> files]>>

Init ==
    /\ tree \in Trees /\ o \in Operations
    /\ todo = First(o, tree) /\ got = {}
    /\ answer = IF todo = <<>> THEN Ok({}) ELSE Bad("none")
    /\ faults = MaxFaults /\ start = tree /\ seen = {tree} /\ hit = {}

------------------------------------------------------------------------------
(* What becomes of a reply *)

Answered(a) == answer' = a /\ todo' = <<>> /\ UNCHANGED got
GoOn(requests, value) == todo' = requests /\ got' = value /\ UNCHANGED answer
Rest == Tail(todo)
\* What the call returns when nothing is left to ask.
Complete(value) == Answered(Ok(value))
Proceed(value) == IF Rest = <<>> THEN Complete(value) ELSE GoOn(Rest, value)

WriteReplied(a) == IF a.status # "ok" THEN Answered(Bad("error")) ELSE IF Rest = <<>> THEN Complete({}) ELSE GoOn(Rest, got)

RemoteNormal(text) == Swap(Swap(text, DoubleEscape, <<LF>>), Escape, <<LF>>)
\* What follows the requests of get_file_info.
Measured(known) ==
    IF o.op # "edit" THEN Complete(known)
    ELSE LET text == CHOOSE x \in known : TRUE
             edited == Edited(text, o.old, o.new, RemoteNormal(o.old), RemoteNormal(o.new))
         IN  CASE edited.value # {} -> GoOn(WriteRequests(o.path, CHOOSE x \in edited.value : TRUE), known)
               [] edited.status = "ok" -> GoOn(WriteRequests(o.path, <<>>), known)
               [] OTHER -> Answered(edited)

\* get_file_info, by itself and behind a read: a path that is not there has no
\* size, and the encoding is found out from one more read.
InfoReplied(r, a) ==
    LET known == IF o.op = "info" /\ r.op = "info" THEN a.value ELSE got
    IN  CASE a.status = "error" \/ (r.op = "probe" /\ a.status = "gone") -> Answered(Bad("error"))
          [] r.op = "probe" \/ a.value = {} \/ (r.op = "info" /\ \E x \in a.value : x[2]) -> Measured(known)
          [] OTHER -> GoOn(Rest, known)

ReadReplied(r, a) ==
    CASE r.op = "read" /\ a.status # "ok" -> Answered(Bad(IF a.status = "gone" THEN "missing" ELSE "error"))
      [] r.op = "read" -> IF \E x \in a.value : Has(x, Bytes) THEN Answered(Bad("error")) ELSE GoOn(Rest, a.value)
      [] OTHER -> InfoReplied(r, a)

\* Seeded defect: a second removal that finds nothing is an error.
DeleteRepliedStrict(r, a) ==
    CASE a.status = "error" -> Answered(a)
      [] (r.op = "exists" /\ a.value = {}) \/ a.status = "gone" -> Answered(Bad("missing"))
      [] OTHER -> Proceed({})

DeleteReplied(r, a) ==
    CASE a.status = "error" -> Answered(a)
      [] r.op = "exists" /\ a.value = {} -> Answered(Bad("missing"))
      [] OTHER -> Proceed({})
\* A directory in the listing is listed in turn; what fails there is left out.
Within(a) == IF o.op = "download" \/ o.recursive
             THEN SetToSeq({Ask("exists", q) : q \in {x \in a.value : IsDir(tree, x)}}) ELSE <<>>
ListReplied(r, a) ==
    LET top == r.path = o.path
        asked == <<[op |-> "list", path |-> r.path, pattern |-> EveryName(tree)]>>
    IN  CASE r.op = "exists" /\ a.status = "ok" /\ a.value # {} -> GoOn(asked \o Rest, got)
          [] r.op = "list" /\ a.status = "ok" ->
                LET all == got \cup a.value
                    next == Within(a) \o Rest
                IN  IF next # <<>> THEN GoOn(next, all) ELSE Complete({q \in all : Last(q) \in o.pattern})
          [] OTHER -> IF top THEN Answered(Bad("error"))
                      ELSE IF Rest # <<>> THEN GoOn(Rest, got) ELSE Complete({q \in got : Last(q) \in o.pattern})

\* download_directory: the listing, then one file after the other; a file that
\* cannot be read is left out.
DownloadReplied(r, a) ==
    CASE r.op # "read" /\ r.path = o.path /\ (a.status # "ok" \/ (r.op = "exists" /\ a.value = {})) -> Answered(Bad("error"))
      [] r.op = "exists" /\ a.status = "ok" /\ a.value # {} ->
            GoOn(<<[op |-> "list", path |-> r.path, pattern |-> EveryName(tree)]>> \o Rest, got)
      [] r.op = "list" /\ a.status = "ok" ->
            LET next == Within(a) \o Rest \o SetToSeq({Ask("read", q) : q \in {x \in a.value : Found(tree, x) /\ ~tree[x].dir}})
            IN  IF next = <<>> THEN Complete(got) ELSE GoOn(next, got)
      [] OTHER -> Proceed(IF r.op = "read" /\ a.status = "ok" THEN got \cup {<<r.path, x>> : x \in a.value} ELSE got)

\* Seeded defect: a creation does not mind the file that is there.
EditRepliedOver(r, a) ==
    CASE r.op = "exists" /\ got = {} ->
            IF a.status = "error" THEN Answered(a)
            ELSE IF Operation(o.old, o.new) = "create" THEN GoOn(WriteRequests(o.path, o.new), {<<>>})
            ELSE IF a.value = {} THEN Answered(Bad("missing")) ELSE GoOn(ReadRequests(o.path), {})
      [] r.op = "read" -> ReadReplied(r, a)
      [] r.op \in {"mkdir -p", "write"} -> WriteReplied(a)
      [] OTHER -> InfoReplied(r, a)

\* edit_file: exists, the requests of a read, then those of a write.
EditReplied(r, a) ==
    CASE r.op = "exists" /\ got = {} ->
            CASE a.status = "error" -> Answered(a)
              [] Operation(o.old, o.new) = "create" ->
                    IF a.value # {} THEN Answered(Bad("exists")) ELSE GoOn(WriteRequests(o.path, o.new), {<<>>})
              [] OTHER -> IF a.value = {} THEN Answered(Bad("missing")) ELSE GoOn(ReadRequests(o.path), {})
      [] r.op = "read" -> ReadReplied(r, a)
      [] r.op \in {"mkdir -p", "write"} -> WriteReplied(a)
      [] OTHER -> InfoReplied(r, a)

Replied(r, a) ==
    CASE o.op = "read" -> ReadReplied(r, a)
      [] o.op = "delete" -> DeleteReplied(r, a)
      [] o.op = "info" -> InfoReplied(r, a)
      [] o.op = "list" -> ListReplied(r, a)
      [] o.op = "download" -> DownloadReplied(r, a)
      [] o.op = "edit" -> EditReplied(r, a)
      [] o.op \in {"exists", "glob"} -> Answered(a)
      [] OTHER -> WriteReplied(a)

------------------------------------------------------------------------------
(* Steps *)

\* A request is served and its reply comes back.
Succeed ==
    /\ todo # <<>>
    /\ LET served == Served(Head(todo), tree)
       IN  tree' = served.tree /\ Replied(Head(todo), served.answer)
    /\ UNCHANGED <<o, faults, start, seen, hit>>

\* It is served, the reply is lost, and _retry_on_transient sends it again.
LoseReply ==
    /\ todo # <<>> /\ faults > 0 /\ faults' = faults - 1
    /\ tree' = Served(Head(todo), tree).tree
    /\ hit' = hit \cup {Head(todo).op}
    /\ UNCHANGED <<o, todo, got, answer, start, seen>>

\* It fails for good.
Fail ==
    /\ todo # <<>> /\ faults > 0 /\ faults' = faults - 1
    /\ Replied(Head(todo), Bad("error"))
    /\ hit' = hit \cup {"failed"}
    /\ UNCHANGED <<tree, o, start, seen>>

\* Another tool's call, in one piece: once, before the call has changed anything.
Interfere(other) ==
    /\ answer.status = "none" /\ seen = {start} /\ tree = start
    /\ Local(other, tree).tree # tree
    /\ tree' = Local(other, tree).tree /\ seen' = seen \cup {tree'}
    /\ hit' = hit \cup {"elsewhere"}
    /\ UNCHANGED <<o, todo, got, answer, faults, start>>

Next == Succeed \/ LoseReply \/ Fail \/ \E other \in Elsewhere : Interfere(other)
Spec == Init /\ [][Next]_vars

------------------------------------------------------------------------------
(* Properties *)

TypeOK ==
    /\ <<>> \in DOMAIN tree /\ faults \in 0..MaxFaults
    /\ \A q \in DOMAIN tree \ {<<>>} : IsDir(tree, Front(q))
    /\ answer.status \in {"none", "ok", "missing", "exists", "nomatch", "many", "error"}

\* Where the two sandboxes answer differently on a quiet link: patterns, a
\* directory that is there, trees copied onto others or with empty directories,
\* line ends and spelt-out escapes.
Differs(t) ==
    CASE o.op = "glob" -> ~o.glob.deep \/ ~o.recursive \/ \E q \in Below(t, o.glob.dir) : t[q].dir /\ Last(q) \in o.glob.names
      [] o.op = "mkdir" -> ~o.parents /\ Found(t, o.path)
      [] o.op = "upload" -> Found(t, o.path) \/ \E s \in DOMAIN o.source : o.source[s].dir /\ \A x \in DOMAIN o.source : ~IsStrictPrefix(s, x)
      [] o.op = "read" -> Found(t, o.path) /\ Has(t[o.path].text, CRLF)
      [] o.op = "edit" -> \/ \E x \in {Escape, DoubleEscape} : Has(o.old, x) \/ Has(o.new, x)
                          \/ Found(t, o.path) /\ Has(t[o.path].text, Bytes)
      [] OTHER -> FALSE

Scans == o.op \in {"list", "download"}

\* A call that has been interfered with beyond a repeated request that may be
\* repeated; mkdir without -p may not.
Disturbed == hit \cap {"failed", "elsewhere", "mkdir"} # {}

\* A repeated request is not seen in the answer of a call, nor is another tool's
\* work: it is what the local sandbox answers on one of the trees there were, or
\* an error where a request has failed or found something else than before.  A
\* failure is never answered with "missing" (_retry_on_transient, file_exists,
\* delete_file).
AnswersAsLocal ==
    answer.status # "none" =>
        \/ Disturbed /\ (answer.status = "error" \/ Scans)
        \/ \E t \in seen : answer = Local(o, t).answer \/ Differs(t)

\* What a call leaves behind is what the local one leaves; one that failed may
\* have done a part of it, and never more.
LeavesAsLocal ==
    answer.status # "none" /\ "elsewhere" \notin hit =>
        \/ Differs(start)
        \/ tree = Local(o, start).tree
        \/ /\ answer.status = "error" /\ Disturbed
           /\ \A q \in DOMAIN tree \cup DOMAIN start :
                \/ IsDir(tree, q) /\ q \notin DOMAIN start
                \/ \E t \in {start, Local(o, start).tree} :
                    (Found(t, q) <=> Found(tree, q)) /\ (Found(t, q) => t[q] = tree[q])

\* base_sandbox.py: download_directory and list_files say ok for all of it.
WholeOrError == answer.status = "ok" /\ Scans => answer = Local(o, start).answer \/ "elsewhere" \in hit
\* base_sandbox.py: "list of file paths matching the pattern".
GlobMatches == answer.status = "ok" /\ o.op = "glob" => answer = Local(o, start).answer
==============================================================================
