-------------------------- MODULE PermissionsProofs --------------------------
(* Proofs of the safety properties of Permissions.                           *)
EXTENDS Permissions, SequenceTheorems, WellFoundedInduction, TLAPS

Entries == [type : {"question", "calls", "result"}, calls : SUBSET Calls, synthetic : SUBSET Calls]
Durable == {m \in Entries : m.synthetic = {}}

\* A map of calls to entries, as the session's row holds it.
IsRow(p) ==
    /\ p = [c \in DOMAIN p |-> p[c]] /\ DOMAIN p \subseteq Calls
    /\ \A c \in DOMAIN p :
        /\ p[c] = [decision |-> p[c].decision, key |-> p[c].key, consumed |-> p[c].consumed]
        /\ p[c].decision \in Decisions \cup {"none"} /\ p[c].consumed \in BOOLEAN
        /\ p[c].key \in KeySet(c)

Typed ==
    /\ pc \in [Agents -> {"idle", "saving", "resuming", "marking", "flushing", "preparing", "asking",
                          "calling", "saved", "posting", "ending"}]
    /\ IsRow(pending)
    /\ snapshot = [a \in Agents |-> snapshot[a]] /\ \A a \in Agents : IsRow(snapshot[a])
    /\ cache = [a \in Agents |-> cache[a]]
    /\ turn \in [Agents -> SUBSET Calls]
    /\ memory \in [Agents -> Seq(Entries)] /\ disk \in [Agents -> Seq(Durable)]
    /\ window = [r \in Resolvers |-> window[r]]
    /\ \A r \in Resolvers :
        /\ window[r] = [call |-> window[r].call, decision |-> window[r].decision, read |-> window[r].read]
        /\ window[r].decision \in Decisions /\ IsRow(window[r].read)
        /\ window[r].call # NoCall => window[r].call \in DOMAIN window[r].read
    /\ runs \in [Calls -> Nat] /\ consent \in [Calls -> SUBSET Decisions]

\* The calls a run is about to post are calls that ask.
Posting == \A a \in Agents : pc[a] = "posting" => \A c \in turn[a] : Asks(a, c)

\* What is decided, wherever it is written down, was decided by a user, and the
\* rules a run goes by are rules that were given.
Sound(p, given) ==
    \A c \in DOMAIN p :
        /\ p[c].decision # "none" => p[c].decision \in given[c]
        /\ p[c].consumed => p[c].decision # "none"
Consented ==
    /\ Sound(pending, consent)
    /\ \A a \in Agents : Sound(snapshot[a], consent) /\ \A c \in DOMAIN snapshot[a] : snapshot[a][c].decision # "none"
    /\ \A r \in Resolvers : Sound(window[r].read, consent)
    /\ \A a \in Agents : cache[a] \subseteq allowed

\* The row belongs to the run, and between the runs to the user.
Owned ==
    /\ \A a \in Agents :
        /\ pc[a] \notin {"idle", "ending"} => Undecided(pending) = {}
        /\ pc[a] \in {"saving", "resuming", "marking"} => snapshot[a] = pending
        /\ pc[a] \in {"flushing", "preparing", "asking", "calling", "saved", "posting"} => DOMAIN pending = {}
    /\ \A r \in Resolvers :
        window[r].call # NoCall => window[r].read = pending /\ window[r].call \in Undecided(pending)

Waiting == {c \in DOMAIN pending : ~pending[c].consumed}
AtMark(c) == \E a \in Agents : pc[a] = "marking" /\ c \in turn[a]

\* A call that still waits, or was just made, has not been executed, unless its
\* run was cut off before its mark.
Unspent ==
    /\ \A c \in DOMAIN pending : c \in made
    /\ \A c \in Waiting : runs[c] = 0 \/ c \in interrupted \/ AtMark(c)
    /\ \A c \in Calls : c \notin made => runs[c] = 0
    /\ \A a \in Agents : pc[a] \in {"calling", "posting"} =>
        \A c \in turn[a] : runs[c] = 0 /\ c \in made

Open(a) == CallsIn(memory[a]) \ AnsweredIn(memory[a])

\* The calls without a result are those that wait, or that the run works on.
Accounted ==
    \A a \in Agents :
        /\ pc[a] \in {"idle", "saving", "resuming", "ending"} => Open(a) \subseteq Waiting
        /\ pc[a] = "marking" => Open(a) \subseteq Waiting \ turn[a]
        /\ pc[a] \in {"flushing", "preparing", "asking", "saved"} => Open(a) = {}
        /\ pc[a] \in {"calling", "posting"} => Open(a) \subseteq turn[a]

\* One agent, and one window that decides: with two, each is written over by the other.
OneAgent == \A a, b \in Agents : a = b
OneResolver == \A q, r \in Resolvers : q = r

CInv == Typed /\ Posting /\ Consented /\ NoRunWithoutConsent
IInv == CInv /\ Owned /\ Unspent /\ RepeatedOnlyIfInterrupted /\ Accounted

USE PermissionsAssumption

------------------------------------------------------------------------------
(* Histories *)

\* An entry that is appended adds its calls, and what it answers.
LEMMA AppendedCalls ==
    ASSUME NEW s \in Seq(Entries), NEW m \in Entries
    PROVE  /\ s \o <<m>> \in Seq(Entries)
           /\ CallsIn(s \o <<m>>) = CallsIn(s) \cup (IF m.type = "calls" THEN m.calls ELSE {})
           /\ AnsweredIn(s \o <<m>>) = AnsweredIn(s) \cup Answers(m)
<1> DEFINE t == s \o <<m>>
<1>1. /\ t \in Seq(Entries) /\ DOMAIN t = DOMAIN s \cup {Len(s) + 1}
      /\ \A i \in DOMAIN s : t[i] = s[i]
      /\ t[Len(s) + 1] = m
  OBVIOUS
<1>2. m.calls \subseteq Calls /\ Answers(m) \subseteq Calls
  BY DEF Entries, Answers
<1>3. CallsIn(t) = CallsIn(s) \cup (IF m.type = "calls" THEN m.calls ELSE {})
  BY <1>1, <1>2 DEF CallsIn
<1>4. AnsweredIn(t) = AnsweredIn(s) \cup Answers(m)
  BY <1>1, <1>2 DEF AnsweredIn
<1> QED BY <1>1, <1>3, <1>4

\* _ensure_tool_use_paired adds results to the entries of calls, and nothing else.
LEMMA HealedEntry ==
    ASSUME NEW m \in Entries, NEW answered
    PROVE  /\ Healed(m, answered) \in Entries
           /\ Healed(m, answered).type = m.type /\ Healed(m, answered).calls = m.calls
           /\ m.type = "calls" => Healed(m, answered).synthetic = m.calls \ answered
           /\ m.type # "calls" => Healed(m, answered) = m
BY DEF Healed, Entries

\* A history that comes from the log is typed, and answers each of its calls.
LEMMA RestoredAnswers ==
    ASSUME Typed, NEW a \in Agents
    PROVE  /\ Restored(a) \in Seq(Entries)
           /\ memory[a] = <<>> => CallsIn(Restored(a)) \subseteq AnsweredIn(Restored(a))
<1>1. CASE memory[a] # <<>>
  BY <1>1 DEF Restored, Typed
<1>2. CASE memory[a] = <<>>
  <2> DEFINE d == disk[a]
             h == [i \in DOMAIN d |-> Healed(d[i], AnsweredIn(d))]
  <2>1. d \in Seq(Durable) /\ Restored(a) = h
    BY <1>2 DEF Restored, Typed
  <2>2. /\ DOMAIN d = 1..Len(d) /\ Len(d) \in Nat
        /\ \A i \in DOMAIN d : d[i] \in Entries /\ d[i].synthetic = {}
    BY <2>1 DEF Durable
  <2>3. DOMAIN h = DOMAIN d /\ \A i \in DOMAIN d : h[i] = Healed(d[i], AnsweredIn(d))
    OBVIOUS
  <2> HIDE DEF h
  <2>4. \A i \in DOMAIN d : h[i] \in Entries /\ h[i].type = d[i].type /\ h[i].calls = d[i].calls
    BY <2>2, <2>3, HealedEntry
  <2>5. h \in Seq(Entries)
    <3>1. h \in [1..Len(d) -> Entries]
      BY <2>2, <2>4 DEF h
    <3> QED BY <3>1, <2>2, SeqDef
  <2>6. ASSUME NEW c \in CallsIn(h) PROVE c \in AnsweredIn(h)
    <3>1. PICK i \in DOMAIN d : d[i].type = "calls" /\ c \in d[i].calls
      BY <2>3, <2>4, <2>6 DEF CallsIn
    <3>2. CASE c \in AnsweredIn(d)
      <4>1. PICK j \in DOMAIN d : c \in Answers(d[j])
        BY <3>2 DEF AnsweredIn
      <4>2. c \in Answers(h[j])
        <5>1. CASE d[j].type # "calls"
          BY <5>1, <4>1, <2>2, <2>3, HealedEntry
        <5>2. CASE d[j].type = "calls"
          BY <5>2, <4>1, <2>2 DEF Answers
        <5> QED BY <5>1, <5>2
      <4> QED BY <2>3, <2>6, <4>2 DEF CallsIn, AnsweredIn
    <3>3. CASE c \notin AnsweredIn(d)
      <4>1. c \in Answers(h[i])
        BY <2>2, <2>3, <3>1, <3>3, HealedEntry DEF Answers
      <4> QED BY <2>3, <2>6, <4>1 DEF CallsIn, AnsweredIn
    <3> QED BY <3>2, <3>3
  <2> QED BY <1>2, <2>1, <2>5, <2>6
<1> QED BY <1>1, <1>2

\* A flush writes no synthetic result.
LEMMA FlushedDurable ==
    ASSUME NEW s \in Seq(Entries)
    PROVE  [i \in DOMAIN s |-> [s[i] EXCEPT !.synthetic = {}]] \in Seq(Durable)
<1> DEFINE t == [i \in DOMAIN s |-> [s[i] EXCEPT !.synthetic = {}]]
<1>1. DOMAIN s = 1..Len(s) /\ Len(s) \in Nat /\ \A i \in DOMAIN s : s[i] \in Entries
  OBVIOUS
<1>2. \A i \in DOMAIN s : [s[i] EXCEPT !.synthetic = {}] \in Durable
  BY <1>1 DEF Entries, Durable
<1>3. t \in [1..Len(s) -> Durable]
  BY <1>1, <1>2
<1> QED BY <1>1, <1>3, SeqDef

------------------------------------------------------------------------------
(* Rows *)

\* The empty row is one.
LEMMA NoRow == IsRow(<<>>) /\ DOMAIN <<>> = {}
BY DEF IsRow

Decided(p, c, d) == [p EXCEPT ![c].decision = d]
\* A decision changes the decision of its call, and no other call's.
LEMMA DecidedRow ==
    ASSUME NEW p, IsRow(p), NEW c \in DOMAIN p, NEW d \in Decisions
    PROVE  /\ IsRow(Decided(p, c, d)) /\ DOMAIN Decided(p, c, d) = DOMAIN p
           /\ \A x \in DOMAIN p :
                /\ Decided(p, c, d)[x].key = p[x].key
                /\ Decided(p, c, d)[x].decision = IF x = c THEN d ELSE p[x].decision
                /\ Decided(p, c, d)[x].consumed = p[x].consumed
<1> DEFINE q == Decided(p, c, d)
<1>1. q = [x \in DOMAIN p |-> q[x]] /\ DOMAIN q = DOMAIN p
  BY DEF Decided, IsRow
<1>2. ASSUME NEW x \in DOMAIN p
      PROVE  /\ q[x].decision = (IF x = c THEN d ELSE p[x].decision)
             /\ q[x].key = p[x].key /\ q[x].consumed = p[x].consumed
             /\ q[x] = [decision |-> q[x].decision, key |-> q[x].key, consumed |-> q[x].consumed]
             /\ q[x].decision \in Decisions \cup {"none"} /\ q[x].consumed \in BOOLEAN
             /\ q[x].key \in KeySet(x)
  <2>1. /\ p[x] = [decision |-> p[x].decision, key |-> p[x].key, consumed |-> p[x].consumed]
        /\ p[x].decision \in Decisions \cup {"none"} /\ p[x].consumed \in BOOLEAN
        /\ p[x].key \in KeySet(x)
    BY DEF IsRow
  <2>2. CASE x = c
    <3>1. q[x] = [decision |-> d, key |-> p[x].key, consumed |-> p[x].consumed]
      BY <2>1, <2>2 DEF Decided
    <3> QED BY <2>1, <2>2, <3>1
  <2>3. CASE x # c
    <3>1. q[x] = p[x]
      BY <2>3 DEF Decided, IsRow
    <3> QED BY <2>1, <2>3, <3>1
  <2> QED BY <2>2, <2>3
<1>3. DOMAIN q \subseteq Calls
  BY <1>1 DEF IsRow
<1> HIDE DEF q
<1>4. IsRow(q)
  BY <1>1, <1>2, <1>3 DEF IsRow
<1> QED BY <1>1, <1>2, <1>4 DEF q

Marked(p, cs) == [c \in DOMAIN p |-> IF c \in cs THEN [p[c] EXCEPT !.consumed = TRUE] ELSE p[c]]
\* A mark consumes the calls it is made for, and no others.
LEMMA MarkedRow ==
    ASSUME NEW p, IsRow(p), NEW cs
    PROVE  /\ IsRow(Marked(p, cs)) /\ DOMAIN Marked(p, cs) = DOMAIN p
           /\ \A x \in DOMAIN p :
                /\ Marked(p, cs)[x].key = p[x].key
                /\ Marked(p, cs)[x].decision = p[x].decision
                /\ Marked(p, cs)[x].consumed <=> x \in cs \/ p[x].consumed
<1> DEFINE q == Marked(p, cs)
<1>1. q = [c \in DOMAIN p |-> q[c]] /\ DOMAIN q = DOMAIN p
  BY DEF Marked
<1>2. ASSUME NEW x \in DOMAIN p
      PROVE  /\ q[x].decision = p[x].decision /\ q[x].key = p[x].key /\ (q[x].consumed <=> x \in cs \/ p[x].consumed)
             /\ q[x] = [decision |-> q[x].decision, key |-> q[x].key, consumed |-> q[x].consumed]
             /\ q[x].decision \in Decisions \cup {"none"} /\ q[x].consumed \in BOOLEAN
             /\ q[x].key \in KeySet(x)
  <2>1. /\ p[x] = [decision |-> p[x].decision, key |-> p[x].key, consumed |-> p[x].consumed]
        /\ p[x].decision \in Decisions \cup {"none"} /\ p[x].consumed \in BOOLEAN
        /\ p[x].key \in KeySet(x)
    BY DEF IsRow
  <2>2. CASE x \in cs
    <3>1. q[x] = [decision |-> p[x].decision, key |-> p[x].key, consumed |-> TRUE]
      BY <2>1, <2>2 DEF Marked
    <3> QED BY <2>1, <2>2, <3>1
  <2>3. CASE x \notin cs
    <3>1. q[x] = p[x]
      BY <2>3 DEF Marked
    <3> QED BY <2>1, <2>3, <3>1
  <2> QED BY <2>2, <2>3
<1>3. DOMAIN q \subseteq Calls
  BY <1>1 DEF IsRow
<1> HIDE DEF q
<1>4. IsRow(q)
  BY <1>1, <1>2, <1>3 DEF IsRow
<1> QED BY <1>1, <1>2, <1>4 DEF q

\* A set of numbers that is not empty has a least one.
LEMMA Least ==
    ASSUME NEW T \in SUBSET Nat, T # {}
    PROVE  \E i \in T : \A j \in T : i <= j
<1>1. PICK x \in T : \A y \in T : ~(<<y, x>> \in OpToRel(<, Nat))
  BY NatLessThanWellFounded, WFMin, Zenon
<1>2. \A y \in T : ~(y < x)
  BY <1>1 DEF OpToRel
<1> QED BY <1>2

\* A call that asks does so for one of its keys.
LEMMA AskedKeyIsItsOwn ==
    ASSUME NEW a \in Agents, NEW c \in Calls, Asks(a, c)
    PROVE  AskedKey(a, c) \in KeySet(c)
<1> DEFINE k == KeysOf[c]
           T == {i \in DOMAIN k : k[i] \notin cache[a]}
<1>1. k \in Seq(Range(k)) /\ DOMAIN k \subseteq Nat
  OBVIOUS
<1>2. T # {}
  BY DEF Asks, KeySet, Range
<1>3. PICK i \in T : \A j \in T : i <= j
  BY <1>1, <1>2, Least
<1>4. k[i] \notin cache[a] /\ \A j \in 1..i - 1 : k[j] \in cache[a]
  BY <1>1, <1>3
<1>5. \E x \in DOMAIN k : k[x] \notin cache[a] /\ \A j \in 1..x - 1 : k[j] \in cache[a]
  BY <1>3, <1>4
<1> QED BY <1>5 DEF AskedKey, KeySet, Range

------------------------------------------------------------------------------
(* Types *)

\* A window that is closed forgets its call and what it has read.
LEMMA ClosedWindow ==
    ASSUME NEW w, w = [call |-> w.call, decision |-> w.decision, read |-> w.read]
    PROVE  [[w EXCEPT !.call = NoCall] EXCEPT !.read = <<>>]
                = [call |-> NoCall, decision |-> w.decision, read |-> <<>>]
<1> DEFINE v == [w EXCEPT !.call = NoCall]
           u == [v EXCEPT !.read = <<>>]
           z == [call |-> NoCall, decision |-> w.decision, read |-> <<>>]
<1>1. DOMAIN w = {"call", "decision", "read"} /\ w = [x \in DOMAIN w |-> w[x]]
  OBVIOUS
<1>2. v = [x \in DOMAIN w |-> IF x = "call" THEN NoCall ELSE w[x]]
  BY <1>1
<1>3. u = [x \in DOMAIN w |-> IF x = "read" THEN <<>> ELSE v[x]]
  BY <1>2
<1>4. DOMAIN u = {"call", "decision", "read"} /\ DOMAIN z = {"call", "decision", "read"}
  BY <1>1, <1>3
<1>5. \A x \in DOMAIN u : u[x] = z[x]
  BY <1>1, <1>2, <1>3, <1>4
<1>6. u = [x \in DOMAIN u |-> u[x]] /\ z = [x \in DOMAIN z |-> z[x]]
  BY <1>3
<1> QED BY <1>4, <1>5, <1>6

\* At the start there is no row, no call and no history.
LEMMA TypedInit == Init => Typed
<1> SUFFICES ASSUME Init PROVE Typed
  OBVIOUS
<1>1. <<>> \in Seq(Entries) /\ <<>> \in Seq(Durable)
  OBVIOUS
<1> QED BY <1>1, NoRow, Zenon DEF Init, Typed, Decisions

\* What a run writes to its history is an entry.
LEMMA WrittenTyped ==
    ASSUME Typed, NEW a \in Agents, NEW t \in {"question", "calls", "result"}, NEW cs \in SUBSET Calls,
           memory' = [memory EXCEPT ![a] = @ \o <<Entry(t, cs)>>]
    PROVE  memory' \in [Agents -> Seq(Entries)]
<1>1. Entry(t, cs) \in Entries
  BY DEF Entry, Entries
<1>2. memory[a] \o <<Entry(t, cs)>> \in Seq(Entries)
  BY <1>1, AppendedCalls DEF Typed
<1> QED BY <1>2 DEF Typed

\* A run that has nothing to write leaves its history alone.
LEMMA WrittenNothing ==
    ASSUME Typed, NEW a \in Agents, memory' = [memory EXCEPT ![a] = @ \o <<>>]
    PROVE  memory' = memory
<1>1. memory[a] \o <<>> = memory[a]
  BY DEF Typed
<1> QED BY <1>1 DEF Typed

\* What is saved of a history is a history.
LEMMA FlushedTyped ==
    ASSUME Typed, NEW a \in Agents, disk' = Flushed(a)
    PROVE  disk' \in [Agents -> Seq(Durable)]
BY FlushedDurable DEF Typed, Flushed

\* Every step keeps to the values.
LEMMA TypedStep == Typed /\ Posting /\ [Next]_vars => Typed'
<1> SUFFICES ASSUME Typed, Posting, [Next]_vars PROVE Typed'
  OBVIOUS
<1> USE DEF session, local, history
<1>1. ASSUME NEW a \in Agents, NEW question \in BOOLEAN, Start(a, question) PROVE Typed'
  <2>1. memory' \in [Agents -> Seq(Entries)]
    <3>1. Restored(a) \in Seq(Entries)
      BY RestoredAnswers
    <3>2. Entry("question", {}) \in Entries
      BY DEF Entry, Entries
    <3>3. Restored(a) \o <<Entry("question", {})>> \in Seq(Entries) /\ Restored(a) \o <<>> \in Seq(Entries)
      BY <3>1, <3>2, AppendedCalls
    <3> QED BY <1>1, <3>3 DEF Start, Typed
  <2> QED BY <1>1, <2>1 DEF Start, Goto, Typed
<1>2. ASSUME NEW a \in Agents, Save(a) PROVE Typed'
  BY <1>2, FlushedTyped DEF Save, Goto, Typed
<1>3. ASSUME NEW a \in Agents, NEW c \in Calls, Resume(a, c) PROVE Typed'
  <2>1. memory' \in [Agents -> Seq(Entries)]
    <3>1. {c} \in SUBSET Calls
      OBVIOUS
    <3> QED BY <1>3, <3>1, WrittenTyped DEF Resume, Write
  <2>2. turn' \in [Agents -> SUBSET Calls] /\ runs' \in [Calls -> Nat]
    BY <1>3 DEF Resume, Typed
  <2> QED BY <1>3, <2>1, <2>2 DEF Resume, Goto, Typed
<1>4. ASSUME NEW a \in Agents, Mark(a) PROVE Typed'
  <2>1. snapshot'[a] = Marked(snapshot[a], turn[a]) /\ IsRow(snapshot'[a])
    <3>1. snapshot' = [snapshot EXCEPT ![a] = Marked(snapshot[a], turn[a])]
      BY <1>4 DEF Mark, Marked
    <3> QED BY <3>1, MarkedRow DEF Typed
  <2>2. snapshot' = [b \in Agents |-> snapshot'[b]] /\ \A b \in Agents \ {a} : snapshot'[b] = snapshot[b]
    BY <1>4 DEF Mark, Typed
  <2> QED BY <1>4, <2>1, <2>2 DEF Mark, Goto, Typed
<1>5. ASSUME NEW a \in Agents, Clear(a) PROVE Typed'
  BY <1>5, NoRow DEF Clear, Goto, Typed
<1>6. ASSUME NEW a \in Agents, Flush(a) PROVE Typed'
  BY <1>6, FlushedTyped DEF Flush, Goto, Typed
<1>7. ASSUME NEW a \in Agents, Prepare(a) PROVE Typed'
  BY <1>7 DEF Prepare, Goto, Typed
<1>8. ASSUME NEW a \in Agents, Execute(a) PROVE Typed'
  <2> DEFINE asking == {c \in turn[a] : Asks(a, c)}
  <2>1. memory' \in [Agents -> Seq(Entries)]
    <3>1. CASE turn[a] \ asking = {}
      BY <1>8, <3>1, WrittenNothing DEF Execute, Write, Typed
    <3>2. CASE turn[a] \ asking # {}
      <4>1. turn[a] \ asking \in SUBSET Calls
        BY DEF Typed
      <4> QED BY <1>8, <3>2, <4>1, WrittenTyped DEF Execute, Write
    <3> QED BY <3>1, <3>2
  <2>2. turn' \in [Agents -> SUBSET Calls]
    BY <1>8 DEF Execute, Typed
  <2>3. runs' \in [Calls -> Nat]
    BY <1>8 DEF Execute, Typed
  <2> QED BY <1>8, <2>1, <2>2, <2>3 DEF Execute, Goto, Typed
<1>9. ASSUME NEW a \in Agents, Iterate(a) PROVE Typed'
  BY <1>9, FlushedTyped DEF Iterate, Goto, Typed
<1>10. ASSUME NEW a \in Agents, Post(a) PROVE Typed'
  <2> DEFINE entry(c) == [decision |-> "none", key |-> AskedKey(a, c), consumed |-> FALSE]
  <2>1. turn[a] \subseteq Calls /\ \A c \in turn[a] : Asks(a, c)
    BY <1>10 DEF Post, Typed, Posting
  <2>2. DOMAIN pending' = turn[a] /\ \A c \in turn[a] : pending'[c] = entry(c)
    BY <1>10 DEF Post
  <2>3. \A c \in turn[a] : AskedKey(a, c) \in KeySet(c)
    BY <2>1, AskedKeyIsItsOwn
  <2>4. pending' = [c \in DOMAIN pending' |-> pending'[c]]
    BY <1>10 DEF Post
  <2>5. IsRow(pending')
    <3> HIDE DEF entry
    <3> SUFFICES ASSUME NEW c \in turn[a]
                 PROVE  /\ pending'[c] = [decision |-> pending'[c].decision, key |-> pending'[c].key,
                                          consumed |-> pending'[c].consumed]
                        /\ pending'[c].decision = "none" /\ pending'[c].consumed = FALSE
                        /\ pending'[c].key \in KeySet(c)
      BY <2>1, <2>2, <2>4 DEF IsRow
    <3>1. pending'[c] = [decision |-> "none", key |-> AskedKey(a, c), consumed |-> FALSE]
      BY <2>2, Zenon DEF entry
    <3> HIDE DEF entry
    <3> QED BY <2>3, <3>1
  <2> QED BY <1>10, <2>5 DEF Post, Goto, Typed
<1>11. ASSUME NEW a \in Agents, NEW cs \in SUBSET Calls, Ask(a, cs) PROVE Typed'
  <2>1. memory' \in [Agents -> Seq(Entries)]
    <3>1. CASE cs = {}
      BY <1>11, <3>1, WrittenNothing DEF Ask, Write, Typed
    <3>2. CASE cs # {}
      BY <1>11, <3>2, WrittenTyped DEF Ask, Write
    <3> QED BY <3>1, <3>2
  <2> QED BY <1>11, <2>1 DEF Ask, Goto, Typed
<1>12. ASSUME NEW r \in Resolvers, NEW c \in Calls, NEW d \in Decisions, Read(r, c, d) PROVE Typed'
  BY <1>12 DEF Read, Undecided, Typed
<1>13. ASSUME NEW r \in Resolvers, SaveRule(r) PROVE Typed'
  BY <1>13 DEF SaveRule, Typed
<1>14. ASSUME NEW r \in Resolvers, Decide(r) PROVE Typed'
  <2> DEFINE w == window[r]
  <2>1. pending' = Decided(w.read, w.call, w.decision)
    BY <1>14 DEF Decide, Decided
  <2>2. IsRow(w.read) /\ w.call \in DOMAIN w.read /\ w.decision \in Decisions /\ w.call \in Calls
    BY <1>14 DEF Decide, Typed, IsRow
  <2>3. IsRow(pending')
    BY <2>1, <2>2, DecidedRow
  <2>4. consent' \in [Calls -> SUBSET Decisions]
    BY <1>14, <2>2 DEF Decide, Typed
  <2>5. /\ window' = [q \in Resolvers |-> window'[q]]
        /\ \A q \in Resolvers \ {r} : window'[q] = window[q]
        /\ window'[r] = [call |-> NoCall, decision |-> w.decision, read |-> <<>>]
    <3>1. w = [call |-> w.call, decision |-> w.decision, read |-> w.read]
      BY DEF Typed
    <3>2. window' = [window EXCEPT ![r] = [[@ EXCEPT !.call = NoCall] EXCEPT !.read = <<>>]]
      BY <1>14 DEF Decide
    <3>3. [[w EXCEPT !.call = NoCall] EXCEPT !.read = <<>>]
              = [call |-> NoCall, decision |-> w.decision, read |-> <<>>]
      BY <3>1, ClosedWindow
    <3> QED BY <3>2, <3>3 DEF Typed
  <2> QED BY <1>14, <2>2, <2>3, <2>4, <2>5, NoRow DEF Decide, Typed
<1>15. CASE Restart
  BY <1>15, NoRow DEF Restart, Typed, Decisions
<1>16. CASE UNCHANGED vars
  BY <1>16 DEF vars, Typed
<1> QED BY <1>1, <1>2, <1>3, <1>4, <1>5, <1>6, <1>7, <1>8, <1>9, <1>10, <1>11, <1>12, <1>13, <1>14, <1>15, <1>16
         DEF Next, RunStep

\* Only asking calls are left in the turn of a run that posts, and no rule is loaded
\* on the way.
LEMMA PostingStep == Typed /\ Posting /\ [Next]_vars => Posting'
<1> SUFFICES ASSUME Typed, Posting, [Next]_vars PROVE Posting'
  OBVIOUS
<1> USE DEF session, local, history
<1>1. ASSUME NEW a \in Agents, NEW question \in BOOLEAN, Start(a, question) PROVE Posting'
  BY <1>1 DEF Start, Goto, Posting, Asks, Typed
<1>2. ASSUME NEW a \in Agents, Save(a) PROVE Posting'
  BY <1>2 DEF Save, Goto, Posting, Asks, Typed
<1>3. ASSUME NEW a \in Agents, NEW c \in Calls, Resume(a, c) PROVE Posting'
  BY <1>3 DEF Resume, Goto, Posting, Asks, Typed
<1>4. ASSUME NEW a \in Agents, Mark(a) PROVE Posting'
  BY <1>4 DEF Mark, Goto, Posting, Asks, Typed
<1>5. ASSUME NEW a \in Agents, Clear(a) PROVE Posting'
  BY <1>5 DEF Clear, Goto, Posting, Asks, Typed
<1>6. ASSUME NEW a \in Agents, Flush(a) PROVE Posting'
  BY <1>6 DEF Flush, Goto, Posting, Asks, Typed
<1>7. ASSUME NEW a \in Agents, Prepare(a) PROVE Posting'
  BY <1>7 DEF Prepare, Goto, Posting, Asks, Typed
<1>8. ASSUME NEW a \in Agents, Execute(a) PROVE Posting'
  BY <1>8 DEF Execute, Goto, Posting, Asks, Typed
<1>9. ASSUME NEW a \in Agents, Iterate(a) PROVE Posting'
  BY <1>9 DEF Iterate, Goto, Posting, Asks, Typed
<1>10. ASSUME NEW a \in Agents, Post(a) PROVE Posting'
  BY <1>10 DEF Post, Goto, Posting, Asks, Typed
<1>11. ASSUME NEW a \in Agents, NEW cs \in SUBSET Calls, Ask(a, cs) PROVE Posting'
  BY <1>11 DEF Ask, Goto, Posting, Asks, Typed
<1>12. ASSUME NEW r \in Resolvers, NEW c \in Calls, NEW d \in Decisions, Read(r, c, d) PROVE Posting'
  BY <1>12 DEF Read, Posting, Asks
<1>13. ASSUME NEW r \in Resolvers, SaveRule(r) \/ Decide(r) PROVE Posting'
  BY <1>13 DEF SaveRule, Decide, Posting, Asks
<1>14. CASE Restart
  BY <1>14 DEF Restart, Posting
<1>15. CASE UNCHANGED vars
  BY <1>15 DEF vars, Posting, Asks
<1> QED BY <1>1, <1>2, <1>3, <1>4, <1>5, <1>6, <1>7, <1>8, <1>9, <1>10, <1>11, <1>12, <1>13, <1>14, <1>15
         DEF Next, RunStep

------------------------------------------------------------------------------
(* Consent *)

\* A row whose decisions were the users' stays so while more is decided.
LEMMA SoundStays ==
    ASSUME NEW p, IsRow(p), Sound(p, consent), \A c \in Calls : consent[c] \subseteq consent'[c]
    PROVE  Sound(p, consent')
BY DEF Sound, IsRow

\* A step that changes no consent and no rule, nor what the rows say.
LEMMA ConsentedStays ==
    ASSUME Consented, UNCHANGED <<consent, allowed, cache>>,
           pending' \in {pending, <<>>},
           \A a \in Agents : snapshot'[a] \in {snapshot[a], <<>>},
           \A r \in Resolvers : window'[r].read \in {window[r].read, <<>>, pending}
    PROVE  Consented'
BY DEF Consented, Sound

\* No step puts a decision into a row, or a rule into a cache, that nobody has made.
LEMMA ConsentedStep == Typed /\ Consented /\ [Next]_vars => Consented'
<1> SUFFICES ASSUME Typed, Consented, [Next]_vars PROVE Consented'
  OBVIOUS
<1> USE DEF session, local, history
<1>1. ASSUME NEW a \in Agents, NEW question \in BOOLEAN, Start(a, question) PROVE Consented'
  BY <1>1 DEF Start, Undecided, Consented, Sound, Typed
<1>2. ASSUME NEW a \in Agents, Save(a) PROVE Consented'
  BY <1>2, ConsentedStays DEF Save
<1>3. ASSUME NEW a \in Agents, NEW c \in Calls, Resume(a, c) PROVE Consented'
  BY <1>3, ConsentedStays DEF Resume
<1>4. ASSUME NEW a \in Agents, Mark(a) PROVE Consented'
  <2> DEFINE s == Marked(snapshot[a], turn[a])
  <2>1. snapshot' = [snapshot EXCEPT ![a] = s] /\ pending' = snapshot'[a] /\ UNCHANGED <<consent, allowed, cache, window>>
    BY <1>4 DEF Mark, Marked
  <2>2. /\ snapshot'[a] = s /\ pending' = s
        /\ \A b \in Agents \ {a} : snapshot'[b] = snapshot[b]
    BY <2>1 DEF Typed
  <2>3. /\ IsRow(snapshot[a]) /\ DOMAIN s = DOMAIN snapshot[a]
        /\ \A x \in DOMAIN s : s[x].decision = snapshot[a][x].decision
    BY MarkedRow DEF Typed
  <2> HIDE DEF s
  <2>4. Sound(s, consent') /\ \A x \in DOMAIN s : s[x].decision # "none"
    BY <2>1, <2>3 DEF Consented, Sound
  <2> QED BY <2>1, <2>2, <2>4 DEF Consented, Sound
<1>5. ASSUME NEW a \in Agents, Clear(a) PROVE Consented'
  BY <1>5, ConsentedStays DEF Clear, Typed
<1>6. ASSUME NEW a \in Agents, Flush(a) PROVE Consented'
  BY <1>6, ConsentedStays DEF Flush
<1>7. ASSUME NEW a \in Agents, Prepare(a) PROVE Consented'
  BY <1>7 DEF Prepare, Consented, Sound, Typed
<1>8. ASSUME NEW a \in Agents, Execute(a) PROVE Consented'
  BY <1>8, ConsentedStays DEF Execute
<1>9. ASSUME NEW a \in Agents, Iterate(a) PROVE Consented'
  BY <1>9, ConsentedStays DEF Iterate
<1>10. ASSUME NEW a \in Agents, Post(a) PROVE Consented'
  <2>1. Sound(pending', consent')
    BY <1>10 DEF Post, Sound
  <2> QED BY <1>10, <2>1 DEF Post, Consented, Sound
<1>11. ASSUME NEW a \in Agents, NEW cs \in SUBSET Calls, Ask(a, cs) PROVE Consented'
  BY <1>11, ConsentedStays DEF Ask
<1>12. ASSUME NEW r \in Resolvers, NEW c \in Calls, NEW d \in Decisions, Read(r, c, d) PROVE Consented'
  BY <1>12, ConsentedStays DEF Read, Typed
<1>13. ASSUME NEW r \in Resolvers, SaveRule(r) PROVE Consented'
  BY <1>13 DEF SaveRule, Consented, Sound
<1>14. ASSUME NEW r \in Resolvers, Decide(r) PROVE Consented'
  <2> DEFINE w == window[r]
  <2>1. pending' = Decided(w.read, w.call, w.decision) /\ UNCHANGED <<snapshot, cache, allowed>>
    BY <1>14 DEF Decide, Decided
  <2>2. IsRow(w.read) /\ w.call \in DOMAIN w.read /\ w.decision \in Decisions /\ w.call \in Calls
    BY <1>14 DEF Decide, Typed, IsRow
  <2>3. w.decision \in consent'[w.call] /\ \A x \in Calls : consent[x] \subseteq consent'[x]
    BY <1>14, <2>2 DEF Decide, Typed
  <2>4. Sound(pending', consent')
    <3>1. /\ DOMAIN pending' = DOMAIN w.read
          /\ \A x \in DOMAIN w.read :
                /\ pending'[x].decision = IF x = w.call THEN w.decision ELSE w.read[x].decision
                /\ pending'[x].consumed = w.read[x].consumed
      BY <2>1, <2>2, DecidedRow
    <3>2. w.decision # "none" /\ DOMAIN w.read \subseteq Calls
      BY <2>2 DEF Decisions, IsRow
    <3> QED BY <2>3, <3>1, <3>2 DEF Consented, Sound
  <2>5. \A a \in Agents : Sound(snapshot'[a], consent')
    BY <2>1, <2>3, SoundStays DEF Consented, Typed
  <2>6. \A q \in Resolvers : window'[q].read \in {window[q].read, <<>>}
    BY <1>14 DEF Decide, Typed
  <2>7. \A q \in Resolvers : Sound(window'[q].read, consent')
    <3>1. Sound(<<>>, consent')
      BY DEF Sound
    <3> QED BY <2>3, <2>6, <3>1, SoundStays DEF Consented, Typed
  <2> QED BY <2>1, <2>4, <2>5, <2>7 DEF Consented
<1>15. CASE Restart
  BY <1>15 DEF Restart, Consented, Sound
<1>16. CASE UNCHANGED vars
  BY <1>16 DEF vars, Consented, Sound
<1> QED BY <1>1, <1>2, <1>3, <1>4, <1>5, <1>6, <1>7, <1>8, <1>9, <1>10, <1>11, <1>12, <1>13, <1>14, <1>15, <1>16
         DEF Next, RunStep

\* Rules and decisions are only ever added.
LEMMA ConsentGrows ==
    ASSUME Typed, [Next]_vars
    PROVE  allowed \subseteq allowed' /\ \A c \in Calls : consent[c] \subseteq consent'[c]
<1> USE DEF session, local, history
<1>1. ASSUME NEW r \in Resolvers, Decide(r)
      PROVE  allowed \subseteq allowed' /\ \A c \in Calls : consent[c] \subseteq consent'[c]
  BY <1>1 DEF Decide, Typed
<1> QED BY <1>1 DEF Next, RunStep, vars, Start, Save, Resume, Mark, Clear, Flush, Prepare, Execute, Iterate, Post,
            Ask, Read, SaveRule, Restart

\* Only a resumed call and a call of the model's answer are executed.
LEMMA RunsGrow ==
    ASSUME Typed, [Next]_vars, NEW c \in Calls, runs'[c] # runs[c]
    PROVE  \/ \E a \in Agents : Resume(a, c) /\ snapshot[a][c].decision # "deny"
           \/ \E a \in Agents : Execute(a) /\ c \in turn[a] /\ ~Asks(a, c) /\ KeySet(c) \cap Refused = {}
<1> USE DEF session, local, history
<1>1. ASSUME NEW a \in Agents, NEW d \in Calls, Resume(a, d) PROVE d = c /\ snapshot[a][c].decision # "deny"
  BY <1>1 DEF Resume, Typed
<1>2. ASSUME NEW a \in Agents, Execute(a)
      PROVE  c \in turn[a] /\ ~Asks(a, c) /\ KeySet(c) \cap Refused = {}
  BY <1>2 DEF Execute, Typed
<1> QED BY <1>1, <1>2 DEF Next, RunStep, vars, Start, Save, Mark, Clear, Flush, Prepare, Iterate, Post,
            Ask, Read, SaveRule, Decide, Restart

\* No step executes a call without consent.
LEMMA ConsentStep == CInv /\ [Next]_vars => NoRunWithoutConsent'
<1> SUFFICES ASSUME CInv, [Next]_vars, NEW c \in Calls, runs'[c] > 0
             PROVE  KeySet(c) \subseteq allowed' \/ consent'[c] \cap {"allow", "allow_once"} # {}
  BY DEF NoRunWithoutConsent
<1>1. Typed /\ Consented /\ NoRunWithoutConsent
  BY DEF CInv
<1>2. SUFFICES KeySet(c) \subseteq allowed \/ consent[c] \cap {"allow", "allow_once"} # {}
  BY <1>1, ConsentGrows
<1>3. CASE runs'[c] = runs[c]
  BY <1>1, <1>3 DEF NoRunWithoutConsent
<1>4. ASSUME NEW a \in Agents, Resume(a, c), snapshot[a][c].decision # "deny"
      PROVE  consent[c] \cap {"allow", "allow_once"} # {}
  <2>1. c \in DOMAIN snapshot[a]
    BY <1>4 DEF Resume
  <2>2. snapshot[a][c].decision \in consent[c] /\ snapshot[a][c].decision \in {"allow", "allow_once"}
    BY <1>1, <1>4, <2>1 DEF Consented, Sound, Typed, IsRow, Decisions
  <2> QED BY <2>2
<1>5. ASSUME NEW a \in Agents, ~Asks(a, c), KeySet(c) \cap Refused = {}
      PROVE  KeySet(c) \subseteq allowed
  BY <1>1, <1>5 DEF Asks, Consented
<1> QED BY <1>1, <1>3, <1>4, <1>5, RunsGrow

\* The invariant of consent holds at the start.
LEMMA CInvInit == Init => CInv
<1> SUFFICES ASSUME Init PROVE CInv
  OBVIOUS
<1>1. Posting /\ Consented /\ NoRunWithoutConsent
  BY DEF Init, Posting, Consented, Sound, NoRunWithoutConsent
<1> QED BY <1>1, TypedInit DEF CInv

\* Every step keeps the invariant of consent.
LEMMA CInvStep == CInv /\ [Next]_vars => CInv'
BY TypedStep, PostingStep, ConsentedStep, ConsentStep DEF CInv

\* The invariant of consent holds in every state, for any agents and windows.
LEMMA CInvHolds == Spec => []CInv
BY CInvInit, CInvStep, PTL DEF Spec

\* Types: the row goes with the calls, its keys are keys of its calls, and what is
\* consumed has been decided.
THEOREM TypeCorrect == Spec => []TypeOK
<1>1. CInv => TypeOK
  BY DEF CInv, TypeOK, Typed, Consented, Sound, IsRow, Decisions
<1> QED BY <1>1, CInvHolds, PTL

\* However many agents run in the session and however many windows decide, and whatever
\* is written over whatever: no call is executed without the user's word.
THEOREM NoCallWithoutConsent == Spec => []NoRunWithoutConsent
<1>1. CInv => NoRunWithoutConsent
  BY DEF CInv
<1> QED BY <1>1, CInvHolds, PTL

------------------------------------------------------------------------------
(* The row of one agent and one window *)

\* With one agent and one window, a row is what its owner has read or written of it.
LEMMA OwnedStep ==
    ASSUME OneAgent, OneResolver
    PROVE  CInv /\ Owned /\ [Next]_vars => Owned'
<1> SUFFICES ASSUME CInv, Owned, [Next]_vars PROVE Owned'
  OBVIOUS
<1> USE DEF session, local, history
<1>t. Typed /\ Consented
  BY DEF CInv
<1>n. DOMAIN <<>> = {} /\ Undecided(<<>>) = {}
  BY DEF Undecided
<1>1. ASSUME NEW a \in Agents, NEW question \in BOOLEAN, Start(a, question) PROVE Owned'
  BY <1>1, <1>t DEF OneAgent, Start, Goto, Owned, Typed, Undecided
<1>2. ASSUME NEW a \in Agents, Save(a) PROVE Owned'
  BY <1>2, <1>t, <1>n DEF OneAgent, Save, Goto, Owned, Typed, Undecided
<1>3. ASSUME NEW a \in Agents, NEW c \in Calls, Resume(a, c) PROVE Owned'
  BY <1>3, <1>t DEF OneAgent, Resume, Goto, Owned, Typed, Undecided
<1>4. ASSUME NEW a \in Agents, Mark(a) PROVE Owned'
  <2> DEFINE s == Marked(snapshot[a], turn[a])
  <2>1. snapshot' = [snapshot EXCEPT ![a] = s] /\ pending' = snapshot'[a] /\ UNCHANGED window
    BY <1>4 DEF Mark, Marked
  <2>2. snapshot'[a] = s /\ pending' = s /\ pc[a] = "marking" /\ pc'[a] = "resuming"
    BY <1>4, <1>t, <2>1 DEF Mark, Goto, Typed
  <2>3. /\ IsRow(snapshot[a]) /\ DOMAIN s = DOMAIN snapshot[a]
        /\ \A x \in DOMAIN s : s[x].decision = snapshot[a][x].decision
    BY <1>t, MarkedRow DEF Typed
  <2> HIDE DEF s
  <2>4. Undecided(pending') = {} /\ Undecided(pending) = {}
    BY <1>t, <2>2, <2>3 DEF Undecided, Consented, Owned
  <2>5. \A r \in Resolvers : window[r].call = NoCall
    BY <2>4 DEF Owned
  <2> QED BY <2>1, <2>2, <2>4, <2>5 DEF Owned, OneAgent
<1>5. ASSUME NEW a \in Agents, Clear(a) PROVE Owned'
  BY <1>5, <1>t, <1>n DEF OneAgent, Clear, Goto, Owned, Typed, Undecided
<1>6. ASSUME NEW a \in Agents, Flush(a) PROVE Owned'
  BY <1>6, <1>t DEF OneAgent, Flush, Goto, Owned, Typed, Undecided
<1>7. ASSUME NEW a \in Agents, Prepare(a) PROVE Owned'
  BY <1>7, <1>t DEF OneAgent, Prepare, Goto, Owned, Typed, Undecided
<1>8. ASSUME NEW a \in Agents, Execute(a) PROVE Owned'
  BY <1>8, <1>t DEF OneAgent, Execute, Goto, Owned, Typed, Undecided
<1>9. ASSUME NEW a \in Agents, Iterate(a) PROVE Owned'
  BY <1>9, <1>t DEF OneAgent, Iterate, Goto, Owned, Typed, Undecided
<1>10. ASSUME NEW a \in Agents, Post(a) PROVE Owned'
  <2>1. pc[a] = "posting" /\ pc'[a] = "ending" /\ UNCHANGED <<snapshot, window>>
    BY <1>10, <1>t DEF Post, Goto, Typed
  <2>2. \A r \in Resolvers : window[r].call = NoCall
    BY <2>1 DEF Owned
  <2> QED BY <2>1, <2>2 DEF Owned, OneAgent
<1>11. ASSUME NEW a \in Agents, NEW cs \in SUBSET Calls, Ask(a, cs) PROVE Owned'
  BY <1>11, <1>t DEF OneAgent, Ask, Goto, Owned, Typed, Undecided
<1>12. ASSUME NEW r \in Resolvers, NEW c \in Calls, NEW d \in Decisions, Read(r, c, d) PROVE Owned'
  <2>1. window'[r] = [call |-> c, decision |-> d, read |-> pending] /\ UNCHANGED <<pc, pending, snapshot>>
    BY <1>12, <1>t DEF Read, Typed
  <2>2. c \in Undecided(pending)
    BY <1>12 DEF Read
  <2>3. Undecided(pending)' = Undecided(pending)
    BY <2>1 DEF Undecided
  <2> QED BY <2>1, <2>2, <2>3 DEF OneResolver, Owned
<1>13. ASSUME NEW r \in Resolvers, SaveRule(r) PROVE Owned'
  BY <1>13 DEF SaveRule, Owned, Undecided
<1>14. ASSUME NEW r \in Resolvers, Decide(r) PROVE Owned'
  <2>1. window[r].call \in Undecided(pending)
    BY <1>14 DEF Decide, Owned
  <2>2. \A a \in Agents : pc[a] \in {"idle", "ending"} /\ pc' = pc
    BY <1>14, <2>1, Zenon DEF Decide, Owned
  <2>3. window'[r].call = NoCall
    <3>1. window'[r] = [[window[r] EXCEPT !.call = NoCall] EXCEPT !.read = <<>>]
      BY <1>14, <1>t DEF Decide, Typed
    <3> QED BY <3>1, <1>t, ClosedWindow DEF Typed
  <2> QED BY <2>2, <2>3 DEF Owned, OneResolver
<1>15. CASE Restart
  BY <1>15 DEF Restart, Owned
<1>16. CASE UNCHANGED vars
  BY <1>16 DEF vars, Owned, Undecided
<1> QED BY <1>1, <1>2, <1>3, <1>4, <1>5, <1>6, <1>7, <1>8, <1>9, <1>10, <1>11, <1>12, <1>13, <1>14, <1>15, <1>16
         DEF Next, RunStep

\* With one agent and one window, a call that is not consumed was not executed,
\* unless a crash came between.
LEMMA UnspentStep ==
    ASSUME OneAgent, OneResolver
    PROVE  CInv /\ Owned /\ Unspent /\ RepeatedOnlyIfInterrupted /\ [Next]_vars
                => Unspent' /\ RepeatedOnlyIfInterrupted'
<1> DEFINE Goal == Unspent /\ RepeatedOnlyIfInterrupted
<1> SUFFICES ASSUME CInv, Owned, Unspent, RepeatedOnlyIfInterrupted, [Next]_vars PROVE Goal'
  OBVIOUS
<1> USE DEF session, local, history
<1>t. Typed /\ Consented
  BY DEF CInv
<1>n. DOMAIN <<>> = {}
  OBVIOUS
\* A step that neither marks nor runs a call, and leaves the row.
<1>q. ASSUME UNCHANGED <<pending, runs, interrupted, made>>,
             \A a \in Agents : pc[a] # "marking" /\ pc'[a] \notin {"calling", "posting"}
      PROVE  Goal'
  BY <1>q DEF Unspent, Waiting, AtMark, RepeatedOnlyIfInterrupted
<1>1. ASSUME NEW a \in Agents, NEW question \in BOOLEAN, Start(a, question) PROVE Goal'
  BY <1>1, <1>t, <1>q DEF OneAgent, Start, Goto, Typed
<1>2. ASSUME NEW a \in Agents, Save(a) PROVE Goal'
  BY <1>2, <1>t, <1>q DEF OneAgent, Save, Goto, Typed
<1>3. ASSUME NEW a \in Agents, NEW c \in Calls, Resume(a, c) PROVE Goal'
  <2>1. /\ pc[a] = "resuming" /\ pc'[a] = "marking" /\ turn'[a] = {c}
        /\ UNCHANGED <<pending, interrupted, made>>
        /\ runs' \in {runs, [runs EXCEPT ![c] = @ + 1]}
    BY <1>3, <1>t DEF Resume, Goto, Typed
  <2>2. c \in Waiting /\ ~AtMark(c)
    BY <1>3, <1>t, <2>1 DEF OneAgent, Resume, Owned, Waiting, AtMark
  <2>3. runs[c] = 0 \/ c \in interrupted
    BY <2>2 DEF Unspent
  <2>4. runs' \in [Calls -> Nat] /\ (\A x \in Calls \ {c} : runs'[x] = runs[x]) /\ runs'[c] \in {runs[c], runs[c] + 1}
    <3>1. runs \in [Calls -> Nat]
      BY <1>t DEF Typed
    <3>2. CASE runs' = runs
      BY <3>1, <3>2
    <3>3. CASE runs' = [runs EXCEPT ![c] = @ + 1]
      BY <3>1, <3>3
    <3> QED BY <2>1, <3>2, <3>3
  <2>5. RepeatedOnlyIfInterrupted'
    <3>1. runs \in [Calls -> Nat] /\ interrupted' = interrupted
      BY <1>t, <2>1 DEF Typed
    <3>2. ASSUME NEW x \in Calls, runs'[x] > 1 PROVE x \in interrupted
      <4>1. CASE x = c
        BY <2>3, <2>4, <3>1, <3>2, <4>1
      <4>2. CASE x # c
        BY <2>4, <3>2, <4>2 DEF RepeatedOnlyIfInterrupted
      <4> QED BY <4>1, <4>2
    <3> QED BY <3>1, <3>2 DEF RepeatedOnlyIfInterrupted
  <2>6. c \in made /\ Waiting' = Waiting /\ DOMAIN pending \subseteq Calls
    BY <1>t, <2>1, <2>2 DEF Waiting, Unspent, Typed, IsRow
  <2>7. \A x \in Waiting : runs'[x] = 0 \/ x \in interrupted \/ AtMark(x)'
    <3>1. AtMark(c)'
      BY <2>1 DEF AtMark
    <3>2. \A x \in Waiting \ {c} : ~AtMark(x)
      BY <2>1 DEF OneAgent, AtMark
    <3> QED BY <2>4, <2>6, <3>1, <3>2 DEF Unspent, Waiting
  <2>8. \A b \in Agents : pc'[b] \notin {"calling", "posting"}
    BY <2>1 DEF OneAgent
  <2> QED BY <2>1, <2>4, <2>5, <2>6, <2>7, <2>8 DEF Unspent
<1>4. ASSUME NEW a \in Agents, Mark(a) PROVE Goal'
  <2> DEFINE s == Marked(snapshot[a], turn[a])
  <2>1. snapshot' = [snapshot EXCEPT ![a] = s] /\ pending' = snapshot'[a] /\ UNCHANGED <<runs, interrupted, made, turn>>
    BY <1>4 DEF Mark, Marked
  <2>2. pending' = s /\ snapshot[a] = pending /\ pc[a] = "marking" /\ pc'[a] = "resuming"
    BY <1>4, <1>t, <2>1 DEF Mark, Goto, Typed, Owned
  <2>3. /\ DOMAIN s = DOMAIN pending
        /\ \A x \in DOMAIN s : s[x].consumed <=> x \in turn[a] \/ pending[x].consumed
    BY <1>t, <2>2, MarkedRow DEF Typed
  <2> HIDE DEF s
  <2>4. \A x \in Waiting' : x \in Waiting /\ ~AtMark(x)
    BY <2>2, <2>3 DEF Waiting, AtMark, OneAgent
  <2> QED BY <2>1, <2>2, <2>3, <2>4 DEF Unspent, RepeatedOnlyIfInterrupted, OneAgent
<1>5. ASSUME NEW a \in Agents, Clear(a) PROVE Goal'
  BY <1>5, <1>t, <1>n DEF OneAgent, Clear, Goto, Typed, Unspent, Waiting, RepeatedOnlyIfInterrupted
<1>6. ASSUME NEW a \in Agents, Flush(a) PROVE Goal'
  BY <1>6, <1>t, <1>q DEF OneAgent, Flush, Goto, Typed
<1>7. ASSUME NEW a \in Agents, Prepare(a) PROVE Goal'
  BY <1>7, <1>t, <1>q DEF OneAgent, Prepare, Goto, Typed
<1>8. ASSUME NEW a \in Agents, Execute(a) PROVE Goal'
  <2>1. /\ pc[a] = "calling" /\ pc'[a] \in {"saved", "posting"} /\ turn'[a] \subseteq turn[a]
        /\ UNCHANGED <<pending, interrupted, made>>
        /\ \A x \in Calls : runs'[x] = runs[x] \/ (x \in turn[a] \ turn'[a] /\ runs'[x] = runs[x] + 1)
    BY <1>8, <1>t DEF Execute, Goto, Typed
  <2>2. DOMAIN pending = {} /\ turn[a] \subseteq Calls /\ \A x \in turn[a] : runs[x] = 0 /\ x \in made
    BY <1>t, <2>1 DEF Owned, Unspent, Typed
  <2>3. Waiting' = {}
    BY <2>1, <2>2 DEF Waiting
  <2>4. \A x \in turn'[a] : runs'[x] = 0
    BY <2>1, <2>2
  <2> QED BY <2>1, <2>2, <2>3, <2>4 DEF Unspent, RepeatedOnlyIfInterrupted, OneAgent
<1>9. ASSUME NEW a \in Agents, Iterate(a) PROVE Goal'
  BY <1>9, <1>t, <1>q DEF OneAgent, Iterate, Goto, Typed
<1>10. ASSUME NEW a \in Agents, Post(a) PROVE Goal'
  <2>1. /\ pc[a] = "posting" /\ pc'[a] = "ending" /\ DOMAIN pending' = turn[a]
        /\ UNCHANGED <<runs, interrupted, made>>
    BY <1>10, <1>t DEF Post, Goto, Typed
  <2>2. \A x \in turn[a] : runs[x] = 0 /\ x \in made
    BY <2>1 DEF Unspent
  <2> QED BY <2>1, <2>2 DEF Unspent, RepeatedOnlyIfInterrupted, OneAgent, Waiting
<1>11. ASSUME NEW a \in Agents, NEW cs \in SUBSET Calls, Ask(a, cs) PROVE Goal'
  <2>1. /\ pc[a] = "asking" /\ turn'[a] = cs /\ cs \cap made = {} /\ made' = made \cup cs
        /\ UNCHANGED <<pending, runs, interrupted>>
    BY <1>11, <1>t DEF Ask, Typed
  <2>2. DOMAIN pending = {} /\ Waiting' = {}
    BY <2>1 DEF Owned, Waiting
  <2> QED BY <2>1, <2>2 DEF Unspent, RepeatedOnlyIfInterrupted, OneAgent
<1>12. ASSUME NEW r \in Resolvers, NEW c \in Calls, NEW d \in Decisions, Read(r, c, d) PROVE Goal'
  BY <1>12 DEF Read, Unspent, Waiting, AtMark, RepeatedOnlyIfInterrupted
<1>13. ASSUME NEW r \in Resolvers, SaveRule(r) PROVE Goal'
  BY <1>13 DEF SaveRule, Unspent, Waiting, AtMark, RepeatedOnlyIfInterrupted
<1>14. ASSUME NEW r \in Resolvers, Decide(r) PROVE Goal'
  <2> DEFINE w == window[r]
  <2>1. pending' = Decided(w.read, w.call, w.decision) /\ w.read = pending /\ UNCHANGED <<runs, interrupted, made, pc, turn>>
    BY <1>14 DEF Decide, Decided, Owned
  <2>2. IsRow(w.read) /\ w.call \in DOMAIN w.read /\ w.decision \in Decisions
    BY <1>14, <1>t DEF Decide, Typed
  <2>3. DOMAIN pending' = DOMAIN pending /\ \A x \in DOMAIN pending : pending'[x].consumed = pending[x].consumed
    BY <2>1, <2>2, DecidedRow
  <2>4. Waiting' = Waiting
    BY <2>3 DEF Waiting
  <2> QED BY <2>1, <2>3, <2>4 DEF Unspent, AtMark, RepeatedOnlyIfInterrupted
<1>15. CASE Restart
  <2>1. /\ UNCHANGED <<pending, runs, made>> /\ Waiting' = Waiting
        /\ \A x \in Calls : AtMark(x) => x \in interrupted'
        /\ interrupted \subseteq interrupted'
    BY <1>15 DEF Restart, Waiting, AtMark
  <2>2. \A a \in Agents : pc'[a] = "idle"
    BY <1>15 DEF Restart
  <2>3. Waiting \subseteq Calls
    BY <1>t DEF Waiting, Typed, IsRow
  <2> QED BY <2>1, <2>2, <2>3 DEF Unspent, RepeatedOnlyIfInterrupted
<1>16. CASE UNCHANGED vars
  BY <1>16 DEF vars, Unspent, Waiting, AtMark, RepeatedOnlyIfInterrupted
<1> QED BY <1>1, <1>2, <1>3, <1>4, <1>5, <1>6, <1>7, <1>8, <1>9, <1>10, <1>11, <1>12, <1>13, <1>14, <1>15, <1>16
         DEF Next, RunStep

------------------------------------------------------------------------------
(* The history of one agent *)

\* The calls without a result, after an entry was written.
LEMMA OpenAfter ==
    ASSUME Typed, NEW a \in Agents, NEW t \in {"question", "calls", "result"}, NEW cs \in SUBSET Calls,
           memory' = [memory EXCEPT ![a] = @ \o <<Entry(t, cs)>>]
    PROVE  /\ t = "calls" => Open(a)' \subseteq Open(a) \cup cs
           /\ t = "result" => Open(a)' = Open(a) \ cs
           /\ t = "question" => Open(a)' = Open(a)
<1> DEFINE m == Entry(t, cs)
<1>1. m \in Entries /\ m.type = t /\ m.calls = cs /\ m.synthetic = {}
  BY DEF Entry, Entries
<1>2. Answers(m) = IF t = "result" THEN cs ELSE {}
  BY <1>1 DEF Answers
<1>3. memory[a] \in Seq(Entries) /\ memory'[a] = memory[a] \o <<m>>
  BY DEF Typed
<1>4. /\ CallsIn(memory'[a]) = CallsIn(memory[a]) \cup (IF t = "calls" THEN cs ELSE {})
      /\ AnsweredIn(memory'[a]) = AnsweredIn(memory[a]) \cup (IF t = "result" THEN cs ELSE {})
  BY <1>1, <1>2, <1>3, AppendedCalls
<1>5. /\ Open(a) = CallsIn(memory[a]) \ AnsweredIn(memory[a])
      /\ Open(a)' = CallsIn(memory'[a]) \ AnsweredIn(memory'[a])
  BY DEF Open
<1> QED BY <1>4, <1>5

\* With one agent and one window, each call without a result is pending, or the run
\* that made it is working on it.
LEMMA AccountedStep ==
    ASSUME OneAgent, OneResolver
    PROVE  CInv /\ Owned /\ Accounted /\ [Next]_vars => Accounted'
<1> SUFFICES ASSUME CInv, Owned, Accounted, [Next]_vars PROVE Accounted'
  OBVIOUS
<1> USE DEF session, local, history
<1>t. Typed /\ Consented
  BY DEF CInv
<1>s. ASSUME UNCHANGED memory PROVE \A a \in Agents : Open(a)' = Open(a)
  BY <1>s DEF Open
<1>1. ASSUME NEW a \in Agents, NEW question \in BOOLEAN, Start(a, question) PROVE Accounted'
  <2> DEFINE q == IF question THEN <<Entry("question", {})>> ELSE <<>>
  <2>1. /\ pc[a] = "idle" /\ pc'[a] = "saving" /\ UNCHANGED pending
        /\ memory'[a] = Restored(a) \o q
    BY <1>1, <1>t DEF Start, Goto, Typed
  <2>2. Restored(a) \in Seq(Entries)
    BY <1>t, RestoredAnswers
  <2>3. CallsIn(memory'[a]) = CallsIn(Restored(a)) /\ AnsweredIn(memory'[a]) = AnsweredIn(Restored(a))
    <3>1. CASE question
      <4>1. /\ Entry("question", {}) \in Entries /\ Entry("question", {}).type = "question"
            /\ Answers(Entry("question", {})) = {}
        BY DEF Entry, Entries, Answers
      <4> QED BY <2>1, <2>2, <3>1, <4>1, AppendedCalls
    <3>2. CASE ~question
      <4>1. memory'[a] = Restored(a)
        BY <2>1, <2>2, <3>2
      <4> QED BY <4>1
    <3> QED BY <3>1, <3>2
  <2>4. CallsIn(Restored(a)) \ AnsweredIn(Restored(a)) \subseteq Waiting
    <3>1. CASE memory[a] = <<>>
      BY <1>t, <3>1, RestoredAnswers
    <3>2. CASE memory[a] # <<>>
      BY <2>1, <3>2 DEF Restored, Accounted, Open
    <3> QED BY <3>1, <3>2
  <2>5. Open(a)' \subseteq Waiting'
    BY <2>1, <2>3, <2>4 DEF Open, Waiting
  <2> QED BY <2>1, <2>5 DEF Accounted, OneAgent
<1>2. ASSUME NEW a \in Agents, Save(a) PROVE Accounted'
  <2>1. /\ pc[a] = "saving" /\ pc'[a] = IF snapshot[a] = <<>> THEN "preparing" ELSE "resuming"
        /\ UNCHANGED <<pending, memory, turn>> /\ snapshot[a] = pending
    BY <1>2, <1>t DEF Save, Goto, Typed, Owned
  <2>2. Waiting' = Waiting /\ Open(a)' = Open(a) /\ Open(a) \subseteq Waiting
    BY <1>s, <2>1 DEF Waiting, Accounted
  <2>3. snapshot[a] = <<>> => Waiting = {}
    BY <2>1 DEF Waiting
  <2> QED BY <2>1, <2>2, <2>3 DEF Accounted, OneAgent
<1>3. ASSUME NEW a \in Agents, NEW c \in Calls, Resume(a, c) PROVE Accounted'
  <2>1. /\ pc[a] = "resuming" /\ pc'[a] = "marking" /\ turn'[a] = {c} /\ UNCHANGED pending
        /\ memory' = [memory EXCEPT ![a] = @ \o <<Entry("result", {c})>>]
    BY <1>3, <1>t DEF Resume, Goto, Write, Typed
  <2>2. {c} \in SUBSET Calls
    OBVIOUS
  <2>3. Open(a)' = Open(a) \ {c} /\ Open(a) \subseteq Waiting /\ Waiting' = Waiting
    BY <1>t, <2>1, <2>2, OpenAfter DEF Accounted, Waiting
  <2> QED BY <2>1, <2>3 DEF Accounted, OneAgent
<1>4. ASSUME NEW a \in Agents, Mark(a) PROVE Accounted'
  <2> DEFINE s == Marked(snapshot[a], turn[a])
  <2>1. snapshot' = [snapshot EXCEPT ![a] = s] /\ pending' = snapshot'[a] /\ UNCHANGED <<memory, turn>>
    BY <1>4 DEF Mark, Marked
  <2>2. pending' = s /\ snapshot[a] = pending /\ pc[a] = "marking" /\ pc'[a] = "resuming"
    BY <1>4, <1>t, <2>1 DEF Mark, Goto, Typed, Owned
  <2>3. /\ DOMAIN s = DOMAIN pending
        /\ \A x \in DOMAIN s : s[x].consumed <=> x \in turn[a] \/ pending[x].consumed
    BY <1>t, <2>2, MarkedRow DEF Typed
  <2> HIDE DEF s
  <2>4. Waiting \ turn[a] \subseteq Waiting'
    BY <2>2, <2>3 DEF Waiting
  <2> QED BY <1>s, <2>1, <2>2, <2>4 DEF Accounted, OneAgent
<1>5. ASSUME NEW a \in Agents, Clear(a) PROVE Accounted'
  <2>1. /\ pc[a] = "resuming" /\ pc'[a] = "flushing" /\ UNCHANGED memory
        /\ snapshot[a] = pending /\ \A c \in DOMAIN pending : pending[c].consumed
    BY <1>5, <1>t DEF Clear, Goto, Typed, Owned
  <2>2. Open(a)' = {}
    BY <1>s, <2>1 DEF Accounted, Waiting
  <2> QED BY <2>1, <2>2 DEF Accounted, OneAgent
<1>6. ASSUME NEW a \in Agents, Flush(a) PROVE Accounted'
  <2>1. /\ (pc[a] = "flushing" /\ pc'[a] = "preparing") \/ (pc[a] = "ending" /\ pc'[a] = "idle")
        /\ UNCHANGED memory /\ UNCHANGED pending
    <3>1. CASE pc[a] = "flushing"
      BY <1>6, <1>t, <3>1 DEF Flush, Goto, Typed
    <3>2. CASE pc[a] = "ending"
      BY <1>6, <1>t, <3>2 DEF Flush, Goto, Typed
    <3> QED BY <1>6, <3>1, <3>2 DEF Flush
  <2> QED BY <1>s, <2>1 DEF Accounted, Waiting, OneAgent
<1>7. ASSUME NEW a \in Agents, Prepare(a) PROVE Accounted'
  <2>1. pc[a] = "preparing" /\ pc'[a] = "asking" /\ UNCHANGED memory
    BY <1>7, <1>t DEF Prepare, Goto, Typed
  <2> QED BY <1>s, <2>1 DEF Accounted, OneAgent
<1>8. ASSUME NEW a \in Agents, Execute(a) PROVE Accounted'
  <2> DEFINE asking == {c \in turn[a] : Asks(a, c)}
             answered == turn[a] \ asking
  <2>1. /\ pc[a] = "calling" /\ turn'[a] = asking /\ pc'[a] = IF asking = {} THEN "saved" ELSE "posting"
        /\ memory' = [memory EXCEPT ![a] = @ \o IF answered = {} THEN <<>> ELSE <<Entry("result", answered)>>]
    BY <1>8, <1>t DEF Execute, Goto, Write, Typed
  <2>2. Open(a) \subseteq turn[a] /\ answered \in SUBSET Calls
    BY <1>t, <2>1 DEF Accounted, Typed
  <2>3. Open(a)' \subseteq asking
    <3>1. CASE answered = {}
      BY <1>t, <1>s, <2>1, <2>2, <3>1, WrittenNothing
    <3>2. CASE answered # {}
      <4>1. memory' = [memory EXCEPT ![a] = @ \o <<Entry("result", answered)>>]
        BY <2>1, <3>2
      <4> HIDE DEF answered, asking
      <4>2. Open(a)' = Open(a) \ answered
        BY <1>t, <2>2, <4>1, OpenAfter
      <4> QED BY <2>2, <4>2 DEF answered
    <3> QED BY <3>1, <3>2
  <2> QED BY <2>1, <2>3 DEF Accounted, OneAgent
<1>9. ASSUME NEW a \in Agents, Iterate(a) PROVE Accounted'
  <2>1. pc[a] = "saved" /\ pc'[a] = "asking" /\ UNCHANGED memory
    BY <1>9, <1>t DEF Iterate, Goto, Typed
  <2> QED BY <1>s, <2>1 DEF Accounted, OneAgent
<1>10. ASSUME NEW a \in Agents, Post(a) PROVE Accounted'
  <2>1. /\ pc[a] = "posting" /\ pc'[a] = "ending" /\ UNCHANGED memory
        /\ DOMAIN pending' = turn[a] /\ \A c \in turn[a] : pending'[c].consumed = FALSE
    BY <1>10, <1>t DEF Post, Goto, Typed
  <2>2. Waiting' = turn[a]
    BY <2>1 DEF Waiting
  <2> QED BY <1>s, <2>1, <2>2 DEF Accounted, OneAgent
<1>11. ASSUME NEW a \in Agents, NEW cs \in SUBSET Calls, Ask(a, cs) PROVE Accounted'
  <2>1. /\ pc[a] = "asking" /\ turn'[a] = cs /\ pc'[a] = IF cs = {} THEN "ending" ELSE "calling"
        /\ memory' = [memory EXCEPT ![a] = @ \o IF cs = {} THEN <<>> ELSE <<Entry("calls", cs)>>]
    BY <1>11, <1>t DEF Ask, Goto, Write, Typed
  <2>2. Open(a) = {}
    BY <2>1 DEF Accounted
  <2>3. Open(a)' \subseteq cs
    <3>1. CASE cs = {}
      BY <1>t, <1>s, <2>1, <2>2, <3>1, WrittenNothing
    <3>2. CASE cs # {}
      <4>1. Open(a)' \subseteq Open(a) \cup cs
        BY <1>t, <2>1, <3>2, OpenAfter
      <4> QED BY <2>2, <4>1
    <3> QED BY <3>1, <3>2
  <2> QED BY <2>1, <2>3 DEF Accounted, OneAgent
<1>12. ASSUME NEW r \in Resolvers, NEW c \in Calls, NEW d \in Decisions, Read(r, c, d) PROVE Accounted'
  BY <1>12, <1>s DEF Read, Accounted, Waiting
<1>13. ASSUME NEW r \in Resolvers, SaveRule(r) PROVE Accounted'
  BY <1>13, <1>s DEF SaveRule, Accounted, Waiting
<1>14. ASSUME NEW r \in Resolvers, Decide(r) PROVE Accounted'
  <2> DEFINE w == window[r]
  <2>1. pending' = Decided(w.read, w.call, w.decision) /\ w.read = pending /\ UNCHANGED <<pc, turn, memory>>
    BY <1>14 DEF Decide, Decided, Owned
  <2>2. IsRow(w.read) /\ w.call \in DOMAIN w.read /\ w.decision \in Decisions
    BY <1>14, <1>t DEF Decide, Typed
  <2>3. DOMAIN pending' = DOMAIN pending /\ \A x \in DOMAIN pending : pending'[x].consumed = pending[x].consumed
    BY <2>1, <2>2, DecidedRow
  <2>4. Waiting' = Waiting
    BY <2>3 DEF Waiting
  <2> QED BY <1>s, <2>1, <2>4 DEF Accounted
<1>15. CASE Restart
  <2>1. \A a \in Agents : pc'[a] = "idle" /\ memory'[a] = <<>>
    BY <1>15 DEF Restart
  <2>2. CallsIn(<<>>) = {}
    BY DEF CallsIn
  <2>3. \A a \in Agents : Open(a)' = {}
    BY <2>1, <2>2 DEF Open
  <2> QED BY <2>1, <2>3 DEF Accounted
<1>16. CASE UNCHANGED vars
  BY <1>16, <1>s DEF vars, Accounted, Waiting
<1> QED BY <1>1, <1>2, <1>3, <1>4, <1>5, <1>6, <1>7, <1>8, <1>9, <1>10, <1>11, <1>12, <1>13, <1>14, <1>15, <1>16
         DEF Next, RunStep

\* The whole invariant holds at the start.
LEMMA IInvInit == Init => IInv
<1> SUFFICES ASSUME Init PROVE IInv
  OBVIOUS
<1>1. CallsIn(<<>>) = {}
  BY DEF CallsIn
<1>2. Accounted
  BY <1>1 DEF Init, Accounted, Open
<1>3. Owned /\ Unspent /\ RepeatedOnlyIfInterrupted
  BY DEF Init, Owned, Undecided, Unspent, Waiting, RepeatedOnlyIfInterrupted
<1> QED BY <1>2, <1>3, CInvInit DEF IInv

\* With one agent and one window, every step keeps the whole invariant.
LEMMA IInvStep ==
    ASSUME OneAgent, OneResolver
    PROVE  IInv /\ [Next]_vars => IInv'
BY CInvStep, OwnedStep, UnspentStep, AccountedStep DEF IInv

\* With one agent and one window a call is executed once, or again where a crash cut its
\* execution off from the mark: _resume_pending_tool_calls marks a call after it has run.
THEOREM NoCallRepeated ==
    ASSUME OneAgent, OneResolver
    PROVE  Spec => []RepeatedOnlyIfInterrupted
<1>1. IInv => RepeatedOnlyIfInterrupted
  BY DEF IInv
<1> QED BY <1>1, IInvInit, IInvStep, PTL DEF Spec

\* With one agent and one window the model is asked with a history in which each call
\* has a result, through asks, decisions, resumptions and restarts.
THEOREM AskedWithResults ==
    ASSUME OneAgent, OneResolver
    PROVE  Spec => []ModelSeesResults
<1>1. IInv => ModelSeesResults
  BY DEF IInv, CInv, Typed, Accounted, Open, ModelSeesResults
<1> QED BY <1>1, IInvInit, IInvStep, PTL DEF Spec
==============================================================================
