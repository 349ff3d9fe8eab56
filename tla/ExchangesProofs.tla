--------------------------- MODULE ExchangesProofs ---------------------------
(***************************************************************************)
(* Proofs about MCExchanges, for every value of its constants: the         *)
(* sessions with an MCP server (McpSession), the requests of a transport   *)
(* (Requests), the endpoints of a team (TeamRoutes), the MCP servers of    *)
(* the agents (McpServers), the calls of a model (ModelCalls) and the      *)
(* commands of a sandbox (Commands).  For each, the invariant, a lemma for *)
(* each action or group of actions, and the theorem.                       *)
(***************************************************************************)
EXTENDS MCExchanges, SequenceTheorems, WellFoundedInduction, TLAPS

-----------------------------------------------------------------------------
(* The composition: a behaviour is one of a single component. *)

\* A behaviour begins as one of the component under way.
LEMMA OneBegins ==
  ASSUME Init
  PROVE  /\ part = "requests" => Q!Init
         /\ part = "routes" => T!Init
         /\ part = "model" => C!Init
         /\ part = "command" => K!Init
         /\ part = "session" => M!Init
         /\ part = "servers" => V!Init
BY DEF Init

\* A step is one of the component under way, or leaves it alone.
LEMMA OneSteps ==
  ASSUME [Next]_vars
  PROVE  /\ part' = part
         /\ part = "requests" => [Q!Next]_Q!vars
         /\ part = "routes" => [T!Next]_T!vars
         /\ part = "model" => [C!Next]_C!vars
         /\ part = "command" => [K!Next]_K!vars
         /\ part = "session" => [M!Next]_M!vars
         /\ part = "servers" => [V!Next]_V!vars
<1>1. CASE UNCHANGED vars
  BY <1>1 DEF vars, requestsVars, routesVars, modelVars, commandVars, sessionVars, serverVars,
     Q!vars, T!vars, C!vars, K!vars, M!vars, V!vars
<1>2. CASE InRequests(Q!Next) BY <1>2 DEF InRequests
<1>3. CASE InRoutes(T!Next) BY <1>3 DEF InRoutes
<1>4. CASE InModel(C!Next) BY <1>4 DEF InModel
<1>5. CASE InCommand(K!Next) BY <1>5 DEF InCommand
<1>6. CASE InSession(M!Next) BY <1>6 DEF InSession
<1>7. CASE InServers(V!Next) BY <1>7 DEF InServers
<1>8. QED BY <1>1, <1>2, <1>3, <1>4, <1>5, <1>6, <1>7 DEF Next

-----------------------------------------------------------------------------
(* An MCP session: what it returns is the answer to its own last request. *)

\* The servers the theorem is about.  Discovery takes what comes next for the answer, and
\* of a body that was cut the last message is taken: there the code does return another.
Quiet == M!McpSessionAssumption /\ "discovery" \notin Chatty /\ ~CutBodies

Methods == {"initialize", "tools/list", "tools/call"}
Said == [id : Nat, says : Methods \cup {"error", "garbage", "notification"}]

\* What is left of a sequence without its head.
LEMMA TailFacts ==
  ASSUME NEW S, NEW s \in Seq(S), s # <<>>
  PROVE  /\ Tail(s) \in Seq(S) /\ Len(Tail(s)) = Len(s) - 1
         /\ \A i \in DOMAIN Tail(s) : i + 1 \in DOMAIN s /\ Tail(s)[i] = s[i + 1]
OBVIOUS

\* A sequence with an element added.
LEMMA AppendFacts ==
  ASSUME NEW S, NEW s \in Seq(S), NEW e \in S
  PROVE  /\ Append(s, e) \in Seq(S) /\ Len(Append(s, e)) = Len(s) + 1
         /\ \A i \in 1..Len(s) : Append(s, e)[i] = s[i]
         /\ Append(s, e)[Len(s) + 1] = e
         /\ DOMAIN s = 1..Len(s) /\ DOMAIN Append(s, e) = 1..Len(s) + 1
OBVIOUS

\* A sequence with one element replaced.
LEMMA ReplaceFacts ==
  ASSUME NEW S, NEW s \in Seq(S), NEW n \in DOMAIN s, NEW e \in S
  PROVE  /\ [s EXCEPT ![n] = e] \in Seq(S) /\ Len([s EXCEPT ![n] = e]) = Len(s)
         /\ DOMAIN [s EXCEPT ![n] = e] = DOMAIN s /\ DOMAIN s = 1..Len(s)
         /\ \A i \in DOMAIN s : [s EXCEPT ![n] = e][i] = IF i = n THEN e ELSE s[i]
         /\ [s EXCEPT ![n] = e] # <<>>
OBVIOUS

\* What is left of a sequence behind its first n elements.
LEMMA RestFacts ==
  ASSUME NEW S, NEW s \in Seq(S), NEW n \in Nat, n <= Len(s)
  PROVE  /\ SubSeq(s, n + 1, Len(s)) \in Seq(S) /\ Len(SubSeq(s, n + 1, Len(s))) = Len(s) - n
         /\ \A i \in 1..Len(SubSeq(s, n + 1, Len(s))) : SubSeq(s, n + 1, Len(s))[i] = s[n + i]
OBVIOUS

\* A sequence with an element put in front of it.
LEMMA InFront ==
  ASSUME NEW S, NEW e \in S, NEW s \in Seq(S)
  PROVE  /\ Len(<<e>> \o s) = Len(s) + 1 /\ DOMAIN (<<e>> \o s) = 1..Len(s) + 1
         /\ (<<e>> \o s)[1] = e /\ \A i \in 1..Len(s) : (<<e>> \o s)[i + 1] = s[i]
<1>1. <<e>> \in Seq(S) /\ Len(<<e>>) = 1 /\ <<e>>[1] = e
  OBVIOUS
<1>2. /\ <<e>> \o s \in Seq(S) /\ Len(<<e>> \o s) = 1 + Len(s)
      /\ \A i \in 1..1 + Len(s) : (<<e>> \o s)[i] = IF i <= 1 THEN <<e>>[i] ELSE s[i - 1]
  BY <1>1, ConcatProperties
<1>3. QED BY <1>1, <1>2

\* A set of numbers has a least one.
LEMMA LeastIsMember ==
    ASSUME NEW S \in SUBSET Nat, S # {}
    PROVE  M!First(S) \in S
<1>1. PICK n \in S : \A k \in S : ~(<<k, n>> \in OpToRel(<, Nat))
  BY NatLessThanWellFounded, WFMin, Zenon
<1>2. \A k \in S : ~(k < n)
  BY <1>1 DEF OpToRel
<1>3. \A k \in S : n <= k
  BY <1>2
<1>4. QED BY <1>3 DEF M!First

\* The program: the session is at a place of its plan.
Planned ==
    \E n \in 0..Len(M!Plan(kind)) :
        /\ methods = SubSeq(M!Plan(kind), n + 1, Len(M!Plan(kind)))
        /\ request.method # "none" => n > 0 /\ request.method = M!Plan(kind)[n]

\* The types, and what goes with them.
SessionTyped ==
    /\ kind \in Sessions
    /\ carrier = "lines" <=> kind # "http"
    /\ carrier \in {"lines", "streamable", "sse"}
    /\ request = M!None \/ (request.id = made /\ made > 0 /\ request.method \in Methods)
    /\ waiting \subseteq {request.id} \ {0} /\ (carrier # "sse" => waiting = {})
    /\ closed \in BOOLEAN /\ noise \in 0..MaxNoise /\ made \in Nat
    /\ kind \notin Chatty => noise = 0
    /\ outcome # M!Open => request = M!None

\* What the server owes and what it has said.
Owed ==
    \A i \in DOMAIN sent :
        /\ sent[i].id \in 1..made
        /\ sent[i].id = request.id => sent[i].says = request.method
Fits(m, r) == m.id = r.id /\ r # M!None => m.says \in {r.method, "error"}
Heard ==
    \A i \in DOMAIN wire :
        /\ wire[i].id \in 0..made
        /\ Fits(wire[i], request)
Lines == sent \in Seq(Said) /\ wire \in Seq(Said) /\ Owed /\ Heard

\* Who takes the next message for the answer, or all of a response, finds nothing else there.
Alone ==
    outcome = M!Open /\ (kind = "discovery" \/ carrier = "streamable") =>
        /\ Len(sent) <= 1
        /\ request = M!None => sent = <<>> /\ wire = <<>>
        /\ \A i \in DOMAIN sent : sent[i].id = request.id
        /\ \A i \in DOMAIN wire : wire[i].id \in {0, request.id}
        /\ kind = "discovery" => Len(sent) + Len(wire) <= 1 /\ \A i \in DOMAIN wire : wire[i].id # 0
        /\ carrier = "streamable" /\ closed =>
             /\ sent = <<>>
             /\ request # M!None => \E i \in DOMAIN wire : wire[i].id = request.id

\* What the session returns.
Own ==
    /\ outcome.says \notin {"open", "error", "hung"} => outcome = M!Message(made, M!Plan(kind)[Len(M!Plan(kind))])
    /\ outcome.says \in {"open", "error", "hung"} => outcome.id = 0

\* The invariant.
SessionInv == SessionTyped /\ Planned /\ Lines /\ Alone /\ Own

\* A plan begins with initialize, and has it once.
LEMMA PlanFacts ==
  ASSUME NEW k \in {"discovery", "stdio", "http"}
  PROVE  /\ M!Plan(k) \in Seq(Methods) /\ Len(M!Plan(k)) \in {2, 3}
         /\ M!Plan(k)[1] = "initialize"
         /\ \A i \in 2..Len(M!Plan(k)) : M!Plan(k)[i] # "initialize"
<1>1. CASE k = "discovery" BY <1>1 DEF M!Plan, Methods
<1>2. CASE k = "stdio" BY <1>2 DEF M!Plan, Methods
<1>3. CASE k = "http" BY <1>3 DEF M!Plan, Methods
<1>4. QED BY <1>1, <1>2, <1>3

\* A session that has run its whole plan waits for the answer to the last request of it.
LEMMA PlanIsRun ==
  ASSUME Planned, kind \in {"discovery", "stdio", "http"}, request.method # "none"
  PROVE  /\ methods = <<>> => request.method = M!Plan(kind)[Len(M!Plan(kind))]
         /\ request.method = "initialize" => methods # <<>>
<1> DEFINE p == M!Plan(kind)
<1>1. PICK n \in 0..Len(p) : /\ methods = SubSeq(p, n + 1, Len(p))
                             /\ n > 0 /\ request.method = p[n]
  BY DEF Planned
<1>2. /\ p \in Seq(Methods) /\ Len(p) \in {2, 3}
      /\ \A i \in 2..Len(p) : p[i] # "initialize"
  BY PlanFacts
<1> HIDE DEF p
<1>3. ASSUME n < Len(p) PROVE methods # <<>>
  <2>1. Len(methods) = Len(p) - n
    BY <1>1, <1>2, <1>3, SubSeqProperties
  <2>2. QED BY <2>1, <1>2, <1>3
<1>4. methods = <<>> => request.method = p[Len(p)]
  BY <1>1, <1>2, <1>3
<1>5. ASSUME request.method = "initialize" PROVE methods # <<>>
  <2>1. p[n] = "initialize" /\ n > 0 /\ n \in Nat /\ n <= Len(p)
    BY <1>1, <1>2, <1>5
  <2>2. n < Len(p)
    <3>1. n \notin 2..Len(p) BY <1>2, <2>1
    <3>2. Len(p) \in {2, 3} BY <1>2
    <3>3. QED BY <2>1, <3>1, <3>2
  <2>3. QED BY <2>2, <1>3
<1>6. QED BY <1>4, <1>5 DEF p

\* The request that goes out is the next of the plan.
LEMMA SendPlanned ==
  ASSUME Planned, kind \in {"discovery", "stdio", "http"}, M!Send
  PROVE  Planned' /\ request'.method \in Methods
<1> DEFINE p == M!Plan(kind)
<1>1. PICK n \in 0..Len(p) : methods = SubSeq(p, n + 1, Len(p))
  BY DEF Planned
<1>2. p \in Seq(Methods) /\ Len(p) \in {2, 3}
  BY PlanFacts
<1>3. methods # <<>> /\ methods' = Tail(methods) /\ kind' = kind /\ request'.method = Head(methods)
  BY DEF M!Send
<1>4. p' = p
  BY <1>3 DEF M!Plan
<1> HIDE DEF p
<1>5. n < Len(p) /\ Head(methods) = p[n + 1] /\ Tail(methods) = SubSeq(p, n + 2, Len(p))
  <2>1. n < Len(p)
    BY <1>1, <1>2, <1>3
  <2>2. Len(methods) = Len(p) - n /\ methods[1] = p[n + 1]
    BY <1>1, <1>2, <2>1
  <2>3. Tail(methods) = SubSeq(p, n + 2, Len(p))
    BY <1>1, <1>2, <2>1, <2>2
  <2>4. QED BY <2>1, <2>2, <2>3
<1>6. /\ methods' = SubSeq(p', (n + 1) + 1, Len(p'))
      /\ request'.method = p'[n + 1] /\ n + 1 \in 1..Len(p') /\ p'[n + 1] \in Methods
  BY <1>2, <1>3, <1>4, <1>5
<1>7. QED BY <1>6 DEF Planned, p


\* A request that goes out has a new id.
LEMMA SendKeeps ==
  ASSUME Quiet, SessionInv, M!Send
  PROVE  SessionInv'
<1>1. kind \in {"discovery", "stdio", "http"}
  BY DEF Quiet, M!McpSessionAssumption, SessionInv, SessionTyped
<1>2. Planned' /\ request'.method \in Methods
  BY <1>1, SendPlanned DEF SessionInv
<1>3. SessionTyped'
  BY <1>2 DEF M!Send, SessionInv, SessionTyped, M!None
<1> DEFINE m == M!Message(made + 1, Head(methods))
<1>m. m \in Said /\ m.id = made + 1 /\ m.says = request'.method /\ sent' = Append(sent, m)
  <2>1. request'.method = Head(methods) /\ sent' = Append(sent, m)
    BY DEF M!Send
  <2>2. Head(methods) \in Methods
    BY <2>1, <1>2
  <2>4. made + 1 \in Nat
    BY DEF SessionInv, SessionTyped
  <2>3. QED BY <2>1, <2>2, <2>4 DEF M!Message, Said
<1> HIDE DEF m
<1>a. /\ wire' = wire /\ made' = made + 1 /\ request'.id = made + 1 /\ request' # M!None
      /\ request = M!None /\ made \in Nat /\ kind' = kind /\ carrier' = carrier
      /\ closed' = (carrier = "lines" /\ closed) /\ outcome = M!Open
  BY DEF M!Send, M!None, SessionInv, SessionTyped
<1>4. Lines'
  <2>1. sent' \in Seq(Said)
    BY <1>m, AppendFacts DEF SessionInv, Lines, Owed, Heard, Fits
  <2>2. \A i \in DOMAIN sent' : sent'[i].id \in 1..made' /\ (sent'[i].id = request'.id => sent'[i].says = request'.method)
    BY <1>m, <1>a, AppendFacts DEF SessionInv, Lines, Owed, Heard, Fits
  <2>3. QED BY <1>a, <2>1, <2>2 DEF SessionInv, Lines, Owed, Heard, Fits
<1>5. Alone'
  <2>1. CASE kind = "discovery" \/ carrier = "streamable"
    <3>1. sent = <<>> /\ wire = <<>>
      BY <2>1, <1>a DEF SessionInv, Alone
    <3>2. sent' = <<m>>
      BY <3>1, <1>m
    <3>3. kind = "discovery" => carrier = "lines"
      BY DEF SessionInv, SessionTyped
    <3>4. carrier = "streamable" => ~closed'
      BY <1>a
    <3>5. QED BY <1>m, <1>a, <3>1, <3>2, <3>3, <3>4 DEF Alone
  <2>2. QED BY <2>1, <1>a DEF Alone
<1>6. Own'
  BY DEF M!Send, Own, M!Open, M!Message
<1>7. QED BY <1>2, <1>3, <1>4, <1>5, <1>6 DEF SessionInv

\* What is still to be read was there before.
LEMMA WireShrinks ==
  ASSUME Lines, wire' \in {wire, <<>>} \/ (wire # <<>> /\ wire' = Tail(wire))
  PROVE  /\ wire' \in Seq(Said)
         /\ \A i \in DOMAIN wire' : wire'[i].id \in 0..made
<1>1. CASE wire' = wire BY <1>1 DEF Lines, Owed, Heard, Fits
<1>2. CASE wire' = <<>> BY <1>2
<1>3. CASE wire # <<>> /\ wire' = Tail(wire) BY <1>3, TailFacts DEF Lines, Owed, Heard, Fits
<1>4. QED BY <1>1, <1>2, <1>3

\* An error ends the session.
LEMMA RaiseKeeps ==
  ASSUME Quiet, SessionInv, M!Raise, waiting' \subseteq {},
         UNCHANGED <<kind, carrier, methods, closed, noise, made>>,
         sent' = sent, wire' \in {wire, <<>>} \/ (wire # <<>> /\ wire' = Tail(wire))
  PROVE  SessionInv'
<1>1. SessionTyped'
  BY DEF M!Raise, SessionInv, SessionTyped, M!None, M!Message, M!Open
<1>2. Planned'
  BY DEF M!Raise, SessionInv, Planned, M!None, M!Plan
<1>3. Lines'
  <2>1. wire' \in Seq(Said) /\ \A i \in DOMAIN wire' : wire'[i].id \in 0..made
    BY WireShrinks DEF SessionInv
  <2>2. request' = M!None /\ made' = made /\ sent' = sent
    BY DEF M!Raise
  <2>3. \A i \in DOMAIN sent : sent[i].id # 0
    BY DEF SessionInv, Lines, Owed, Heard, Fits
  <2>4. QED BY <2>1, <2>2, <2>3 DEF SessionInv, Lines, Owed, Heard, Fits, M!None
<1>4. Alone'
  BY DEF M!Raise, Alone, M!Open, M!Message
<1>5. Own'
  BY DEF M!Raise, Own, M!Message
<1>6. QED BY <1>1, <1>2, <1>3, <1>4, <1>5 DEF SessionInv

\* The message taken for the answer is the answer.
LEMMA TakeKeeps ==
  ASSUME Quiet, SessionInv, NEW m, m \in Said,
         request # M!None,
         request.method = "initialize" \/ (M!Mine(m) /\ m.says \in {request.method, "error"}),
         M!Take(m), waiting' \subseteq {},
         UNCHANGED <<kind, carrier, methods, closed, noise, made>>,
         sent' = sent, wire' = <<>> \/ (wire # <<>> /\ wire' = Tail(wire)),
         kind = "discovery" \/ carrier = "streamable" => sent' = <<>> /\ wire' = <<>>
  PROVE  SessionInv'
<1>1. CASE m.says = "error"
  BY <1>1, RaiseKeeps DEF M!Take
<1>2. CASE m.says # "error"
  <2>1. request' = M!None /\ outcome' = IF methods = <<>> THEN m ELSE M!Open
    BY <1>2 DEF M!Take
  <2>2. SessionTyped'
    BY <2>1 DEF SessionInv, SessionTyped, M!None
  <2>3. Planned'
    BY <2>1 DEF SessionInv, Planned, M!None, M!Plan
  <2>4. Lines'
    <3>1. wire' \in Seq(Said) /\ \A i \in DOMAIN wire' : wire'[i].id \in 0..made
      BY WireShrinks DEF SessionInv
    <3>3. \A i \in DOMAIN sent : sent[i].id # 0
      BY DEF SessionInv, Lines, Owed, Heard, Fits
    <3>4. QED BY <3>1, <2>1, <3>3 DEF SessionInv, Lines, Owed, Heard, Fits, M!None
  <2>5. Alone'
    BY <2>1 DEF Alone, M!None
  <2>6. Own'
    <3>1. CASE methods = <<>>
      <4>1. request.method \in Methods /\ request.id = made /\ kind \in {"discovery", "stdio", "http"}
        BY DEF Quiet, M!McpSessionAssumption, SessionInv, SessionTyped
      <4>2. request.method = M!Plan(kind)[Len(M!Plan(kind))] /\ request.method # "initialize"
        BY <3>1, <4>1, PlanIsRun DEF SessionInv, Methods
      <4>3. m.id = made /\ m.says = M!Plan(kind)[Len(M!Plan(kind))]
        BY <1>2, <4>1, <4>2 DEF M!Mine
      <4>4. m = M!Message(made, M!Plan(kind)[Len(M!Plan(kind))])
        BY <4>3 DEF M!Message, Said
      <4>5. made' = made /\ M!Plan(kind)' = M!Plan(kind)
        BY DEF M!Plan
      <4>6. m.says \notin {"open", "error", "hung"}
        BY <1>2 DEF Said, Methods
      <4>7. QED BY <4>4, <4>5, <4>6, <2>1, <3>1 DEF Own
    <3>2. CASE methods # <<>>
      BY <2>1, <3>2 DEF Own, M!Open, M!Message
    <3>3. QED BY <3>1, <3>2
  <2>7. QED BY <2>2, <2>3, <2>4, <2>5, <2>6 DEF SessionInv
<1>3. QED BY <1>1, <1>2

\* A line that is passed over.
LEMMA SkipKeeps ==
  ASSUME Quiet, SessionInv, kind # "discovery", carrier # "streamable", wire # <<>>, wire' = Tail(wire),
         request'.id = request.id, request'.method = request.method, request' = M!None <=> request = M!None,
         UNCHANGED <<kind, carrier, methods, waiting, sent, closed, noise, made, outcome>>
  PROVE  SessionInv'
<1>1. SessionTyped'
  BY DEF SessionInv, SessionTyped
<1>2. Planned'
  BY DEF SessionInv, Planned, M!Plan
<1>3. Lines'
  <2>1. wire' \in Seq(Said) /\ \A i \in DOMAIN wire' : i + 1 \in DOMAIN wire /\ wire'[i] = wire[i + 1]
    BY TailFacts DEF SessionInv, Lines, Owed, Heard, Fits
  <2>2. QED BY <2>1 DEF SessionInv, Lines, Owed, Heard, Fits
<1>4. Alone'
  BY DEF Alone
<1>5. Own'
  BY DEF SessionInv, Own, M!Plan
<1>6. QED BY <1>1, <1>2, <1>3, <1>4, <1>5 DEF SessionInv

\* The response to initialize: the first line that is JSON.
LEMMA ReadInitializeKeeps ==
  ASSUME Quiet, SessionInv, M!ReadInitialize
  PROVE  SessionInv'
<1> DEFINE m == Head(wire)
<1>1. /\ carrier = "lines" /\ request.method = "initialize" /\ wire # <<>> /\ wire' = Tail(wire)
      /\ waiting' = {}
      /\ UNCHANGED <<kind, carrier, methods, waiting, sent, closed, noise, made>>
  BY DEF M!ReadInitialize, SessionInv, SessionTyped
<1>2. request # M!None
  BY <1>1 DEF M!None
<1>3. m \in Said /\ m = wire[1] /\ 1 \in DOMAIN wire
  BY <1>1, TailFacts DEF SessionInv, Lines, Owed, Heard, Fits
<1>a. outcome = M!Open
  BY <1>2 DEF SessionInv, SessionTyped
<1>4. CASE m = M!Garbage
  <2>1. kind # "discovery"
    BY <1>3, <1>a, <1>4 DEF SessionInv, Alone, M!Garbage, M!Message
  <2>2. UNCHANGED <<request, outcome>>
    BY <1>4 DEF M!ReadInitialize
  <2>3. QED BY <2>1, <2>2, <1>1, SkipKeeps
<1>5. CASE m # M!Garbage
  <2>1. M!Take(m)
    BY <1>5 DEF M!ReadInitialize
  <2>2. kind = "discovery" \/ carrier = "streamable" => sent' = <<>> /\ wire' = <<>>
    <3>1. CASE kind = "discovery"
      <4>1. Len(sent) + Len(wire) <= 1 /\ sent \in Seq(Said) /\ wire \in Seq(Said)
        BY <3>1, <1>a DEF SessionInv, Alone, Lines, Owed, Heard, Fits
      <4>2. Len(wire) >= 1
        BY <4>1, <1>1
      <4>3. QED BY <4>1, <4>2, <1>1
    <3>2. QED BY <3>1, <1>1
  <2>3. request.method = "initialize" /\ sent' = sent /\ wire # <<>> /\ wire' = Tail(wire) /\ waiting' \subseteq {}
    BY <1>1
  <2> HIDE DEF m
  <2>4. QED BY <2>1, <2>2, <2>3, <1>1, <1>2, <1>3, TakeKeeps
<1>6. QED BY <1>4, <1>5

\* The stdio session reads on to the answer to its request.
LEMMA ReadLineKeeps ==
  ASSUME Quiet, SessionInv, M!ReadLine
  PROVE  SessionInv'
<1> DEFINE m == Head(wire)
<1>1. /\ carrier = "lines" /\ kind = "stdio" /\ request # M!None /\ wire # <<>> /\ wire' = Tail(wire)
      /\ waiting' = {}
      /\ UNCHANGED <<kind, carrier, methods, waiting, sent, closed, noise, made>>
  BY DEF M!ReadLine, M!Reading, SessionInv, SessionTyped
<1>2. m \in Said /\ m = wire[1] /\ 1 \in DOMAIN wire
  BY <1>1 DEF SessionInv, Lines, Owed, Heard, Fits
<1>3. CASE M!Mine(m)
  <2>1. m.says \in {request.method, "error"}
    BY <1>1, <1>2, <1>3 DEF SessionInv, Lines, Owed, Heard, Fits, M!Mine
  <2>2. M!Take(m)
    BY <1>3 DEF M!ReadLine
  <2>3. QED BY <2>1, <2>2, <1>1, <1>2, <1>3, TakeKeeps
<1>4. CASE ~M!Mine(m) /\ M!Raise
  BY <1>1, <1>4, RaiseKeeps
<1>5. CASE request' = [request EXCEPT !.lines = @ + 1] /\ UNCHANGED outcome
  <2>1. request.id > 0 /\ request.id = made /\ request'.id = request.id /\ request'.method = request.method
    BY <1>1, <1>5 DEF SessionInv, SessionTyped
  <2>2. QED BY <1>1, <1>5, <2>1, SkipKeeps DEF M!None
<1>6. QED BY <1>3, <1>4, <1>5 DEF M!ReadLine

\* Discovery takes the next line, which is the answer where nobody chatters.
LEMMA ReadBlindKeeps ==
  ASSUME Quiet, SessionInv, M!ReadBlind
  PROVE  SessionInv'
<1> DEFINE m == Head(wire)
<1>1. /\ carrier = "lines" /\ kind = "discovery" /\ request # M!None /\ wire # <<>> /\ wire' = Tail(wire)
      /\ waiting' = {} /\ outcome = M!Open
      /\ UNCHANGED <<kind, carrier, methods, waiting, sent, closed, noise, made>>
  BY DEF M!ReadBlind, M!Reading, SessionInv, SessionTyped
<1>2. m \in Said /\ m = wire[1] /\ 1 \in DOMAIN wire
  BY <1>1 DEF SessionInv, Lines, Owed, Heard, Fits
<1>3. CASE M!Raise
  BY <1>1, <1>3, RaiseKeeps
<1>4. CASE M!Take(m)
  <2>1. sent \in Seq(Said) /\ wire \in Seq(Said) /\ Len(sent) + Len(wire) <= 1
    BY <1>1 DEF SessionInv, Alone, Lines, Owed, Heard, Fits
  <2>2. sent = <<>> /\ wire' = <<>>
    BY <1>1, <2>1
  <2>3. m.id = request.id
    BY <1>1, <1>2 DEF SessionInv, Alone
  <2>4. M!Mine(m) /\ m.says \in {request.method, "error"}
    BY <1>1, <1>2, <2>3 DEF SessionInv, Lines, Owed, Heard, Fits, M!Mine
  <2>5. QED BY <1>1, <1>2, <1>4, <2>2, <2>4, TakeKeeps
<1>5. QED BY <1>3, <1>4 DEF M!ReadBlind

\* The body of a response has the answer in it, and it is the one taken.
LEMMA ParseBodyKeeps ==
  ASSUME Quiet, SessionInv, M!ParseBody
  PROVE  SessionInv'
<1>1. /\ carrier = "streamable" /\ request # M!None /\ closed /\ wire' = <<>>
      /\ waiting' = {} /\ outcome = M!Open
      /\ UNCHANGED <<kind, carrier, methods, waiting, sent, closed, noise, made>>
  BY DEF M!ParseBody, SessionInv, SessionTyped
<1>2. PICK i \in DOMAIN wire : wire[i].id = request.id
  BY <1>1 DEF SessionInv, Alone
<1>3. request.id > 0 /\ request.id \in Nat
  BY <1>1 DEF SessionInv, SessionTyped
<1>4. i \in M!Replies
  BY <1>2, <1>3 DEF M!Replies, M!Told, M!Mine, M!Garbage, M!Message
<1>5. M!Replies \subseteq Nat /\ M!Replies \subseteq DOMAIN wire
  BY DEF M!Replies, M!Told, SessionInv, Lines, Owed, Heard, Fits
<1>6. M!Replies # {} /\ M!First(M!Replies) \in M!Replies
  <2>1. M!Replies # {} BY <1>4
  <2>2. QED BY <2>1, <1>5, LeastIsMember
<1>7. M!Answering = wire[M!First(M!Replies)]
  BY <1>6 DEF M!Answering
<1>8. PICK m \in Said : m = M!Answering /\ M!Mine(m) /\ m.says \in {request.method, "error"}
  <2>1. wire[M!First(M!Replies)] \in Said /\ M!Mine(wire[M!First(M!Replies)])
    BY <1>5, <1>6 DEF M!Replies, SessionInv, Lines, Owed, Heard, Fits
  <2>2. wire[M!First(M!Replies)].says \in {request.method, "error"}
    BY <1>1, <1>5, <1>6, <2>1 DEF SessionInv, Lines, Owed, Heard, Fits, M!Mine
  <2>3. QED BY <1>7, <2>1, <2>2
<1>9. M!Told # {}
  BY <1>4 DEF M!Replies
<1>10. M!Take(m)
  BY <1>8, <1>9 DEF M!ParseBody
<1>11. sent' = <<>>
  BY <1>1 DEF SessionInv, Alone
<1>12. QED BY <1>1, <1>8, <1>10, <1>11, TakeKeeps

\* An event of the SSE stream answers the future made for its id.
LEMMA EventKeeps ==
  ASSUME Quiet, SessionInv, M!Event
  PROVE  SessionInv'
<1> DEFINE m == Head(wire)
<1>1. /\ carrier = "sse" /\ wire # <<>> /\ outcome = M!Open /\ wire' = Tail(wire)
      /\ UNCHANGED <<kind, carrier, methods, sent, closed, noise, made>>
  BY DEF M!Event
<1>2. m \in Said /\ m = wire[1] /\ 1 \in DOMAIN wire
  BY <1>1 DEF SessionInv, Lines, Owed, Heard, Fits
<1>3. kind # "discovery"
  BY <1>1 DEF SessionInv, SessionTyped
<1>4. CASE m.id \in waiting
  <2>1. /\ m.id = request.id /\ request # M!None /\ waiting \ {m.id} = {}
    BY <1>2, <1>4 DEF SessionInv, SessionTyped, M!None
  <2>2. M!Mine(m) /\ m.says \in {request.method, "error"}
    BY <1>2, <2>1 DEF SessionInv, Lines, Owed, Heard, Fits, M!Mine
  <2>3. M!Take(m) /\ waiting' \subseteq {}
    BY <1>4, <2>1 DEF M!Event
  <2>4. QED BY <1>1, <1>2, <1>3, <2>1, <2>2, <2>3, TakeKeeps
<1>5. CASE m.id \notin waiting
  <2>1. UNCHANGED <<waiting, request, outcome>>
    BY <1>5 DEF M!Event
  <2>2. QED BY <1>1, <1>3, <2>1, SkipKeeps
<1>6. QED BY <1>4, <1>5

\* The steps that end a session with an error.
LEMMA FailureKeeps ==
  ASSUME Quiet, SessionInv, M!ReadEnd \/ M!Timeout \/ M!Refused \/ M!StreamBreaks
  PROVE  SessionInv'
<1>1. M!Raise /\ waiting' \subseteq {} /\ UNCHANGED <<kind, carrier, methods, closed, noise, made, sent, wire>>
  <2>1. CASE M!ReadEnd BY <2>1 DEF M!ReadEnd, SessionInv, SessionTyped
  <2>2. CASE M!Timeout BY <2>2 DEF M!Timeout, SessionInv, SessionTyped
  <2>3. CASE M!Refused BY <2>3 DEF M!Refused, SessionInv, SessionTyped
  <2>4. CASE M!StreamBreaks BY <2>4 DEF M!StreamBreaks
  <2>5. QED BY <2>1, <2>2, <2>3, <2>4
<1>2. QED BY <1>1, RaiseKeeps

\* A session that hangs returns nothing.
LEMMA SpinKeeps ==
  ASSUME Quiet, SessionInv, M!Spin
  PROVE  SessionInv'
<1>1. /\ outcome' = M!Message(0, "hung") /\ request' = M!None
      /\ UNCHANGED <<kind, carrier, methods, waiting, sent, wire, closed, noise, made>>
      /\ waiting = {}
  BY DEF M!Spin, SessionInv, SessionTyped
<1>2. SessionTyped'
  BY <1>1 DEF SessionInv, SessionTyped, M!None
<1>3. Planned'
  BY <1>1 DEF SessionInv, Planned, M!None, M!Plan
<1>4. Lines'
  BY <1>1 DEF SessionInv, Lines, Owed, Heard, Fits, M!None
<1>5. Alone'
  BY <1>1 DEF Alone, M!Open, M!Message
<1>6. Own'
  BY <1>1 DEF Own, M!Message
<1>7. QED BY <1>2, <1>3, <1>4, <1>5, <1>6 DEF SessionInv

\* Over SSE the plan begins anew, and what was said before is gone.
LEMMA FallBackKeeps ==
  ASSUME Quiet, SessionInv, M!FallBack
  PROVE  SessionInv'
<1>1. /\ request' = M!None /\ methods' = M!Plan(kind) /\ sent' = <<>> /\ wire' = <<>> /\ carrier' = "sse"
      /\ kind = "http" /\ carrier = "streamable" /\ waiting' = {} /\ outcome' = M!Open
      /\ UNCHANGED <<kind, closed, noise, made, outcome>>
  BY DEF M!FallBack, SessionInv, SessionTyped, M!None
<1>2. SessionTyped'
  BY <1>1 DEF SessionInv, SessionTyped, M!None
<1>3. Planned'
  <2>1. M!Plan(kind) \in Seq(Methods) /\ M!Plan(kind)' = M!Plan(kind)
    BY <1>1, PlanFacts DEF M!Plan
  <2>2. M!Plan(kind) = SubSeq(M!Plan(kind), 0 + 1, Len(M!Plan(kind)))
    BY <2>1
  <2>3. QED BY <1>1, <2>1, <2>2 DEF Planned, M!None
<1>4. Lines'
  BY <1>1 DEF Lines, Owed, Heard, Fits
<1>5. Alone'
  BY <1>1 DEF Alone
<1>6. Own'
  BY <1>1 DEF Own, M!Open, M!Message
<1>7. QED BY <1>2, <1>3, <1>4, <1>5, <1>6 DEF SessionInv

\* The server answers the oldest of what it was sent.
LEMMA AnswerKeeps ==
  ASSUME Quiet, SessionInv, NEW what \in {"result", "error"}, M!Answer(what)
  PROVE  SessionInv'
<1> DEFINE m == M!Message(Head(sent).id, IF what = "error" THEN "error" ELSE Head(sent).says)
<1>1. /\ sent # <<>> /\ ~closed /\ outcome = M!Open /\ wire' = Append(wire, m) /\ sent' = Tail(sent)
      /\ closed' = (carrier = "streamable")
      /\ UNCHANGED <<kind, carrier, methods, request, waiting, noise, outcome, made>>
  BY DEF M!Answer
<1>2. Head(sent) = sent[1] /\ 1 \in DOMAIN sent /\ sent[1] \in Said
  BY <1>1 DEF SessionInv, Lines, Owed, Heard, Fits
<1>3. m \in Said /\ m.id = sent[1].id /\ m.id \in 1..made /\ m.says \in {sent[1].says, "error"}
  BY <1>2 DEF M!Message, SessionInv, Lines, Owed, Heard, Fits, Said
<1> HIDE DEF m
<1>4. SessionTyped'
  BY <1>1 DEF SessionInv, SessionTyped
<1>5. Planned'
  BY <1>1 DEF SessionInv, Planned, M!Plan
<1>6. Lines'
  <2>1. /\ sent' \in Seq(Said) /\ \A i \in DOMAIN sent' : i + 1 \in DOMAIN sent /\ sent'[i] = sent[i + 1]
    BY <1>1, TailFacts DEF SessionInv, Lines, Owed, Heard, Fits
  <2>2. /\ wire' \in Seq(Said) /\ DOMAIN wire' = 1..Len(wire) + 1 /\ DOMAIN wire = 1..Len(wire)
        /\ \A i \in 1..Len(wire) : wire'[i] = wire[i]
        /\ wire'[Len(wire) + 1] = m /\ Len(wire) \in Nat
    BY <1>1, <1>3, AppendFacts DEF SessionInv, Lines, Owed, Heard, Fits
  <2>3. \A i \in DOMAIN wire' : /\ wire'[i].id \in 0..made
                               /\ Fits(wire'[i], request)
    <3> SUFFICES ASSUME NEW i \in DOMAIN wire'
                 PROVE  /\ wire'[i].id \in 0..made
                        /\ Fits(wire'[i], request)
      OBVIOUS
    <3>1. CASE i \in 1..Len(wire)
      BY <2>2, <3>1 DEF SessionInv, Lines, Owed, Heard, Fits
    <3>2. CASE i = Len(wire) + 1
      BY <2>2, <3>2, <1>2, <1>3 DEF SessionInv, Lines, Owed, Heard, Fits
    <3>3. QED BY <2>2, <3>1, <3>2
  <2>4. \A i \in DOMAIN sent' : sent'[i].id \in 1..made /\ (sent'[i].id = request.id => sent'[i].says = request.method)
    BY <2>1 DEF SessionInv, Lines, Owed, Heard, Fits
  <2>5. request' = request /\ made' = made
    BY <1>1
  <2>7. sent' \in Seq(Said) /\ wire' \in Seq(Said)
    BY <2>1, <2>2
  <2>8. Owed'
    BY <2>4, <2>5 DEF Owed
  <2>9. Heard'
    BY <2>3, <2>5 DEF Heard
  <2>6. QED BY <2>7, <2>8, <2>9 DEF Lines
<1>7. Alone'
  <2>1. CASE kind = "discovery" \/ carrier = "streamable"
    <3>1. /\ sent \in Seq(Said) /\ wire \in Seq(Said) /\ request # M!None
          /\ Len(sent) <= 1 /\ (kind = "discovery" => Len(sent) + Len(wire) <= 1)
          /\ sent[1].id = request.id
          /\ \A i \in DOMAIN wire : wire[i].id \in {0, request.id}
      BY <2>1, <1>1, <1>2 DEF SessionInv, Alone, Lines, Owed, Heard, Fits
    <3>2. sent' = <<>> /\ Len(sent) >= 1
      BY <3>1, <1>1
    <3>3. DOMAIN wire' = 1..Len(wire) + 1 /\ wire'[Len(wire) + 1] = m
          /\ (\A i \in 1..Len(wire) : wire'[i] = wire[i]) /\ Len(wire') = Len(wire) + 1 /\ Len(wire) \in Nat
      BY <1>1, <1>3, <3>1, AppendFacts
    <3>4. m.id = request.id /\ m.id # 0
      BY <3>1, <1>3
    <3>5. QED BY <1>1, <3>1, <3>2, <3>3, <3>4 DEF Alone
  <2>2. QED BY <1>1, <2>1 DEF Alone
<1>8. Own'
  BY <1>1 DEF Own, M!Open, M!Message
<1>9. QED BY <1>4, <1>5, <1>6, <1>7, <1>8 DEF SessionInv

\* A notification or another line that is no answer.
LEMMA SpeakKeeps ==
  ASSUME Quiet, SessionInv, NEW m \in {M!Garbage, M!Notification}, M!Speak(m)
  PROVE  SessionInv'
<1>1. /\ noise > 0 /\ ~closed /\ outcome = M!Open /\ (carrier = "streamable" => sent # <<>>)
      /\ wire' = Append(wire, m) /\ noise' = noise - 1
      /\ UNCHANGED <<kind, carrier, methods, request, waiting, sent, closed, outcome, made>>
  BY DEF M!Speak
<1>2. m \in Said /\ m.id = 0 /\ made \in Nat
  BY DEF M!Garbage, M!Notification, M!Message, Said, SessionInv, SessionTyped
<1>3. kind # "discovery" /\ noise' \in 0..MaxNoise
  BY <1>1 DEF SessionInv, SessionTyped, Quiet, M!McpSessionAssumption
<1>4. SessionTyped'
  BY <1>1, <1>3 DEF SessionInv, SessionTyped
<1>5. Planned'
  BY <1>1 DEF SessionInv, Planned, M!Plan
<1>6. /\ wire' \in Seq(Said) /\ DOMAIN wire' = 1..Len(wire) + 1 /\ DOMAIN wire = 1..Len(wire)
      /\ \A i \in 1..Len(wire) : wire'[i] = wire[i]
      /\ wire'[Len(wire) + 1] = m /\ Len(wire) \in Nat
  BY <1>1, <1>2, AppendFacts DEF SessionInv, Lines, Owed, Heard, Fits
<1>7. Lines'
  <2>1. request # M!None => request.id # 0
    BY DEF SessionInv, SessionTyped
  <2>2. \A i \in DOMAIN wire' : /\ wire'[i].id \in 0..made
                               /\ Fits(wire'[i], request)
    <3> SUFFICES ASSUME NEW i \in DOMAIN wire'
                 PROVE  /\ wire'[i].id \in 0..made
                        /\ Fits(wire'[i], request)
      OBVIOUS
    <3>1. CASE i \in 1..Len(wire)
      BY <1>6, <3>1 DEF SessionInv, Lines, Owed, Heard, Fits
    <3>2. CASE i = Len(wire) + 1
      BY <1>6, <3>2, <1>2, <2>1 DEF Fits
    <3>3. QED BY <1>6, <3>1, <3>2
  <2>3. request' = request /\ made' = made /\ sent' = sent
    BY <1>1
  <2>4. wire' \in Seq(Said) /\ sent' \in Seq(Said)
    BY <1>6, <2>3 DEF SessionInv, Lines, Owed, Heard, Fits
  <2>5. \A i \in DOMAIN sent : sent[i].id \in 1..made /\ (sent[i].id = request.id => sent[i].says = request.method)
    BY DEF SessionInv, Lines, Owed, Heard, Fits
  <2>8. Owed'
    BY <2>3, <2>5 DEF Owed
  <2>9. Heard'
    BY <2>2, <2>3 DEF Heard
  <2>6. QED BY <2>4, <2>8, <2>9 DEF Lines
<1>8. Alone'
  <2>1. CASE carrier = "streamable"
    <3>1. /\ Len(sent) <= 1 /\ request # M!None /\ sent # <<>> /\ (\A i \in DOMAIN sent : sent[i].id = request.id)
          /\ \A i \in DOMAIN wire : wire[i].id \in {0, request.id}
      BY <1>1, <2>1 DEF SessionInv, Alone
    <3>2. QED BY <1>1, <1>2, <1>3, <1>6, <3>1 DEF Alone
  <2>2. QED BY <1>1, <1>3, <2>1 DEF Alone
<1>9. Own'
  BY <1>1 DEF Own, M!Open, M!Message
<1>10. QED BY <1>4, <1>5, <1>7, <1>8, <1>9 DEF SessionInv

\* The server closes its output.
LEMMA LeaveKeeps ==
  ASSUME Quiet, SessionInv, M!Leave
  PROVE  SessionInv'
<1>1. /\ carrier = "lines" /\ closed' = TRUE
      /\ UNCHANGED <<kind, carrier, methods, request, waiting, sent, wire, noise, outcome, made>>
  BY DEF M!Leave
<1>2. SessionTyped'
  BY <1>1 DEF SessionInv, SessionTyped
<1>3. Planned' /\ Lines' /\ Own'
  BY <1>1 DEF SessionInv, Planned, Lines, Owed, Heard, Fits, Own, M!Plan
<1>4. Alone'
  BY <1>1 DEF SessionInv, Alone
<1>5. QED BY <1>2, <1>3, <1>4 DEF SessionInv

\* A session begins with its plan, and is asked nothing.
LEMMA SessionBegins ==
  ASSUME Quiet, M!Init
  PROVE  SessionInv
<1>a. SessionTyped
  <2>1. request = M!None /\ waiting = {} /\ kind \in Sessions /\ closed = FALSE /\ outcome = M!Open /\ made = 0
    BY DEF M!Init
  <2>2. carrier = IF kind = "http" THEN "streamable" ELSE "lines"
    BY DEF M!Init
  <2>3. noise \in 0..MaxNoise /\ (kind \notin Chatty => noise = 0)
    BY DEF M!Init, Quiet, M!McpSessionAssumption
  <2>4. QED BY <2>1, <2>2, <2>3 DEF SessionTyped
<1>b. Lines
  BY DEF M!Init, Lines, Owed, Heard, Fits
<1>c. Alone
  BY DEF M!Init, Alone
<1>d. Own
  BY DEF M!Init, Own, M!Open, M!Message
<1>1. SessionTyped /\ Lines /\ Alone /\ Own
  BY <1>a, <1>b, <1>c, <1>d
<1>2. Planned
  <2>1. kind \in {"discovery", "stdio", "http"} /\ methods = M!Plan(kind) /\ request.method = "none"
    BY DEF M!Init, Quiet, M!McpSessionAssumption, M!None
  <2>2. M!Plan(kind) = SubSeq(M!Plan(kind), 0 + 1, Len(M!Plan(kind))) /\ Len(M!Plan(kind)) \in Nat
    BY <2>1, PlanFacts
  <2>3. QED BY <2>1, <2>2 DEF Planned
<1>3. QED BY <1>1, <1>2 DEF SessionInv

\* Every step of a session.
LEMMA SessionSteps ==
  ASSUME Quiet, SessionInv, [M!Next]_M!vars
  PROVE  SessionInv'
<1>1. CASE M!Send BY <1>1, SendKeeps
<1>2. CASE M!ReadInitialize BY <1>2, ReadInitializeKeeps
<1>3. CASE M!Spin BY <1>3, SpinKeeps
<1>4. CASE M!ReadLine BY <1>4, ReadLineKeeps
<1>5. CASE M!ReadBlind BY <1>5, ReadBlindKeeps
<1>6. CASE M!ReadEnd \/ M!Timeout \/ M!Refused \/ M!StreamBreaks BY <1>6, FailureKeeps
<1>7. CASE M!FallBack BY <1>7, FallBackKeeps
<1>8. CASE M!ParseBody BY <1>8, ParseBodyKeeps
<1>9. CASE M!Event BY <1>9, EventKeeps
<1>10. CASE \E what \in {"result", "error"} : M!Answer(what) BY <1>10, AnswerKeeps
<1>11. CASE \E m \in {M!Garbage, M!Notification} : M!Speak(m) BY <1>11, SpeakKeeps
<1>12. CASE M!Cut BY <1>12 DEF M!Cut, Quiet
<1>13. CASE M!Leave BY <1>13, LeaveKeeps
<1>14. CASE UNCHANGED M!vars
  <2>1. SessionTyped' /\ Planned'
    BY <1>14 DEF M!vars, SessionInv, SessionTyped, Planned, M!Plan
  <2>2. Lines' /\ Alone' /\ Own'
    BY <1>14 DEF M!vars, SessionInv, Lines, Owed, Heard, Fits, Alone, Own, M!Plan
  <2>3. QED BY <2>1, <2>2 DEF SessionInv
<1>15. QED
  BY <1>1, <1>2, <1>3, <1>4, <1>5, <1>6, <1>7, <1>8, <1>9, <1>10, <1>11, <1>12, <1>13, <1>14 DEF M!Next

\* What the invariant says of the answer.
LEMMA SessionAnswers ==
  ASSUME SessionInv
  PROVE  M!OwnAnswer
<1>1. waiting \subseteq {request.id}
  BY DEF SessionInv, SessionTyped
<1>2. outcome.says \notin {"open", "error", "hung"} => outcome = M!Message(made, M!Plan(kind)[Len(M!Plan(kind))])
  BY DEF SessionInv, Own
<1>3. QED BY <1>1, <1>2 DEF M!OwnAnswer

\* What it says of the types.
LEMMA SessionTypes ==
  ASSUME Quiet, SessionInv
  PROVE  M!TypeOK
<1>1. made \in Nat /\ kind \in Sessions /\ carrier \in {"lines", "streamable", "sse"} /\ closed \in BOOLEAN /\ noise \in 0..MaxNoise
  BY DEF SessionInv, SessionTyped
<1>2. request.id \in 0..made /\ waiting \subseteq 1..made
  BY <1>1 DEF SessionInv, SessionTyped, M!None
<1>3. outcome.id \in 0..made
  <2>1. CASE outcome.says \notin {"open", "error", "hung"}
    BY <1>1, <2>1 DEF SessionInv, Own, M!Message
  <2>2. CASE outcome.says \in {"open", "error", "hung"}
    BY <1>1, <2>2 DEF SessionInv, Own
  <2>3. QED BY <2>1, <2>2
<1>4. methods \in Seq({"initialize", "tools/list", "tools/call"})
  <2> DEFINE p == M!Plan(kind)
  <2>1. p \in Seq(Methods)
    BY PlanFacts DEF SessionInv, SessionTyped, Quiet, M!McpSessionAssumption
  <2>2. PICK n \in 0..Len(p) : methods = SubSeq(p, n + 1, Len(p))
    BY DEF SessionInv, Planned
  <2> HIDE DEF p
  <2>3. QED BY <2>1, <2>2 DEF Methods
<1>5. QED BY <1>1, <1>2, <1>3, <1>4 DEF M!TypeOK

\* With a server that is quiet during discovery, and bodies that are whole, what a session
\* returns is the server's answer to its last request, whatever was said in between, and
\* no future outlives its request; and the session is well typed.
THEOREM OwnAnswerTaken ==
  ASSUME Quiet
  PROVE  Spec => []OwnAnswer /\ [](part = "session" => M!TypeOK)
<1> DEFINE I == part = "session" => SessionInv
<1>1. Init => I
  BY OneBegins, SessionBegins
<1>2. I /\ [Next]_vars => I'
  BY OneSteps, SessionSteps
<1>3. I => OwnAnswer /\ (part = "session" => M!TypeOK)
  BY SessionAnswers, SessionTypes DEF OwnAnswer
<1>4. QED BY <1>1, <1>2, <1>3, PTL DEF Spec

-----------------------------------------------------------------------------
(* The requests of a transport: a stream is given all of its run. *)

\* The events given to the client begin the events of the run.
Begins(s, t) == Len(s) <= Len(t) /\ \A i \in 1..Len(s) : s[i] = t[i]

\* A sequence begins what it is put in front of.
LEMMA PartBegins ==
  ASSUME NEW S, NEW s \in Seq(S), NEW t \in Seq(S)
  PROVE  Begins(s, s \o t)
BY ConcatProperties DEF Begins

\* An event that goes from the queue to the client.
LEMMA HandedOn ==
  ASSUME NEW S, NEW s \in Seq(S), NEW t \in Seq(S), t # <<>>
  PROVE  Append(s, Head(t)) \o Tail(t) = s \o t
<1>1. t[1] \in S /\ Tail(t) \in Seq(S) /\ Len(Tail(t)) = Len(t) - 1 /\ Head(t) = t[1]
      /\ \A i \in 1..Len(t) - 1 : Tail(t)[i] = t[i + 1]
  OBVIOUS
<1>2. /\ Append(s, Head(t)) \in Seq(S) /\ Len(Append(s, Head(t))) = Len(s) + 1
      /\ (\A i \in 1..Len(s) : Append(s, Head(t))[i] = s[i]) /\ Append(s, Head(t))[Len(s) + 1] = t[1]
  BY <1>1, AppendProperties
<1> DEFINE l == Append(s, Head(t)) \o Tail(t)
<1>3. /\ l \in Seq(S) /\ Len(l) = Len(s) + Len(t)
      /\ \A i \in 1..Len(s) + Len(t) : l[i] = IF i <= Len(s) + 1 THEN Append(s, Head(t))[i] ELSE Tail(t)[i - (Len(s) + 1)]
  BY <1>1, <1>2, ConcatProperties
<1>4. /\ s \o t \in Seq(S) /\ Len(s \o t) = Len(s) + Len(t)
      /\ \A i \in 1..Len(s) + Len(t) : (s \o t)[i] = IF i <= Len(s) THEN s[i] ELSE t[i - Len(s)]
  BY ConcatProperties
<1> HIDE DEF l
<1>5. \A i \in 1..Len(s) + Len(t) : l[i] = (s \o t)[i]
  BY <1>1, <1>2, <1>3, <1>4
<1>6. QED BY <1>3, <1>4, <1>5, SeqEqual DEF l

\* What the client of one request has been given, with the state of its handler, its
\* run, its queue and the events of the run.
Follows(h, u, q, e, g) ==
    /\ h \in {"none", "query", "stream"} => u = "none"
    /\ u \in {"none", "starting"} => e = <<>>
    /\ h \in {"none", "query", "stream", "waiting"} => q = <<>> /\ g = <<>>
    /\ h \in {"piping", "draining"} => e = g \o q
    /\ h \in {"draining", "closing"} => u \in {"done", "failed"}
    /\ h = "closing" => g = e
    /\ h \in {"success", "error", "left"} => Begins(g, e)

\* The types, and the invariant.
States == {"none"} \cup Q!Serving \cup Q!Over
Phases == {"none", "starting", "running", "done", "failed"}

RequestsTyped ==
    /\ handler \in [Ids -> States] /\ run \in [Ids -> Phases]
    /\ queued \in [Ids -> Seq(Events)] /\ emitted \in [Ids -> Seq(Events)] /\ given \in [Ids -> Seq(Events)]
    /\ registered \in Ids \cup {Q!Nobody}
AllFollow == \A r \in Ids : Follows(handler[r], run[r], queued[r], emitted[r], given[r])
RequestsInv == RequestsTyped /\ AllFollow /\ Q!TableTidy

\* A step that concerns request r leaves the others as they are.
OnlyAt(r) ==
    \A x \in Ids \ {r} : /\ handler'[x] = handler[x] /\ run'[x] = run[x] /\ queued'[x] = queued[x]
                         /\ emitted'[x] = emitted[x] /\ given'[x] = given[x]

\* What one request does leaves the others as they were.
LEMMA OneFollows ==
  ASSUME AllFollow, NEW r \in Ids, OnlyAt(r), NEW h, NEW u, NEW q, NEW e, NEW g, Follows(h, u, q, e, g),
         handler'[r] = h, run'[r] = u, queued'[r] = q, emitted'[r] = e, given'[r] = g
  PROVE  AllFollow'
<1>1. ASSUME NEW x \in Ids PROVE Follows(handler'[x], run'[x], queued'[x], emitted'[x], given'[x])
  <2>1. CASE x = r BY <2>1
  <2>2. CASE x # r BY <2>2 DEF OnlyAt, AllFollow
  <2>3. QED BY <2>1, <2>2
<1>2. QED BY <1>1 DEF AllFollow

\* A request comes, is registered, or fails before its run.
LEMMA BeginSteps ==
  ASSUME RequestsInv, NEW r \in Ids,
         (\E k \in {"query", "stream"} : Q!Ask(r, k)) \/ Q!Register(r) \/ Q!CreateFails(r)
  PROVE  RequestsInv'
<1> DEFINE h == handler[r]
<1>1. RequestsTyped /\ AllFollow /\ Q!TableTidy /\ Follows(h, run[r], queued[r], emitted[r], given[r])
  BY DEF RequestsInv, AllFollow
<1>2. CASE \E k \in {"query", "stream"} : Q!Ask(r, k)
  <2>1. PICK k \in {"query", "stream"} : Q!Ask(r, k) BY <1>2
  <2>2. Follows(k, run[r], queued[r], emitted[r], given[r]) /\ k \in States
    BY <1>1, <2>1 DEF Follows, Q!Ask, States, Q!Serving
  <2>a. RequestsTyped' /\ OnlyAt(r)
    BY <1>1, <2>1, <2>2 DEF Q!Ask, RequestsTyped, OnlyAt
  <2>b. handler'[r] = k /\ run'[r] = run[r] /\ queued'[r] = queued[r] /\ emitted'[r] = emitted[r] /\ given'[r] = given[r]
    BY <1>1, <2>1 DEF Q!Ask, RequestsTyped
  <2>3. RequestsTyped' /\ AllFollow'
    BY <1>1, <2>a, <2>b, <2>2, OneFollows
  <2>4. Q!TableTidy'
    BY <1>1, <2>1 DEF Q!Ask, Q!TableTidy, RequestsTyped, Q!Started
  <2>5. QED BY <2>3, <2>4 DEF RequestsInv
<1>3. CASE Q!Register(r)
  <2> DEFINE k == IF handler[r] = "query" THEN "waiting" ELSE "piping"
  <2>1. Follows(k, "starting", queued[r], emitted[r], given[r]) /\ k \in States /\ "starting" \in Phases
    BY <1>1, <1>3, ConcatEmptySeq DEF Follows, Q!Register, States, Q!Serving, Phases, RequestsTyped
  <2> HIDE DEF k
  <2>2. /\ handler' = [handler EXCEPT ![r] = k] /\ run' = [run EXCEPT ![r] = "starting"] /\ registered' = r
        /\ UNCHANGED <<queued, emitted, given>>
    BY <1>1, <1>3 DEF Q!Register, RequestsTyped, k
  <2>a. RequestsTyped' /\ OnlyAt(r)
    BY <1>1, <2>1, <2>2 DEF RequestsTyped, OnlyAt
  <2>b. handler'[r] = k /\ run'[r] = "starting" /\ queued'[r] = queued[r] /\ emitted'[r] = emitted[r] /\ given'[r] = given[r]
    BY <1>1, <2>2 DEF RequestsTyped
  <2>3. RequestsTyped' /\ AllFollow'
    BY <1>1, <2>a, <2>b, <2>1, OneFollows
  <2>4. Q!TableTidy'
    BY <1>1, <2>2 DEF k, Q!TableTidy, RequestsTyped, Q!Started
  <2>5. QED BY <2>3, <2>4 DEF RequestsInv
<1>4. CASE Q!CreateFails(r)
  <2>1. Follows("error", run[r], queued[r], emitted[r], given[r]) /\ "error" \in States
    BY <1>1, <1>4 DEF Follows, Q!CreateFails, States, Q!Over, Begins
  <2>a. RequestsTyped' /\ OnlyAt(r)
    BY <1>1, <1>4, <2>1 DEF Q!CreateFails, RequestsTyped, OnlyAt
  <2>b. handler'[r] = "error" /\ run'[r] = run[r] /\ queued'[r] = queued[r] /\ emitted'[r] = emitted[r] /\ given'[r] = given[r]
    BY <1>1, <1>4 DEF Q!CreateFails, RequestsTyped
  <2>2. RequestsTyped' /\ AllFollow'
    BY <1>1, <2>a, <2>b, <2>1, OneFollows
  <2>3. Q!TableTidy'
    BY <1>1, <1>4 DEF Q!CreateFails, Q!TableTidy, RequestsTyped, Q!Started
  <2>4. QED BY <2>2, <2>3 DEF RequestsInv
<1>5. QED BY <1>2, <1>3, <1>4

\* The stream hands events on, goes over to draining, and is empty.
LEMMA PipeSteps ==
  ASSUME RequestsInv, NEW r \in Ids, Q!Pipe(r) \/ Q!PipeEnds(r) \/ Q!Drain(r)
  PROVE  RequestsInv'
<1> DEFINE g == Append(given[r], Head(queued[r]))
           q == Tail(queued[r])
<1>1. RequestsTyped /\ AllFollow /\ Q!TableTidy /\ Follows(handler[r], run[r], queued[r], emitted[r], given[r])
  BY DEF RequestsInv, AllFollow
<1>2. ASSUME queued[r] # <<>>, handler[r] \in {"piping", "draining"}
      PROVE  g \in Seq(Events) /\ q \in Seq(Events) /\ Follows(handler[r], run[r], q, emitted[r], g)
  <2>1. /\ queued[r] \in Seq(Events) /\ given[r] \in Seq(Events) /\ emitted[r] = given[r] \o queued[r]
    BY <1>1, <1>2 DEF RequestsTyped, Follows
  <2>2. g \o q = emitted[r]
    BY <2>1, <1>2, HandedOn
  <2>3. g \in Seq(Events) /\ q \in Seq(Events)
    BY <2>1, <1>2
  <2> HIDE DEF g, q
  <2>4. QED BY <1>1, <1>2, <2>2, <2>3 DEF Follows
<1> HIDE DEF g, q
<1>3. CASE Q!Pipe(r) \/ (Q!Drain(r) /\ queued[r] # <<>>)
  <2>1. /\ queued[r] # <<>> /\ handler[r] \in {"piping", "draining"}
        /\ given' = [given EXCEPT ![r] = g] /\ queued' = [queued EXCEPT ![r] = q]
        /\ UNCHANGED <<handler, run, emitted, registered>>
    BY <1>1, <1>3 DEF Q!Pipe, Q!Drain, RequestsTyped, g, q
  <2>a. RequestsTyped' /\ OnlyAt(r)
    BY <1>1, <1>2, <2>1 DEF RequestsTyped, OnlyAt
  <2>b. handler'[r] = handler[r] /\ run'[r] = run[r] /\ queued'[r] = q /\ emitted'[r] = emitted[r] /\ given'[r] = g
    BY <1>1, <2>1 DEF RequestsTyped
  <2>2. RequestsTyped' /\ AllFollow'
    BY <1>1, <1>2, <2>1, <2>a, <2>b, OneFollows
  <2>3. QED BY <1>1, <2>1, <2>2 DEF RequestsInv, Q!TableTidy, Q!Started
<1>4. CASE Q!PipeEnds(r)
  <2>1. Follows("draining", run[r], queued[r], emitted[r], given[r]) /\ "draining" \in States
    BY <1>1, <1>4 DEF Follows, Q!PipeEnds, Q!RunOver, States, Q!Serving
  <2>a. RequestsTyped' /\ OnlyAt(r)
    BY <1>1, <1>4, <2>1 DEF Q!PipeEnds, RequestsTyped, OnlyAt
  <2>b. handler'[r] = "draining" /\ run'[r] = run[r] /\ queued'[r] = queued[r] /\ emitted'[r] = emitted[r] /\ given'[r] = given[r]
    BY <1>1, <1>4 DEF Q!PipeEnds, RequestsTyped
  <2>2. RequestsTyped' /\ AllFollow'
    BY <1>1, <2>a, <2>b, <2>1, OneFollows
  <2>3. Q!TableTidy'
    BY <1>1, <1>4 DEF Q!PipeEnds, Q!TableTidy, RequestsTyped, Q!Started
  <2>4. QED BY <2>2, <2>3 DEF RequestsInv
<1>5. CASE Q!Drain(r) /\ queued[r] = <<>>
  <2>1. handler' = [handler EXCEPT ![r] = "closing"] /\ UNCHANGED <<run, registered, queued, emitted, given>>
    BY <1>5 DEF Q!Drain
  <2>2. Follows("closing", run[r], queued[r], emitted[r], given[r]) /\ "closing" \in States
    BY <1>1, <1>5, ConcatEmptySeq DEF Follows, Q!Drain, States, Q!Serving, RequestsTyped
  <2>a. RequestsTyped' /\ OnlyAt(r)
    BY <1>1, <2>1, <2>2 DEF RequestsTyped, OnlyAt
  <2>b. handler'[r] = "closing" /\ run'[r] = run[r] /\ queued'[r] = queued[r] /\ emitted'[r] = emitted[r] /\ given'[r] = given[r]
    BY <1>1, <2>1 DEF RequestsTyped
  <2>3. RequestsTyped' /\ AllFollow'
    BY <1>1, <2>a, <2>b, <2>2, OneFollows
  <2>4. Q!TableTidy'
    BY <1>1, <2>1 DEF Q!TableTidy, RequestsTyped, Q!Started
  <2>5. QED BY <2>3, <2>4 DEF RequestsInv
<1>6. QED BY <1>3, <1>4, <1>5

\* The response ends, or its client goes.
LEMMA AnswerSteps ==
  ASSUME RequestsInv, NEW r \in Ids, Q!Answer(r) \/ Q!Leave(r)
  PROVE  RequestsInv'
<1>1. RequestsTyped /\ AllFollow /\ Follows(handler[r], run[r], queued[r], emitted[r], given[r])
      /\ given[r] \in Seq(Events) /\ queued[r] \in Seq(Events) /\ emitted[r] \in Seq(Events)
  BY DEF RequestsInv, AllFollow, RequestsTyped
<1>2. Q!TableTidy'
  BY DEF Q!TableTidy, Q!Answer, Q!Leave
<1>3. CASE Q!Answer(r)
  <2> DEFINE h == IF run[r] = "done" THEN "success" ELSE "error"
  <2>1. Begins(given[r], emitted[r])
    BY <1>1, <1>3 DEF Follows, Q!Answer, Begins
  <2>2. Follows(h, run[r], queued[r], emitted[r], given[r]) /\ h \in States
    BY <1>1, <1>3, <2>1 DEF Follows, Q!Answer, Q!RunOver, States, Q!Over
  <2>3. handler' = [handler EXCEPT ![r] = h] /\ registered' = Q!Nobody /\ UNCHANGED <<run, queued, emitted, given>>
    BY <1>3 DEF Q!Answer
  <2> HIDE DEF h
  <2>a. RequestsTyped' /\ OnlyAt(r)
    BY <1>1, <2>2, <2>3 DEF RequestsTyped, OnlyAt
  <2>b. handler'[r] = h /\ run'[r] = run[r] /\ queued'[r] = queued[r] /\ emitted'[r] = emitted[r] /\ given'[r] = given[r]
    BY <1>1, <2>3 DEF RequestsTyped
  <2>4. AllFollow'
    BY <1>1, <2>a, <2>b, <2>2, OneFollows
  <2>5. QED BY <1>2, <2>a, <2>4 DEF RequestsInv
<1>4. CASE Q!Leave(r)
  <2>1. Begins(given[r], emitted[r])
    <3>1. emitted[r] = given[r] \o queued[r]
      BY <1>1, <1>4 DEF Follows, Q!Leave
    <3>2. Begins(given[r], given[r] \o queued[r])
      BY <1>1, PartBegins
    <3>3. QED BY <3>1, <3>2
  <2>2. Follows("left", run[r], <<>>, emitted[r], given[r]) /\ "left" \in States /\ <<>> \in Seq(Events)
    BY <1>1, <1>4, <2>1 DEF Follows, Q!Leave, States, Q!Over
  <2>3. handler' = [handler EXCEPT ![r] = "left"] /\ queued' = [queued EXCEPT ![r] = <<>>]
        /\ registered' = Q!Nobody /\ UNCHANGED <<run, emitted, given>>
    BY <1>4 DEF Q!Leave
  <2>a. RequestsTyped' /\ OnlyAt(r)
    BY <1>1, <2>2, <2>3 DEF RequestsTyped, OnlyAt
  <2>b. handler'[r] = "left" /\ run'[r] = run[r] /\ queued'[r] = <<>> /\ emitted'[r] = emitted[r] /\ given'[r] = given[r]
    BY <1>1, <2>3 DEF RequestsTyped
  <2>4. AllFollow'
    BY <1>1, <2>a, <2>b, <2>2, OneFollows
  <2>5. QED BY <1>2, <2>a, <2>4 DEF RequestsInv
<1>5. QED BY <1>3, <1>4

\* A run goes on: of its request only the run changes.
LEMMA RunGoesOn ==
  ASSUME RequestsInv, NEW r \in Ids, NEW u \in Phases, u # "none",
         run[r] \in {"starting", "running"}, u = "starting" => run[r] = "starting",
         run' = [run EXCEPT ![r] = u], UNCHANGED <<handler, registered, queued, emitted, given>>
  PROVE  RequestsInv'
<1>1. RequestsTyped /\ AllFollow /\ Q!TableTidy /\ Follows(handler[r], run[r], queued[r], emitted[r], given[r])
  BY DEF RequestsInv, AllFollow
<1>2. Follows(handler[r], u, queued[r], emitted[r], given[r])
  BY <1>1 DEF Follows
<1>3. RequestsTyped' /\ OnlyAt(r)
  BY <1>1 DEF RequestsTyped, OnlyAt
<1>a. handler'[r] = handler[r] /\ run'[r] = u /\ queued'[r] = queued[r] /\ emitted'[r] = emitted[r] /\ given'[r] = given[r]
  BY <1>1 DEF RequestsTyped
<1>b. AllFollow'
  BY <1>1, <1>2, <1>3, <1>a, OneFollows
<1>4. QED BY <1>1, <1>3, <1>b DEF RequestsInv, Q!TableTidy, Q!Started

\* A run begins or ends.
LEMMA RunSteps ==
  ASSUME RequestsInv, NEW r \in Ids, Q!Begin(r) \/ \E how \in {"done", "failed"} : Q!End(r, how)
  PROVE  RequestsInv'
<1>1. PICK u \in Phases : /\ u \in {"running", "done", "failed"} /\ run[r] \in {"starting", "running"}
                          /\ run' = [run EXCEPT ![r] = u] /\ UNCHANGED <<handler, registered, queued, emitted, given>>
  BY DEF Q!Begin, Q!End, Phases
<1>2. QED BY <1>1, RunGoesOn

\* An event of a run is queued only for a stream that is still piped.
LEMMA EmitStep ==
  ASSUME RequestsInv, NEW r \in Ids, NEW e \in Events, Q!Emit(r, e)
  PROVE  RequestsInv'
<1> DEFINE m == Append(emitted[r], e)
           q == IF handler[r] = "piping" THEN Append(queued[r], e) ELSE queued[r]
<1>1. RequestsTyped /\ AllFollow /\ Q!TableTidy /\ Follows(handler[r], run[r], queued[r], emitted[r], given[r])
      /\ given[r] \in Seq(Events) /\ queued[r] \in Seq(Events) /\ emitted[r] \in Seq(Events)
  BY DEF RequestsInv, AllFollow, RequestsTyped
<1>2. /\ run[r] = "running" /\ emitted' = [emitted EXCEPT ![r] = m] /\ queued' = [queued EXCEPT ![r] = q]
      /\ UNCHANGED <<handler, run, registered, given>>
  BY <1>1 DEF Q!Emit, RequestsTyped
<1>3. m \in Seq(Events) /\ q \in Seq(Events)
  BY <1>1
<1>4. ASSUME handler[r] = "piping" PROVE m = given[r] \o q
  <2>1. emitted[r] = given[r] \o queued[r]
    BY <1>1, <1>4 DEF Follows
  <2> DEFINE g == given[r]
             w == queued[r]
  <2>a. g \in Seq(Events) /\ w \in Seq(Events)
    BY <1>1
  <2> HIDE DEF g, w
  <2>b. /\ g \o w \in Seq(Events) /\ <<e>> \in Seq(Events)
        /\ Append(w, e) = w \o <<e>> /\ Append(g \o w, e) = (g \o w) \o <<e>>
    BY <2>a, AppendIsConcat, ConcatProperties
  <2>2. Append(g \o w, e) = g \o Append(w, e)
    BY <2>a, <2>b, ConcatAssociative
  <2>3. QED BY <1>4, <2>1, <2>2 DEF g, w
<1>5. handler[r] \in {"success", "error", "left"} => Begins(given[r], m)
  BY <1>1, AppendProperties DEF Follows, Begins
<1>6. handler[r] # "piping" => q = queued[r]
  OBVIOUS
<1> HIDE DEF m, q
<1>7. Follows(handler[r], run[r], q, m, given[r])
  BY <1>1, <1>2, <1>4, <1>5, <1>6 DEF Follows
<1>a. RequestsTyped' /\ OnlyAt(r)
  BY <1>1, <1>2, <1>3 DEF RequestsTyped, OnlyAt
<1>b. handler'[r] = handler[r] /\ run'[r] = run[r] /\ queued'[r] = q /\ emitted'[r] = m /\ given'[r] = given[r]
  BY <1>1, <1>2 DEF RequestsTyped
<1>8. RequestsTyped' /\ AllFollow'
  BY <1>1, <1>a, <1>b, <1>7, OneFollows
<1>9. QED BY <1>1, <1>2, <1>8 DEF RequestsInv, Q!TableTidy, Q!Started

\* A stop ends the run it finds.
LEMMA StopSteps ==
  ASSUME RequestsInv, Q!AskStop \/ Q!Stop
  PROVE  RequestsInv'
<1>1. CASE registered # Q!Nobody /\ run[registered] = "running" /\ Q!Stop
  <2>1. registered \in Ids /\ run' = [run EXCEPT ![registered] = "done"] /\ UNCHANGED <<handler, registered, queued, emitted, given>>
    BY <1>1 DEF Q!Stop, RequestsInv, RequestsTyped
  <2>2. QED BY <1>1, <2>1, RunGoesOn DEF Phases
<1>2. CASE UNCHANGED <<handler, run, registered, queued, emitted, given>>
  BY <1>2 DEF RequestsInv, RequestsTyped, AllFollow, Q!TableTidy, Q!Started
<1>3. QED BY <1>1, <1>2 DEF Q!AskStop, Q!Stop

\* The types of what the invariant does not speak of.
RestTyped ==
    /\ over \in Transports /\ holder \in Ids \cup {Q!Nobody}
    /\ stopping \in {"none", "in time", "late", "missed"} /\ stops \in 0..MaxStops

\* Every step keeps those types.
LEMMA RestStaysTyped ==
  ASSUME Q!RequestsAssumption, RequestsInv, RestTyped, [Q!Next]_Q!vars
  PROVE  RestTyped'
<1>1. ASSUME NEW r \in Ids, (\E k \in {"query", "stream"} : Q!Ask(r, k)) \/ Q!Register(r) \/ Q!CreateFails(r)
      PROVE  RestTyped'
  BY <1>1 DEF RestTyped, Q!Ask, Q!Register, Q!CreateFails
<1>2. ASSUME NEW r \in Ids, Q!Pipe(r) \/ Q!PipeEnds(r) \/ Q!Drain(r) \/ Q!Answer(r) \/ Q!Leave(r)
      PROVE  RestTyped'
  BY <1>2 DEF RestTyped, Q!Pipe, Q!PipeEnds, Q!Drain, Q!Answer, Q!Leave
<1>3. ASSUME NEW r \in Ids,
             Q!Begin(r) \/ (\E e \in Events : Q!Emit(r, e)) \/ \E how \in {"done", "failed"} : Q!End(r, how)
      PROVE  RestTyped'
  BY <1>3 DEF RestTyped, Q!Begin, Q!Emit, Q!End
<1>4. CASE Q!AskStop \/ Q!Stop \/ UNCHANGED Q!vars
  <2>1. CASE Q!AskStop
    <3>1. stops' \in 0..MaxStops
      <4>1. stops \in 0..MaxStops BY DEF RestTyped
      <4>2. MaxStops \in Nat BY DEF Q!RequestsAssumption
      <4>3. stops > 0 /\ stops' = stops - 1 BY <2>1 DEF Q!AskStop
      <4>4. QED BY <4>1, <4>2, <4>3
    <3>2. over' = over /\ holder' = holder /\ stopping' \in {"in time", "late"}
      BY <2>1 DEF Q!AskStop
    <3>3. QED BY <3>1, <3>2 DEF RestTyped
  <2>2. CASE Q!Stop BY <2>2 DEF RestTyped, Q!Stop
  <2>3. CASE UNCHANGED Q!vars BY <2>3 DEF RestTyped, Q!vars
  <2>4. QED BY <1>4, <2>1, <2>2, <2>3
<1>5. QED BY <1>1, <1>2, <1>3, <1>4 DEF Q!Next

\* Nobody has asked for anything.
LEMMA RequestsBegin ==
  ASSUME Q!RequestsAssumption, Q!Init
  PROVE  RequestsInv /\ RestTyped
<1>1. RequestsInv
  BY DEF Q!Init, RequestsInv, RequestsTyped, AllFollow, Follows, Q!TableTidy, States, Phases
<1>2. RestTyped
  BY DEF Q!Init, RestTyped, Q!RequestsAssumption
<1>3. QED BY <1>1, <1>2

\* Every step of the requests.
LEMMA RequestsStep ==
  ASSUME RequestsInv, [Q!Next]_Q!vars
  PROVE  RequestsInv'
<1>1. ASSUME NEW r \in Ids, (\E k \in {"query", "stream"} : Q!Ask(r, k)) \/ Q!Register(r) \/ Q!CreateFails(r) PROVE RequestsInv'
  BY <1>1, BeginSteps
<1>2. ASSUME NEW r \in Ids, Q!Pipe(r) \/ Q!PipeEnds(r) \/ Q!Drain(r) PROVE RequestsInv'
  BY <1>2, PipeSteps
<1>3. ASSUME NEW r \in Ids, Q!Answer(r) \/ Q!Leave(r) PROVE RequestsInv'
  BY <1>3, AnswerSteps
<1>4. ASSUME NEW r \in Ids, Q!Begin(r) \/ \E how \in {"done", "failed"} : Q!End(r, how) PROVE RequestsInv'
  BY <1>4, RunSteps
<1>5. ASSUME NEW r \in Ids, NEW e \in Events, Q!Emit(r, e) PROVE RequestsInv'
  BY <1>5, EmitStep
<1>6. CASE Q!AskStop \/ Q!Stop
  BY <1>6, StopSteps
<1>7. CASE UNCHANGED Q!vars
  BY <1>7 DEF Q!vars, RequestsInv, RequestsTyped, AllFollow, Q!TableTidy, Q!Started
<1>8. QED BY <1>1, <1>2, <1>3, <1>4, <1>5, <1>6, <1>7 DEF Q!Next

\* What the invariant says of the streams.
LEMMA RequestsStream ==
  ASSUME RequestsInv
  PROVE  Q!StreamsWhole /\ Q!TableTidy
<1> SUFFICES ASSUME RequestsInv, NEW r \in Ids, handler[r] \in {"piping", "draining", "closing", "success", "error", "left"}
             PROVE  /\ Len(given[r]) <= Len(emitted[r]) /\ \A i \in DOMAIN given[r] : given[r][i] = emitted[r][i]
                    /\ handler[r] = "closing" => given[r] = emitted[r]
  BY DEF RequestsInv, Q!StreamsWhole
<1>1. Follows(handler[r], run[r], queued[r], emitted[r], given[r]) /\ given[r] \in Seq(Events)
      /\ emitted[r] \in Seq(Events) /\ queued[r] \in Seq(Events)
  BY DEF RequestsInv, AllFollow, RequestsTyped
<1>2. Begins(given[r], emitted[r])
  <2>1. CASE handler[r] \in {"piping", "draining"}
    <3>1. emitted[r] = given[r] \o queued[r]
      BY <1>1, <2>1 DEF Follows
    <3>2. QED BY <1>1, <3>1, PartBegins
  <2>2. CASE handler[r] = "closing" BY <1>1, <2>2 DEF Follows, Begins
  <2>3. CASE handler[r] \in {"success", "error", "left"} BY <1>1, <2>3 DEF Follows
  <2>4. QED BY <2>1, <2>2, <2>3
<1>3. DOMAIN given[r] = 1..Len(given[r]) BY <1>1
<1>4. QED BY <1>1, <1>2, <1>3 DEF Follows, Begins

\* What it says of the types.
LEMMA RequestsTypes ==
  ASSUME RequestsInv, RestTyped
  PROVE  Q!TypeOK
<1>1. /\ handler \in [Ids -> {"none"} \cup Q!Serving \cup Q!Over]
      /\ run \in [Ids -> {"none", "starting", "running", "done", "failed"}]
  BY DEF RequestsInv, RequestsTyped, States, Phases
<1>2. \A r \in Ids : {queued[r], emitted[r], given[r]} \subseteq Seq(Events)
  BY DEF RequestsInv, RequestsTyped
<1>3. registered \in Ids \cup {Q!Nobody}
  BY DEF RequestsInv, RequestsTyped
<1>4. QED BY <1>1, <1>2, <1>3, Zenon DEF RestTyped, Q!TypeOK

\* The client of a stream is given the events of its run in order, and all of them before
\* the end of the stream; who is in the table of agents is being served; and the requests
\* are well typed.
THEOREM StreamsComeWhole == Spec => []StreamsWhole /\ [](part = "requests" => Q!TypeOK)
<1> DEFINE I == part = "requests" => RequestsInv /\ RestTyped
<1>1. Init => I
  BY OneBegins, RequestsBegin, Assumed
<1>2. I /\ [Next]_vars => I'
  <2> SUFFICES ASSUME I, [Next]_vars, part' = "requests" PROVE RequestsInv' /\ RestTyped'
    OBVIOUS
  <2>1. RequestsInv /\ RestTyped /\ [Q!Next]_Q!vars
    BY OneSteps
  <2>2. QED BY <2>1, RequestsStep, RestStaysTyped, Assumed
<1>3. I => StreamsWhole
  BY RequestsStream DEF StreamsWhole
<1>4. I => (part = "requests" => Q!TypeOK)
  BY RequestsTypes
<1>5. QED BY <1>1, <1>2, <1>3, <1>4, PTL DEF Spec

-----------------------------------------------------------------------------
(* The endpoints of a team: who follows a run misses nothing of it. *)

\* The clients the theorem is about: no stream is asked for while another is about to start,
\* and no query while a run is under way, for then the team that runs is lost.
Turns == T!TeamRoutesAssumption /\ ~StartsMeet /\ ~QueriesMeet /\ T!Nobody \notin Posts

\* The types.
RoutesTyped ==
    /\ teams \in 0..MaxTeams /\ team \in 0..teams /\ running \subseteq 1..teams
    /\ mux \in [T!Teams -> Posts \cup {T!Nobody}] /\ of \in [Posts -> 0..teams]
    /\ client \in [T!Clients -> {"none"} \cup T!On \cup T!Off]
    /\ job \in [Posts -> {"none", "starting", "running", "ended", "raised"}]
    /\ sink \in [Posts -> Posts \cup {T!Nobody}]
    /\ pipe \in [Posts -> Seq(0..MaxStored)]
    /\ store \in Seq(1..MaxStored) /\ Len(store) <= MaxStored
    /\ from \in [T!Clients -> 0..MaxStored] /\ seen \in [T!Clients -> Seq(1..MaxStored)]

\* One post at a time is about to run a team, or runs it, and the team is the registry's.
Busy(p) == client[p] \in {"starting", "asking"} \/ job[p] \in {"starting", "running"}
Sole == \A p, q \in Posts : Busy(p) /\ Busy(q) => p = q
Known == \A p \in Posts : Busy(p) => of[p] = team /\ team # 0
Running == /\ \A t \in running : \E p \in Posts : job[p] = "running" /\ of[p] = t
           /\ \A p \in Posts : job[p] = "running" => of[p] \in running
\* A client that has not come has been given nothing, and no run is there before its start.
Fresh == /\ \A c \in T!Clients : client[c] = "none" => seen[c] = <<>>
         /\ \A p \in Posts : client[p] \in {"none", "starting"} => job[p] = "none"
\* A multiplexer that a team has, or its agents report to, is that of the run under way.
Feeds == /\ \A t \in T!Teams : mux[t] # T!Nobody => of[mux[t]] = t /\ job[mux[t]] \in {"starting", "running"}
         /\ \A p \in Posts : job[p] = "running" => sink[p] \in {p, T!Nobody}
\* The mark is the last of a queue, and the run has ended.
Ends(s, j) == \A i \in 1..Len(s) : s[i] = 0 => i = Len(s) /\ j = "ended"
Marked == \A p \in Posts : Ends(pipe[p], job[p])
\* A follower has been given what is stored from where it began.
Abreast(s, n, g) == n + Len(g) <= Len(s) /\ g = SubSeq(s, n + 1, n + Len(g))
UpTo(s, n, g) == n + Len(g) = Len(s)
Followed == \A c \in T!Clients : client[c] = "following" => Abreast(store, from[c], seen[c])

\* The invariant.
Orderly == Sole /\ Known /\ Running /\ Fresh /\ Feeds
RoutesInv == RoutesTyped /\ Orderly /\ Marked /\ Followed

\* Who takes a team, or makes one.
LEMMA TakeTeam ==
  ASSUME Turns, RoutesTyped, NEW t \in T!Teams, T!GetOrCreate(t)
  PROVE  teams \in 0..teams' /\ teams' \in 0..MaxTeams /\ t \in 1..teams' /\ (team # 0 => t = team)
BY DEF Turns, T!TeamRoutesAssumption, RoutesTyped, T!Teams, T!GetOrCreate

\* What is in the store stays there.
LEMMA Grown ==
  ASSUME NEW S, NEW s \in Seq(S), NEW e \in S, NEW n \in Nat, NEW k \in Nat, n + k <= Len(s)
  PROVE  SubSeq(Append(s, e), n + 1, n + k) = SubSeq(s, n + 1, n + k)
<1> DEFINE l == Append(s, e)
           a == SubSeq(l, n + 1, n + k)
           b == SubSeq(s, n + 1, n + k)
<1>1. l \in Seq(S) /\ Len(l) = Len(s) + 1 /\ \A i \in 1..Len(s) : l[i] = s[i]
  BY AppendProperties
<1> HIDE DEF l
<1>2. a \in Seq(S) /\ Len(a) = k /\ \A i \in 1..k : a[i] = l[n + i]
  BY <1>1
<1>3. b \in Seq(S) /\ Len(b) = k /\ \A i \in 1..k : b[i] = s[n + i]
  BY SMTT(20)
<1> HIDE DEF a, b
<1>4. \A i \in 1..k : a[i] = b[i]
  <2> SUFFICES ASSUME NEW i \in 1..k PROVE a[i] = b[i]
    OBVIOUS
  <2>1. n + i \in 1..Len(s)
    OBVIOUS
  <2>2. QED BY <1>1, <1>2, <1>3, <2>1
<1>5. QED BY <1>2, <1>3, <1>4, SeqEqual DEF a, b, l

\* A follower stays abreast of a store that grows.
LEMMA StaysAbreast ==
  ASSUME NEW S, NEW s \in Seq(S), NEW e \in S, NEW n \in Nat, NEW g \in Seq(S), Abreast(s, n, g)
  PROVE  Abreast(Append(s, e), n, g)
<1>1. Len(Append(s, e)) = Len(s) + 1 /\ Len(g) \in Nat /\ Len(s) \in Nat
  OBVIOUS
<1>2. QED BY <1>1, Grown DEF Abreast

\* The follower that takes the rest has it all.
LEMMA RestTaken ==
  ASSUME NEW S, NEW s \in Seq(S), NEW n \in Nat, NEW g \in Seq(S), Abreast(s, n, g),
         NEW w, w = g \o SubSeq(s, n + Len(g) + 1, Len(s))
  PROVE  w \in Seq(S) /\ Abreast(s, n, w) /\ UpTo(s, n, w)
<1> DEFINE r == SubSeq(s, n + Len(g) + 1, Len(s))
           a == SubSeq(s, n + 1, Len(s))
<1>1. Len(g) \in Nat /\ Len(s) \in Nat /\ n + Len(g) <= Len(s) /\ g = SubSeq(s, n + 1, n + Len(g))
  BY DEF Abreast
<1>2. /\ r \in Seq(S) /\ Len(r) = Len(s) - (n + Len(g))
      /\ \A i \in 1..Len(r) : r[i] = s[n + Len(g) + i]
  BY <1>1
<1>3. \A i \in 1..Len(g) : g[i] = s[n + i]
  <2> DEFINE k == Len(g)
  <2>1. k \in Nat /\ n + k <= Len(s) /\ g = SubSeq(s, n + 1, n + k)
    BY <1>1
  <2> HIDE DEF k
  <2>2. \A i \in 1..k : SubSeq(s, n + 1, n + k)[i] = s[n + i]
    BY <2>1
  <2>3. QED BY <2>1, <2>2 DEF k
<1>4. /\ a \in Seq(S) /\ Len(a) = Len(s) - n
      /\ \A i \in 1..Len(a) : a[i] = s[n + i]
  BY <1>1, RestFacts
<1> HIDE DEF r, a
<1>5. /\ w = g \o r /\ w \in Seq(S) /\ Len(w) = Len(g) + Len(r)
      /\ \A i \in 1..Len(w) : w[i] = IF i <= Len(g) THEN g[i] ELSE r[i - Len(g)]
  BY <1>2, ConcatProperties DEF r
<1>6. Len(w) = Len(s) - n
  BY <1>1, <1>2, <1>5
<1>7. \A i \in 1..Len(w) : w[i] = a[i]
  <2> SUFFICES ASSUME NEW i \in 1..Len(w) PROVE w[i] = a[i]
    OBVIOUS
  <2>1. a[i] = s[n + i] /\ i \in Nat
    BY <1>1, <1>4, <1>6
  <2>2. CASE i <= Len(g)
    BY <1>1, <1>3, <1>5, <2>1, <2>2
  <2>3. CASE i > Len(g)
    <3> DEFINE j == i - Len(g)
    <3>1. j \in 1..Len(r) /\ n + Len(g) + j = n + i
      BY <1>1, <1>2, <1>5, <1>6, <2>3
    <3>2. w[i] = r[j]
      BY <1>1, <1>5, <2>1, <2>3
    <3> HIDE DEF j
    <3>3. r[j] = s[n + Len(g) + j]
      BY <1>2, <3>1
    <3>4. QED BY <2>1, <3>1, <3>2, <3>3
  <2>4. i <= Len(g) \/ i > Len(g)
    BY <1>1, <2>1
  <2>5. QED BY <2>2, <2>3, <2>4
<1>8. w = a
  <2>1. w \in Seq(S) /\ a \in Seq(S) /\ Len(w) = Len(a)
    BY <1>4, <1>5, <1>6
  <2>2. QED BY <2>1, <1>7, SeqEqual, Zenon
<1>9. n + Len(w) = Len(s)
  BY <1>1, <1>6
<1>10. w = SubSeq(s, n + 1, n + Len(w))
  BY <1>8, <1>9, Zenon DEF a
<1>11. w \in Seq(S) /\ n + Len(w) <= Len(s)
  BY <1>1, <1>5, <1>9
<1>12. QED BY <1>9, <1>10, <1>11, Zenon DEF Abreast, UpTo

\* What an event does to the store and to the queues.
LEMMA Reported ==
  ASSUME Turns, RoutesInv, NEW m \in Posts \cup {T!Nobody}, m # T!Nobody => job[m] # "ended", T!Report(m)
  PROVE  /\ store' \in Seq(1..MaxStored) /\ Len(store') <= MaxStored /\ Len(store') >= Len(store)
         /\ pipe' \in [Posts -> Seq(0..MaxStored)]
         /\ \A p \in Posts : Ends(pipe'[p], job[p])
         /\ \A c \in T!Clients : Abreast(store, from[c], seen[c]) => Abreast(store', from[c], seen[c])
<1>1. RoutesTyped /\ Marked /\ MaxStored \in Nat
  BY DEF RoutesInv, Turns, T!TeamRoutesAssumption
<1>2. CASE m = T!Nobody
  BY <1>1, <1>2 DEF T!Report, RoutesTyped, Marked
<1>3. CASE m # T!Nobody
  <2> DEFINE e == Len(store) + 1
  <2>1. m \in Posts /\ e \in 1..MaxStored /\ store' = Append(store, e) /\ pipe' = [pipe EXCEPT ![m] = Append(@, e)]
    BY <1>1, <1>3 DEF T!Report, RoutesTyped
  <2>2. Len(store') = e /\ store' \in Seq(1..MaxStored)
    BY <1>1, <2>1 DEF RoutesTyped
  <2> HIDE DEF e
  <2>3. pipe[m] \in Seq(0..MaxStored) /\ e \in 0..MaxStored /\ e # 0 /\ job[m] # "ended"
    BY <1>1, <1>3, <2>1 DEF RoutesTyped
  <2>4. Append(pipe[m], e) \in Seq(0..MaxStored) /\ Ends(Append(pipe[m], e), job[m])
    <3>1. \A i \in 1..Len(pipe[m]) : pipe[m][i] # 0
      BY <1>1, <2>1, <2>3 DEF Marked, Ends
    <3>2. QED BY <2>3, <3>1, AppendProperties DEF Ends
  <2>5. pipe' \in [Posts -> Seq(0..MaxStored)] /\ \A p \in Posts : Ends(pipe'[p], job[p])
    BY <1>1, <2>1, <2>4 DEF RoutesTyped, Marked
  <2>6. \A c \in T!Clients : Abreast(store, from[c], seen[c]) => Abreast(store', from[c], seen[c])
    <3> SUFFICES ASSUME NEW c \in T!Clients, Abreast(store, from[c], seen[c]) PROVE Abreast(store', from[c], seen[c])
      OBVIOUS
    <3>1. store \in Seq(1..MaxStored) /\ seen[c] \in Seq(1..MaxStored) /\ from[c] \in Nat
      BY <1>1 DEF RoutesTyped
    <3>2. QED BY <2>1, <3>1, StaysAbreast
  <2>7. QED BY <1>1, <2>1, <2>2, <2>5, <2>6 DEF e, RoutesTyped
<1>4. QED BY <1>2, <1>3

\* A stream or a query begins: nothing of the team is under way.
LEMMA PostKeeps ==
  ASSUME Turns, RoutesInv, NEW p \in Posts, NEW t \in T!Teams, T!PostStream(p, t) \/ T!PostQuery(p, t)
  PROVE  RoutesInv'
<1> DEFINE how == IF T!PostStream(p, t) THEN "starting" ELSE "asking"
<1>1. RoutesTyped /\ Orderly /\ Marked /\ Followed /\ p \in T!Clients /\ MaxStored \in Nat /\ MaxTeams \in Nat
  BY DEF RoutesInv, T!Clients, Turns, T!TeamRoutesAssumption
<1>2. /\ client[p] = "none" /\ team' = t /\ of' = [of EXCEPT ![p] = t]
      /\ running = {} /\ T!NoneStarts /\ T!NoneAsks
      /\ UNCHANGED <<running, mux, sink, pipe, store, from, seen>>
  <2>1. teams \in 0..teams' /\ (team # 0 => t = team)
    BY <1>1, TakeTeam DEF T!PostStream, T!PostQuery
  <2>2. running \subseteq {team}
    BY <1>1 DEF Orderly, Running, Known, Busy
  <2>3. QED BY <1>1, <2>1, <2>2 DEF T!PostStream, T!PostQuery, Turns, RoutesTyped
<1>3. teams \in 0..teams' /\ teams' \in 0..MaxTeams /\ t \in 1..teams'
  BY <1>1, TakeTeam DEF T!PostStream, T!PostQuery
<1>4. \/ client' = [client EXCEPT ![p] = "starting"] /\ job' = job
      \/ client' = [client EXCEPT ![p] = "asking"] /\ job' = [job EXCEPT ![p] = "starting"]
  BY DEF T!PostStream, T!PostQuery
<1>5. RoutesTyped'
  <2>1. client' \in [T!Clients -> {"none"} \cup T!On \cup T!Off] /\ job' \in [Posts -> {"none", "starting", "running", "ended", "raised"}]
    BY <1>1, <1>4 DEF RoutesTyped, T!On
  <2>2. of' \in [Posts -> 0..teams']
    BY <1>1, <1>2, <1>3 DEF RoutesTyped
  <2>3. QED BY <1>1, <1>2, <1>3, <2>1, <2>2 DEF RoutesTyped
<1>6. \A q \in Posts \ {p} : client'[q] = client[q] /\ job'[q] = job[q] /\ of'[q] = of[q] /\ ~Busy(q)
  <2>1. \A q \in Posts : client[q] \notin {"starting", "asking"} /\ job[q] # "starting"
    BY <1>2 DEF T!NoneStarts, T!NoneAsks
  <2>2. \A q \in Posts : job[q] # "running"
    BY <1>1, <1>2 DEF Orderly, Running
  <2>3. \A q \in Posts : ~Busy(q)
    BY <2>1, <2>2 DEF Busy
  <2>4. \A q \in Posts \ {p} : client'[q] = client[q] /\ job'[q] = job[q] /\ of'[q] = of[q]
    BY <1>1, <1>2, <1>4 DEF RoutesTyped, T!Clients
  <2>5. QED BY <2>3, <2>4
<1>7. /\ \A c \in T!Clients \ {p} : client'[c] = client[c]
      /\ of'[p] = t /\ client'[p] \in {"starting", "asking"} /\ job[p] = "none"
      /\ job'[p] = "none" \/ (job'[p] = "starting" /\ client'[p] = "asking")
  BY <1>1, <1>2, <1>4 DEF RoutesTyped, Orderly, Fresh
<1>8. Sole' /\ Known'
  <2>1. \A q \in Posts : Busy(q)' => q = p
    BY <1>6 DEF Busy
  <2>2. t # 0
    BY <1>3, <1>1 DEF RoutesTyped
  <2>3. QED BY <1>2, <1>7, <2>1, <2>2 DEF Sole, Known
<1>9. Running' /\ Fresh'
  <2>1. \A q \in Posts : job'[q] # "running"
    BY <1>2, <1>6, <1>7 DEF Busy
  <2>2. Running' BY <1>2, <2>1 DEF Running
  <2>3. \A c \in T!Clients : client'[c] = "none" => seen'[c] = <<>>
    BY <1>1, <1>2, <1>7 DEF Orderly, Fresh
  <2>4. \A q \in Posts : client'[q] \in {"none", "starting"} => job'[q] = "none"
    BY <1>1, <1>6, <1>7 DEF Orderly, Fresh
  <2>5. QED BY <2>2, <2>3, <2>4 DEF Fresh
<1>10. Feeds'
  BY <1>1, <1>2, <1>6, <1>7, SMTT(20) DEF Orderly, Feeds, RoutesTyped, Busy
<1>11. Marked' /\ Followed'
  BY <1>1, <1>2, <1>6, <1>7, SMTT(20) DEF Marked, Ends, Followed, RoutesTyped
<1>12. QED BY <1>5, <1>8, <1>9, <1>10, <1>11 DEF RoutesInv, Orderly

\* A stream that starts takes the multiplexer of its team.
LEMMA StartKeeps ==
  ASSUME Turns, RoutesInv, NEW p \in Posts, T!Start(p)
  PROVE  RoutesInv'
<1>1. RoutesTyped /\ Orderly /\ Marked /\ Followed /\ p \in T!Clients
  BY DEF RoutesInv, T!Clients
<1>2. /\ client[p] = "starting" /\ job[p] = "none" /\ of[p] = team /\ of[p] \in T!Teams /\ mux' = [mux EXCEPT ![of[p]] = p]
      /\ job' = [job EXCEPT ![p] = "starting"] /\ client' = [client EXCEPT ![p] = "reading"]
      /\ UNCHANGED <<team, teams, running, of, sink, pipe, store, from, seen>>
  BY <1>1 DEF T!Start, Orderly, Fresh, Known, Busy, RoutesTyped, T!Teams, Turns, T!TeamRoutesAssumption
<1>3. RoutesTyped'
  BY <1>1, <1>2 DEF RoutesTyped, T!On
<1>4. \A q \in Posts \ {p} : client'[q] = client[q] /\ job'[q] = job[q]
  BY <1>1, <1>2 DEF RoutesTyped
<1>5. /\ \A c \in T!Clients \ {p} : client'[c] = client[c]
      /\ client'[p] = "reading" /\ job'[p] = "starting"
  BY <1>1, <1>2 DEF RoutesTyped
<1>6. Sole' /\ Known'
  BY <1>1, <1>2, <1>4, <1>5 DEF Orderly, Sole, Known, Busy
<1>7. Running' /\ Fresh'
  BY <1>1, <1>2, <1>4, <1>5 DEF Orderly, Running, Fresh, RoutesTyped
<1>8. Feeds'
  <2>1. \A t \in T!Teams : mux'[t] # T!Nobody => of'[mux'[t]] = t /\ job'[mux'[t]] \in {"starting", "running"}
    <3> SUFFICES ASSUME NEW t \in T!Teams, mux'[t] # T!Nobody
                 PROVE  of'[mux'[t]] = t /\ job'[mux'[t]] \in {"starting", "running"}
      OBVIOUS
    <3>1. CASE t = of[p] BY <1>1, <1>2, <1>5, <3>1 DEF RoutesTyped
    <3>2. CASE t # of[p]
      <4>1. mux'[t] = mux[t] /\ mux[t] \in Posts /\ of[mux[t]] = t /\ job[mux[t]] \in {"starting", "running"}
        BY <1>1, <1>2, <3>2 DEF RoutesTyped, Orderly, Feeds
      <4>2. QED BY <1>2, <1>4, <1>5, <4>1
    <3>3. QED BY <3>1, <3>2
  <2>2. QED BY <1>1, <1>2, <1>4, <1>5, <2>1 DEF Orderly, Feeds
<1>9. Marked' /\ Followed'
  BY <1>1, <1>2, <1>4, <1>5 DEF Marked, Ends, Followed, RoutesTyped
<1>10. QED BY <1>3, <1>6, <1>7, <1>8, <1>9 DEF RoutesInv, Orderly

\* The client of a stream is given an event.
LEMMA ReadKeeps ==
  ASSUME Turns, RoutesInv, NEW p \in Posts, T!Read(p)
  PROVE  RoutesInv'
<1>1. RoutesTyped /\ Orderly /\ Marked /\ Followed /\ p \in T!Clients /\ MaxStored \in Nat
  BY DEF RoutesInv, T!Clients, Turns, T!TeamRoutesAssumption
<1> DEFINE e == Head(pipe[p])
           w == Tail(pipe[p])
           g == Append(seen[p], e)
<1>2. /\ client[p] = "reading" /\ pipe[p] # <<>> /\ e # 0
      /\ seen' = [seen EXCEPT ![p] = g] /\ pipe' = [pipe EXCEPT ![p] = w]
      /\ UNCHANGED <<team, teams, running, mux, of, client, job, sink, store, from>>
  BY <1>1 DEF T!Read, T!End, RoutesTyped
<1>3. /\ e \in 1..MaxStored /\ w \in Seq(0..MaxStored) /\ g \in Seq(1..MaxStored)
      /\ Ends(w, job[p])
  <2>1. pipe[p] \in Seq(0..MaxStored) /\ seen[p] \in Seq(1..MaxStored) /\ Ends(pipe[p], job[p])
    BY <1>1 DEF RoutesTyped, Marked
  <2>2. /\ e \in 1..MaxStored /\ w \in Seq(0..MaxStored) /\ Len(w) = Len(pipe[p]) - 1
        /\ \A i \in 1..Len(w) : w[i] = pipe[p][i + 1]
    <3> DEFINE s == pipe[p]
    <3>1. s \in Seq(0..MaxStored) /\ s # <<>> /\ Head(s) # 0
      BY <1>2, <2>1
    <3> HIDE DEF s
    <3>2. /\ Head(s) \in 1..MaxStored /\ Tail(s) \in Seq(0..MaxStored) /\ Len(Tail(s)) = Len(s) - 1
          /\ \A i \in 1..Len(Tail(s)) : Tail(s)[i] = s[i + 1]
      BY <1>1, <3>1
    <3>3. QED BY <3>2 DEF s
  <2>3. g \in Seq(1..MaxStored)
    BY <2>1, <2>2
  <2> HIDE DEF e, w, g
  <2>4. Ends(w, job[p])
    <3> DEFINE s == pipe[p]
    <3>1. /\ s \in Seq(0..MaxStored) /\ w \in Seq(0..MaxStored) /\ Len(w) = Len(s) - 1
          /\ \A i \in 1..Len(w) : w[i] = s[i + 1]
          /\ Ends(s, job[p])
      BY <2>1, <2>2
    <3> HIDE DEF s
    <3>2. QED BY <3>1 DEF Ends
  <2>5. QED BY <2>2, <2>3, <2>4
<1> HIDE DEF e, w, g
<1>4. RoutesTyped'
  BY <1>1, <1>2, <1>3 DEF RoutesTyped
<1>5. Orderly'
  <2>1. Sole' /\ Known' /\ Running' /\ Feeds'
    BY <1>1, <1>2 DEF Orderly, Sole, Known, Busy, Running, Feeds
  <2>2. Fresh'
    BY <1>1, <1>2 DEF Orderly, Fresh, RoutesTyped
  <2>3. QED BY <2>1, <2>2 DEF Orderly
<1>6. Marked'
  BY <1>1, <1>2, <1>3 DEF Marked, RoutesTyped
<1>7. Followed'
  BY <1>1, <1>2 DEF Followed, RoutesTyped
<1>8. QED BY <1>4, <1>5, <1>6, <1>7 DEF RoutesInv

\* A response that is over, or left, with no other state than the team's.
LEMMA ClosingKeeps ==
  ASSUME Turns, RoutesInv, NEW c \in T!Clients, NEW state \in T!Off,
         client[c] \notin {"none", "starting", "asking"},
         client' = [client EXCEPT ![c] = state],
         NEW g \in Seq(1..MaxStored), seen' = [seen EXCEPT ![c] = g],
         UNCHANGED <<team, teams, running, mux, of, job, sink, pipe, store, from>>
  PROVE  RoutesInv'
<1>1. RoutesTyped /\ Orderly /\ Marked /\ Followed
  BY DEF RoutesInv
<1>2. RoutesTyped'
  BY <1>1 DEF RoutesTyped
<1>3. /\ \A x \in T!Clients \ {c} : client'[x] = client[x] /\ seen'[x] = seen[x]
      /\ client'[c] = state /\ state \in {"complete", "error", "left"} /\ Posts \subseteq T!Clients
  BY <1>1 DEF RoutesTyped, T!Off, T!Clients
<1>4. Orderly'
  <2>1. Sole' /\ Known'
    BY <1>1, <1>3 DEF Orderly, Sole, Known, Busy
  <2>2. Running' /\ Fresh' /\ Feeds'
    BY <1>1, <1>3 DEF Orderly, Running, Fresh, Feeds
  <2>3. QED BY <2>1, <2>2 DEF Orderly
<1>5. Marked' /\ Followed'
  BY <1>1, <1>3 DEF Marked, Followed
<1>6. QED BY <1>2, <1>4, <1>5 DEF RoutesInv

\* A response comes to its end, or its client goes.
LEMMA ResponseKeeps ==
  ASSUME Turns, RoutesInv, NEW c \in T!Clients,
         (c \in Posts /\ T!ReadEnd(c)) \/ T!SeenOff(c) \/ T!Leave(c)
  PROVE  RoutesInv'
<1>1. RoutesTyped /\ Followed /\ MaxStored \in Nat
  BY DEF RoutesInv, Turns, T!TeamRoutesAssumption
<1>2. seen[c] \in Seq(1..MaxStored) /\ from[c] \in Nat /\ store \in Seq(1..MaxStored)
  BY <1>1 DEF RoutesTyped
<1>3. CASE (c \in Posts /\ T!ReadEnd(c)) \/ T!Leave(c)
  <2>1. PICK state \in T!Off : client' = [client EXCEPT ![c] = state]
    BY <1>3 DEF T!ReadEnd, T!Leave, T!Off
  <2>2. seen' = [seen EXCEPT ![c] = seen[c]] /\ client[c] \notin {"none", "starting", "asking"}
        /\ UNCHANGED <<team, teams, running, mux, of, job, sink, pipe, store, from>>
    BY <1>1, <1>3 DEF T!ReadEnd, T!Leave, RoutesTyped
  <2>3. QED BY <1>2, <2>1, <2>2, ClosingKeeps
<1>4. CASE T!SeenOff(c)
  <2> DEFINE g == seen[c] \o T!Rest(c)
  <2>1. Abreast(store, from[c], seen[c])
    BY <1>1, <1>4 DEF Followed, T!SeenOff
  <2>2. g \in Seq(1..MaxStored)
    BY <1>2, <2>1, RestTaken DEF T!Rest
  <2>3. seen' = [seen EXCEPT ![c] = g] /\ client' = [client EXCEPT ![c] = "complete"]
        /\ client[c] = "following" /\ UNCHANGED <<team, teams, running, mux, of, job, sink, pipe, store, from>>
    BY <1>1, <1>4 DEF T!SeenOff, RoutesTyped
  <2> HIDE DEF g
  <2>4. QED BY <2>2, <2>3, ClosingKeeps DEF T!Off
<1>5. QED BY <1>3, <1>4

\* A follower begins, and is given what there is.
LEMMA FollowKeeps ==
  ASSUME Turns, RoutesInv, NEW c \in T!Clients, T!Subscribe(c) \/ T!Poll(c)
  PROVE  RoutesInv'
<1>1. RoutesTyped /\ Orderly /\ Marked /\ Followed /\ MaxStored \in Nat
  BY DEF RoutesInv, Turns, T!TeamRoutesAssumption
<1>2. seen[c] \in Seq(1..MaxStored) /\ from[c] \in Nat /\ store \in Seq(1..MaxStored) /\ Len(store) <= MaxStored
      /\ Len(store) \in Nat
  BY <1>1 DEF RoutesTyped
<1>3. CASE T!Subscribe(c)
  <2>1. PICK n \in 0..Len(store) : from' = [from EXCEPT ![c] = n]
    BY <1>3 DEF T!Subscribe
  <2>2. /\ client[c] = "none" /\ client' = [client EXCEPT ![c] = "following"] /\ seen[c] = <<>>
        /\ UNCHANGED <<team, teams, running, mux, of, job, sink, pipe, store, seen>>
    BY <1>1, <1>3 DEF T!Subscribe, Orderly, Fresh
  <2>3. n \in 0..MaxStored
    BY <1>1, <1>2, <2>1
  <2>4. RoutesTyped'
    BY <1>1, <2>1, <2>2, <2>3 DEF RoutesTyped, T!On
  <2>5. /\ \A x \in T!Clients \ {c} : client'[x] = client[x] /\ from'[x] = from[x]
        /\ client'[c] = "following" /\ from'[c] = n /\ Posts \subseteq T!Clients
    BY <1>1, <2>1, <2>2 DEF RoutesTyped, T!Clients
  <2>6. Orderly'
    <3>1. Sole' /\ Known'
      BY <1>1, <2>2, <2>5 DEF Orderly, Sole, Known, Busy
    <3>2. Running' /\ Fresh' /\ Feeds'
      BY <1>1, <2>2, <2>5 DEF Orderly, Running, Fresh, Feeds
    <3>3. QED BY <3>1, <3>2 DEF Orderly
  <2>7. Abreast(store, n, seen[c])
    <3>1. SubSeq(store, n + 1, n + 0) = <<>>
      BY <1>2
    <3>2. QED BY <1>2, <2>2, <3>1 DEF Abreast
  <2>8. Followed'
    BY <1>1, <2>2, <2>5, <2>7 DEF Followed
  <2>9. Marked'
    BY <1>1, <2>2 DEF Marked
  <2>10. QED BY <2>4, <2>6, <2>8, <2>9 DEF RoutesInv
<1>4. CASE T!Poll(c)
  <2> DEFINE g == seen[c] \o T!Rest(c)
  <2>1. client[c] = "following" /\ Abreast(store, from[c], seen[c])
    BY <1>1, <1>4 DEF Followed, T!Poll
  <2>2. g \in Seq(1..MaxStored) /\ Abreast(store, from[c], g)
    BY <1>2, <2>1, RestTaken DEF T!Rest
  <2>3. seen' = [seen EXCEPT ![c] = g] /\ UNCHANGED <<team, teams, running, mux, of, client, job, sink, pipe, store, from>>
    BY <1>1, <1>4 DEF T!Poll, RoutesTyped
  <2> HIDE DEF g
  <2>4. RoutesTyped'
    BY <1>1, <2>2, <2>3 DEF RoutesTyped
  <2>5. \A x \in T!Clients : seen'[x] = IF x = c THEN g ELSE seen[x]
    BY <1>1, <2>3 DEF RoutesTyped
  <2>6. Orderly'
    <3>1. Sole' /\ Known' /\ Running' /\ Feeds'
      BY <1>1, <2>3 DEF Orderly, Sole, Known, Busy, Running, Feeds
    <3>2. Fresh'
      BY <1>1, <2>1, <2>3, <2>5 DEF Orderly, Fresh
    <3>3. QED BY <3>1, <3>2 DEF Orderly
  <2>7. Marked' /\ Followed'
    BY <1>1, <2>2, <2>3, <2>5 DEF Marked, Followed
  <2>8. QED BY <2>4, <2>6, <2>7 DEF RoutesInv
<1>5. QED BY <1>3, <1>4

\* An event of the team, a message for one of its agents: nothing but the events changes.
LEMMA ReportKeeps ==
  ASSUME Turns, RoutesInv, NEW m \in Posts \cup {T!Nobody}, m # T!Nobody => job[m] # "ended", T!Report(m),
         UNCHANGED <<team, teams, running, mux, of, client, job, sink, from, seen>>
  PROVE  RoutesInv'
<1>1. RoutesTyped /\ Orderly /\ Marked /\ Followed
  BY DEF RoutesInv
<1>2. /\ store' \in Seq(1..MaxStored) /\ Len(store') <= MaxStored
      /\ pipe' \in [Posts -> Seq(0..MaxStored)]
      /\ \A p \in Posts : Ends(pipe'[p], job[p])
      /\ \A c \in T!Clients : Abreast(store, from[c], seen[c]) => Abreast(store', from[c], seen[c])
  BY Reported
<1>3. RoutesTyped'
  BY <1>1, <1>2 DEF RoutesTyped
<1>4. Orderly'
  BY <1>1 DEF Orderly, Sole, Known, Busy, Running, Feeds, Fresh
<1>5. Marked' /\ Followed'
  BY <1>1, <1>2 DEF Marked, Followed
<1>6. QED BY <1>3, <1>4, <1>5 DEF RoutesInv

\* The message for the leader of a team that runs is an event, and the client follows.
LEMMA RedirectKeeps ==
  ASSUME Turns, RoutesInv, NEW p \in Posts, T!Redirect(p)
  PROVE  RoutesInv'
<1>1. RoutesTyped /\ Orderly /\ Marked /\ Followed /\ p \in T!Clients
  BY DEF RoutesInv, T!Clients
<1>2. /\ client[p] = "none" /\ team \in running /\ T!Report(mux[team])
      /\ of' = [of EXCEPT ![p] = team] /\ client' = [client EXCEPT ![p] = "following"]
      /\ from' = [from EXCEPT ![p] = Len(store')]
      /\ UNCHANGED <<team, teams, running, mux, job, sink, seen>>
  BY DEF T!Redirect
<1>3. team \in T!Teams /\ team \in 1..teams /\ MaxStored \in Nat
  BY <1>1, <1>2 DEF RoutesTyped, T!Teams, Turns, T!TeamRoutesAssumption
<1>4. mux[team] \in Posts \cup {T!Nobody} /\ (mux[team] # T!Nobody => job[mux[team]] # "ended")
  BY <1>1, <1>3 DEF RoutesTyped, Orderly, Feeds
<1>5. /\ store' \in Seq(1..MaxStored) /\ Len(store') <= MaxStored
      /\ pipe' \in [Posts -> Seq(0..MaxStored)]
      /\ \A q \in Posts : Ends(pipe'[q], job[q])
      /\ \A c \in T!Clients : Abreast(store, from[c], seen[c]) => Abreast(store', from[c], seen[c])
  BY <1>2, <1>4, Reported
<1>6. Len(store') \in 0..MaxStored
  BY <1>3, <1>5
<1>7. RoutesTyped'
  BY <1>1, <1>2, <1>3, <1>5, <1>6 DEF RoutesTyped, T!On
<1>8. /\ \A x \in T!Clients \ {p} : client'[x] = client[x] /\ from'[x] = from[x]
      /\ \A q \in Posts \ {p} : of'[q] = of[q]
      /\ client'[p] = "following" /\ from'[p] = Len(store') /\ of'[p] = team /\ job[p] = "none" /\ seen[p] = <<>>
      /\ Posts \subseteq T!Clients
  BY <1>1, <1>2 DEF RoutesTyped, T!Clients, Orderly, Fresh
<1>9. Orderly'
  <2>1. Sole' /\ Known'
    BY <1>1, <1>2, <1>8 DEF Orderly, Sole, Known, Busy
  <2>2. Running' /\ Fresh'
    BY <1>1, <1>2, <1>8 DEF Orderly, Running, Fresh
  <2>3. Feeds'
    BY <1>1, <1>2, <1>8 DEF Orderly, Feeds, RoutesTyped
  <2>4. QED BY <2>1, <2>2, <2>3 DEF Orderly
<1>10. Abreast(store', Len(store'), <<>>)
  <2> DEFINE s == store'
  <2>1. s \in Seq(1..MaxStored)
    BY <1>5
  <2> HIDE DEF s
  <2>2. Len(s) \in Nat /\ SubSeq(s, Len(s) + 1, Len(s) + 0) = <<>>
    BY <2>1
  <2>3. Abreast(s, Len(s), <<>>)
    BY <2>2 DEF Abreast
  <2>4. QED BY <2>3 DEF s
<1>11. Marked' /\ Followed'
  BY <1>1, <1>2, <1>5, <1>8, <1>10 DEF Marked, Followed
<1>12. QED BY <1>7, <1>9, <1>11 DEF RoutesInv

\* The endpoints that make a team where there is none.
LEMMA TouchKeeps ==
  ASSUME Turns, RoutesInv, NEW t \in T!Teams, T!Touch(t)
  PROVE  RoutesInv'
<1>1. RoutesTyped /\ Orderly /\ Marked /\ Followed
  BY DEF RoutesInv
<1>2. teams \in 0..teams' /\ teams' \in 0..MaxTeams /\ t \in 1..teams' /\ team = 0 /\ team' = t
      /\ UNCHANGED <<running, mux, of, client, job, sink, pipe, store, from, seen>>
  BY <1>1, TakeTeam DEF T!Touch
<1>3. RoutesTyped'
  BY <1>1, <1>2 DEF RoutesTyped
<1>4. \A q \in Posts : ~Busy(q)
  BY <1>1, <1>2 DEF Orderly, Known
<1>5. Orderly' /\ Marked' /\ Followed'
  BY <1>1, <1>2, <1>4 DEF Orderly, Sole, Known, Running, Fresh, Feeds, Busy, Marked, Followed
<1>6. QED BY <1>3, <1>5 DEF RoutesInv

\* The finally of a query.
LEMMA AnswerQueryKeeps ==
  ASSUME Turns, RoutesInv, NEW p \in Posts, T!AnswerQuery(p)
  PROVE  RoutesInv'
<1>1. RoutesTyped /\ Orderly /\ Marked /\ Followed
  BY DEF RoutesInv
<1>2. PICK state \in {"complete", "error"} : client' = [client EXCEPT ![p] = state]
  BY DEF T!AnswerQuery
<1>3. /\ client[p] = "asking" /\ job[p] \in {"ended", "raised"} /\ team' = 0
      /\ UNCHANGED <<teams, running, mux, of, job, sink, pipe, store, from, seen>>
  BY DEF T!AnswerQuery
<1>4. RoutesTyped'
  <2>1. client' \in [T!Clients -> {"none"} \cup T!On \cup T!Off]
    BY <1>1, <1>2 DEF RoutesTyped, T!Off
  <2>2. team' \in 0..teams'
    BY <1>1, <1>3 DEF RoutesTyped
  <2>3. QED BY <1>1, <1>3, <2>1, <2>2 DEF RoutesTyped
<1>5. /\ \A x \in T!Clients \ {p} : client'[x] = client[x]
      /\ client'[p] \in {"complete", "error"} /\ Posts \subseteq T!Clients
  BY <1>1, <1>2 DEF RoutesTyped, T!Clients
<1>6. \A q \in Posts : ~Busy(q)'
  BY <1>1, <1>3, <1>5 DEF Busy, Orderly, Sole
<1>7. Orderly'
  <2>1. Sole' /\ Known'
    BY <1>6 DEF Sole, Known
  <2>2. Running' /\ Fresh' /\ Feeds'
    BY <1>1, <1>3, <1>5 DEF Orderly, Running, Fresh, Feeds
  <2>3. QED BY <2>1, <2>2 DEF Orderly
<1>8. Marked' /\ Followed'
  BY <1>1, <1>3, <1>5 DEF Marked, Followed
<1>9. QED BY <1>4, <1>7, <1>8 DEF RoutesInv

\* A run begins: the team has no other run, so it does not refuse, and the multiplexer it

\* has is this stream's.
LEMMA RunBeginsKeeps ==
  ASSUME Turns, RoutesInv, NEW p \in Posts, T!RunBegins(p)
  PROVE  RoutesInv'
<1>1. RoutesTyped /\ Orderly /\ Marked /\ Followed /\ p \in T!Clients
  BY DEF RoutesInv, T!Clients
<1>2. job[p] = "starting" /\ of[p] = team /\ team # 0 /\ Busy(p) /\ of[p] \in T!Teams
      /\ UNCHANGED <<team, teams, mux, of, client, pipe, store, from, seen>>
  BY <1>1 DEF T!RunBegins, Orderly, Known, Busy, RoutesTyped, T!Teams, Turns, T!TeamRoutesAssumption
<1>3. \A q \in Posts : job[q] # "running"
  BY <1>1, <1>2 DEF Orderly, Sole, Busy
<1>4. of[p] \notin running
  BY <1>1, <1>3 DEF Orderly, Running
<1>5. job' = [job EXCEPT ![p] = "running"] /\ running' = running \cup {of[p]} /\ sink' = [sink EXCEPT ![p] = mux[of[p]]]
  BY <1>4 DEF T!RunBegins
<1>6. mux[of[p]] \in {p, T!Nobody}
  <2>1. mux[of[p]] # T!Nobody => mux[of[p]] \in Posts /\ Busy(mux[of[p]])
    BY <1>1, <1>2 DEF RoutesTyped, Orderly, Feeds, Busy
  <2>2. QED BY <1>1, <1>2, <2>1 DEF Orderly, Sole
<1>7. RoutesTyped'
  <2>1. of[p] \in 1..teams
    BY <1>1, <1>2 DEF RoutesTyped
  <2>2. QED BY <1>1, <1>2, <1>5, <1>6, <2>1 DEF RoutesTyped
<1>8. /\ \A q \in Posts \ {p} : job'[q] = job[q] /\ sink'[q] = sink[q] /\ job'[q] # "running"
      /\ job'[p] = "running" /\ sink'[p] \in {p, T!Nobody}
  BY <1>1, <1>3, <1>5, <1>6 DEF RoutesTyped
<1>9. running = {}
  BY <1>1, <1>3 DEF Orderly, Running
<1>10. Sole' /\ Known'
  BY <1>1, <1>2, <1>8 DEF Orderly, Sole, Known, Busy
<1>11. Running' /\ Fresh'
  BY <1>1, <1>2, <1>5, <1>8, <1>9 DEF Orderly, Running, Fresh
<1>12. Feeds'
  <2>1. \A t \in T!Teams : mux[t] # T!Nobody => mux[t] \in Posts /\ of[mux[t]] = t /\ job[mux[t]] \in {"starting", "running"}
    BY <1>1 DEF RoutesTyped, Orderly, Feeds
  <2>2. \A x \in Posts : job[x] = "starting" => job'[x] \in {"starting", "running"}
    BY <1>8
  <2>3. \A t \in T!Teams : mux[t] # T!Nobody => of[mux[t]] = t /\ job'[mux[t]] \in {"starting", "running"}
    BY <1>3, <2>1, <2>2
  <2>4. \A x \in Posts : job'[x] = "running" => sink'[x] \in {x, T!Nobody}
    BY <1>8
  <2>5. QED BY <1>2, <2>3, <2>4 DEF Feeds
<1>13. Marked' /\ Followed'
  BY <1>1, <1>2, <1>8 DEF Marked, Ends, Followed
<1>14. QED BY <1>7, <1>10, <1>11, <1>12, <1>13 DEF RoutesInv, Orderly

\* A run ends: the mark goes into the queue of its own stream.
LEMMA RunEndsKeeps ==
  ASSUME Turns, RoutesInv, NEW p \in Posts, T!RunEnds(p)
  PROVE  RoutesInv'
<1>1. RoutesTyped /\ Orderly /\ Marked /\ Followed /\ p \in T!Clients /\ MaxStored \in Nat
  BY DEF RoutesInv, T!Clients, Turns, T!TeamRoutesAssumption
<1>2. /\ job[p] = "running" /\ of[p] = team /\ Busy(p) /\ of[p] \in T!Teams
      /\ job' = [job EXCEPT ![p] = "ended"] /\ running' = running \ {of[p]}
      /\ mux' = [mux EXCEPT ![of[p]] = T!Nobody]
      /\ team' \in {0, team} /\ (client[p] = "asking" => team' = team)
      /\ UNCHANGED <<teams, of, client, sink, store, from, seen>>
  BY <1>1 DEF T!RunEnds, Orderly, Known, Busy, RoutesTyped, T!Teams, Turns, T!TeamRoutesAssumption
<1>3. mux[of[p]] \in {p, T!Nobody}
  <2>1. mux[of[p]] # T!Nobody => mux[of[p]] \in Posts /\ Busy(mux[of[p]])
    BY <1>1, <1>2 DEF RoutesTyped, Orderly, Feeds, Busy
  <2>2. QED BY <1>1, <1>2, <2>1 DEF Orderly, Sole
<1> DEFINE q == IF mux[of[p]] = T!Nobody THEN pipe[p] ELSE Append(pipe[p], 0)
<1>4. pipe' = [pipe EXCEPT ![p] = q]
  BY <1>1, <1>3 DEF T!RunEnds, T!End, RoutesTyped
<1>5. q \in Seq(0..MaxStored) /\ Ends(q, "ended")
  <2> DEFINE s == pipe[p]
  <2>1. s \in Seq(0..MaxStored) /\ Ends(s, "running") /\ q \in {s, Append(s, 0)} /\ 0 \in 0..MaxStored
    BY <1>1, <1>2 DEF RoutesTyped, Marked
  <2> HIDE DEF s, q
  <2>2. \A i \in 1..Len(s) : s[i] # 0
    BY <2>1 DEF Ends
  <2>3. Ends(s, "ended") /\ Ends(Append(s, 0), "ended")
    <3>1. Len(Append(s, 0)) = Len(s) + 1 /\ Len(s) \in Nat /\ \A i \in 1..Len(s) : Append(s, 0)[i] = s[i]
      BY <2>1, AppendProperties
    <3>2. QED BY <2>2, <3>1 DEF Ends
  <2>4. s \in Seq(0..MaxStored) /\ Append(s, 0) \in Seq(0..MaxStored)
    BY <2>1
  <2>5. QED BY <2>1, <2>3, <2>4
<1> HIDE DEF q
<1>6. RoutesTyped'
  <2>1. team' \in 0..teams
    BY <1>1, <1>2 DEF RoutesTyped
  <2>2. QED BY <1>1, <1>2, <1>4, <1>5, <2>1 DEF RoutesTyped
<1>7. /\ \A x \in Posts \ {p} : job'[x] = job[x] /\ pipe'[x] = pipe[x] /\ ~Busy(x)
      /\ job'[p] = "ended" /\ pipe'[p] = q
  BY <1>1, <1>2, <1>4 DEF RoutesTyped, Orderly, Sole
<1>8. Sole' /\ Known'
  <2>1. \A x \in Posts \ {p} : ~Busy(x)'
    BY <1>2, <1>7 DEF Busy
  <2>2. Busy(p)' => client[p] = "asking"
    <3>1. client[p] # "starting"
      BY <1>1, <1>2 DEF Orderly, Fresh
    <3>2. QED BY <1>2, <1>7, <3>1 DEF Busy
  <2>3. QED BY <1>1, <1>2, <2>1, <2>2 DEF Orderly, Sole, Known
<1>9. Running'
  <2>1. \A x \in Posts : job'[x] # "running"
    BY <1>7 DEF Busy
  <2>2. running' = {}
    <3>1. \A t \in running : t = of[p]
      BY <1>1, <1>2 DEF Orderly, Running, Sole, Busy
    <3>2. QED BY <1>2, <3>1
  <2>3. QED BY <2>1, <2>2 DEF Running
<1>10. Fresh'
  BY <1>1, <1>2, <1>7 DEF Orderly, Fresh
<1>11. Feeds'
  <2>1. \A t \in T!Teams : mux'[t] = T!Nobody
    <3> SUFFICES ASSUME NEW t \in T!Teams, mux'[t] # T!Nobody PROVE FALSE
      OBVIOUS
    <3>1. t # of[p] /\ mux'[t] = mux[t] /\ mux[t] \in Posts
      BY <1>1, <1>2 DEF RoutesTyped
    <3>2. of[mux[t]] = t /\ Busy(mux[t])
      BY <1>1, <1>2, <3>1 DEF Orderly, Feeds, Busy
    <3>3. QED BY <1>1, <1>2, <3>1, <3>2 DEF Orderly, Sole
  <2>2. QED BY <2>1, <1>7 DEF Feeds, Busy
<1>12. Marked' /\ Followed'
  BY <1>1, <1>2, <1>5, <1>7 DEF Marked, Followed
<1>13. QED BY <1>6, <1>8, <1>9, <1>10, <1>11, <1>12 DEF RoutesInv, Orderly

\* Who serves a follower, and who tells the client of a stream that it is complete.
LEMMA Served ==
  ASSUME RoutesTyped, NEW c \in T!Clients, [T!Next]_T!vars
  PROVE  /\ client[c] = "following" =>
              \/ client'[c] = "following" /\ from'[c] = from[c]
              \/ T!SeenOff(c) \/ T!Leave(c)
         /\ client[c] = "reading" /\ client'[c] = "complete" => c \in Posts /\ T!ReadEnd(c)
<1> DEFINE Same == client'[c] = client[c] /\ from'[c] = from[c]
           Elsewhere == client[c] \in {"following", "reading"} => Same
<1> SUFFICES \/ Elsewhere \/ T!SeenOff(c) \/ T!Leave(c)
             \/ c \in Posts /\ T!ReadEnd(c)
  BY DEF T!SeenOff, T!Leave, T!ReadEnd, RoutesTyped
<1>1. ASSUME NEW p \in Posts, NEW t \in T!Teams, T!PostStream(p, t) \/ T!PostQuery(p, t) PROVE Elsewhere
  BY <1>1 DEF T!PostStream, T!PostQuery, RoutesTyped
<1>2. ASSUME NEW p \in Posts, T!Redirect(p) \/ T!Start(p) \/ T!AnswerQuery(p) PROVE Elsewhere
  BY <1>2 DEF T!Redirect, T!Start, T!AnswerQuery, RoutesTyped
<1>3. ASSUME NEW p \in Posts, T!ReadEnd(p) PROVE Elsewhere \/ c = p
  BY <1>3 DEF T!ReadEnd, RoutesTyped
<1>4. ASSUME NEW p \in Posts, T!Read(p) \/ T!RunBegins(p) \/ T!RunReports(p) \/ T!RunEnds(p) PROVE Elsewhere
  BY <1>4 DEF T!Read, T!RunBegins, T!RunReports, T!RunEnds
<1>5. CASE (\E t \in T!Teams : T!Touch(t)) \/ T!UserMessage \/ UNCHANGED T!vars
  BY <1>5 DEF T!Touch, T!UserMessage, T!vars
<1>6. ASSUME NEW d \in T!Clients, T!Subscribe(d) \/ T!Poll(d) PROVE Elsewhere
  BY <1>6 DEF T!Subscribe, T!Poll, RoutesTyped
<1>7. ASSUME NEW d \in T!Clients, T!SeenOff(d) \/ T!Leave(d) PROVE Elsewhere \/ c = d
  BY <1>7 DEF T!SeenOff, T!Leave, RoutesTyped
<1> HIDE DEF Elsewhere
<1>8. QED BY <1>1, <1>2, <1>3, <1>4, <1>5, <1>6, <1>7 DEF T!Next

\* A step that serves a follower gives it the next of what is stored, and the last look

\* gives it all; the client of a stream that is told "complete" has read its queue.
LEMMA StepMissesNothing ==
  ASSUME Turns, RoutesInv, RoutesInv', [T!Next]_T!vars
  PROVE  T!MissesNothing
<1>1. RoutesTyped /\ Marked /\ Followed
  BY DEF RoutesInv
<1>2. ASSUME NEW c \in T!Clients, client[c] = "following"
      PROVE  /\ seen'[c] = SubSeq(store', from[c] + 1, from[c] + Len(seen'[c]))
             /\ client'[c] = "complete" => from[c] + Len(seen'[c]) = Len(store)
  <2>1. /\ Abreast(store, from[c], seen[c]) /\ seen[c] \in Seq(1..MaxStored) /\ from[c] \in Nat
        /\ store \in Seq(1..MaxStored)
    BY <1>1, <1>2 DEF Followed, RoutesTyped
  <2>2. CASE T!SeenOff(c)
    <3> DEFINE w == seen[c] \o T!Rest(c)
    <3>1. store' = store /\ seen'[c] = w
      BY <1>1, <2>2 DEF T!SeenOff, RoutesTyped
    <3>2. Abreast(store, from[c], w) /\ from[c] + Len(w) = Len(store)
      <4>1. w \in Seq(1..MaxStored) /\ Abreast(store, from[c], w)
        BY <2>1, RestTaken DEF T!Rest
      <4>2. UpTo(store, from[c], w)
        BY <2>1, RestTaken DEF T!Rest
      <4> HIDE DEF w
      <4>3. QED BY <4>1, <4>2 DEF UpTo
    <3> HIDE DEF w
    <3>3. QED BY <3>1, <3>2 DEF Abreast
  <2>3. CASE client'[c] = "following" /\ from'[c] = from[c]
    <3>1. Abreast(store', from'[c], seen'[c])
      BY <2>3 DEF RoutesInv, Followed, T!Clients
    <3>2. QED BY <2>3, <3>1 DEF Abreast
  <2>4. CASE T!Leave(c)
    <3>1. client'[c] = "left" /\ store' = store /\ seen' = seen
      BY <1>1, <2>4 DEF T!Leave, RoutesTyped
    <3>2. QED BY <2>1, <3>1 DEF Abreast
  <2>5. QED BY <1>1, <1>2, <2>2, <2>3, <2>4, Served
<1>3. ASSUME NEW p \in Posts, client[p] = "reading", client'[p] = "complete"
      PROVE  Tail(pipe[p]) = <<>>
  <2>1. T!ReadEnd(p) /\ Ends(pipe[p], job[p]) /\ pipe[p] \in Seq(0..MaxStored)
    BY <1>1, <1>3, Served DEF T!Clients, Marked, RoutesTyped
  <2> DEFINE s == pipe[p]
  <2>2. s \in Seq(0..MaxStored) /\ s # <<>> /\ Head(s) = 0 /\ Ends(s, job[p])
    BY <2>1 DEF T!ReadEnd, T!End
  <2> HIDE DEF s
  <2>3. Len(s) \in Nat /\ 1 \in 1..Len(s) /\ s[1] = 0
    BY <2>2
  <2>4. Len(s) <= 1
    BY <2>2, <2>3 DEF Ends
  <2>5. Tail(s) = <<>>
    <3>1. Tail(s) \in Seq(0..MaxStored) /\ Len(Tail(s)) = Len(s) - 1
      BY <2>2
    <3>2. Len(Tail(s)) <= 0 /\ Len(Tail(s)) \in Nat
      BY <2>3, <2>4, <3>1
    <3>3. QED BY <3>1, <3>2, EmptySeq
  <2>6. QED BY <2>5 DEF s
<1>4. QED BY <1>2, <1>3 DEF T!MissesNothing

\* No team has been made.
LEMMA RoutesBegin ==
  ASSUME Turns, T!Init
  PROVE  RoutesInv
<1>1. RoutesTyped
  BY DEF T!Init, RoutesTyped, Turns, T!TeamRoutesAssumption
<1>2. Orderly /\ Marked /\ Followed
  BY DEF T!Init, Orderly, Sole, Known, Busy, Running, Fresh, Feeds, Marked, Ends, Followed, T!Clients
<1>3. QED BY <1>1, <1>2 DEF RoutesInv

\* Every step of the endpoints.
LEMMA RoutesStep ==
  ASSUME Turns, RoutesInv, [T!Next]_T!vars
  PROVE  RoutesInv'
<1>1. ASSUME NEW p \in Posts, NEW t \in T!Teams, T!PostStream(p, t) \/ T!PostQuery(p, t) PROVE RoutesInv'
  BY <1>1, PostKeeps
<1>2. ASSUME NEW p \in Posts, T!Redirect(p) PROVE RoutesInv'
  BY <1>2, RedirectKeeps
<1>3. ASSUME NEW p \in Posts, T!Start(p) PROVE RoutesInv'
  BY <1>3, StartKeeps
<1>4. ASSUME NEW p \in Posts, T!Read(p) PROVE RoutesInv'
  BY <1>4, ReadKeeps
<1>5. ASSUME NEW p \in Posts, T!ReadEnd(p) PROVE RoutesInv'
  BY <1>5, ResponseKeeps DEF T!Clients
<1>6. ASSUME NEW t \in T!Teams, T!Touch(t) PROVE RoutesInv'
  BY <1>6, TouchKeeps
<1>a. ASSUME NEW p \in Posts, T!AnswerQuery(p) PROVE RoutesInv'
  BY <1>a, AnswerQueryKeeps
<1>7. ASSUME NEW p \in Posts, T!RunBegins(p) PROVE RoutesInv'
  BY <1>7, RunBeginsKeeps
<1>8. ASSUME NEW p \in Posts, T!RunEnds(p) PROVE RoutesInv'
  BY <1>8, RunEndsKeeps
<1>9. CASE T!UserMessage
  <2>1. team \in T!Teams /\ mux[team] # T!Nobody
    BY <1>9 DEF T!UserMessage, RoutesInv, RoutesTyped, T!Teams, Turns, T!TeamRoutesAssumption
  <2>2. PICK m \in Posts \cup {T!Nobody} : m # T!Nobody /\ job[m] # "ended" /\ T!Report(m)
    BY <1>9, <2>1 DEF T!UserMessage, RoutesInv, RoutesTyped, Orderly, Feeds
  <2>3. UNCHANGED <<team, teams, running, mux, of, client, job, sink, from, seen>>
    BY <1>9 DEF T!UserMessage
  <2>4. QED BY <2>2, <2>3, ReportKeeps
<1>b. ASSUME NEW p \in Posts, T!RunReports(p) PROVE RoutesInv'
  <2>1. job[p] = "running" /\ sink[p] = p /\ T!Report(p)
    BY <1>b DEF T!RunReports, RoutesInv, Orderly, Feeds
  <2>2. UNCHANGED <<team, teams, running, mux, of, client, job, sink, from, seen>>
    BY <1>b DEF T!RunReports
  <2>3. QED BY <2>1, <2>2, ReportKeeps
<1>10. ASSUME NEW c \in T!Clients, T!Subscribe(c) \/ T!Poll(c) PROVE RoutesInv'
  BY <1>10, FollowKeeps
<1>11. ASSUME NEW c \in T!Clients, T!SeenOff(c) \/ T!Leave(c) PROVE RoutesInv'
  BY <1>11, ResponseKeeps
<1>12. CASE UNCHANGED T!vars
  <2>1. RoutesTyped' /\ Marked' /\ Followed'
    BY <1>12 DEF T!vars, RoutesInv, RoutesTyped, Marked, Followed
  <2>2. Orderly'
    <3>1. Orderly /\ UNCHANGED <<team, teams, running, mux, of, client, job, sink, seen>>
      BY <1>12 DEF T!vars, RoutesInv
    <3>2. Sole' /\ Known'
      BY <3>1 DEF Orderly, Sole, Known, Busy
    <3>3. Running' /\ Fresh' /\ Feeds'
      BY <3>1 DEF Orderly, Running, Fresh, Feeds
    <3>4. QED BY <3>2, <3>3 DEF Orderly
  <2>3. QED BY <2>1, <2>2 DEF RoutesInv
<1>13. QED
  BY <1>1, <1>2, <1>3, <1>4, <1>5, <1>6, <1>a, <1>7, <1>8, <1>9, <1>b, <1>10, <1>11, <1>12 DEF T!Next

\* What the invariant says of the registry and of the types.
LEMMA RoutesKnow ==
  ASSUME Turns, RoutesInv
  PROVE  T!RunningIsKnown /\ T!TypeOK
<1>1. T!RunningIsKnown
  BY DEF RoutesInv, Orderly, Running, Known, Busy, T!RunningIsKnown
<1>2. T!TypeOK
  BY DEF RoutesInv, RoutesTyped, T!TypeOK
<1>3. QED BY <1>1, <1>2

\* Where no two streams start at once and no query meets a run, a team that runs is the one
\* the registry has, a follower is given what is stored without a gap or a repetition and
\* all of it before "complete", and so is the client of the stream; and the endpoints are
\* well typed.
THEOREM TeamsAreFollowed ==
  ASSUME Turns
  PROVE  Spec => TeamIsFollowed /\ [](part = "routes" => T!TypeOK)
<1> DEFINE I == part = "routes" => RoutesInv
<1>1. Init => I
  BY OneBegins, RoutesBegin
<1>2. I /\ [Next]_vars => I'
  BY OneSteps, RoutesStep
<1>3. I /\ I' /\ [Next]_vars => (part = "routes" => T!MissesNothing)
  BY OneSteps, StepMissesNothing
<1>4. I => (part = "routes" => T!RunningIsKnown) /\ (part = "routes" => T!TypeOK)
  BY RoutesKnow
<1>5. QED BY <1>1, <1>2, <1>3, <1>4, PTL DEF Spec, TeamIsFollowed

-----------------------------------------------------------------------------
(* The tools of the MCP servers: an agent is given those found on its own. *)

\* The agents the theorem is about: no two of them configure a server of one name.  The
\* manager has one table of servers, and the last configuration of a name is all it knows.
Apart ==
    /\ \A a, b \in Agents : a # b => Configured[a] \cap Configured[b] = {}
    /\ V!Nobody \notin Agents

\* A server there is comes from the agent that configures it, and a task is about one.
Owned ==
    /\ \A n \in Names : servers[n] # V!Nobody => n \in Configured[servers[n]]
    /\ \A a \in Agents, n \in Names : serverTasks[a][n] # "none" => servers[n] # V!Nobody
\* A tool comes from the configuration its server still has.
Current(X) == \A t \in X : t.from = servers[t.server]
Up ==
    /\ Current(tools)
    /\ \A a \in Agents : Current(found[a])
\* What an agent has found is there until it returns, and then given.
Held == \A a \in Agents : found[a] \subseteq IF V!Initializing(a) THEN tools ELSE serverGiven[a]

\* The invariant.
ServersInv == V!TypeOK /\ Owned /\ Up /\ Held

\* An agent that begins adds its own servers, and has a task at once.
LEMMA ServersBegin ==
  ASSUME V!McpServersAssumption, Apart, ServersInv, NEW a \in Agents, V!Begin(a)
  PROVE  ServersInv'
<1> USE DEF V!Nobody, V!Owners, V!Tools, V!Phases
<1>1. /\ rounds[a] > 0 /\ Configured[a] # {} /\ Configured[a] \subseteq Names
      /\ servers' = [n \in Names |-> IF n \in Configured[a] THEN a ELSE servers[n]]
      /\ serverTasks' = [serverTasks EXCEPT ![a] =
            [n \in Names |-> IF servers'[n] = "nobody" THEN "none" ELSE "connect"]]
      /\ found' = [found EXCEPT ![a] = {}]
      /\ rounds' = [rounds EXCEPT ![a] = @ - 1]
      /\ UNCHANGED <<sessions, tools, serverGiven, failures>>
  BY DEF V!Begin, V!McpServersAssumption
<1>2. V!TypeOK'
  BY <1>1 DEF ServersInv, V!TypeOK, V!McpServersAssumption
<1>3. \A n \in Names : servers[n] # "nobody" => servers'[n] = servers[n]
  BY <1>1 DEF ServersInv, V!TypeOK, Owned, Apart
<1>4. Owned'
  BY <1>1, <1>3 DEF ServersInv, V!TypeOK, Owned, Apart
<1>5. Up'
  <2>1. \A X \in SUBSET V!Tools : Current(X) => \A t \in X : t.from = servers'[t.server]
    BY <1>3 DEF Current, Apart
  <2>2. tools \in SUBSET V!Tools /\ \A b \in Agents : found'[b] = {} \/ (found'[b] = found[b] /\ found[b] \in SUBSET V!Tools)
    BY <1>1 DEF ServersInv, V!TypeOK
  <2>3. QED BY <1>1, <2>1, <2>2 DEF ServersInv, Up, Current
<1>6. Held'
  <2>1. \A b \in Agents \ {a} : V!Initializing(b)' = V!Initializing(b) /\ found'[b] = found[b]
    BY <1>1 DEF ServersInv, V!TypeOK, V!Initializing
  <2>2. found'[a] = {}
    BY <1>1 DEF ServersInv, V!TypeOK
  <2>3. QED BY <1>1, <2>1, <2>2 DEF ServersInv, Held
<1>7. QED BY <1>2, <1>4, <1>5, <1>6 DEF ServersInv

\* A task of an agent connects, or fails.
LEMMA ServersTask ==
  ASSUME V!McpServersAssumption, ServersInv, NEW a \in Agents, NEW n \in Names,
         V!Connect(a, n) \/ V!ConnectFails(a, n) \/ V!DiscoverFails(a, n)
  PROVE  ServersInv'
<1> USE DEF V!Nobody, V!Owners, V!Tools, V!Phases
<1>1. /\ serverTasks[a][n] # "none"
      /\ \E phase \in {"discover", "done"} : serverTasks' = [serverTasks EXCEPT ![a][n] = phase]
      /\ sessions' \in {sessions, [sessions EXCEPT ![n] = servers[n]]}
      /\ failures' \in 0..MaxFailures
      /\ UNCHANGED <<servers, tools, found, serverGiven, rounds>>
  BY DEF V!Connect, V!ConnectFails, V!DiscoverFails, ServersInv, V!TypeOK, V!McpServersAssumption
<1>2. V!TypeOK'
  BY <1>1 DEF ServersInv, V!TypeOK
<1>3. Owned' /\ Up'
  BY <1>1 DEF ServersInv, V!TypeOK, Owned, Up, Current
<1>4. \A b \in Agents : V!Initializing(b)' = V!Initializing(b)
  BY <1>1 DEF ServersInv, V!TypeOK, V!Initializing
<1>5. Held'
  BY <1>1, <1>4 DEF ServersInv, Held
<1>6. QED BY <1>2, <1>3, <1>5 DEF ServersInv

\* A discovery puts its tools in the place of those of the same name, which are the same.
LEMMA ServersDiscover ==
  ASSUME V!McpServersAssumption, Apart, ServersInv, NEW a \in Agents, NEW n \in Names,
         NEW listed \in SUBSET ToolNames, V!Discover(a, n, listed)
  PROVE  ServersInv'
<1> USE DEF V!Nobody, V!Owners, V!Tools, V!Phases
<1> DEFINE new == {[server |-> n, tool |-> t, from |-> servers[n]] : t \in listed}
<1>1. /\ serverTasks[a][n] = "discover"
      /\ tools' = V!Registered(new)
      /\ found' = [found EXCEPT ![a] = @ \cup new]
      /\ serverTasks' = [serverTasks EXCEPT ![a][n] = "done"]
      /\ UNCHANGED <<servers, sessions, serverGiven, rounds, failures>>
  BY DEF V!Discover
<1>2. servers[n] \in Agents
  BY <1>1 DEF ServersInv, V!TypeOK, Owned
<1>3. new \subseteq V!Tools /\ \A u \in new : u.server = n /\ u.from = servers[n]
  BY <1>2
<1> HIDE DEF new
<1>4. tools \subseteq V!Tools /\ \A b \in Agents : found[b] \subseteq V!Tools
  BY DEF ServersInv, V!TypeOK
<1>5. tools' \subseteq tools \cup new
  BY <1>1 DEF V!Registered
<1>6. V!TypeOK'
  <2>1. tools' \subseteq V!Tools
    BY <1>3, <1>4, <1>5
  <2>2. found' \in [Agents -> SUBSET V!Tools]
    BY <1>1, <1>3, <1>4 DEF ServersInv, V!TypeOK
  <2>3. serverTasks' \in [Agents -> [Names -> V!Phases]]
    BY <1>1 DEF ServersInv, V!TypeOK
  <2>4. QED BY <1>1, <2>1, <2>2, <2>3 DEF ServersInv, V!TypeOK
<1>7. Owned'
  BY <1>1 DEF ServersInv, V!TypeOK, Owned
<1>8. Up'
  <2>1. \A t \in tools \cup new : t.from = servers[t.server]
    BY <1>3 DEF ServersInv, Up, Current
  <2>2. \A b \in Agents : \A t \in found'[b] : t.from = servers[t.server]
    BY <1>1, <1>3 DEF ServersInv, V!TypeOK, Up, Current
  <2>3. QED BY <1>1, <1>5, <2>1, <2>2 DEF Up, Current
<1>9. tools \cup new \subseteq tools'
  <2>1. SUFFICES ASSUME NEW t \in tools, NEW u \in new, <<t.server, t.tool>> = <<u.server, u.tool>>
                 PROVE  t \in new
    BY <1>1 DEF V!Registered
  <2>2. t \in V!Tools /\ u \in V!Tools /\ t.server = u.server /\ t.tool = u.tool
    BY <1>3, <1>4, <2>1
  <2>3. t.from = servers[n] /\ u.from = servers[n]
    BY <1>3, <2>1, <2>2 DEF ServersInv, Up, Current
  <2>4. t = u
    BY <2>2, <2>3
  <2>5. QED BY <2>4
<1>10. \A b \in Agents : V!Initializing(b)' = V!Initializing(b)
  BY <1>1 DEF ServersInv, V!TypeOK, V!Initializing
<1>11. Held'
  <2>1. V!Initializing(a)
    BY <1>1 DEF V!Initializing
  <2>2. \A b \in Agents : found'[b] \subseteq IF b = a THEN found[b] \cup new ELSE found[b]
    BY <1>1 DEF ServersInv, V!TypeOK
  <2>3. QED BY <1>1, <1>9, <1>10, <2>1, <2>2 DEF ServersInv, Held
<1>12. QED BY <1>6, <1>7, <1>8, <1>11 DEF ServersInv

\* An agent is given all of the tools there are; a shutdown waits for every agent.
LEMMA ServersEnd ==
  ASSUME ServersInv, (\E a \in Agents : V!Return(a)) \/ V!Shutdown
  PROVE  ServersInv'
<1> USE DEF V!Nobody, V!Owners, V!Tools, V!Phases
<1>1. ASSUME NEW a \in Agents, V!Return(a) PROVE ServersInv'
  <2>1. /\ V!Initializing(a)
        /\ serverGiven' = [serverGiven EXCEPT ![a] = tools]
        /\ serverTasks' = [serverTasks EXCEPT ![a] = [n \in Names |-> "none"]]
        /\ UNCHANGED <<servers, sessions, tools, found, rounds, failures>>
    BY <1>1 DEF V!Return
  <2>2. V!TypeOK'
    BY <2>1 DEF ServersInv, V!TypeOK
  <2>3. Owned' /\ Up'
    BY <2>1 DEF ServersInv, V!TypeOK, Owned, Up, Current
  <2>4. ~V!Initializing(a)' /\ \A b \in Agents \ {a} : V!Initializing(b)' = V!Initializing(b)
    BY <2>1 DEF ServersInv, V!TypeOK, V!Initializing
  <2>5. serverGiven'[a] = tools /\ \A b \in Agents \ {a} : serverGiven'[b] = serverGiven[b]
    BY <2>1 DEF ServersInv, V!TypeOK
  <2>6. Held'
    BY <2>1, <2>4, <2>5 DEF ServersInv, Held
  <2>7. QED BY <2>2, <2>3, <2>6 DEF ServersInv
<1>2. CASE V!Shutdown
  <2>1. /\ \A a \in Agents : ~V!Initializing(a)
        /\ sessions' = [n \in Names |-> "nobody"] /\ tools' = {}
        /\ UNCHANGED <<servers, serverTasks, found, serverGiven, rounds, failures>>
    BY <1>2 DEF V!Shutdown
  <2>2. V!TypeOK' /\ Owned' /\ Up'
    BY <2>1 DEF ServersInv, V!TypeOK, Owned, Up, Current
  <2>3. Held'
    BY <2>1 DEF ServersInv, Held, V!Initializing
  <2>4. QED BY <2>2, <2>3 DEF ServersInv
<1>3. QED BY <1>1, <1>2

\* Agents that configure servers of different names are given every tool their own
\* initialization has found on their own servers, with their own configuration, however
\* many agents connect, discover and return side by side; and the manager is well typed.
THEOREM OwnToolsAreGiven ==
  ASSUME Apart
  PROVE  Spec => []OwnTools /\ [](part = "servers" => V!TypeOK)
<1> DEFINE I == part = "servers" => ServersInv
<1>a. V!McpServersAssumption
  BY Assumed
<1>1. Init => I
  <2> SUFFICES ASSUME V!Init PROVE ServersInv
    BY OneBegins
  <2>1. V!TypeOK
    BY <1>a DEF V!Init, V!TypeOK, V!McpServersAssumption, V!Nobody, V!Owners, V!Tools, V!Phases
  <2>2. Owned /\ Up /\ Held
    BY DEF V!Init, Owned, Up, Current, Held
  <2>3. QED BY <2>1, <2>2 DEF ServersInv
<1>2. I /\ [Next]_vars => I'
  <2> SUFFICES ASSUME ServersInv, [V!Next]_V!vars PROVE ServersInv'
    BY OneSteps
  <2>1. ASSUME NEW a \in Agents, V!Begin(a) PROVE ServersInv'
    BY <1>a, <2>1, ServersBegin
  <2>2. ASSUME NEW a \in Agents, NEW n \in Names,
               V!Connect(a, n) \/ V!ConnectFails(a, n) \/ V!DiscoverFails(a, n)
        PROVE  ServersInv'
    BY <1>a, <2>2, ServersTask
  <2>3. ASSUME NEW a \in Agents, NEW n \in Names, NEW listed \in SUBSET ToolNames, V!Discover(a, n, listed)
        PROVE  ServersInv'
    BY <1>a, <2>3, ServersDiscover
  <2>4. CASE (\E a \in Agents : V!Return(a)) \/ V!Shutdown
    BY <2>4, ServersEnd
  <2>5. CASE UNCHANGED V!vars
    <3>1. V!TypeOK' /\ Owned' /\ Up'
      BY <2>5 DEF V!vars, ServersInv, V!TypeOK, Owned, Up, Current
    <3>2. Held'
      BY <2>5 DEF V!vars, ServersInv, Held, V!Initializing
    <3>3. QED BY <3>1, <3>2 DEF ServersInv
  <2>6. QED BY <2>1, <2>2, <2>3, <2>4, <2>5 DEF V!Next
<1>3. I => OwnTools /\ (part = "servers" => V!TypeOK)
  <2> SUFFICES ASSUME ServersInv, NEW a \in Agents, ~V!Initializing(a), NEW t \in found[a], t.server \in Configured[a]
               PROVE  t \in serverGiven[a] /\ t.from = a
    BY DEF OwnTools, V!OwnTools, ServersInv
  <2>1. t \in serverGiven[a]
    BY DEF ServersInv, Held
  <2>2. t \in V!Tools /\ t.server \in Names /\ t.from \in Agents /\ t.from = servers[t.server]
    BY DEF ServersInv, V!TypeOK, V!Tools, Up, Current
  <2>3. t.server \in Configured[t.from]
    BY <2>2 DEF ServersInv, Owned, Apart
  <2>4. QED BY <2>1, <2>2, <2>3 DEF Apart
<1>4. QED BY <1>1, <1>2, <1>3, PTL DEF Spec

-----------------------------------------------------------------------------
(* The calls of a model: who may help is asked before a call gives up. *)

\* The chains the theorem is about: each of the middlewares is wrapped around a call once.
\* (With two of a kind, one would take up where the other has left the call.)
Once == Chains \subseteq {<<>>, <<"failover">>, <<"compaction">>, <<"failover", "compaction">>, <<"compaction", "failover">>}

\* Where the frames of a call are; a frame that is not there is below all levels.
Depth == Len(chain) + 1
Outside == IF path = "sync" THEN 0 ELSE 1
RetryAt == IF path = "sync" THEN Depth ELSE 1
FailoverAt ==
    CASE chain \in {<<"failover">>, <<"failover", "compaction">>} -> Outside + 1
      [] chain = <<"compaction", "failover">> -> Outside + 2
      [] OTHER -> 5
CompactionAt ==
    CASE chain \in {<<"compaction">>, <<"compaction", "failover">>} -> Outside + 1
      [] chain = <<"failover", "compaction">> -> Outside + 2
      [] OTHER -> 5

\* The call is below the frame at level i, or has just come up to it.
Inside(i) == IF call.mode = "up" THEN call.level >= i ELSE call.level > i
Retrying == Inside(RetryAt) \/ call.mode \in {"head", "sleeping"}
Failed == call.mode \in {"up", "idle"} /\ call.outcome \in C!Errors

\* The types, and where a call may be in each of its modes.
ACall(mode, level, ended, attempt, provider, compacted) ==
    [mode |-> mode, level |-> level, outcome |-> ended, attempt |-> attempt, provider |-> provider, compacted |-> compacted]
CallTyped ==
    call \in [mode : {"idle", "down", "head", "asking", "up", "sleeping"}, level : 0..Depth + 1,
              outcome : {"none", "response"} \cup C!Errors, attempt : 0..Retries,
              provider : C!Providers, compacted : BOOLEAN]
ModelTyped ==
    /\ path \in {"sync", "async", "native"} /\ chain \in Chains \cup {<<>>} /\ (path = "native" => chain = <<>>)
    /\ CallTyped
    /\ breaker \in [fails : Nat, state : {"closed", "open", "half"}]
    /\ modelRequest \in [asked : C!Providers, api : {apis[0], "openai"}, signed : BOOLEAN]
    /\ stop \in BOOLEAN /\ forgiven \in BOOLEAN /\ late \in Nat /\ misses \in Nat /\ calls \in Nat
    /\ modelSent \in [C!Providers -> 0..Retries]
    /\ raised \in [C!Providers -> {"nothing", "none", "response"} \cup C!Errors]
ModelPlaced ==
    /\ call.mode = "down" => call.level > 0
    /\ call.mode = "asking" => call.level = Depth + 1
    /\ call.mode \in {"head", "sleeping"} => call.level = RetryAt
    /\ call.mode = "sleeping" => call.attempt < Retries
    /\ call.mode = "up" => call.level <= Depth
    /\ Retrying => call.attempt > 0
    /\ FailoverAt = 5 => call.provider = 0

\* What has been asked when an attempt, all attempts or a provider has failed, where the
\* attempts are those of one provider.
Counted == FailoverAt = 5 \/ (path = "sync" /\ apis[0] # "gemini")
Attempted ==
    Counted =>
        /\ Retrying => modelSent[call.provider] >= call.attempt - 1
        /\ Retrying /\ (call.mode \in {"asking", "sleeping"} \/ Failed) =>
             modelSent[call.provider] >= call.attempt
        /\ call.mode = "up" /\ Failed /\ ~Retrying /\ (FailoverAt = 5 \/ Inside(FailoverAt)) =>
             modelSent[call.provider] >= Retries
        /\ \A p \in C!Providers : raised[p] \in C!Errors => modelSent[p] >= Retries
        /\ call.mode = "idle" /\ Failed /\ FailoverAt = 5 => modelSent[0] >= Retries

\* Who has failed when the failover goes on to a provider, or gives up.
GaveUp ==
    \/ raised[0] \in C!Errors /\ (raised[0] # "outage" \/ apis[0] = "gemini")
    \/ \A p \in C!Providers \ {0} : raised[p] \in C!Errors
Passed ==
    /\ Inside(FailoverAt) => \A p \in C!Providers : 0 < p /\ p < call.provider => raised[p] \in C!Errors
    /\ Failed /\ FailoverAt # 5 /\ (call.mode = "up" => ~Inside(FailoverAt)) => GaveUp
    /\ call.mode = "up" \/ (call.mode = "idle" /\ calls > 0) => (call.outcome = "none" => stop)

\* Who has failed was asked, by a primary that leaves the endpoint to the provider.
Reached ==
    apis[0] # "gemini" =>
        /\ call.mode = "asking" => modelSent[call.provider] > 0
        /\ call.mode = "up" /\ call.outcome \in C!Errors /\ FailoverAt # 5 /\ Inside(FailoverAt) =>
             modelSent[call.provider] > 0
        /\ \A p \in C!Providers : raised[p] \in C!Errors => modelSent[p] > 0

\* The breaker is open while the primary has failed too often, and a primary that is
\* asked has been let through.
Spared ==
    /\ forgiven \/ misses <= breaker.fails
    /\ forgiven \/ misses < Threshold \/ breaker.state = "open"
    /\ Inside(FailoverAt) /\ call.mode # "idle" /\ call.provider = 0 => breaker.state # "open"

\* The requests that a pass through the frames between the levels may still send, and those
\* that the failover and the compaction have let it send already.
Twofold(n, double) == IF double THEN n + n ELSE n
Size(i) == Twofold(IF FailoverAt \in i..4 THEN 1 + Fallbacks ELSE 1, CompactionAt \in i..4)
UsedAbove == IF Inside(FailoverAt) THEN Twofold(call.provider, CompactionAt \in FailoverAt..4) ELSE 0
UsedAgain == IF ~(Inside(CompactionAt) /\ call.compacted) THEN 0 ELSE IF FailoverAt \in CompactionAt..4 THEN 1 + Fallbacks ELSE 1
Used == UsedAbove + UsedAgain
Left == IF modelRequest.signed THEN 1 ELSE 2
Twice(k) == late <= 2 * k + Left
Late ==
    /\ late > 0 => stop
    /\ call.mode \in {"head", "sleeping"} \/ (call.mode = "down" /\ (path # "async" \/ call.level = 1)) => late = 0
    /\ path = "native" => late <= IF call.mode = "asking" THEN Left - 1 ELSE 1
    /\ path = "sync" =>
         /\ call.mode = "asking" => Twice(0)
         /\ late <= 2 /\ (call.mode = "up" /\ late > 0 => call.level = Depth \/ ~Failed)
    /\ path = "async" =>
         /\ call.mode = "down" => late <= 2 * Used
         /\ call.mode = "asking" => Twice(Used)
         /\ call.mode = "up" => late <= 2 * (Used + Size(call.level + 1))
         /\ call.mode = "idle" => late <= 2 * Size(1)

\* The invariant.
ModelInv == ModelTyped /\ ModelPlaced /\ Attempted /\ Passed /\ Spared /\ Late

\* The places of the frames in the chain of a call.
Shape ==
    /\ Depth \in 1..3 /\ RetryAt \in 1..Depth
    /\ FailoverAt \in 1..Depth \/ FailoverAt = 5
    /\ CompactionAt \in 1..Depth \/ CompactionAt = 5
    /\ RetryAt # FailoverAt /\ RetryAt # CompactionAt /\ (FailoverAt = CompactionAt => FailoverAt = 5)
    /\ Depth = 1 + (IF FailoverAt = 5 THEN 0 ELSE 1) + (IF CompactionAt = 5 THEN 0 ELSE 1)
    /\ RetryAt = IF path = "sync" THEN Depth ELSE 1
    /\ path = "native" => FailoverAt = 5 /\ CompactionAt = 5
\* Which frame stands at which depth: the retry loop, failover and compaction.
LEMMA ChainsAt ==
  ASSUME Once, ModelTyped
  PROVE  /\ Shape
         /\ Len(C!Frames) = Depth
         /\ \A i \in 0..4 : i \in DOMAIN C!Frames <=> i \in 1..Depth
         /\ \A i \in 1..Depth : /\ C!Frames[i] = "retry" <=> i = RetryAt
                                /\ C!Frames[i] = "failover" <=> i = FailoverAt
                                /\ C!Frames[i] = "compaction" <=> i = CompactionAt
         /\ C!HasFailover <=> FailoverAt # 5
         /\ (\E i \in DOMAIN chain : chain[i] = "compaction") <=> CompactionAt # 5
<1>1. chain \in {<<>>, <<"failover">>, <<"compaction">>, <<"failover", "compaction">>, <<"compaction", "failover">>}
      /\ path \in {"sync", "async", "native"} /\ (path = "native" => chain = <<>>)
  BY DEF Once, ModelTyped
<1> USE DEF Shape, Depth, Outside, RetryAt, FailoverAt, CompactionAt, C!HasFailover
<1>2. CASE path = "sync"
  <2>1. C!Frames = Append(chain, "retry") BY <1>2 DEF C!Frames
  <2>2. CASE chain = <<>> BY <1>2, <2>1, <2>2
  <2>3. CASE chain = <<"failover">> BY <1>2, <2>1, <2>3
  <2>4. CASE chain = <<"compaction">> BY <1>2, <2>1, <2>4
  <2>5. CASE chain = <<"failover", "compaction">> BY <1>2, <2>1, <2>5
  <2>6. CASE chain = <<"compaction", "failover">> BY <1>2, <2>1, <2>6
  <2>7. QED BY <1>1, <2>2, <2>3, <2>4, <2>5, <2>6
<1>3. CASE path # "sync"
  <2> DEFINE Kinds == {"retry", "failover", "compaction"}
  <2>1. C!Frames = <<"retry">> \o chain BY <1>3 DEF C!Frames
  <2>a. ASSUME chain \in Seq(Kinds)
        PROVE  /\ Len(C!Frames) = Len(chain) + 1 /\ DOMAIN C!Frames = 1..Len(chain) + 1
               /\ C!Frames[1] = "retry" /\ \A i \in 1..Len(chain) : C!Frames[i + 1] = chain[i]
    BY <2>1, <2>a, InFront
  <2>2. CASE chain = <<>>
    <3>1. chain \in Seq(Kinds) /\ Len(chain) = 0 BY <2>2
    <3>2. Len(C!Frames) = 1 /\ DOMAIN C!Frames = 1..1 /\ C!Frames[1] = "retry" BY <2>a, <3>1
    <3>3. QED BY <1>1, <1>3, <2>2, <3>1, <3>2
  <2>3. CASE chain = <<"failover">>
    <3>1. chain \in Seq(Kinds) /\ Len(chain) = 1 /\ chain[1] = "failover" BY <2>3
    <3>2. Len(C!Frames) = 2 /\ DOMAIN C!Frames = 1..2 /\ C!Frames[1] = "retry" /\ C!Frames[2] = "failover" BY <2>a, <3>1
    <3>3. QED BY <1>1, <1>3, <2>3, <3>1, <3>2
  <2>4. CASE chain = <<"compaction">>
    <3>1. chain \in Seq(Kinds) /\ Len(chain) = 1 /\ chain[1] = "compaction" BY <2>4
    <3>2. Len(C!Frames) = 2 /\ DOMAIN C!Frames = 1..2 /\ C!Frames[1] = "retry" /\ C!Frames[2] = "compaction" BY <2>a, <3>1
    <3>3. QED BY <1>1, <1>3, <2>4, <3>1, <3>2
  <2>5. CASE chain = <<"failover", "compaction">>
    <3>1. chain \in Seq(Kinds) /\ Len(chain) = 2 /\ chain[1] = "failover" /\ chain[2] = "compaction" BY <2>5
    <3>2. Len(C!Frames) = 3 /\ DOMAIN C!Frames = 1..3 /\ C!Frames[1] = "retry" /\ C!Frames[2] = "failover" /\ C!Frames[3] = "compaction" BY <2>a, <3>1
    <3>3. QED BY <1>1, <1>3, <2>5, <3>1, <3>2
  <2>6. CASE chain = <<"compaction", "failover">>
    <3>1. chain \in Seq(Kinds) /\ Len(chain) = 2 /\ chain[1] = "compaction" /\ chain[2] = "failover" BY <2>6
    <3>2. Len(C!Frames) = 3 /\ DOMAIN C!Frames = 1..3 /\ C!Frames[1] = "retry" /\ C!Frames[2] = "compaction" /\ C!Frames[3] = "failover" BY <2>a, <3>1
    <3>3. QED BY <1>1, <1>3, <2>6, <3>1, <3>2
  <2>7. QED BY <1>1, <2>2, <2>3, <2>4, <2>5, <2>6
<1>4. QED BY <1>2, <1>3

\* What the steps need of the invariant: its parts, the shape of the frames, and the types of the numbers.
ModelFacts ==
    /\ Shape /\ call.level \in 0..4 /\ Fallbacks \in Nat
    /\ Retries \in Nat \ {0} /\ Threshold \in Nat \ {0}
    /\ ModelTyped /\ ModelPlaced /\ Attempted /\ Passed /\ Spared /\ Late
    /\ CallTyped /\ path \in {"sync", "async", "native"} /\ (path = "native" => chain = <<>>)
    /\ late \in Nat /\ misses \in Nat /\ breaker.fails \in Nat /\ calls \in Nat /\ stop \in BOOLEAN
    /\ Left \in {1, 2}

\* The facts follow, and the frame the call is at is the one of its level.
LEMMA ModelShape ==
  ASSUME Once, ModelInv
  PROVE  /\ ModelFacts /\ Len(C!Frames) = Depth
         /\ C!At("retry") <=> call.level = RetryAt
         /\ C!At("failover") <=> call.level = FailoverAt
         /\ C!At("compaction") <=> call.level = CompactionAt
<1>1. ModelTyped BY DEF ModelInv
<1>2. Shape /\ call.level \in 0..Depth + 1 BY <1>1, ChainsAt DEF ModelTyped, CallTyped
<1>3. call.level \in 0..4 BY <1>2 DEF Shape
<1>4. /\ C!At("retry") <=> call.level = RetryAt
      /\ C!At("failover") <=> call.level = FailoverAt
      /\ C!At("compaction") <=> call.level = CompactionAt
  BY <1>1, <1>2, <1>3, ChainsAt DEF C!At, Shape
<1>5. /\ CallTyped /\ path \in {"sync", "async", "native"} /\ (path = "native" => chain = <<>>)
      /\ late \in Nat /\ misses \in Nat /\ breaker.fails \in Nat /\ calls \in Nat /\ stop \in BOOLEAN
      /\ Left \in {1, 2}
  BY <1>1 DEF ModelTyped, Left
<1>6. QED BY <1>1, <1>2, <1>3, <1>4, <1>5, ChainsAt, Assumed DEF C!ModelCallsAssumption, ModelFacts, ModelInv

\* The frames stay where they are.
LEMMA FramesStay ==
  ASSUME UNCHANGED <<path, chain>>
  PROVE  Depth' = Depth /\ RetryAt' = RetryAt /\ FailoverAt' = FailoverAt /\ CompactionAt' = CompactionAt
BY DEF Depth, Outside, RetryAt, FailoverAt, CompactionAt

\* A call begins.
LEMMA BeginKeeps ==
  ASSUME Once, ModelInv,
         call.mode = "idle",
         calls' = calls + 1,
         stop' = FALSE,
         call' = ACall("down", 1, "none", 0, 0, FALSE),
         modelSent' = [p \in C!Providers |-> 0],
         late' = 0,
         raised' = C!None,
         UNCHANGED <<path, chain, apis, modelRequest, breaker, misses, forgiven>>
  PROVE  ModelInv'
<1>1. ModelFacts BY ModelShape
<1>2. /\ Depth' = Depth /\ RetryAt' = RetryAt /\ FailoverAt' = FailoverAt /\ CompactionAt' = CompactionAt
      /\ path' = path /\ chain' = chain /\ apis' = apis
  BY FramesStay
<1>3. Left' \in {1, 2} /\ Left' = Left BY DEF Left
<1> USE <1>1, <1>2, <1>3 DEF ModelFacts, Inside, Retrying, Failed, C!Providers, C!Errors, C!Raised, ACall
<1> DEFINE Told == {"nothing", "none", "response"} \cup C!Errors
<1>a. raised' \in [C!Providers -> Told] /\ \A p \in C!Providers : raised'[p] = "nothing"
  BY DEF C!None
<1>b. modelSent' \in [C!Providers -> 0..Retries] /\ \A p \in C!Providers : modelSent'[p] = 0
  OBVIOUS
<1>4. ModelTyped'
  <2>1. CallTyped' BY DEF CallTyped, Shape, ModelPlaced
  <2>2. breaker' \in [fails : Nat, state : {"closed", "open", "half"}] /\ misses' \in Nat /\ calls' \in Nat
    BY DEF ModelTyped
  <2>3. modelRequest' \in [asked : C!Providers, api : {apis'[0], "openai"}, signed : BOOLEAN]
    BY DEF ModelTyped
  <2>4. forgiven' \in BOOLEAN /\ stop' \in BOOLEAN BY DEF ModelTyped
  <2>5. chain' \in Chains \cup {<<>>} /\ path' \in {"sync", "async", "native"} /\ (path' = "native" => chain' = <<>>) BY DEF ModelTyped
  <2>6. QED BY <2>1, <2>2, <2>3, <2>4, <2>5, <1>a, <1>b DEF ModelTyped
<1>5. ModelPlaced'
  BY DEF CallTyped, ModelPlaced, Shape
<1>6. Attempted'
  BY <1>a, <1>b DEF CallTyped, ModelPlaced, Attempted, Counted, Shape
<1>7. Passed'
  BY DEF CallTyped, ModelPlaced, Passed, GaveUp, Shape
<1>8. Spared'
  BY DEF CallTyped, ModelPlaced, Spared, Shape
<1>9. Late'
  BY DEF CallTyped, ModelPlaced, Late, Twice, Used, UsedAbove, UsedAgain, Twofold, Size, Shape
<1>10. QED BY <1>4, <1>5, <1>6, <1>7, <1>8, <1>9 DEF ModelInv

\* The run is stopped.
LEMMA StopKeeps ==
  ASSUME Once, ModelInv,
         call.mode # "idle",
         stop' = TRUE,
         UNCHANGED <<path, chain, apis, call, modelRequest, breaker, calls, modelSent, late, raised, misses, forgiven>>
  PROVE  ModelInv'
<1>1. ModelFacts BY ModelShape
<1>2. /\ Depth' = Depth /\ RetryAt' = RetryAt /\ FailoverAt' = FailoverAt /\ CompactionAt' = CompactionAt
      /\ path' = path /\ chain' = chain /\ apis' = apis
  BY FramesStay
<1>3. Left' \in {1, 2} /\ Left' = Left BY DEF Left
<1> USE <1>1, <1>2, <1>3 DEF ModelFacts, Inside, Retrying, Failed, C!Providers, C!Errors, C!Raised, ACall
<1>4. ModelTyped' BY DEF ModelTyped, CallTyped
<1>5. ModelPlaced'
  BY DEF CallTyped, ModelPlaced, Shape
<1>6. Attempted'
  BY DEF CallTyped, ModelPlaced, Attempted, Counted, Shape
<1>7. Passed'
  BY DEF CallTyped, ModelPlaced, Passed, GaveUp, Shape
<1>8. Spared'
  BY DEF CallTyped, ModelPlaced, Spared, Shape
<1>9. Late'
  BY DEF CallTyped, ModelPlaced, Late, Twice, Used, UsedAbove, UsedAgain, Twofold, Size, Shape
<1>10. QED BY <1>4, <1>5, <1>6, <1>7, <1>8, <1>9 DEF ModelInv

\* The recovery time goes by.
LEMMA RecoverKeeps ==
  ASSUME Once, ModelInv,
         breaker.state = "open",
         breaker' = [breaker EXCEPT !.state = "half"],
         misses' = 0,
         UNCHANGED <<path, chain, apis, call, modelRequest, stop, calls, modelSent, late, raised, forgiven>>
  PROVE  ModelInv'
<1>1. ModelFacts BY ModelShape
<1>2. /\ Depth' = Depth /\ RetryAt' = RetryAt /\ FailoverAt' = FailoverAt /\ CompactionAt' = CompactionAt
      /\ path' = path /\ chain' = chain /\ apis' = apis
  BY FramesStay
<1>3. Left' \in {1, 2} /\ Left' = Left BY DEF Left
<1> USE <1>1, <1>2, <1>3 DEF ModelFacts, Inside, Retrying, Failed, C!Providers, C!Errors, C!Raised, ACall
<1>4. ModelTyped'
  <2>1. breaker' \in [fails : Nat, state : {"closed", "open", "half"}] BY DEF ModelTyped
  <2>2. QED BY <2>1 DEF ModelTyped, CallTyped
<1>5. ModelPlaced'
  BY DEF CallTyped, ModelPlaced, Shape
<1>6. Attempted'
  BY SMTT(20) DEF CallTyped, ModelPlaced, Attempted, Counted, Shape
<1>7. Passed'
  BY SMTT(20) DEF CallTyped, ModelPlaced, Passed, GaveUp, Shape
<1>8. Spared'
  BY DEF CallTyped, ModelPlaced, Spared, Shape
<1>9. Late'
  BY SMTT(20) DEF CallTyped, ModelPlaced, Late, Twice, Used, UsedAbove, UsedAgain, Twofold, Size, Shape
<1>10. QED BY <1>4, <1>5, <1>6, <1>7, <1>8, <1>9 DEF ModelInv

\* The first attempt.
LEMMA EnterRetryKeeps ==
  ASSUME Once, ModelInv,
         call.mode = "down",
         call.level = RetryAt,
         call' = ACall("head", call.level, call.outcome, 1, call.provider, call.compacted),
         UNCHANGED <<path, chain, apis, modelRequest, breaker, stop, calls, modelSent, late, raised, misses, forgiven>>
  PROVE  ModelInv'
<1>1. ModelFacts BY ModelShape
<1>2. /\ Depth' = Depth /\ RetryAt' = RetryAt /\ FailoverAt' = FailoverAt /\ CompactionAt' = CompactionAt
      /\ path' = path /\ chain' = chain /\ apis' = apis
  BY FramesStay
<1>3. Left' \in {1, 2} /\ Left' = Left BY DEF Left
<1> USE <1>1, <1>2, <1>3 DEF ModelFacts, Inside, Retrying, Failed, C!Providers, C!Errors, C!Raised, ACall
<1>a. \A p \in C!Providers : modelSent[p] \in Nat BY DEF ModelTyped
<1>4. ModelTyped'
  <2>1. CallTyped' BY DEF CallTyped, Shape, ModelPlaced
  <2>2. QED BY <2>1 DEF ModelTyped, CallTyped
<1>5. ModelPlaced'
  BY DEF CallTyped, ModelPlaced, Shape
<1>6. Attempted'
  BY <1>a DEF CallTyped, ModelPlaced, Attempted, Counted, Shape
<1>7. Passed'
  BY DEF CallTyped, ModelPlaced, Passed, GaveUp, Shape
<1>8. Spared'
  BY DEF CallTyped, ModelPlaced, Spared, Shape
<1>9. Late'
  BY DEF CallTyped, ModelPlaced, Late, Twice, Used, UsedAbove, UsedAgain, Twofold, Size, Shape
<1>10. QED BY <1>4, <1>5, <1>6, <1>7, <1>8, <1>9 DEF ModelInv

\* The loop has seen the stop.
LEMMA HeadStopsKeeps ==
  ASSUME Once, ModelInv,
         call.mode = "head",
         stop,
         call' = ACall("up", call.level - 1, "none", call.attempt, call.provider, call.compacted),
         UNCHANGED <<path, chain, apis, modelRequest, breaker, stop, calls, modelSent, late, raised, misses, forgiven>>
  PROVE  ModelInv'
<1>1. ModelFacts BY ModelShape
<1>2. /\ Depth' = Depth /\ RetryAt' = RetryAt /\ FailoverAt' = FailoverAt /\ CompactionAt' = CompactionAt
      /\ path' = path /\ chain' = chain /\ apis' = apis
  BY FramesStay
<1>3. Left' \in {1, 2} /\ Left' = Left BY DEF Left
<1> USE <1>1, <1>2, <1>3 DEF ModelFacts, Inside, Retrying, Failed, C!Providers, C!Errors, C!Raised, ACall
<1>4. ModelTyped'
  <2>1. CallTyped' BY DEF CallTyped, Shape, ModelPlaced
  <2>2. QED BY <2>1 DEF ModelTyped, CallTyped
<1>5. ModelPlaced'
  BY DEF CallTyped, ModelPlaced, Shape
<1>6. Attempted'
  BY SMTT(20) DEF CallTyped, ModelPlaced, Attempted, Counted, Shape
<1>7. Passed'
  BY SMTT(20) DEF CallTyped, ModelPlaced, Passed, GaveUp, Shape
<1>8. Spared'
  BY DEF CallTyped, ModelPlaced, Spared, Shape
<1>9. Late'
  BY SMTT(20) DEF CallTyped, ModelPlaced, Late, Twice, Used, UsedAbove, UsedAgain, Twofold, Size, Shape
<1>10. QED BY <1>4, <1>5, <1>6, <1>7, <1>8, <1>9 DEF ModelInv

\* An attempt goes on.
LEMMA HeadGoesKeeps ==
  ASSUME Once, ModelInv,
         call.mode = "head",
         path = "sync" \/ ~stop,
         call' = ACall("down", call.level + 1, call.outcome, call.attempt, call.provider, call.compacted),
         UNCHANGED <<path, chain, apis, modelRequest, breaker, stop, calls, modelSent, late, raised, misses, forgiven>>
  PROVE  ModelInv'
<1>1. ModelFacts BY ModelShape
<1>2. /\ Depth' = Depth /\ RetryAt' = RetryAt /\ FailoverAt' = FailoverAt /\ CompactionAt' = CompactionAt
      /\ path' = path /\ chain' = chain /\ apis' = apis
  BY FramesStay
<1>3. Left' \in {1, 2} /\ Left' = Left BY DEF Left
<1> USE <1>1, <1>2, <1>3 DEF ModelFacts, Inside, Retrying, Failed, C!Providers, C!Errors, C!Raised, ACall
<1>4. ModelTyped'
  <2>1. CallTyped' BY DEF CallTyped, Shape, ModelPlaced
  <2>2. QED BY <2>1 DEF ModelTyped, CallTyped
<1>5. ModelPlaced'
  BY DEF CallTyped, ModelPlaced, Shape
<1>6. Attempted'
  BY DEF CallTyped, ModelPlaced, Attempted, Counted, Shape
<1>7. Passed'
  BY DEF CallTyped, ModelPlaced, Passed, GaveUp, Shape
<1>8. Spared'
  BY DEF CallTyped, ModelPlaced, Spared, Shape
<1>9. Late'
  BY DEF CallTyped, ModelPlaced, Late, Twice, Used, UsedAbove, UsedAgain, Twofold, Size, Shape
<1>10. QED BY <1>4, <1>5, <1>6, <1>7, <1>8, <1>9 DEF ModelInv

\* The failover lets the call through to the primary.
LEMMA AskPrimaryKeeps ==
  ASSUME Once, ModelInv,
         call.mode = "down",
         call.level = FailoverAt,
         breaker.state # "open",
         raised' = C!None,
         call' = ACall("down", call.level + 1, call.outcome, call.attempt, 0, call.compacted),
         UNCHANGED <<path, chain, apis, modelRequest, breaker, stop, calls, modelSent, late, misses, forgiven>>
  PROVE  ModelInv'
<1>1. ModelFacts BY ModelShape
<1>2. /\ Depth' = Depth /\ RetryAt' = RetryAt /\ FailoverAt' = FailoverAt /\ CompactionAt' = CompactionAt
      /\ path' = path /\ chain' = chain /\ apis' = apis
  BY FramesStay
<1>3. Left' \in {1, 2} /\ Left' = Left BY DEF Left
<1> USE <1>1, <1>2, <1>3 DEF ModelFacts, Inside, Retrying, Failed, C!Providers, C!Errors, C!Raised, ACall
<1> DEFINE Told == {"nothing", "none", "response"} \cup C!Errors
<1>a. raised' \in [C!Providers -> Told] /\ \A p \in C!Providers : raised'[p] = "nothing"
  BY DEF C!None
<1>4. ModelTyped'
  <2>1. CallTyped' BY DEF CallTyped, Shape, ModelPlaced
  <2>2. QED BY <2>1, <1>a DEF ModelTyped, CallTyped
<1>5. ModelPlaced'
  BY DEF CallTyped, ModelPlaced, Shape
<1>6. Attempted'
  BY <1>a, SMTT(20) DEF CallTyped, ModelPlaced, Attempted, Counted, Shape
<1>7. Passed'
  BY SMTT(20) DEF CallTyped, ModelPlaced, Passed, GaveUp, Shape
<1>8. Spared'
  BY DEF CallTyped, ModelPlaced, Spared, Shape
<1>9. Late'
  BY SMTT(20) DEF CallTyped, ModelPlaced, Late, Twice, Used, UsedAbove, UsedAgain, Twofold, Size, Shape
<1>10. QED BY <1>4, <1>5, <1>6, <1>7, <1>8, <1>9 DEF ModelInv

\* The primary is spared, and there is no other.
LEMMA NobodyElseKeeps ==
  ASSUME Once, ModelInv,
         call.mode = "down",
         call.level = FailoverAt,
         breaker.state = "open",
         Fallbacks = 0,
         raised' = C!None,
         call' = ACall("up", call.level - 1, "refused", call.attempt, call.provider, call.compacted),
         UNCHANGED <<path, chain, apis, modelRequest, breaker, stop, calls, modelSent, late, misses, forgiven>>
  PROVE  ModelInv'
<1>1. ModelFacts BY ModelShape
<1>2. /\ Depth' = Depth /\ RetryAt' = RetryAt /\ FailoverAt' = FailoverAt /\ CompactionAt' = CompactionAt
      /\ path' = path /\ chain' = chain /\ apis' = apis
  BY FramesStay
<1>3. Left' \in {1, 2} /\ Left' = Left BY DEF Left
<1> USE <1>1, <1>2, <1>3 DEF ModelFacts, Inside, Retrying, Failed, C!Providers, C!Errors, C!Raised, ACall
<1> DEFINE Told == {"nothing", "none", "response"} \cup C!Errors
<1>a. raised' \in [C!Providers -> Told] /\ \A p \in C!Providers : raised'[p] = "nothing"
  BY DEF C!None
<1>4. ModelTyped'
  <2>1. CallTyped' BY DEF CallTyped, Shape, ModelPlaced
  <2>2. QED BY <2>1, <1>a DEF ModelTyped, CallTyped
<1>5. ModelPlaced'
  BY DEF CallTyped, ModelPlaced, Shape
<1>6. Attempted'
  BY <1>a DEF CallTyped, ModelPlaced, Attempted, Counted, Shape
<1>7. Passed'
  BY DEF CallTyped, ModelPlaced, Passed, GaveUp, Shape
<1>8. Spared'
  BY DEF CallTyped, ModelPlaced, Spared, Shape
<1>9. Late'
  BY DEF CallTyped, ModelPlaced, Late, Twice, Used, UsedAbove, UsedAgain, Twofold, Size, Shape
<1>10. QED BY <1>4, <1>5, <1>6, <1>7, <1>8, <1>9 DEF ModelInv

\* The primary is spared.
LEMMA SkipPrimaryKeeps ==
  ASSUME Once, ModelInv,
         call.mode = "down",
         call.level = FailoverAt,
         breaker.state = "open",
         Fallbacks # 0,
         raised' = C!None,
         call' = ACall("down", call.level + 1, call.outcome, call.attempt, 1, call.compacted),
         UNCHANGED <<path, chain, apis, modelRequest, breaker, stop, calls, modelSent, late, misses, forgiven>>
  PROVE  ModelInv'
<1>1. ModelFacts BY ModelShape
<1>2. /\ Depth' = Depth /\ RetryAt' = RetryAt /\ FailoverAt' = FailoverAt /\ CompactionAt' = CompactionAt
      /\ path' = path /\ chain' = chain /\ apis' = apis
  BY FramesStay
<1>3. Left' \in {1, 2} /\ Left' = Left BY DEF Left
<1> USE <1>1, <1>2, <1>3 DEF ModelFacts, Inside, Retrying, Failed, C!Providers, C!Errors, C!Raised, ACall
<1> DEFINE Told == {"nothing", "none", "response"} \cup C!Errors
<1>a. raised' \in [C!Providers -> Told] /\ \A p \in C!Providers : raised'[p] = "nothing"
  BY DEF C!None
<1>4. ModelTyped'
  <2>1. CallTyped' BY DEF CallTyped, Shape, ModelPlaced
  <2>2. QED BY <2>1, <1>a DEF ModelTyped, CallTyped
<1>5. ModelPlaced'
  BY DEF CallTyped, ModelPlaced, Shape
<1>6. Attempted'
  BY <1>a DEF CallTyped, ModelPlaced, Attempted, Counted, Shape
<1>7. Passed'
  BY DEF CallTyped, ModelPlaced, Passed, GaveUp, Shape
<1>8. Spared'
  BY DEF CallTyped, ModelPlaced, Spared, Shape
<1>9. Late'
  <2>1. CASE path = "native"
    BY <2>1 DEF CallTyped, ModelPlaced, Late, Twice, Shape
  <2>2. CASE path = "sync"
    BY <2>2 DEF CallTyped, ModelPlaced, Late, Twice, Shape
  <2>3. CASE path = "async"
    BY <2>3 DEF CallTyped, ModelPlaced, Late, Twice, Used, UsedAbove, UsedAgain, Twofold, Size, Shape
  <2>4. QED BY <2>1, <2>2, <2>3
<1>10. QED BY <1>4, <1>5, <1>6, <1>7, <1>8, <1>9 DEF ModelInv

\* The compaction lets the call through.
LEMMA EnterCompactionKeeps ==
  ASSUME Once, ModelInv,
         call.mode = "down",
         call.level = CompactionAt,
         call' = ACall("down", call.level + 1, call.outcome, call.attempt, call.provider, FALSE),
         UNCHANGED <<path, chain, apis, modelRequest, breaker, stop, calls, modelSent, late, raised, misses, forgiven>>
  PROVE  ModelInv'
<1>1. ModelFacts BY ModelShape
<1>2. /\ Depth' = Depth /\ RetryAt' = RetryAt /\ FailoverAt' = FailoverAt /\ CompactionAt' = CompactionAt
      /\ path' = path /\ chain' = chain /\ apis' = apis
  BY FramesStay
<1>3. Left' \in {1, 2} /\ Left' = Left BY DEF Left
<1> USE <1>1, <1>2, <1>3 DEF ModelFacts, Inside, Retrying, Failed, C!Providers, C!Errors, C!Raised, ACall
<1>4. ModelTyped'
  <2>1. CallTyped' BY DEF CallTyped, Shape, ModelPlaced
  <2>2. QED BY <2>1 DEF ModelTyped, CallTyped
<1>5. ModelPlaced'
  BY DEF CallTyped, ModelPlaced, Shape
<1>6. Attempted'
  BY DEF CallTyped, ModelPlaced, Attempted, Counted, Shape
<1>7. Passed'
  BY DEF CallTyped, ModelPlaced, Passed, GaveUp, Shape
<1>8. Spared'
  BY DEF CallTyped, ModelPlaced, Spared, Shape
<1>9. Late'
  <2>1. CASE path = "native"
    BY <2>1 DEF CallTyped, ModelPlaced, Late, Twice, Shape
  <2>2. CASE path = "sync"
    BY <2>2 DEF CallTyped, ModelPlaced, Late, Twice, Shape
  <2>3. CASE path = "async"
    BY <2>3 DEF CallTyped, ModelPlaced, Late, Twice, Used, UsedAbove, UsedAgain, Twofold, Size, Shape
  <2>4. QED BY <2>1, <2>2, <2>3
<1>10. QED BY <1>4, <1>5, <1>6, <1>7, <1>8, <1>9 DEF ModelInv

\* The request is not sent after the stop.
LEMMA NotSentKeeps ==
  ASSUME Once, ModelInv,
         call.mode = "down",
         call.level = Depth + 1,
         stop,
         call' = ACall("up", Depth, "none", call.attempt, call.provider, call.compacted),
         UNCHANGED <<path, chain, apis, modelRequest, breaker, stop, calls, modelSent, late, raised, misses, forgiven>>
  PROVE  ModelInv'
<1>1. ModelFacts BY ModelShape
<1>2. /\ Depth' = Depth /\ RetryAt' = RetryAt /\ FailoverAt' = FailoverAt /\ CompactionAt' = CompactionAt
      /\ path' = path /\ chain' = chain /\ apis' = apis
  BY FramesStay
<1>3. Left' \in {1, 2} /\ Left' = Left BY DEF Left
<1> USE <1>1, <1>2, <1>3 DEF ModelFacts, Inside, Retrying, Failed, C!Providers, C!Errors, C!Raised, ACall
<1>4. ModelTyped'
  <2>1. CallTyped' BY DEF CallTyped, Shape, ModelPlaced
  <2>2. QED BY <2>1 DEF ModelTyped, CallTyped
<1>5. ModelPlaced'
  BY DEF CallTyped, ModelPlaced, Shape
<1>6. Attempted'
  BY DEF CallTyped, ModelPlaced, Attempted, Counted, Shape
<1>7. Passed'
  BY DEF CallTyped, ModelPlaced, Passed, GaveUp, Shape
<1>8. Spared'
  BY DEF CallTyped, ModelPlaced, Spared, Shape
<1>9. Late'
  <2>1. CASE path = "native"
    BY <2>1 DEF CallTyped, ModelPlaced, Late, Twice, Shape
  <2>2. CASE path = "sync"
    BY <2>2 DEF CallTyped, ModelPlaced, Late, Twice, Shape
  <2>3. CASE path = "async"
    BY <2>3 DEF CallTyped, ModelPlaced, Late, Twice, Used, UsedAbove, UsedAgain, Twofold, Size, Shape
  <2>4. QED BY <2>1, <2>2, <2>3
<1>10. QED BY <1>4, <1>5, <1>6, <1>7, <1>8, <1>9 DEF ModelInv

\* A request is sent.
LEMMA RequestKeeps ==
  ASSUME Once, ModelInv,
         call.mode = "down",
         call.level = Depth + 1,
         path # "native" \/ ~stop,
         call' = ACall("asking", call.level, call.outcome, call.attempt, call.provider, call.compacted),
         modelRequest' \in [asked : C!Providers, api : {apis[0], "openai"}, signed : BOOLEAN],
         modelSent' = C!Counted(C!Asked),
         late' = IF stop THEN late + 1 ELSE late,
         UNCHANGED <<path, chain, apis, breaker, stop, calls, raised, misses, forgiven>>
  PROVE  ModelInv'
<1>1. ModelFacts BY ModelShape
<1>2. /\ Depth' = Depth /\ RetryAt' = RetryAt /\ FailoverAt' = FailoverAt /\ CompactionAt' = CompactionAt
      /\ path' = path /\ chain' = chain /\ apis' = apis
  BY FramesStay
<1>3. Left' \in {1, 2} BY DEF Left
<1> USE <1>1, <1>2, <1>3 DEF ModelFacts, Inside, Retrying, Failed, C!Providers, C!Errors, C!Raised, ACall
<1>c. late' \in Nat /\ late' = (IF stop THEN late + 1 ELSE late) OBVIOUS
<1>a. /\ modelSent' \in [C!Providers -> 0..Retries]
      /\ \A p \in C!Providers : modelSent[p] \in Nat /\ modelSent'[p] \in Nat /\ modelSent'[p] >= modelSent[p]
      /\ modelSent'[C!Asked] = (IF modelSent[C!Asked] < Retries THEN modelSent[C!Asked] + 1 ELSE modelSent[C!Asked])
  <2>1. modelSent \in [C!Providers -> 0..Retries] /\ modelRequest \in [asked : C!Providers, api : {apis[0], "openai"}, signed : BOOLEAN]
    BY DEF ModelTyped
  <2>2. C!Asked \in C!Providers BY <2>1 DEF CallTyped, C!Asked
  <2>3. QED BY <2>1, <2>2 DEF C!Counted
<1>4. ModelTyped'
  <2>1. CallTyped' BY DEF CallTyped, Shape, ModelPlaced
  <2>2. QED BY <2>1, <1>a, <1>c DEF ModelTyped, CallTyped
<1>5. ModelPlaced'
  BY DEF CallTyped, ModelPlaced, Shape
<1>6. Attempted'
  <2>1. Counted' <=> Counted BY DEF Counted
  <2>2. CASE ~Counted BY <2>1, <2>2 DEF Attempted
  <2>3. CASE Counted
    <3>1. call.provider \in C!Providers /\ call.attempt \in 0..Retries /\ call.level \in 0..Depth + 1 BY DEF CallTyped
    <3>2. /\ modelSent'[call.provider] = IF modelSent[call.provider] < Retries THEN modelSent[call.provider] + 1 ELSE modelSent[call.provider]
         /\ modelSent[call.provider] \in Nat
      <4>1. C!Asked = call.provider BY <2>3 DEF Counted, C!Asked, ModelPlaced
      <4>2. QED BY <1>a, <3>1, <4>1
    <3>3. \A p \in C!Providers : raised'[p] \in C!Errors => modelSent'[p] >= Retries
      <4>1. raised' = raised /\ \A p \in C!Providers : raised[p] \in C!Errors => modelSent[p] >= Retries
        BY <2>3 DEF Attempted
      <4>2. ASSUME NEW p \in C!Providers, raised'[p] \in C!Errors PROVE modelSent'[p] >= Retries
        <5>1. /\ modelSent[p] \in Nat /\ modelSent'[p] \in Nat /\ modelSent'[p] >= modelSent[p]
              /\ modelSent[p] >= Retries /\ Retries \in Nat
          BY <1>a, <4>1, <4>2
        <5>2. QED BY <5>1
      <4>3. QED BY <4>2
    <3>4. Retrying => modelSent[call.provider] >= call.attempt - 1
      BY <2>3 DEF Attempted
    <3>5. Retrying /\ ~(call.mode = "up") BY DEF ModelPlaced, Shape
    <3>6. QED BY <2>1, <3>1, <3>2, <3>3, <3>4, <3>5 DEF Attempted
  <2>4. QED BY <2>2, <2>3
<1>7. Passed'
  BY SMTT(20) DEF CallTyped, ModelPlaced, Passed, GaveUp, Shape
<1>8. Spared'
  BY DEF CallTyped, ModelPlaced, Spared, Shape
<1>d. call'.mode = "asking" /\ Left' - 1 \in {0, 1} OBVIOUS
<1>9. Late'
  <2>1. CASE path # "async"
    <3>0. stop \in BOOLEAN /\ stop' = stop /\ path' = path /\ Left' \in {1, 2} OBVIOUS
    <3>1. late = 0 /\ (path = "native" => late' = 0) /\ late' \in {0, 1} /\ (late' > 0 => stop)
      BY <1>c, <2>1 DEF Late
    <3>2. (late' > 0 => stop') /\ (path' = "native" => late' <= Left' - 1) /\ late' <= Left' /\ late' <= 2
      <4> HIDE <1>1, <1>2, <1>3
      <4>1. stop \in BOOLEAN /\ stop' = stop /\ path' = path /\ Left' \in {1, 2} BY <3>0
      <4>2. late' > 0 => stop'
        <5>1. CASE stop = TRUE
          <6>1. stop' = TRUE BY <4>1, <5>1
          <6>2. QED BY <6>1
        <5>2. CASE stop = FALSE
          <6>1. late' = 0 BY <3>1, <5>2
          <6>2. QED BY <6>1
        <5>3. QED BY <4>1, <5>1, <5>2
      <4>3. late' \in {0, 1} /\ (path' = "native" => late' = 0) BY <3>1, <4>1
      <4>4. QED BY <4>1, <4>2, <4>3
    <3>3. path' = path OBVIOUS
    <3> HIDE <1>1, <1>2, <1>3
    <3>4. QED BY <1>d, <2>1, <3>2, <3>3 DEF Late, Twice
  <2>2. CASE path = "async"
    BY <1>c, <2>2, SMTT(20) DEF CallTyped, ModelPlaced, Late, Twice, Used, UsedAbove, UsedAgain, Twofold, Size, Shape
  <2>3. QED BY <2>1, <2>2
<1>10. QED BY <1>4, <1>5, <1>6, <1>7, <1>8, <1>9 DEF ModelInv

\* A request comes to its end.
LEMMA ReplyKeeps ==
  ASSUME Once, ModelInv,
         NEW answered \in {"response"} \cup C!Errors,
         call.mode = "asking",
         call' = ACall("up", Depth, answered, call.attempt, call.provider, call.compacted),
         UNCHANGED <<path, chain, apis, modelRequest, breaker, stop, calls, modelSent, late, raised, misses, forgiven>>
  PROVE  ModelInv'
<1>1. ModelFacts BY ModelShape
<1>2. /\ Depth' = Depth /\ RetryAt' = RetryAt /\ FailoverAt' = FailoverAt /\ CompactionAt' = CompactionAt
      /\ path' = path /\ chain' = chain /\ apis' = apis
  BY FramesStay
<1>3. Left' \in {1, 2} /\ Left' = Left BY DEF Left
<1> USE <1>1, <1>2, <1>3 DEF ModelFacts, Inside, Retrying, Failed, C!Providers, C!Errors, C!Raised, ACall
<1>4. ModelTyped'
  <2>1. CallTyped' BY DEF CallTyped, Shape, ModelPlaced
  <2>2. QED BY <2>1 DEF ModelTyped, CallTyped
<1>5. ModelPlaced'
  BY DEF CallTyped, ModelPlaced, Shape
<1>6. Attempted'
  BY DEF CallTyped, ModelPlaced, Attempted, Counted, Shape
<1>7. Passed'
  BY DEF CallTyped, ModelPlaced, Passed, GaveUp, Shape
<1>8. Spared'
  BY DEF CallTyped, ModelPlaced, Spared, Shape
<1>9. Late'
  <2>1. CASE path = "native"
    BY <2>1 DEF CallTyped, ModelPlaced, Late, Twice, Shape
  <2>2. CASE path = "sync"
    BY <2>2 DEF CallTyped, ModelPlaced, Late, Twice, Shape
  <2>3. CASE path = "async"
    BY <2>3 DEF CallTyped, ModelPlaced, Late, Twice, Used, UsedAbove, UsedAgain, Twofold, Size, Shape
  <2>4. QED BY <2>1, <2>2, <2>3
<1>10. QED BY <1>4, <1>5, <1>6, <1>7, <1>8, <1>9 DEF ModelInv

\* The request is sent again, without its signatures.
LEMMA StripKeeps ==
  ASSUME Once, ModelInv,
         call.mode = "asking",
         modelRequest.signed = TRUE,
         modelRequest' \in [asked : C!Providers, api : {apis[0], "openai"}, signed : BOOLEAN],
         modelRequest'.signed = FALSE,
         modelSent' = C!Counted(modelRequest.asked),
         late' = IF stop THEN late + 1 ELSE late,
         UNCHANGED <<path, chain, apis, call, breaker, stop, calls, raised, misses, forgiven>>
  PROVE  ModelInv'
<1>1. ModelFacts BY ModelShape
<1>2. /\ Depth' = Depth /\ RetryAt' = RetryAt /\ FailoverAt' = FailoverAt /\ CompactionAt' = CompactionAt
      /\ path' = path /\ chain' = chain /\ apis' = apis
  BY FramesStay
<1>3. Left' \in {1, 2} BY DEF Left
<1> USE <1>1, <1>2, <1>3 DEF ModelFacts, Inside, Retrying, Failed, C!Providers, C!Errors, C!Raised, ACall
<1>c. late' \in Nat /\ late' = (IF stop THEN late + 1 ELSE late) OBVIOUS
<1>a. /\ modelSent' \in [C!Providers -> 0..Retries]
      /\ \A p \in C!Providers : modelSent[p] \in Nat /\ modelSent'[p] \in Nat /\ modelSent'[p] >= modelSent[p]
      /\ modelSent'[modelRequest.asked] = (IF modelSent[modelRequest.asked] < Retries THEN modelSent[modelRequest.asked] + 1 ELSE modelSent[modelRequest.asked])
  <2>1. modelSent \in [C!Providers -> 0..Retries] /\ modelRequest \in [asked : C!Providers, api : {apis[0], "openai"}, signed : BOOLEAN]
    BY DEF ModelTyped
  <2>2. modelRequest.asked \in C!Providers BY <2>1 DEF CallTyped, C!Asked
  <2>3. QED BY <2>1, <2>2 DEF C!Counted
<1>b. Left = 1 /\ Left' = 2 /\ call' = call /\ raised' = raised BY DEF Left
<1>4. ModelTyped'
  <2>1. CallTyped' BY <1>b DEF CallTyped
  <2>2. QED BY <2>1, <1>a, <1>b, <1>c DEF ModelTyped
<1>5. ModelPlaced'
  BY DEF CallTyped, ModelPlaced, Shape
<1>6. Attempted'
  <2>1. Counted' <=> Counted BY DEF Counted
  <2>2. CASE ~Counted BY <2>1, <2>2 DEF Attempted
  <2>3. CASE Counted
    <3>1. call.provider \in C!Providers /\ call.attempt \in 0..Retries /\ call.level \in 0..Depth + 1 BY DEF CallTyped
    <3>2. modelSent[call.provider] \in Nat /\ modelSent'[call.provider] \in Nat /\ modelSent'[call.provider] >= modelSent[call.provider]
      BY <1>a, <3>1
    <3>3. \A p \in C!Providers : raised'[p] \in C!Errors => modelSent'[p] >= Retries
      <4>1. raised' = raised /\ \A p \in C!Providers : raised[p] \in C!Errors => modelSent[p] >= Retries
        BY <2>3 DEF Attempted
      <4>2. ASSUME NEW p \in C!Providers, raised'[p] \in C!Errors PROVE modelSent'[p] >= Retries
        <5>1. /\ modelSent[p] \in Nat /\ modelSent'[p] \in Nat /\ modelSent'[p] >= modelSent[p]
              /\ modelSent[p] >= Retries /\ Retries \in Nat
          BY <1>a, <4>1, <4>2
        <5>2. QED BY <5>1
      <4>3. QED BY <4>2
    <3>4. Retrying => modelSent[call.provider] >= call.attempt
      BY <2>3 DEF Attempted
    <3>5. Retrying /\ ~(call.mode = "up") BY DEF ModelPlaced, Shape
    <3>6. QED BY <1>b, <2>1, <3>1, <3>2, <3>3, <3>4, <3>5 DEF Attempted
  <2>4. QED BY <2>2, <2>3
<1>7. Passed'
  BY DEF CallTyped, ModelPlaced, Passed, GaveUp, Shape
<1>8. Spared'
  BY DEF CallTyped, ModelPlaced, Spared, Shape
<1>9. Late'
  <2>1. CASE path = "native"
    BY <1>c, <1>b, <2>1 DEF CallTyped, ModelPlaced, Late, Twice, Shape
  <2>2. CASE path = "sync"
    BY <1>c, <1>b, <2>2 DEF CallTyped, ModelPlaced, Late, Twice, Shape
  <2>3. CASE path = "async"
    BY <1>c, <1>b, <2>3 DEF CallTyped, ModelPlaced, Late, Twice, Used, UsedAbove, UsedAgain, Twofold, Size, Shape
  <2>4. QED BY <2>1, <2>2, <2>3
<1>10. QED BY <1>4, <1>5, <1>6, <1>7, <1>8, <1>9 DEF ModelInv

\* A request is given up at the stop.
LEMMA CancelKeeps ==
  ASSUME Once, ModelInv,
         call.mode = "asking",
         path = "native",
         stop,
         call' = ACall("up", Depth, "none", call.attempt, call.provider, call.compacted),
         UNCHANGED <<path, chain, apis, modelRequest, breaker, stop, calls, modelSent, late, raised, misses, forgiven>>
  PROVE  ModelInv'
<1>1. ModelFacts BY ModelShape
<1>2. /\ Depth' = Depth /\ RetryAt' = RetryAt /\ FailoverAt' = FailoverAt /\ CompactionAt' = CompactionAt
      /\ path' = path /\ chain' = chain /\ apis' = apis
  BY FramesStay
<1>3. Left' \in {1, 2} /\ Left' = Left BY DEF Left
<1> USE <1>1, <1>2, <1>3 DEF ModelFacts, Inside, Retrying, Failed, C!Providers, C!Errors, C!Raised, ACall
<1>4. ModelTyped'
  <2>1. CallTyped' BY DEF CallTyped, Shape, ModelPlaced
  <2>2. QED BY <2>1 DEF ModelTyped, CallTyped
<1>5. ModelPlaced'
  BY DEF CallTyped, ModelPlaced, Shape
<1>6. Attempted'
  BY DEF CallTyped, ModelPlaced, Attempted, Counted, Shape
<1>7. Passed'
  BY DEF CallTyped, ModelPlaced, Passed, GaveUp, Shape
<1>8. Spared'
  BY DEF CallTyped, ModelPlaced, Spared, Shape
<1>9. Late'
  BY DEF CallTyped, ModelPlaced, Late, Twice, Used, UsedAbove, UsedAgain, Twofold, Size, Shape
<1>10. QED BY <1>4, <1>5, <1>6, <1>7, <1>8, <1>9 DEF ModelInv

\* The loop ends with what the attempt has come to.
LEMMA AttemptsEndKeeps ==
  ASSUME Once, ModelInv,
         call.mode = "up",
         call.level = RetryAt,
         ~C!Raised \/ (~stop /\ call.attempt = Retries),
         call' = ACall("up", call.level - 1, call.outcome, call.attempt, call.provider, call.compacted),
         UNCHANGED <<path, chain, apis, modelRequest, breaker, stop, calls, modelSent, late, raised, misses, forgiven>>
  PROVE  ModelInv'
<1>1. ModelFacts BY ModelShape
<1>2. /\ Depth' = Depth /\ RetryAt' = RetryAt /\ FailoverAt' = FailoverAt /\ CompactionAt' = CompactionAt
      /\ path' = path /\ chain' = chain /\ apis' = apis
  BY FramesStay
<1>3. Left' \in {1, 2} /\ Left' = Left BY DEF Left
<1> USE <1>1, <1>2, <1>3 DEF ModelFacts, Inside, Retrying, Failed, C!Providers, C!Errors, C!Raised, ACall
<1>4. ModelTyped'
  <2>1. CallTyped' BY DEF CallTyped, Shape, ModelPlaced
  <2>2. QED BY <2>1 DEF ModelTyped, CallTyped
<1>5. ModelPlaced'
  BY DEF CallTyped, ModelPlaced, Shape
<1>6. Attempted'
  BY DEF CallTyped, ModelPlaced, Attempted, Counted, Shape
<1>7. Passed'
  BY DEF CallTyped, ModelPlaced, Passed, GaveUp, Shape
<1>8. Spared'
  BY DEF CallTyped, ModelPlaced, Spared, Shape
<1>9. Late'
  <2>1. CASE path = "native"
    BY <2>1 DEF CallTyped, ModelPlaced, Late, Twice, Shape
  <2>2. CASE path = "sync"
    BY <2>2 DEF CallTyped, ModelPlaced, Late, Twice, Shape
  <2>3. CASE path = "async"
    BY <2>3 DEF CallTyped, ModelPlaced, Late, Twice, Used, UsedAbove, UsedAgain, Twofold, Size, Shape
  <2>4. QED BY <2>1, <2>2, <2>3
<1>10. QED BY <1>4, <1>5, <1>6, <1>7, <1>8, <1>9 DEF ModelInv

\* The loop ends at the stop.
LEMMA AttemptsStopKeeps ==
  ASSUME Once, ModelInv,
         call.mode = "up",
         call.level = RetryAt,
         C!Raised /\ stop,
         call' = ACall("up", call.level - 1, "none", call.attempt, call.provider, call.compacted),
         UNCHANGED <<path, chain, apis, modelRequest, breaker, stop, calls, modelSent, late, raised, misses, forgiven>>
  PROVE  ModelInv'
<1>1. ModelFacts BY ModelShape
<1>2. /\ Depth' = Depth /\ RetryAt' = RetryAt /\ FailoverAt' = FailoverAt /\ CompactionAt' = CompactionAt
      /\ path' = path /\ chain' = chain /\ apis' = apis
  BY FramesStay
<1>3. Left' \in {1, 2} /\ Left' = Left BY DEF Left
<1> USE <1>1, <1>2, <1>3 DEF ModelFacts, Inside, Retrying, Failed, C!Providers, C!Errors, C!Raised, ACall
<1>4. ModelTyped'
  <2>1. CallTyped' BY DEF CallTyped, Shape, ModelPlaced
  <2>2. QED BY <2>1 DEF ModelTyped, CallTyped
<1>5. ModelPlaced'
  BY DEF CallTyped, ModelPlaced, Shape
<1>6. Attempted'
  BY DEF CallTyped, ModelPlaced, Attempted, Counted, Shape
<1>7. Passed'
  BY DEF CallTyped, ModelPlaced, Passed, GaveUp, Shape
<1>8. Spared'
  BY DEF CallTyped, ModelPlaced, Spared, Shape
<1>9. Late'
  <2>1. CASE path = "native"
    BY <2>1 DEF CallTyped, ModelPlaced, Late, Twice, Shape
  <2>2. CASE path = "sync"
    BY <2>2 DEF CallTyped, ModelPlaced, Late, Twice, Shape
  <2>3. CASE path = "async"
    BY <2>3 DEF CallTyped, ModelPlaced, Late, Twice, Used, UsedAbove, UsedAgain, Twofold, Size, Shape
  <2>4. QED BY <2>1, <2>2, <2>3
<1>10. QED BY <1>4, <1>5, <1>6, <1>7, <1>8, <1>9 DEF ModelInv

\* The loop waits before the next attempt.
LEMMA SleepKeeps ==
  ASSUME Once, ModelInv,
         call.mode = "up",
         call.level = RetryAt,
         C!Raised,
         ~stop,
         call.attempt # Retries,
         call' = ACall("sleeping", call.level, call.outcome, call.attempt, call.provider, call.compacted),
         UNCHANGED <<path, chain, apis, modelRequest, breaker, stop, calls, modelSent, late, raised, misses, forgiven>>
  PROVE  ModelInv'
<1>1. ModelFacts BY ModelShape
<1>2. /\ Depth' = Depth /\ RetryAt' = RetryAt /\ FailoverAt' = FailoverAt /\ CompactionAt' = CompactionAt
      /\ path' = path /\ chain' = chain /\ apis' = apis
  BY FramesStay
<1>3. Left' \in {1, 2} /\ Left' = Left BY DEF Left
<1> USE <1>1, <1>2, <1>3 DEF ModelFacts, Inside, Retrying, Failed, C!Providers, C!Errors, C!Raised, ACall
<1>4. ModelTyped'
  <2>1. CallTyped' BY DEF CallTyped, Shape, ModelPlaced
  <2>2. QED BY <2>1 DEF ModelTyped, CallTyped
<1>5. ModelPlaced'
  BY DEF CallTyped, ModelPlaced, Shape
<1>6. Attempted'
  BY DEF CallTyped, ModelPlaced, Attempted, Counted, Shape
<1>7. Passed'
  BY DEF CallTyped, ModelPlaced, Passed, GaveUp, Shape
<1>8. Spared'
  BY DEF CallTyped, ModelPlaced, Spared, Shape
<1>9. Late'
  BY DEF CallTyped, ModelPlaced, Late, Twice, Used, UsedAbove, UsedAgain, Twofold, Size, Shape
<1>10. QED BY <1>4, <1>5, <1>6, <1>7, <1>8, <1>9 DEF ModelInv

\* The next attempt.
LEMMA WakeKeeps ==
  ASSUME Once, ModelInv,
         call.mode = "sleeping",
         call' = ACall("head", call.level, call.outcome, call.attempt + 1, call.provider, call.compacted),
         UNCHANGED <<path, chain, apis, modelRequest, breaker, stop, calls, modelSent, late, raised, misses, forgiven>>
  PROVE  ModelInv'
<1>1. ModelFacts BY ModelShape
<1>2. /\ Depth' = Depth /\ RetryAt' = RetryAt /\ FailoverAt' = FailoverAt /\ CompactionAt' = CompactionAt
      /\ path' = path /\ chain' = chain /\ apis' = apis
  BY FramesStay
<1>3. Left' \in {1, 2} /\ Left' = Left BY DEF Left
<1> USE <1>1, <1>2, <1>3 DEF ModelFacts, Inside, Retrying, Failed, C!Providers, C!Errors, C!Raised, ACall
<1>4. ModelTyped'
  <2>1. CallTyped' BY DEF CallTyped, Shape, ModelPlaced
  <2>2. QED BY <2>1 DEF ModelTyped, CallTyped
<1>5. ModelPlaced'
  BY DEF CallTyped, ModelPlaced, Shape
<1>6. Attempted'
  BY DEF CallTyped, ModelPlaced, Attempted, Counted, Shape
<1>7. Passed'
  BY DEF CallTyped, ModelPlaced, Passed, GaveUp, Shape
<1>8. Spared'
  BY DEF CallTyped, ModelPlaced, Spared, Shape
<1>9. Late'
  BY DEF CallTyped, ModelPlaced, Late, Twice, Used, UsedAbove, UsedAgain, Twofold, Size, Shape
<1>10. QED BY <1>4, <1>5, <1>6, <1>7, <1>8, <1>9 DEF ModelInv

\* The failover goes on to the next provider.
LEMMA GoOnKeeps ==
  ASSUME Once, ModelInv,
         call.mode = "up",
         call.level = FailoverAt,
         C!Raised,
         call.provider < Fallbacks,
         call.provider = 0 => C!Triggers,
         raised' = [raised EXCEPT ![call.provider] = call.outcome],
         call' = ACall("down", call.level + 1, call.outcome, call.attempt, call.provider + 1, call.compacted),
         \/ call.provider # 0 /\ UNCHANGED <<breaker, misses, forgiven>>
         \/ call.provider = 0 /\ C!Raised /\ C!RecordFailure /\ misses' = misses + 1 /\ UNCHANGED forgiven
         \/ /\ call.provider = 0 /\ ~C!Raised /\ C!RecordSuccess
            /\ misses' = (IF call.outcome = "response" THEN 0 ELSE misses) /\ forgiven' = (forgiven \/ call.outcome = "none"),
         UNCHANGED <<path, chain, apis, modelRequest, stop, calls, modelSent, late>>
  PROVE  ModelInv'
<1>1. ModelFacts BY ModelShape
<1>2. /\ Depth' = Depth /\ RetryAt' = RetryAt /\ FailoverAt' = FailoverAt /\ CompactionAt' = CompactionAt
      /\ path' = path /\ chain' = chain /\ apis' = apis
  BY FramesStay
<1>3. Left' \in {1, 2} /\ Left' = Left BY DEF Left
<1> USE <1>1, <1>2, <1>3 DEF ModelFacts, Inside, Retrying, Failed, C!Providers, C!Errors, C!Raised, ACall
<1> DEFINE Told == {"nothing", "none", "response"} \cup C!Errors
<1>a. /\ raised' \in [C!Providers -> Told] /\ raised \in [C!Providers -> Told]
      /\ \A p \in C!Providers : raised'[p] = IF p = call.provider THEN call.outcome ELSE raised[p]
  BY DEF ModelTyped, CallTyped
<1>b. /\ breaker' \in [fails : Nat, state : {"closed", "open", "half"}] /\ breaker \in [fails : Nat, state : {"closed", "open", "half"}]
      /\ misses' \in Nat /\ forgiven' \in BOOLEAN /\ forgiven \in BOOLEAN
  <2>1. breaker \in [fails : Nat, state : {"closed", "open", "half"}] /\ forgiven \in BOOLEAN BY DEF ModelTyped
  <2>2. breaker' \in [fails : Nat, state : {"closed", "open", "half"}] /\ misses' \in Nat
    BY <2>1 DEF C!RecordFailure, C!RecordSuccess
  <2>3. forgiven' \in BOOLEAN BY <2>1, Zenon
  <2>4. QED BY <2>1, <2>2, <2>3
<1>4. ModelTyped'
  <2>1. CallTyped' BY DEF CallTyped, Shape, ModelPlaced
  <2>2. QED BY <2>1, <1>a, <1>b DEF ModelTyped, CallTyped
<1>5. ModelPlaced'
  BY DEF CallTyped, ModelPlaced, Shape
<1>6. Attempted'
  BY <1>a, SMTT(20) DEF CallTyped, ModelPlaced, Attempted, Counted, Shape
<1>7. Passed'
  BY <1>a, SMTT(20) DEF CallTyped, ModelPlaced, Passed, GaveUp, Shape, C!Triggers
<1>8. Spared'
  BY <1>b DEF CallTyped, ModelPlaced, Spared, Shape, C!RecordFailure, C!RecordSuccess
<1>9. Late'
  <2>1. CASE path = "native"
    BY <2>1, SMTT(20) DEF CallTyped, ModelPlaced, Late, Twice, Shape
  <2>2. CASE path = "sync"
    BY <2>2, SMTT(20) DEF CallTyped, ModelPlaced, Late, Twice, Shape
  <2>3. CASE path = "async"
    BY <2>3, SMTT(20) DEF CallTyped, ModelPlaced, Late, Twice, Used, UsedAbove, UsedAgain, Twofold, Size, Shape
  <2>4. QED BY <2>1, <2>2, <2>3
<1>10. QED BY <1>4, <1>5, <1>6, <1>7, <1>8, <1>9 DEF ModelInv

\* The failover gives up, or has an answer.
LEMMA GiveUpKeeps ==
  ASSUME Once, ModelInv,
         call.mode = "up",
         call.level = FailoverAt,
         ~C!Raised \/ call.provider >= Fallbacks \/ (call.provider = 0 /\ ~C!Triggers),
         raised' = [raised EXCEPT ![call.provider] = call.outcome],
         call' = ACall("up", call.level - 1, call.outcome, call.attempt, call.provider, call.compacted),
         \/ call.provider # 0 /\ UNCHANGED <<breaker, misses, forgiven>>
         \/ call.provider = 0 /\ C!Raised /\ C!RecordFailure /\ misses' = misses + 1 /\ UNCHANGED forgiven
         \/ /\ call.provider = 0 /\ ~C!Raised /\ C!RecordSuccess
            /\ misses' = (IF call.outcome = "response" THEN 0 ELSE misses) /\ forgiven' = (forgiven \/ call.outcome = "none"),
         UNCHANGED <<path, chain, apis, modelRequest, stop, calls, modelSent, late>>
  PROVE  ModelInv'
<1>1. ModelFacts BY ModelShape
<1>2. /\ Depth' = Depth /\ RetryAt' = RetryAt /\ FailoverAt' = FailoverAt /\ CompactionAt' = CompactionAt
      /\ path' = path /\ chain' = chain /\ apis' = apis
  BY FramesStay
<1>3. Left' \in {1, 2} /\ Left' = Left BY DEF Left
<1> USE <1>1, <1>2, <1>3 DEF ModelFacts, Inside, Retrying, Failed, C!Providers, C!Errors, C!Raised, ACall
<1> DEFINE Told == {"nothing", "none", "response"} \cup C!Errors
<1>a. /\ raised' \in [C!Providers -> Told] /\ raised \in [C!Providers -> Told]
      /\ \A p \in C!Providers : raised'[p] = IF p = call.provider THEN call.outcome ELSE raised[p]
  BY DEF ModelTyped, CallTyped
<1>b. /\ breaker' \in [fails : Nat, state : {"closed", "open", "half"}] /\ breaker \in [fails : Nat, state : {"closed", "open", "half"}]
      /\ misses' \in Nat /\ forgiven' \in BOOLEAN /\ forgiven \in BOOLEAN
  <2>1. breaker \in [fails : Nat, state : {"closed", "open", "half"}] /\ forgiven \in BOOLEAN BY DEF ModelTyped
  <2>2. breaker' \in [fails : Nat, state : {"closed", "open", "half"}] /\ misses' \in Nat
    BY <2>1 DEF C!RecordFailure, C!RecordSuccess
  <2>3. forgiven' \in BOOLEAN BY <2>1, Zenon
  <2>4. QED BY <2>1, <2>2, <2>3
<1>4. ModelTyped'
  <2>1. CallTyped' BY DEF CallTyped, Shape, ModelPlaced
  <2>2. QED BY <2>1, <1>a, <1>b DEF ModelTyped, CallTyped
<1>5. ModelPlaced'
  BY DEF CallTyped, ModelPlaced, Shape
<1>6. Attempted'
  BY <1>a, SMTT(20) DEF CallTyped, ModelPlaced, Attempted, Counted, Shape
<1>7. Passed'
  BY <1>a, SMTT(20) DEF CallTyped, ModelPlaced, Passed, GaveUp, Shape, C!Triggers
<1>8. Spared'
  BY <1>b DEF CallTyped, ModelPlaced, Spared, Shape, C!RecordFailure, C!RecordSuccess
<1>9. Late'
  <2>1. CASE path = "native"
    BY <2>1, SMTT(20) DEF CallTyped, ModelPlaced, Late, Twice, Shape
  <2>2. CASE path = "sync"
    BY <2>2, SMTT(20) DEF CallTyped, ModelPlaced, Late, Twice, Shape
  <2>3. CASE path = "async"
    BY <2>3, SMTT(20) DEF CallTyped, ModelPlaced, Late, Twice, Used, UsedAbove, UsedAgain, Twofold, Size, Shape
  <2>4. QED BY <2>1, <2>2, <2>3
<1>10. QED BY <1>4, <1>5, <1>6, <1>7, <1>8, <1>9 DEF ModelInv

\* The prompt has been compacted.
LEMMA CompactKeeps ==
  ASSUME Once, ModelInv,
         call.mode = "up",
         call.level = CompactionAt,
         C!Raised,
         ~call.compacted,
         call' = ACall("down", call.level + 1, call.outcome, call.attempt, call.provider, TRUE),
         UNCHANGED <<path, chain, apis, modelRequest, breaker, stop, calls, modelSent, late, raised, misses, forgiven>>
  PROVE  ModelInv'
<1>1. ModelFacts BY ModelShape
<1>2. /\ Depth' = Depth /\ RetryAt' = RetryAt /\ FailoverAt' = FailoverAt /\ CompactionAt' = CompactionAt
      /\ path' = path /\ chain' = chain /\ apis' = apis
  BY FramesStay
<1>3. Left' \in {1, 2} /\ Left' = Left BY DEF Left
<1> USE <1>1, <1>2, <1>3 DEF ModelFacts, Inside, Retrying, Failed, C!Providers, C!Errors, C!Raised, ACall
<1>4. ModelTyped'
  <2>1. CallTyped' BY DEF CallTyped, Shape, ModelPlaced
  <2>2. QED BY <2>1 DEF ModelTyped, CallTyped
<1>5. ModelPlaced'
  BY DEF CallTyped, ModelPlaced, Shape
<1>6. Attempted'
  BY DEF CallTyped, ModelPlaced, Attempted, Counted, Shape
<1>7. Passed'
  BY DEF CallTyped, ModelPlaced, Passed, GaveUp, Shape
<1>8. Spared'
  BY DEF CallTyped, ModelPlaced, Spared, Shape
<1>9. Late'
  <2>1. CASE path = "native"
    BY <2>1 DEF CallTyped, ModelPlaced, Late, Twice, Shape
  <2>2. CASE path = "sync"
    BY <2>2 DEF CallTyped, ModelPlaced, Late, Twice, Shape
  <2>3. CASE path = "async"
    BY <2>3 DEF CallTyped, ModelPlaced, Late, Twice, Used, UsedAbove, UsedAgain, Twofold, Size, Shape
  <2>4. QED BY <2>1, <2>2, <2>3
<1>10. QED BY <1>4, <1>5, <1>6, <1>7, <1>8, <1>9 DEF ModelInv

\* The call goes on up.
LEMMA NotCompactedKeeps ==
  ASSUME Once, ModelInv,
         call.mode = "up",
         call.level = CompactionAt,
         call' = ACall("up", call.level - 1, call.outcome, call.attempt, call.provider, call.compacted),
         UNCHANGED <<path, chain, apis, modelRequest, breaker, stop, calls, modelSent, late, raised, misses, forgiven>>
  PROVE  ModelInv'
<1>1. ModelFacts BY ModelShape
<1>2. /\ Depth' = Depth /\ RetryAt' = RetryAt /\ FailoverAt' = FailoverAt /\ CompactionAt' = CompactionAt
      /\ path' = path /\ chain' = chain /\ apis' = apis
  BY FramesStay
<1>3. Left' \in {1, 2} /\ Left' = Left BY DEF Left
<1> USE <1>1, <1>2, <1>3 DEF ModelFacts, Inside, Retrying, Failed, C!Providers, C!Errors, C!Raised, ACall
<1>4. ModelTyped'
  <2>1. CallTyped' BY DEF CallTyped, Shape, ModelPlaced
  <2>2. QED BY <2>1 DEF ModelTyped, CallTyped
<1>5. ModelPlaced'
  BY DEF CallTyped, ModelPlaced, Shape
<1>6. Attempted'
  BY SMTT(20) DEF CallTyped, ModelPlaced, Attempted, Counted, Shape
<1>7. Passed'
  BY SMTT(20) DEF CallTyped, ModelPlaced, Passed, GaveUp, Shape
<1>8. Spared'
  BY DEF CallTyped, ModelPlaced, Spared, Shape
<1>9. Late'
  <2>1. CASE path = "native"
    BY <2>1, SMTT(20) DEF CallTyped, ModelPlaced, Late, Twice, Shape
  <2>2. CASE path = "sync"
    BY <2>2, SMTT(20) DEF CallTyped, ModelPlaced, Late, Twice, Shape
  <2>3. CASE path = "async"
    BY <2>3, SMTT(20) DEF CallTyped, ModelPlaced, Late, Twice, Used, UsedAbove, UsedAgain, Twofold, Size, Shape
  <2>4. QED BY <2>1, <2>2, <2>3
<1>10. QED BY <1>4, <1>5, <1>6, <1>7, <1>8, <1>9 DEF ModelInv

\* The call comes back.
LEMMA FinishKeeps ==
  ASSUME Once, ModelInv,
         call.mode = "up",
         call.level = 0,
         call' = ACall("idle", call.level, call.outcome, call.attempt, call.provider, call.compacted),
         UNCHANGED <<path, chain, apis, modelRequest, breaker, stop, calls, modelSent, late, raised, misses, forgiven>>
  PROVE  ModelInv'
<1>1. ModelFacts BY ModelShape
<1>2. /\ Depth' = Depth /\ RetryAt' = RetryAt /\ FailoverAt' = FailoverAt /\ CompactionAt' = CompactionAt
      /\ path' = path /\ chain' = chain /\ apis' = apis
  BY FramesStay
<1>3. Left' \in {1, 2} /\ Left' = Left BY DEF Left
<1> USE <1>1, <1>2, <1>3 DEF ModelFacts, Inside, Retrying, Failed, C!Providers, C!Errors, C!Raised, ACall
<1>4. ModelTyped'
  <2>1. CallTyped' BY DEF CallTyped, Shape, ModelPlaced
  <2>2. QED BY <2>1 DEF ModelTyped, CallTyped
<1>5. ModelPlaced'
  BY DEF CallTyped, ModelPlaced, Shape
<1>6. Attempted'
  BY SMTT(20) DEF CallTyped, ModelPlaced, Attempted, Counted, Shape
<1>7. Passed'
  BY SMTT(20) DEF CallTyped, ModelPlaced, Passed, GaveUp, Shape
<1>8. Spared'
  BY DEF CallTyped, ModelPlaced, Spared, Shape
<1>9. Late'
  BY SMTT(20) DEF CallTyped, ModelPlaced, Late, Twice, Used, UsedAbove, UsedAgain, Twofold, Size, Shape
<1>10. QED BY <1>4, <1>5, <1>6, <1>7, <1>8, <1>9 DEF ModelInv

\* Nothing happens.
LEMMA StutterKeeps ==
  ASSUME Once, ModelInv,
         UNCHANGED <<path, chain, apis, call, modelRequest, breaker, stop, calls, modelSent, late, raised, misses, forgiven>>
  PROVE  ModelInv'
<1>1. ModelFacts BY ModelShape
<1>2. /\ Depth' = Depth /\ RetryAt' = RetryAt /\ FailoverAt' = FailoverAt /\ CompactionAt' = CompactionAt
      /\ path' = path /\ chain' = chain /\ apis' = apis
  BY FramesStay
<1>3. Left' \in {1, 2} /\ Left' = Left BY DEF Left
<1> USE <1>1, <1>2, <1>3 DEF ModelFacts, Inside, Retrying, Failed, C!Providers, C!Errors, C!Raised, ACall
<1>4. ModelTyped' BY DEF ModelTyped, CallTyped
<1>5. ModelPlaced'
  BY DEF CallTyped, ModelPlaced, Shape
<1>6. Attempted'
  BY DEF CallTyped, ModelPlaced, Attempted, Counted, Shape
<1>7. Passed'
  BY DEF CallTyped, ModelPlaced, Passed, GaveUp, Shape
<1>8. Spared'
  BY DEF CallTyped, ModelPlaced, Spared, Shape
<1>9. Late'
  BY DEF CallTyped, ModelPlaced, Late, Twice, Used, UsedAbove, UsedAgain, Twofold, Size, Shape
<1>10. QED BY <1>4, <1>5, <1>6, <1>7, <1>8, <1>9 DEF ModelInv

\* A call is idle at first.
LEMMA ModelBegins ==
  ASSUME Once, C!Init
  PROVE  ModelInv
<1>1. /\ Fallbacks \in Nat /\ Retries \in Nat \ {0} /\ Threshold \in Nat \ {0}
  BY Assumed DEF C!ModelCallsAssumption
<1>2. path \in {"sync", "async", "native"} /\ chain \in Chains \cup {<<>>} /\ (path = "native" => chain = <<>>)
  BY DEF C!Init
<1>3. /\ call = ACall("idle", 0, "none", 0, 0, FALSE) /\ stop = FALSE /\ calls = 0 /\ late = 0 /\ misses = 0
      /\ forgiven = FALSE /\ breaker = [fails |-> 0, state |-> "closed"]
  BY DEF C!Init, C!Idle, ACall
<1>4. modelRequest \in [asked : C!Providers, api : {apis[0], "openai"}, signed : BOOLEAN]
  BY <1>1 DEF C!Init, C!NoRequest, C!Providers
<1>5. /\ modelSent \in [C!Providers -> 0..Retries]
      /\ raised \in [C!Providers -> {"nothing", "none", "response"} \cup C!Errors]
      /\ \A p \in C!Providers : raised[p] = "nothing"
  BY <1>1 DEF C!Init, C!None
<1> HIDE DEF C!Init
<1> USE DEF C!Errors, C!Providers, Inside, Retrying, Failed
<1>6. ModelTyped
  <2>1. CallTyped
    <3>1. Depth \in Nat BY <1>2, Assumed DEF Depth, C!ModelCallsAssumption
    <3>2. QED BY <1>1, <1>3, <3>1 DEF CallTyped, ACall
  <2>2. breaker \in [fails : Nat, state : {"closed", "open", "half"}] BY <1>3
  <2>3. QED BY <1>2, <1>3, <1>4, <1>5, <2>1, <2>2 DEF ModelTyped
<1>7. Shape BY <1>6, ChainsAt
<1>8. ModelPlaced BY <1>3, <1>7 DEF ModelPlaced, ACall, Shape
<1>9. Attempted BY <1>3, <1>5, <1>7 DEF Attempted, ACall, Shape
<1>10. Passed BY <1>3, <1>7 DEF Passed, ACall, Shape
<1>11. Spared BY <1>1, <1>3 DEF Spared, ACall
<1>12. Late
  <2>1. Size(1) \in Nat BY <1>1 DEF Size, Twofold
  <2>2. QED BY <1>3, <2>1 DEF Late, ACall, Twice
<1>13. QED BY <1>6, <1>8, <1>9, <1>10, <1>11, <1>12 DEF ModelInv

\* Every step keeps the invariant.
LEMMA ModelStep ==
  ASSUME Once, ModelInv, [C!Next]_C!vars
  PROVE  ModelInv'
<1> USE DEF ACall
<1>1. /\ Shape /\ Len(C!Frames) = Depth /\ ModelTyped /\ CallTyped
      /\ C!At("retry") <=> call.level = RetryAt
      /\ C!At("failover") <=> call.level = FailoverAt
      /\ C!At("compaction") <=> call.level = CompactionAt
      /\ Fallbacks \in Nat /\ Retries \in Nat \ {0}
      /\ call = ACall(call.mode, call.level, call.outcome, call.attempt, call.provider, call.compacted)
  <2>1. ModelTyped /\ CallTyped BY DEF ModelInv, ModelTyped
  <2>2. call = ACall(call.mode, call.level, call.outcome, call.attempt, call.provider, call.compacted)
    BY <2>1 DEF CallTyped
  <2>3. QED BY <2>1, <2>2, ModelShape DEF ModelFacts
<1> USE <1>1
<1>2. CASE C!Begin
  <2>1. call' = ACall("down", 1, "none", 0, 0, FALSE) BY <1>2 DEF C!Begin, C!Idle
  <2>2. QED BY <1>2, <2>1, BeginKeeps DEF C!Begin
<1>3. CASE C!Stop BY <1>3, StopKeeps DEF C!Stop
<1>4. CASE C!Recover BY <1>4, RecoverKeeps DEF C!Recover
<1>5. CASE C!EnterRetry
  <2>1. call' = ACall("head", call.level, call.outcome, 1, call.provider, call.compacted) BY <1>5 DEF C!EnterRetry
  <2>2. QED BY <1>5, <2>1, EnterRetryKeeps DEF C!EnterRetry, C!Going
<1>6. CASE C!Head1
  <2>1. CASE path # "sync" /\ stop
    <3>1. call' = ACall("up", call.level - 1, "none", call.attempt, call.provider, call.compacted)
      BY <1>6, <2>1 DEF C!Head1, C!Up
    <3>2. QED BY <1>6, <2>1, <3>1, HeadStopsKeeps DEF C!Head1
  <2>2. CASE ~(path # "sync" /\ stop)
    <3>1. call' = ACall("down", call.level + 1, call.outcome, call.attempt, call.provider, call.compacted)
      BY <1>6, <2>2 DEF C!Head1, C!Down
    <3>2. QED BY <1>6, <2>2, <3>1, HeadGoesKeeps DEF C!Head1
  <2>3. QED BY <2>1, <2>2
<1>7. CASE C!EnterFailover
  <2>0. call.mode = "down" /\ call.level = FailoverAt /\ raised' = C!None
    BY <1>7 DEF C!EnterFailover, C!Going
  <2>1. CASE ~C!Skip
    <3>1. call' = ACall("down", call.level + 1, call.outcome, call.attempt, 0, call.compacted)
      BY <1>7, <2>1 DEF C!EnterFailover, C!Down
    <3>2. QED BY <1>7, <2>0, <2>1, <3>1, AskPrimaryKeeps DEF C!EnterFailover, C!Skip
  <2>2. CASE C!Skip /\ Fallbacks = 0
    <3>1. call' = ACall("up", call.level - 1, "refused", call.attempt, call.provider, call.compacted)
      BY <1>7, <2>2 DEF C!EnterFailover, C!Up
    <3>2. QED BY <1>7, <2>0, <2>2, <3>1, NobodyElseKeeps DEF C!EnterFailover, C!Skip
  <2>3. CASE C!Skip /\ Fallbacks # 0
    <3>1. call' = ACall("down", call.level + 1, call.outcome, call.attempt, 1, call.compacted)
      BY <1>7, <2>3 DEF C!EnterFailover, C!Down, C!ApplyFallback
    <3>2. QED BY <1>7, <2>0, <2>3, <3>1, SkipPrimaryKeeps DEF C!EnterFailover, C!Skip
  <2>4. QED BY <2>1, <2>2, <2>3
<1>8. CASE C!EnterCompaction
  <2>1. call' = ACall("down", call.level + 1, call.outcome, call.attempt, call.provider, FALSE)
    BY <1>8 DEF C!EnterCompaction, C!Down
  <2>2. QED BY <1>8, <2>1, EnterCompactionKeeps DEF C!EnterCompaction, C!Going
<1>9. CASE C!Send
  <2>1. CASE path = "native" /\ stop
    <3>1. call' = ACall("up", Depth, "none", call.attempt, call.provider, call.compacted)
      BY <1>9, <2>1 DEF C!Send, C!Up
    <3>2. QED BY <1>9, <2>1, <3>1, NotSentKeeps DEF C!Send
  <2>2. CASE ~(path = "native" /\ stop)
    <3>1. call' = ACall("asking", call.level, call.outcome, call.attempt, call.provider, call.compacted)
      BY <1>9, <2>2 DEF C!Send
    <3>2. modelRequest' \in [asked : C!Providers, api : {apis[0], "openai"}, signed : BOOLEAN]
      <4>1. C!Asked \in C!Providers BY DEF C!Asked, CallTyped, C!Providers
      <4>2. (apis[0] = "anthropic") \in BOOLEAN BY Zenon
      <4>3. modelRequest' = [asked |-> C!Asked, api |-> apis[0], signed |-> apis[0] = "anthropic"]
        BY <1>9, <2>2, Zenon DEF C!Send
      <4>4. QED BY <4>1, <4>2, <4>3
    <3>3. QED BY <1>9, <2>2, <3>1, <3>2, RequestKeeps DEF C!Send
  <2>3. QED BY <2>1, <2>2
<1>10. ASSUME NEW answered \in {"response"} \cup C!Errors, C!Reply(answered) PROVE ModelInv'
  <2>1. call' = ACall("up", Depth, answered, call.attempt, call.provider, call.compacted)
    BY <1>10 DEF C!Reply, C!Up
  <2>2. QED BY <1>10, <2>1, ReplyKeeps DEF C!Reply
<1>11. CASE C!StripSignatures
  <2>1. /\ modelRequest' \in [asked : C!Providers, api : {apis[0], "openai"}, signed : BOOLEAN]
        /\ modelRequest.signed = TRUE /\ modelRequest'.signed = FALSE
    BY <1>11 DEF C!StripSignatures, ModelTyped
  <2>2. QED BY <1>11, <2>1, StripKeeps DEF C!StripSignatures
<1>12. CASE C!Cancel
  <2>1. call' = ACall("up", Depth, "none", call.attempt, call.provider, call.compacted)
    BY <1>12 DEF C!Cancel, C!Up
  <2>2. QED BY <1>12, <2>1, CancelKeeps DEF C!Cancel
<1>13. CASE C!Retry
  <2>0. call.mode = "up" /\ call.level = RetryAt BY <1>13 DEF C!Retry, C!Coming
  <2>1. CASE ~C!Raised \/ (~stop /\ call.attempt = Retries)
    <3>1. call' = ACall("up", call.level - 1, call.outcome, call.attempt, call.provider, call.compacted)
      BY <1>13, <2>1 DEF C!Retry, C!Up
    <3>2. QED BY <1>13, <2>0, <2>1, <3>1, AttemptsEndKeeps DEF C!Retry
  <2>2. CASE C!Raised /\ stop
    <3>1. call' = ACall("up", call.level - 1, "none", call.attempt, call.provider, call.compacted)
      BY <1>13, <2>2 DEF C!Retry, C!Up
    <3>2. QED BY <1>13, <2>0, <2>2, <3>1, AttemptsStopKeeps DEF C!Retry
  <2>3. CASE C!Raised /\ ~stop /\ call.attempt # Retries
    <3>1. call' = ACall("sleeping", call.level, call.outcome, call.attempt, call.provider, call.compacted)
      BY <1>13, <2>3 DEF C!Retry
    <3>2. QED BY <1>13, <2>0, <2>3, <3>1, SleepKeeps DEF C!Retry
  <2>4. QED BY <2>1, <2>2, <2>3
<1>14. CASE C!Wake
  <2>1. call' = ACall("head", call.level, call.outcome, call.attempt + 1, call.provider, call.compacted)
    BY <1>14 DEF C!Wake
  <2>2. QED BY <1>14, <2>1, WakeKeeps DEF C!Wake
<1>15. CASE C!Failover
  <2>0. /\ call.mode = "up" /\ call.level = FailoverAt
        /\ raised' = [raised EXCEPT ![call.provider] = call.outcome]
        /\ \/ call.provider # 0 /\ UNCHANGED <<breaker, misses, forgiven>>
           \/ call.provider = 0 /\ C!Raised /\ C!RecordFailure /\ misses' = misses + 1 /\ UNCHANGED forgiven
           \/ /\ call.provider = 0 /\ ~C!Raised /\ C!RecordSuccess
              /\ misses' = (IF call.outcome = "response" THEN 0 ELSE misses) /\ forgiven' = (forgiven \/ call.outcome = "none")
        /\ UNCHANGED <<path, chain, apis, modelRequest, stop, calls, modelSent, late>>
    BY <1>15 DEF C!Failover, C!Coming
  <2>1. CASE C!Raised /\ call.provider < Fallbacks /\ (call.provider = 0 => C!Triggers)
    <3>1. call' = ACall("down", call.level + 1, call.outcome, call.attempt, call.provider + 1, call.compacted)
      BY <1>15, <2>1 DEF C!Failover, C!Down, C!ApplyFallback
    <3>2. QED BY <2>0, <2>1, <3>1, GoOnKeeps
  <2>2. CASE ~(C!Raised /\ call.provider < Fallbacks /\ (call.provider = 0 => C!Triggers))
    <3>1. call' = ACall("up", call.level - 1, call.outcome, call.attempt, call.provider, call.compacted)
      BY <1>15, <2>2 DEF C!Failover, C!Up
    <3>2. ~C!Raised \/ call.provider >= Fallbacks \/ (call.provider = 0 /\ ~C!Triggers)
      BY <2>2 DEF CallTyped, C!Providers
    <3>3. QED BY <2>0, <3>1, <3>2, GiveUpKeeps
  <2>3. QED BY <2>1, <2>2
<1>16. ASSUME NEW works \in BOOLEAN, C!Compact(works) PROVE ModelInv'
  <2>0. call.mode = "up" /\ call.level = CompactionAt BY <1>16 DEF C!Compact, C!Coming
  <2>1. CASE works
    <3>1. call' = ACall("down", call.level + 1, call.outcome, call.attempt, call.provider, TRUE)
      BY <1>16, <2>1 DEF C!Compact, C!Down
    <3>2. QED BY <1>16, <2>0, <2>1, <3>1, CompactKeeps DEF C!Compact, C!Raised, C!Errors
  <2>2. CASE ~works
    <3>1. call' = ACall("up", call.level - 1, call.outcome, call.attempt, call.provider, call.compacted)
      BY <1>16, <2>2 DEF C!Compact, C!Up
    <3>2. QED BY <1>16, <2>0, <2>2, <3>1, NotCompactedKeeps DEF C!Compact
  <2>3. QED BY <2>1, <2>2
<1>17. CASE C!Finish
  <2>1. call' = ACall("idle", call.level, call.outcome, call.attempt, call.provider, call.compacted)
    BY <1>17 DEF C!Finish
  <2>2. QED BY <1>17, <2>1, FinishKeeps DEF C!Finish
<1>18. CASE UNCHANGED C!vars BY <1>18, StutterKeeps DEF C!vars
<1>19. QED BY <1>2, <1>3, <1>4, <1>5, <1>6, <1>7, <1>8, <1>9, <1>10, <1>11, <1>12, <1>13, <1>14, <1>15,
             <1>16, <1>17, <1>18 DEF C!Next, C!Step

\* At first nobody has been asked, and nobody has failed.
LEMMA NobodyReached ==
  ASSUME Once, C!Init
  PROVE  Reached
BY Assumed DEF Reached, C!Init, C!Idle, C!None, C!Errors, C!Providers

\* No step loses who was asked, nor lets one fail who was not.
LEMMA ReachedStays ==
  ASSUME Once, ModelInv, Reached, [C!Next]_C!vars
  PROVE  Reached'
<1>1. /\ Shape /\ Len(C!Frames) = Depth /\ ModelTyped /\ CallTyped /\ ModelPlaced
      /\ C!At("retry") <=> call.level = RetryAt
      /\ C!At("failover") <=> call.level = FailoverAt
      /\ C!At("compaction") <=> call.level = CompactionAt
      /\ Fallbacks \in Nat /\ Retries \in Nat \ {0}
  <2>1. ModelTyped /\ CallTyped /\ ModelPlaced BY DEF ModelInv, ModelTyped
  <2>2. QED BY <2>1, ModelShape DEF ModelFacts
<1>2. /\ call.level \in Nat /\ call.provider \in C!Providers /\ modelRequest.asked \in C!Providers
      /\ modelSent \in [C!Providers -> 0..Retries] /\ \A p \in C!Providers : modelSent[p] \in 0..Retries
      /\ raised \in [C!Providers -> {"nothing", "none", "response"} \cup C!Errors]
  BY <1>1 DEF CallTyped, ModelTyped, Shape
<1> USE <1>1, <1>2
<1>3. CASE C!Begin
  BY <1>3 DEF C!Begin, C!Idle, C!None, Reached, C!Errors
<1>4. CASE C!Send /\ ~(path = "native" /\ stop)
  <2>1. call' = [call EXCEPT !.mode = "asking"] /\ modelSent' = C!Counted(C!Asked) /\ UNCHANGED <<apis, raised>>
    BY <1>4 DEF C!Send
  <2>2. C!Asked \in C!Providers /\ (apis[0] # "gemini" => C!Asked = call.provider)
    BY DEF C!Asked, C!Providers
  <2>3. /\ modelSent'[C!Asked] > 0
        /\ \A p \in C!Providers : modelSent[p] > 0 => modelSent'[p] > 0
    BY <2>1, <2>2 DEF C!Counted
  <2>4. call'.mode = "asking" /\ call'.provider = call.provider
    BY <2>1 DEF CallTyped
  <2>5. QED BY <2>1, <2>2, <2>3, <2>4 DEF Reached
<1>5. CASE C!StripSignatures
  <2>1. call' = call /\ modelSent' = C!Counted(modelRequest.asked) /\ UNCHANGED <<path, chain, apis, raised>>
    BY <1>5 DEF C!StripSignatures
  <2>2. \A p \in C!Providers : modelSent[p] > 0 => modelSent'[p] > 0
    BY <2>1 DEF C!Counted
  <2>3. call.mode = "asking" BY <1>5 DEF C!StripSignatures
  <2>4. QED BY <2>1, <2>2, <2>3 DEF Reached
<1>6. CASE C!EnterFailover
  <2>1. /\ raised' = C!None /\ UNCHANGED <<path, chain, apis, modelSent>> /\ call.level = FailoverAt
        /\ call'.mode = "down" \/ (call'.mode = "up" /\ call'.level = FailoverAt - 1)
    BY <1>6 DEF C!EnterFailover, C!Going, C!Down, C!Up, C!ApplyFallback, CallTyped
  <2>2. FailoverAt' = FailoverAt BY <2>1, FramesStay
  <2>3. QED BY <2>1, <2>2 DEF Reached, C!None, C!Errors, Inside
<1>7. CASE C!Failover
  <2>1. /\ call.mode = "up" /\ call.level = FailoverAt /\ UNCHANGED <<path, chain, apis, modelSent>>
        /\ raised' = [raised EXCEPT ![call.provider] = call.outcome]
        /\ call'.mode = "down" \/ (call'.mode = "up" /\ call'.level = FailoverAt - 1)
    BY <1>7 DEF C!Failover, C!Coming, C!Down, C!Up, C!ApplyFallback, CallTyped
  <2>2. FailoverAt' = FailoverAt /\ FailoverAt # 5 BY <2>1, FramesStay DEF CallTyped, Shape
  <2>3. \A p \in C!Providers : raised'[p] = IF p = call.provider THEN call.outcome ELSE raised[p]
    BY <2>1
  <2>4. apis[0] # "gemini" /\ call.outcome \in C!Errors => modelSent[call.provider] > 0
    BY <2>1, <2>2 DEF Reached, Inside
  <2>5. apis'[0] # "gemini" => \A p \in C!Providers : raised'[p] \in C!Errors => modelSent'[p] > 0
    BY <2>1, <2>3, <2>4 DEF Reached
  <2>6. QED BY <2>1, <2>2, <2>5 DEF Reached, Inside
<1>8. ASSUME UNCHANGED <<path, chain, apis, modelSent, raised>>,
             \/ call'.mode \in {"idle", "down", "head", "sleeping"}
             \/ call' = call
             \/ call'.mode = "up" /\ call'.outcome \notin C!Errors
             \/ /\ call'.mode = "up" /\ call.mode = "up" /\ call'.level = call.level - 1
                /\ call'.outcome = call.outcome /\ call'.provider = call.provider
             \/ call'.mode = "up" /\ call.mode = "asking" /\ call'.provider = call.provider
      PROVE  Reached'
  <2>1. FailoverAt' = FailoverAt BY <1>8, FramesStay
  <2>2. call'.level = call.level - 1 /\ call'.level >= FailoverAt => call.level >= FailoverAt
    BY DEF Shape
  <2>3. apis'[0] # "gemini" => \A p \in C!Providers : raised'[p] \in C!Errors => modelSent'[p] > 0
    BY <1>8 DEF Reached
  <2>4. QED BY <1>8, <2>1, <2>2, <2>3 DEF Reached, Inside
<1>9. CASE \/ C!Stop \/ C!Recover \/ C!EnterRetry \/ C!Head1 \/ C!EnterCompaction \/ C!Cancel
           \/ C!Wake \/ C!Finish \/ UNCHANGED C!vars
  <2>1. CASE C!Stop \/ C!Recover \/ UNCHANGED C!vars
    BY <1>8, <2>1 DEF C!Stop, C!Recover, C!vars
  <2>2. CASE C!EnterRetry \/ C!EnterCompaction \/ C!Wake \/ C!Finish
    BY <1>8, <2>2 DEF C!EnterRetry, C!EnterCompaction, C!Wake, C!Finish, C!Down, CallTyped
  <2>3. CASE C!Head1
    BY <1>8, <2>3 DEF C!Head1, C!Up, C!Down, CallTyped, C!Errors
  <2>4. CASE C!Cancel
    BY <1>8, <2>4 DEF C!Cancel, C!Up, CallTyped, C!Errors
  <2>5. QED BY <1>9, <2>1, <2>2, <2>3, <2>4
<1>10. CASE C!Send /\ path = "native" /\ stop
  BY <1>8, <1>10 DEF C!Send, C!Up, CallTyped, C!Errors
<1>11. ASSUME NEW answered, C!Reply(answered) PROVE Reached'
  BY <1>8, <1>11 DEF C!Reply, C!Up, CallTyped
<1>12. CASE C!Retry
  BY <1>8, <1>12 DEF C!Retry, C!Coming, C!Up, C!Raised, CallTyped, C!Errors
<1>13. ASSUME NEW works \in BOOLEAN, C!Compact(works) PROVE Reached'
  BY <1>8, <1>13 DEF C!Compact, C!Coming, C!Down, C!Up, CallTyped
<1>14. QED
  BY <1>3, <1>4, <1>5, <1>6, <1>7, <1>9, <1>10, <1>11, <1>12, <1>13 DEF C!Next, C!Step

\* What the invariant says of a call that is over, and of the requests after a stop.
LEMMA ModelAsks ==
  ASSUME Once, ModelInv, Reached
  PROVE  C!GivesUpLast /\ C!StopEndsRequests /\ C!TypeOK
<1>1. /\ Shape /\ ModelTyped /\ CallTyped /\ ModelPlaced /\ Attempted /\ Passed /\ Late
      /\ Fallbacks \in Nat /\ Retries \in Nat \ {0}
      /\ C!HasFailover <=> FailoverAt # 5
      /\ (\E i \in DOMAIN chain : chain[i] = "compaction") <=> CompactionAt # 5
      /\ Len(C!Frames) = Depth
  BY ModelShape, ChainsAt DEF ModelFacts
<1> USE <1>1
<1>2. C!GivesUpLast
  <2> SUFFICES ASSUME C!Over PROVE C!GivesUpLast BY DEF C!GivesUpLast
  <2>1. call.outcome = "none" => stop BY DEF C!Over, Passed
  <2>2. C!Raised /\ ~C!HasFailover => modelSent[0] >= Retries
    BY DEF C!Over, C!Raised, Attempted, Counted, Failed
  <2>3. ASSUME C!Raised, C!HasFailover, apis[0] # "gemini"
        PROVE  \/ C!AskedInVain(0) /\ raised[0] # "outage"
               \/ \A p \in C!Providers \ {0} : C!AskedInVain(p)
    <3>1. GaveUp BY <2>3 DEF C!Over, C!Raised, Passed, Failed
    <3>2. \A p \in C!Providers : raised[p] \in C!Errors => C!AskedInVain(p)
      BY <2>3 DEF Reached, C!AskedInVain
    <3>3. QED BY <2>3, <3>1, <3>2 DEF GaveUp, C!Providers
  <2>4. C!HasFailover /\ path = "sync" /\ apis[0] # "gemini" =>
          \A p \in C!Providers : raised[p] \in C!Errors => modelSent[p] >= Retries
    BY DEF Attempted, Counted
  <2>5. QED BY <2>1, <2>2, <2>3, <2>4 DEF C!GivesUpLast
<1>3. C!StopEndsRequests
  <2> DEFINE All == Twofold(1 + Fallbacks, CompactionAt # 5)
  <2>0. call.level \in 0..4 /\ late \in Nat /\ Left \in {1, 2} BY ModelShape DEF ModelFacts
  <2>1. CASE path # "async" BY <2>0, <2>1 DEF Late, ModelTyped, C!StopEndsRequests, Twice
  <2>2. CASE path = "async"
    <3>a. /\ FailoverAt \in {2, 3, 5} /\ CompactionAt \in {2, 3, 5}
          /\ \/ FailoverAt = 5 /\ CompactionAt = 5
             \/ FailoverAt = 2 /\ CompactionAt = 5
             \/ FailoverAt = 5 /\ CompactionAt = 2
             \/ FailoverAt = 2 /\ CompactionAt = 3
             \/ FailoverAt = 3 /\ CompactionAt = 2
      BY <2>2 DEF Shape
    <3>b. call.provider \in 0..Fallbacks /\ call.compacted \in BOOLEAN BY DEF CallTyped, C!Providers
    <3>1. call.mode = "up" => Used + Size(call.level + 1) <= All
      <4>1. CASE FailoverAt = 5 /\ CompactionAt = 5
        BY <2>0, <3>b, <4>1 DEF Used, UsedAbove, UsedAgain, Twofold, Size, Inside
      <4>2. CASE FailoverAt = 2 /\ CompactionAt = 5
        BY <2>0, <3>b, <4>2 DEF Used, UsedAbove, UsedAgain, Twofold, Size, Inside
      <4>3. CASE FailoverAt = 5 /\ CompactionAt = 2
        BY <2>0, <3>b, <4>3 DEF Used, UsedAbove, UsedAgain, Twofold, Size, Inside
      <4>4. CASE FailoverAt = 2 /\ CompactionAt = 3
        BY <2>0, <3>b, <4>4, SMTT(20) DEF Used, UsedAbove, UsedAgain, Twofold, Size, Inside
      <4>5. CASE FailoverAt = 3 /\ CompactionAt = 2
        BY <2>0, <3>b, <4>5, SMTT(20) DEF Used, UsedAbove, UsedAgain, Twofold, Size, Inside
      <4>6. QED BY <3>a, <4>1, <4>2, <4>3, <4>4, <4>5
    <3>2. call.mode \in {"down", "asking"} => Used + 1 <= All
      <4>1. CASE FailoverAt = 5 /\ CompactionAt = 5
        BY <2>0, <3>b, <4>1 DEF Used, UsedAbove, UsedAgain, Twofold, Size, Inside
      <4>2. CASE FailoverAt = 2 /\ CompactionAt = 5
        BY <2>0, <3>b, <4>2 DEF Used, UsedAbove, UsedAgain, Twofold, Size, Inside
      <4>3. CASE FailoverAt = 5 /\ CompactionAt = 2
        BY <2>0, <3>b, <4>3 DEF Used, UsedAbove, UsedAgain, Twofold, Size, Inside
      <4>4. CASE FailoverAt = 2 /\ CompactionAt = 3
        BY <2>0, <3>b, <4>4, SMTT(20) DEF Used, UsedAbove, UsedAgain, Twofold, Size, Inside
      <4>5. CASE FailoverAt = 3 /\ CompactionAt = 2
        BY <2>0, <3>b, <4>5, SMTT(20) DEF Used, UsedAbove, UsedAgain, Twofold, Size, Inside
      <4>6. QED BY <3>a, <4>1, <4>2, <4>3, <4>4, <4>5
    <3>3. Size(1) <= All
      BY <2>0, <2>2 DEF Shape, Twofold, Size
    <3>4. Used \in Nat /\ All \in Nat /\ \A i \in 1..5 : Size(i) \in Nat
      BY <2>0, SMTT(20) DEF CallTyped, Used, UsedAbove, UsedAgain, Twofold, Size, C!Providers
    <3>5. late <= 2 * All
      <4> HIDE DEF All
      <4>1. Size(call.level + 1) \in Nat /\ Size(1) \in Nat
        <5>1. call.level + 1 \in 1..5 /\ 1 \in 1..5 BY <2>0
        <5>2. QED BY <3>4, <5>1
      <4>2. CASE call.mode = "up" BY <2>0, <2>2, <3>1, <3>4, <4>1, <4>2, SMTT(30) DEF Late
      <4>3. CASE call.mode = "down" BY <2>0, <2>2, <3>2, <3>4, <4>3 DEF Late
      <4>4. CASE call.mode = "asking" 
        <5>1. late <= 2 * Used + Left BY <2>2, <4>4 DEF Late, Twice
        <5>2. Used + 1 <= All BY <3>2, <4>4
        <5>3. QED BY <2>0, <3>4, <5>1, <5>2
      <4>5. CASE call.mode = "idle" BY <2>0, <2>2, <3>3, <3>4, <4>1, <4>5, SMTT(30) DEF Late
      <4>6. CASE call.mode \in {"head", "sleeping"} BY <2>0, <3>4, <4>6 DEF Late
      <4>7. QED BY <4>2, <4>3, <4>4, <4>5, <4>6 DEF CallTyped
    <3>6. All = (1 + Fallbacks) * (IF \E i \in DOMAIN chain : chain[i] = "compaction" THEN 2 ELSE 1)
      BY DEF Twofold
    <3>7. QED BY <2>2, <3>5, <3>6 DEF C!StopEndsRequests
  <2>3. QED BY <2>1, <2>2
<1>4. C!TypeOK BY DEF C!TypeOK, ModelTyped, CallTyped
<1>5. QED BY <1>2, <1>3, <1>4

\* No step asks a primary that has failed too often, where it is not Gemini's.
LEMMA StepSparesPrimary ==
  ASSUME Once, ModelInv, [C!Next]_C!vars
  PROVE  C!SparesPrimary
<1> SUFFICES ASSUME C!MustSpare, apis[0] # "gemini", C!TroublesPrimary
             PROVE  FALSE
  BY DEF C!SparesPrimary
<1>1. /\ Shape /\ ModelTyped /\ CallTyped /\ Spared /\ Len(C!Frames) = Depth /\ FailoverAt # 5
      /\ Threshold \in Nat \ {0}
  BY ModelShape, ChainsAt DEF ModelFacts, C!MustSpare
<1>2. C!Send /\ call.level = Depth + 1
  BY <1>1 DEF C!TroublesPrimary, C!Next, C!Step, C!vars, C!Begin, C!Stop, C!Recover, C!EnterRetry, C!Head1, C!EnterFailover,
       C!EnterCompaction, C!Send, C!Reply, C!StripSignatures, C!Cancel, C!Retry, C!Wake, C!Failover, C!Compact, C!Finish,
       C!Down, C!Up, C!ApplyFallback, C!Coming, C!Going, C!Idle, CallTyped
<1>3. call.provider = 0
  <2>1. ~(path = "native" /\ stop)
    <3> SUFFICES ASSUME path = "native", stop PROVE FALSE OBVIOUS
    <3>1. call' = C!Up(Len(C!Frames), "none") BY <1>2, Zenon DEF C!Send
    <3>2. call'.mode = "up" BY <1>1, <3>1 DEF C!Up, CallTyped
    <3>3. QED BY <3>2 DEF C!TroublesPrimary
  <2>2. modelRequest' = [asked |-> C!Asked, api |-> apis[0], signed |-> apis[0] = "anthropic"]
    BY <1>2, <2>1, Zenon DEF C!Send
  <2>3. C!Asked = 0 BY <2>2 DEF C!TroublesPrimary
  <2>4. QED BY <2>3 DEF C!Asked
<1>4. misses \in Nat BY <1>1 DEF ModelTyped
<1>5. QED BY <1>1, <1>2, <1>3, <1>4 DEF Spared, Inside, Shape, C!MustSpare, C!TroublesPrimary

\* A call of the model fails only behind everything that could have helped: all the attempts,
\* and all the fallback providers behind a trigger; a stop is not answered with another
\* round of requests; and a primary whose breaker is open is not asked before it may recover.
\* What it says of the failover is about primaries other than Gemini's.  It holds for every
\* number of providers, of attempts and of calls, on all three paths, whatever the providers
\* answer and whenever the stop comes (llm_caller.py, llm_failover.py).
THEOREM WhoMayHelpIsAsked ==
  ASSUME Once
  PROVE  Spec => AsksWhoMayHelp /\ [](part = "model" => C!TypeOK)
<1> DEFINE I == part = "model" => ModelInv /\ Reached
<1>1. Init => I
  BY OneBegins, ModelBegins, NobodyReached
<1>2. I /\ [Next]_vars => I'
  BY OneSteps, ModelStep, ReachedStays
<1>3. I /\ [Next]_vars => (part = "model" => C!SparesPrimary)
  BY OneSteps, StepSparesPrimary
<1>4. I => (part = "model" => C!GivesUpLast /\ C!StopEndsRequests) /\ (part = "model" => C!TypeOK)
  BY ModelAsks
<1>5. QED BY <1>1, <1>2, <1>3, <1>4, PTL DEF Spec, AsksWhoMayHelp

-----------------------------------------------------------------------------
(* Commands: a result speaks of the process it is about, and none is run twice. *)

\* The sandboxes the theorem is about: a repeated request gets there behind the one before it.
\* (One that overtakes the lost one may start a foreground command a second time.)
InTurn == ~Overtaking

\* The types.
Places == {"idle", "starting", "waiting", "polling", "ending", "output", "free", "looking", "judging", "ran", "returned"}
ACommand ==
    [kind : {"none", "exec", "task", "shell"}, pc : Places, late : BOOLEAN, done : BOOLEAN, whole : BOOLEAN, code : Int]
AStart == [at : {"sent", "past", "done"}, process : Nat]
AProcess == [state : {"running", "over", "ended"}, code : Int, noted : BOOLEAN]
ATask == [process : Nat, finished : BOOLEAN, code : Int, stream : {"up", "broken"}]
AnAnswer ==
    [status : {"none", "started", "failed", "success", "error", "timeout", "running", "unkilled", "killed", "stopped"},
     code : Int, whole : BOOLEAN]
CommandTyped ==
    /\ engine \in {"local", "remote"} /\ commandStopping \in BOOLEAN /\ faults \in 0..MaxFaults
    /\ commandCall \in [Calls -> ACommand]
    /\ requests \in [Calls -> Seq(AStart)]
    /\ procs \in [Calls -> Seq(AProcess)]
    /\ DOMAIN tasks \subseteq Calls /\ tasks \in [DOMAIN tasks -> ATask]
    /\ answer \in [Calls -> AnAnswer]
    /\ outages \subseteq Calls

\* A process of a call has ended, with a code, or all of them have.
Over(k, n) == procs[k][n].state = "ended"
Came(k, code) == \E n \in DOMAIN procs[k] : Over(k, n) /\ procs[k][n].code = code
Noted(k) == \E n \in DOMAIN procs[k] : Over(k, n) /\ procs[k][n].noted
Gone(k) == \A n \in DOMAIN procs[k] : Over(k, n)
Early(k) == commandCall[k].pc \in {"idle", "starting", "waiting"}
Hit(k) == k \in outages
Tracked(k) == k \in DOMAIN tasks

\* Where a call may be, and what it has by then.
PlacedAt(k, pc, does) ==
    /\ pc = "idle" <=> does = "none"
    /\ pc = "idle" => requests[k] = <<>>
    /\ pc = "idle" \/ (engine = "local" /\ pc = "starting") => procs[k] = <<>>
    /\ engine = "local" => requests[k] = <<>> /\ Len(procs[k]) <= 1 /\ pc \notin {"waiting", "ending", "output"}
    /\ pc \in {"polling", "ending", "output"} => does = "exec" /\ procs[k] # <<>>
    /\ pc \in {"free", "looking", "judging", "ran"} => does \in {"task", "shell"} /\ procs[k] # <<>>
    /\ pc \in {"looking", "judging"} \/ (does = "shell" /\ pc \in {"free", "ran"}) => Tracked(k)
    /\ pc = "ran" => does = "shell"
    /\ Tracked(k) => does \in {"task", "shell"} /\ pc \notin {"idle", "starting", "waiting"}
Placed(k) == PlacedAt(k, commandCall[k].pc, commandCall[k].kind)

\* The start requests: of a foreground command only the first to get there starts a process,
\* and the one process of a call that no fault has hit is there when its start has returned.
Starts(k) ==
    /\ \A i \in DOMAIN requests[k] :
        /\ i < Len(requests[k]) => requests[k][i].at = "done"
        /\ requests[k][i].at = "done" => procs[k] # <<>> /\ (commandCall[k].kind # "exec" => requests[k][i].process \in DOMAIN procs[k])
        /\ requests[k][i].at = "past" /\ commandCall[k].kind = "exec" => procs[k] = <<>>
    /\ commandCall[k].pc = "waiting" => requests[k] # <<>>
    /\ commandCall[k].kind = "exec" => Len(procs[k]) <= 1
    /\ ~Hit(k) =>
        /\ Len(requests[k]) <= 1 /\ Len(procs[k]) <= 1
        /\ commandCall[k].pc = "starting" => requests[k] = <<>>
        /\ \A i \in DOMAIN requests[k] : requests[k][i].at # "done" => procs[k] = <<>> /\ commandCall[k].pc = "waiting"
        /\ requests[k] = <<>> /\ engine = "remote" => procs[k] = <<>>

\* What is known of the processes: at the end of the polling, in the entry of a task and
\* in what the task tool or the shell tool has read of it.
Learnt(k) ==
    /\ \A n \in DOMAIN procs[k] : ~procs[k][n].noted => Over(k, n) /\ Hit(k)
    /\ commandCall[k].pc = "ending" /\ ~commandCall[k].late => Noted(k) \/ Hit(k)
    /\ commandCall[k].pc = "output" => Came(k, commandCall[k].code) \/ (commandCall[k].code = K!Unknown /\ Hit(k))
    /\ Tracked(k) =>
        /\ tasks[k].process \in DOMAIN procs[k]
        /\ tasks[k].finished =>
             /\ Over(k, tasks[k].process)
             /\ tasks[k].code = procs[k][tasks[k].process].code \/ (tasks[k].code = K!Unknown /\ Hit(k))
        /\ ~tasks[k].finished => tasks[k].code = K!Unknown
        /\ tasks[k].stream = "broken" => Hit(k) /\ tasks[k].code = K!Unknown
        /\ commandCall[k].pc \in {"looking", "judging"} /\ commandCall[k].done => tasks[k].finished
        /\ commandCall[k].pc = "judging" /\ commandCall[k].done => commandCall[k].whole \/ Hit(k)

\* The results are true, and the final ones of a task are those of its entry.
Truthful(k) ==
    /\ answer[k].status # "none" => ~Early(k)
    /\ answer[k].status = "success" => answer[k].code = 0
    /\ answer[k].status \in K!Final =>
        /\ Came(k, answer[k].code) \/ (answer[k].code = K!Unknown /\ Hit(k))
        /\ engine = "remote" => answer[k].whole \/ Hit(k)
        /\ commandCall[k].pc # "returned" =>
            /\ commandCall[k].kind = "task" /\ Tracked(k) /\ tasks[k].finished
            /\ tasks[k].code = answer[k].code /\ answer[k].status = K!ByCode(tasks[k].code)
            /\ commandCall[k].pc \in {"looking", "judging"} => commandCall[k].done
    /\ answer[k].status \in {"stopped", "killed"} \/ (answer[k].status = "timeout" /\ commandCall[k].kind # "exec") =>
        Hit(k) \/ Gone(k)

\* The invariant.
Sound(k) == Placed(k) /\ Starts(k) /\ Learnt(k) /\ Truthful(k)
CommandInv == CommandTyped /\ \A k \in Calls : Sound(k)

\* A step that is of one call only, and keeps the types.
Same(j) ==
    /\ commandCall'[j] = commandCall[j] /\ requests'[j] = requests[j] /\ procs'[j] = procs[j]
    /\ answer'[j] = answer[j]
    /\ Tracked(j)' <=> Tracked(j)
    /\ Tracked(j) => tasks'[j] = tasks[j]
    /\ Hit(j)' <=> Hit(j)
OnlyFor(k) ==
    /\ engine' = engine /\ CommandTyped'
    /\ \A j \in Calls \ {k} : Same(j)

\* It keeps the invariant when it does for its call.
LEMMA OneSound ==
  ASSUME CommandInv, NEW k \in Calls, OnlyFor(k), Sound(k)'
  PROVE  CommandInv'
<1>1. SUFFICES ASSUME NEW j \in Calls \ {k} PROVE Sound(j)'
  BY DEF CommandInv, OnlyFor
<1>2. Sound(j) /\ Same(j) /\ engine' = engine BY DEF CommandInv, OnlyFor
<1>3. Placed(j)' BY <1>2 DEF Sound, Same, Placed, PlacedAt
<1>4. Starts(j)' BY <1>2 DEF Sound, Same, Starts
<1>5. Learnt(j)' BY <1>2 DEF Sound, Same, Learnt, Over, Came, Noted
<1>6. Truthful(j)' BY <1>2 DEF Sound, Same, Truthful, Over, Came, Gone, Early
<1>7. QED BY <1>3, <1>4, <1>5, <1>6 DEF Sound

\* What a lemma about the step of a call starts from.
CallFacts(k) ==
    /\ commandCall[k] \in ACommand /\ requests[k] \in Seq(AStart) /\ procs[k] \in Seq(AProcess)
    /\ answer[k] \in AnAnswer /\ (Tracked(k) => tasks[k] \in ATask)
    /\ engine \in {"local", "remote"} /\ MaxFaults \in Nat
    /\ Placed(k) /\ Starts(k) /\ Learnt(k) /\ Truthful(k)

\* They follow from the invariant.
LEMMA CallFactsHold ==
  ASSUME CommandInv, NEW k \in Calls
  PROVE  CallFacts(k)
BY Assumed DEF CommandInv, CommandTyped, Sound, CallFacts, Tracked, K!CommandsAssumption

\* A step that changes nothing but where the call is, and perhaps that a fault has hit it.
LEMMA CallMoves ==
  ASSUME CommandInv, NEW k \in Calls,
         commandCall' = [commandCall EXCEPT ![k] = commandCall'[k]], commandCall'[k] \in ACommand,
         faults' \in 0..MaxFaults, outages' \in {outages, outages \cup {k}},
         UNCHANGED <<engine, requests, procs, tasks, answer, commandStopping>>
  PROVE  OnlyFor(k)
BY DEF CommandInv, CommandTyped, OnlyFor, Same, Tracked, Hit

\* A call begins.
LEMMA BeginCommand ==
  ASSUME CommandInv, NEW k \in Calls, NEW does \in {"exec", "task", "shell"}, K!Begin(k, does)
  PROVE  CommandInv'
<1>1. CallFacts(k) BY CallFactsHold
<1>2. commandCall[k].pc = "idle"
  BY <1>1 DEF CallFacts, K!Begin, K!At
<1>3. /\ commandCall' = [commandCall EXCEPT ![k] = commandCall'[k]] /\ commandCall'[k] \in ACommand
      /\ commandCall'[k].kind = does /\ commandCall'[k].pc = "starting"
      /\ commandCall'[k].late = commandCall[k].late /\ commandCall'[k].done = commandCall[k].done
      /\ commandCall'[k].whole = commandCall[k].whole /\ commandCall'[k].code = commandCall[k].code
  BY <1>1 DEF CallFacts, CommandInv, CommandTyped, ACommand, ATask, Places, K!Begin, K!At
<1>4. UNCHANGED <<engine, requests, procs, tasks, answer, commandStopping>>
  BY DEF K!Begin, K!At
<1>5. faults' \in 0..MaxFaults /\ outages' \in {outages, outages \cup {k}}
  BY <1>1 DEF CallFacts, CommandInv, CommandTyped, K!Begin, K!At
<1>6. OnlyFor(k) BY <1>3, <1>4, <1>5, CallMoves
<1>7. Hit(k) => Hit(k)' BY <1>5 DEF Hit
<1> USE <1>1, <1>2, <1>3, <1>4, <1>7 DEF CallFacts, Tracked
<1>8. Placed(k)' BY DEF Placed, PlacedAt
<1>9. Starts(k)' BY DEF Starts, Placed, PlacedAt
<1>10. Learnt(k)' BY DEF Learnt, Placed, PlacedAt, Over, Came, Noted
<1>11. Truthful(k)' BY DEF Truthful, Learnt, Placed, PlacedAt, Over, Came, Gone, Early
<1>12. QED BY <1>6, <1>8, <1>9, <1>10, <1>11, OneSound DEF Sound

\* The status command sees an end.
LEMMA PollKeeps ==
  ASSUME CommandInv, NEW k \in Calls, K!Poll(k)
  PROVE  CommandInv'
<1>1. CallFacts(k) BY CallFactsHold
<1>2. engine = "remote" /\ commandCall[k].pc = "polling" /\ (K!ExitCodes(k) # {} \/ K!Dead(k))
  BY <1>1 DEF CallFacts, K!Poll, K!At, K!Goto, K!NoFault
<1>3. /\ commandCall' = [commandCall EXCEPT ![k] = commandCall'[k]] /\ commandCall'[k] \in ACommand
      /\ commandCall'[k].pc = "ending" /\ commandCall'[k].kind = commandCall[k].kind
      /\ commandCall'[k].late = commandCall[k].late /\ commandCall'[k].done = commandCall[k].done
      /\ commandCall'[k].whole = commandCall[k].whole /\ commandCall'[k].code = commandCall[k].code
  BY <1>1 DEF CallFacts, CommandInv, CommandTyped, ACommand, ATask, Places, K!Poll, K!At, K!Goto, K!NoFault
<1>4. UNCHANGED <<engine, requests, procs, tasks, answer, commandStopping>>
  BY DEF K!Poll, K!At, K!Goto, K!NoFault
<1>5. faults' \in 0..MaxFaults /\ outages' \in {outages, outages \cup {k}}
  BY <1>1 DEF CallFacts, CommandInv, CommandTyped, K!Poll, K!At, K!Goto, K!NoFault
<1>6. OnlyFor(k) BY <1>3, <1>4, <1>5, CallMoves
<1>7. Hit(k) => Hit(k)' BY <1>5 DEF Hit
<1> USE <1>1, <1>2, <1>3, <1>4, <1>7 DEF CallFacts, Tracked
<1>8. Placed(k)' BY DEF Placed, PlacedAt
<1>9. Starts(k)' BY DEF Starts, Placed, PlacedAt
<1>10. Learnt(k)' BY DEF Learnt, Placed, PlacedAt, Over, Came, Noted, K!ExitCodes, K!Dead, K!Running
<1>11. Truthful(k)' BY DEF Truthful, Learnt, Placed, PlacedAt, Over, Came, Gone, Early
<1>12. QED BY <1>6, <1>8, <1>9, <1>10, <1>11, OneSound DEF Sound

\* The polling reaches its deadline.
LEMMA GiveUpPollKeeps ==
  ASSUME CommandInv, NEW k \in Calls, K!GiveUp(k)
  PROVE  CommandInv'
<1>1. CallFacts(k) BY CallFactsHold
<1>2. engine = "remote" /\ commandCall[k].pc = "polling"
  BY <1>1 DEF CallFacts, K!GiveUp, K!At, K!Request, K!NoFault, K!Fault
<1>3. /\ commandCall' = [commandCall EXCEPT ![k] = commandCall'[k]] /\ commandCall'[k] \in ACommand
      /\ commandCall'[k].pc = "ending" /\ commandCall'[k].late = TRUE
      /\ commandCall'[k].kind = commandCall[k].kind /\ commandCall'[k].done = commandCall[k].done
      /\ commandCall'[k].whole = commandCall[k].whole /\ commandCall'[k].code = commandCall[k].code
  BY <1>1 DEF CallFacts, CommandInv, CommandTyped, ACommand, ATask, Places, K!GiveUp, K!At, K!Request, K!NoFault, K!Fault
<1>4. UNCHANGED <<engine, requests, procs, tasks, answer, commandStopping>>
  BY DEF K!GiveUp, K!At, K!Request, K!NoFault, K!Fault
<1>5. faults' \in 0..MaxFaults /\ outages' \in {outages, outages \cup {k}}
  BY <1>1 DEF CallFacts, CommandInv, CommandTyped, K!GiveUp, K!At, K!Request, K!NoFault, K!Fault
<1>6. OnlyFor(k) BY <1>3, <1>4, <1>5, CallMoves
<1>7. Hit(k) => Hit(k)' BY <1>5 DEF Hit
<1> USE <1>1, <1>2, <1>3, <1>4, <1>7 DEF CallFacts, Tracked
<1>8. Placed(k)' BY DEF Placed, PlacedAt
<1>9. Starts(k)' BY DEF Starts, Placed, PlacedAt
<1>10. Learnt(k)' BY DEF Learnt, Placed, PlacedAt, Over, Came, Noted
<1>11. Truthful(k)' BY DEF Truthful, Learnt, Placed, PlacedAt, Over, Came, Gone, Early
<1>12. QED BY <1>6, <1>8, <1>9, <1>10, <1>11, OneSound DEF Sound

\* A status is asked for.
LEMMA AskStatusKeeps ==
  ASSUME CommandInv, NEW k \in Calls, K!AskStatus(k)
  PROVE  CommandInv'
<1>1. CallFacts(k) BY CallFactsHold
<1>2. commandCall[k].pc = "free" /\ Tracked(k)
  BY <1>1 DEF CallFacts, K!AskStatus, K!At, Tracked
<1>3. /\ commandCall' = [commandCall EXCEPT ![k] = commandCall'[k]] /\ commandCall'[k] \in ACommand
      /\ commandCall'[k].pc = "looking" /\ commandCall'[k].done = tasks[k].finished
      /\ commandCall'[k].kind = commandCall[k].kind /\ commandCall'[k].late = commandCall[k].late
      /\ commandCall'[k].whole = commandCall[k].whole /\ commandCall'[k].code = commandCall[k].code
  BY <1>1 DEF CallFacts, CommandInv, CommandTyped, ACommand, ATask, Places, K!AskStatus, K!At, Tracked
<1>4. UNCHANGED <<engine, requests, procs, tasks, answer, commandStopping>>
  BY DEF K!AskStatus, K!At, Tracked
<1>5. faults' \in 0..MaxFaults /\ outages' \in {outages, outages \cup {k}}
  BY <1>1 DEF CallFacts, CommandInv, CommandTyped, K!AskStatus, K!At, Tracked
<1>6. OnlyFor(k) BY <1>3, <1>4, <1>5, CallMoves
<1>7. Hit(k) => Hit(k)' BY <1>5 DEF Hit
<1> USE <1>1, <1>2, <1>3, <1>4, <1>7 DEF CallFacts, Tracked
<1>8. Placed(k)' BY DEF Placed, PlacedAt
<1>9. Starts(k)' BY DEF Starts, Placed, PlacedAt
<1>10. Learnt(k)' BY DEF Learnt, Placed, PlacedAt, Over, Came, Noted
<1>11. Truthful(k)' BY DEF Truthful, Learnt, Placed, PlacedAt, Over, Came, Gone, Early
<1>12. QED BY <1>6, <1>8, <1>9, <1>10, <1>11, OneSound DEF Sound

\* The output is read.
LEMMA LookKeeps ==
  ASSUME CommandInv, NEW k \in Calls, NEW works \in BOOLEAN, K!Look(k, works)
  PROVE  CommandInv'
<1>1. CallFacts(k) BY CallFactsHold
<1>2. commandCall[k].pc = "looking" /\ (works \/ Hit(k)')
  BY <1>1 DEF CallFacts, K!Look, K!At, K!Request, K!NoFault, K!Fault, K!Running, Hit
<1>3. /\ commandCall' = [commandCall EXCEPT ![k] = commandCall'[k]] /\ commandCall'[k] \in ACommand
      /\ commandCall'[k].pc = "judging"
      /\ commandCall'[k].whole = (works /\ procs[k][tasks[k].process].state = "ended")
      /\ commandCall'[k].kind = commandCall[k].kind /\ commandCall'[k].late = commandCall[k].late
      /\ commandCall'[k].done = commandCall[k].done /\ commandCall'[k].code = commandCall[k].code
  BY <1>1 DEF CallFacts, CommandInv, CommandTyped, ACommand, ATask, Places, K!Look, K!At, K!Request, K!NoFault, K!Fault, K!Running, Hit
<1>4. UNCHANGED <<engine, requests, procs, tasks, answer, commandStopping>>
  BY DEF K!Look, K!At, K!Request, K!NoFault, K!Fault, K!Running, Hit
<1>5. faults' \in 0..MaxFaults /\ outages' \in {outages, outages \cup {k}}
  BY <1>1 DEF CallFacts, CommandInv, CommandTyped, K!Look, K!At, K!Request, K!NoFault, K!Fault, K!Running, Hit
<1>6. OnlyFor(k) BY <1>3, <1>4, <1>5, CallMoves
<1>7. Hit(k) => Hit(k)' BY <1>5 DEF Hit
<1> USE <1>1, <1>2, <1>3, <1>4, <1>7 DEF CallFacts, Tracked
<1>8. Placed(k)' BY DEF Placed, PlacedAt
<1>9. Starts(k)' BY DEF Starts, Placed, PlacedAt
<1>10. Learnt(k)' BY DEF Learnt, Placed, PlacedAt, Over, Came, Noted
<1>11. Truthful(k)' BY DEF Truthful, Learnt, Placed, PlacedAt, Over, Came, Gone, Early
<1>12. QED BY <1>6, <1>8, <1>9, <1>10, <1>11, OneSound DEF Sound

\* The time of a shell command runs out.
LEMMA OverdueKeeps ==
  ASSUME CommandInv, NEW k \in Calls, K!Overdue(k)
  PROVE  CommandInv'
<1>1. CallFacts(k) BY CallFactsHold
<1>2. commandCall[k].pc \in {"free", "looking", "judging", "ran"}
  BY <1>1 DEF CallFacts, K!Overdue
<1>3. /\ commandCall' = [commandCall EXCEPT ![k] = commandCall'[k]] /\ commandCall'[k] \in ACommand
      /\ commandCall'[k].late = TRUE /\ commandCall'[k].kind = commandCall[k].kind
      /\ commandCall'[k].pc = commandCall[k].pc /\ commandCall'[k].done = commandCall[k].done
      /\ commandCall'[k].whole = commandCall[k].whole /\ commandCall'[k].code = commandCall[k].code
  BY <1>1 DEF CallFacts, CommandInv, CommandTyped, ACommand, ATask, Places, K!Overdue
<1>4. UNCHANGED <<engine, requests, procs, tasks, answer, commandStopping>>
  BY DEF K!Overdue
<1>5. faults' \in 0..MaxFaults /\ outages' \in {outages, outages \cup {k}}
  BY <1>1 DEF CallFacts, CommandInv, CommandTyped, K!Overdue
<1>6. OnlyFor(k) BY <1>3, <1>4, <1>5, CallMoves
<1>7. Hit(k) => Hit(k)' BY <1>5 DEF Hit
<1> USE <1>1, <1>2, <1>3, <1>4, <1>7 DEF CallFacts, Tracked
<1>8. Placed(k)' BY DEF Placed, PlacedAt
<1>9. Starts(k)' BY DEF Starts, Placed, PlacedAt
<1>10. Learnt(k)' BY DEF Learnt, Placed, PlacedAt, Over, Came, Noted
<1>11. Truthful(k)' BY DEF Truthful, Learnt, Placed, PlacedAt, Over, Came, Gone, Early
<1>12. QED BY <1>6, <1>8, <1>9, <1>10, <1>11, OneSound DEF Sound

\* The shell tool goes for another round.
LEMMA AgainKeeps ==
  ASSUME CommandInv, NEW k \in Calls, K!Again(k)
  PROVE  CommandInv'
<1>1. CallFacts(k) BY CallFactsHold
<1>2. commandCall[k].pc = "ran"
  BY <1>1 DEF CallFacts, K!Again, K!At, K!Goto, K!NoFault
<1>3. /\ commandCall' = [commandCall EXCEPT ![k] = commandCall'[k]] /\ commandCall'[k] \in ACommand
      /\ commandCall'[k].pc = "free" /\ commandCall'[k].kind = commandCall[k].kind
      /\ commandCall'[k].late = commandCall[k].late /\ commandCall'[k].done = commandCall[k].done
      /\ commandCall'[k].whole = commandCall[k].whole /\ commandCall'[k].code = commandCall[k].code
  BY <1>1 DEF CallFacts, CommandInv, CommandTyped, ACommand, ATask, Places, K!Again, K!At, K!Goto, K!NoFault
<1>4. UNCHANGED <<engine, requests, procs, tasks, answer, commandStopping>>
  BY DEF K!Again, K!At, K!Goto, K!NoFault
<1>5. faults' \in 0..MaxFaults /\ outages' \in {outages, outages \cup {k}}
  BY <1>1 DEF CallFacts, CommandInv, CommandTyped, K!Again, K!At, K!Goto, K!NoFault
<1>6. OnlyFor(k) BY <1>3, <1>4, <1>5, CallMoves
<1>7. Hit(k) => Hit(k)' BY <1>5 DEF Hit
<1> USE <1>1, <1>2, <1>3, <1>4, <1>7 DEF CallFacts, Tracked
<1>8. Placed(k)' BY DEF Placed, PlacedAt
<1>9. Starts(k)' BY DEF Starts, Placed, PlacedAt
<1>10. Learnt(k)' BY DEF Learnt, Placed, PlacedAt, Over, Came, Noted
<1>11. Truthful(k)' BY DEF Truthful, Learnt, Placed, PlacedAt, Over, Came, Gone, Early
<1>12. QED BY <1>6, <1>8, <1>9, <1>10, <1>11, OneSound DEF Sound

\* The reply to a start is lost.
LEMMA LoseReplyKeeps ==
  ASSUME CommandInv, NEW k \in Calls, K!LoseReply(k)
  PROVE  CommandInv'
<1>1. CallFacts(k) BY CallFactsHold
<1>2. commandCall[k].pc = "waiting" /\ Hit(k)'
  BY <1>1 DEF CallFacts, K!LoseReply, K!At, K!Goto, K!Fault, Hit
<1>3. /\ commandCall' = [commandCall EXCEPT ![k] = commandCall'[k]] /\ commandCall'[k] \in ACommand
      /\ commandCall'[k].pc = "starting" /\ commandCall'[k].kind = commandCall[k].kind
      /\ commandCall'[k].late = commandCall[k].late /\ commandCall'[k].done = commandCall[k].done
      /\ commandCall'[k].whole = commandCall[k].whole /\ commandCall'[k].code = commandCall[k].code
  BY <1>1 DEF CallFacts, CommandInv, CommandTyped, ACommand, ATask, Places, K!LoseReply, K!At, K!Goto, K!Fault, Hit
<1>4. UNCHANGED <<engine, requests, procs, tasks, answer, commandStopping>>
  BY DEF K!LoseReply, K!At, K!Goto, K!Fault, Hit
<1>5. faults' \in 0..MaxFaults /\ outages' \in {outages, outages \cup {k}}
  BY <1>1 DEF CallFacts, CommandInv, CommandTyped, K!LoseReply, K!At, K!Goto, K!Fault, Hit
<1>6. OnlyFor(k) BY <1>3, <1>4, <1>5, CallMoves
<1>7. Hit(k) => Hit(k)' BY <1>5 DEF Hit
<1> USE <1>1, <1>2, <1>3, <1>4, <1>7 DEF CallFacts, Tracked
<1>8. Placed(k)' BY DEF Placed, PlacedAt
<1>9. Starts(k)' BY DEF Starts, Placed, PlacedAt
<1>10. Learnt(k)' BY DEF Learnt, Placed, PlacedAt, Over, Came, Noted
<1>11. Truthful(k)' BY DEF Truthful, Learnt, Placed, PlacedAt, Over, Came, Gone, Early
<1>12. QED BY <1>6, <1>8, <1>9, <1>10, <1>11, OneSound DEF Sound

\* A process that had not ended moves, ends, or is killed from outside.
LEMMA ProcessMoves ==
  ASSUME CommandInv, NEW k \in Calls, NEW n \in DOMAIN procs[k], NEW p \in AProcess,
         procs[k][n].state # "ended",
         procs' = [procs EXCEPT ![k] = [procs[k] EXCEPT ![n] = p]],
         faults' \in 0..MaxFaults, outages' \in {outages, outages \cup {k}},
         p.noted \/ (p.state = "ended" /\ k \in outages'),
         UNCHANGED <<engine, commandCall, requests, tasks, answer, commandStopping>>
  PROVE  CommandInv'
<1>1. CallFacts(k) BY CallFactsHold
<1>2. /\ procs'[k] \in Seq(AProcess) /\ Len(procs'[k]) = Len(procs[k]) /\ DOMAIN procs'[k] = DOMAIN procs[k]
      /\ \A i \in DOMAIN procs[k] : procs'[k][i] = IF i = n THEN p ELSE procs[k][i]
      /\ procs'[k] # <<>> /\ procs[k] # <<>>
  BY <1>1, ReplaceFacts DEF CallFacts, CommandInv, CommandTyped
<1>3. OnlyFor(k)
  BY <1>2 DEF CommandInv, CommandTyped, OnlyFor, Same, Tracked, Hit
<1>4. Hit(k) => Hit(k)' BY DEF Hit
<1>5. \A i \in DOMAIN procs[k] : Over(k, i) => i # n /\ Over(k, i)' /\ procs'[k][i] = procs[k][i]
  BY <1>2 DEF Over
<1>6. /\ Noted(k) => Noted(k)'
      /\ Gone(k) => Gone(k)'
      /\ \A code \in Int : Came(k, code) => Came(k, code)'
  <2>1. Noted(k) => Noted(k)' BY <1>2, <1>5 DEF Noted
  <2>2. Gone(k) => Gone(k)' BY <1>2, <1>5 DEF Gone
  <2>3. \A code \in Int : Came(k, code) => Came(k, code)' BY <1>2, <1>5 DEF Came
  <2>4. QED BY <2>1, <2>2, <2>3
<1> USE <1>1, <1>2, <1>4, <1>5, <1>6 DEF CallFacts, Tracked
<1>7. Placed(k)' BY DEF Placed, PlacedAt
<1>8. Starts(k)' BY DEF Starts, Placed, PlacedAt
<1>9. Learnt(k)' BY DEF Learnt, Hit, Over, ACommand, ATask
<1>10. Truthful(k)' BY DEF Truthful, Early, AnAnswer
<1>11. QED BY <1>3, <1>7, <1>8, <1>9, <1>10, OneSound DEF Sound

\* The processes: they end, run out of their time, or are killed from outside.
LEMMA ProcessKeeps ==
  ASSUME CommandInv, NEW k \in Calls, NEW n \in DOMAIN procs[k], NEW code \in Int,
         K!Exit(k, n, code) \/ K!KilledOutside(k, n) \/ K!TimeUp(k, n) \/ K!Overrun(k, n, code)
  PROVE  CommandInv'
<1>1. /\ procs[k] \in Seq(AProcess) /\ procs[k][n] \in AProcess /\ procs \in [Calls -> Seq(AProcess)]
      /\ (procs[k][n].state # "ended" => procs[k][n].noted) /\ MaxFaults \in Nat /\ faults \in 0..MaxFaults
  BY CallFactsHold DEF CallFacts, Learnt, Over, CommandInv, CommandTyped
<1> DEFINE e == [procs[k][n] EXCEPT !.state = "ended", !.code = code]
           o == [procs[k][n] EXCEPT !.state = "over"]
           x == [state |-> "ended", code |-> 137, noted |-> FALSE]
<1>2. /\ e \in AProcess /\ e.state = "ended" /\ e.noted = procs[k][n].noted
      /\ o \in AProcess /\ o.noted = procs[k][n].noted
      /\ x \in AProcess /\ x.state = "ended"
  <2>1. e \in AProcess BY <1>1 DEF AProcess
  <2>2. e.state = "ended" /\ e.noted = procs[k][n].noted BY <1>1 DEF AProcess
  <2>3. o \in AProcess BY <1>1 DEF AProcess
  <2>4. o.noted = procs[k][n].noted BY <1>1 DEF AProcess
  <2>5. x \in AProcess BY DEF AProcess
  <2>6. x.state = "ended" OBVIOUS
  <2>7. QED BY <2>1, <2>2, <2>3, <2>4, <2>5, <2>6
<1>3. /\ procs' = [procs EXCEPT ![k][n] = e] => procs' = [procs EXCEPT ![k] = [procs[k] EXCEPT ![n] = e]]
      /\ procs' = [procs EXCEPT ![k][n] = o] => procs' = [procs EXCEPT ![k] = [procs[k] EXCEPT ![n] = o]]
      /\ procs' = [procs EXCEPT ![k][n] = x] => procs' = [procs EXCEPT ![k] = [procs[k] EXCEPT ![n] = x]]
  OBVIOUS
<1>4. CASE K!Exit(k, n, code)
  <2>1. procs' = [procs EXCEPT ![k][n] = e] BY <1>4 DEF K!Exit, K!Ended
  <2> HIDE DEF e
  <2>2. QED BY <1>1, <1>2, <1>3, <1>4, <2>1, ProcessMoves DEF K!Exit
<1>5. CASE K!KilledOutside(k, n)
  <2>1. procs' = [procs EXCEPT ![k][n] = x] BY <1>5 DEF K!KilledOutside
  <2>2. faults' \in 0..MaxFaults /\ outages' = outages \cup {k} BY <1>1, <1>5 DEF K!KilledOutside, K!Fault
  <2> HIDE DEF x
  <2>3. QED BY <1>1, <1>2, <1>3, <1>5, <2>1, <2>2, ProcessMoves DEF K!KilledOutside, K!Running
<1>6. CASE K!TimeUp(k, n)
  <2>1. procs' = [procs EXCEPT ![k][n] = o] BY <1>6 DEF K!TimeUp
  <2> HIDE DEF o
  <2>2. QED BY <1>1, <1>2, <1>3, <1>6, <2>1, ProcessMoves DEF K!TimeUp
<1>7. CASE K!Overrun(k, n, code)
  <2>1. procs' = [procs EXCEPT ![k][n] = e] BY <1>7 DEF K!Overrun, K!Ended
  <2> HIDE DEF e
  <2>2. QED BY <1>1, <1>2, <1>3, <1>7, <2>1, ProcessMoves DEF K!Overrun
<1>8. QED BY <1>4, <1>5, <1>6, <1>7

\* A start that has returned: the call goes on, and a background process has an entry.
LEMMA LaunchedFacts ==
  ASSUME CommandInv, NEW k \in Calls, NEW n \in Nat, K!Launched(k, n), Early(k)
  PROVE  /\ commandCall' = [commandCall EXCEPT ![k] = commandCall'[k]] /\ commandCall'[k] \in ACommand
         /\ commandCall'[k].kind = commandCall[k].kind
         /\ commandCall'[k].pc = IF commandCall[k].kind \in {"task", "shell"} THEN "free" ELSE "polling"
         /\ answer' = [answer EXCEPT ![k] = answer'[k]] /\ answer'[k] \in AnAnswer
         /\ answer'[k].status \in {"none", "started"}
         /\ DOMAIN tasks' \subseteq Calls /\ tasks' \in [DOMAIN tasks' -> ATask]
         /\ \A j \in Calls \ {k} : (Tracked(j)' <=> Tracked(j)) /\ (Tracked(j) => tasks'[j] = tasks[j])
         /\ Tracked(k)' <=> commandCall[k].kind \in {"task", "shell"}
         /\ Tracked(k)' => /\ tasks'[k].process = n /\ ~tasks'[k].finished
                           /\ tasks'[k].code = K!Unknown /\ tasks'[k].stream = "up"
<1>1. CallFacts(k) BY CallFactsHold
<1>2. answer[k].status = "none" /\ ~Tracked(k) BY <1>1 DEF CallFacts, Truthful, Placed, PlacedAt, Early
<1>3. commandCall' = [commandCall EXCEPT ![k].pc = IF commandCall[k].kind \in {"task", "shell"} THEN "free" ELSE "polling"]
  BY DEF K!Launched, K!Goto, K!Background
<1>4. /\ commandCall' = [commandCall EXCEPT ![k] = commandCall'[k]] /\ commandCall'[k] \in ACommand
      /\ commandCall'[k].kind = commandCall[k].kind
      /\ commandCall'[k].pc = IF commandCall[k].kind \in {"task", "shell"} THEN "free" ELSE "polling"
  BY <1>1, <1>3 DEF CallFacts, CommandInv, CommandTyped, ACommand, Places
<1>5. /\ answer' = [answer EXCEPT ![k] = answer'[k]] /\ answer'[k] \in AnAnswer
      /\ answer'[k].status \in {"none", "started"}
  <2>1. answer' = [answer EXCEPT ![k] = IF commandCall[k].kind = "task" THEN K!Answer("started", 0, FALSE) ELSE @]
    BY DEF K!Launched
  <2>2. K!Answer("started", 0, FALSE) \in AnAnswer /\ K!Answer("started", 0, FALSE).status = "started"
    BY DEF K!Answer, AnAnswer
  <2>3. QED BY <1>1, <1>2, <2>1, <2>2 DEF CallFacts, CommandInv, CommandTyped
<1>6. CASE commandCall[k].kind \in {"task", "shell"}
  <2> DEFINE t == [process |-> n, finished |-> FALSE, code |-> K!Unknown, stream |-> "up"]
  <2>1. tasks' = [x \in DOMAIN tasks \cup {k} |-> IF x = k THEN t ELSE tasks[x]]
    BY <1>6 DEF K!Launched, K!Background, K!Registered
  <2>2. t \in ATask BY DEF ATask, K!Unknown
  <2>3. tasks'[k] = t /\ DOMAIN tasks' = DOMAIN tasks \cup {k} BY <2>1
  <2>4. t.process = n /\ ~t.finished /\ t.code = K!Unknown /\ t.stream = "up" OBVIOUS
  <2> HIDE DEF t
  <2>5. QED BY <1>4, <1>5, <1>6, <2>1, <2>2, <2>3, <2>4 DEF Tracked, CommandInv, CommandTyped
<1>7. CASE commandCall[k].kind \notin {"task", "shell"}
  <2>1. tasks' = tasks BY <1>7 DEF K!Launched, K!Background
  <2>2. QED BY <1>2, <1>4, <1>5, <1>7, <2>1 DEF Tracked, CommandInv, CommandTyped
<1>8. QED BY <1>6, <1>7

\* A local command starts.
LEMMA LocalStartKeeps ==
  ASSUME CommandInv, NEW k \in Calls, K!LocalStart(k)
  PROVE  CommandInv'
<1>1. CallFacts(k) BY CallFactsHold
<1>2. engine = "local" /\ commandCall[k].pc = "starting" /\ Early(k) /\ procs[k] = <<>> /\ requests[k] = <<>>
      /\ commandCall[k].kind # "none"
  BY <1>1 DEF K!LocalStart, K!At, Early, CallFacts, Placed, PlacedAt
<1>3. K!Launched(k, 1) /\ UNCHANGED <<engine, requests, commandStopping, faults, outages>>
  BY DEF K!LocalStart
<1>4. /\ procs' = [procs EXCEPT ![k] = procs'[k]] /\ procs'[k] \in Seq(AProcess)
      /\ Len(procs'[k]) = 1 /\ DOMAIN procs'[k] = {1} /\ procs'[k] # <<>> /\ procs'[k][1].noted
  <2> DEFINE p == [state |-> "running", code |-> 0, noted |-> TRUE]
  <2>1. procs' = [procs EXCEPT ![k] = Append(procs[k], p)] BY DEF K!LocalStart, K!Started
  <2>2. p \in AProcess /\ p.noted BY DEF AProcess
  <2> HIDE DEF p
  <2>3. procs'[k] = Append(procs[k], p) /\ procs[k] \in Seq(AProcess) BY <1>1, <2>1 DEF CommandInv, CommandTyped, CallFacts
  <2>4. procs'[k] \in Seq(AProcess) /\ Len(procs'[k]) = 1 /\ DOMAIN procs'[k] = 1..1 /\ procs'[k][1] = p
    BY <1>2, <2>2, <2>3, AppendFacts
  <2>5. procs' = [procs EXCEPT ![k] = procs'[k]] BY <2>1, <2>3
  <2>6. QED BY <2>2, <2>4, <2>5
<1>5. OnlyFor(k)
  <2>1. /\ commandCall' = [commandCall EXCEPT ![k] = commandCall'[k]] /\ commandCall'[k] \in ACommand
        /\ answer' = [answer EXCEPT ![k] = answer'[k]] /\ answer'[k] \in AnAnswer
        /\ DOMAIN tasks' \subseteq Calls /\ tasks' \in [DOMAIN tasks' -> ATask]
        /\ \A j \in Calls \ {k} : (Tracked(j)' <=> Tracked(j)) /\ (Tracked(j) => tasks'[j] = tasks[j])
    BY <1>2, <1>3, <1>4, LaunchedFacts
  <2>2. CommandTyped'
    <3>1. procs' \in [Calls -> Seq(AProcess)] BY <1>4 DEF CommandInv, CommandTyped
    <3>2. commandCall' \in [Calls -> ACommand] /\ answer' \in [Calls -> AnAnswer]
      BY <2>1 DEF CommandInv, CommandTyped
    <3>3. QED BY <1>2, <1>3, <2>1, <3>1, <3>2 DEF CommandInv, CommandTyped
  <2>3. \A j \in Calls \ {k} : Same(j) BY <1>2, <1>3, <1>4, <2>1 DEF CommandInv, CommandTyped, Same, Hit
  <2>4. QED BY <1>2, <1>3, <1>4, <2>2, <2>3 DEF OnlyFor
<1>6. /\ commandCall'[k].kind = commandCall[k].kind
      /\ commandCall'[k].pc = IF commandCall[k].kind \in {"task", "shell"} THEN "free" ELSE "polling"
      /\ answer'[k].status \in {"none", "started"}
      /\ Tracked(k)' <=> commandCall[k].kind \in {"task", "shell"}
      /\ Tracked(k)' => /\ tasks'[k].process = 1 /\ ~tasks'[k].finished
                        /\ tasks'[k].code = K!Unknown /\ tasks'[k].stream = "up"
  BY <1>2, <1>3, LaunchedFacts
<1> USE <1>1, <1>2, <1>3, <1>4, <1>6 DEF CallFacts
<1>7. Placed(k)' BY DEF Placed, PlacedAt, ACommand
<1>8. Starts(k)' BY DEF Starts
<1>9. Learnt(k)' BY DEF Learnt
<1>10. Truthful(k)' BY DEF Truthful, Early, K!Final
<1>11. QED BY <1>5, <1>7, <1>8, <1>9, <1>10, OneSound DEF Sound

\* The reply to a start is there.
LEMMA StartRepliesKeeps ==
  ASSUME CommandInv, NEW k \in Calls, K!Reply(k)
  PROVE  CommandInv'
<1> DEFINE n == requests[k][Len(requests[k])].process
<1>1. CallFacts(k) BY CallFactsHold
<1>2. commandCall[k].pc = "waiting" /\ Early(k) /\ engine = "remote" /\ commandCall[k].kind # "none"
  BY <1>1 DEF K!Reply, K!At, Early, CallFacts, Placed, PlacedAt
<1>3. /\ requests[k] # <<>> /\ requests[k] \in Seq(AStart) /\ Len(requests[k]) \in DOMAIN requests[k]
      /\ requests[k][Len(requests[k])].at = "done" /\ n \in Nat
  <2>1. requests[k] # <<>> /\ requests[k] \in Seq(AStart) BY <1>1, <1>2 DEF CallFacts, Starts
  <2>2. Len(requests[k]) \in DOMAIN requests[k] /\ requests[k][Len(requests[k])] \in AStart BY <2>1
  <2>3. QED BY <2>1, <2>2 DEF K!Reply, AStart
<1>4. procs[k] # <<>> /\ (commandCall[k].kind # "exec" => n \in DOMAIN procs[k])
  BY <1>1, <1>3 DEF CallFacts, Starts
<1>5. K!Launched(k, n) /\ UNCHANGED <<engine, requests, procs, commandStopping, faults, outages>>
  BY DEF K!Reply
<1> HIDE DEF n
<1>6. OnlyFor(k)
  <2>1. /\ commandCall' = [commandCall EXCEPT ![k] = commandCall'[k]] /\ commandCall'[k] \in ACommand
        /\ answer' = [answer EXCEPT ![k] = answer'[k]] /\ answer'[k] \in AnAnswer
        /\ DOMAIN tasks' \subseteq Calls /\ tasks' \in [DOMAIN tasks' -> ATask]
        /\ \A j \in Calls \ {k} : (Tracked(j)' <=> Tracked(j)) /\ (Tracked(j) => tasks'[j] = tasks[j])
    BY <1>2, <1>3, <1>5, LaunchedFacts
  <2>2. CommandTyped' BY <1>2, <1>3, <1>5, <2>1 DEF CommandInv, CommandTyped
  <2>3. \A j \in Calls \ {k} : Same(j) BY <1>2, <1>3, <1>5, <2>1 DEF CommandInv, CommandTyped, Same, Hit
  <2>4. QED BY <1>2, <1>3, <1>5, <2>2, <2>3 DEF OnlyFor
<1>7. /\ commandCall'[k].kind = commandCall[k].kind
      /\ commandCall'[k].pc = IF commandCall[k].kind \in {"task", "shell"} THEN "free" ELSE "polling"
      /\ answer'[k].status \in {"none", "started"}
      /\ Tracked(k)' <=> commandCall[k].kind \in {"task", "shell"}
      /\ Tracked(k)' => /\ tasks'[k].process = n /\ ~tasks'[k].finished
                        /\ tasks'[k].code = K!Unknown /\ tasks'[k].stream = "up"
  BY <1>2, <1>3, <1>5, LaunchedFacts
<1>8. Hit(k)' <=> Hit(k) BY <1>5 DEF Hit
<1> USE <1>1, <1>2, <1>3, <1>4, <1>5, <1>7, <1>8 DEF CallFacts
<1>9. Placed(k)' BY DEF Placed, PlacedAt, ACommand
<1>10. Starts(k)' BY DEF Starts
<1>11. Learnt(k)' BY DEF Learnt, Over, ACommand
<1>12. Truthful(k)' BY DEF Truthful, Early, K!Final
<1>13. QED BY <1>6, <1>9, <1>10, <1>11, <1>12, OneSound DEF Sound

\* A start request leaves.
LEMMA SendStartKeeps ==
  ASSUME InTurn, CommandInv, NEW k \in Calls, K!Send(k)
  PROVE  CommandInv'
<1> DEFINE m == [at |-> "sent", process |-> 0]
<1>1. CallFacts(k) BY CallFactsHold
<1>2. /\ engine = "remote" /\ commandCall[k].pc = "starting"
      /\ \A i \in DOMAIN requests[k] : requests[k][i].at = "done"
  BY DEF K!Send, K!At, InTurn
<1>3. UNCHANGED <<engine, procs, tasks, answer, commandStopping, faults, outages>> BY DEF K!Send
<1>4. /\ commandCall' = [commandCall EXCEPT ![k] = commandCall'[k]] /\ commandCall'[k] \in ACommand
      /\ commandCall'[k].kind = commandCall[k].kind /\ commandCall'[k].pc = "waiting"
  <2>1. commandCall' = [commandCall EXCEPT ![k].pc = "waiting"] BY DEF K!Send, K!Goto
  <2>2. QED BY <1>1, <2>1 DEF CallFacts, CommandInv, CommandTyped, ACommand, Places
<1>5. /\ requests' = [requests EXCEPT ![k] = requests'[k]] /\ requests'[k] \in Seq(AStart)
      /\ Len(requests'[k]) = Len(requests[k]) + 1 /\ requests'[k] # <<>>
      /\ DOMAIN requests'[k] = 1..Len(requests[k]) + 1 /\ DOMAIN requests[k] = 1..Len(requests[k])
      /\ \A i \in DOMAIN requests[k] : requests'[k][i] = requests[k][i]
      /\ requests'[k][Len(requests[k]) + 1].at = "sent"
  <2>1. requests' = [requests EXCEPT ![k] = Append(requests[k], m)] BY DEF K!Send
  <2>2. m \in AStart /\ m.at = "sent" BY DEF AStart
  <2> HIDE DEF m
  <2>3. requests'[k] = Append(requests[k], m) BY <2>1 DEF CommandInv, CommandTyped
  <2>4. /\ requests'[k] \in Seq(AStart)
        /\ Len(requests'[k]) = Len(requests[k]) + 1 /\ requests'[k] # <<>>
        /\ DOMAIN requests'[k] = 1..Len(requests[k]) + 1 /\ DOMAIN requests[k] = 1..Len(requests[k])
        /\ \A i \in DOMAIN requests[k] : requests'[k][i] = requests[k][i]
        /\ requests'[k][Len(requests[k]) + 1] = m
    <3>1. requests[k] \in Seq(AStart) BY <1>1 DEF CallFacts
    <3>2. QED BY <2>2, <2>3, <3>1, AppendFacts
  <2>5. QED BY <2>1, <2>2, <2>3, <2>4
<1>6. OnlyFor(k)
  <2>1. requests' \in [Calls -> Seq(AStart)] BY <1>5 DEF CommandInv, CommandTyped
  <2>2. commandCall' \in [Calls -> ACommand] BY <1>4 DEF CommandInv, CommandTyped
  <2>3. CommandTyped' BY <1>3, <2>1, <2>2 DEF CommandInv, CommandTyped
  <2>4. \A j \in Calls \ {k} : Same(j) BY <1>3, <1>4, <1>5 DEF CommandInv, CommandTyped, Same, Hit, Tracked
  <2>5. QED BY <1>3, <2>3, <2>4 DEF OnlyFor
<1>7. Hit(k)' <=> Hit(k) BY <1>3 DEF Hit
<1>8. Len(requests[k]) \in Nat BY <1>1 DEF CallFacts
<1> HIDE DEF m
<1> USE <1>1, <1>2, <1>3, <1>4, <1>5, <1>7, <1>8 DEF CallFacts, Tracked
<1>9. Placed(k)' BY DEF Placed, PlacedAt
<1>10. Starts(k)'
  <2>1. \A i \in DOMAIN requests'[k] :
          \/ i \in DOMAIN requests[k] /\ requests'[k][i].at = "done" /\ requests'[k][i] = requests[k][i]
          \/ i = Len(requests'[k]) /\ requests'[k][i].at = "sent"
    OBVIOUS
  <2>2. ~Hit(k) => requests[k] = <<>> /\ procs[k] = <<>> /\ Len(requests[k]) = 0 /\ Len(procs[k]) = 0
    BY DEF Starts
  <2>3. \A i \in DOMAIN requests[k] :
          procs[k] # <<>> /\ (commandCall[k].kind # "exec" => requests[k][i].process \in DOMAIN procs[k])
    BY DEF Starts
  <2>4. commandCall[k].kind = "exec" => Len(procs[k]) <= 1 BY DEF Starts
  <2>5. QED BY <2>1, <2>2, <2>3, <2>4 DEF Starts
<1>11. Learnt(k)' BY DEF Learnt, Placed, PlacedAt, Over, Came, Noted
<1>12. Truthful(k)' BY DEF Truthful, Early, K!Final
<1>13. QED BY <1>6, <1>9, <1>10, <1>11, <1>12, OneSound DEF Sound

\* The last request, the only one that is not done, moves on.
LEMMA LastRequest ==
  ASSUME CommandInv, NEW k \in Calls, NEW i \in DOMAIN requests[k], NEW m \in AStart, requests[k][i].at # "done",
         requests' = [requests EXCEPT ![k] = [requests[k] EXCEPT ![i] = m]]
  PROVE  /\ requests' = [requests EXCEPT ![k] = requests'[k]] /\ requests'[k] \in Seq(AStart)
         /\ requests' \in [Calls -> Seq(AStart)]
         /\ Len(requests'[k]) = Len(requests[k]) /\ requests'[k] # <<>> /\ requests[k] # <<>>
         /\ DOMAIN requests'[k] = DOMAIN requests[k] /\ DOMAIN requests[k] = 1..Len(requests[k])
         /\ \A j \in DOMAIN requests[k] : j # i => requests'[k][j] = requests[k][j] /\ requests[k][j].at = "done"
         /\ requests'[k][i] = m /\ i = Len(requests[k])
         /\ engine = "remote" /\ commandCall[k].pc # "idle" /\ commandCall[k].kind # "none"
<1>1. CallFacts(k) BY CallFactsHold
<1>2. /\ requests'[k] \in Seq(AStart)
      /\ Len(requests'[k]) = Len(requests[k]) /\ requests'[k] # <<>> /\ requests[k] # <<>>
      /\ DOMAIN requests'[k] = DOMAIN requests[k] /\ DOMAIN requests[k] = 1..Len(requests[k])
      /\ \A j \in DOMAIN requests[k] : requests'[k][j] = IF j = i THEN m ELSE requests[k][j]
  BY <1>1, ReplaceFacts DEF CallFacts, CommandInv, CommandTyped
<1>3. /\ requests' = [requests EXCEPT ![k] = requests'[k]] /\ requests' \in [Calls -> Seq(AStart)]
  BY <1>2 DEF CommandInv, CommandTyped
<1>4. \A j \in DOMAIN requests[k] : j # Len(requests[k]) => requests[k][j].at = "done"
  <2>1. \A j \in 1..Len(requests[k]) : j # Len(requests[k]) => j < Len(requests[k]) BY <1>1 DEF CallFacts
  <2>2. QED BY <1>1, <1>2, <2>1 DEF CallFacts, Starts
<1>5. engine = "remote" /\ commandCall[k].pc # "idle" /\ commandCall[k].kind # "none"
  BY <1>1, <1>2 DEF CallFacts, Placed, PlacedAt
<1>6. QED BY <1>2, <1>3, <1>4, <1>5

\* The start script looks for the pid file.
LEMMA CheckKeeps ==
  ASSUME CommandInv, NEW k \in Calls, NEW i \in DOMAIN requests[k], K!Check(k, i)
  PROVE  CommandInv'
<1> DEFINE next == IF commandCall[k].kind \notin {"task", "shell"} /\ procs[k] # <<>> THEN "done" ELSE "past"
           m == [requests[k][i] EXCEPT !.at = next]
<1>1. CallFacts(k) /\ requests[k][i] \in AStart BY CallFactsHold DEF CallFacts
<1>2. requests[k][i].at = "sent" /\ UNCHANGED <<engine, commandCall, procs, tasks, answer, commandStopping, faults, outages>>
  BY DEF K!Check
<1>3. m \in AStart /\ m.at = next /\ next \in {"done", "past"}
  BY <1>1 DEF AStart
<1>4. requests' = [requests EXCEPT ![k] = [requests[k] EXCEPT ![i] = m]]
  BY DEF K!Check, K!Background
<1> HIDE DEF m
<1>5. /\ requests' = [requests EXCEPT ![k] = requests'[k]] /\ requests'[k] \in Seq(AStart)
      /\ requests' \in [Calls -> Seq(AStart)]
      /\ Len(requests'[k]) = Len(requests[k]) /\ requests'[k] # <<>> /\ requests[k] # <<>>
      /\ DOMAIN requests'[k] = DOMAIN requests[k] /\ DOMAIN requests[k] = 1..Len(requests[k])
      /\ \A j \in DOMAIN requests[k] : j # i => requests'[k][j] = requests[k][j] /\ requests[k][j].at = "done"
      /\ requests'[k][i] = m /\ i = Len(requests[k])
      /\ engine = "remote" /\ commandCall[k].pc # "idle" /\ commandCall[k].kind # "none"
  BY <1>2, <1>3, <1>4, LastRequest
<1>6. OnlyFor(k)
  <2>1. CommandTyped' BY <1>2, <1>5 DEF CommandInv, CommandTyped
  <2>2. \A j \in Calls \ {k} : Same(j) BY <1>2, <1>5 DEF CommandInv, CommandTyped, Same, Hit, Tracked
  <2>3. QED BY <1>2, <2>1, <2>2 DEF OnlyFor
<1>7. Hit(k)' <=> Hit(k) BY <1>2 DEF Hit
<1> USE <1>1, <1>2, <1>3, <1>5, <1>7 DEF CallFacts, Tracked
<1>8. Placed(k)' BY DEF Placed, PlacedAt
<1>9. Starts(k)' BY DEF Starts, ACommand
<1>10. Learnt(k)' BY DEF Learnt, Placed, PlacedAt, Over, Came, Noted
<1>11. Truthful(k)' BY DEF Truthful, Early, Over, Came, Gone
<1>12. QED BY <1>6, <1>8, <1>9, <1>10, <1>11, OneSound DEF Sound

\* A request starts a process.
LEMMA LaunchKeeps ==
  ASSUME CommandInv, NEW k \in Calls, NEW i \in DOMAIN requests[k], K!Launch(k, i)
  PROVE  CommandInv'
<1> DEFINE m == [at |-> "done", process |-> Len(procs[k]) + 1]
           p == [state |-> "running", code |-> 0, noted |-> TRUE]
<1>1. CallFacts(k) BY CallFactsHold
<1>2. requests[k][i].at = "past" /\ UNCHANGED <<engine, commandCall, tasks, answer, commandStopping, faults, outages>>
  BY DEF K!Launch
<1>3. m \in AStart /\ m.at = "done" /\ m.process = Len(procs[k]) + 1 /\ Len(procs[k]) \in Nat
  BY <1>1 DEF AStart, CallFacts
<1>4. p \in AProcess /\ p.noted /\ p.state = "running" BY DEF AProcess
<1>5. /\ requests' = [requests EXCEPT ![k] = [requests[k] EXCEPT ![i] = m]]
      /\ procs' = [procs EXCEPT ![k] = Append(procs[k], p)]
  BY DEF K!Launch, K!Started
<1> HIDE DEF m, p
<1>6. /\ requests' = [requests EXCEPT ![k] = requests'[k]] /\ requests'[k] \in Seq(AStart)
      /\ requests' \in [Calls -> Seq(AStart)]
      /\ Len(requests'[k]) = Len(requests[k]) /\ requests'[k] # <<>> /\ requests[k] # <<>>
      /\ DOMAIN requests'[k] = DOMAIN requests[k] /\ DOMAIN requests[k] = 1..Len(requests[k])
      /\ \A j \in DOMAIN requests[k] : j # i => requests'[k][j] = requests[k][j] /\ requests[k][j].at = "done"
      /\ requests'[k][i] = m /\ i = Len(requests[k])
      /\ engine = "remote" /\ commandCall[k].pc # "idle" /\ commandCall[k].kind # "none"
  BY <1>2, <1>3, <1>5, LastRequest
<1>7. /\ procs' = [procs EXCEPT ![k] = procs'[k]] /\ procs'[k] \in Seq(AProcess)
      /\ Len(procs'[k]) = Len(procs[k]) + 1 /\ procs'[k] # <<>>
      /\ DOMAIN procs'[k] = 1..Len(procs[k]) + 1 /\ DOMAIN procs[k] = 1..Len(procs[k])
      /\ \A n \in DOMAIN procs[k] : procs'[k][n] = procs[k][n]
      /\ procs'[k][Len(procs[k]) + 1].noted
  <2>1. procs'[k] = Append(procs[k], p) BY <1>5 DEF CommandInv, CommandTyped
  <2>2. /\ procs'[k] \in Seq(AProcess)
        /\ Len(procs'[k]) = Len(procs[k]) + 1 /\ procs'[k] # <<>>
        /\ DOMAIN procs'[k] = 1..Len(procs[k]) + 1 /\ DOMAIN procs[k] = 1..Len(procs[k])
        /\ \A n \in DOMAIN procs[k] : procs'[k][n] = procs[k][n]
        /\ procs'[k][Len(procs[k]) + 1] = p
    <3>1. procs[k] \in Seq(AProcess) BY <1>1 DEF CallFacts
    <3>2. QED BY <1>4, <2>1, <3>1, AppendFacts
  <2>3. QED BY <1>4, <1>5, <2>1, <2>2
<1>8. OnlyFor(k)
  <2>1. procs' \in [Calls -> Seq(AProcess)] BY <1>7 DEF CommandInv, CommandTyped
  <2>2. CommandTyped' BY <1>2, <1>6, <2>1 DEF CommandInv, CommandTyped
  <2>3. \A j \in Calls \ {k} : Same(j) BY <1>2, <1>6, <1>7 DEF CommandInv, CommandTyped, Same, Hit, Tracked
  <2>4. QED BY <1>2, <2>2, <2>3 DEF OnlyFor
<1>9. Hit(k)' <=> Hit(k) BY <1>2 DEF Hit
<1>10. commandCall[k].kind = "exec" \/ ~Hit(k) => procs[k] = <<>> /\ Len(procs[k]) = 0
  BY <1>1, <1>2 DEF CallFacts, Starts
<1>11. ~Hit(k) => commandCall[k].pc = "waiting" BY <1>1, <1>2 DEF CallFacts, Starts
<1>12. /\ \A n \in DOMAIN procs[k] : n \in DOMAIN procs'[k] /\ (Over(k, n) => Over(k, n)')
       /\ Noted(k) => Noted(k)'
       /\ \A code \in Int : Came(k, code) => Came(k, code)'
  <2>1. \A n \in DOMAIN procs[k] : n \in DOMAIN procs'[k] /\ (Over(k, n) => Over(k, n)')
    BY <1>3, <1>7 DEF Over
  <2>2. Noted(k) => Noted(k)' BY <1>7, <2>1 DEF Noted
  <2>3. \A code \in Int : Came(k, code) => Came(k, code)' BY <1>7, <2>1 DEF Came
  <2>4. QED BY <2>1, <2>2, <2>3
<1>13. \A n \in DOMAIN procs'[k] : n \in DOMAIN procs[k] \/ n = Len(procs[k]) + 1 BY <1>3, <1>7
<1> USE <1>1, <1>2, <1>3, <1>6, <1>7, <1>9, <1>10, <1>11, <1>12 DEF CallFacts, Tracked
<1>14. Placed(k)' BY DEF Placed, PlacedAt
<1>15. Starts(k)' BY DEF Starts, ACommand
<1>16. Learnt(k)'
  <2>1. \A n \in DOMAIN procs'[k] : ~procs'[k][n].noted => Over(k, n)' /\ Hit(k)'
    BY <1>13 DEF Learnt
  <2>2. Tracked(k)' => /\ tasks'[k].process \in DOMAIN procs'[k]
                       /\ procs'[k][tasks'[k].process] = procs[k][tasks[k].process]
    BY DEF Learnt
  <2>3. commandCall[k].code \in Int BY DEF ACommand
  <2>4. QED BY <2>1, <2>2, <2>3 DEF Learnt
<1>17. Truthful(k)' BY DEF Truthful, Early, AnAnswer
<1>18. QED BY <1>8, <1>14, <1>15, <1>16, <1>17, OneSound DEF Sound

\* A call returns with an answer that is true.
LEMMA ReturnKeeps ==
  ASSUME CommandInv, NEW k \in Calls, NEW a \in AnAnswer,
         commandCall' = [commandCall EXCEPT ![k].pc = "returned"], answer' = [answer EXCEPT ![k] = a],
         faults' \in 0..MaxFaults, outages' \in {outages, outages \cup {k}},
         UNCHANGED <<engine, requests, procs, tasks, commandStopping>>,
         commandCall[k].pc # "idle", commandCall[k].pc \notin {"starting", "waiting"} \/ Hit(k)',
         a.status = "success" => a.code = 0,
         a.status \in K!Final => /\ Came(k, a.code) \/ (a.code = K!Unknown /\ Hit(k)')
                                 /\ engine = "remote" => a.whole \/ Hit(k)',
         a.status \in {"stopped", "killed"} \/ (a.status = "timeout" /\ commandCall[k].kind # "exec") =>
           Hit(k)' \/ Gone(k)
  PROVE  CommandInv'
<1>1. CallFacts(k) BY CallFactsHold
<1>2. /\ commandCall' = [commandCall EXCEPT ![k] = commandCall'[k]] /\ commandCall'[k] \in ACommand
      /\ commandCall'[k].kind = commandCall[k].kind /\ commandCall'[k].pc = "returned"
  BY <1>1 DEF CallFacts, CommandInv, CommandTyped, ACommand, Places
<1>3. answer' = [answer EXCEPT ![k] = answer'[k]] /\ answer'[k] = a /\ answer' \in [Calls -> AnAnswer]
  BY DEF CommandInv, CommandTyped
<1>4. OnlyFor(k)
  <2>1. commandCall' \in [Calls -> ACommand] BY <1>2 DEF CommandInv, CommandTyped
  <2>2. CommandTyped' BY <1>3, <2>1 DEF CommandInv, CommandTyped
  <2>3. \A j \in Calls \ {k} : Same(j) BY <1>2, <1>3 DEF CommandInv, CommandTyped, Same, Hit, Tracked
  <2>4. QED BY <2>2, <2>3 DEF OnlyFor
<1>5. Hit(k) => Hit(k)' BY DEF Hit
<1>6. Gone(k) <=> Gone(k)' BY DEF Gone, Over
<1>7. \A code : Came(k, code) <=> Came(k, code)' BY DEF Came, Over
<1> USE <1>1, <1>2, <1>3, <1>5, <1>6, <1>7 DEF CallFacts, Tracked
<1>8. Placed(k)' BY DEF Placed, PlacedAt
<1>9. Starts(k)' BY DEF Starts
<1>10. Learnt(k)' BY DEF Learnt, Over
<1>11. Truthful(k)' BY DEF Truthful, Early
<1>12. QED BY <1>4, <1>8, <1>9, <1>10, <1>11, OneSound DEF Sound

\* The start fails.
LEMMA StartFailsKeeps ==
  ASSUME CommandInv, NEW k \in Calls, K!StartFails(k)
  PROVE  CommandInv'
<1> DEFINE a == K!Answer("failed", K!Unknown, FALSE)
<1>1. a \in AnAnswer /\ a.status = "failed" BY DEF AnAnswer, K!Answer, K!Unknown
<1>2. /\ commandCall' = [commandCall EXCEPT ![k].pc = "returned"] /\ answer' = [answer EXCEPT ![k] = a]
      /\ commandCall[k].pc # "idle" /\ k \in outages' /\ outages' = outages \cup {k}
      /\ UNCHANGED <<engine, requests, procs, tasks, commandStopping>>
  BY DEF K!StartFails, K!At, K!Goto, K!Fault
<1>3. faults' \in 0..MaxFaults BY CallFactsHold DEF K!StartFails, K!Fault, CallFacts, CommandInv, CommandTyped
<1> HIDE DEF a
<1>4. QED BY <1>1, <1>2, <1>3, ReturnKeeps DEF Hit, K!Final

\* A local call waits for its child.
LEMMA LocalWaitKeeps ==
  ASSUME CommandInv, NEW k \in Calls, K!LocalWait(k)
  PROVE  CommandInv'
<1> DEFINE c == procs[k][1].code
           a == K!Answer(K!ByCode(c), c, TRUE)
<1>1. CallFacts(k) BY CallFactsHold
<1>2. /\ commandCall' = [commandCall EXCEPT ![k].pc = "returned"] /\ answer' = [answer EXCEPT ![k] = a]
      /\ commandCall[k].pc = "polling" /\ engine = "local" /\ procs[k][1].state = "ended"
      /\ UNCHANGED <<engine, requests, procs, tasks, commandStopping, faults, outages>>
  BY DEF K!LocalWait, K!Return, K!At, K!Goto, K!Running
<1>3. 1 \in DOMAIN procs[k] /\ procs[k][1] \in AProcess BY <1>1, <1>2 DEF CallFacts, Placed, PlacedAt
<1>4. c \in Int /\ Came(k, c) BY <1>2, <1>3 DEF Came, Over, AProcess
<1>5. a \in AnAnswer /\ (a.status = "success" => a.code = 0) /\ a.code = c /\ a.status \in {"success", "error"}
  BY <1>4 DEF AnAnswer, K!Answer, K!ByCode
<1> HIDE DEF a, c
<1>6. QED BY <1>1, <1>2, <1>4, <1>5, ReturnKeeps DEF CallFacts, CommandInv, CommandTyped

\* The end is read: a timeout, or a code, or that there is none.
LEMMA ReadExitKeeps ==
  ASSUME CommandInv, NEW k \in Calls, NEW works \in BOOLEAN, NEW code \in Int, K!ReadExit(k, works, code)
  PROVE  CommandInv'
<1>1. CallFacts(k) BY CallFactsHold
<1>2. /\ commandCall[k].pc = "ending" /\ commandCall[k].kind = "exec"
      /\ UNCHANGED <<engine, requests, procs, tasks, commandStopping>>
      /\ (works \/ Hit(k)') /\ (Hit(k) => Hit(k)')
  BY <1>1 DEF K!ReadExit, K!At, K!Request, K!Fault, K!NoFault, CallFacts, Placed, PlacedAt, Hit
<1>3. faults' \in 0..MaxFaults /\ outages' \in {outages, outages \cup {k}}
  BY <1>1 DEF K!ReadExit, K!Request, K!Fault, K!NoFault, CallFacts, CommandInv, CommandTyped
<1>4. code \in IF works /\ K!ExitCodes(k) # {} THEN K!ExitCodes(k) ELSE {K!Unknown}
  BY DEF K!ReadExit
<1> DEFINE expired == code = K!TimedOut \/ (commandCall[k].late /\ code = K!Unknown)
<1>5. CASE expired
  <2> DEFINE a == K!Answer("timeout", K!Unknown, FALSE)
  <2>1. a \in AnAnswer /\ a.status = "timeout" BY DEF AnAnswer, K!Answer, K!Unknown
  <2>2. commandCall' = [commandCall EXCEPT ![k].pc = "returned"] /\ answer' = [answer EXCEPT ![k] = a]
    BY <1>5 DEF K!ReadExit, K!Return, K!Goto
  <2> HIDE DEF a
  <2>3. QED BY <1>2, <1>3, <2>1, <2>2, ReturnKeeps DEF K!Final
<1>6. CASE ~expired
  <2>1. commandCall' = [commandCall EXCEPT ![k].pc = "output", ![k].code = code] /\ answer' = answer
    BY <1>6 DEF K!ReadExit
  <2>2. /\ commandCall' = [commandCall EXCEPT ![k] = commandCall'[k]] /\ commandCall'[k] \in ACommand
        /\ commandCall'[k].pc = "output" /\ commandCall'[k].code = code
        /\ commandCall'[k].kind = commandCall[k].kind
    BY <1>1, <2>1 DEF CallFacts, CommandInv, CommandTyped, ACommand, Places
  <2>3. OnlyFor(k) BY <1>2, <1>3, <2>1, <2>2, CallMoves
  <2>4. Came(k, code) \/ (code = K!Unknown /\ Hit(k)')
    <3>1. CASE code \in K!ExitCodes(k) BY <3>1 DEF K!ExitCodes, K!Running, Came, Over
    <3>2. CASE code \notin K!ExitCodes(k)
      <4>1. code = K!Unknown /\ (works => K!ExitCodes(k) = {}) BY <1>4, <3>2
      <4>2. K!ExitCodes(k) = {} => ~Noted(k) BY DEF K!ExitCodes, K!Running, Noted, Over
      <4>3. ~commandCall[k].late BY <1>6, <4>1
      <4>4. QED BY <1>1, <1>2, <4>1, <4>2, <4>3 DEF CallFacts, Learnt
    <3>3. QED BY <3>1, <3>2
  <2>5. \A x : Came(k, x) <=> Came(k, x)' BY <1>2 DEF Came, Over
  <2>6. Gone(k) <=> Gone(k)' BY <1>2 DEF Gone, Over
  <2> HIDE DEF expired
  <2> USE <1>1, <1>2, <2>1, <2>2, <2>4, <2>5, <2>6 DEF CallFacts, Tracked
  <2>7. Placed(k)' BY DEF Placed, PlacedAt
  <2>8. Starts(k)' BY DEF Starts, Placed, PlacedAt
  <2>9. Learnt(k)' BY DEF Learnt, Placed, PlacedAt, Over
  <2>10. Truthful(k)' BY DEF Truthful, Learnt, Placed, PlacedAt, Over, Early
  <2>11. QED BY <2>3, <2>7, <2>8, <2>9, <2>10, OneSound DEF Sound
<1>7. QED BY <1>5, <1>6

\* The output is read, or cannot be.
LEMMA ReadOutputKeeps ==
  ASSUME CommandInv, NEW k \in Calls, NEW works \in BOOLEAN, K!ReadOutput(k, works)
  PROVE  CommandInv'
<1> DEFINE c == commandCall[k].code
           a == K!Answer(K!ByCode(c), c, works)
<1>1. CallFacts(k) BY CallFactsHold
<1>2. /\ commandCall' = [commandCall EXCEPT ![k].pc = "returned"] /\ answer' = [answer EXCEPT ![k] = a]
      /\ commandCall[k].pc = "output"
      /\ UNCHANGED <<engine, requests, procs, tasks, commandStopping>>
      /\ (works \/ Hit(k)') /\ (Hit(k) => Hit(k)')
  BY DEF K!ReadOutput, K!Return, K!At, K!Goto, K!Request, K!NoFault, K!Fault, Hit
<1>3. faults' \in 0..MaxFaults /\ outages' \in {outages, outages \cup {k}}
  BY <1>1 DEF K!ReadOutput, K!Request, K!Fault, K!NoFault, CallFacts, CommandInv, CommandTyped
<1>4. c \in Int /\ (Came(k, c) \/ (c = K!Unknown /\ Hit(k)'))
  BY <1>1, <1>2 DEF CallFacts, Learnt, ACommand
<1>5. a \in AnAnswer /\ (a.status = "success" => a.code = 0) /\ a.code = c /\ a.status \in {"success", "error"} /\ a.whole = works
  BY <1>4 DEF AnAnswer, K!Answer, K!ByCode
<1> HIDE DEF a, c
<1>6. QED BY <1>1, <1>2, <1>3, <1>4, <1>5, ReturnKeeps DEF CallFacts, K!Final

\* The entry of a task learns of the end, or that its stream has broken.
LEMMA EntryMoves ==
  ASSUME CommandInv, NEW k \in Calls, NEW t \in ATask, Tracked(k), ~tasks[k].finished,
         tasks' = [tasks EXCEPT ![k] = t], t.process = tasks[k].process,
         t.finished => /\ Over(k, t.process)
                       /\ t.code = procs[k][t.process].code \/ (t.code = K!Unknown /\ Hit(k)'),
         ~t.finished => t.code = K!Unknown,
         t.stream = "broken" => Hit(k)' /\ t.code = K!Unknown,
         faults' \in 0..MaxFaults, outages' \in {outages, outages \cup {k}},
         UNCHANGED <<engine, commandCall, requests, procs, answer, commandStopping>>
  PROVE  CommandInv'
<1>1. CallFacts(k) BY CallFactsHold
<1>2. DOMAIN tasks' = DOMAIN tasks /\ Tracked(k)' /\ tasks'[k] = t /\ \A j \in DOMAIN tasks \ {k} : tasks'[j] = tasks[j]
  BY DEF Tracked
<1>3. OnlyFor(k)
  <2>1. CommandTyped' BY <1>2 DEF CommandInv, CommandTyped
  <2>2. \A j \in Calls \ {k} : Same(j) BY <1>2 DEF CommandInv, CommandTyped, Same, Hit, Tracked
  <2>3. QED BY <2>1, <2>2 DEF OnlyFor
<1>4. Hit(k) => Hit(k)' BY DEF Hit
<1>5. (Gone(k) <=> Gone(k)') /\ (Noted(k) <=> Noted(k)') BY DEF Gone, Noted, Over
<1>6. \A x : Came(k, x) <=> Came(k, x)' BY DEF Came, Over
<1> USE <1>1, <1>2, <1>4, <1>5, <1>6 DEF CallFacts
<1>7. Placed(k)' BY DEF Placed, PlacedAt
<1>8. Starts(k)' BY DEF Starts
<1>9. Learnt(k)' BY DEF Learnt, Over
<1>10. Truthful(k)' BY DEF Truthful, Early
<1>11. QED BY <1>3, <1>7, <1>8, <1>9, <1>10, OneSound DEF Sound

\* The waiting thread sees the end.
LEMMA NoticeKeeps ==
  ASSUME CommandInv, NEW k \in Calls, K!Notice(k)
  PROVE  CommandInv'
<1> DEFINE c == procs[k][tasks[k].process].code
           t == [[tasks[k] EXCEPT !.finished = TRUE] EXCEPT !.code = c]
<1>1. CallFacts(k) /\ Tracked(k) /\ tasks[k] \in ATask
  BY CallFactsHold DEF K!Notice, Tracked, CallFacts
<1>2. tasks[k].process \in DOMAIN procs[k] /\ procs[k][tasks[k].process] \in AProcess /\ c \in Int
  <2>1. tasks[k].process \in DOMAIN procs[k] BY <1>1 DEF CallFacts, Learnt
  <2>2. procs[k][tasks[k].process] \in AProcess BY <1>1, <2>1 DEF CallFacts
  <2>3. QED BY <2>1, <2>2 DEF AProcess
<1>3. /\ ~tasks[k].finished /\ tasks[k].stream = "up" /\ Over(k, tasks[k].process)
      /\ UNCHANGED <<engine, commandCall, requests, procs, answer, commandStopping, faults, outages>>
  BY DEF K!Notice, K!Running, Over
<1>4. tasks' = [tasks EXCEPT ![k] = t] BY DEF K!Notice
<1> HIDE DEF c
<1>5. t \in ATask /\ t.process = tasks[k].process /\ t.finished /\ t.code = c /\ t.stream = "up"
  <2>1. t \in ATask BY <1>1, <1>2 DEF ATask
  <2>2. t.process = tasks[k].process /\ t.code = c /\ t.stream = "up" BY <1>1, <1>2, <1>3 DEF ATask
  <2>3. t.finished BY <1>1, <1>2, <1>3 DEF ATask
  <2>4. QED BY <2>1, <2>2, <2>3
<1> HIDE DEF t
<1>6. faults' \in 0..MaxFaults BY <1>3 DEF CommandInv, CommandTyped
<1>7. t.code = procs[k][t.process].code BY <1>5 DEF c
<1>8. QED BY <1>1, <1>3, <1>4, <1>5, <1>6, <1>7, EntryMoves

\* The event stream breaks.
LEMMA StreamBreaksKeeps ==
  ASSUME CommandInv, NEW k \in Calls, K!StreamBreaks(k)
  PROVE  CommandInv'
<1> DEFINE t == [tasks[k] EXCEPT !.stream = "broken"]
<1>1. CallFacts(k) /\ Tracked(k) /\ tasks[k] \in ATask
  BY CallFactsHold DEF K!StreamBreaks, Tracked, CallFacts
<1>2. /\ ~tasks[k].finished /\ outages' = outages \cup {k} /\ Hit(k)'
      /\ UNCHANGED <<engine, commandCall, requests, procs, answer, commandStopping>>
  BY DEF K!StreamBreaks, K!Fault, Hit
<1>3. faults' \in 0..MaxFaults BY <1>1 DEF K!StreamBreaks, K!Fault, CallFacts, CommandInv, CommandTyped
<1>4. tasks' = [tasks EXCEPT ![k] = t] BY DEF K!StreamBreaks
<1>5. t \in ATask /\ t.process = tasks[k].process /\ t.code = tasks[k].code /\ ~t.finished
  <2>1. t \in ATask BY <1>1 DEF ATask
  <2>2. t.process = tasks[k].process /\ t.code = tasks[k].code BY <1>1 DEF ATask
  <2>3. ~t.finished BY <1>1, <1>2 DEF ATask
  <2>4. QED BY <2>1, <2>2, <2>3
<1>6. tasks[k].code = K!Unknown BY <1>1, <1>2 DEF CallFacts, Learnt
<1> HIDE DEF t
<1>7. QED BY <1>1, <1>2, <1>3, <1>4, <1>5, <1>6, EntryMoves

\* A status is answered: an end that has been seen, or that the command runs.
LEMMA SayKeeps ==
  ASSUME CommandInv, NEW k \in Calls, NEW t \in ATask, NEW a \in AnAnswer,
         commandCall[k].pc = "judging", tasks' = [tasks EXCEPT ![k] = t], K!Say(k, a),
         t.process = tasks[k].process, t.code = tasks[k].code, t.stream = tasks[k].stream,
         tasks[k].finished => t.finished,
         t.finished => tasks[k].finished \/ (Over(k, t.process) /\ Hit(k)),
         a.status \in {"success", "error", "running"},
         a.status # "running" => /\ t.finished /\ a.code = t.code /\ a.status = K!ByCode(t.code)
                                 /\ engine = "remote" => a.whole \/ Hit(k),
         faults' \in 0..MaxFaults, outages' \in {outages, outages \cup {k}},
         UNCHANGED <<engine, requests, procs, commandStopping>>
  PROVE  CommandInv'
<1>1. CallFacts(k) /\ Tracked(k) /\ commandCall[k].kind \in {"task", "shell"} /\ a.code \in Int
  BY CallFactsHold DEF CallFacts, Placed, PlacedAt, AnAnswer
<1>2. DOMAIN tasks' = DOMAIN tasks /\ Tracked(k)' /\ tasks'[k] = t /\ \A j \in DOMAIN tasks \ {k} : tasks'[j] = tasks[j]
  BY <1>1 DEF Tracked
<1>3. answer' = [answer EXCEPT ![k] = IF commandCall[k].kind = "shell" /\ a.status = "running" THEN @ ELSE a]
  BY DEF K!Say
<1>4. /\ answer' = [answer EXCEPT ![k] = answer'[k]] /\ answer' \in [Calls -> AnAnswer]
      /\ answer'[k] = IF commandCall[k].kind = "shell" /\ a.status = "running" THEN answer[k] ELSE a
  BY <1>3 DEF CommandInv, CommandTyped
<1>5. commandCall' = [commandCall EXCEPT ![k].pc =
        IF commandCall[k].kind = "shell" THEN IF a.status = "running" THEN "ran" ELSE "returned" ELSE "free"]
  BY DEF K!Say, K!Goto
<1>6. /\ commandCall' = [commandCall EXCEPT ![k] = commandCall'[k]] /\ commandCall'[k] \in ACommand
      /\ commandCall'[k].kind = commandCall[k].kind
      /\ commandCall'[k].pc = IF commandCall[k].kind = "shell" THEN IF a.status = "running" THEN "ran" ELSE "returned"
                              ELSE "free"
  BY <1>1, <1>5 DEF CallFacts, CommandInv, CommandTyped, ACommand, Places
<1>7. OnlyFor(k)
  <2>1. commandCall' \in [Calls -> ACommand] BY <1>6 DEF CommandInv, CommandTyped
  <2>2. CommandTyped' BY <1>2, <1>4, <2>1 DEF CommandInv, CommandTyped
  <2>3. \A j \in Calls \ {k} : Same(j) BY <1>2, <1>4, <1>6 DEF CommandInv, CommandTyped, Same, Hit, Tracked
  <2>4. QED BY <2>2, <2>3 DEF OnlyFor
<1>8. Hit(k) => Hit(k)' BY DEF Hit
<1>9. (Gone(k) <=> Gone(k)') /\ (Noted(k) <=> Noted(k)') BY DEF Gone, Noted, Over
<1>10. \A x : Came(k, x) <=> Came(k, x)' BY DEF Came, Over
<1>11. /\ tasks[k].process \in DOMAIN procs[k]
       /\ t.finished => Over(k, t.process) /\ (t.code = procs[k][t.process].code \/ (t.code = K!Unknown /\ Hit(k)))
       /\ ~t.finished => t.code = K!Unknown
       /\ t.stream = "broken" => Hit(k) /\ t.code = K!Unknown
  BY <1>1 DEF CallFacts, Learnt
<1>12. t.finished => Came(k, t.code) \/ (t.code = K!Unknown /\ Hit(k))
  BY <1>11 DEF Came
<1> USE <1>1, <1>2, <1>4, <1>6, <1>8, <1>9, <1>10, <1>11, <1>12 DEF CallFacts
<1>13. Placed(k)' BY DEF Placed, PlacedAt
<1>14. Starts(k)' BY DEF Starts
<1>15. Learnt(k)' BY DEF Learnt, Over
<1>16. Truthful(k)' BY DEF Truthful, Early, K!Final, K!ByCode
<1>17. QED BY <1>7, <1>13, <1>14, <1>15, <1>16, OneSound DEF Sound

\* The local verdict.
LEMMA LocalVerdictKeeps ==
  ASSUME CommandInv, NEW k \in Calls, K!LocalVerdict(k)
  PROVE  CommandInv'
<1> DEFINE c == tasks[k].code
           a == IF tasks[k].finished THEN K!Answer(K!ByCode(c), c, commandCall[k].whole)
                ELSE K!Answer("running", K!Unknown, FALSE)
<1>1. CallFacts(k) /\ engine = "local" /\ commandCall[k].pc = "judging" /\ Tracked(k) /\ tasks[k] \in ATask
  BY CallFactsHold DEF CallFacts, K!LocalVerdict, K!At, Placed, PlacedAt
<1>2. K!Say(k, a) /\ UNCHANGED <<engine, requests, procs, tasks, commandStopping, faults, outages>>
  BY DEF K!LocalVerdict
<1>3. c \in Int /\ commandCall[k].whole \in BOOLEAN BY <1>1 DEF CallFacts, ATask, ACommand
<1>4. /\ a \in AnAnswer /\ a.status \in {"success", "error", "running"}
      /\ a.status # "running" => tasks[k].finished /\ a.code = c /\ a.status = K!ByCode(c)
  BY <1>3 DEF AnAnswer, K!Answer, K!ByCode, K!Unknown
<1>5. tasks' = [tasks EXCEPT ![k] = tasks[k]] BY <1>1, <1>2 DEF CommandInv, CommandTyped
<1>6. faults' \in 0..MaxFaults BY <1>2 DEF CommandInv, CommandTyped
<1> HIDE DEF a
<1>7. QED BY <1>1, <1>2, <1>4, <1>5, <1>6, SayKeeps

\* The remote verdict: the end that was seen first, one that the probe finds, or none.
LEMMA JudgeKeeps ==
  ASSUME CommandInv, NEW k \in Calls, NEW works \in BOOLEAN, K!Judge(k, works)
  PROVE  CommandInv'
<1> DEFINE c == tasks[k].code
           said == K!Answer(K!ByCode(c), c, commandCall[k].whole)
           lost == K!Answer("error", K!Unknown, commandCall[k].whole)
           runs == K!Answer("running", K!Unknown, FALSE)
           probe == ~commandCall[k].done /\ tasks[k].stream = "broken"
           t == [tasks[k] EXCEPT !.finished = TRUE]
<1>1. CallFacts(k) /\ engine = "remote" /\ commandCall[k].pc = "judging" /\ Tracked(k) /\ tasks[k] \in ATask
  BY CallFactsHold DEF CallFacts, K!Judge, K!At, Placed, PlacedAt
<1>2. UNCHANGED <<engine, requests, procs, commandStopping>> BY DEF K!Judge
<1>3. faults' \in 0..MaxFaults /\ outages' \in {outages, outages \cup {k}}
  BY <1>1 DEF K!Judge, K!Request, K!Fault, K!NoFault, CallFacts, CommandInv, CommandTyped
<1>4. c \in Int /\ commandCall[k].whole \in BOOLEAN BY <1>1 DEF CallFacts, ATask, ACommand
<1>5. /\ said \in AnAnswer /\ said.status = K!ByCode(c) /\ said.code = c /\ said.whole = commandCall[k].whole
      /\ lost \in AnAnswer /\ lost.status = "error" /\ lost.code = K!Unknown /\ lost.whole = commandCall[k].whole
      /\ runs \in AnAnswer /\ runs.status = "running"
  BY <1>4 DEF AnAnswer, K!Answer, K!ByCode, K!Unknown
<1>6. K!ByCode(c) \in {"success", "error"} BY DEF K!ByCode
<1>7. tasks = [tasks EXCEPT ![k] = tasks[k]] BY <1>1 DEF CommandInv, CommandTyped
<1>8. \/ commandCall[k].done /\ K!Say(k, said) /\ tasks' = tasks
      \/ probe /\ K!Say(k, lost) /\ tasks' = [tasks EXCEPT ![k] = t] /\ Over(k, tasks[k].process)
      \/ K!Say(k, runs) /\ tasks' = tasks
  BY DEF K!Judge, K!Running, Over
<1> HIDE DEF said, lost, runs, c
<1>9. CASE commandCall[k].done /\ K!Say(k, said) /\ tasks' = tasks
  <2>1. tasks[k].finished /\ (said.whole \/ Hit(k)) BY <1>1, <1>5, <1>9 DEF CallFacts, Learnt
  <2>2. said.code = tasks[k].code /\ said.status = K!ByCode(tasks[k].code) BY <1>5 DEF c
  <2>3. QED BY <1>1, <1>2, <1>3, <1>5, <1>6, <1>7, <1>9, <2>1, <2>2, SayKeeps
<1>10. CASE probe /\ K!Say(k, lost) /\ tasks' = [tasks EXCEPT ![k] = t] /\ Over(k, tasks[k].process)
  <2>1. Hit(k) /\ tasks[k].code = K!Unknown BY <1>1, <1>10 DEF CallFacts, Learnt
  <2>2. t \in ATask /\ t.process = tasks[k].process /\ t.code = tasks[k].code /\ t.stream = tasks[k].stream /\ t.finished
    <3>1. t \in ATask BY <1>1 DEF ATask
    <3>2. t.process = tasks[k].process /\ t.code = tasks[k].code /\ t.stream = tasks[k].stream BY <1>1 DEF ATask
    <3>3. t.finished BY <1>1 DEF ATask
    <3>4. QED BY <3>1, <3>2, <3>3
  <2>3. K!ByCode(tasks[k].code) = "error" BY <2>1 DEF K!ByCode, K!Unknown
  <2> HIDE DEF t, probe
  <2>4. QED BY <1>1, <1>2, <1>3, <1>5, <1>10, <2>1, <2>2, <2>3, SayKeeps
<1>11. CASE K!Say(k, runs) /\ tasks' = tasks
  BY <1>1, <1>2, <1>3, <1>5, <1>7, <1>11, SayKeeps
<1>12. QED BY <1>8, <1>9, <1>10, <1>11

\* A process is ended by its client, unless it has ended already.
Endings(k) ==
    /\ procs' = [procs EXCEPT ![k] = procs'[k]] /\ procs' \in [Calls -> Seq(AProcess)]
    /\ procs'[k] \in Seq(AProcess) /\ Len(procs'[k]) = Len(procs[k]) /\ DOMAIN procs'[k] = DOMAIN procs[k]
    /\ \A i \in DOMAIN procs[k] :
        /\ Over(k, i) => procs'[k][i] = procs[k][i]
        /\ ~procs'[k][i].noted => Over(k, i) /\ Hit(k)

\* A process that is over.
Ending(p, code) == [p EXCEPT !.state = "ended", !.code = code]
\* It is one that has ended, noted as it was.
LEMMA EndOf ==
  ASSUME NEW p \in AProcess, NEW code \in Int
  PROVE  Ending(p, code) \in AProcess /\ Ending(p, code).state = "ended" /\ Ending(p, code).noted = p.noted
<1>1. Ending(p, code) \in AProcess BY DEF AProcess, Ending
<1>2. Ending(p, code).state = "ended" /\ Ending(p, code).noted = p.noted BY DEF AProcess, Ending
<1>3. QED BY <1>1, <1>2

\* The kill does just that.
LEMMA EndedBy ==
  ASSUME CommandInv, NEW k \in Calls, NEW n \in DOMAIN procs[k],
         procs' = IF K!Running(k, n) THEN K!Ended(k, n, 137) ELSE procs
  PROVE  Endings(k) /\ procs'[k][n].state = "ended"
<1> DEFINE e == Ending(procs[k][n], 137)
<1>1. /\ CallFacts(k) /\ procs[k][n] \in AProcess /\ procs \in [Calls -> Seq(AProcess)] /\ procs[k] \in Seq(AProcess)
      /\ \A i \in DOMAIN procs[k] : ~procs[k][i].noted => Over(k, i) /\ Hit(k)
  BY CallFactsHold DEF CallFacts, Learnt, CommandInv, CommandTyped
<1>2. CASE K!Running(k, n)
  <2>1. procs' = [procs EXCEPT ![k] = [procs[k] EXCEPT ![n] = e]] BY <1>2 DEF K!Ended, Ending
  <2>a. procs[k][n] \in AProcess BY <1>1
  <2>2. e \in AProcess BY <2>a, EndOf
  <2>3. e.state = "ended" /\ e.noted = procs[k][n].noted BY <2>a, EndOf
  <2> HIDE DEF e
  <2>4. /\ procs'[k] \in Seq(AProcess) /\ Len(procs'[k]) = Len(procs[k]) /\ DOMAIN procs'[k] = DOMAIN procs[k]
        /\ \A i \in DOMAIN procs[k] : procs'[k][i] = IF i = n THEN e ELSE procs[k][i]
    <3>1. procs'[k] = [procs[k] EXCEPT ![n] = e] /\ procs[k] \in Seq(AProcess) BY <1>1, <2>1
    <3>2. QED BY <2>2, <3>1, ReplaceFacts
  <2>5. procs' = [procs EXCEPT ![k] = procs'[k]] /\ procs' \in [Calls -> Seq(AProcess)]
    BY <1>1, <2>1, <2>4
  <2>6. ~Over(k, n) BY <1>2 DEF K!Running, Over
  <2>7. QED BY <1>1, <2>3, <2>4, <2>5, <2>6 DEF Endings
<1>3. CASE ~K!Running(k, n)
  <2>1. procs' = procs /\ procs' = [procs EXCEPT ![k] = procs[k]] BY <1>1, <1>3
  <2>2. procs[k][n].state = "ended" BY <1>3 DEF K!Running
  <2>3. QED BY <1>1, <2>1, <2>2 DEF Endings
<1>4. QED BY <1>2, <1>3

\* A call ends its process and forgets its entry, or could not.
LEMMA EndsKeep ==
  ASSUME CommandInv, NEW k \in Calls, NEW a \in AnAnswer,
         Endings(k), Hit(k)' \/ \A i \in DOMAIN procs[k] : procs'[k][i].state = "ended",
         commandCall[k].pc \in {"free", "ran", "polling"},
         commandCall' = [commandCall EXCEPT ![k] = commandCall'[k]], commandCall'[k] \in ACommand,
         commandCall'[k].kind = commandCall[k].kind, commandCall'[k].pc \in {"free", "returned"},
         commandCall'[k].pc = "free" => commandCall[k].kind = "task",
         answer' = [answer EXCEPT ![k] = a], a.status \in {"killed", "unkilled", "stopped", "timeout"},
         tasks' = tasks \/ tasks' = [x \in DOMAIN tasks \ {k} |-> tasks[x]],
         faults' \in 0..MaxFaults, outages' \in {outages, outages \cup {k}},
         UNCHANGED <<engine, requests, commandStopping>>
  PROVE  CommandInv'
<1>1. CallFacts(k) BY CallFactsHold
<1>2. answer' = [answer EXCEPT ![k] = answer'[k]] /\ answer'[k] = a /\ answer' \in [Calls -> AnAnswer]
  BY DEF CommandInv, CommandTyped
<1>3. /\ DOMAIN tasks' \subseteq Calls /\ tasks' \in [DOMAIN tasks' -> ATask]
      /\ Tracked(k)' => Tracked(k) /\ tasks'[k] = tasks[k]
      /\ \A j \in Calls \ {k} : (Tracked(j)' <=> Tracked(j)) /\ (Tracked(j) => tasks'[j] = tasks[j])
  <2>1. CASE tasks' = tasks BY <2>1 DEF CommandInv, CommandTyped, Tracked
  <2>2. CASE tasks' = [x \in DOMAIN tasks \ {k} |-> tasks[x]] BY <2>2 DEF CommandInv, CommandTyped, Tracked
  <2>3. QED BY <2>1, <2>2
<1>4. OnlyFor(k)
  <2>1. commandCall' \in [Calls -> ACommand] BY DEF CommandInv, CommandTyped
  <2>2. CommandTyped' BY <1>2, <1>3, <2>1 DEF CommandInv, CommandTyped, Endings
  <2>3. \A j \in Calls \ {k} : Same(j) BY <1>2, <1>3 DEF CommandInv, CommandTyped, Same, Hit, Endings
  <2>4. QED BY <2>2, <2>3 DEF OnlyFor
<1>5. Hit(k) => Hit(k)' BY DEF Hit
<1>6. /\ procs'[k] # <<>> /\ procs[k] # <<>> /\ DOMAIN procs'[k] = DOMAIN procs[k] /\ Len(procs'[k]) = Len(procs[k])
      /\ procs'[k] \in Seq(AProcess)
  BY <1>1 DEF CallFacts, Placed, PlacedAt, Endings
<1>7. \A i \in DOMAIN procs[k] : /\ Over(k, i) => Over(k, i)' /\ procs'[k][i] = procs[k][i]
                                 /\ ~procs'[k][i].noted => Over(k, i) /\ Hit(k)
  BY DEF Endings, Over
<1>8. Hit(k)' \/ Gone(k)' BY <1>6 DEF Gone, Over
<1> USE <1>1, <1>2, <1>3, <1>5, <1>6, <1>7, <1>8 DEF CallFacts
<1>9. Placed(k)' BY DEF Placed, PlacedAt
<1>10. Starts(k)' BY DEF Starts
<1>11. Learnt(k)' BY DEF Learnt
<1>12. Truthful(k)' BY DEF Truthful, Early, K!Final
<1>13. QED BY <1>4, <1>9, <1>10, <1>11, <1>12, OneSound DEF Sound

\* What kill_background_task does.
LEMMA KillFacts ==
  ASSUME CommandInv, NEW k \in Calls, NEW works \in BOOLEAN, K!Kill(k, works), Tracked(k)
  PROVE  /\ Endings(k) /\ (Hit(k)' \/ \A i \in DOMAIN procs[k] : procs'[k][i].state = "ended")
         /\ tasks' = tasks \/ tasks' = [x \in DOMAIN tasks \ {k} |-> tasks[x]]
         /\ faults' \in 0..MaxFaults /\ outages' \in {outages, outages \cup {k}}
<1> DEFINE n == tasks[k].process
<1>1. CallFacts(k) /\ n \in DOMAIN procs[k] BY CallFactsHold DEF CallFacts, Learnt
<1>2. faults' \in 0..MaxFaults /\ outages' \in {outages, outages \cup {k}} /\ (Hit(k) => Hit(k)')
  BY <1>1 DEF K!Kill, K!LocalKill, K!RemoteKill, K!Request, K!Fault, K!NoFault, CallFacts, CommandInv, CommandTyped, Hit
<1>3. CASE K!Killed(k)
  <2>1. /\ procs' = IF K!Running(k, n) THEN K!Ended(k, n, 137) ELSE procs
        /\ tasks' = [x \in DOMAIN tasks \ {k} |-> tasks[x]]
    BY <1>3 DEF K!Killed
  <2>2. Endings(k) /\ procs'[k][n].state = "ended" BY <1>1, <2>1, EndedBy
  <2>3. ~Hit(k) => DOMAIN procs[k] = {n}
    <3>1. ~Hit(k) => Len(procs[k]) <= 1 BY <1>1 DEF CallFacts, Starts
    <3>2. procs[k] \in Seq(AProcess) BY <1>1 DEF CallFacts
    <3>3. QED BY <1>1, <3>1, <3>2
  <2> HIDE DEF n
  <2>4. QED BY <1>2, <2>1, <2>2, <2>3
<1>4. CASE ~K!Killed(k)
  <2>1. procs' = procs /\ tasks' = tasks /\ k \in outages'
    BY <1>4 DEF K!Kill, K!LocalKill, K!RemoteKill, K!Request, K!Fault
  <2>2. Endings(k)
    <3>1. procs' = [procs EXCEPT ![k] = procs'[k]] /\ procs' \in [Calls -> Seq(AProcess)]
      BY <2>1 DEF CommandInv, CommandTyped
    <3>2. procs[k] \in Seq(AProcess) /\ \A i \in DOMAIN procs[k] : ~procs[k][i].noted => Over(k, i) /\ Hit(k)
      BY <1>1 DEF CallFacts, Learnt
    <3>3. QED BY <2>1, <3>1, <3>2 DEF Endings
  <2>3. QED BY <1>2, <2>1, <2>2 DEF Hit
<1>5. QED BY <1>3, <1>4

\* The task tool kills a task.
LEMMA KillTaskKeeps ==
  ASSUME CommandInv, NEW k \in Calls, NEW works \in BOOLEAN, K!KillTask(k, works)
  PROVE  CommandInv'
<1> DEFINE a == IF ~works \/ (engine = "remote" /\ ~K!Running(k, tasks[k].process))
                THEN K!Answer("unkilled", K!Unknown, FALSE) ELSE K!Answer("killed", 0, FALSE)
<1>1. a \in AnAnswer /\ a.status \in {"unkilled", "killed"} BY DEF AnAnswer, K!Answer, K!Unknown
<1>2. /\ commandCall[k].pc = "free" /\ commandCall[k].kind = "task" /\ Tracked(k)
      /\ K!Kill(k, works) /\ answer' = [answer EXCEPT ![k] = a]
      /\ UNCHANGED <<engine, commandCall, requests, commandStopping>>
  BY DEF K!KillTask, K!At, Tracked
<1>3. commandCall' = [commandCall EXCEPT ![k] = commandCall'[k]] /\ commandCall'[k] \in ACommand
  BY <1>2 DEF CommandInv, CommandTyped
<1> HIDE DEF a
<1>4. QED BY <1>1, <1>2, <1>3, KillFacts, EndsKeep

\* The shell tool ends its command: at a stop, or when its time is over.
LEMMA ShellEndsKeep ==
  ASSUME CommandInv, NEW k \in Calls, NEW works \in BOOLEAN, K!Interrupt(k, works) \/ K!ShellTimeout(k, works)
  PROVE  CommandInv'
<1> DEFINE a == IF K!Interrupt(k, works) THEN K!Answer("stopped", K!Unknown, FALSE) ELSE K!Answer("timeout", K!Unknown, FALSE)
<1>1. a \in AnAnswer /\ a.status \in {"stopped", "timeout"} BY DEF AnAnswer, K!Answer, K!Unknown
<1>2. /\ commandCall[k].pc \in {"free", "ran"} /\ commandCall[k].kind = "shell"
      /\ K!Kill(k, works) /\ answer' = [answer EXCEPT ![k] = a]
      /\ commandCall' = [commandCall EXCEPT ![k].pc = "returned"]
      /\ UNCHANGED <<engine, requests, commandStopping>>
  <2>1. CASE K!Interrupt(k, works) BY <2>1 DEF K!Interrupt, K!At, K!Return, K!Goto
  <2>2. CASE ~K!Interrupt(k, works)
    <3>1. commandCall[k].pc = "ran" /\ commandCall[k].kind = "shell"
      BY <2>2, CallFactsHold DEF K!ShellTimeout, K!At, CallFacts, Placed, PlacedAt
    <3>2. QED BY <2>2, <3>1 DEF K!ShellTimeout, K!Return, K!Goto
  <2>3. QED BY <2>1, <2>2
<1>3. Tracked(k) BY <1>2, CallFactsHold DEF CallFacts, Placed, PlacedAt
<1>4. /\ commandCall' = [commandCall EXCEPT ![k] = commandCall'[k]] /\ commandCall'[k] \in ACommand
      /\ commandCall'[k].kind = commandCall[k].kind /\ commandCall'[k].pc = "returned"
  BY <1>2, CallFactsHold DEF CallFacts, CommandInv, CommandTyped, ACommand, Places
<1> HIDE DEF a
<1>5. QED BY <1>1, <1>2, <1>3, <1>4, KillFacts, EndsKeep

\* A local call kills its child at the timeout.
LEMMA LocalTimeoutKeeps ==
  ASSUME CommandInv, NEW k \in Calls, K!LocalTimeout(k)
  PROVE  CommandInv'
<1> DEFINE a == K!Answer("timeout", 137, TRUE)
<1>1. a \in AnAnswer /\ a.status = "timeout" BY DEF AnAnswer, K!Answer
<1>2. /\ commandCall[k].pc = "polling" /\ engine = "local"
      /\ procs' = IF K!Running(k, 1) THEN K!Ended(k, 1, 137) ELSE procs
      /\ answer' = [answer EXCEPT ![k] = a] /\ commandCall' = [commandCall EXCEPT ![k].pc = "returned"]
      /\ UNCHANGED <<engine, requests, tasks, commandStopping, faults, outages>>
  BY DEF K!LocalTimeout, K!At, K!Return, K!Goto
<1>3. DOMAIN procs[k] = {1}
  <2>1. procs[k] # <<>> /\ Len(procs[k]) <= 1 /\ procs[k] \in Seq(AProcess)
    BY <1>2, CallFactsHold DEF CallFacts, Placed, PlacedAt
  <2>2. QED BY <2>1
<1>4. Endings(k) /\ \A i \in DOMAIN procs[k] : procs'[k][i].state = "ended" BY <1>2, <1>3, EndedBy
<1>5. /\ commandCall' = [commandCall EXCEPT ![k] = commandCall'[k]] /\ commandCall'[k] \in ACommand
      /\ commandCall'[k].kind = commandCall[k].kind /\ commandCall'[k].pc = "returned"
  BY <1>2, CallFactsHold DEF CallFacts, CommandInv, CommandTyped, ACommand, Places
<1>6. faults' \in 0..MaxFaults BY <1>2 DEF CommandInv, CommandTyped
<1> HIDE DEF a
<1>7. QED BY <1>1, <1>2, <1>4, <1>5, <1>6, EndsKeep

\* The run is stopped, or nothing changes.
LEMMA CommandsStay ==
  ASSUME CommandInv, commandStopping' \in BOOLEAN,
         UNCHANGED <<engine, commandCall, requests, procs, tasks, answer, faults, outages>>
  PROVE  CommandInv'
<1>1. CommandTyped' BY DEF CommandInv, CommandTyped
<1>2. ASSUME NEW k \in Calls PROVE Sound(k)'
  <2>1. Sound(k) BY DEF CommandInv
  <2>2. Placed(k)' BY <2>1 DEF Sound, Placed, PlacedAt, Tracked
  <2>3. Starts(k)' BY <2>1 DEF Sound, Starts, Hit
  <2>4. Learnt(k)' BY <2>1 DEF Sound, Learnt, Over, Came, Noted, Hit, Tracked
  <2>5. Truthful(k)' BY <2>1 DEF Sound, Truthful, Over, Came, Gone, Early, Hit, Tracked
  <2>6. QED BY <2>2, <2>3, <2>4, <2>5 DEF Sound
<1>3. QED BY <1>1, <1>2 DEF CommandInv

\* Before the first call nothing is there.
LEMMA CommandsBegin ==
  ASSUME K!Init
  PROVE  CommandInv
<1>1. MaxFaults \in Nat BY Assumed DEF K!CommandsAssumption
<1>2. DOMAIN tasks = {} /\ outages = {} /\ \A k \in Calls : ~Tracked(k) /\ ~Hit(k)
  BY DEF K!Init, Tracked, Hit
<1>3. CommandTyped
  <2>1. commandCall \in [Calls -> ACommand] BY DEF K!Init, ACommand, Places
  <2>2. answer \in [Calls -> AnAnswer] BY DEF K!Init, K!Nothing, AnAnswer
  <2>3. requests \in [Calls -> Seq(AStart)] /\ procs \in [Calls -> Seq(AProcess)] BY DEF K!Init
  <2>4. DOMAIN tasks \subseteq Calls /\ tasks \in [DOMAIN tasks -> ATask] BY <1>2
  <2>5. engine \in {"local", "remote"} /\ commandStopping \in BOOLEAN BY DEF K!Init
  <2>6. faults = MaxFaults BY DEF K!Init
  <2>7. faults \in 0..MaxFaults BY <1>1, <2>6
  <2>8. QED BY <1>2, <2>1, <2>2, <2>3, <2>4, <2>5, <2>7 DEF CommandTyped
<1>4. ASSUME NEW k \in Calls PROVE Sound(k)
  <2>1. /\ commandCall[k].pc = "idle" /\ commandCall[k].kind = "none" /\ requests[k] = <<>> /\ procs[k] = <<>>
        /\ answer[k].status = "none" /\ ~Tracked(k)
    BY <1>2 DEF K!Init, K!Nothing
  <2>2. Placed(k) BY <2>1 DEF Placed, PlacedAt
  <2>3. Starts(k) BY <2>1 DEF Starts
  <2>4. Learnt(k) BY <2>1 DEF Learnt
  <2>5. Truthful(k) BY <2>1 DEF Truthful, K!Final
  <2>6. QED BY <2>2, <2>3, <2>4, <2>5 DEF Sound
<1>5. QED BY <1>3, <1>4 DEF CommandInv

\* Every step keeps the invariant.
LEMMA CommandsStep ==
  ASSUME InTurn, CommandInv, [K!Next]_K!vars
  PROVE  CommandInv'
<1>1. CASE UNCHANGED K!vars
  BY <1>1, CommandsStay DEF K!vars, CommandInv, CommandTyped
<1>2. CASE K!Stop
  BY <1>2, CommandsStay DEF K!Stop, CommandInv
<1>3. ASSUME NEW k \in Calls, NEW does \in {"exec", "task", "shell"}, K!Begin(k, does) PROVE CommandInv'
  BY <1>3, BeginCommand
<1>4. ASSUME NEW k \in Calls, K!Client(k) PROVE CommandInv'
  <2>1. CASE K!LocalStart(k) \/ K!Send(k) \/ K!Reply(k)
    BY <2>1, LocalStartKeeps, SendStartKeeps, StartRepliesKeeps
  <2>2. CASE K!LocalWait(k) \/ K!LocalVerdict(k)
    BY <2>2, LocalWaitKeeps, LocalVerdictKeeps
  <2>3. CASE K!Poll(k) \/ K!GiveUp(k) \/ K!Again(k)
    BY <2>3, PollKeeps, GiveUpPollKeeps, AgainKeeps
  <2>4. ASSUME NEW works \in BOOLEAN, NEW code \in K!Codes \cup {K!Unknown, 137}, K!ReadExit(k, works, code)
        PROVE  CommandInv'
    <3>1. code \in Int BY DEF K!Codes, K!Unknown, K!TimedOut
    <3>2. QED BY <2>4, <3>1, ReadExitKeeps
  <2>5. ASSUME NEW works \in BOOLEAN, K!ReadOutput(k, works) \/ K!Look(k, works) \/ K!Judge(k, works)
        PROVE  CommandInv'
    BY <2>5, ReadOutputKeeps, LookKeeps, JudgeKeeps
  <2>6. ASSUME NEW works \in BOOLEAN, K!Interrupt(k, works) \/ K!ShellTimeout(k, works)
        PROVE  CommandInv'
    BY <2>6, ShellEndsKeep
  <2>7. QED BY <1>4, <2>1, <2>2, <2>3, <2>4, <2>5, <2>6 DEF K!Client
<1>5. ASSUME NEW k \in Calls, K!Host(k) PROVE CommandInv'
  <2>1. ASSUME NEW i \in DOMAIN requests[k], K!Check(k, i) \/ K!Launch(k, i) PROVE CommandInv'
    BY <2>1, CheckKeeps, LaunchKeeps
  <2>2. ASSUME NEW n \in DOMAIN procs[k], K!TimeUp(k, n) PROVE CommandInv'
    BY <2>2, ProcessKeeps
  <2>3. ASSUME NEW n \in DOMAIN procs[k], NEW code \in {K!TimedOut, 137}, K!Overrun(k, n, code) PROVE CommandInv'
    <3>1. code \in Int BY DEF K!TimedOut
    <3>2. QED BY <2>3, <3>1, ProcessKeeps
  <2>4. CASE K!Notice(k) BY <2>4, NoticeKeeps
  <2>5. QED BY <1>5, <2>1, <2>2, <2>3, <2>4 DEF K!Host
<1>6. ASSUME NEW k \in Calls, K!LoseReply(k) \/ K!StartFails(k) \/ K!LocalTimeout(k) PROVE CommandInv'
  BY <1>6, LoseReplyKeeps, StartFailsKeeps, LocalTimeoutKeeps
<1>7. ASSUME NEW k \in Calls, K!StreamBreaks(k) \/ K!AskStatus(k) \/ K!Overdue(k) PROVE CommandInv'
  BY <1>7, StreamBreaksKeeps, AskStatusKeeps, OverdueKeeps
<1>8. ASSUME NEW k \in Calls, NEW works \in BOOLEAN, K!KillTask(k, works) PROVE CommandInv'
  BY <1>8, KillTaskKeeps
<1>9. ASSUME NEW k \in Calls, NEW n \in DOMAIN procs[k], K!KilledOutside(k, n) PROVE CommandInv'
  BY <1>9, ProcessKeeps
<1>10. ASSUME NEW k \in Calls, NEW n \in DOMAIN procs[k], NEW code \in K!Codes, K!Exit(k, n, code) PROVE CommandInv'
  <2>1. code \in Int BY DEF K!Codes, K!TimedOut
  <2>2. QED BY <1>10, <2>1, ProcessKeeps
<1>11. QED BY <1>1, <1>2, <1>3, <1>4, <1>5, <1>6, <1>7, <1>8, <1>9, <1>10 DEF K!Next

\* The invariant says that results are true and whole, and that nothing is run twice.
LEMMA CommandsAreTold ==
  ASSUME CommandInv
  PROVE  K!ResultIsTrue /\ K!OutputWhole /\ K!RunsOnce /\ K!TypeOK
<1>1. K!TypeOK
  BY DEF CommandInv, CommandTyped, Sound, Learnt, Tracked, K!TypeOK
<1>2. ASSUME NEW k \in Calls
      PROVE  LET a == answer[k]
                 codes == {procs[k][n].code : n \in {m \in DOMAIN procs[k] : ~K!Running(k, m)}}
             IN  /\ a.status = "success" => 0 \in codes
                 /\ a.status = "error" => a.code \in codes \/ (a.code = K!Unknown /\ k \in outages)
                 /\ a.status \in {"stopped", "killed"} \/ (a.status = "timeout" /\ commandCall[k].kind # "exec") =>
                     k \in outages \/ \A n \in DOMAIN procs[k] : ~K!Running(k, n)
  <2> DEFINE codes == {procs[k][n].code : n \in {m \in DOMAIN procs[k] : ~K!Running(k, m)}}
  <2>1. Truthful(k) BY DEF CommandInv, Sound
  <2>2. \A x : Came(k, x) <=> x \in codes BY DEF Came, Over, K!Running
  <2>3. Gone(k) <=> \A n \in DOMAIN procs[k] : ~K!Running(k, n) BY DEF Gone, Over, K!Running
  <2>4. 0 # K!Unknown BY DEF K!Unknown
  <2> HIDE DEF codes
  <2>5. /\ answer[k].status = "success" => 0 \in codes
        /\ answer[k].status = "error" => answer[k].code \in codes \/ (answer[k].code = K!Unknown /\ k \in outages)
    BY <2>1, <2>2, <2>4 DEF Truthful, K!Final, Hit
  <2>6. QED BY <2>1, <2>3, <2>5 DEF Truthful, Hit, codes
<1>3. K!ResultIsTrue BY <1>2 DEF K!ResultIsTrue
<1>4. K!OutputWhole BY DEF CommandInv, Sound, Truthful, Hit, K!OutputWhole
<1>5. K!RunsOnce BY DEF CommandInv, Sound, Starts, K!RunsOnce
<1>6. QED BY <1>1, <1>3, <1>4, <1>5

\* What has been told of an end is not told otherwise later, unless the task is killed.
LEMMA FinishedStay ==
  ASSUME CommandInv, [K!Next]_K!vars
  PROVE  K!FinishedStays
<1>1. SUFFICES ASSUME NEW k \in Calls, answer[k].status \in K!Final,
                      answer'[k].status \notin {"killed", "unkilled"}
               PROVE  answer'[k].status = answer[k].status /\ answer'[k].code = answer[k].code
  BY DEF K!FinishedStays
<1>2. CallFacts(k) /\ answer \in [Calls -> AnAnswer] BY CallFactsHold DEF CommandInv, CommandTyped
<1>3. /\ ~Early(k)
      /\ commandCall[k].pc # "returned" =>
          /\ commandCall[k].kind = "task" /\ Tracked(k) /\ tasks[k].finished
          /\ tasks[k].code = answer[k].code /\ answer[k].status = K!ByCode(tasks[k].code)
          /\ commandCall[k].pc \in {"looking", "judging"} => commandCall[k].done
  BY <1>1, <1>2 DEF CallFacts, Truthful, K!Final
<1>4. SUFFICES ASSUME answer'[k] # answer[k]
               PROVE  answer'[k].status = answer[k].status /\ answer'[k].code = answer[k].code
  OBVIOUS
<1>5. \A j \in Calls : \A a : answer' = [answer EXCEPT ![j] = a] => j = k /\ answer'[k] = a
  BY <1>2, <1>4
<1>6. ASSUME NEW j \in Calls, K!LocalStart(j) \/ K!Reply(j) \/ K!StartFails(j) PROVE FALSE
  BY <1>3, <1>5, <1>6 DEF K!LocalStart, K!Reply, K!StartFails, K!Launched, K!At, Early
<1>7. ASSUME NEW j \in Calls, NEW works \in BOOLEAN, NEW code,
             K!LocalWait(j) \/ K!LocalTimeout(j) \/ K!ReadExit(j, works, code) \/ K!ReadOutput(j, works)
      PROVE  FALSE
  <2>1. j = k /\ commandCall[k].pc \in {"polling", "ending", "output"}
    BY <1>4, <1>5, <1>7 DEF K!LocalWait, K!LocalTimeout, K!ReadExit, K!ReadOutput, K!Return, K!At
  <2>2. QED BY <1>2, <1>3, <2>1 DEF CallFacts, Placed, PlacedAt
<1>8. ASSUME NEW j \in Calls, NEW works \in BOOLEAN, K!Interrupt(j, works) \/ K!ShellTimeout(j, works) PROVE FALSE
  <2>1. j = k /\ ((commandCall[k].pc = "free" /\ commandCall[k].kind = "shell") \/ commandCall[k].pc = "ran")
    BY <1>5, <1>8 DEF K!Interrupt, K!ShellTimeout, K!Return, K!At
  <2>2. QED BY <1>2, <1>3, <2>1 DEF CallFacts, Placed, PlacedAt
<1>9. ASSUME NEW j \in Calls, NEW works \in BOOLEAN, K!KillTask(j, works) PROVE FALSE
  <2> DEFINE a == IF ~works \/ (engine = "remote" /\ ~K!Running(j, tasks[j].process))
                  THEN K!Answer("unkilled", K!Unknown, FALSE) ELSE K!Answer("killed", 0, FALSE)
  <2>1. answer' = [answer EXCEPT ![j] = a] BY <1>9 DEF K!KillTask
  <2>2. a.status \in {"unkilled", "killed"} BY DEF K!Answer
  <2> HIDE DEF a
  <2>3. QED BY <1>1, <1>5, <2>1, <2>2
<1>10. ASSUME NEW j \in Calls, K!LocalVerdict(j)
       PROVE  answer'[k].status = answer[k].status /\ answer'[k].code = answer[k].code
  <2>1. j = k /\ commandCall[k].pc = "judging" BY <1>5, <1>10 DEF K!LocalVerdict, K!Say, K!At
  <2>2. answer'[k] = K!Answer(K!ByCode(tasks[k].code), tasks[k].code, commandCall[k].whole)
    BY <1>2, <1>3, <1>10, <2>1 DEF K!LocalVerdict, K!Say
  <2>3. QED BY <1>3, <2>1, <2>2 DEF K!Answer
<1>11. ASSUME NEW j \in Calls, NEW works \in BOOLEAN, K!Judge(j, works)
       PROVE  answer'[k].status = answer[k].status /\ answer'[k].code = answer[k].code
  <2>1. j = k /\ commandCall[k].pc = "judging" BY <1>5, <1>11 DEF K!Judge, K!Say, K!At
  <2>2. answer'[k] = K!Answer(K!ByCode(tasks[k].code), tasks[k].code, commandCall[k].whole)
    BY <1>2, <1>3, <1>11, <2>1 DEF K!Judge, K!Say
  <2>3. QED BY <1>3, <2>1, <2>2 DEF K!Answer
<1>12. CASE UNCHANGED K!vars BY <1>4, <1>12 DEF K!vars
<1>13. CASE K!Stop BY <1>4, <1>13 DEF K!Stop
<1>14. ASSUME NEW j \in Calls, K!Client(j)
       PROVE  answer'[k].status = answer[k].status /\ answer'[k].code = answer[k].code
  <2>1. K!Send(j) \/ K!Poll(j) \/ K!GiveUp(j) \/ K!Again(j) \/ (\E works \in BOOLEAN : K!Look(j, works)) => answer' = answer
    BY DEF K!Send, K!Poll, K!GiveUp, K!Again, K!Look
  <2>2. ASSUME NEW works \in BOOLEAN, NEW code, K!ReadExit(j, works, code) PROVE FALSE BY <1>7, <2>2
  <2>3. ASSUME NEW works \in BOOLEAN, K!ReadOutput(j, works) PROVE FALSE BY <1>7, <2>3
  <2>4. ASSUME K!LocalWait(j) PROVE FALSE BY <1>7, <2>4
  <2>5. QED BY <1>4, <1>6, <1>8, <1>10, <1>11, <1>14, <2>1, <2>2, <2>3, <2>4 DEF K!Client
<1>15. ASSUME NEW j \in Calls, K!Host(j) PROVE answer' = answer
  BY <1>15 DEF K!Host, K!Check, K!Launch, K!TimeUp, K!Overrun, K!Notice
<1>16. ASSUME NEW j \in Calls, K!LoseReply(j) \/ K!StreamBreaks(j) \/ K!AskStatus(j) \/ K!Overdue(j) PROVE answer' = answer
  BY <1>16 DEF K!LoseReply, K!StreamBreaks, K!AskStatus, K!Overdue
<1>17. ASSUME NEW j \in Calls, NEW does, NEW n, NEW code, K!Begin(j, does) \/ K!KilledOutside(j, n) \/ K!Exit(j, n, code)
       PROVE  answer' = answer
  BY <1>17 DEF K!Begin, K!KilledOutside, K!Exit
<1>18. QED BY <1>4, <1>6, <1>7, <1>9, <1>12, <1>13, <1>14, <1>15, <1>16, <1>17 DEF K!Next

\* A result speaks of the process it is about and comes with all of its output, unless a
\* fault has hit the call; a start that is repeated after a lost reply runs no command
\* twice; and a task once reported as finished stays so.  It holds for every number of
\* commands and of faults, local and remote, wherever a request is lost and whenever the
\* run is stopped (local_sandbox.py, e2b_sandbox.py, run_shell_command.py).
THEOREM CommandsRunAsTold ==
  ASSUME InTurn
  PROVE  Spec => RunsAsTold /\ [](part = "command" => K!TypeOK)
<1> DEFINE I == part = "command" => CommandInv
<1>1. Init => I
  BY OneBegins, CommandsBegin
<1>2. I /\ [Next]_vars => I'
  BY OneSteps, CommandsStep
<1>3. I /\ [Next]_vars => (part = "command" => K!FinishedStays)
  BY OneSteps, FinishedStay
<1>4. I => (part = "command" => K!ResultIsTrue /\ K!OutputWhole /\ K!RunsOnce) /\ (part = "command" => K!TypeOK)
  BY CommandsAreTold
<1>5. QED BY <1>1, <1>2, <1>3, <1>4, PTL DEF Spec, RunsAsTold
=============================================================================
