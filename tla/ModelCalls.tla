----------------------------- MODULE ModelCalls ------------------------------
(***************************************************************************)
(* One agent's calls of its model (src/nexau/archs/main_sub/execution/     *)
(* llm_caller.py): the retry loop, the middlewares wrapped around the call *)
(* (hooks.py, MiddlewareManager.wrap_model_call) and the two of them that  *)
(* act on failures, llm_failover.py with its circuit breaker and the       *)
(* emergency path of the context compaction.                               *)
(*                                                                         *)
(* A call goes down a chain of frames to a request and comes up again with *)
(* what became of it.  The synchronous path retries inside the             *)
(* middlewares, the asynchronous one around them; "native" is the          *)
(* asynchronous path of an agent without middlewares.                      *)
(***************************************************************************)
EXTENDS Sequences, Integers

CONSTANTS
    Fallbacks,  \* number of fallback_providers
    Retries,    \* retry_attempts
    Threshold,  \* failure_threshold of the breaker
    Chains,     \* the middlewares there may be: sequences of "failover" and "compaction"
    ApiTypes,   \* the api_types of the primary and of the fallbacks: pairs
    MaxCalls    \* bound on the calls of the agent

ModelCallsAssumption ==
    /\ Fallbacks \in Nat /\ MaxCalls \in Nat
    /\ Retries \in Nat \ {0} /\ Threshold \in Nat \ {0}
    /\ Chains \subseteq Seq({"failover", "compaction"})

Providers == 0..Fallbacks \* 0 is the primary

VARIABLES
    path,    \* "sync", "async" or "native"
    chain,   \* the middlewares, outermost first
    apis,    \* the api_type of each provider's configuration
    call,    \* [mode, level, outcome, attempt, provider, compacted]
    request, \* [asked, api, signed]: whose endpoint, in which dialect, with signatures
    breaker, \* [fails, state]; "half": open, and the recovery time is over
    stop,    \* the shutdown event of the run
    calls,   \* calls made
    sent,    \* history: the requests of this call, by provider asked
    late,    \* history: those sent after the stop
    raised,  \* history: what each provider has raised in this pass of the failover
    misses,  \* history: failures of the primary in a row, without time to recover
    forgiven \* history: a stop has come up through the failover as a success

vars == <<path, chain, apis, call, request, breaker, stop, calls, sent, late, raised, misses, forgiven>>

Frames == IF path = "sync" THEN Append(chain, "retry") ELSE <<"retry">> \o chain
Idle == [mode |-> "idle", level |-> 0, outcome |-> "none", attempt |-> 0, provider |-> 0, compacted |-> FALSE]
NoRequest == [asked |-> 0, api |-> "openai", signed |-> FALSE]
\* "refused" stands for every error that is neither a trigger nor an overflow: a
\* 400, an empty response, a StreamIdleTimeoutError.
Errors == {"outage", "refused", "overflow"}
None == [p \in Providers |-> "nothing"]

Init ==
    /\ path \in {"sync", "async", "native"}
    /\ chain \in IF path = "native" THEN {<<>>} ELSE Chains
    /\ apis \in {[p \in Providers |-> IF p = 0 THEN a[1] ELSE a[2]] : a \in ApiTypes}
    /\ call = Idle /\ request = NoRequest
    /\ breaker = [fails |-> 0, state |-> "closed"]
    /\ stop = FALSE /\ calls = 0
    /\ sent = [p \in Providers |-> 0] /\ late = 0 /\ raised = None /\ misses = 0 /\ forgiven = FALSE

Down(level) == [call EXCEPT !.mode = "down", !.level = level]
\* What has become of the frame below the level.
Up(level, outcome) == [call EXCEPT !.mode = "up", !.level = level, !.outcome = outcome]
At(frame) == call.level \in DOMAIN Frames /\ Frames[call.level] = frame
Going(frame) == call.mode = "down" /\ At(frame)
Coming(frame) == call.mode = "up" /\ At(frame)
Raised == call.outcome \in Errors
\* More than Retries are not told apart.
Counted(p) == [sent EXCEPT ![p] = IF @ < Retries THEN @ + 1 ELSE @]
HasFailover == \E i \in DOMAIN chain : chain[i] = "failover"

------------------------------------------------------------------------------
Begin ==
    /\ call.mode = "idle" /\ calls < MaxCalls
    /\ calls' = calls + 1 /\ stop' = FALSE
    /\ call' = [Idle EXCEPT !.mode = "down", !.level = 1]
    /\ sent' = [p \in Providers |-> 0] /\ late' = 0 /\ raised' = None
    /\ UNCHANGED <<path, chain, apis, request, breaker, misses, forgiven>>

Stop ==
    /\ call.mode # "idle" /\ ~stop /\ stop' = TRUE
    /\ UNCHANGED <<path, chain, apis, call, request, breaker, calls, sent, late, raised, misses, forgiven>>

\* Going down: the head of the retry loop, which on the asynchronous paths looks
\* at the stop; the choice of the first provider; the middleware of the compaction.
EnterRetry ==
    /\ Going("retry")
    /\ call' = [call EXCEPT !.mode = "head", !.attempt = 1]
    /\ UNCHANGED <<path, chain, apis, request, breaker, stop, calls, sent, late, raised, misses, forgiven>>
Head1 ==
    /\ call.mode = "head"
    /\ call' = IF path # "sync" /\ stop THEN Up(call.level - 1, "none") ELSE Down(call.level + 1)
    /\ UNCHANGED <<path, chain, apis, request, breaker, stop, calls, sent, late, raised, misses, forgiven>>

\* _apply_fallback: the parameters of a fallback provider, for what is below.
ApplyFallback(p) == [Down(call.level + 1) EXCEPT !.provider = p]

\* Seeded defect: the breaker is never asked.
SkipNever == FALSE
\* should_skip_primary
Skip == breaker.state = "open"
EnterFailover ==
    /\ Going("failover")
    /\ raised' = None
    /\ call' = IF ~Skip THEN [Down(call.level + 1) EXCEPT !.provider = 0]
               ELSE IF Fallbacks = 0 THEN Up(call.level - 1, "refused")
               ELSE ApplyFallback(1)
    /\ UNCHANGED <<path, chain, apis, request, breaker, stop, calls, sent, late, misses, forgiven>>
EnterCompaction ==
    /\ Going("compaction")
    /\ call' = [Down(call.level + 1) EXCEPT !.compacted = FALSE]
    /\ UNCHANGED <<path, chain, apis, request, breaker, stop, calls, sent, late, raised, misses, forgiven>>

\* The request.  The provider's client comes from the parameters of the call, the
\* dialect and, for Gemini, the endpoint from the caller's own configuration.
Asked == IF apis[0] = "gemini" THEN 0 ELSE call.provider
Send ==
    /\ call.mode = "down" /\ call.level = Len(Frames) + 1
    /\ IF path = "native" /\ stop
       THEN call' = Up(Len(Frames), "none") /\ UNCHANGED <<request, sent, late>>
       ELSE /\ call' = [call EXCEPT !.mode = "asking"]
            /\ request' = [asked |-> Asked, api |-> apis[0], signed |-> apis[0] = "anthropic"]
            /\ sent' = Counted(Asked)
            /\ late' = IF stop THEN late + 1 ELSE late
    /\ UNCHANGED <<path, chain, apis, breaker, stop, calls, raised, misses, forgiven>>

\* A client of another SDK does not know the dialect.
Understood == request.asked = 0 \/ apis[request.asked] = request.api
Outcomes == IF Understood THEN {"response"} \cup Errors ELSE {"refused"}

Reply(outcome) ==
    /\ call.mode = "asking" /\ outcome \in Outcomes
    /\ call' = Up(Len(Frames), outcome)
    /\ UNCHANGED <<path, chain, apis, request, breaker, stop, calls, sent, late, raised, misses, forgiven>>

\* Anthropic does not accept a signature: once more, without any.
StripSignatures ==
    /\ call.mode = "asking" /\ Understood /\ request.signed
    /\ request' = [request EXCEPT !.signed = FALSE]
    /\ sent' = Counted(request.asked)
    /\ late' = IF stop THEN late + 1 ELSE late
    /\ UNCHANGED <<path, chain, apis, call, breaker, stop, calls, raised, misses, forgiven>>

\* _call_once_async_cancellable
Cancel ==
    /\ call.mode = "asking" /\ path = "native" /\ stop
    /\ call' = Up(Len(Frames), "none")
    /\ UNCHANGED <<path, chain, apis, request, breaker, stop, calls, sent, late, raised, misses, forgiven>>

------------------------------------------------------------------------------
\* Seeded defect: one attempt too few.
RetryShort ==
    /\ Coming("retry")
    /\ call' = CASE ~Raised -> Up(call.level - 1, call.outcome)
                 [] Raised /\ stop -> Up(call.level - 1, "none")
                 [] Raised /\ ~stop /\ call.attempt >= Retries - 1 -> Up(call.level - 1, call.outcome)
                 [] OTHER -> [call EXCEPT !.mode = "sleeping"]
    /\ UNCHANGED <<path, chain, apis, request, breaker, stop, calls, sent, late, raised, misses, forgiven>>
\* Seeded defect: the handler does not look at the stop.
RetryStopped ==
    /\ Coming("retry")
    /\ call' = CASE ~Raised \/ call.attempt = Retries -> Up(call.level - 1, call.outcome)
                 [] OTHER -> [call EXCEPT !.mode = "sleeping"]
    /\ UNCHANGED <<path, chain, apis, request, breaker, stop, calls, sent, late, raised, misses, forgiven>>
\* Coming up: the retry loop.
Retry ==
    /\ Coming("retry")
    /\ call' = CASE ~Raised -> Up(call.level - 1, call.outcome)
                 [] Raised /\ stop -> Up(call.level - 1, "none")
                 [] Raised /\ ~stop /\ call.attempt = Retries -> Up(call.level - 1, call.outcome)
                 [] OTHER -> [call EXCEPT !.mode = "sleeping"]
    /\ UNCHANGED <<path, chain, apis, request, breaker, stop, calls, sent, late, raised, misses, forgiven>>
\* Seeded defect: the attempts are not counted.
WakeAgain ==
    /\ call.mode = "sleeping"
    /\ call' = [call EXCEPT !.mode = "head"]
    /\ UNCHANGED <<path, chain, apis, request, breaker, stop, calls, sent, late, raised, misses, forgiven>>
Wake ==
    /\ call.mode = "sleeping"
    /\ call' = [call EXCEPT !.mode = "head", !.attempt = @ + 1]
    /\ UNCHANGED <<path, chain, apis, request, breaker, stop, calls, sent, late, raised, misses, forgiven>>

\* The failover: the first error of the primary must be one of the triggers (an
\* SDK error with one of the status codes, which Gemini's errors are not).
Triggers == call.outcome = "outage" /\ apis[0] # "gemini"
RecordFailure == LET n == breaker.fails + 1
                 IN  breaker' = [fails |-> n, state |-> IF n >= Threshold THEN "open" ELSE breaker.state]
RecordSuccess == breaker' = [fails |-> 0, state |-> "closed"]

\* Seeded defect: the last of the fallback providers is never asked.
FailoverShort ==
    /\ Coming("failover")
    /\ IF call.provider # 0 THEN UNCHANGED <<breaker, misses, forgiven>>
       ELSE IF Raised THEN RecordFailure /\ misses' = misses + 1 /\ UNCHANGED forgiven
       ELSE RecordSuccess /\ misses' = 0 /\ UNCHANGED forgiven
    /\ raised' = [raised EXCEPT ![call.provider] = call.outcome]
    /\ call' = IF Raised /\ call.provider < Fallbacks - 1 /\ (call.provider = 0 => Triggers)
               THEN ApplyFallback(call.provider + 1)
               ELSE Up(call.level - 1, call.outcome)
    /\ UNCHANGED <<path, chain, apis, request, stop, calls, sent, late>>
Failover ==
    /\ Coming("failover")
    /\ IF call.provider # 0 THEN UNCHANGED <<breaker, misses, forgiven>>
       ELSE IF Raised THEN RecordFailure /\ misses' = misses + 1 /\ UNCHANGED forgiven
       ELSE /\ RecordSuccess
            /\ misses' = IF call.outcome = "response" THEN 0 ELSE misses
            /\ forgiven' = (forgiven \/ call.outcome = "none")
    /\ raised' = [raised EXCEPT ![call.provider] = call.outcome]
    /\ call' = IF Raised /\ call.provider < Fallbacks /\ (call.provider = 0 => Triggers)
               THEN ApplyFallback(call.provider + 1)
               ELSE Up(call.level - 1, call.outcome)
    /\ UNCHANGED <<path, chain, apis, request, stop, calls, sent, late>>

\* The recovery time goes by.
Recover ==
    /\ breaker.state = "open" /\ misses > 0
    /\ breaker' = [breaker EXCEPT !.state = "half"] /\ misses' = 0
    /\ UNCHANGED <<path, chain, apis, call, request, stop, calls, sent, late, raised, forgiven>>

\* Emergency compaction, once; it may fail or not make the prompt short enough.
Compact(works) ==
    /\ Coming("compaction")
    /\ works => call.outcome = "overflow" /\ ~call.compacted
    /\ call' = IF works THEN [Down(call.level + 1) EXCEPT !.compacted = TRUE]
               ELSE Up(call.level - 1, call.outcome)
    /\ UNCHANGED <<path, chain, apis, request, breaker, stop, calls, sent, late, raised, misses, forgiven>>

Finish ==
    /\ call.mode = "up" /\ call.level = 0
    /\ call' = [call EXCEPT !.mode = "idle"]
    /\ UNCHANGED <<path, chain, apis, request, breaker, stop, calls, sent, late, raised, misses, forgiven>>

Step ==
    \/ EnterRetry \/ Head1 \/ EnterFailover \/ EnterCompaction \/ Send
    \/ (\E outcome \in {"response"} \cup Errors : Reply(outcome)) \/ StripSignatures \/ Cancel
    \/ Retry \/ Wake \/ Failover \/ (\E works \in BOOLEAN : Compact(works)) \/ Finish

Next == Begin \/ Stop \/ Recover \/ Step

\* A request comes to an end (the SDK and the streams have timeouts), and the
\* caller goes on.
Spec == Init /\ [][Next]_vars /\ WF_vars(Step)

------------------------------------------------------------------------------
(* Properties *)

TypeOK ==
    /\ call.mode \in {"idle", "down", "head", "asking", "up", "sleeping"}
    /\ call.level \in 0..Len(Frames) + 1 /\ call.attempt \in 0..Retries /\ call.provider \in Providers
    /\ breaker.state \in {"closed", "open", "half"} /\ stop \in BOOLEAN

Over == call.mode = "idle" /\ calls > 0

\* The provider's endpoint was asked in this call, and the failover's last pass has seen it fail.
AskedInVain(p) == sent[p] > 0 /\ raised[p] \in Errors

\* A call fails only behind everything that could have helped: all of the attempts, and all of
\* the fallback providers unless the primary's error is none of the triggers; without a stop it
\* never comes back with nothing.  Of a failover from a Gemini primary nothing is said: all its
\* requests go to the primary (FallbackIsAsked is what fails there).
GivesUpLast ==
    Over =>
        /\ call.outcome = "none" => stop
        /\ Raised /\ ~HasFailover => sent[0] >= Retries
        /\ Raised /\ HasFailover /\ apis[0] # "gemini" =>
            /\ \/ AskedInVain(0) /\ raised[0] # "outage"
               \/ \A p \in Providers \ {0} : AskedInVain(p)
            /\ path = "sync" => \A p \in Providers : raised[p] \in Errors => sent[p] >= Retries

\* A stop is not answered with another round of requests: none on the native
\* path, the one that a sleep or the next provider was already due to on the
\* synchronous one; on the asynchronous one, whose attempts do not look at the
\* stop, at most one for each provider and compaction.  A request whose
\* signatures are refused counts twice.
StopEndsRequests ==
    late <= 2 * (CASE path = "native" -> 1
                   [] path = "sync" -> 1
                   [] OTHER -> (1 + Fallbacks) * (IF \E i \in DOMAIN chain : chain[i] = "compaction" THEN 2 ELSE 1))

\* A request is sent to the endpoint of the primary.
TroublesPrimary == call.mode = "down" /\ call'.mode = "asking" /\ request'.asked = 0

\* The breaker: a primary that has failed Threshold times in a row is not asked before the
\* recovery time is over, unless it is Gemini's, whose endpoint gets every request.
MustSpare == HasFailover /\ misses >= Threshold /\ ~forgiven
SparesPrimary == MustSpare /\ apis[0] # "gemini" => ~TroublesPrimary

\* Every call comes back.
CallsReturn == (call.mode # "idle") ~> (call.mode = "idle")

\* llm_caller.py: "with the shutdown event set there is no retry".
NoRetryAfterStop == late > 0 => call.attempt <= 1 \/ path # "sync"
\* llm_failover.py: the breaker closes when a call has succeeded.
StopIsNoSuccess == ~forgiven
\* RFC 0003: behind a trigger the fallback provider is asked, in its own dialect.
FallbackIsAsked == call.mode = "asking" => request.asked = call.provider /\ request.api = apis[call.provider]
\* llm_failover.py: while the breaker is open, the primary is skipped, whichever it is.
SparesAnyPrimary == MustSpare => ~TroublesPrimary
==============================================================================
