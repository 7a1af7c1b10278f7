---- MODULE AiAnalysis ----
(***************************************************************************)
(* The AI package: one chat completion asked of OpenRouter with timeouts   *)
(* and retries, and what becomes of its answer: an analysis, or a fallback *)
(* that lets the audience decide.                                          *)
(*                                                                         *)
(* The server may answer anything, break the connection at any moment, or  *)
(* never answer.  A content is kept as what the parser looks at, an error  *)
(* message as the status it quotes.  No service of the repository calls    *)
(* the package yet: that the result is stored with the scoring service is  *)
(* how its types and comments say that it will be used.                    *)
(***************************************************************************)
EXTENDS ScoreMath, Sequences

CONSTANTS
    Settings,   \* what the client may be configured with and asked
    Statuses,   \* HTTP statuses of responses
    Contents    \* what the model may have written

VARIABLES
    setting,    \* configuration and input of this call
    at,         \* what the call waits for
    timer,      \* the timeout of the attempt
    failures,   \* how each attempt so far has failed
    completion, \* what createChatCompletion returns
    analysis    \* what is stored

vars == <<setting, at, timer, failures, completion, analysis>>

\* An environment variable or an option: absent, an integer, or anything else.
Values == [kind : {"absent", "integer", "other"}, n : Int]

\* resolveOpenRouterConfig takes an option as it is and parses the environment.
Throws(option, env, least) ==
    /\ option.kind = "absent"
    /\ env.kind = "other" \/ (env.kind = "integer" /\ env.n < least)
Resolved(option, env, default) ==
    IF option.kind # "absent" THEN option.n
    ELSE IF env.kind = "absent" THEN default ELSE env.n

MaxRetries == Resolved(setting.maxRetries, setting.envMaxRetries, 2)

ErrorTypes ==
    {"missing_api_key", "invalid_payload", "timeout", "network", "http", "invalid_json",
     "missing_content"}
Failures == [type : ErrorTypes, status : Statuses \cup {0}, retryable : BOOLEAN]
Failure(type, retryable) == [type |-> type, status |-> 0, retryable |-> retryable]

ExpectedKeys == {"summary", "forScore", "againstScore", "forFeedback", "againstFeedback"}

\* A content has a form: Markdown, no JSON, some other JSON value, or an object
\* with these keys, of which those in `bad` are blank, no text or no integer.
Forms == {"fenced", "broken", "other", "object"}

ASSUME ConstantsAssumption ==
    /\ \A s \in Settings :
           /\ s.maxRetries \in Values /\ s.maxRetries.kind # "other"
           /\ s.envMaxRetries \in Values
           /\ s.validPayload \in BOOLEAN /\ s.hasKey \in BOOLEAN
    /\ Statuses \subseteq 200..599
    /\ \A c \in Contents :
           c.form \in Forms /\ c.for \in Int /\ c.against \in Int /\ c.bad \subseteq ExpectedKeys

NoCompletion == [fallbackUsed |-> FALSE, failure |-> Failure("network", TRUE), content |-> {}]
NoAnalysis == [status |-> "none"]

Init ==
    /\ setting \in Settings
    /\ at = "unsent"
    /\ timer = "off"
    /\ failures = <<>>
    /\ completion = NoCompletion
    /\ analysis = NoAnalysis

-----------------------------------------------------------------------------
(* createChatCompletion                                                    *)

Fallback(failure) == [fallbackUsed |-> TRUE, failure |-> failure, content |-> {}]
Success(content) == [NoCompletion EXCEPT !.content = {content}]

Returns(result) == at' = "returned" /\ completion' = result

CreatesClient ==
    /\ at = "unsent"
    /\ at' = IF Throws(setting.maxRetries, setting.envMaxRetries, 0) THEN "thrown" ELSE "created"
    /\ UNCHANGED <<setting, timer, failures, completion, analysis>>

\* Mutant: the first attempt is not counted.
RetriesOnly == MaxRetries

Attempts == MaxRetries + 1

\* Mutant: an attempt arms no timer.
NoTimer == "off"

ArmedTimer == "armed"

Starts == at' = "fetching" /\ timer' = ArmedTimer

\* With an option below zero there is no attempt at all.
Begins ==
    /\ at = "created"
    /\ IF ~setting.validPayload
       THEN Returns(Fallback(Failure("invalid_payload", FALSE))) /\ UNCHANGED timer
       ELSE IF ~setting.hasKey
       THEN Returns(Fallback(Failure("missing_api_key", FALSE))) /\ UNCHANGED timer
       ELSE IF Attempts < 1
       THEN Returns(Fallback(Failure("network", TRUE))) /\ UNCHANGED timer
       ELSE Starts /\ UNCHANGED completion
    /\ UNCHANGED <<setting, failures, analysis>>

\* sleepFn(250), then sleepFn(500)
Wakes ==
    /\ at = "sleeping"
    /\ Starts
    /\ UNCHANGED <<setting, failures, completion, analysis>>

-----------------------------------------------------------------------------
(* attemptChatCompletion                                                   *)

\* Mutant: the timer is cleared when there is a response.
ClearedOnResponse == IF at = "reading" THEN "off" ELSE timer

\* `finally`
ClearedTimer == "off"

\* The attempt has failed, and the loop goes on or returns.
Fails(failure) ==
    /\ timer' = ClearedTimer
    /\ failures' = Append(failures, failure)
    /\ IF failure.retryable /\ Len(failures) + 1 < Attempts
       THEN at' = "sleeping" /\ UNCHANGED completion
       ELSE Returns(Fallback(failure))
    /\ UNCHANGED <<setting, analysis>>

TimerFires ==
    /\ timer = "armed"
    /\ timer' = "fired"
    /\ UNCHANGED <<setting, at, failures, completion, analysis>>

\* The abort rejects fetch.
FetchAborted ==
    /\ at = "fetching" /\ timer = "fired"
    /\ Fails(Failure("timeout", TRUE))

FetchRejects ==
    /\ at = "fetching" /\ timer # "fired"
    /\ Fails(Failure("network", TRUE))

Ok(status) == status \in 200..299

Transient(status) == status = 429 \/ status >= 500

Responds(status) ==
    /\ at = "fetching" /\ timer # "fired"
    /\ IF Ok(status)
       THEN at' = "reading" /\ UNCHANGED <<setting, timer, failures, completion, analysis>>
       ELSE Fails([type |-> "http", status |-> status, retryable |-> Transient(status)])

\* parseJson takes every error for invalid JSON, also the abort of the timer and
\* a connection that breaks.
BodyRejects ==
    /\ at = "reading"
    /\ Fails(Failure("invalid_json", FALSE))

BodyLacksContent ==
    /\ at = "reading" /\ timer # "fired"
    /\ Fails(Failure("missing_content", FALSE))

BodyHasContent(content) ==
    /\ at = "reading" /\ timer # "fired"
    /\ timer' = ClearedTimer
    /\ Returns(Success(content))
    /\ UNCHANGED <<setting, failures, analysis>>

-----------------------------------------------------------------------------
(* parseReplayAnalysisOutput and the fallbacks                             *)

\* Mutant: a score is any integer.
AnyScore(n) == TRUE

\* score
IsScore(n) == n \in Percent

ValidShape(content) ==
    /\ content.form = "object"
    /\ content.keys = ExpectedKeys
    /\ content.bad = {}
    /\ IsScore(content.for) /\ IsScore(content.against)

\* The code of the error that is thrown, if any.
ParseError(content) ==
    CASE content.form = "fenced" -> "markdown_not_allowed"
      [] content.form = "broken" -> "invalid_json"
      [] content.form \in {"other", "object"} -> IF ValidShape(content) THEN "none" ELSE "invalid_shape"

\* mapOpenRouterErrorType and httpFallbackReason
ReasonOf(failure) ==
    CASE failure.type = "http" ->
            (CASE failure.status = 429 -> "rate_limit"
               [] failure.status >= 500 -> "server_error"
               [] OTHER -> "unknown")
      [] failure.type = "invalid_payload" -> "unknown"
      [] OTHER -> failure.type

TextKeys == {"summary", "forFeedback", "againstFeedback"}

\* toStoreAiAnalysisFallbackPayload
FallbackAnalysis(reason) ==
    [status |-> "COMPLETED", texts |-> TextKeys, for |-> 0, against |-> 0, reason |-> reason]

ParsedAnalysis(content) ==
    [status |-> "COMPLETED", texts |-> TextKeys, for |-> content.for,
     against |-> content.against, reason |-> "none"]

\* The caller stores the analysis, or a fallback for whatever has gone wrong.
Stores ==
    /\ at = "returned"
    /\ at' = "stored"
    /\ IF completion.fallbackUsed
       THEN analysis' = FallbackAnalysis(ReasonOf(completion.failure))
       ELSE \E content \in completion.content :
                analysis' = IF ParseError(content) = "none" THEN ParsedAnalysis(content)
                            ELSE FallbackAnalysis("unknown")
    /\ UNCHANGED <<setting, timer, failures, completion>>

Ended == at \in {"thrown", "stored"} /\ UNCHANGED vars

-----------------------------------------------------------------------------

Server ==
    \/ FetchRejects
    \/ \E status \in Statuses : Responds(status)
    \/ BodyRejects
    \/ BodyLacksContent
    \/ \E content \in Contents : BodyHasContent(content)

Client == CreatesClient \/ Begins \/ Wakes \/ FetchAborted \/ Stores

Next == Client \/ TimerFires \/ Server \/ Ended

Safety == Init /\ [][Next]_vars

\* Timers fire, and an abort ends what it was given to; the server owes nothing.
AbortedRead == timer = "fired" /\ BodyRejects
Spec == Safety /\ WF_vars(Client) /\ WF_vars(TimerFires) /\ WF_vars(AbortedRead)

-----------------------------------------------------------------------------
(* Properties                                                              *)

Fetches == Len(failures) + IF at \in {"fetching", "reading"} THEN 1 ELSE 0

\* The reason given for a fallback tells whether trying again might have helped:
\* rate limits, server errors, aborts of fetch and broken connections are reported
\* when every attempt was made, anything else, an abort of the body's read among
\* it, on the first time it was met, after failures that were all worth another
\* attempt.
PassingReasons == {"rate_limit", "server_error", "timeout", "network"}
ReasonTellsRetries ==
    LET reason == ReasonOf(completion.failure)
        allowed == MaxRetries + 1
    IN
    /\ Fetches > 0 => Fetches <= allowed
    /\ at = "returned" /\ completion.fallbackUsed /\ failures # <<>> =>
           /\ completion.failure = failures[Len(failures)]
           /\ reason \in PassingReasons => Fetches = allowed
           /\ \A i \in 1..(Len(failures) - 1) : ReasonOf(failures[i]) \in PassingReasons

\* A timer is armed while its attempt waits and is gone when the attempt is over,
\* on every path, so it never aborts a later attempt or keeps the process alive.
NoTimerOutlivesItsAttempt == timer # "off" => at \in {"fetching", "reading"}

\* What is stored passes storeAiAnalysisResultSchema, and a fallback never makes
\* the side with fewer votes win, so it "should rely on audience scoring".
Electorate == 0..4
AnalysisIsUsable ==
    at = "stored" =>
        /\ analysis.status = "COMPLETED" /\ analysis.texts = TextKeys
        /\ analysis.for \in Percent /\ analysis.against \in Percent
        /\ analysis.reason # "none" =>
               \A f, a \in Electorate :
                   LET winner == FinalScore(analysis.for, analysis.against, f, a).winner IN
                   (f > a => winner # "AGAINST") /\ (a > f => winner # "FOR")

\* Every call is answered, even if the server never is heard of.
AnswersAtLast == at = "created" ~> at = "stored"

====
