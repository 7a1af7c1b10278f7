---- MODULE AiAnalysisProofs ----
(***************************************************************************)
(* Proofs about a chat completion, for every setting, every status that a  *)
(* server may send and every content that a model may write.               *)
(***************************************************************************)
EXTENDS AiAnalysis, TLAPS

\* The timer of an attempt is armed when its fetch starts; every way out of the
\* attempt, also out of reading the body, clears it.
THEOREM TimersEndWithAttempts == Safety => []NoTimerOutlivesItsAttempt
<1>1. Init => NoTimerOutlivesItsAttempt
  BY DEF Init, NoTimerOutlivesItsAttempt
<1>2. NoTimerOutlivesItsAttempt /\ [Next]_vars => NoTimerOutlivesItsAttempt'
  <2> SUFFICES ASSUME NoTimerOutlivesItsAttempt, [Next]_vars
               PROVE  NoTimerOutlivesItsAttempt'
    OBVIOUS
  <2> USE DEF NoTimerOutlivesItsAttempt
  <2>1. ASSUME NEW failure, Fails(failure) PROVE timer' = "off"
    BY <2>1 DEF Fails, ClearedTimer
  <2>2. CASE Client
    BY <2>1, <2>2
    DEF Client, CreatesClient, Begins, Wakes, FetchAborted, Stores, Starts, Returns
  <2>3. CASE TimerFires
    BY <2>3 DEF TimerFires
  <2>4. CASE Server
    <3>1. CASE FetchRejects \/ BodyRejects \/ BodyLacksContent
      BY <2>1, <3>1 DEF FetchRejects, BodyRejects, BodyLacksContent
    <3>2. ASSUME NEW status \in Statuses, Responds(status)
          PROVE  NoTimerOutlivesItsAttempt'
      BY <2>1, <3>2 DEF Responds
    <3>3. ASSUME NEW content \in Contents, BodyHasContent(content)
          PROVE  NoTimerOutlivesItsAttempt'
      BY <3>3 DEF BodyHasContent, ClearedTimer
    <3> QED
      BY <2>4, <3>1, <3>2, <3>3 DEF Server
  <2>5. CASE Ended \/ UNCHANGED vars
    BY <2>5 DEF Ended, vars
  <2> QED
    BY <2>2, <2>3, <2>4, <2>5 DEF Next
<1> QED
  BY <1>1, <1>2, PTL DEF Safety

-----------------------------------------------------------------------------
(* Failures and retries                                                    *)

\* What an attempt may fail with: what is worth another attempt and what is
\* reported as passing are the same.
TellingFailures ==
    {f \in [type : ErrorTypes, status : Int, retryable : BOOLEAN] :
        f.retryable <=> ReasonOf(f) \in PassingReasons}

LEMMA FailuresTell ==
    /\ Failure("timeout", TRUE) \in TellingFailures
    /\ Failure("network", TRUE) \in TellingFailures
    /\ Failure("invalid_json", FALSE) \in TellingFailures
    /\ Failure("missing_content", FALSE) \in TellingFailures
    /\ \A status \in Int :
           [type |-> "http", status |-> status, retryable |-> Transient(status)]
               \in TellingFailures
<1> USE DEF TellingFailures, PassingReasons, ErrorTypes
<1>1. /\ Failure("timeout", TRUE) \in TellingFailures
      /\ Failure("network", TRUE) \in TellingFailures
      /\ Failure("invalid_json", FALSE) \in TellingFailures
      /\ Failure("missing_content", FALSE) \in TellingFailures
  BY DEF Failure, ReasonOf
<1>2. ASSUME NEW status \in Int
      PROVE  [type |-> "http", status |-> status, retryable |-> Transient(status)]
                 \in TellingFailures
  <2> DEFINE f == [type |-> "http", status |-> status, retryable |-> Transient(status)]
  <2>1. CASE status = 429
    BY <2>1 DEF Transient, ReasonOf
  <2>2. CASE status # 429 /\ status >= 500
    BY <2>2 DEF Transient, ReasonOf
  <2>3. CASE status # 429 /\ ~(status >= 500)
    BY <2>3 DEF Transient, ReasonOf
  <2> QED
    BY <2>1, <2>2, <2>3
<1> QED
  BY <1>1, <1>2

Waiting == {"fetching", "reading", "sleeping"}
Places == Waiting \cup {"unsent", "created", "thrown", "returned", "stored"}

\* As long as the loop goes on, every failure was worth another attempt, and
\* there is one left.
RetriesInv ==
    /\ setting \in Settings
    /\ at \in Places
    /\ failures \in Seq(TellingFailures)
    /\ at \in {"unsent", "created", "thrown"} => failures = <<>>
    /\ at \in Waiting =>
           /\ Len(failures) < Attempts
           /\ \A i \in 1..Len(failures) : failures[i].retryable
    /\ failures # <<>> => Len(failures) <= Attempts
    /\ at = "returned" /\ completion.fallbackUsed /\ failures # <<>> =>
           /\ completion.failure = failures[Len(failures)]
           /\ completion.failure.retryable => Len(failures) = Attempts
           /\ \A i \in 1..(Len(failures) - 1) : failures[i].retryable

LEMMA RetriesAreIntegers ==
    ASSUME setting \in Settings
    PROVE  MaxRetries \in Int /\ Attempts = MaxRetries + 1 /\ Attempts \in Int
<1>1. /\ setting.maxRetries.kind \in {"absent", "integer", "other"} /\ setting.maxRetries.n \in Int
      /\ setting.envMaxRetries.n \in Int
  BY ConstantsAssumption DEF Values
<1>2. MaxRetries \in Int
  BY <1>1 DEF MaxRetries, Resolved
<1> QED
  BY <1>2 DEF Attempts

LEMMA FailsKeepsRetries ==
    ASSUME RetriesInv, NEW failure \in TellingFailures, at \in {"fetching", "reading"},
           Fails(failure)
    PROVE  RetriesInv'
<1> USE DEF RetriesInv
<1>1. Attempts \in Int /\ Attempts' = Attempts
  BY RetriesAreIntegers DEF Fails, Attempts, MaxRetries
<1>2. /\ failures' \in Seq(TellingFailures)
      /\ Len(failures') = Len(failures) + 1 /\ Len(failures) \in Nat
      /\ failures'[Len(failures')] = failure
      /\ \A i \in 1..Len(failures) : failures'[i] = failures[i]
  BY DEF Fails
<1>3. failures' # <<>>
  BY <1>2
<1>4. CASE failure.retryable /\ Len(failures) + 1 < Attempts
  <2>1. at' = "sleeping"
    BY <1>4 DEF Fails
  <2>2. \A i \in 1..Len(failures') : failures'[i].retryable
    BY <1>2, <1>4 DEF Waiting
  <2> QED
    BY <1>1, <1>2, <1>4, <2>1, <2>2 DEF Fails, Waiting, Places
<1>5. CASE ~(failure.retryable /\ Len(failures) + 1 < Attempts)
  <2>1. at' = "returned" /\ completion'.failure = failure
    BY <1>5 DEF Fails, Returns, Fallback
  <2>2. Len(failures') <= Attempts /\ (failure.retryable => Len(failures') = Attempts)
    BY <1>1, <1>2, <1>5 DEF Waiting
  <2>3. \A i \in 1..(Len(failures') - 1) : failures'[i].retryable
    BY <1>2 DEF Waiting
  <2> QED
    BY <1>1, <1>2, <2>1, <2>2, <2>3 DEF Fails, Waiting, Places
<1> QED
  BY <1>4, <1>5

LEMMA StepKeepsRetries == RetriesInv /\ [Next]_vars => RetriesInv'
<1> SUFFICES ASSUME RetriesInv, [Next]_vars PROVE RetriesInv'
  OBVIOUS
<1> USE DEF RetriesInv, Waiting, Places
<1>1. Attempts \in Int /\ MaxRetries \in Int
  BY RetriesAreIntegers
<1>2. CASE CreatesClient
  BY <1>2 DEF CreatesClient, Attempts, MaxRetries
<1>3. CASE Begins
  <2>1. failures = <<>> /\ Len(failures) = 0
    BY <1>3 DEF Begins
  <2>2. UNCHANGED <<setting, failures>> /\ Attempts' = Attempts
    BY <1>3 DEF Begins, Attempts, MaxRetries
  <2>3. at' = "returned" \/ (at' = "fetching" /\ ~(Attempts < 1))
    BY <1>3 DEF Begins, Starts, Returns
  <2> QED
    BY <1>1, <2>1, <2>2, <2>3
<1>4. CASE Wakes
  BY <1>4 DEF Wakes, Starts, Attempts, MaxRetries
<1>5. CASE FetchAborted \/ FetchRejects \/ BodyRejects \/ BodyLacksContent
  BY <1>5, FailuresTell, FailsKeepsRetries
  DEF FetchAborted, FetchRejects, BodyRejects, BodyLacksContent
<1>6. ASSUME NEW status \in Statuses, Responds(status) PROVE RetriesInv'
  <2>1. status \in Int
    BY ConstantsAssumption
  <2>2. CASE Ok(status)
    BY <1>6, <2>2 DEF Responds, Attempts, MaxRetries
  <2>3. CASE ~Ok(status)
    BY <1>6, <2>1, <2>3, FailuresTell, FailsKeepsRetries DEF Responds
  <2> QED
    BY <2>2, <2>3
<1>7. ASSUME NEW content \in Contents, BodyHasContent(content) PROVE RetriesInv'
  BY <1>7, <1>1 DEF BodyHasContent, Returns, Success, NoCompletion, Attempts, MaxRetries
<1>8. CASE TimerFires \/ Stores
  BY <1>8 DEF TimerFires, Stores, Attempts, MaxRetries
<1>9. CASE Ended \/ UNCHANGED vars
  BY <1>9 DEF Ended, vars, Attempts, MaxRetries
<1> QED
  BY <1>2, <1>3, <1>4, <1>5, <1>6, <1>7, <1>8, <1>9 DEF Next, Client, Server

\* The reason of a fallback tells whether the call was repeated as often as it may
\* be: the client never gives up early and never repeats what cannot help.
THEOREM ReasonsTellRetries == Safety => []ReasonTellsRetries
<1>1. Init => RetriesInv
  BY DEF Init, RetriesInv, Places, Waiting
<1>2. RetriesInv => ReasonTellsRetries
  <2> SUFFICES ASSUME RetriesInv PROVE ReasonTellsRetries
    OBVIOUS
  <2>1. MaxRetries \in Int /\ Attempts = MaxRetries + 1 /\ Len(failures) \in Nat
    BY RetriesAreIntegers DEF RetriesInv
  <2>2. Fetches > 0 => Fetches <= MaxRetries + 1
    BY <2>1 DEF RetriesInv, Fetches, Waiting
  <2>3. ASSUME at = "returned", completion.fallbackUsed, failures # <<>>
        PROVE  /\ completion.failure = failures[Len(failures)]
               /\ ReasonOf(completion.failure) \in PassingReasons => Fetches = MaxRetries + 1
               /\ \A i \in 1..(Len(failures) - 1) : ReasonOf(failures[i]) \in PassingReasons
    <3>1. \A i \in 1..Len(failures) :
              failures[i].retryable <=> ReasonOf(failures[i]) \in PassingReasons
      BY <2>1 DEF RetriesInv, TellingFailures
    <3>2. Len(failures) \in 1..Len(failures)
      BY <2>1, <2>3 DEF RetriesInv
    <3> QED
      BY <2>1, <2>3, <3>1, <3>2 DEF RetriesInv, Fetches
  <2> QED
    BY <2>2, <2>3 DEF ReasonTellsRetries
<1> QED
  BY <1>1, <1>2, StepKeepsRetries, PTL DEF Safety

-----------------------------------------------------------------------------
(* Scores                                                                  *)

\* Rounding a quotient keeps the order of the dividends, and percents are percents.
LEMMA RoundedMonotone ==
    ASSUME NEW x \in Int, NEW y \in Int, NEW m \in Nat \ {0}, x <= y
    PROVE  Rounded(x, m) \in Int /\ Rounded(x, m) <= Rounded(y, m)
BY DEF Rounded

LEMMA RoundedPercent ==
    ASSUME NEW m \in Nat \ {0}, NEW x \in 0..(100 * m)
    PROVE  Rounded(x, m) \in Percent
BY DEF Rounded, Percent

LEMMA PercentageOfVotes ==
    ASSUME NEW f \in Nat, NEW a \in Nat
    PROVE  /\ Percentage(f, f + a) \in Percent
           /\ a <= f => Percentage(a, f + a) <= Percentage(f, f + a)
<1>1. CASE f + a = 0
  BY <1>1 DEF Percentage, Percent
<1>2. CASE f + a # 0
  <2>1. f + a \in Nat \ {0} /\ 100 * f \in 0..(100 * (f + a))
    BY <1>2
  <2>2. Percentage(f, f + a) \in Percent
    BY <1>2, <2>1, RoundedPercent DEF Percentage
  <2>3. a <= f => 100 * a <= 100 * f /\ 100 * a \in Int /\ 100 * f \in Int
    OBVIOUS
  <2> QED
    BY <1>2, <2>1, <2>2, <2>3, RoundedMonotone DEF Percentage
<1> QED
  BY <1>1, <1>2

\* With equal scores of the analysis the side with more votes never loses.
LEMMA EqualScoresLeaveItToVotes ==
    ASSUME NEW n \in Percent, NEW f \in Nat, NEW a \in Nat
    PROVE  LET winner == FinalScore(n, n, f, a).winner IN
           (f > a => winner # "AGAINST") /\ (a > f => winner # "FOR")
<1>1. /\ Percentage(f, f + a) \in Percent /\ Percentage(a, f + a) \in Percent
      /\ a <= f => Percentage(a, f + a) <= Percentage(f, f + a)
      /\ f <= a => Percentage(f, f + a) <= Percentage(a, f + a)
  <2>1. a + f = f + a
    OBVIOUS
  <2> QED
    BY <2>1, PercentageOfVotes
<1>2. ASSUME NEW p \in Percent, NEW q \in Percent, p <= q
      PROVE  WeightedScore(n, p) \in Int /\ WeightedScore(n, p) <= WeightedScore(n, q)
  BY <1>2, RoundedMonotone DEF WeightedScore, Percent
<1>3. /\ WeightedScore(n, Percentage(f, f + a)) \in Int
      /\ WeightedScore(n, Percentage(a, f + a)) \in Int
  BY <1>1, <1>2 DEF Percent
<1>4. /\ a <= f => WeightedScore(n, Percentage(a, f + a)) <= WeightedScore(n, Percentage(f, f + a))
      /\ f <= a => WeightedScore(n, Percentage(f, f + a)) <= WeightedScore(n, Percentage(a, f + a))
  BY <1>1, <1>2
<1>5. (f > a => a <= f) /\ (a > f => f <= a)
  OBVIOUS
<1> QED
  BY <1>3, <1>4, <1>5 DEF FinalScore, WinnerSide

\* What is stored is an analysis that was parsed, or a fallback.
StoredInv ==
    /\ completion.content \subseteq Contents
    /\ at = "stored" =>
           \/ \E reason : analysis = FallbackAnalysis(reason)
           \/ \E content \in Contents :
                  ParseError(content) = "none" /\ analysis = ParsedAnalysis(content)

\* Whatever the model writes and however the call ends, what is stored passes the
\* schema of the scoring service, and a fallback leaves the result to the votes.
THEOREM StoredAnalysesAreUsable == Safety => []AnalysisIsUsable
<1>1. Init => StoredInv
  BY DEF Init, StoredInv, NoCompletion
<1>2. StoredInv /\ [Next]_vars => StoredInv'
  <2> SUFFICES ASSUME StoredInv, [Next]_vars PROVE StoredInv'
    OBVIOUS
  <2>1. CASE Stores
    BY <2>1 DEF Stores, StoredInv
  <2>2. CASE Ended \/ UNCHANGED vars \/ TimerFires
    BY <2>2 DEF Ended, vars, TimerFires, StoredInv
  <2>3. ASSUME NEW failure, Fails(failure) PROVE StoredInv'
    BY <2>3 DEF Fails, Returns, Fallback, StoredInv
  <2>4. ASSUME completion'.content \subseteq Contents, at' # "stored" PROVE StoredInv'
    BY <2>4 DEF StoredInv
  <2>5. ASSUME NEW failure, Returns(Fallback(failure)) PROVE StoredInv'
    BY <2>5 DEF Returns, Fallback, StoredInv
  <2>6. CASE CreatesClient
    BY <2>4, <2>6 DEF CreatesClient, StoredInv
  <2>7. CASE Begins
    <3>1. CASE \E failure : Returns(Fallback(failure))
      BY <2>5, <3>1
    <3>2. CASE at' = "fetching" /\ UNCHANGED completion
      BY <2>4, <3>2 DEF StoredInv
    <3> QED
      BY <2>7, <3>1, <3>2 DEF Begins, Starts
  <2>8. CASE Wakes
    BY <2>4, <2>8 DEF Wakes, Starts, StoredInv
  <2>9. CASE FetchAborted \/ FetchRejects \/ BodyRejects \/ BodyLacksContent
    BY <2>3, <2>9 DEF FetchAborted, FetchRejects, BodyRejects, BodyLacksContent
  <2>10. ASSUME NEW status \in Statuses, Responds(status) PROVE StoredInv'
    BY <2>3, <2>4, <2>10 DEF Responds, StoredInv
  <2>11. ASSUME NEW content \in Contents, BodyHasContent(content) PROVE StoredInv'
    <3>1. at' = "returned" /\ completion' = Success(content)
      BY <2>11 DEF BodyHasContent, Returns
    <3>2. completion'.content = {content}
      BY <3>1 DEF Success, NoCompletion
    <3> QED
      BY <2>4, <3>1, <3>2
  <2> QED
    BY <2>1, <2>2, <2>6, <2>7, <2>8, <2>9, <2>10, <2>11 DEF Next, Client, Server
<1>3. StoredInv => AnalysisIsUsable
  <2> SUFFICES ASSUME StoredInv, at = "stored" PROVE AnalysisIsUsable
    BY DEF AnalysisIsUsable
  <2>1. ASSUME NEW reason, analysis = FallbackAnalysis(reason) PROVE AnalysisIsUsable
    <3>1. /\ analysis.status = "COMPLETED" /\ analysis.texts = TextKeys
          /\ analysis.for = 0 /\ analysis.against = 0 /\ 0 \in Percent
      BY <2>1 DEF FallbackAnalysis, Percent
    <3>2. ASSUME NEW f \in Electorate, NEW a \in Electorate
          PROVE  LET winner == FinalScore(0, 0, f, a).winner IN
                 (f > a => winner # "AGAINST") /\ (a > f => winner # "FOR")
      <4>1. f \in Nat /\ a \in Nat
        BY DEF Electorate
      <4> QED
        BY <3>1, <4>1, EqualScoresLeaveItToVotes
    <3> QED
      BY <3>1, <3>2 DEF AnalysisIsUsable
  <2>2. ASSUME NEW content \in Contents, ParseError(content) = "none",
               analysis = ParsedAnalysis(content)
        PROVE  AnalysisIsUsable
    <3>1. ValidShape(content)
      BY <2>2, ConstantsAssumption DEF ParseError, Forms
    <3> QED
      BY <2>2, <3>1 DEF ValidShape, IsScore, ParsedAnalysis, AnalysisIsUsable
  <2> QED
    BY <2>1, <2>2 DEF StoredInv
<1> QED
  BY <1>1, <1>2, <1>3, PTL DEF Safety

====
