\* A server that may do anything, and a client that may be set up in any way.
SPECIFICATION Spec
CONSTANTS
    Settings <- MCSettings
    Statuses <- MCStatuses
    Contents <- MCContents
INVARIANTS ReasonTellsRetries NoTimerOutlivesItsAttempt AnalysisIsUsable
PROPERTIES AnswersAtLast
