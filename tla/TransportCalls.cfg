\* Two calls of three attempts each, with expiries and revocations between them.
CONSTANTS
    MaxRetries = 2
    Lost = TRUE
    MaxEvents = 2
    MaxCalls = 2
SPECIFICATION FairSpec
INVARIANT EndsInCallResults
PROPERTIES CallsEnd
\* With its calls and events spent the client rests.
CHECK_DEADLOCK FALSE
