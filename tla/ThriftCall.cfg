SPECIFICATION FairSpec
CONSTANTS
    MaxCalls = 3
    Timeouts = TRUE
    Requests <- AllRequests
    Settings <- MCSettings
    Served <- ServedBy
    MethodOf <- MethodIn
    EncodeArgs <- MCEncodeArgs
    DecodeArgs <- MCDecodeArgs
    Answers <- MCAnswers
    EncodeResult <- MCEncodeResult
    DecodeResult <- MCDecodeResult
INVARIANTS AnswerIsOwn VersionsAgree
PROPERTIES OutOfStepForEver EveryCallReturns
