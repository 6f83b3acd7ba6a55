SPECIFICATION GSpec
CONSTANTS
    OIds = {o1, o2}
    Handlers = 2
    MaxCalls = 2
    Timeouts = FALSE
    Requests <- ReadBlkRequests
    Settings <- GatewaySettings
    Served <- Served1
    MethodOf <- Method1
    EncodeArgs <- SendOId
    DecodeArgs <- ReadOId
    Answers <- READ_RESULTs
    EncodeResult <- SendResult
    DecodeResult <- ReadAnswer
INVARIANT ResponseIsOfObject
CHECK_DEADLOCK FALSE
