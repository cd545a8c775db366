SPECIFICATION Spec
CONSTANTS
    ChanCap = 1
    WireCap = 1
    MaxReq = 2
    MaxResp = 2
    Failing = {"c", "s"}
    ReqKinds = {"chunk"}
    RespKinds = {"chunk", "err"}
INVARIANTS TypeOK ResponsesInOrder CleanEndComplete RequestsInOrder RequestEndHonest
PROPERTIES RequestsAreAPipe ResponsesAreAPipe
CHECK_DEADLOCK FALSE
