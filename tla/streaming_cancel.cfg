SPECIFICATION PolledSpec
CONSTANTS
    ChanCap = 1
    WireCap = 1
    MaxReq = 3
    MaxResp = 3
    Failing = {}
    ReqKinds = {"chunk"}
    RespKinds = {"chunk"}
PROPERTIES DroppedEndStopsSender NoCrossBlocking
CHECK_DEADLOCK FALSE
