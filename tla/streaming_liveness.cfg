SPECIFICATION FairSpec
CONSTANTS
    ChanCap = 1
    WireCap = 1
    MaxReq = 1
    MaxResp = 1
    Failing = {"c", "s"}
    ReqKinds = {"chunk", "nerr"}
    RespKinds = {"chunk", "big"}
PROPERTIES ServerWindsDown CallerLearnsEnd RequestEndDelivered
CHECK_DEADLOCK FALSE
