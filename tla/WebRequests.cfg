SPECIFICATION FairSpec
CONSTANTS
    Plug = {"a", "rpc"}
    MaxGen = 2
    Req = {q, r}
    Url = {"u", "v"}
    Method = {"GET", "PUT"}
    Route <- SmallRoute
    Payload <- SmallPayload
INVARIANTS LeasesAreOneShot StopWaits
PROPERTIES EarlierRouteServes StopReturns
CHECK_DEADLOCK FALSE
