\* The integration test send_recv: request, pull, Rndv reply, pull, close.
CONSTANTS
    I16 = I16
    I12 = I12
    Rx = Rx
    Req = Req
    Rep = Rep
    SendReq = SendReq
    SendRep = SendRep
    Ep1 = Ep1
    Ep2 = Ep2
    NullEp = NullEp
    NoId = NoId
    NoRet = NoRet
    PayloadLen = 2
SPECIFICATION Spec
 
INVARIANT TestAssertionsHold
INVARIANT ExchangeEndsClean
PROPERTY TestCompletes
\* send_recv returns: the run stops once it has.
CHECK_DEADLOCK FALSE
