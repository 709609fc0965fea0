SPECIFICATION FairSpec
CONSTANTS
    ConnectionRefusedTimeout = 2
    AuthFailureTimeout = 2
    StartDialDelay = 1
    PingTimeout = 1
    Conns = {c1, c2}
    MaxTime = 6
INVARIANTS TypeOK PingOnlyBehindTunnel DialBounded AuthPatience
PROPERTIES WaitEnds LocalReleased
