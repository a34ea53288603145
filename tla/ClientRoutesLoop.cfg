CONSTANTS
    Addr4 = {a4, b4}
    Addr6 = {a6}
    a4 = a4
    b4 = b4
    a6 = a6
    Local = {b4}
    Gateway = {gw1, gw2}
    gw1 = gw1
    gw2 = gw2
    Eth0 = TRUE
SPECIFICATION Spec
CHECK_DEADLOCK FALSE
INVARIANT NoLoop
