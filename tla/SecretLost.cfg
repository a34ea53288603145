CONSTANTS
    Process = {server}
    server = server
    BOBVPN_HOME = None
    HOME = "/root/.config/bobvpn"
    None = None
    Torn = Torn
    Volume = {"/root/.bobvpn"}
    MaxSecret = 2
    MaxCrash = 1
SPECIFICATION Spec
CHECK_DEADLOCK FALSE
INVARIANT SecretPersists
