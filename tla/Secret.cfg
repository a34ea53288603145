CONSTANTS
    Process = {server, client}
    server = server
    client = client
    BOBVPN_HOME = None
    HOME = "/root/.config/bobvpn"
    None = None
    Torn = Torn
    Volume = {"/root/.bobvpn"}
    MaxSecret = 8
    MaxCrash = 3
SPECIFICATION FairSpec
CHECK_DEADLOCK FALSE
INVARIANTS TypeOK RunsWithFile NeverTorn
PROPERTIES SecretKept StartSucceeds
