SPECIFICATION LifeSpec
CONSTANTS
    MaxSlots = 2
    Clients = {c1, c2}
    c1 = c1
    c2 = c2
    Scenes <- MCScenes
    LowerCase <- MCLowerCase
    Number <- MCNumber
    ParseV4 <- MCParseV4
    ParseV6 <- MCParseV6
    ShowIp <- MCShowIp
    ShowPort <- MCShowPort
    Lossy <- MCLossy
    Dns <- MCDns
    Ephemeral <- MCEphemeral
CHECK_DEADLOCK FALSE
INVARIANTS
    BindsMatchListeners
    DisplayReaches
PROPERTIES
    LateBindReached
    ResourcesReleased
