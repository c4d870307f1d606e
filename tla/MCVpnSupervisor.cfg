SPECIFICATION FairSpec
CONSTANTS
    Window = 3
    MIN_MINT_SPACING = 4
    VPN_MINT_BACKOFF = 4
    ReconnectPause = 1
    ShortHold = 2
    VPN_TOKEN_MAX_AGE = 15
    SessionLife = 18
    Day = 18
    RefreshTimes = {3, 6}
    MaxReboots = 1
INVARIANT TypeOK
INVARIANT ExpiresOnlyUnrefreshed
INVARIANT CodesSpacedOut
PROPERTY TokenUsedWell
PROPERTY TunnelComesBack
