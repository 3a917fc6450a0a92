SPECIFICATION SocketSpec
CONSTANTS
    Apps <- MCApps
    Channels <- MCChannels
    OwnChannel = "user"
    Joinable <- MCJoinable
    Socks <- MCSocks
    MaxMounts = 2
    MaxAwait = 2
    MaxStray = 1
    MaxOut = 2
INVARIANTS
    CurrentSocketInSync
PROPERTIES
    IdleOnlyWithoutToken
    Resubscribed
CHECK_DEADLOCK FALSE
