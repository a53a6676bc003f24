SPECIFICATION Spec
CONSTANTS
    c1 = c1
    c2 = c2
    c3 = c3
    c4 = c4
    c5 = c5
    k1 = k1
    k2 = k2
    a = a
    b = b
    empty = empty
    EmptyName = empty
    Io = io
    NoConn = NoConn
    Channels = {a, b}
    Conns = {c1, c2, c3, c4, c5}
    Keys = {k1, k2}
    KeyOf <- KeysReused
    ChannelOf <- TwoChannelsAndNone
    Workers = {w1, w2}
    Pools <- OnlyPool
    Authenticators <- AuthenticatorsOf
    Peers <- PeersOf
    Messages <- MessagesOf
    MaxMessages <- OneSendsTwo
INVARIANT NoChannelLeft
\* every connection may be closed and everything worked off
CHECK_DEADLOCK FALSE
