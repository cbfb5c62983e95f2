CONSTANTS
    a1 = a1  a2 = a2  p1 = p1  x1 = x1  x2 = x2  q1 = q1  y1 = y1  y2 = y2  s1 = s1  k1 = k1  k2 = k2
    Authorities = {a1, a2}
    Peers = {p1}
    PeerSerials = {x1, x2}
    Relays = {q1}
    RelaySerials = {y1, y2}
    Services = {s1}
    PeerOf <- MCPeerOf
    RelayOf <- MCRelayOf
    ProviderOf <- MCProviderOf
    FirstAuthority = a1
    FirstRelay = q1
    FirstRelaySerial = y1
    FirstSerial = x1
    FirstService = s1
    Controls = {k1, k2}
    NoAuthority = NoAuthority
    Nobody = Nobody
    SignedStateVersions = 2
    Scopes <- MCScopes
SPECIFICATION FairSpec
INVARIANTS NoStaleProjection ConfigurationConsistent
PROPERTIES NoVersionReuse StoppedDeviceStaysOut EventuallyPublished
