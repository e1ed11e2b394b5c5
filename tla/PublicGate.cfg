CONSTANTS
    g1 = g1
    g2 = g2
    pub1 = pub1
    pub2 = pub2
    local = local
    other = other
    r1 = r1
    r2 = r2
    m1 = m1
    m2 = m2
    n1 = n1
    n2 = n2
    Gates = {g1, g2}
    Hosts = {pub1, pub2, local, other}
    PUBLIC_HOSTS = {pub1, pub2}
    LOOPBACK_HOSTS = {local}
    Rooms = {r1, r2}
    Texts = {m1, m2}
    Nonces = {n1, n2}
    NoGate = NoGate
    MaxSent = 2
SPECIFICATION Spec
SYMMETRY Symmetry
INVARIANTS OpensAtMostOnce PublicOnlyAsBound
