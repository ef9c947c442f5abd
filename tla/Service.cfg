CONSTANTS
    c1 = c1
    c2 = c2
    k1 = k1
    k2 = k2
    Conns = {c1, c2}
    Locals = {c1}
    Identities = {o, a}
    Owner = o
    OwnerKey = k1
    KeyOf <- MCKeyOf
    Tokens = {t1}
    Stops = {s1}
    MaxUpsets = 1
    MaxMessages = 4
    None = none
SPECIFICATION Spec
INVARIANTS
    ServiceTypeOK
    RegistryExact
    IdentityProven
    InvitesEnrol
    NobodyLeftWaiting
CHECK_DEADLOCK FALSE
