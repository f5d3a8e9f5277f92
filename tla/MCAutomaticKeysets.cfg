SPECIFICATION Spec
CONSTANTS
    n1 = n1
    n2 = n2
    h1 = h1
    h2 = h2
    Fqdns = {managed, other}
    ManagedZone = {managed}
    Registrations = {i1, i2, i3}
    Nssets = {n1, n2}
    Nameservers = {h1, h2}
    RegistrarKeysets = {k1}
    AkmKeysets = {a1, a2}
    Scanners = {s1, s2}
    Published = {"second", "delete", "invalid", "unsigned"}
    InitialHosts <- MCInitialHosts
    KeysetClear = {TRUE, FALSE}
    MaxCommands = 2
    None = None
PROPERTIES LinksActOnPresentData DeleteKeyIsHonoured
CHECK_DEADLOCK FALSE
