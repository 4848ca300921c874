SPECIFICATION FairSpec
CONSTANTS
    a1 = a1
    s1 = s1
    u1 = u1
    u2 = u2
    u3 = u3
    d1 = d1
    d2 = d2
    r1 = r1
    r2 = r2
    Attachments = {}
    FileSends = {s1}
    Uploads = {u2, u3}
    Target <- SendOnly
    Drains = {d1}
    Restores = {}
    NoKey = NoKey
    Failures = {"upload", "gc"}
PROPERTIES
    GarbageCollected
CHECK_DEADLOCK FALSE
