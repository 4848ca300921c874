SPECIFICATION Spec
CONSTANTS
    a1 = a1
    s1 = s1
    u1 = u1
    u2 = u2
    u3 = u3
    d1 = d1
    d2 = d2
    r1 = r1
    r2 = r2
    Attachments = {a1}
    FileSends = {s1}
    Uploads = {u1, u2}
    Target <- OneEach
    Drains = {d1}
    Restores = {r1}
    NoKey = NoKey
    Failures = {}
PROPERTIES
    OldKeysQueuedAtSwitch
CHECK_DEADLOCK FALSE
