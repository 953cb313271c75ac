\* Two plugins that share a tool name, one of them in two files, four instances, two calls on one thread.
CONSTANTS
    fa = fa
    fb = fb
    fc = fc
    a = a
    b = b
    t1 = t1
    t2 = t2
    h = h
    a1 = a1
    a2 = a2
    b1 = b1
    x1 = x1
    c1 = c1
    c2 = c2
    Host = Host
    None = None
    Files = {fa, fb, fc}
    Names = {a, b}
    Tools = {t1, t2, h}
    NameOf <- MCNameOf
    Offers <- MCOffers
    HostTools = {h}
    Instances = {a1, a2, b1, x1}
    FileOf <- MCFileOf
    Calls = {c1, c2}
    Threads = 1
    MaxPending = 1
SPECIFICATION Spec
INVARIANTS
    TypeOK
    OwnersAgree
    ToolsComeFromLoaded
CHECK_DEADLOCK FALSE
