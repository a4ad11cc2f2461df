SPECIFICATION Spec
CONSTANTS
    r1 = r1
    r2 = r2
    r3 = r3
    r4 = r4
    r5 = r5
    Request = {r1, r2, r3, r4, r5}
    Tx <- TxBurst
    User = {"ann"}
    Device = {}
    Threads = 2
    Changes = {}
    MaxChanges = 0
INVARIANT VelocityOvershoot
SYMMETRY AnyOrder
CHECK_DEADLOCK FALSE
