SPECIFICATION Spec
CONSTANTS
    Request = {1, 2}
    Tx <- TxLists
    User = {"ann", "bob"}
    Device = {"phone"}
    Threads = 2
    Changes = {"blacklist", "whitelist", "BLACKLIST"}
    MaxChanges = 2
INVARIANTS ListsObeyed OneVerdict
CHECK_DEADLOCK FALSE
