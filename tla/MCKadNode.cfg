SPECIFICATION FairSpec
CONSTANTS
    NUM_BUCKETS = 4
    K_VALUE = 1
    Peers = {2, 3, 5}
    RecordKeys = {12}
    Callers = {1, 2}
    k_value = 1
    check_kad_peer_interval = 0
    record_ttl = 1
    provider_ttl = 1
    addr_ttl = 1
    max_records = 1
    max_value_bytes = 1
    max_providers_per_key = 2
    Budgets <- AllBudgets
    MaxTime = 1
CHECK_DEADLOCK FALSE
VIEW View
INVARIANTS TableMaintained StoreHolds
PROPERTIES LeavesForAReason  EverybodyIsServed
