SPECIFICATION FairSpec
CONSTANTS
    Peers = {0, 1, 2}
    Self = 9
    alpha_value = 2
    beta_value = 2
    k_value = 2
    max_reuse_count = 2
    Operations <- All
    Closer <- Answers
    Listed <- Lists
    MaxLost = 1
CHECK_DEADLOCK FALSE
INVARIANTS TasksAccounted LookupConverges
 
