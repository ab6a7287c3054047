SPECIFICATION Spec
CONSTANTS
    MaxSeq = 8
    MaxBranches = 2
    BatchSize = 2
    MaxBlocks = 2
    MaxRestarts = 1
    Compacts = TRUE
PROPERTY RepliesArePushed
CHECK_DEADLOCK FALSE
