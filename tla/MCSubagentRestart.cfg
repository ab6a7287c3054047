\* A background subagent runs when the process ends.
SPECIFICATION AgentSpec
CONSTANTS
    Tasks = {"b1", "b2"}
    MaxEntries = 1
    MaxRounds = 1
    MaxCalls = 2
    MaxDeaths = 1
CHECK_DEADLOCK FALSE
INVARIANTS
    StillRunningIsTrue
