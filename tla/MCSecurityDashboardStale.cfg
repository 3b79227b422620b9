CONSTANTS
    MaxRuns = 3
    Pcts <- MCPcts
    Scans <- MCScans
    NoFile = NoFile
    Malformed = Malformed
    Null = Null
    Absent = Absent
SPECIFICATION Spec
INVARIANTS
    DashboardScoreFresh
