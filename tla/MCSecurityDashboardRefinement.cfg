\* Three invocations, as in MCSecurityDashboard: counts of one invocation
\* could be confused with those of an earlier one from the second on.
CONSTANTS
    MaxRuns = 3
    Pcts <- MCPcts
    Scans <- MCScans
    NoFile = NoFile
    Malformed = Malformed
    Null = Null
    Absent = Absent
SPECIFICATION Spec
PROPERTIES
    CollectRefinesAbstract
