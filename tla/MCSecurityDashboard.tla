------------------------ MODULE MCSecurityDashboard ------------------------
(* Small instance of SecurityDashboard for TLC.                            *)
EXTENDS SecurityDashboard

(* Trivy outputs: every tier, a missing Severity, UNKNOWN, an empty        *)
(* result, and the three nulls that raise.                                  *)
MCScanMixed == << <<"CRITICAL", Absent>>, <<>>, <<"UNKNOWN", "HIGH", "MEDIUM">> >>
MCScanLow == << <<"LOW">> >>
MCScanNullVulns == << <<"LOW">>, Null >>
MCScanNullSeverity == << <<Null>> >>
MCScans == {MCScanMixed, MCScanLow, MCScanNullVulns, MCScanNullSeverity, Null}

MCPcts == {40, 90}
=============================================================================
