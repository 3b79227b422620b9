------------------- MODULE MCSecurityDashboardRefinement --------------------
(* Instance of SecurityDashboardRefinement for TLC, with the Trivy         *)
(* documents and percentages of MCSecurityDashboard.                       *)
EXTENDS SecurityDashboardRefinement, MCSecurityDashboard
=============================================================================
