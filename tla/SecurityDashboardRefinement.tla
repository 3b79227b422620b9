-------------------- MODULE SecurityDashboardRefinement ---------------------
(***************************************************************************)
(* SecurityDashboard implements SecurityDashboardAbstract: the nested      *)
(* Trivy loops of collect_vulnerability_metrics, a step per entry, behave  *)
(* as the single counting step of the abstract specification.              *)
(***************************************************************************)
EXTENDS SecurityDashboard

(* The refinement mapping.  The loop steps (pc = "scan") are still the     *)
(* abstract "vulns" step, whose counting happens at ScanEnd; the steps     *)
(* after the counting are one abstract phase that WriteMetrics ends.       *)
AbsPc ==
    CASE pc \in {"vulns", "scan"} -> "vulns"
      [] pc \in {"compliance", "html", "html_write", "metrics", "metrics_write"} -> "after"
      [] OTHER -> pc

Abs == INSTANCE SecurityDashboardAbstract
           WITH pc <- AbsPc,
                vulns <- results.vulnerabilities,
                scanned <- results.scanned

(* Every behaviour of run() across invocations, kills and rescans is a     *)
(* behaviour of the abstract specification: the counts stored at the end   *)
(* of the loops (line 72) are the tally of the scan read at line 64, the   *)
(* loops stop with an exception exactly on the inputs that contain a null  *)
(* or do not parse, and they always end (lines 61-73).                     *)
CollectRefinesAbstract == Abs!Spec

=============================================================================
