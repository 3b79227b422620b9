--------------------- MODULE SecurityDashboardAbstract ----------------------
(***************************************************************************)
(* What collect_vulnerability_metrics promises to run(), seen across       *)
(* invocations: once the assessment has returned, the invocation counts    *)
(* the Trivy scan it finds in ONE step, each entry in the tier its         *)
(* Severity names, or stops on an input it cannot read; then it finishes.  *)
(* The nested loops, the index variables and the partial counts of         *)
(* SecurityDashboard are not visible here.                                 *)
(***************************************************************************)
EXTENDS Naturals, Sequences, FiniteSets

CONSTANTS MaxRuns, Scans, NoFile, Malformed, Null, Absent

VARIABLES
    pc,        \* "idle", "assess", "hung", "vulns" or "after"
    run,       \* number of the current (or last) invocation
    vulns,     \* self.results['vulnerabilities'] (counts), Absent if unset
    scanned,   \* the scan those counts were taken from, Absent if unset
    trivy      \* trivy-results.json

avars == <<pc, run, vulns, scanned, trivy>>

Tiers == {"critical", "high", "medium", "low"}

(* The entries of a scan, as <<result index, entry index>>.                *)
Entries(d) == UNION {{<<i, j>> : j \in 1..Len(d[i])} : i \in 1..Len(d)}

(* The tier an entry counts in (spec section 8): its Severity in lower    *)
(* case, a missing Severity as "low", any other value in none.             *)
TierOf(v) ==
    CASE v = "CRITICAL" -> "critical"
      [] v = "HIGH"     -> "high"
      [] v = "MEDIUM"   -> "medium"
      [] v \in {"LOW", Absent} -> "low"
      [] OTHER -> "none"

Tally(d) == [t \in Tiers |-> Cardinality({e \in Entries(d) : TierOf(d[e[1]][e[2]]) = t})]

(* A null where the loops of lines 66-68 expect a list or a string.        *)
HasNull(d) ==
    IF d = Null THEN TRUE
    ELSE \E i \in 1..Len(d) :
            IF d[i] = Null THEN TRUE ELSE \E j \in 1..Len(d[i]) : d[i][j] = Null

Init ==
    /\ pc = "idle"
    /\ run = 0
    /\ vulns = Absent
    /\ scanned = Absent
    /\ trivy \in {NoFile, Malformed} \cup Scans

Rescan ==
    /\ pc = "idle"
    /\ trivy' \in {NoFile, Malformed} \cup Scans
    /\ UNCHANGED <<pc, run, vulns, scanned>>

StartRun ==
    /\ pc = "idle"
    /\ run < MaxRuns
    /\ run' = run + 1
    /\ vulns' = Absent /\ scanned' = Absent
    /\ pc' = "assess"
    /\ UNCHANGED trivy

(* run_security_assessment returns (whatever it stored) or never returns.  *)
Assess ==
    /\ pc = "assess"
    /\ pc' \in {"vulns", "hung"}
    /\ UNCHANGED <<run, vulns, scanned, trivy>>

(* collect_vulnerability_metrics as one step (lines 44-73).                *)
Collect ==
    /\ pc = "vulns"
    /\ IF trivy = NoFile
          THEN /\ vulns' = [t \in Tiers |-> 0] /\ scanned' = <<>>
               /\ pc' = "after"
       ELSE IF trivy = Malformed \/ HasNull(trivy)
          THEN /\ pc' = "idle"
               /\ UNCHANGED <<vulns, scanned>>
       ELSE /\ vulns' = Tally(trivy) /\ scanned' = trivy
            /\ pc' = "after"
    /\ UNCHANGED <<run, trivy>>

(* The rest of run() leaves the counts alone and ends the invocation.      *)
Finish ==
    /\ pc = "after"
    /\ pc' = "idle"
    /\ UNCHANGED <<run, vulns, scanned, trivy>>

Kill ==
    /\ pc # "idle"
    /\ pc' = "idle"
    /\ UNCHANGED <<run, vulns, scanned, trivy>>

Next == Rescan \/ StartRun \/ Assess \/ Collect \/ Finish \/ Kill

(* Once the assessment has returned the invocation keeps going.            *)
Spec == Init /\ [][Next]_avars /\ WF_avars(Collect \/ Finish)

=============================================================================
