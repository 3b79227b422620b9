-------------------------- MODULE SecurityDashboard --------------------------
(***************************************************************************)
(* SecurityDashboardGenerator.run() of scripts/generate-security-          *)
(* dashboard.py, invoked repeatedly (say once per CI job) against the     *)
(* files it shares with the outside world:                                 *)
(*   report    security-assessment-report.json, written by the external   *)
(*             ./hack/security-assessment.sh and read back by the program; *)
(*   trivy     trivy-results.json, written by the Trivy scanner;           *)
(*   dashboard security-dashboard.html and metrics security-metrics.json,  *)
(*             written by the program.                                     *)
(* One invocation runs its steps in order; between two steps it may be     *)
(* killed (a CI timeout: the script call has no timeout), and some inputs  *)
(* make it raise an exception that nothing catches.  Timestamps are the    *)
(* invocation number `run'.  Percentages and severities are kept; the HTML *)
(* and the wording are not.                                                *)
(***************************************************************************)
EXTENDS Naturals, Sequences, FiniteSets

CONSTANTS
    MaxRuns,    \* number of invocations explored
    Pcts,       \* summary.percentage values the assessment script may report
    Scans,      \* trivy-results.json contents the scanner may leave
    NoFile,     \* a file that does not exist
    Malformed,  \* a file that exists but is not valid JSON
    Null,       \* a JSON null
    Absent      \* a key missing from a JSON object

ASSUME MaxRunsAssumption == MaxRuns \in Nat
ASSUME PctsAssumption == Pcts \subseteq 0..100

(* The Severity values Trivy writes, the ones str.lower() of line 68 maps.  *)
TrivySeverities == {"CRITICAL", "HIGH", "MEDIUM", "LOW", "UNKNOWN"}

ASSUME SentinelAssumption ==
    /\ NoFile # Malformed
    /\ Null # Absent
    /\ Null \notin TrivySeverities /\ Absent \notin TrivySeverities
    /\ NoFile \notin Scans /\ Malformed \notin Scans

(* A parsed trivy-results.json as the loops of lines 66-68 see it: null, or *)
(* a list of Results, each null or a list of Vulnerabilities, each null, a *)
(* vulnerability without Severity, or one with a Trivy severity.           *)
ASSUME ScansAssumption ==
    Scans \subseteq {Null} \cup Seq({Null} \cup Seq({Null, Absent} \cup TrivySeverities))

VARIABLES
    pc,          \* where the current invocation is, "idle" between invocations
    run,         \* number of the current (or last) invocation: self.timestamp
    results,     \* self.results
    doc, ri, vi, counts, \* locals of collect_vulnerability_metrics
    report,      \* security-assessment-report.json
    trivy,       \* trivy-results.json
    dashboard,   \* security-dashboard.html
    metrics      \* security-metrics.json

vars == <<pc, run, results, doc, ri, vi, counts, report, trivy, dashboard, metrics>>

(* The four severity keys of metrics['vulnerabilities'] (lines 47-52).      *)
Tiers == {"critical", "high", "medium", "low"}

(* str.lower() on those values.                                             *)
Lower(s) ==
    CASE s = "CRITICAL" -> "critical"
      [] s = "HIGH"     -> "high"
      [] s = "MEDIUM"   -> "medium"
      [] s = "LOW"      -> "low"
      [] s = "UNKNOWN"  -> "unknown"

(* vuln.get('Severity', 'LOW').lower() (line 68); a null Severity raises.   *)
SeverityOf(v) == Lower(IF v = Absent THEN "LOW" ELSE v)

(* Mutation of CountSeverity: counts every severity under its own key, as *)
(* `d[severity] = d.get(severity, 0) + 1' would.                           *)
CountSeverityAnyKey(c, s) ==
    [t \in DOMAIN c \cup {s} |-> IF t = s THEN (IF t \in DOMAIN c THEN c[t] ELSE 0) + 1
                                         ELSE c[t]]

(* `if severity in metrics['vulnerabilities']: ... += 1' (lines 69-70).     *)
CountSeverity(c, s) == IF s \in Tiers THEN [c EXCEPT ![s] = @ + 1] ELSE c

NoVulns == [t \in Tiers |-> 0]

(* sum(vulnerabilities.values()) (line 274).                                *)
TotalVulns(c) == c["critical"] + c["high"] + c["medium"] + c["low"]

(* A self.results key that has not been set.                                *)
Unset == Absent

(* The summary put in self.results['assessment'] by the except branch      *)
(* (lines 34-40); `from' records which invocation wrote the report read,   *)
(* 0 for none.                                                             *)
DefaultAssessment == [pct |-> 0, from |-> 0]

(* What line 31 stores when the report file holds a valid document.        *)
AssessmentOf(f) == [pct |-> f.pct, from |-> f.run]

(* generate_compliance_report (lines 75-99): three fixed standards and an  *)
(* overall figure written as the literal 84.3, kept here in tenths.        *)
ComplianceStandards ==
    << [name |-> "CIS_Kubernetes", score |-> 85, passed |-> 95, total |-> 112],
       [name |-> "NIST_CSF", score |-> 78, passed |-> 156, total |-> 200],
       [name |-> "OWASP_API", score |-> 90, passed |-> 9, total |-> 10] >>
ComplianceReport == [standards |-> ComplianceStandards, overall |-> 843]

(* Mutation of NextStep: the metrics JSON is written before the dashboard. *)
NextStepMetricsFirst == [assess |-> "vulns", vulns |-> "compliance",
                         compliance |-> "metrics", metrics |-> "html", html |-> "idle"]

(* The order of the steps of run() (lines 347-362): each step is followed  *)
(* by the next one, the last by the end of the invocation.                  *)
NextStep == [assess |-> "vulns", vulns |-> "compliance",
             compliance |-> "html", html |-> "metrics", metrics |-> "idle"]

(* A file cut short by open(..., 'w') before the write completed.           *)
Truncated(r) == [run |-> r]

ReportFiles == {NoFile, Malformed} \cup [run : 1..MaxRuns, pct : Pcts]
ScanFiles == {NoFile, Malformed} \cup Scans
Counts == [Tiers -> Nat]
Assessments == {Unset} \cup [pct : Pcts \cup {0}, from : 0..MaxRuns]
Dashboards == [run : 1..MaxRuns, score : Pcts \cup {0}, scoreFrom : 0..MaxRuns,
               vulns : Counts, total : Nat, scan : Scans \cup {<<>>},
               compliance : Nat]
MetricsFiles == [run : 1..MaxRuns, score : Pcts \cup {0}, vulns : Counts,
                 compliance : Nat]
(* NoFile stands for a missing file, never for a file's contents.          *)
ASSUME NoFileAssumption ==
    NoFile \notin [run : Nat] \cup Dashboards \cup MetricsFiles

Pcs == {"idle", "assess", "hung", "vulns", "scan", "compliance",
        "html", "html_write", "metrics", "metrics_write"}

TypeOK ==
    /\ pc \in Pcs
    /\ run \in 0..MaxRuns
    /\ results \in [assessment : Assessments,
                    vulnerabilities : {Unset} \cup Counts,
                    scanned : {Unset} \cup Scans \cup {<<>>},
                    compliance : {Unset, ComplianceReport}]
    /\ counts \in Counts
    /\ ri \in Nat /\ vi \in Nat
    /\ report \in ReportFiles
    /\ trivy \in ScanFiles
    /\ dashboard \in {NoFile} \cup Dashboards \cup [run : 1..MaxRuns]
    /\ metrics \in {NoFile} \cup MetricsFiles \cup [run : 1..MaxRuns]

Init ==
    /\ pc = "idle"
    /\ run = 0
    /\ results = [assessment |-> Unset, vulnerabilities |-> Unset,
                  scanned |-> Unset, compliance |-> Unset]
    /\ doc = <<>> /\ ri = 1 /\ vi = 1 /\ counts = NoVulns
    /\ report \in {NoFile, Malformed}
    /\ trivy \in ScanFiles
    /\ dashboard = NoFile
    /\ metrics = NoFile

-----------------------------------------------------------------------------
(* The environment between invocations.                                    *)

(* The Trivy scanner rewrites (or removes) trivy-results.json.              *)
Rescan ==
    /\ pc = "idle"
    /\ trivy' \in ScanFiles
    /\ UNCHANGED <<pc, run, results, doc, ri, vi, counts, report, dashboard, metrics>>

(* `generator = SecurityDashboardGenerator(); generator.run()' (lines      *)
(* 14-17, 370-372): a fresh object with an empty self.results.              *)
StartRun ==
    /\ pc = "idle"
    /\ run < MaxRuns
    /\ run' = run + 1
    /\ results' = [assessment |-> Unset, vulnerabilities |-> Unset,
                   scanned |-> Unset, compliance |-> Unset]
    /\ pc' = "assess"
    /\ UNCHANGED <<doc, ri, vi, counts, report, trivy, dashboard, metrics>>

(* The process is killed wherever it is; its files stay as they are.       *)
Kill ==
    /\ pc # "idle"
    /\ pc' = "idle"
    /\ UNCHANGED <<run, results, doc, ri, vi, counts, report, trivy, dashboard, metrics>>

-----------------------------------------------------------------------------
(* run_security_assessment (lines 19-42).                                  *)

(* subprocess.run raises (the script is missing or not executable): the    *)
(* except branch stores the zero summary.                                  *)
AssessLaunchFails ==
    /\ pc = "assess"
    /\ results' = [results EXCEPT !.assessment = DefaultAssessment]
    /\ pc' = NextStep["assess"]
    /\ UNCHANGED <<run, doc, ri, vi, counts, report, trivy, dashboard, metrics>>

(* The script returns, with whatever exit status (check is not set): it    *)
(* has written a fresh report, a malformed one, or left the file alone.    *)
(* The report is then loaded if it exists; json.load raising on a          *)
(* malformed file lands in the except branch.                              *)
AssessScriptReturns ==
    /\ pc = "assess"
    /\ \E f \in {report, Malformed} \cup [run : {run}, pct : Pcts] :
          /\ report' = f
          /\ results' =
               [results EXCEPT !.assessment =
                  CASE f = NoFile    -> @
                    [] f = Malformed -> DefaultAssessment
                    [] OTHER         -> AssessmentOf(f)]
    /\ pc' = NextStep["assess"]
    /\ UNCHANGED <<run, doc, ri, vi, counts, trivy, dashboard, metrics>>

(* The script never returns: no timeout is passed to subprocess.run.        *)
AssessScriptHangs ==
    /\ pc = "assess"
    /\ pc' = "hung"
    /\ UNCHANGED <<run, results, doc, ri, vi, counts, report, trivy, dashboard, metrics>>

-----------------------------------------------------------------------------
(* collect_vulnerability_metrics (lines 44-73).                            *)

(* No trivy-results.json: the zero counts are stored.                      *)
CollectNoScan ==
    /\ pc = "vulns"
    /\ trivy = NoFile
    /\ results' = [results EXCEPT !.vulnerabilities = NoVulns, !.scanned = <<>>]
    /\ pc' = NextStep["vulns"]
    /\ UNCHANGED <<run, doc, ri, vi, counts, report, trivy, dashboard, metrics>>

(* json.load raises on a malformed file; nothing catches it.               *)
CollectMalformed ==
    /\ pc = "vulns"
    /\ trivy = Malformed
    /\ pc' = "idle"
    /\ UNCHANGED <<run, results, doc, ri, vi, counts, report, trivy, dashboard, metrics>>

(* Mutation of CollectStartScan: the counts are kept from the previous     *)
(* invocation instead of starting from zero (a counter kept on self).      *)
CollectStartScanNoReset ==
    /\ pc = "vulns"
    /\ trivy \in Scans
    /\ doc' = trivy
    /\ ri' = 1 /\ vi' = 1
    /\ pc' = "scan"
    /\ UNCHANGED <<run, results, counts, report, trivy, dashboard, metrics>>

(* The file is parsed into trivy_data and the loops start with zero counts. *)
CollectStartScan ==
    /\ pc = "vulns"
    /\ trivy \in Scans
    /\ doc' = trivy
    /\ ri' = 1 /\ vi' = 1
    /\ counts' = NoVulns
    /\ pc' = "scan"
    /\ UNCHANGED <<run, results, report, trivy, dashboard, metrics>>

(* `for vuln in result.get('Vulnerabilities', [])': one entry counted.      *)
ScanCount ==
    /\ pc = "scan"
    /\ doc # Null
    /\ ri <= Len(doc)
    /\ doc[ri] # Null
    /\ vi <= Len(doc[ri])
    /\ doc[ri][vi] # Null
    /\ counts' = CountSeverity(counts, SeverityOf(doc[ri][vi]))
    /\ vi' = vi + 1
    /\ UNCHANGED <<pc, run, results, doc, ri, report, trivy, dashboard, metrics>>

(* The inner loop ends; the outer one moves to the next result.            *)
ScanNextResult ==
    /\ pc = "scan"
    /\ doc # Null
    /\ ri <= Len(doc)
    /\ doc[ri] # Null
    /\ vi > Len(doc[ri])
    /\ ri' = ri + 1 /\ vi' = 1
    /\ UNCHANGED <<pc, run, results, doc, counts, report, trivy, dashboard, metrics>>

(* A null where a list or a string is expected ("Results": null,           *)
(* "Vulnerabilities": null, "Severity": null) raises a TypeError or an     *)
(* AttributeError that nothing catches.                                    *)
ScanRaises ==
    /\ pc = "scan"
    /\ IF doc = Null THEN TRUE
       ELSE /\ ri <= Len(doc)
            /\ IF doc[ri] = Null THEN TRUE
               ELSE vi <= Len(doc[ri]) /\ doc[ri][vi] = Null
    /\ pc' = "idle"
    /\ UNCHANGED <<run, results, doc, ri, vi, counts, report, trivy, dashboard, metrics>>

(* Both loops are done: self.results['vulnerabilities'] = metrics.         *)
ScanEnd ==
    /\ pc = "scan"
    /\ doc # Null
    /\ ri > Len(doc)
    /\ results' = [results EXCEPT !.vulnerabilities = counts, !.scanned = doc]
    /\ pc' = NextStep["vulns"]
    /\ UNCHANGED <<run, doc, ri, vi, counts, report, trivy, dashboard, metrics>>

-----------------------------------------------------------------------------
(* generate_compliance_report (lines 75-99).                               *)
GenerateCompliance ==
    /\ pc = "compliance"
    /\ results' = [results EXCEPT !.compliance = ComplianceReport]
    /\ pc' = NextStep["compliance"]
    /\ UNCHANGED <<run, doc, ri, vi, counts, report, trivy, dashboard, metrics>>

-----------------------------------------------------------------------------
(* Writing the outputs.                                                    *)

(* security_score: results['assessment']['summary'].get('percentage', 0)  *)
(* (lines 104, 310, 326).                                                  *)
SecurityScore == IF results.assessment = Unset THEN 0 ELSE results.assessment.pct
ScoreFrom == IF results.assessment = Unset THEN 0 ELSE results.assessment.from

(* compliance.get('overall_compliance', 0), in tenths: the metrics JSON    *)
(* keeps the float (line 327), the dashboard shows int() of it (line 311). *)
OverallCompliance == IF results.compliance = Unset THEN 0 ELSE results.compliance.overall
ComplianceScore == OverallCompliance \div 10

(* generate_html_dashboard fills the template, then                        *)
(* open('security-dashboard.html', 'w') truncates the file (lines 357-358).*)
OpenDashboard ==
    /\ pc = "html"
    /\ dashboard' = Truncated(run)
    /\ pc' = "html_write"
    /\ UNCHANGED <<run, results, doc, ri, vi, counts, report, trivy, metrics>>

(* f.write(html_content) (line 359); the figures of lines 273-320.         *)
WriteDashboard ==
    /\ pc = "html_write"
    /\ dashboard' = [run |-> run, score |-> SecurityScore, scoreFrom |-> ScoreFrom,
                     vulns |-> results.vulnerabilities,
                     total |-> TotalVulns(results.vulnerabilities),
                     scan |-> results.scanned, compliance |-> ComplianceScore]
    /\ pc' = NextStep["html"]
    /\ UNCHANGED <<run, results, doc, ri, vi, counts, report, trivy, metrics>>

(* generate_metrics_json: open('security-metrics.json', 'w') (line 336).   *)
OpenMetrics ==
    /\ pc = "metrics"
    /\ metrics' = Truncated(run)
    /\ pc' = "metrics_write"
    /\ UNCHANGED <<run, results, doc, ri, vi, counts, report, trivy, dashboard>>

(* json.dump(metrics, f) (lines 324-337); then run() returns.              *)
WriteMetrics ==
    /\ pc = "metrics_write"
    /\ metrics' = [run |-> run, score |-> SecurityScore,
                   vulns |-> results.vulnerabilities, compliance |-> OverallCompliance]
    /\ pc' = NextStep["metrics"]
    /\ UNCHANGED <<run, results, doc, ri, vi, counts, report, trivy, dashboard>>

-----------------------------------------------------------------------------
(* The steps the program takes by itself once the script has returned.     *)
ProgramStep ==
    \/ CollectNoScan \/ CollectMalformed \/ CollectStartScan
    \/ ScanCount \/ ScanNextResult \/ ScanRaises \/ ScanEnd
    \/ GenerateCompliance
    \/ OpenDashboard \/ WriteDashboard \/ OpenMetrics \/ WriteMetrics

Next ==
    \/ Rescan \/ StartRun \/ Kill
    \/ AssessLaunchFails \/ AssessScriptReturns \/ AssessScriptHangs
    \/ ProgramStep

(* The interpreter runs a single thread that is never starved: once the    *)
(* script has returned, the program keeps taking steps until it ends or is *)
(* killed.  The script itself, the scanner and the kill get no fairness.   *)
Spec == Init /\ [][Next]_vars /\ WF_vars(ProgramStep)

-----------------------------------------------------------------------------
(* Properties.                                                             *)

(* A file the program finished writing.                                    *)
Complete(f) == f # NoFile /\ f # Truncated(f.run)

(* Reference count of a scan, from spec section 8: each entry of each      *)
(* result counts once in the tier named by its Severity, an entry without  *)
(* Severity as "low", other severities in no tier.                         *)
Entries(d) == UNION {{<<i, j>> : j \in 1..Len(d[i])} : i \in 1..Len(d)}
RefTier(v) ==
    CASE v = "CRITICAL" -> "critical"
      [] v = "HIGH"     -> "high"
      [] v = "MEDIUM"   -> "medium"
      [] v \in {"LOW", Absent} -> "low"
      [] OTHER -> "none"
RefTally(d) ==
    [t \in Tiers |-> Cardinality({e \in Entries(d) : RefTier(d[e[1]][e[2]]) = t})]

(* The severity counts and the total on a written dashboard are those of   *)
(* the Trivy scan its invocation read, whatever ran before it: the nested  *)
(* loops of collect_vulnerability_metrics (lines 61-70) and the sum of     *)
(* line 274 count every entry in a tier exactly once.                      *)
VulnCountsMatchScan ==
    Complete(dashboard) =>
        /\ dashboard.vulns = RefTally(dashboard.scan)
        /\ dashboard.total =
             Cardinality({e \in Entries(dashboard.scan) :
                            RefTier(dashboard.scan[e[1]][e[2]]) \in Tiers})

(* security-metrics.json never describes a later invocation than the one   *)
(* that last wrote (or began to write) security-dashboard.html, and when   *)
(* both come from the same invocation the dashboard is complete: run()     *)
(* finishes writing the dashboard before it opens the metrics file (lines  *)
(* 356-362), so a kill between or inside the two writes leaves an older    *)
(* metrics file, or one invocation's full dashboard beside its cut-short   *)
(* metrics, never a newer metrics file or both outputs of one invocation   *)
(* cut short.                                                              *)
MetricsNotNewerThanDashboard ==
    metrics # NoFile =>
        /\ dashboard # NoFile
        /\ metrics.run <= dashboard.run
        /\ metrics.run = dashboard.run => Complete(dashboard)

(* Spec section 7: when the assessment fails, zero defaults are shown.     *)
(* Stated as: the score on a dashboard is either the zero default or read  *)
(* from a report the same invocation's script wrote (lines 24-40).         *)
DashboardScoreFresh ==
    Complete(dashboard) => dashboard.scoreFrom \in {0, dashboard.run}

=============================================================================
