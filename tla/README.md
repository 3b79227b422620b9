# Formal models of the gunj-operator report generators

This directory holds TLA+ models of the two Python scripts under
`src/scripts/`. It also holds the TLC configurations that check the models
and the TLAPS proofs about them.

## 1. Inventory

### Components

| Component | Source | State it keeps | Operations |
|---|---|---|---|
| Security dashboard generator | `generate-security-dashboard.py` | `self.timestamp`, `self.results` (keys `assessment`, `vulnerabilities`, `compliance`); files `security-assessment-report.json` (read), `trivy-results.json` (read), `security-dashboard.html`, `security-metrics.json` (written) | `run()`: `run_security_assessment` → `collect_vulnerability_metrics` → `generate_compliance_report` → `generate_html_dashboard` + write → `generate_metrics_json` (builds and writes) |
| Maturity report generator | `generate-maturity-report.py` | `self.report_data` (loaded once, in the constructor); files `maturity-assessment-report.json` (read), `maturity-report.html`, `maturity-report.md` (written) | constructor `_load_assessment_data`; `save_reports`: `generate_html_report` + write → `generate_markdown_report` + write |
| Recommendation engine | `_generate_recommendations` | none (pure) | five staged rule groups, then an "excellent" fallback |
| Compliance summary | `generate_compliance_report` | `self.results['compliance']` | stores three hard-coded standards and `overall_compliance` |
| Renderer | both scripts | none | `str.format` / f-string template substitution |
| External tools | `hack/security-assessment.sh`, Trivy (not in `src/`) | the JSON files they leave | run by CI or, for the script, by `subprocess.run` |

### How they interact

The scripts share nothing with each other. Each one shares files with the
outside world, and the files outlive an invocation:

- The security generator starts the assessment script synchronously. It
  passes no `check` and no `timeout`. It then reads the JSON the script
  may have written. The Trivy scanner leaves `trivy-results.json` for the
  generator to read.
- Both generators overwrite their outputs each time they run. `open(...,
  'w')` first truncates the file and then writes the new content.

### What makes them hard

- **Stale files.** A file from an earlier invocation is read as if this
  invocation had written it.
- **Partial failure.** One invocation writes two files in sequence. It can
  be killed between them, or while a file is truncated but not yet
  rewritten (a CI timeout, which the missing subprocess timeout makes
  likely). Some inputs raise an exception nobody catches: a malformed
  Trivy file, a `null` Results/Vulnerabilities/Severity, or a malformed
  maturity assessment.
- **No timeout.** A hung assessment script blocks the invocation forever.
- **Numeric edges.** The staged recommendation thresholds.
- **Loop counting.** The nested Trivy loops must count every entry exactly
  once, in its tier, and start from zero in every invocation.

### Properties that make them correct

- Dashboard: the counts equal the scan that the invocation read. The
  metrics file is never newer than the dashboard, and never sits beside a
  cut-short dashboard of its own invocation. The score shown comes from this
  invocation or is the default (spec §7).
- Maturity report: the lowest incomplete level always gets advice.
  "Excellent" appears exactly at full marks. The two reports of one
  invocation agree, and the percentages stay in 0..100. The two
  percentage formulas are the same rounding of the same data, so their
  agreement holds by construction; what the property tests is the order of
  the two writes under kills.

The hazards, each at the line where it bites, are listed in
`PROJECT.json` under `hazards`.

## 2. Modules

| Module | Models | Notes |
|---|---|---|
| `SecurityDashboard` | `SecurityDashboardGenerator.run()` across repeated invocations | core; no RECURSIVE, provable |
| `SecurityDashboardProofs` | theorems about `SecurityDashboard` | TLAPS |
| `SecurityDashboardAbstract` | what `collect_vulnerability_metrics` promises: one atomic counting step per invocation | abstract specification |
| `SecurityDashboardRefinement` | the refinement mapping from `SecurityDashboard` to the abstract module | checked by TLC |
| `SecurityDashboardRefinementProofs` | the step part of that refinement | TLAPS |
| `MCSecurityDashboard` | TLC instance: Trivy documents, percentages | |
| `MCSecurityDashboardRefinement` | TLC instance of the refinement | |
| `MaturityReport` | `MaturityReportGenerator` across repeated invocations | no RECURSIVE, provable |
| `MaturityReportProofs` | theorems about `MaturityReport` | TLAPS |
| `MCMaturityReport` | TLC instances: score records | |

### SecurityDashboard: state and actions

Variables:

- `pc`: the step being executed, `"idle"` between invocations.
- `run`: the invocation number. It stands in for `self.timestamp`.
- `results`: `self.results`. A key that is not set is `Absent`. The field
  `scanned` records which scan was counted (a ghost).
- `doc`, `ri`, `vi`, `counts`: the locals of the Trivy loops.
- `report`, `trivy`, `dashboard`, `metrics`: the four files. A file is
  `NoFile`, `Malformed`, a record of the figures it holds, or
  `Truncated(r)`. `Truncated(r)` is a file cut short by invocation `r`.

Actions:

- `StartRun`: a fresh generator object.
- Assessment outcomes: `AssessLaunchFails` (the except branch),
  `AssessScriptReturns` (a fresh, malformed or unchanged report, then
  lines 29–31) and `AssessScriptHangs`.
- Trivy: `CollectNoScan`, `CollectMalformed` (uncaught), `CollectStartScan`.
  The loop body is `ScanCount` (one entry), `ScanNextResult`, `ScanRaises`
  (a `null` that raises) and `ScanEnd`.
- `GenerateCompliance` stores `ComplianceReport`: the three standards and
  `overall_compliance`, kept in tenths (843). The dashboard shows
  `ComplianceScore`, its `int()`. The metrics hold `OverallCompliance`, the
  raw value.
- Each output write is two actions: `OpenDashboard`/`WriteDashboard` and
  `OpenMetrics`/`WriteMetrics`. This is what makes truncation observable.
- Environment: `Rescan` (Trivy rewrites its file between invocations) and
  `Kill`.

The order of the steps is the record `NextStep`, taken from `run()`.
Markup and the fixed recommendation list are left out.

### MaturityReport: state and actions

Variables:

- `pc`, `run`.
- `data`: the scores in `self.report_data`.
- `html`, `md`: each holds `NoFile`, `Truncated(r)` or a record with the
  level scores, the per-level percentages and the recommendation list.

The assessment file is read only by the constructor and is never written
by this program, so it is not a variable. `StartRun` chooses whatever the
assessment left: a valid record, or a missing file, which gives the zero
record of lines 23–38. `StartRunMalformed` is the constructor raising on
a malformed file.

Pure parts:

- `Level1Recs` … `Level5Recs` transcribe the five rule groups of
  `_generate_recommendations`, one name of `RecNames` per `append`.
  `AllRecs` concatenates them in order, and `Recommendations` adds the
  "excellent" fallback.
- `HtmlPct` models `round()` and `MdPct` models `:.0f`. Both round half to
  even. For these maxima a tie never occurs with integer scores.

## 3. Runs

| Run | Checks | Bounds | Shows |
|---|---|---|---|
| `dashboard` (pass) | `TypeOK`, `VulnCountsMatchScan`, `MetricsNotNewerThanDashboard` | 3 invocations, 2 percentages, 5 Trivy documents | 537k distinct states, a few seconds |
| `dashboard_stale_report` (violation) | `DashboardScoreFresh` | same | stale report shown (finding) |
| `maturity_advice` (pass) | `TypeOK`, `AdviceCoversLowestGap` | 1 invocation, 8100 score records | every threshold class of every level |
| `maturity_runs` (pass) | `ReportsAgree` | 3 invocations, 3 score records | kills between the two writes |
| `dashboard_refinement` (pass) | `CollectRefinesAbstract` | as `dashboard` | the loops implement the atomic count |

What the `dashboard` bounds cover:

- The Trivy documents contain every tier, a missing Severity, UNKNOWN, an
  empty result list, and each of the three `null`s that raise.
- Three invocations are enough for a report to go stale across two
  invocations while a third overwrites the dashboard.
- Counts that carry over between invocations show up from the second
  invocation on.

What the maturity bounds cover:

- `maturity_advice` takes, for each level, a value on each side of every
  threshold its own rules and the next level's gate test. It also takes
  scores whose percentage is not a whole number (1/35, 1/15, 34/35).
- `maturity_runs` stops after the last invocation, so it disables deadlock
  checking. `dashboard` keeps deadlock checking on, because the scanner
  can always rewrite its file.

**Fairness.** `WF_vars(ProgramStep)` covers the program's own steps once
the script has returned. The interpreter runs one thread, which keeps
executing until it exits, raises or is killed. The assessment script, the
scanner and the kill get no fairness: the code does not bound the script,
and nothing forces a kill.

**Finding.** `dashboard_stale_report` contradicts spec §7, which says a
subprocess failure is caught and defaults are substituted. `subprocess.run`
is called without `check=True`, so a script that fails without rewriting
the report raises nothing. Line 29 then loads the report from the previous
invocation. The new dashboard shows that old score under the new
timestamp.

**Refinement.** `SecurityDashboardAbstract` has the variables `pc`, `run`,
`vulns`, `scanned` and `trivy`. Its `Collect` counts the whole scan with
`Tally`, a `Cardinality` per tier, in one step. Otherwise it stops on a
malformed file or a `null`. `SecurityDashboardRefinement` maps the loop
states `vulns` and `scan` to the abstract `vulns`, and the steps after the
count to `after`. `self.results` maps to the abstract counts. The loop
steps are therefore stutters, and `ScanEnd`, `ScanRaises`,
`CollectNoScan` and `CollectMalformed` are the abstract `Collect`. The
abstract fairness `WF(Collect \/ Finish)` is implied by the concrete
`WF_vars(ProgramStep)`, so the run also shows that the loops end. The
refinement needs the abstract `Assess` to allow a hang: a hung script
maps to the abstract `hung`.

**Outputs under kills.** `MetricsNotNewerThanDashboard` relates the two
output files. The metrics file never comes from a later invocation than
the dashboard. When both come from the same invocation, the dashboard is
complete. A kill can leave both files empty, but only when they come from
different invocations. An order of truncation other than the code's would
break the property: writing the metrics first, or opening both files
before writing either.

The compliance figures (`overall_compliance` 84.3 and the three standards)
are literals that no input or earlier invocation influences. They are
modelled as the code writes them, and no property is stated about them.

Every property of a passing run has a mutant in `PROJECT.json`. The
mutant is a plausible bug of the mapped code, and TLC finds it:

- a counter kept across invocations;
- the metrics written first;
- the "minimal base image" append mis-indented;
- `int()` truncation in the Markdown;
- a ceiling instead of rounding;
- `dict.get(k, 0) + 1` counting of unknown severities;
- for the refinement, counts not reset at the start of the loops.

## 4. Proofs

`SecurityDashboardProofs` proves three theorems for every value of the
constants. `tlapm` checks all of it.

- **`TypeCorrect`**: `Spec => []TypeOK`. `TypeOK` alone is not inductive.
  The proof uses the strengthening `TypeInv`, which adds three facts:
  - an invocation in progress has `run \in 1..MaxRuns`, which stamping a
    file needs;
  - during the loops, `doc` is one of the `Scans`;
  - after the loops, `self.results` holds the counts and the scan.

  Lemmas `CountSeverityType`, `TotalVulnsType` and `WriteDashboardType`
  carry the per-operator facts. The step proof has one case per action.
- **`MetricsOrder`**: `Spec => []MetricsNotNewerThanDashboard`. The
  strengthening `OrderInv` adds three facts:
  - no output is stamped later than the counter;
  - while the metrics are being written, the dashboard is complete and
    carries this invocation's stamp;
  - before the metrics steps, the metrics file is stamped earlier than
    the counter.

  `StartRun` preserves the invariant because of the first fact. `OpenMetrics`
  and `WriteMetrics` preserve it because of the second. `OpenDashboard`
  preserves it because of the third: stamping the dashboard never makes it
  equal to a metrics file of the same invocation while the dashboard is cut
  short.
- **`VulnCountsCorrect`**: `Spec => []VulnCountsMatchScan`. It rests on
  two strengthenings, both checked by TLC on the `dashboard` instance
  before they were proved:
  - `LoopInv` is the loop invariant. `Visited(doc, ri, vi)` is the set of
    entries the loops have passed: every entry of the results before
    `ri`, and the entries of result `ri` before `vi`. The counts equal,
    tier by tier, the `Cardinality` of the visited entries in that tier.
    The set is finite because each `ScanCount` adds one entry to it.
  - `TallyInv` says that after the loops `self.results` holds
    `RefTally` of the scan it records, and so does a complete dashboard.

  The invariant is stated over sets, not by recursion over the document,
  so no induction over data is needed. Each step of the loops is a set
  equation: `VisitedNextEntry` adds one unvisited entry, and
  `VisitedNextResult` adds nothing. At the end, `VisitedAll` shows the
  visited set is all of `Entries(doc)`. `CountStep` and `SeverityTier`
  show that lines 68–70 add one to `RefTier` of the entry. `InTierAdd`
  and `FS_AddElement` give the same +1 on the cardinality side.
  `TotalTally` shows that the sum of line 274 counts the entries in some
  tier, because the four tiers are disjoint (`DisjointUnion`, from
  `FS_Union`).

`SecurityDashboardRefinementProofs` proves **`RefinesAbstractSafety`**:
`Spec => Abs!Init /\ [][Abs!Next]_Abs!avars`. This is the safety part of
`CollectRefinesAbstract`.

- `NextRefines` has one case per action. The loop steps and the steps
  after the count are stutters of the mapped variables.
- `ScanEnd` is the abstract `Collect` of a scan without nulls
  (`ScanEndRefines`). `LoopInv` gives the tally. `RefInv` adds two facts:
  the loops read the file the scanner left, and no visited entry is null.
- `ScanRaises` is `Collect` stopping on a null (`ScanRaisesRefines`). The
  witness is the position `(ri, vi)` the loop stopped at.
- The abstract `Tally` and `RefTally` are the same expression in two
  modules. `TallySame` expands `Cardinality` on both sides so the provers
  can see this.

`MaturityReportProofs` proves five theorems:

- **`LowestGapAdvised`** and **`ExcellentExactlyAtFullMarks`**: facts
  about `Recommendations` for every record in `ValidScores`. The proof goes
  group by group. `LowestGapGroupFires` shows that the group of the lowest
  incomplete level fires, because the previous level is at its maximum,
  which passes every gate. `OccursConcat` carries the occurrence through
  `\o`, using `ConcatProperties` of `SequenceTheorems`. There is no
  recursion, so no induction over data is needed.
- **`TypeCorrect`**: `Spec => []TypeOK`, through `TypeInv`, which adds
  `run \in 1..MaxRuns` during an invocation. `HtmlPctRange` bounds the
  percentages, with a case split per level because the provers need
  concrete divisors.
- **`ReportsAgreeCorrect`**: `Spec => []ReportsAgree`. `ReportsAgree` is
  not inductive. The strengthening `ReportInv` says:
  - each complete report equals `ReportOf` its run and scores;
  - no file is ahead of the counter;
  - while the HTML is written, the Markdown is from an earlier run;
  - while the Markdown is written, the HTML is complete and comes from
    this run with these scores.

  `ReportInv` was checked by TLC on `maturity_runs` before it was proved.
- **`AdviceCorrect`**: `Spec => []AdviceCoversLowestGap`. It follows from
  `ReportInv` and the two facts about `Recommendations`.

Assumptions: `MaxRuns \in Nat`, `Pcts \subseteq 0..100`, and
`NoFileAssumption`, which says the sentinel `NoFile` is not a file record.
The dashboard proofs add two more:

- `SentinelAssumption`: `Null`, `Absent`, `NoFile` and `Malformed` are
  distinct from the values they stand beside.
- `ScansAssumption`: a parsed Trivy file is `null`, or a list of results.
  Each result is `null` or a list of entries. Each entry is `null`, has no
  Severity, or has one of Trivy's five severities, which are the values
  `Lower` maps.

TLC evaluates both assumptions on every dashboard run.

**Only model-checked.** Liveness stays with TLC, because it needs
fairness and ENABLED, which are out of the prover's reach. That leaves the
fairness conjunct `WF(Collect \/ Finish)` of `CollectRefinesAbstract`,
that is, that the loops end. Its step part is proved. The loops are Python
`for` loops over finite lists, so this part says little about the code.

## 5. Not modelled

- The HTML/CSS/Chart.js markup and the wording of messages. These are
  layout.
- The dashboard's fixed recommendation list. It is a constant.
- The `total`, `percentage` and `maturityLevel` fields. They are passed
  through from the input unchanged.
- The content of the external assessment script and of Trivy. Only their
  effect on the files is modelled.
- Timestamps, apart from their order.

## 6. Plan

1. *(done)* `SecurityDashboard` with its runs, the stale-report finding,
   and the `TypeCorrect` and `MetricsOrder` proofs.
2. *(done)* `MaturityReport` with its advice and agreement runs.
3. *(done)* `SecurityDashboardAbstract` and the refinement run.
4. *(done)* `MaturityReportProofs`.
5. *(done)* The compliance roll-up, modelled as the literals the code writes.
6. *(done)* The dashboard's loop invariant without recursion, and from it
   `VulnCountsCorrect` and `RefinesAbstractSafety`.
7. The hung-script hazard (line 25) stays without a property. The code
   has no timeout, and spec §5 acknowledges this, so there is nothing to
   check it against.
