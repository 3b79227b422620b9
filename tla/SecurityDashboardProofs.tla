----------------------- MODULE SecurityDashboardProofs -----------------------
(***************************************************************************)
(* Proofs about SecurityDashboard, for every value of the constants.       *)
(***************************************************************************)
EXTENDS SecurityDashboard, FiniteSetTheorems, TLAPS

(* TypeOK is not inductive by itself: writing the dashboard needs          *)
(* self.results to hold the counts and the scan by then, ending the loops  *)
(* needs the document being read to be one of the Scans, and stamping a    *)
(* file with the invocation needs an invocation to be running.             *)
StepsAfterScan == {"compliance", "html", "html_write", "metrics", "metrics_write"}

TypeInv ==
    /\ TypeOK
    /\ pc # "idle" => run \in 1..MaxRuns
    /\ pc = "scan" => doc \in Scans
    /\ pc \in StepsAfterScan =>
          /\ results.vulnerabilities \in Counts
          /\ results.scanned \in Scans \cup {<<>>}

USE MaxRunsAssumption, PctsAssumption, NoFileAssumption, SentinelAssumption,
    ScansAssumption

LEMMA CountSeverityType ==
    ASSUME NEW c \in Counts, NEW s
    PROVE  CountSeverity(c, s) \in Counts
BY DEF CountSeverity, Counts

LEMMA TotalVulnsType ==
    ASSUME NEW c \in Counts
    PROVE  TotalVulns(c) \in Nat
BY DEF TotalVulns, Counts, Tiers

LEMMA ComplianceType ==
    ASSUME TypeOK
    PROVE  OverallCompliance \in Nat /\ ComplianceScore \in Nat
<1>1. OverallCompliance \in Nat
  BY DEF TypeOK, OverallCompliance, ComplianceReport
<1>. QED
  BY <1>1 DEF ComplianceScore

LEMMA WriteDashboardType ==
    ASSUME TypeInv, WriteDashboard
    PROVE  dashboard' \in Dashboards
<1>1. SecurityScore \in Pcts \cup {0} /\ ScoreFrom \in 0..MaxRuns
  BY DEF TypeInv, TypeOK, SecurityScore, ScoreFrom, Assessments
<1>2. results.vulnerabilities \in Counts /\ results.scanned \in Scans \cup {<<>>}
  BY DEF TypeInv, WriteDashboard, StepsAfterScan
<1>3. TotalVulns(results.vulnerabilities) \in Nat
  BY <1>2, TotalVulnsType
<1>4. run \in 1..MaxRuns
  BY DEF TypeInv, WriteDashboard
<1>5. ComplianceScore \in Nat
  BY ComplianceType DEF TypeInv
<1>. QED
  BY <1>1, <1>2, <1>3, <1>4, <1>5 DEF WriteDashboard, Dashboards

LEMMA InitTypeInv == Init => TypeInv
BY DEF Init, TypeInv, TypeOK, Pcs, StepsAfterScan, Assessments, Counts,
       NoVulns, Unset, ScanFiles, ReportFiles

LEMMA NextTypeInv == TypeInv /\ [Next]_vars => TypeInv'
<1> SUFFICES ASSUME TypeInv, [Next]_vars PROVE TypeInv'
  OBVIOUS
<1> USE DEF TypeInv, TypeOK, Pcs, StepsAfterScan
<1>1. CASE Rescan
  BY <1>1 DEF Rescan
<1>2. CASE StartRun
  BY <1>2 DEF StartRun, Assessments, Unset
<1>3. CASE Kill
  BY <1>3 DEF Kill
<1>4. CASE AssessLaunchFails
  BY <1>4 DEF AssessLaunchFails, NextStep, Assessments, DefaultAssessment
<1>5. CASE AssessScriptReturns
  <2>1. PICK f \in {report, Malformed} \cup [run : {run}, pct : Pcts] :
          /\ report' = f
          /\ results' =
               [results EXCEPT !.assessment =
                  CASE f = NoFile    -> @
                    [] f = Malformed -> DefaultAssessment
                    [] OTHER         -> AssessmentOf(f)]
    BY <1>5 DEF AssessScriptReturns
  <2>2. report' \in ReportFiles
    BY <1>5, <2>1 DEF AssessScriptReturns, ReportFiles
  <2>3. results'.assessment \in Assessments
    BY <1>5, <2>1 DEF AssessScriptReturns, Assessments, DefaultAssessment,
                       AssessmentOf, ReportFiles
  <2>. QED
    BY <1>5, <2>1, <2>2, <2>3 DEF AssessScriptReturns, NextStep
<1>6. CASE AssessScriptHangs
  BY <1>6 DEF AssessScriptHangs
<1>7. CASE CollectNoScan
  BY <1>7 DEF CollectNoScan, NextStep, NoVulns, Counts
<1>8. CASE CollectMalformed
  BY <1>8 DEF CollectMalformed
<1>9. CASE CollectStartScan
  BY <1>9 DEF CollectStartScan, NoVulns, Counts, ScanFiles
<1>10. CASE ScanCount
  BY <1>10, CountSeverityType DEF ScanCount
<1>11. CASE ScanNextResult
  BY <1>11 DEF ScanNextResult
<1>12. CASE ScanRaises
  BY <1>12 DEF ScanRaises
<1>13. CASE ScanEnd
  BY <1>13 DEF ScanEnd, NextStep
<1>14. CASE GenerateCompliance
  BY <1>14 DEF GenerateCompliance, NextStep, ComplianceReport
<1>15. CASE OpenDashboard
  BY <1>15 DEF OpenDashboard, Truncated
<1>16. CASE WriteDashboard
  BY <1>16, WriteDashboardType DEF WriteDashboard, NextStep
<1>17. CASE OpenMetrics
  BY <1>17 DEF OpenMetrics, Truncated
<1>18. CASE WriteMetrics
  <2>1. SecurityScore \in Pcts \cup {0}
    BY DEF SecurityScore, Assessments
  <2>2. metrics' \in MetricsFiles
    BY <1>18, <2>1, ComplianceType DEF WriteMetrics, MetricsFiles
  <2>. QED
    BY <1>18, <2>2 DEF WriteMetrics, NextStep
<1>19. CASE UNCHANGED vars
  BY <1>19 DEF vars
<1>. QED
  BY <1>1, <1>2, <1>3, <1>4, <1>5, <1>6, <1>7, <1>8, <1>9, <1>10, <1>11,
     <1>12, <1>13, <1>14, <1>15, <1>16, <1>17, <1>18, <1>19
  DEF Next, ProgramStep

(* Every reachable state is well typed: the files, self.results and the    *)
(* loop variables keep the shapes the code gives them.                     *)
THEOREM TypeCorrect == Spec => []TypeOK
<1>1. Spec => []TypeInv
  BY InitTypeInv, NextTypeInv, PTL DEF Spec
<1>. QED
  BY <1>1, PTL DEF TypeInv

-----------------------------------------------------------------------------
(* MetricsNotNewerThanDashboard.  It is not inductive: OpenMetrics stamps  *)
(* the metrics with the current invocation, which is safe only because the *)
(* dashboard was already written in full by it; OpenDashboard stamps the   *)
(* dashboard, which is safe only because this invocation has not yet       *)
(* touched the metrics; and StartRun is safe only because no file is ahead *)
(* of the invocation counter.                                              *)
WritingMetrics == {"metrics", "metrics_write"}
BeforeMetrics == Pcs \ (WritingMetrics \cup {"idle"})

OrderInv ==
    /\ MetricsNotNewerThanDashboard
    /\ dashboard # NoFile => dashboard.run <= run
    /\ pc \in WritingMetrics => Complete(dashboard) /\ dashboard.run = run
    /\ pc \in BeforeMetrics /\ metrics # NoFile => metrics.run < run

LEMMA DashboardRun ==
    ASSUME TypeOK, dashboard # NoFile
    PROVE  dashboard.run \in 1..MaxRuns
BY DEF TypeOK, Dashboards

LEMMA MetricsRun ==
    ASSUME TypeOK, metrics # NoFile
    PROVE  metrics.run \in 1..MaxRuns
BY DEF TypeOK, MetricsFiles

LEMMA InitOrderInv == Init => OrderInv
BY DEF Init, OrderInv, MetricsNotNewerThanDashboard, WritingMetrics, BeforeMetrics

LEMMA NextOrderInv == TypeInv /\ OrderInv /\ [Next]_vars => OrderInv'
<1> SUFFICES ASSUME TypeInv, OrderInv, [Next]_vars PROVE OrderInv'
  OBVIOUS
<1>0. /\ dashboard # NoFile => dashboard.run \in 1..MaxRuns
      /\ metrics # NoFile => metrics.run \in 1..MaxRuns
      /\ run \in 0..MaxRuns
  BY DashboardRun, MetricsRun DEF TypeInv, TypeOK
<1> USE <1>0 DEF OrderInv, MetricsNotNewerThanDashboard, WritingMetrics,
                BeforeMetrics, Pcs, Complete
(* Steps that touch neither output nor the invocation counter, do not     *)
(* enter the metrics-writing steps and enter the steps before them only   *)
(* from one of those steps.                                               *)
<1>1. ASSUME UNCHANGED <<run, dashboard, metrics>>, pc' \notin WritingMetrics,
             pc' \in BeforeMetrics => pc \in BeforeMetrics
      PROVE  OrderInv'
  BY <1>1
<1>2. CASE StartRun
  BY <1>2 DEF StartRun
<1>3. CASE Rescan \/ Kill \/ AssessLaunchFails \/ AssessScriptReturns
           \/ AssessScriptHangs
  BY <1>1, <1>3 DEF Rescan, Kill, AssessLaunchFails, AssessScriptReturns,
                    AssessScriptHangs, NextStep
<1>4. CASE CollectNoScan \/ CollectMalformed \/ CollectStartScan \/ ScanCount
           \/ ScanNextResult \/ ScanRaises \/ ScanEnd \/ GenerateCompliance
  BY <1>1, <1>4 DEF CollectNoScan, CollectMalformed, CollectStartScan,
                    ScanCount, ScanNextResult, ScanRaises, ScanEnd,
                    GenerateCompliance, NextStep
<1>5. CASE OpenDashboard
  BY <1>5 DEF OpenDashboard, Truncated, Complete
<1>6. CASE WriteDashboard
  <2>1. dashboard' \in Dashboards /\ dashboard'.run = run
    BY <1>6, WriteDashboardType DEF WriteDashboard
  <2>2. Complete(dashboard')
    <3>1. dashboard' # NoFile
      BY <2>1, NoFileAssumption
    <3>2. DOMAIN dashboard' # DOMAIN Truncated(dashboard'.run)
      BY <1>6 DEF WriteDashboard, Truncated
    <3>. QED
      BY <3>1, <3>2
  <2>. QED
    BY <1>6, <2>1, <2>2 DEF WriteDashboard, NextStep
<1>7. CASE OpenMetrics
  BY <1>7 DEF OpenMetrics, Truncated
<1>8. CASE WriteMetrics
  BY <1>8 DEF WriteMetrics, NextStep
<1>9. CASE UNCHANGED vars
  BY <1>9 DEF vars
<1>. QED
  BY <1>2, <1>3, <1>4, <1>5, <1>6, <1>7, <1>8, <1>9 DEF Next, ProgramStep

(* security-metrics.json never describes a later invocation than           *)
(* security-dashboard.html, and never sits beside a cut-short dashboard of *)
(* its own invocation, however invocations are killed: run() finishes the  *)
(* dashboard before it opens the metrics file (lines 356-362).             *)
THEOREM MetricsOrder == Spec => []MetricsNotNewerThanDashboard
<1>1. Spec => []TypeInv
  BY InitTypeInv, NextTypeInv, PTL DEF Spec
<1>2. Spec => []OrderInv
  BY <1>1, InitOrderInv, NextOrderInv, PTL DEF Spec
<1>. QED
  BY <1>2, PTL DEF OrderInv

(* VulnCountsMatchScan.  The loops of lines 66-70 keep, as their invariant, *)
(* counts equal to the tally of the entries already visited: every entry   *)
(* of the results before ri, and the entries of result ri before vi.  The  *)
(* set is built one entry per ScanCount, so it is finite by construction;  *)
(* no recursion over the document is needed.                               *)
Visited(d, r, v) ==
    (UNION {{<<i, j>> : j \in 1..Len(d[i])} : i \in 1..(r - 1)})
      \cup {<<r, j>> : j \in 1..(v - 1)}

InTier(d, S, t) == {e \in S : RefTier(d[e[1]][e[2]]) = t}

LoopInv ==
    pc = "scan" /\ doc # Null =>
        /\ ri \in 1..(Len(doc) + 1)
        /\ vi \in 1..(IF ri <= Len(doc) /\ doc[ri] # Null THEN Len(doc[ri]) + 1 ELSE 1)
        /\ \A i \in 1..(ri - 1) : doc[i] # Null
        /\ IsFiniteSet(Visited(doc, ri, vi))
        /\ \A t \in Tiers : counts[t] = Cardinality(InTier(doc, Visited(doc, ri, vi), t))

(* What the loops leave in self.results, and what the dashboard shows.     *)
TallyInv ==
    /\ pc \in StepsAfterScan =>
          /\ results.vulnerabilities = RefTally(results.scanned)
          /\ IsFiniteSet(Entries(results.scanned))
    /\ Complete(dashboard) =>
          /\ dashboard.vulns = RefTally(dashboard.scan)
          /\ dashboard.total = TotalVulns(dashboard.vulns)
          /\ IsFiniteSet(Entries(dashboard.scan))

(* What a vulnerability entry the loops count can be.                      *)
Entry == {Absent} \cup TrivySeverities

(* Line 68 and RefTier agree: an entry counted by line 70 is counted in     *)
(* the tier RefTier names, and an entry line 69 skips is in no tier.       *)
LEMMA SeverityTier ==
    ASSUME NEW v \in Entry
    PROVE  /\ SeverityOf(v) \in Tiers => RefTier(v) = SeverityOf(v)
           /\ SeverityOf(v) \notin Tiers => RefTier(v) \notin Tiers
BY DEF Entry, TrivySeverities, SeverityOf, Lower, RefTier, Tiers

(* One pass of the inner loop body adds one to the entry's tier only.      *)
LEMMA CountStep ==
    ASSUME NEW c \in Counts, NEW v \in Entry
    PROVE  \A t \in Tiers :
              CountSeverity(c, SeverityOf(v))[t] = c[t] + (IF RefTier(v) = t THEN 1 ELSE 0)
<1>1. CASE SeverityOf(v) \in Tiers
  BY <1>1, SeverityTier DEF CountSeverity, Counts
<1>2. CASE SeverityOf(v) \notin Tiers
  BY <1>2, SeverityTier DEF CountSeverity, Counts
<1>. QED
  BY <1>1, <1>2

LEMMA VisitedStart ==
    ASSUME NEW d
    PROVE  Visited(d, 1, 1) = {}
BY DEF Visited

(* ScanCount visits one entry that was not visited yet.                    *)
LEMMA VisitedNextEntry ==
    ASSUME NEW d, NEW r \in Nat \ {0}, NEW v \in Nat \ {0}
    PROVE  /\ Visited(d, r, v + 1) = Visited(d, r, v) \cup {<<r, v>>}
           /\ <<r, v>> \notin Visited(d, r, v)
BY DEF Visited

(* ScanNextResult, at the end of result r, visits nothing new.             *)
LEMMA VisitedNextResult ==
    ASSUME NEW d, NEW r \in Nat \ {0}
    PROVE  Visited(d, r + 1, 1) = Visited(d, r, Len(d[r]) + 1)
BY DEF Visited

(* At ScanEnd every entry of the document has been visited.                 *)
LEMMA VisitedAll ==
    ASSUME NEW d, Len(d) \in Nat
    PROVE  Visited(d, Len(d) + 1, 1) = Entries(d)
BY DEF Visited, Entries

(* Adding an entry to the visited set adds it to its tier only.            *)
LEMMA InTierAdd ==
    ASSUME NEW d, NEW S, IsFiniteSet(S), NEW x, x \notin S, NEW t
    PROVE  /\ IsFiniteSet(InTier(d, S, t))
           /\ Cardinality(InTier(d, S \cup {x}, t)) =
                Cardinality(InTier(d, S, t)) + (IF RefTier(d[x[1]][x[2]]) = t THEN 1 ELSE 0)
<1>1. IsFiniteSet(InTier(d, S, t))
  BY FS_Subset DEF InTier
<1>2. CASE RefTier(d[x[1]][x[2]]) = t
  <2>1. InTier(d, S \cup {x}, t) = InTier(d, S, t) \cup {x}
    BY <1>2 DEF InTier
  <2>2. x \notin InTier(d, S, t)
    BY DEF InTier
  <2>3. Cardinality(InTier(d, S, t) \cup {x}) = Cardinality(InTier(d, S, t)) + 1
    BY <1>1, <2>2, FS_AddElement
  <2>. QED
    BY <1>1, <1>2, <2>1, <2>3
<1>3. CASE RefTier(d[x[1]][x[2]]) # t
  <2>1. InTier(d, S \cup {x}, t) = InTier(d, S, t)
    BY <1>3 DEF InTier
  <2>2. Cardinality(InTier(d, S, t)) \in Nat
    BY <1>1, FS_CardinalityType
  <2>. QED
    BY <1>1, <1>3, <2>1, <2>2
<1>. QED
  BY <1>1, <1>2, <1>3

(* The cardinality of a union of two disjoint finite sets.               *)
LEMMA DisjointUnion ==
    ASSUME NEW X, NEW Y, IsFiniteSet(X), IsFiniteSet(Y), X \cap Y = {}
    PROVE  /\ IsFiniteSet(X \cup Y)
           /\ Cardinality(X \cup Y) = Cardinality(X) + Cardinality(Y)
<1>1. /\ IsFiniteSet(X \cup Y)
      /\ Cardinality(X \cup Y) = Cardinality(X) + Cardinality(Y) - Cardinality(X \cap Y)
  BY FS_Union
<1>2. Cardinality(X \cap Y) = 0
  BY FS_EmptySet
<1>3. Cardinality(X) \in Nat /\ Cardinality(Y) \in Nat
  BY FS_CardinalityType
<1>. QED
  BY <1>1, <1>2, <1>3

(* sum(vulnerabilities.values()) of line 274 over the tally of a scan is   *)
(* the number of its entries that fall in some tier: the four tiers are    *)
(* disjoint.                                                               *)
LEMMA TotalTally ==
    ASSUME NEW d, IsFiniteSet(Entries(d))
    PROVE  TotalVulns(RefTally(d)) =
             Cardinality({e \in Entries(d) : RefTier(d[e[1]][e[2]]) \in Tiers})
<1> DEFINE E == Entries(d)
           C == InTier(d, E, "critical")
           H == InTier(d, E, "high")
           M == InTier(d, E, "medium")
           L == InTier(d, E, "low")
<1>1. IsFiniteSet(C) /\ IsFiniteSet(H) /\ IsFiniteSet(M) /\ IsFiniteSet(L)
  BY FS_Subset DEF InTier
<1>2. TotalVulns(RefTally(d)) =
        Cardinality(C) + Cardinality(H) + Cardinality(M) + Cardinality(L)
  BY DEF TotalVulns, RefTally, InTier, Tiers
<1>3. {e \in E : RefTier(d[e[1]][e[2]]) \in Tiers} = ((C \cup H) \cup M) \cup L
  BY DEF InTier, Tiers
<1>4. /\ IsFiniteSet(C \cup H)
      /\ Cardinality(C \cup H) = Cardinality(C) + Cardinality(H)
  <2>1. C \cap H = {}
    BY DEF InTier
  <2>. QED
    BY DisjointUnion, <1>1, <2>1
<1>5. /\ IsFiniteSet((C \cup H) \cup M)
      /\ Cardinality((C \cup H) \cup M) = Cardinality(C \cup H) + Cardinality(M)
  <2>1. (C \cup H) \cap M = {}
    BY DEF InTier
  <2>. QED
    BY DisjointUnion, <1>1, <1>4, <2>1
<1>6. Cardinality(((C \cup H) \cup M) \cup L) =
        Cardinality((C \cup H) \cup M) + Cardinality(L)
  <2>1. ((C \cup H) \cup M) \cap L = {}
    BY DEF InTier
  <2>. QED
    BY DisjointUnion, <1>1, <1>5, <2>1
<1>7. Cardinality(C) \in Nat /\ Cardinality(H) \in Nat
      /\ Cardinality(M) \in Nat /\ Cardinality(L) \in Nat
  BY <1>1, FS_CardinalityType
<1>. QED
  BY <1>2, <1>3, <1>4, <1>5, <1>6, <1>7

(* The shape ScansAssumption gives a document the loops start on.          *)
Doc == Seq({Null} \cup Seq({Null} \cup Entry))

LEMMA DocShape ==
    ASSUME NEW d \in Scans, d # Null
    PROVE  /\ d \in Doc
           /\ Len(d) \in Nat
           /\ \A i \in 1..Len(d) : d[i] # Null =>
                 /\ d[i] \in Seq({Null} \cup Entry)
                 /\ Len(d[i]) \in Nat
                 /\ \A j \in 1..Len(d[i]) : d[i][j] # Null => d[i][j] \in Entry
<1>1. d \in Doc
  BY DEF Doc, Entry
<1>. QED
  BY <1>1 DEF Doc

LEMMA InitLoopInv == Init => LoopInv
BY DEF Init, LoopInv

LEMMA NextLoopInv == TypeInv /\ LoopInv /\ [Next]_vars => LoopInv'
<1> SUFFICES ASSUME TypeInv, LoopInv, [Next]_vars PROVE LoopInv'
  OBVIOUS
<1>1. CASE pc' # "scan"
  BY <1>1 DEF LoopInv
<1>2. CASE CollectStartScan
  <2> SUFFICES ASSUME doc' # Null
               PROVE  /\ ri' \in 1..(Len(doc') + 1)
                      /\ vi' \in 1..(IF ri' <= Len(doc') /\ doc'[ri'] # Null
                                     THEN Len(doc'[ri']) + 1 ELSE 1)
                      /\ \A i \in 1..(ri' - 1) : doc'[i] # Null
                      /\ IsFiniteSet(Visited(doc', ri', vi'))
                      /\ \A t \in Tiers : counts'[t] =
                            Cardinality(InTier(doc', Visited(doc', ri', vi'), t))
    BY DEF LoopInv
  <2>1. doc' \in Scans /\ ri' = 1 /\ vi' = 1 /\ counts' = NoVulns
    BY <1>2 DEF CollectStartScan
  <2>2. Len(doc') \in Nat /\ (1 <= Len(doc') /\ doc'[1] # Null => Len(doc'[1]) \in Nat)
    BY <2>1, DocShape
  <2>3. Visited(doc', 1, 1) = {}
    BY VisitedStart
  <2>4. \A t \in Tiers : InTier(doc', {}, t) = {}
    BY DEF InTier
  <2>5. /\ ri' \in 1..(Len(doc') + 1)
        /\ vi' \in 1..(IF ri' <= Len(doc') /\ doc'[ri'] # Null
                       THEN Len(doc'[ri']) + 1 ELSE 1)
        /\ \A i \in 1..(ri' - 1) : doc'[i] # Null
    BY <2>1, <2>2
  <2>6. IsFiniteSet(Visited(doc', ri', vi'))
    BY <2>1, <2>3, FS_EmptySet
  <2>7. \A t \in Tiers : counts'[t] = Cardinality(InTier(doc', Visited(doc', ri', vi'), t))
    <3>1. \A t \in Tiers : Cardinality(InTier(doc', {}, t)) = 0
      BY <2>4, FS_EmptySet
    <3>. QED
      BY <2>1, <2>3, <3>1 DEF NoVulns
  <2>. QED
    BY <2>5, <2>6, <2>7
<1>3. CASE ScanCount
  <2>1. /\ pc = "scan" /\ doc # Null /\ ri <= Len(doc) /\ doc[ri] # Null
        /\ vi <= Len(doc[ri]) /\ doc[ri][vi] # Null
        /\ pc' = pc /\ doc' = doc /\ ri' = ri /\ vi' = vi + 1
        /\ counts' = CountSeverity(counts, SeverityOf(doc[ri][vi]))
    BY <1>3 DEF ScanCount
  <2>2. /\ ri \in 1..(Len(doc) + 1)
        /\ vi \in 1..(Len(doc[ri]) + 1)
        /\ \A i \in 1..(ri - 1) : doc[i] # Null
        /\ IsFiniteSet(Visited(doc, ri, vi))
        /\ \A t \in Tiers : counts[t] = Cardinality(InTier(doc, Visited(doc, ri, vi), t))
    BY <2>1 DEF LoopInv
  <2>3. /\ Len(doc) \in Nat /\ Len(doc[ri]) \in Nat
        /\ doc[ri][vi] \in Entry
    BY <2>1, <2>2, DocShape DEF TypeInv
  <2>4. /\ Visited(doc, ri, vi + 1) = Visited(doc, ri, vi) \cup {<<ri, vi>>}
        /\ <<ri, vi>> \notin Visited(doc, ri, vi)
    BY <2>2, <2>3, VisitedNextEntry
  <2>5. IsFiniteSet(Visited(doc, ri, vi + 1))
    BY <2>2, <2>4, FS_AddElement
  <2>6. ASSUME NEW t \in Tiers
        PROVE  counts'[t] = Cardinality(InTier(doc, Visited(doc, ri, vi + 1), t))
    <3>1. counts'[t] = counts[t] + (IF RefTier(doc[ri][vi]) = t THEN 1 ELSE 0)
      BY <2>1, <2>3, CountStep DEF TypeInv, TypeOK
    <3>2. Cardinality(InTier(doc, Visited(doc, ri, vi) \cup {<<ri, vi>>}, t)) =
            Cardinality(InTier(doc, Visited(doc, ri, vi), t))
              + (IF RefTier(doc[ri][vi]) = t THEN 1 ELSE 0)
      BY <2>2, <2>4, InTierAdd
    <3>. QED
      BY <2>2, <2>4, <3>1, <3>2
  <2>. QED
    BY <2>1, <2>2, <2>3, <2>5, <2>6 DEF LoopInv
<1>4. CASE ScanNextResult
  <2>1. /\ pc = "scan" /\ doc # Null /\ ri <= Len(doc) /\ doc[ri] # Null
        /\ vi > Len(doc[ri])
        /\ pc' = pc /\ doc' = doc /\ ri' = ri + 1 /\ vi' = 1 /\ counts' = counts
    BY <1>4 DEF ScanNextResult
  <2>2. /\ ri \in 1..(Len(doc) + 1)
        /\ vi \in 1..(Len(doc[ri]) + 1)
        /\ \A i \in 1..(ri - 1) : doc[i] # Null
        /\ IsFiniteSet(Visited(doc, ri, vi))
        /\ \A t \in Tiers : counts[t] = Cardinality(InTier(doc, Visited(doc, ri, vi), t))
    BY <2>1 DEF LoopInv
  <2>3. /\ Len(doc) \in Nat /\ Len(doc[ri]) \in Nat
        /\ (ri + 1 <= Len(doc) /\ doc[ri + 1] # Null => Len(doc[ri + 1]) \in Nat)
    BY <2>1, <2>2, DocShape DEF TypeInv
  <2>4. vi = Len(doc[ri]) + 1
    BY <2>1, <2>2, <2>3
  <2>5. Visited(doc, ri + 1, 1) = Visited(doc, ri, vi)
    BY <2>2, <2>4, VisitedNextResult
  <2>. QED
    BY <2>1, <2>2, <2>3, <2>5 DEF LoopInv
<1>5. CASE UNCHANGED vars
  BY <1>5 DEF LoopInv, vars
<1>6. CASE ~CollectStartScan /\ ~ScanCount /\ ~ScanNextResult /\ ~UNCHANGED vars
  <2>1. pc' # "scan"
    BY <1>6 DEF Next, ProgramStep, Rescan, StartRun, Kill, AssessLaunchFails,
                AssessScriptReturns, AssessScriptHangs, CollectNoScan,
                CollectMalformed, ScanRaises, ScanEnd, GenerateCompliance,
                OpenDashboard, WriteDashboard, OpenMetrics, WriteMetrics, NextStep
  <2>. QED
    BY <2>1, <1>1
<1>. QED
  BY <1>2, <1>3, <1>4, <1>5, <1>6

LEMMA InitTallyInv == Init => TallyInv
BY DEF Init, TallyInv, StepsAfterScan, Complete

(* What ScanEnd stores: at the end of the loops every entry was visited.   *)
LEMMA ScanEndTally ==
    ASSUME TypeInv, LoopInv, ScanEnd
    PROVE  /\ results'.vulnerabilities = RefTally(results'.scanned)
           /\ IsFiniteSet(Entries(results'.scanned))
<1>1. /\ pc = "scan" /\ doc # Null /\ ri > Len(doc)
      /\ results' = [results EXCEPT !.vulnerabilities = counts, !.scanned = doc]
  BY DEF ScanEnd
<1>2. /\ ri \in 1..(Len(doc) + 1)
      /\ vi \in 1..(IF ri <= Len(doc) /\ doc[ri] # Null THEN Len(doc[ri]) + 1 ELSE 1)
      /\ IsFiniteSet(Visited(doc, ri, vi))
      /\ \A t \in Tiers : counts[t] = Cardinality(InTier(doc, Visited(doc, ri, vi), t))
  BY <1>1 DEF LoopInv
<1>3. Len(doc) \in Nat
  BY <1>1, DocShape DEF TypeInv
<1>4. ri = Len(doc) + 1 /\ vi = 1
  BY <1>1, <1>2, <1>3
<1>5. Visited(doc, ri, vi) = Entries(doc)
  BY <1>3, <1>4, VisitedAll
<1>6. results'.vulnerabilities = counts /\ results'.scanned = doc
  BY <1>1 DEF TypeInv, TypeOK
<1>7. counts = RefTally(doc)
  BY <1>2, <1>5 DEF TypeInv, TypeOK, Counts, RefTally, InTier
<1>. QED
  BY <1>2, <1>5, <1>6, <1>7

LEMMA NextTallyInv == TypeInv /\ LoopInv /\ TallyInv /\ [Next]_vars => TallyInv'
<1> SUFFICES ASSUME TypeInv, LoopInv, TallyInv, [Next]_vars PROVE TallyInv'
  OBVIOUS
<1>1. CASE CollectNoScan
  <2>1. results'.vulnerabilities = NoVulns /\ results'.scanned = <<>>
    BY <1>1 DEF CollectNoScan, TypeInv, TypeOK
  <2>2. Entries(<<>>) = {}
    BY DEF Entries
  <2>3. RefTally(<<>>) = NoVulns
    BY <2>2, FS_EmptySet DEF RefTally, NoVulns
  <2>. QED
    BY <1>1, <2>1, <2>2, <2>3, FS_EmptySet DEF CollectNoScan, TallyInv
<1>2. CASE ScanEnd
  BY <1>2, ScanEndTally DEF ScanEnd, TallyInv
<1>3. CASE OpenDashboard
  BY <1>3 DEF OpenDashboard, TallyInv, StepsAfterScan, Complete, Truncated
<1>4. CASE WriteDashboard
  <2>1. /\ results.vulnerabilities = RefTally(results.scanned)
        /\ IsFiniteSet(Entries(results.scanned))
    BY <1>4 DEF WriteDashboard, TallyInv, StepsAfterScan
  <2>. QED
    BY <1>4, <2>1 DEF WriteDashboard, TallyInv, StepsAfterScan, NextStep, Complete
<1>5. CASE GenerateCompliance \/ OpenMetrics
  <2>1. /\ pc \in StepsAfterScan
        /\ results'.vulnerabilities = results.vulnerabilities
        /\ results'.scanned = results.scanned
        /\ dashboard' = dashboard
    BY <1>5 DEF GenerateCompliance, OpenMetrics, StepsAfterScan, TypeInv, TypeOK
  <2>. QED
    BY <2>1 DEF TallyInv
<1>6. CASE UNCHANGED vars
  BY <1>6 DEF TallyInv, vars
<1>7. CASE \/ Rescan \/ StartRun \/ Kill
           \/ AssessLaunchFails \/ AssessScriptReturns \/ AssessScriptHangs
           \/ CollectMalformed \/ CollectStartScan \/ ScanCount \/ ScanNextResult
           \/ ScanRaises \/ WriteMetrics
  <2>1. pc' \notin StepsAfterScan /\ dashboard' = dashboard
    BY <1>7 DEF Rescan, StartRun, Kill, AssessLaunchFails, AssessScriptReturns,
                AssessScriptHangs, CollectMalformed, CollectStartScan, ScanCount,
                ScanNextResult, ScanRaises, WriteMetrics, NextStep, StepsAfterScan
  <2>. QED
    BY <2>1 DEF TallyInv
<1>. QED
  BY <1>1, <1>2, <1>3, <1>4, <1>5, <1>6, <1>7 DEF Next, ProgramStep

(* The severity counts and the total on every written dashboard are those  *)
(* of the Trivy scan its invocation read, whatever ran, raised or was       *)
(* killed before: the loops of lines 61-70 count every entry of the scan   *)
(* in its tier exactly once, and line 274 sums the four tiers.             *)
THEOREM VulnCountsCorrect == Spec => []VulnCountsMatchScan
<1>1. Spec => [](TypeInv /\ LoopInv /\ TallyInv)
  BY InitTypeInv, NextTypeInv, InitLoopInv, NextLoopInv, InitTallyInv,
     NextTallyInv, PTL DEF Spec
<1>2. TallyInv => VulnCountsMatchScan
  BY TotalTally DEF TallyInv, VulnCountsMatchScan
<1>. QED
  BY <1>1, <1>2, PTL

=============================================================================
