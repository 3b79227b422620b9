------------------ MODULE SecurityDashboardRefinementProofs ------------------
(***************************************************************************)
(* The safety part of the refinement checked by CollectRefinesAbstract:    *)
(* every step of SecurityDashboard is a step of SecurityDashboardAbstract  *)
(* under the mapping of SecurityDashboardRefinement, or leaves the mapped  *)
(* variables alone.  The fairness part, that the loops end, is a liveness  *)
(* property and stays with TLC.                                            *)
(***************************************************************************)
EXTENDS SecurityDashboardRefinement, SecurityDashboardProofs

USE MaxRunsAssumption, PctsAssumption, NoFileAssumption, SentinelAssumption,
    ScansAssumption

(* Besides LoopInv: the loops read the file the scanner left, which does   *)
(* not change while an invocation runs, and every entry visited so far was *)
(* not null (a null raises before it is counted).                          *)
RefInv ==
    /\ pc = "scan" => doc = trivy
    /\ pc = "scan" /\ doc # Null =>
          \A e \in Visited(doc, ri, vi) : doc[e[1]][e[2]] # Null

LEMMA InitRefInv == Init => RefInv
BY DEF Init, RefInv

LEMMA NextRefInv == TypeInv /\ LoopInv /\ RefInv /\ [Next]_vars => RefInv'
<1> SUFFICES ASSUME TypeInv, LoopInv, RefInv, [Next]_vars PROVE RefInv'
  OBVIOUS
<1>1. CASE pc' # "scan"
  BY <1>1 DEF RefInv
<1>2. CASE CollectStartScan
  BY <1>2, VisitedStart DEF CollectStartScan, RefInv
<1>3. CASE ScanCount
  <2>1. /\ pc = "scan" /\ doc # Null /\ ri <= Len(doc) /\ doc[ri] # Null
        /\ vi <= Len(doc[ri]) /\ doc[ri][vi] # Null
        /\ pc' = pc /\ doc' = doc /\ ri' = ri /\ vi' = vi + 1 /\ trivy' = trivy
    BY <1>3 DEF ScanCount
  <2>2. ri \in Nat \ {0} /\ vi \in Nat \ {0}
    BY <2>1 DEF LoopInv
  <2>3. Visited(doc, ri, vi + 1) = Visited(doc, ri, vi) \cup {<<ri, vi>>}
    BY <2>2, VisitedNextEntry
  <2>. QED
    BY <2>1, <2>3 DEF RefInv
<1>4. CASE ScanNextResult
  <2>1. /\ pc = "scan" /\ doc # Null /\ ri <= Len(doc) /\ doc[ri] # Null
        /\ vi > Len(doc[ri])
        /\ pc' = pc /\ doc' = doc /\ ri' = ri + 1 /\ vi' = 1 /\ trivy' = trivy
    BY <1>4 DEF ScanNextResult
  <2>2. /\ ri \in 1..(Len(doc) + 1)
        /\ vi \in 1..(Len(doc[ri]) + 1)
    BY <2>1 DEF LoopInv
  <2>3. Len(doc[ri]) \in Nat
    BY <2>1, <2>2, DocShape DEF TypeInv
  <2>4. Visited(doc, ri + 1, 1) = Visited(doc, ri, vi)
    BY <2>1, <2>2, <2>3, VisitedNextResult
  <2>. QED
    BY <2>1, <2>4 DEF RefInv
<1>5. CASE UNCHANGED vars
  BY <1>5 DEF RefInv, vars
<1>6. CASE ~CollectStartScan /\ ~ScanCount /\ ~ScanNextResult /\ ~UNCHANGED vars
  <2>1. pc' # "scan"
    BY <1>6 DEF Next, ProgramStep, Rescan, StartRun, Kill, AssessLaunchFails,
                AssessScriptReturns, AssessScriptHangs, CollectNoScan,
                CollectMalformed, ScanRaises, ScanEnd, GenerateCompliance,
                OpenDashboard, WriteDashboard, OpenMetrics, WriteMetrics, NextStep
  <2>. QED
    BY <2>1, <1>1
<1>. QED
  BY <1>2, <1>3, <1>4, <1>5, <1>6

(* The file the loops read is the one the abstract Collect looks at.       *)
LEMMA LoopReadsScan ==
    ASSUME TypeInv, RefInv, pc = "scan"
    PROVE  /\ doc = trivy /\ trivy \in Scans
           /\ trivy # NoFile /\ trivy # Malformed
BY DEF TypeInv, RefInv

(* The tally of the loops is the abstract Tally.                            *)
LEMMA TallySame ==
    ASSUME NEW d
    PROVE  RefTally(d) = Abs!Tally(d)
BY DEF RefTally, RefTier, Entries, Abs!Tally, Abs!TierOf, Abs!Entries, Tiers, Abs!Tiers,
       Cardinality, Abs!Cardinality

(* ScanEnd is the abstract Collect of a scan without nulls.                 *)
LEMMA ScanEndRefines ==
    ASSUME TypeInv, LoopInv, RefInv, ScanEnd
    PROVE  Abs!Collect
<1>1. /\ pc = "scan" /\ doc # Null /\ ri > Len(doc)
      /\ results' = [results EXCEPT !.vulnerabilities = counts, !.scanned = doc]
      /\ pc' = "compliance" /\ UNCHANGED <<run, trivy>>
  BY DEF ScanEnd, NextStep
<1>2. /\ doc = trivy /\ trivy \in Scans /\ trivy # NoFile /\ trivy # Malformed
  BY <1>1, LoopReadsScan
<1>3. /\ ri \in 1..(Len(doc) + 1)
      /\ vi \in 1..(IF ri <= Len(doc) /\ doc[ri] # Null THEN Len(doc[ri]) + 1 ELSE 1)
      /\ \A i \in 1..(ri - 1) : doc[i] # Null
  BY <1>1 DEF LoopInv
<1>4. Len(doc) \in Nat
  BY <1>1, <1>2, DocShape
<1>5. ri = Len(doc) + 1 /\ vi = 1
  BY <1>1, <1>3, <1>4
<1>6. Visited(doc, ri, vi) = Entries(doc)
  BY <1>4, <1>5, VisitedAll
<1>7. ~Abs!HasNull(trivy)
  <2>1. \A i \in 1..Len(doc) : doc[i] # Null
    BY <1>3, <1>5
  <2>2. \A i \in 1..Len(doc) : \A j \in 1..Len(doc[i]) : doc[i][j] # Null
    <3> SUFFICES ASSUME NEW i \in 1..Len(doc), NEW j \in 1..Len(doc[i])
                 PROVE  doc[i][j] # Null
      OBVIOUS
    <3>1. <<i, j>> \in Visited(doc, ri, vi)
      BY <1>6 DEF Entries
    <3>. QED
      BY <1>1, <3>1 DEF RefInv
  <2>. QED
    BY <1>1, <1>2, <2>1, <2>2 DEF Abs!HasNull
<1>8. /\ results'.vulnerabilities = Abs!Tally(trivy)
      /\ results'.scanned = trivy
  <2>1. results'.scanned = doc
    BY <1>1 DEF TypeInv, TypeOK
  <2>2. results'.vulnerabilities = RefTally(doc)
    BY <2>1, ScanEndTally
  <2>. QED
    BY <1>2, <2>1, <2>2, TallySame
<1>9. AbsPc = "vulns" /\ AbsPc' = "after"
  BY <1>1 DEF AbsPc
<1>. QED
  BY <1>1, <1>2, <1>7, <1>8, <1>9 DEF Abs!Collect

(* ScanRaises is the abstract Collect stopping on a null.                   *)
LEMMA ScanRaisesRefines ==
    ASSUME TypeInv, LoopInv, RefInv, ScanRaises
    PROVE  Abs!Collect
<1>1. /\ pc = "scan" /\ pc' = "idle"
      /\ UNCHANGED <<run, results, trivy>>
  BY DEF ScanRaises
<1>2. /\ doc = trivy /\ trivy \in Scans /\ trivy # NoFile /\ trivy # Malformed
  BY <1>1, LoopReadsScan
<1>3. Abs!HasNull(trivy)
  <2>1. CASE doc = Null
    BY <1>2, <2>1 DEF Abs!HasNull
  <2>2. CASE doc # Null
    <3>1. /\ ri <= Len(doc)
          /\ IF doc[ri] = Null THEN TRUE ELSE vi <= Len(doc[ri]) /\ doc[ri][vi] = Null
      BY <2>2 DEF ScanRaises
    <3>2. ri \in 1..(Len(doc) + 1) /\ vi \in Nat \ {0}
      BY <1>1, <2>2 DEF LoopInv
    <3>3. ri \in 1..Len(doc)
      BY <3>1, <3>2
    <3>4. CASE doc[ri] = Null
      BY <1>2, <2>2, <3>3, <3>4 DEF Abs!HasNull
    <3>5. CASE doc[ri] # Null
      <4>1. vi \in 1..Len(doc[ri]) /\ doc[ri][vi] = Null
        BY <3>1, <3>2, <3>5
      <4>. QED
        BY <1>2, <2>2, <3>3, <3>5, <4>1 DEF Abs!HasNull
    <3>. QED
      BY <3>4, <3>5
  <2>. QED
    BY <2>1, <2>2
<1>4. AbsPc = "vulns" /\ AbsPc' = "idle"
  BY <1>1 DEF AbsPc
<1>. QED
  BY <1>1, <1>2, <1>3, <1>4 DEF Abs!Collect

LEMMA InitRefines == Init => Abs!Init
BY DEF Init, Abs!Init, AbsPc, ScanFiles, Unset

(* Each step of run() is a step of the abstract specification or leaves   *)
(* the mapped variables alone.                                             *)
LEMMA NextRefines ==
    TypeInv /\ LoopInv /\ RefInv /\ [Next]_vars => [Abs!Next]_Abs!avars
<1> SUFFICES ASSUME TypeInv, LoopInv, RefInv, [Next]_vars
             PROVE  [Abs!Next]_Abs!avars
  OBVIOUS
<1>0. results \in [assessment : Assessments,
                   vulnerabilities : {Unset} \cup Counts,
                   scanned : {Unset} \cup Scans \cup {<<>>},
                   compliance : {Unset, ComplianceReport}]
  BY DEF TypeInv, TypeOK
(* Steps inside one abstract phase: the loops, and the steps after them.   *)
<1>1. ASSUME AbsPc' = AbsPc, UNCHANGED run, UNCHANGED trivy,
             results'.vulnerabilities = results.vulnerabilities,
             results'.scanned = results.scanned
      PROVE  UNCHANGED Abs!avars
  BY <1>1 DEF Abs!avars
<1>2. CASE Rescan
  BY <1>2 DEF Rescan, Abs!Next, Abs!Rescan, AbsPc, ScanFiles
<1>3. CASE StartRun
  BY <1>3 DEF StartRun, Abs!Next, Abs!StartRun, AbsPc, Unset
<1>4. CASE Kill
  BY <1>4 DEF Kill, Abs!Next, Abs!Kill, AbsPc
<1>5. CASE AssessLaunchFails \/ AssessScriptReturns \/ AssessScriptHangs
  <2>1. /\ pc = "assess" /\ pc' \in {"vulns", "hung"}
        /\ UNCHANGED <<run, trivy>>
        /\ results'.vulnerabilities = results.vulnerabilities
        /\ results'.scanned = results.scanned
    BY <1>0, <1>5 DEF AssessLaunchFails, AssessScriptReturns, AssessScriptHangs,
                      NextStep
  <2>. QED
    BY <2>1 DEF Abs!Next, Abs!Assess, AbsPc
<1>6. CASE CollectNoScan
  <2>1. /\ pc = "vulns" /\ trivy = NoFile /\ pc' = "compliance"
        /\ UNCHANGED <<run, trivy>>
        /\ results'.vulnerabilities = NoVulns /\ results'.scanned = <<>>
    BY <1>0, <1>6 DEF CollectNoScan, NextStep
  <2>. QED
    BY <2>1 DEF Abs!Next, Abs!Collect, AbsPc, NoVulns, Abs!Tiers, Tiers
<1>7. CASE CollectMalformed
  <2>1. trivy # NoFile
    BY <1>7, SentinelAssumption DEF CollectMalformed
  <2>. QED
    BY <1>7, <2>1 DEF CollectMalformed, Abs!Next, Abs!Collect, AbsPc
<1>8. CASE CollectStartScan \/ ScanCount \/ ScanNextResult
  BY <1>1, <1>8 DEF CollectStartScan, ScanCount, ScanNextResult, AbsPc
<1>9. CASE ScanRaises
  BY <1>9, ScanRaisesRefines DEF Abs!Next
<1>10. CASE ScanEnd
  BY <1>10, ScanEndRefines DEF Abs!Next
<1>11. CASE GenerateCompliance
  <2>1. results'.vulnerabilities = results.vulnerabilities
        /\ results'.scanned = results.scanned
    BY <1>0, <1>11 DEF GenerateCompliance
  <2>. QED
    BY <1>1, <1>11, <2>1 DEF GenerateCompliance, NextStep, AbsPc
<1>12. CASE OpenDashboard \/ WriteDashboard \/ OpenMetrics
  BY <1>1, <1>12 DEF OpenDashboard, WriteDashboard, OpenMetrics, NextStep, AbsPc
<1>13. CASE WriteMetrics
  BY <1>13 DEF WriteMetrics, NextStep, Abs!Next, Abs!Finish, AbsPc
<1>14. CASE UNCHANGED vars
  BY <1>14 DEF vars, Abs!avars, AbsPc
<1>. QED
  BY <1>2, <1>3, <1>4, <1>5, <1>6, <1>7, <1>8, <1>9, <1>10, <1>11, <1>12,
     <1>13, <1>14 DEF Next, ProgramStep

(* The safety part of CollectRefinesAbstract, for every value of the       *)
(* constants: every behaviour of run() across invocations, rescans, raises  *)
(* and kills starts in an abstract initial state and takes only abstract    *)
(* steps, in which collect_vulnerability_metrics stores the tally of the   *)
(* scan it read in one step, or stops exactly on a scan with a null.        *)
THEOREM RefinesAbstractSafety == Spec => Abs!Init /\ [][Abs!Next]_Abs!avars
<1>1. Spec => [](TypeInv /\ LoopInv /\ RefInv)
  BY InitTypeInv, NextTypeInv, InitLoopInv, NextLoopInv, InitRefInv, NextRefInv,
     PTL DEF Spec
<1>. QED
  BY <1>1, InitRefines, NextRefines, PTL DEF Spec

=============================================================================
