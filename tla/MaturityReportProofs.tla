------------------------- MODULE MaturityReportProofs -------------------------
(***************************************************************************)
(* Proofs about MaturityReport, for every value of the constants: the      *)
(* percentages, the recommendations for every valid score record, and the  *)
(* invariants of the reports written across invocations.                   *)
(***************************************************************************)
EXTENDS MaturityReport, SequenceTheorems, TLAPS

USE MaxRunsAssumption, InputsAssumption, NoFileAssumption

-----------------------------------------------------------------------------
(* Percentages.                                                            *)

(* For a score within its level's maximum, round((x / m) * 100) is in      *)
(* 0..100 and is 100 only at the maximum: no score one below the maximum   *)
(* rounds up to 100, since the largest maximum is 35.                      *)
LEMMA HtmlPctRange ==
    ASSUME NEW l \in Levels, NEW x \in 0..MaxScore[l]
    PROVE  /\ HtmlPct(x, MaxScore[l]) \in 0..100
           /\ HtmlPct(x, MaxScore[l]) = 100 <=> x = MaxScore[l]
<1>1. CASE l = 1
  BY <1>1 DEF HtmlPct, MaxScore
<1>2. CASE l = 2
  BY <1>2 DEF HtmlPct, MaxScore
<1>3. CASE l = 3
  BY <1>3 DEF HtmlPct, MaxScore
<1>4. CASE l = 4
  BY <1>4 DEF HtmlPct, MaxScore
<1>5. CASE l = 5
  BY <1>5 DEF HtmlPct, MaxScore
<1>. QED
  BY <1>1, <1>2, <1>3, <1>4, <1>5 DEF Levels

-----------------------------------------------------------------------------
(* Recommendations.                                                        *)

(* Some recommendation in the list is about level l.                       *)
Occurs(seq, l) == \E i \in 1..Len(seq) : RecLevel(seq[i]) = l

LEMMA WhenType ==
    ASSUME NEW c, NEW r \in Seq(RecNames)
    PROVE  When(c, r) \in Seq(RecNames)
BY DEF When

(* A recommendation of either part is one of the concatenation.            *)
LEMMA OccursConcat ==
    ASSUME NEW s \in Seq(RecNames), NEW t \in Seq(RecNames), NEW l,
           Occurs(s, l) \/ Occurs(t, l)
    PROVE  Occurs(s \o t, l)
<1>1. /\ Len(s \o t) = Len(s) + Len(t)
      /\ \A i \in 1..Len(s) + Len(t) :
            (s \o t)[i] = IF i <= Len(s) THEN s[i] ELSE t[i - Len(s)]
  BY ConcatProperties
<1>2. CASE Occurs(s, l)
  <2>1. PICK i \in 1..Len(s) : RecLevel(s[i]) = l
    BY <1>2 DEF Occurs
  <2>. QED
    BY <1>1, <2>1 DEF Occurs
<1>3. CASE Occurs(t, l)
  <2>1. PICK i \in 1..Len(t) : RecLevel(t[i]) = l
    BY <1>3 DEF Occurs
  <2>2. Len(s) + i \in 1..Len(s \o t) /\ (s \o t)[Len(s) + i] = t[i]
    BY <1>1
  <2>. QED
    BY <2>1, <2>2 DEF Occurs
<1>. QED
  BY <1>2, <1>3

LEMMA TupleRecs ==
    ASSUME NEW x \in RecNames, NEW y \in RecNames, NEW z \in RecNames
    PROVE  /\ <<x>> \in Seq(RecNames)
           /\ <<x, y>> \in Seq(RecNames)
           /\ <<x, y, z>> \in Seq(RecNames)
OBVIOUS

RecTuplesFacts ==
   /\ <<"dockerfile">> \in Seq(RecNames)
   /\ <<"multistage">> \in Seq(RecNames)
   /\ <<"nonroot">> \in Seq(RecNames)
   /\ <<"minimal_base">> \in Seq(RecNames)
   /\ <<"crds">> \in Seq(RecNames)
   /\ <<"controller">> \in Seq(RecNames)
   /\ <<"helm", "rbac">> \in Seq(RecNames)
   /\ <<"microservices", "service_mesh", "tracing">> \in Seq(RecNames)
   /\ <<"cloud_services", "multi_cloud", "cost">> \in Seq(RecNames)
   /\ <<"gitops", "e2e", "self_healing">> \in Seq(RecNames)

LEMMA RecTuples == RecTuplesFacts
<1>1. "dockerfile" \in RecNames /\ "multistage" \in RecNames
     /\ "nonroot" \in RecNames /\ "minimal_base" \in RecNames
     /\ "crds" \in RecNames /\ "controller" \in RecNames
     /\ "helm" \in RecNames /\ "rbac" \in RecNames
     /\ "microservices" \in RecNames /\ "service_mesh" \in RecNames
     /\ "tracing" \in RecNames /\ "cloud_services" \in RecNames
     /\ "multi_cloud" \in RecNames /\ "cost" \in RecNames
     /\ "gitops" \in RecNames /\ "e2e" \in RecNames
     /\ "self_healing" \in RecNames
  BY DEF RecNames
<1>. QED
  BY <1>1, TupleRecs DEF RecTuplesFacts

LEMMA LevelRecsType ==
    ASSUME NEW s \in ValidScores
    PROVE  /\ Level1Recs(s) \in Seq(RecNames)
           /\ Level2Recs(s) \in Seq(RecNames)
           /\ Level3Recs(s) \in Seq(RecNames)
           /\ Level4Recs(s) \in Seq(RecNames)
           /\ Level5Recs(s) \in Seq(RecNames)
<1>1. RecTuplesFacts
  BY RecTuples
<1>2. Level1Recs(s) \in Seq(RecNames)
  <2>1. /\ When(s[1] < 5, <<"dockerfile">>) \in Seq(RecNames)
        /\ When(s[1] < 10, <<"multistage">>) \in Seq(RecNames)
        /\ When(s[1] < 15, <<"nonroot">>) \in Seq(RecNames)
    BY <1>1, WhenType DEF RecTuplesFacts
  <2>2. When(s[1] < 5, <<"dockerfile">>) \o When(s[1] < 10, <<"multistage">>)
          \o When(s[1] < 15, <<"nonroot">>) \o <<"minimal_base">> \in Seq(RecNames)
    BY <1>1, <2>1, ConcatProperties DEF RecTuplesFacts
  <2>. QED
    BY <2>2, WhenType DEF Level1Recs
<1>3. Level2Recs(s) \in Seq(RecNames)
  <2>1. /\ When(s[2] < 10, <<"crds">>) \in Seq(RecNames)
        /\ When(s[2] < 20, <<"controller">>) \in Seq(RecNames)
    BY <1>1, WhenType DEF RecTuplesFacts
  <2>2. When(s[2] < 10, <<"crds">>) \o When(s[2] < 20, <<"controller">>)
          \o <<"helm", "rbac">> \in Seq(RecNames)
    BY <1>1, <2>1, ConcatProperties DEF RecTuplesFacts
  <2>. QED
    BY <2>2, WhenType DEF Level2Recs
<1>4. /\ Level3Recs(s) \in Seq(RecNames)
      /\ Level4Recs(s) \in Seq(RecNames)
      /\ Level5Recs(s) \in Seq(RecNames)
  BY <1>1, WhenType DEF RecTuplesFacts, Level3Recs, Level4Recs, Level5Recs
<1>. QED
  BY <1>2, <1>3, <1>4

LEMMA AllRecsType ==
    ASSUME NEW s \in ValidScores
    PROVE  AllRecs(s) \in Seq(RecNames)
BY LevelRecsType, ConcatProperties DEF AllRecs

(* The group of the lowest level below its maximum fires: its own test    *)
(* holds, and its gate holds because the level below is at its maximum,   *)
(* which is at least the gate's threshold.                                 *)
LEMMA LowestGapGroupFires ==
    ASSUME NEW s \in ValidScores, NEW l \in Levels, ~AtMax(s, l),
           \A k \in 1..(l - 1) : AtMax(s, k)
    PROVE  \/ l = 1 /\ Occurs(Level1Recs(s), 1)
           \/ l = 2 /\ Occurs(Level2Recs(s), 2)
           \/ l = 3 /\ Occurs(Level3Recs(s), 3)
           \/ l = 4 /\ Occurs(Level4Recs(s), 4)
           \/ l = 5 /\ Occurs(Level5Recs(s), 5)
<1>0. s[l] < MaxScore[l]
  BY DEF ValidScores, AtMax, Levels, MaxScore
<1>1. CASE l = 1
  <2> DEFINE P == When(s[1] < 5, <<"dockerfile">>) \o
                  When(s[1] < 10, <<"multistage">>) \o
                  When(s[1] < 15, <<"nonroot">>)
  <2>1. Level1Recs(s) = P \o <<"minimal_base">>
    BY <1>0, <1>1 DEF Level1Recs, When, MaxScore
  <2>2. Occurs(<<"minimal_base">>, 1)
    BY DEF Occurs, RecLevel
  <2>3. P \in Seq(RecNames) /\ <<"minimal_base">> \in Seq(RecNames)
    BY RecTuples, WhenType, ConcatProperties DEF RecTuplesFacts
  <2>4. Occurs(P \o <<"minimal_base">>, 1)
    BY <2>2, <2>3, OccursConcat
  <2>. QED
    BY <1>1, <2>1, <2>4
<1>2. CASE l = 2
  <2> DEFINE P == When(s[2] < 10, <<"crds">>) \o When(s[2] < 20, <<"controller">>)
  <2>1. s[1] = 20
    BY <1>2 DEF AtMax, MaxScore
  <2>2. Level2Recs(s) = P \o <<"helm", "rbac">>
    BY <1>0, <1>2, <2>1 DEF Level2Recs, When, MaxScore
  <2>3. Occurs(<<"helm", "rbac">>, 2)
    BY DEF Occurs, RecLevel
  <2>4. P \in Seq(RecNames) /\ <<"helm", "rbac">> \in Seq(RecNames)
    BY RecTuples, WhenType, ConcatProperties DEF RecTuplesFacts
  <2>5. Occurs(P \o <<"helm", "rbac">>, 2)
    BY <2>3, <2>4, OccursConcat
  <2>. QED
    BY <1>2, <2>2, <2>5
<1>3. CASE l = 3
  <2>1. s[2] = 35
    BY <1>3 DEF AtMax, MaxScore
  <2>. QED
    BY <1>0, <1>3, <2>1 DEF Level3Recs, When, MaxScore, Occurs, RecLevel
<1>4. CASE l = 4
  <2>1. s[3] = 25
    BY <1>4 DEF AtMax, MaxScore
  <2>. QED
    BY <1>0, <1>4, <2>1 DEF Level4Recs, When, MaxScore, Occurs, RecLevel
<1>5. CASE l = 5
  <2>1. s[4] = 15
    BY <1>5 DEF AtMax, MaxScore
  <2>. QED
    BY <1>0, <1>5, <2>1 DEF Level5Recs, When, MaxScore, Occurs, RecLevel
<1>. QED
  BY <1>1, <1>2, <1>3, <1>4, <1>5 DEF Levels

(* A recommendation of one group is one of the whole list.                *)
LEMMA OccursInAll ==
    ASSUME NEW s \in ValidScores, NEW l,
           \/ Occurs(Level1Recs(s), l) \/ Occurs(Level2Recs(s), l)
           \/ Occurs(Level3Recs(s), l) \/ Occurs(Level4Recs(s), l)
           \/ Occurs(Level5Recs(s), l)
    PROVE  Occurs(AllRecs(s), l)
<1> DEFINE L1 == Level1Recs(s)  L2 == Level2Recs(s)  L3 == Level3Recs(s)
           L4 == Level4Recs(s)  L5 == Level5Recs(s)
           A2 == L1 \o L2  A3 == A2 \o L3  A4 == A3 \o L4
<1>1. /\ L1 \in Seq(RecNames) /\ L2 \in Seq(RecNames) /\ L3 \in Seq(RecNames)
      /\ L4 \in Seq(RecNames) /\ L5 \in Seq(RecNames)
  BY LevelRecsType
<1>2. A2 \in Seq(RecNames) /\ A3 \in Seq(RecNames) /\ A4 \in Seq(RecNames)
  BY <1>1, ConcatProperties
<1>3. Occurs(L1, l) \/ Occurs(L2, l) => Occurs(A2, l)
  BY <1>1, OccursConcat
<1>4. Occurs(A2, l) \/ Occurs(L3, l) => Occurs(A3, l)
  BY <1>1, <1>2, OccursConcat
<1>5. Occurs(A3, l) \/ Occurs(L4, l) => Occurs(A4, l)
  BY <1>1, <1>2, OccursConcat
<1>6. Occurs(A4, l) \/ Occurs(L5, l) => Occurs(A4 \o L5, l)
  BY <1>1, <1>2, OccursConcat
<1>7. AllRecs(s) = A4 \o L5
  BY DEF AllRecs
<1>. QED
  BY <1>3, <1>4, <1>5, <1>6, <1>7

(* _generate_recommendations always advises on the lowest level below its *)
(* maximum, for every score record within the maxima (lines 327-367).     *)
THEOREM LowestGapAdvised ==
    ASSUME NEW s \in ValidScores, NEW l \in Levels, ~AtMax(s, l),
           \A k \in 1..(l - 1) : AtMax(s, k)
    PROVE  Occurs(Recommendations(s), l)
<1>1. Occurs(AllRecs(s), l)
  BY LowestGapGroupFires, OccursInAll
<1>2. AllRecs(s) # <<>>
  BY <1>1 DEF Occurs
<1>. QED
  BY <1>1, <1>2 DEF Recommendations

(* Some level is below its maximum exactly when there is a lowest one.    *)
LEMMA LowestGapExists ==
    ASSUME NEW s \in ValidScores, \E l \in Levels : ~AtMax(s, l)
    PROVE  \E l \in Levels : ~AtMax(s, l) /\ \A k \in 1..(l - 1) : AtMax(s, k)
<1>1. CASE ~AtMax(s, 1)
  BY <1>1 DEF Levels
<1>2. CASE AtMax(s, 1) /\ ~AtMax(s, 2)
  BY <1>2 DEF Levels
<1>3. CASE AtMax(s, 1) /\ AtMax(s, 2) /\ ~AtMax(s, 3)
  BY <1>3 DEF Levels
<1>4. CASE AtMax(s, 1) /\ AtMax(s, 2) /\ AtMax(s, 3) /\ ~AtMax(s, 4)
  BY <1>4 DEF Levels
<1>5. CASE AtMax(s, 1) /\ AtMax(s, 2) /\ AtMax(s, 3) /\ AtMax(s, 4)
  BY <1>5 DEF Levels
<1>. QED
  BY <1>1, <1>2, <1>3, <1>4, <1>5

(* Spec section 8: the "excellent" message is the whole list exactly when *)
(* every level is at its maximum (lines 327-367).                          *)
THEOREM ExcellentExactlyAtFullMarks ==
    ASSUME NEW s \in ValidScores
    PROVE  Recommendations(s) = <<"excellent">> <=> \A l \in Levels : AtMax(s, l)
<1>1. ASSUME \A l \in Levels : AtMax(s, l)
      PROVE  Recommendations(s) = <<"excellent">>
  <2>1. /\ s[1] = 20 /\ s[2] = 35 /\ s[3] = 25 /\ s[4] = 15 /\ s[5] = 20
    BY <1>1 DEF AtMax, MaxScore, Levels
  <2>2. /\ Level1Recs(s) = <<>> /\ Level2Recs(s) = <<>> /\ Level3Recs(s) = <<>>
        /\ Level4Recs(s) = <<>> /\ Level5Recs(s) = <<>>
    BY <2>1 DEF Level1Recs, Level2Recs, Level3Recs, Level4Recs, Level5Recs, When
  <2>3. AllRecs(s) = <<>>
    BY <2>2 DEF AllRecs
  <2>. QED
    BY <2>3 DEF Recommendations
<1>2. ASSUME \E l \in Levels : ~AtMax(s, l)
      PROVE  Recommendations(s) # <<"excellent">>
  <2>1. PICK l \in Levels : ~AtMax(s, l) /\ \A k \in 1..(l - 1) : AtMax(s, k)
    BY <1>2, LowestGapExists
  <2>2. Occurs(Recommendations(s), l)
    BY <2>1, LowestGapAdvised
  <2>3. ~Occurs(<<"excellent">>, l)
    BY DEF Occurs, RecLevel, Levels
  <2>. QED
    BY <2>2, <2>3
<1>. QED
  BY <1>1, <1>2

LEMMA RecommendationsType ==
    ASSUME NEW s \in ValidScores
    PROVE  Recommendations(s) \in Seq(RecNames)
<1>1. <<"excellent">> \in Seq(RecNames)
  BY DEF RecNames
<1>. QED
  BY <1>1, AllRecsType DEF Recommendations

-----------------------------------------------------------------------------
(* The reports across invocations.                                         *)

(* The report written from scores s with the percentage operator Pct.      *)
ReportOf(r, s, Pct(_, _)) ==
    [run |-> r, scores |-> s, pct |-> [l \in Levels |-> Pct(s[l], MaxScore[l])],
     recs |-> Recommendations(s)]

LEMMA ReportType ==
    ASSUME NEW r \in 1..MaxRuns, NEW s \in ValidScores
    PROVE  /\ ReportOf(r, s, HtmlPct) \in Reports
           /\ ReportOf(r, s, MdPct) \in Reports
<1>1. [l \in Levels |-> HtmlPct(s[l], MaxScore[l])] \in [Levels -> 0..100]
  BY HtmlPctRange DEF ValidScores
<1>2. [l \in Levels |-> MdPct(s[l], MaxScore[l])] \in [Levels -> 0..100]
  BY <1>1 DEF HtmlPct, MdPct
<1>. QED
  BY <1>1, <1>2, RecommendationsType DEF ReportOf, Reports

LEMMA TruncatedNotReport ==
    ASSUME NEW r \in Nat
    PROVE  Truncated(r) \notin Reports /\ Truncated(r) # NoFile /\ Truncated(r).run = r
<1>1. DOMAIN Truncated(r) = {"run"}
  BY DEF Truncated
<1>2. \A x \in Reports : "scores" \in DOMAIN x
  BY DEF Reports
<1>3. Truncated(r) # NoFile
  BY NoFileAssumption DEF Truncated
<1>. QED
  BY <1>1, <1>2, <1>3 DEF Truncated

(* A file is complete exactly when it holds a whole report.                *)
LEMMA CompleteIsReport ==
    ASSUME NEW f \in {NoFile} \cup Reports \cup [run : 1..MaxRuns]
    PROVE  Complete(f) <=> f \in Reports
<1>1. ASSUME f \in Reports PROVE f # Truncated(f.run)
  <2>1. f.run \in Nat
    BY <1>1 DEF Reports
  <2>2. Truncated(f.run) \notin Reports
    BY <2>1, TruncatedNotReport
  <2>. QED
    BY <1>1, <2>2
<1>2. ASSUME f \in [run : 1..MaxRuns] PROVE f = Truncated(f.run)
  BY <1>2 DEF Truncated
<1>. QED
  BY <1>1, <1>2, NoFileAssumption DEF Complete, Reports

TypeInv ==
    /\ TypeOK
    /\ pc # "idle" => run \in 1..MaxRuns

LEMMA InitTypeInv == Init => TypeInv
BY DEF Init, TypeInv, TypeOK, Pcs, DefaultScores, ValidScores, Levels, MaxScore

LEMMA NextTypeInv == TypeInv /\ [Next]_vars => TypeInv'
<1> SUFFICES ASSUME TypeInv, [Next]_vars PROVE TypeInv'
  OBVIOUS
<1> USE DEF TypeInv, TypeOK, Pcs
<1>1. CASE StartRun
  BY <1>1 DEF StartRun, DefaultScores, ValidScores, Levels, MaxScore
<1>2. CASE StartRunMalformed
  BY <1>2 DEF StartRunMalformed
<1>3. CASE Kill
  BY <1>3 DEF Kill
<1>4. CASE OpenHtml
  BY <1>4 DEF OpenHtml, Truncated
<1>5. CASE WriteHtml
  <2>1. html' = ReportOf(run, data, HtmlPct)
    BY <1>5 DEF WriteHtml, ReportOf
  <2>2. run \in 1..MaxRuns /\ data \in ValidScores
    BY <1>5 DEF WriteHtml
  <2>3. html' \in Reports
    BY <2>1, <2>2, ReportType
  <2>. QED
    BY <1>5, <2>3 DEF WriteHtml
<1>6. CASE OpenMd
  BY <1>6 DEF OpenMd, Truncated
<1>7. CASE WriteMd
  <2>1. md' = ReportOf(run, data, MdPct)
    BY <1>7 DEF WriteMd, ReportOf
  <2>2. run \in 1..MaxRuns /\ data \in ValidScores
    BY <1>7 DEF WriteMd
  <2>3. md' \in Reports
    BY <2>1, <2>2, ReportType
  <2>. QED
    BY <1>7, <2>3 DEF WriteMd
<1>8. CASE UNCHANGED vars
  BY <1>8 DEF vars
<1>. QED
  BY <1>1, <1>2, <1>3, <1>4, <1>5, <1>6, <1>7, <1>8 DEF Next, ProgramStep

(* Every reachable state is well typed: each report file is missing, cut  *)
(* short, or holds percentages in 0..100 and a list of known advice.       *)
THEOREM TypeCorrect == Spec => []TypeOK
<1>1. Spec => []TypeInv
  BY InitTypeInv, NextTypeInv, PTL DEF Spec
<1>. QED
  BY <1>1, PTL DEF TypeInv

(* ReportsAgree is not inductive: a report records how it was computed,    *)
(* the HTML is never older than the Markdown, while the Markdown is being *)
(* written the HTML holds this invocation's figures, and until then no     *)
(* Markdown is of this invocation.                                         *)
ReportInv ==
    /\ html \in Reports => html = ReportOf(html.run, html.scores, HtmlPct)
    /\ md \in Reports => md = ReportOf(md.run, md.scores, MdPct)
    /\ html # NoFile => html.run <= run
    /\ md # NoFile => html # NoFile /\ md.run <= html.run
    /\ pc \in {"html", "html_write"} => md = NoFile \/ md.run < run
    /\ pc \in {"md", "md_write"} => html \in Reports /\ html.run = run /\ html.scores = data
    /\ md \in Reports /\ html \in Reports /\ md.run = html.run => md.scores = html.scores

LEMMA FileRun ==
    ASSUME NEW f \in {NoFile} \cup Reports \cup [run : 1..MaxRuns], f # NoFile
    PROVE  f.run \in 1..MaxRuns
BY DEF Reports

LEMMA InitReportInv == Init => ReportInv
BY DEF Init, ReportInv

LEMMA NextReportInv == TypeInv /\ ReportInv /\ [Next]_vars => ReportInv'
<1> SUFFICES ASSUME TypeInv, ReportInv, [Next]_vars PROVE ReportInv'
  OBVIOUS
<1>0. /\ html # NoFile => html.run \in 1..MaxRuns
      /\ md # NoFile => md.run \in 1..MaxRuns
      /\ run \in 0..MaxRuns
  BY FileRun DEF TypeInv, TypeOK
<1> USE <1>0 DEF ReportInv
<1>1. CASE StartRun
  BY <1>1 DEF StartRun
<1>2. CASE StartRunMalformed
  BY <1>2 DEF StartRunMalformed
<1>3. CASE Kill
  BY <1>3 DEF Kill
<1>4. CASE OpenHtml
  BY <1>4, TruncatedNotReport DEF OpenHtml
<1>5. CASE WriteHtml
  <2>1. html' = ReportOf(run, data, HtmlPct)
    BY <1>5 DEF WriteHtml, ReportOf
  <2>2. html' \in Reports /\ html' # NoFile
    <3>1. run \in 1..MaxRuns /\ data \in ValidScores
      BY <1>5 DEF WriteHtml, TypeInv, TypeOK
    <3>2. html' \in Reports
      BY <2>1, <3>1, ReportType
    <3>. QED
      BY <3>2, NoFileAssumption
  <2>3. md = NoFile \/ md.run < run
    BY <1>5 DEF WriteHtml
  <2>. QED
    BY <1>5, <2>1, <2>2, <2>3 DEF WriteHtml, ReportOf
<1>6. CASE OpenMd
  BY <1>6, TruncatedNotReport DEF OpenMd
<1>7. CASE WriteMd
  <2>1. md' = ReportOf(run, data, MdPct)
    BY <1>7 DEF WriteMd, ReportOf
  <2>2. md' \in Reports /\ md' # NoFile
    <3>1. run \in 1..MaxRuns /\ data \in ValidScores
      BY <1>7 DEF WriteMd, TypeInv, TypeOK
    <3>2. md' \in Reports
      BY <2>1, <3>1, ReportType
    <3>. QED
      BY <3>2, NoFileAssumption
  <2>3. html \in Reports /\ html.run = run /\ html.scores = data
    BY <1>7 DEF WriteMd
  <2>. QED
    BY <1>7, <2>1, <2>2, <2>3 DEF WriteMd, ReportOf
<1>8. CASE UNCHANGED vars
  BY <1>8 DEF vars
<1>. QED
  BY <1>1, <1>2, <1>3, <1>4, <1>5, <1>6, <1>7, <1>8 DEF Next, ProgramStep

LEMMA InvariantsHold == Spec => [](TypeInv /\ ReportInv)
<1>1. Init => TypeInv /\ ReportInv
  BY InitTypeInv, InitReportInv
<1>2. TypeInv /\ ReportInv /\ [Next]_vars => (TypeInv /\ ReportInv)'
  BY NextTypeInv, NextReportInv
<1>. QED
  BY <1>1, <1>2, PTL DEF Spec

LEMMA CompleteHtml ==
    ASSUME TypeInv, ReportInv, Complete(html)
    PROVE  /\ html \in Reports
           /\ html = ReportOf(html.run, html.scores, HtmlPct)
BY CompleteIsReport DEF TypeInv, TypeOK, ReportInv

(* The two reports of one invocation agree, the Markdown is never newer    *)
(* than the HTML however an invocation is killed, and every percentage is *)
(* in 0..100 and 100 only at the maximum (lines 293-318, 389-393, 419-426).*)
THEOREM ReportsAgreeCorrect == Spec => []ReportsAgree
<1>1. TypeInv /\ ReportInv => ReportsAgree
  <2> SUFFICES ASSUME TypeInv, ReportInv PROVE ReportsAgree
    OBVIOUS
  <2>1. md # NoFile => html # NoFile /\ md.run <= html.run
    BY DEF ReportInv
  <2>2. ASSUME Complete(html), Complete(md), md.run = html.run
        PROVE  md.recs = html.recs /\ md.pct = html.pct
    <3>1. html \in Reports /\ html = ReportOf(html.run, html.scores, HtmlPct)
      BY <2>2, CompleteHtml
    <3>2. md \in Reports /\ md = ReportOf(md.run, md.scores, MdPct)
      BY <2>2, CompleteIsReport DEF TypeInv, TypeOK, ReportInv
    <3>3. md.scores = html.scores
      BY <2>2, <3>1, <3>2 DEF ReportInv
    <3>. QED
      BY <3>1, <3>2, <3>3 DEF ReportOf, HtmlPct, MdPct
  <2>3. ASSUME Complete(html), NEW l \in Levels
        PROVE  /\ html.pct[l] \in 0..100
               /\ (html.pct[l] = 100) <=> AtMax(html.scores, l)
    <3>1. html \in Reports /\ html = ReportOf(html.run, html.scores, HtmlPct)
      BY <2>3, CompleteHtml
    <3>2. html.scores[l] \in 0..MaxScore[l]
      BY <3>1 DEF Reports, ValidScores, Levels, MaxScore
    <3>3. html.pct[l] = HtmlPct(html.scores[l], MaxScore[l])
      BY <3>1 DEF ReportOf
    <3>. QED
      BY <3>2, <3>3, HtmlPctRange DEF AtMax
  <2>. QED
    BY <2>1, <2>2, <2>3 DEF ReportsAgree
<1>. QED
  BY <1>1, InvariantsHold, PTL

(* Every complete maturity-report.html advises on the lowest level below  *)
(* its maximum and shows "excellent" alone exactly at full marks.          *)
THEOREM AdviceCorrect == Spec => []AdviceCoversLowestGap
<1>1. TypeInv /\ ReportInv => AdviceCoversLowestGap
  <2> SUFFICES ASSUME TypeInv, ReportInv, Complete(html)
               PROVE  LET s == html.scores IN
                      /\ (html.recs = <<"excellent">>) <=> (\A l \in Levels : AtMax(s, l))
                      /\ \A l \in Levels :
                            (~AtMax(s, l) /\ \A k \in 1..(l - 1) : AtMax(s, k))
                               => \E i \in 1..Len(html.recs) : RecLevel(html.recs[i]) = l
    BY DEF AdviceCoversLowestGap
  <2>1. html.scores \in ValidScores /\ html.recs = Recommendations(html.scores)
    BY CompleteHtml DEF Reports, ReportOf
  <2>2. (html.recs = <<"excellent">>) <=> (\A l \in Levels : AtMax(html.scores, l))
    BY <2>1, ExcellentExactlyAtFullMarks
  <2>3. ASSUME NEW l \in Levels, ~AtMax(html.scores, l),
               \A k \in 1..(l - 1) : AtMax(html.scores, k)
        PROVE  \E i \in 1..Len(html.recs) : RecLevel(html.recs[i]) = l
    BY <2>1, <2>3, LowestGapAdvised DEF Occurs
  <2>. QED
    BY <2>2, <2>3
<1>. QED
  BY <1>1, InvariantsHold, PTL

=============================================================================
