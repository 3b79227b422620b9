--------------------------- MODULE MaturityReport ---------------------------
(***************************************************************************)
(* MaturityReportGenerator of scripts/generate-maturity-report.py, invoked *)
(* repeatedly against maturity-assessment-report.json (written by an       *)
(* external assessment) and the two reports it writes, maturity-report.html *)
(* and maturity-report.md.  A report keeps what a reader compares: the     *)
(* level scores, the per-level percentages and the ordered list of         *)
(* recommendations; the HTML, the Markdown and the wording are left out.   *)
(***************************************************************************)
EXTENDS Naturals, Sequences

CONSTANTS
    MaxRuns,    \* number of invocations explored
    Inputs,     \* level scores the external assessment may write
    NoFile      \* a file that does not exist

Levels == 1..5

(* The maximum of each level: the "/20", "/35", ... of lines 183-199 and   *)
(* the divisors of lines 293-297 and 389-393.                              *)
MaxScore == <<20, 35, 25, 15, 20>>

(* Scores within [0, maximum], the inputs spec section 8 speaks of.        *)
ValidScores == {s \in [Levels -> Nat] : \A l \in Levels : s[l] <= MaxScore[l]}

ASSUME MaxRunsAssumption == MaxRuns \in Nat
ASSUME InputsAssumption == Inputs \subseteq ValidScores

VARIABLES
    pc,          \* where the current invocation is, "idle" between invocations
    run,         \* number of the current (or last) invocation
    data,        \* self.report_data['scores'] of the current invocation
    html,        \* maturity-report.html
    md           \* maturity-report.md

vars == <<pc, run, data, html, md>>

-----------------------------------------------------------------------------
(* The recommendations, one name per string of lines 330-365.              *)

(* `if c: recommendations.append(...)'.                                    *)
When(c, r) == IF c THEN r ELSE <<>>

(* Mutation of Level1Recs: the "minimal base image" advice indented into  *)
(* the `level1 < 15' branch.                                               *)
Level1RecsMisindented(s) ==
    When(s[1] < 20,
         When(s[1] < 5, <<"dockerfile">>) \o
         When(s[1] < 10, <<"multistage">>) \o
         When(s[1] < 15, <<"nonroot", "minimal_base">>))

(* The five rule groups of _generate_recommendations (lines 327-362); the  *)
(* gate of levels 2-5 reads the previous level's score.                    *)
Level1Recs(s) ==
    When(s[1] < 20,
         When(s[1] < 5, <<"dockerfile">>) \o
         When(s[1] < 10, <<"multistage">>) \o
         When(s[1] < 15, <<"nonroot">>) \o <<"minimal_base">>)
Level2Recs(s) ==
    When(s[2] < 35 /\ s[1] >= 15,
         When(s[2] < 10, <<"crds">>) \o
         When(s[2] < 20, <<"controller">>) \o <<"helm", "rbac">>)
Level3Recs(s) ==
    When(s[3] < 25 /\ s[2] >= 25, <<"microservices", "service_mesh", "tracing">>)
Level4Recs(s) ==
    When(s[4] < 15 /\ s[3] >= 15, <<"cloud_services", "multi_cloud", "cost">>)
Level5Recs(s) ==
    When(s[5] < 20 /\ s[4] >= 10, <<"gitops", "e2e", "self_healing">>)

(* The list the five groups append to, in order.                           *)
AllRecs(s) ==
    Level1Recs(s) \o Level2Recs(s) \o Level3Recs(s) \o Level4Recs(s) \o Level5Recs(s)

(* _generate_recommendations (lines 322-326, 364-367): the "excellent"     *)
(* message when no rule fired.                                             *)
Recommendations(s) == IF AllRecs(s) = <<>> THEN <<"excellent">> ELSE AllRecs(s)

(* The strings lines 330-365 append, one name each.                       *)
RecNames ==
    {"dockerfile", "multistage", "nonroot", "minimal_base",
     "crds", "controller", "helm", "rbac",
     "microservices", "service_mesh", "tracing",
     "cloud_services", "multi_cloud", "cost",
     "gitops", "e2e", "self_healing", "excellent"}

(* The level each recommendation belongs to.                               *)
RecLevel(r) ==
    CASE r \in {"dockerfile", "multistage", "nonroot", "minimal_base"} -> 1
      [] r \in {"crds", "controller", "helm", "rbac"} -> 2
      [] r \in {"microservices", "service_mesh", "tracing"} -> 3
      [] r \in {"cloud_services", "multi_cloud", "cost"} -> 4
      [] r \in {"gitops", "e2e", "self_healing"} -> 5
      [] OTHER -> 0

-----------------------------------------------------------------------------
(* Percentages.  For integer scores 100 * x / m is never halfway between   *)
(* two integers for these maxima, so Python's round-half-even is the       *)
(* nearest integer; it is written out in full all the same.                *)

(* Mutation of HtmlPct: rounds up by adding the divisor before dividing.  *)
HtmlPctCeil(x, m) == (100 * x + m) \div m

(* round((x / m) * 100) (lines 293-297, 314-318).                          *)
HtmlPct(x, m) ==
    LET q == (100 * x) \div m
        r == (100 * x) % m
    IN  IF 2 * r > m \/ (2 * r = m /\ q % 2 = 1) THEN q + 1 ELSE q

(* Mutation of MdPct: truncates, as `int(...)' would.                      *)
MdPctTruncated(x, m) == (100 * x) \div m

(* f"{(x / m) * 100:.0f}" (lines 389-393): also rounds half to even.       *)
MdPct(x, m) ==
    LET q == (100 * x) \div m
        r == (100 * x) % m
    IN  IF 2 * r > m \/ (2 * r = m /\ q % 2 = 1) THEN q + 1 ELSE q

-----------------------------------------------------------------------------
(* The zero record _load_assessment_data returns for a missing file        *)
(* (lines 23-38).                                                          *)
DefaultScores == [l \in Levels |-> 0]

(* A file cut short by open(..., 'w') before the write completed.          *)
Truncated(r) == [run |-> r]

Pcs == {"idle", "html", "html_write", "md", "md_write"}
Reports == [run : 1..MaxRuns, scores : ValidScores, pct : [Levels -> 0..100],
            recs : Seq(RecNames)]
(* NoFile stands for a missing file, never for a file's contents.          *)
ASSUME NoFileAssumption == NoFile \notin [run : Nat] \cup Reports

TypeOK ==
    /\ pc \in Pcs
    /\ run \in 0..MaxRuns
    /\ data \in ValidScores
    /\ html \in {NoFile} \cup Reports \cup [run : 1..MaxRuns]
    /\ md \in {NoFile} \cup Reports \cup [run : 1..MaxRuns]

Init ==
    /\ pc = "idle"
    /\ run = 0
    /\ data = DefaultScores
    /\ html = NoFile
    /\ md = NoFile

(* MaturityReportGenerator() loads maturity-assessment-report.json in its  *)
(* constructor (lines 14-38, 433): the file's scores, or the zero record   *)
(* if it is missing.  The file, written by the external assessment and     *)
(* never by this program, is observed only here, so it is not a variable:  *)
(* each invocation finds whatever the assessment last left.                *)
StartRun ==
    /\ pc = "idle"
    /\ run < MaxRuns
    /\ \E f \in {NoFile} \cup Inputs :
          data' = IF f = NoFile THEN DefaultScores ELSE f
    /\ run' = run + 1
    /\ pc' = "html"
    /\ UNCHANGED <<html, md>>

(* The file is malformed: json.load raises in the constructor (line 22),   *)
(* nothing catches it and no report is written.                            *)
StartRunMalformed ==
    /\ pc = "idle"
    /\ run < MaxRuns
    /\ run' = run + 1
    /\ UNCHANGED <<pc, data, html, md>>

(* The process is killed wherever it is; its files stay as they are.       *)
Kill ==
    /\ pc # "idle"
    /\ pc' = "idle"
    /\ UNCHANGED <<run, data, html, md>>

(* save_reports: generate_html_report, then open('maturity-report.html',   *)
(* 'w') truncates the file (lines 419-420).                                *)
OpenHtml ==
    /\ pc = "html"
    /\ html' = Truncated(run)
    /\ pc' = "html_write"
    /\ UNCHANGED <<run, data, md>>

(* f.write(html_content) (line 421): the figures of lines 292-320.         *)
WriteHtml ==
    /\ pc = "html_write"
    /\ html' = [run |-> run, scores |-> data,
                pct |-> [l \in Levels |-> HtmlPct(data[l], MaxScore[l])],
                recs |-> Recommendations(data)]
    /\ pc' = "md"
    /\ UNCHANGED <<run, data, md>>

(* generate_markdown_report, then open('maturity-report.md', 'w')          *)
(* (lines 424-425).                                                        *)
OpenMd ==
    /\ pc = "md"
    /\ md' = Truncated(run)
    /\ pc' = "md_write"
    /\ UNCHANGED <<run, data, html>>

(* f.write(markdown_content) (line 426): the figures of lines 369-414.     *)
WriteMd ==
    /\ pc = "md_write"
    /\ md' = [run |-> run, scores |-> data,
              pct |-> [l \in Levels |-> MdPct(data[l], MaxScore[l])],
              recs |-> Recommendations(data)]
    /\ pc' = "idle"
    /\ UNCHANGED <<run, data, html>>

ProgramStep == OpenHtml \/ WriteHtml \/ OpenMd \/ WriteMd

Next ==
    StartRun \/ StartRunMalformed \/ Kill
    \/ ProgramStep

(* The single interpreter thread keeps running until the process ends or   *)
(* is killed; the kill and the assessment get no fairness.                 *)
Spec == Init /\ [][Next]_vars /\ WF_vars(ProgramStep)

-----------------------------------------------------------------------------
(* Properties.                                                             *)

(* A file the program finished writing.                                    *)
Complete(f) == f # NoFile /\ f # Truncated(f.run)

AtMax(s, l) == s[l] = MaxScore[l]

(* The staged rules of _generate_recommendations (lines 327-365) never     *)
(* leave a report without advice on the lowest level that is not at its    *)
(* maximum, and the "excellent" message appears alone exactly when every   *)
(* level is at its maximum (spec section 8).  The gates of levels 2-5 read *)
(* the previous level's score, so this rests on each gate threshold being  *)
(* reachable once the previous level is complete.                          *)
AdviceCoversLowestGap ==
    Complete(html) =>
        LET s == html.scores IN
        /\ (html.recs = <<"excellent">>) <=> (\A l \in Levels : AtMax(s, l))
        /\ \A l \in Levels :
              (~AtMax(s, l) /\ \A k \in 1..(l - 1) : AtMax(s, k))
                 => \E i \in 1..Len(html.recs) : RecLevel(html.recs[i]) = l

(* maturity-report.md never describes a later invocation than the one that *)
(* last wrote (or began to write) maturity-report.html, and when both come *)
(* from the same invocation they show the same recommendations in the same *)
(* order and the same per-level percentages, each in 0..100 and 100 only   *)
(* at the level's maximum: round() in the HTML and the :.0f format in the  *)
(* Markdown must agree (lines 293-318 and 389-393).                        *)
ReportsAgree ==
    /\ md # NoFile => html # NoFile /\ md.run <= html.run
    /\ Complete(html) /\ Complete(md) /\ md.run = html.run =>
          /\ md.recs = html.recs
          /\ md.pct = html.pct
    /\ Complete(html) =>
          \A l \in Levels : /\ html.pct[l] \in 0..100
                            /\ (html.pct[l] = 100) <=> AtMax(html.scores, l)

=============================================================================
