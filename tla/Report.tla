-------------------------------- MODULE Report ------------------------------
(***************************************************************************)
(* A scan from its rules to its printed report, and what becomes of it:    *)
(* run_scan gates what Collect gathered and prints it (pons-cli/src/main.  *)
(* rs); then the sources are moved and scanned again, or someone edits the *)
(* report before it is validated.                                          *)
(*                                                                         *)
(* A job adds to Collect's the options noSpeculative, failOn (a set of at  *)
(* most one severity), failOnSkips and required; elsewhere, the root of    *)
(* the sources when they have been moved; and the bound maxEdits.          *)
(***************************************************************************)
EXTENDS Collect, Formats

OptionsFit(j) ==
  /\ {"noSpeculative", "failOn"} \subseteq DOMAIN j
  /\ j.noSpeculative \in BOOLEAN /\ j.failOn \subseteq Severity

\* All that one rule raises is of one tier ("Tier is a property of the rule", sarif.rs).
TiersFit(j) ==
  \A f, g \in j.files, k \in DOMAIN Registry :
    \A v \in Range(f.raws[Registry[k].id]), w \in Range(g.raws[Registry[k].id]) : v.tier = w.tier

ASSUME OptionsAssumption == \A j \in Jobs : OptionsFit(j)
ASSUME TiersAssumption == \A j \in Jobs : TiersFit(j)

VARIABLES
  report,    \* the ScanReport, once phase is "printed"
  document,  \* the JSON printed, perhaps edited since
  edits,
  earlier    \* history: the fingerprints and what was hidden, of the scan before

reportVars == <<report, document, edits, earlier>>
vars == <<collectVars, reportVars>>

None == [kind |-> "none"]

Init == CollectInit /\ report = None /\ document = None /\ edits = 0 /\ earlier = None

Gather == CollectNext /\ UNCHANGED reportVars

-----------------------------------------------------------------------------
\* run_scan, from --no-speculative to the exit code.
Shown(seq) ==
  Retain(seq, LAMBDA f : ~job.noSpeculative \/ f.evidence # "SPECULATIVE")

Missing(language) ==
  LET entries == {e \in Range(inventory) : e.language = language}
  IN entries = {} \/ \E e \in entries : e.outcome # "analysed" \/ ~e.analysis_complete

\* Mutant: every finding of the severity counts, guesses included.
AtThresholdAny(f, threshold) == FailOnRank[f.severity] >= FailOnRank[threshold]

AtThreshold(f, threshold) ==
  CountsTowardVerdict(f.evidence) /\ FailOnRank[f.severity] >= FailOnRank[threshold]

ExitCode(files, failed, shown) ==
  IF files = 0 \/ failed # {} \/ (job.failOnSkips /\ skipped # <<>>) THEN 2
  ELSE IF \E t \in job.failOn : \E f \in Range(shown) : AtThreshold(f, t) THEN 1 ELSE 0

AnalysedFiles == {f \in job.files : f.outcome = "analysed"}

ScanReport ==
  LET shown  == Shown(findings)
      failed == {l \in job.required : Missing(l)}
      files  == Cardinality(AnalysedFiles)
  IN [root |-> job.root, findings |-> shown, anchors |-> anchors,
      inventory |-> inventory, skipped |-> skipped, failures |-> failed, files |-> files,
      suppressed |-> suppressed + Len(findings) - Len(shown),
      transcoded |-> {f.path : f \in {g \in AnalysedFiles : Transcoded(g.artifact)}},
      exit_code |-> {ExitCode(files, failed, shown)}]

Conclude ==
  /\ phase = "collected"
  /\ phase' = "printed"
  /\ report' = ScanReport
  /\ document' = Render(ScanReport)
  /\ UNCHANGED <<job, clock, engineVars, resultVars, edits, earlier>>

-----------------------------------------------------------------------------
\* The sources with a blank line put in after a line of one file, and moved.
LineEnds(f) == {0} \cup {p \in DOMAIN f.artifact : f.artifact[p] = Newline}

Shift(q, k)        == IF k >= q THEN k + 1 ELSE k
ShiftRaw(q, raw)   == [raw EXCEPT !.from = Shift(q, @), !.to = Shift(q, @ - 1) + 1]
ShiftRaws(q, raws) == [k \in DOMAIN raws |-> ShiftRaw(q, raws[k])]

\* How much of the text the first p pieces of an artifact are.
Decoded(artifact, p) == IF Transcoded(artifact) THEN Len(AsLatin1(Prefix(artifact, p))) ELSE p

Spaced(f, p) ==
  LET q == Decoded(f.artifact, p) IN
  [f EXCEPT !.artifact = InsertAt(@, p + 1, Newline),
            !.comments = {[c EXCEPT !.at = Shift(q, @)] : c \in @},
            !.raws = [r \in DOMAIN @ |-> ShiftRaws(q, @[r])]]

Rooted(path) == job.elsewhere \o Below(path, job.base)

Moved(file, p) ==
  [job EXCEPT
    !.root = Rooted(@), !.base = job.elsewhere,
    !.files = {[(IF f = file THEN Spaced(f, p) ELSE f) EXCEPT !.path = Rooted(@)] : f \in @}]

\* What was hidden, by its file, its rule and its number among those of both.
Site(n)   == <<Rank(judged[n].finding.location.file), judged[n].finding.rule_id>>
Number(n) == Cardinality({m \in 1..n : Site(m) = Site(n)})

Hid == {<<Site(n), Number(n)>> : n \in {n \in DOMAIN judged : ~judged[n].kept}}

Fingerprints(doc) ==
  [k \in DOMAIN doc.evidence_contract.records |-> doc.evidence_contract.records[k].fingerprint]

Rescan ==
  /\ phase = "printed" /\ edits = 0 /\ earlier = None
  /\ earlier' = [kind |-> "scan", hid |-> Hid, fingerprints |-> Fingerprints(document)]
  /\ \E f \in AnalysedFiles : \E p \in LineEnds(f) : job' = Moved(f, p)
  /\ phase' = "start" /\ pending' = {} /\ current' = <<>> /\ todo' = <<>>
  /\ findings' = <<>> /\ anchors' = <<>> /\ occurrences' = <<>>
  /\ suppressed' = 0 /\ inventory' = <<>> /\ skipped' = <<>> /\ judged' = <<>>
  /\ report' = None /\ document' = None
  /\ UNCHANGED <<clock, edits>>

-----------------------------------------------------------------------------
\* Someone edits the report: any one value of what the tool derived, a
\* finding or the inventory, or the version with or without its new keys.
Without(rec, keys) == [k \in DOMAIN rec \ keys |-> rec[k]]

Downgraded(d) ==
  [d EXCEPT !.schema_version = "0.4.0",
            !.counts = Without(@, {"actionable", "demoted_speculative"}),
            !.findings = [k \in DOMAIN @ |-> Without(@[k], {"semantic_fingerprint"})]]

EditedHead(d) ==
  {[d EXCEPT !.schema_version = s] : s \in {"0.4.0", "0.6.0"}}
  \cup {Downgraded(d), [d EXCEPT !.scanned = Without(@, {"inventory"})]}
  \cup {[d EXCEPT !.scanned.coverage_status = s] : s \in Statuses}
  \cup {[d EXCEPT !.evidence_contract.execution_outcome = s] : s \in Statuses}
  \cup {[d EXCEPT !.exit_code = c] : c \in {{0}, {1}, {}}}
  \cup {[d EXCEPT !.scanned.files = @ + 1], [d EXCEPT !.scanned.skipped = <<>>]}
  \cup {[d EXCEPT !.scanned.inventory = SubSeq(@, 2, Len(@))]}

EditedCounts(d) ==
  {[d EXCEPT !.counts = Insert(@, field, n)] :
     field \in {"total", "actionable", "demoted_speculative"}, n \in 0..1}
  \cup {[d EXCEPT !.counts.by_evidence[class] = @ + 1] : class \in {"HEURISTIC", "SPECULATIVE"}}

EditedRecords(d) ==
  LET records == d.evidence_contract.records
      with(k, r) == [d EXCEPT !.evidence_contract.records[k] = r] IN
  {[d EXCEPT !.evidence_contract.records = Tail(@)]}
  \cup {with(1, records[Len(records)]), with(1, [records[1] EXCEPT !.fingerprint = Malformed])}
  \cup {with(1, [records[1] EXCEPT !.tier = t, !.evidence = EvidenceOf[t]]) : t \in Tier}
  \cup {with(1, [records[1] EXCEPT !.line = @ + 1]), with(1, [records[1] EXCEPT !.path = <<"etc">>]),
        with(1, [records[1] EXCEPT !.unknown_edges = <<>>])}

EditedFindings(d) ==
  LET with(f) == [d EXCEPT !.findings[1] = f]  f == d.findings[1] IN
  {with([f EXCEPT !.tier = "T1"]), with([f EXCEPT !.evidence = "DATAFLOW"]),
   with([f EXCEPT !.tier = "T1", !.evidence = "DATAFLOW"]),
   with([f EXCEPT !.location.line_start = @ + 1]), with([f EXCEPT !.location.file = <<<<"etc">>>>])}

Edited(d) ==
  IF "inventory" \notin DOMAIN d.scanned \/ d.findings = <<>> \/ d.evidence_contract.records = <<>>
  THEN {} ELSE EditedHead(d) \cup EditedCounts(d) \cup EditedRecords(d) \cup EditedFindings(d)

Edit ==
  /\ phase = "printed" /\ edits < job.maxEdits
  /\ document' \in Edited(document)
  /\ edits' = edits + 1
  /\ UNCHANGED <<collectVars, report, earlier>>

Next == Gather \/ Conclude \/ Rescan \/ Edit

Spec == Init /\ [][Next]_vars

-----------------------------------------------------------------------------
Printed == phase = "printed" /\ edits = 0

\* Read with slashes for backslashes, the findings' paths are below the root,
\* and if findings of two files agree in all that a fingerprint is taken of
\* but the path, their paths differ.
PathsTell ==
  LET path(f) == RelativePath(f.location.file, report.root) IN
  \A f, g \in Range(report.findings) :
    /\ Inside(path(f))
    /\ f.rule_id = g.rule_id /\ path(f) = path(g) /\ Anchor(report, f) = Anchor(report, g)
         => f.location.file = g.location.file

\* No file has a backslash in its path below the root.
PlainNames ==
  \A f \in job.files : LET below == Below(f.path, BaseOf(f.path, job.root)) IN
    \A k \in DOMAIN below : Len(below[k]) = 1

(* A report that the tool prints is one its own validator accepts, under   *)
(* any options and whatever was suppressed, unless backslashes in names    *)
(* make two findings of different files one or take a file out of the      *)
(* root: the accounting, the keys and the identity of each record agree    *)
(* (report/validate.rs, evidence.rs validate_records).  Without a          *)
(* backslash it is accepted whatever the names are.                        *)
ReportIsValid == Printed => (Valid(document) <=> PathsTell) /\ (PlainNames => Valid(document))

\* The document the tool would print for the findings and the inventory that
\* a document lists, without what nobody can recompute.
Bare(d) ==
  [d EXCEPT !.evidence_contract.records =
     [k \in DOMAIN @ |-> Without(@[k], {"fingerprint", "producer", "confidence"})]]

Retold(d) ==
  LET own(f) == [Without(f, {"semantic_fingerprint"}) EXCEPT !.evidence = EvidenceOf[f.tier]]
      told == Render([root |-> d.scanned.root, anchors |-> <<>>,
                      findings |-> [k \in DOMAIN d.findings |-> own(d.findings[k])],
                      inventory |-> d.scanned.inventory, skipped |-> d.scanned.skipped,
                      failures |-> d.scanned.coverage_failures, exit_code |-> d.exit_code,
                      files |-> Cardinality(Analysed(d)), suppressed |-> d.scanned.suppressed_findings])
  IN IF d.schema_version = SchemaVersion THEN told ELSE Downgraded(told)

(* validate-report "rejects unknown schema versions, missing inventory,    *)
(* contradictory coverage/counts, malformed fingerprints, inconsistent     *)
(* tier/evidence and mismatched record/finding rules" (EVIDENCE-CONTRACT.  *)
(* adoc): whatever was edited, what it accepts is the report the tool      *)
(* prints for the findings and the inventory in it.                        *)
EditsAreRefused == edits > 0 /\ Valid(document) => Bare(document) = Bare(Retold(document))

\* The findings that the rules for a file's language raise, and each as reported.
RaisedBy(f) ==
  UNION {{<<f.path, r.id, k>> : k \in DOMAIN f.raws[r.id]} :
           r \in {r \in Range(Rules) : f.language \in r.languages}}

Told(t) ==
  LET raw == FileAt(t[1]).raws[t[2]][t[3]]
  IN  Finding(t[2], raw, FromNode(t[1], raw, TextOf(t[1])))

(* Every finding the rules raise is in the report, is an exact duplicate   *)
(* of one that is, or is counted as suppressed; none is there twice, and   *)
(* they are in the order of files and offsets, however the files were      *)
(* walked ("Exact duplicate rule/location findings are deduplicated",      *)
(* EVIDENCE-CONTRACT.adoc).                                                *)
NothingIsLost ==
  Printed =>
    LET raised    == UNION {RaisedBy(f) : f \in AnalysedFiles}
        kept      == {j.finding : j \in {j \in Range(judged) : j.kept}}
        guesses   == {f \in kept : f.evidence = "SPECULATIVE" /\ job.noSpeculative}
        shown     == report.findings
    IN /\ Len(judged) = Cardinality(raised)
       /\ {j.finding : j \in Range(judged)} = {Told(t) : t \in raised}
       /\ Range(shown) = kept \ guesses
       /\ \A j, k \in DOMAIN shown : j < k =>
            /\ ~FindingBefore(shown[k], shown[j])
            /\ <<shown[j].rule_id, shown[j].location>> # <<shown[k].rule_id, shown[k].location>>
       /\ report.suppressed = Count(judged, LAMBDA j : ~j.kept) + Cardinality(guesses)

(* "Checkout relocation and added blank lines preserve them" (EVIDENCE-    *)
(* CONTRACT.adoc): a second scan, of the moved sources with a blank line   *)
(* more, gives each finding its fingerprint again, in the same order and   *)
(* whatever the order of the walk, as long as the same ones are hidden.    *)
FingerprintsSurvive ==
  Printed /\ earlier # None /\ earlier.hid = Hid => Fingerprints(document) = earlier.fingerprints

(* The exit code is the one a reader of the report would come to, from the *)
(* lines on a terminal, the levels and ranks of SARIF, or the counts and   *)
(* the published matrix: it is 1 exactly when a finding to fail on is seen *)
(* there.  A guess never makes it 1, so --no-speculative does not change   *)
(* it, and a report with nothing left out says that it is complete.        *)
GateFollowsTheReport ==
  Printed =>
    LET human  == RenderReport(report, FALSE)
        levels == [INFO |-> {"note", "warning", "error"}, WARN |-> {"warning", "error"}, ERROR |-> {"error"}]
        byHuman(t) == \E l \in Range(human.lines) :
                        l.suffix = "" /\ FailOnRank[l.severity] >= FailOnRank[t]
        bySarif(t) == \E r \in Range(Sarif(report).results) : r.level \in levels[t] /\ r.rank > 20
        byGrid(t)  == \E f \in Range(document.findings) :
                        /\ Grid[f.evidence][f.severity].gate_eligible
                        /\ SeverityScale[f.severity].fail_on_rank >= SeverityScale[t].fail_on_rank
        byAll(t)   == \E f \in Range(findings) : AtThreshold(f, t)
        fails      == report.exit_code = {1}
    IN /\ report.exit_code # {2} =>
            /\ fails <=> \E t \in job.failOn : byHuman(t)
            /\ fails <=> \E t \in job.failOn : bySarif(t)
            /\ fails <=> \E t \in job.failOn : byGrid(t)
            /\ fails <=> \E t \in job.failOn : byAll(t)
            /\ fails => document.counts.actionable > 0
       /\ human.verdict = [actionable |-> document.counts.actionable,
                           demoted |-> document.counts.demoted_speculative]
       /\ document.scanned.coverage_status = "complete-within-policy" <=>
            /\ human.scanned.files > 0 /\ human.scanned.skipped = 0 /\ human.failures = {}
            /\ \A e \in Range(human.incomplete) : e.outcome = "excluded-by-policy"

-----------------------------------------------------------------------------
\* Readers of SARIF: an editor has the text, a tool the bytes on disk.
\* The n-th line of a text is its characters after `start` up to `end`.
IsLine(text, n, start, end) ==
  /\ start = 0 \/ text[start] = Newline
  /\ end = Len(text) \/ text[end + 1] = Newline
  /\ \A i \in (start + 1)..end : text[i] # Newline
  /\ Cardinality({i \in 1..start : text[i] = Newline}) = n - 1

\* The boundaries of a text that a reader takes a position for.
AtColumn(text, line, column) ==
  {k \in 0..Len(text) : \E start \in 0..k, end \in k..Len(text) :
     IsLine(text, line, start, end) /\ Utf16(SubSeq(text, start + 1, k)) = column - 1}

(* SARIF shows the same findings as the JSON report, in its order: each    *)
(* under its own rule's descriptor, with a URI that leads from the root to *)
(* the file itself and differs from its record's path in backslashes only, *)
(* at lines and UTF-16 columns that an editor finds the reported source at *)
(* in the file as it decodes it, and, if at all, at a byte offset that has *)
(* that source in the file on disk (#33).                                  *)
SarifShowsTheFindings ==
  Printed =>
    LET sarif == Sarif(report)  records == document.evidence_contract.records IN
    /\ Len(sarif.results) = Len(records)
    /\ \A k \in DOMAIN records :
         LET result == sarif.results[k]  region == result.region
             loc    == report.findings[k].location
             file   == FileAt(loc.file)
             text   == Decode(file.artifact)
         IN /\ sarif.rules[result.rule_index + 1].id = records[k].rule
            /\ sarif.rules[result.rule_index + 1].evidence_class = records[k].evidence
            /\ BaseOf(loc.file, report.root) \o result.uri = loc.file
            /\ Slashed(result.uri) = records[k].path
            /\ \E raw \in Range(file.raws[records[k].rule]) :
                 /\ raw.evidence_note = records[k].trace
                 /\ AtColumn(text, region.start_line, region.start_column) = {raw.from}
                 /\ AtColumn(text, region.end_line, region.end_column) = {raw.to}
                 /\ \A b \in region.byte_offset, n \in region.byte_length :
                      Slice(file.artifact, b, b + n) = SubSeq(text, raw.from + 1, raw.to)
    /\ Len(sarif.notifications) = Len(document.scanned.skipped)

(* "Globs match both the reported path and its form relative to root when  *)
(* the root is a path prefix" (config.rs:137-138): no finding is reported  *)
(* whose record has a path below the root that an allowance for its rule   *)
(* matches.                                                                *)
AllowancesReachTheRecordedPath ==
  Printed => \A r \in Range(document.evidence_contract.records) :
    ~ \E a \in job.config.allow : a.rule = r.rule /\ r.path \in a.glob
=============================================================================
