------------------------------- MODULE Formats ------------------------------
(***************************************************************************)
(* A finished scan as SARIF (report/sarif.rs): the rules that fired, a     *)
(* result for each finding, a notification for each skip; and for a        *)
(* terminal (report/human.rs): the findings, the totals, the verdict, and  *)
(* what was not analysed or not wholly.  A file's URI is its path below    *)
(* the root as a sequence of components, which escaping keeps apart:       *)
(* a backslash is %5C.  How characters are escaped, layout, messages, the  *)
(* tool's identity, rules' names and descriptions are left out.            *)
(***************************************************************************)
EXTENDS Envelope

\* artifact_uri.  A scan of one file has nothing below its root but itself.
ArtifactUri(file, root) ==
  IF file = root THEN <<Last(file)>> ELSE Retain(Below(file, root), LAMBDA c : c # <<".">>)

\* The rules that fired, in the order of their ids.
Fired(findings) ==
  LET ids == {f.rule_id : f \in Range(findings)} IN At([id \in ids |-> id], ids)

\* Tier and level of a rule are read back from its first finding.
Descriptor(findings, id) ==
  LET first == Head(Retain(findings, LAMBDA f : f.rule_id = id))
  IN [id |-> id, tier |-> first.tier, evidence_class |-> first.evidence,
      level |-> SarifLevel(first.evidence, first.severity)]

\* Mutant: offsets are given whatever the artifact was.
RegionAlways(location, transcoded) ==
  [start_line |-> location.line_start, start_column |-> location.col_start,
   end_line |-> location.line_end, end_column |-> location.col_end,
   byte_offset |-> {location.byte_start},
   byte_length |-> {location.byte_end - location.byte_start}]

\* Of a transcoded file the offsets are those of no artifact: none is given.
Region(location, transcoded) ==
  [start_line |-> location.line_start, start_column |-> location.col_start,
   end_line |-> location.line_end, end_column |-> location.col_end,
   byte_offset |-> IF transcoded THEN {} ELSE {location.byte_start},
   byte_length |-> IF transcoded THEN {} ELSE {location.byte_end - location.byte_start}]

Result(report, f) ==
  LET fired == Fired(report.findings) IN
  [rule_id |-> f.rule_id,
   rule_index |-> (CHOOSE k \in DOMAIN fired : fired[k] = f.rule_id) - 1,
   level |-> SarifLevel(f.evidence, f.severity), rank |-> SarifRank[f.evidence],
   suffix |-> DemotionSuffix(f.evidence),
   uri |-> ArtifactUri(f.location.file, report.root),
   region |-> Region(f.location, f.location.file \in report.transcoded),
   evidence_class |-> f.evidence, tier |-> f.tier,
   evidence_note |-> f.evidence_note, counter_condition |-> f.counter_condition]

Sarif(report) ==
  LET fired == Fired(report.findings) IN
  [rules |-> [k \in DOMAIN fired |-> Descriptor(report.findings, fired[k])],
   results |-> [k \in DOMAIN report.findings |-> Result(report, report.findings[k])],
   execution_successful |-> report.files > 0,
   exit_code |-> report.exit_code,
   notifications |-> [k \in DOMAIN report.skipped |->
                        [level |-> "warning", uri |-> ArtifactUri(report.skipped[k], report.root)]]]
-----------------------------------------------------------------------------
RenderOne(f, explain) ==
  [file |-> f.location.file, line |-> f.location.line_start, column |-> f.location.col_start,
   severity |-> f.severity, rule |-> f.rule_id, suffix |-> DemotionSuffix(f.evidence),
   evidence_note |-> f.evidence_note, when_fine |-> f.counter_condition,
   explained |-> IF explain THEN {<<f.evidence, f.tier>>} ELSE {}]

RenderReport(report, explain) ==
  LET demoted == Count(report.findings, LAMBDA f : ~CountsTowardVerdict(f.evidence)) IN
  [lines    |-> [k \in DOMAIN report.findings |-> RenderOne(report.findings[k], explain)],
   scanned  |-> [files |-> report.files, findings |-> Len(report.findings),
                 suppressed |-> report.suppressed, skipped |-> Len(report.skipped),
                 transcoded |-> Cardinality(report.transcoded)],
   verdict  |-> [actionable |-> Len(report.findings) - demoted, demoted |-> demoted],
   coverage |-> StatusOf(report),
   failures |-> report.failures,
   incomplete |-> Retain(report.inventory,
                    LAMBDA e : e.outcome # "analysed" \/ ~e.analysis_complete)]
=============================================================================
