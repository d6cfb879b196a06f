------------------------------- MODULE Envelope -----------------------------
(***************************************************************************)
(* A finished scan as the JSON report (report/json.rs, evidence.rs), and   *)
(* the checks that validate-report makes of one (report/validate.rs).  A   *)
(* hash is the tuple it is taken of; Malformed stands for a string that is *)
(* no hash.  An exit code is a set of at most one number, {} for null.     *)
(*                                                                         *)
(* Left out: messages, reasons, the tool's identity and the commit, which  *)
(* no check compares with anything.                                        *)
(***************************************************************************)
EXTENDS Verdict, Suppression, Lists

Malformed     == <<"malformed">>
SchemaVersion == "0.5.0"
Versions      == {"0.4.0", SchemaVersion}
Statuses      == {"no-applicable-input", "partial", "complete-within-policy"}

\* What a path is relative to: a scan of one file has root = file.
BaseOf(file, root) == IF file = root THEN SubSeq(root, 1, Len(root) - 1) ELSE root

\* evidence::relative_path, in slashes: lib\x.py has the path of lib/x.py.
RelativePath(file, root) == Slashed(Below(file, BaseOf(file, root)))

\* ScanReport::coverage_status, and validate_value's copy of it.
Status(files, failures, skipped, inventory) ==
  IF /\ files = 0 /\ failures = {}
     /\ \A e \in Range(inventory) : e.outcome \in {"unsupported", "excluded-by-policy"}
  THEN "no-applicable-input"
  ELSE IF \/ skipped # <<>> \/ failures # {}
          \/ \E e \in Range(inventory) : e.outcome = "analysed" /\ ~e.analysis_complete
       THEN "partial" ELSE "complete-within-policy"

StatusOf(report) == Status(report.files, report.failures, report.skipped, report.inventory)

-----------------------------------------------------------------------------
SemanticFingerprint(f, root) ==
  FingerprintOf(RelativePath(f.location.file, root), f.location.line_start, f.evidence)

NotesOn(inventory, file) ==
  LET entries == Retain(inventory, LAMBDA e : e.path = file)
  IN IF entries = <<>> THEN <<>> ELSE Head(entries).analysis_notes

Anchor(report, f) ==
  LET key == <<f.rule_id, f.location.file, f.location.byte_start, f.location.byte_end>>
  IN IF key \in DOMAIN report.anchors THEN report.anchors[key]
     ELSE <<"line", f.location.line_start, "column", f.location.col_start>>

\* Mutant: the path is the one reported, root and all.
RecordUnrooted(report, f) ==
  [fingerprint |-> <<"pons-fingerprint-v1", f.rule_id, Slashed(f.location.file), Anchor(report, f)>>,
   producer |-> "pons", rule |-> f.rule_id, tier |-> f.tier, evidence |-> f.evidence,
   confidence |-> Confidence[f.evidence],
   path |-> RelativePath(f.location.file, report.root), line |-> f.location.line_start,
   trace |-> f.evidence_note, unknown_edges |-> NotesOn(report.inventory, f.location.file),
   counterconditions |-> f.counter_condition]

Record(report, f) ==
  LET path == RelativePath(f.location.file, report.root) IN
  [fingerprint |-> <<"pons-fingerprint-v1", f.rule_id, path, Anchor(report, f)>>,
   producer |-> "pons", rule |-> f.rule_id, tier |-> f.tier, evidence |-> f.evidence,
   confidence |-> Confidence[f.evidence], path |-> path, line |-> f.location.line_start,
   trace |-> f.evidence_note, unknown_edges |-> NotesOn(report.inventory, f.location.file),
   counterconditions |-> f.counter_condition]

Contract(report) ==
  [execution_outcome |-> StatusOf(report), parser_inventory |-> report.inventory,
   records |-> [k \in DOMAIN report.findings |-> Record(report, report.findings[k])]]

Tally(findings) ==
  LET of(class) == Count(findings, LAMBDA f : f.evidence = class) IN
  [by_evidence |-> [class \in EvidenceClass |-> of(class)], total |-> Len(findings),
   actionable |-> Len(findings) - of("SPECULATIVE"), demoted_speculative |-> of("SPECULATIVE")]

View(f, root) ==
  [rule_id |-> f.rule_id, tier |-> f.tier, evidence |-> f.evidence, severity |-> f.severity,
   location |-> f.location, evidence_note |-> f.evidence_note,
   counter_condition |-> f.counter_condition,
   semantic_fingerprint |-> SemanticFingerprint(f, root)]

Render(report) ==
  [schema_version |-> SchemaVersion,
   exit_code |-> report.exit_code,
   scanned |-> [root |-> report.root, coverage_status |-> StatusOf(report),
                inventory |-> report.inventory, coverage_failures |-> report.failures,
                files |-> report.files, suppressed_findings |-> report.suppressed,
                skipped |-> report.skipped],
   counts |-> Tally(report.findings),
   findings |-> [k \in DOMAIN report.findings |-> View(report.findings[k], report.root)],
   evidence_contract |-> Contract(report)]

-----------------------------------------------------------------------------
(* validate-report.  A document may lack keys: the schemas are closed and  *)
(* say which there are, and only 0.5.0 has the three for consumers.        *)
ScannedKeys == {"root", "coverage_status", "inventory", "coverage_failures", "files",
                "suppressed_findings", "skipped"}
CountKeys(version) == {"by_evidence", "total"} \cup
  (IF version = SchemaVersion THEN {"actionable", "demoted_speculative"} ELSE {})
FindingKeys(version) ==
  {"rule_id", "tier", "evidence", "severity", "location", "evidence_note", "counter_condition"}
  \cup (IF version = SchemaVersion THEN {"semantic_fingerprint"} ELSE {})

\* Mutant: an older report may hold anything more.
SchemaOpen(v) ==
  /\ v.schema_version \in Versions
  /\ DOMAIN v.scanned = ScannedKeys
  /\ CountKeys(v.schema_version) \subseteq DOMAIN v.counts
  /\ \A f \in Range(v.findings) : FindingKeys(v.schema_version) \subseteq DOMAIN f
  /\ \A r \in Range(v.evidence_contract.records) : r.fingerprint # Malformed

Schema(v) ==
  /\ v.schema_version \in Versions
  /\ DOMAIN v.scanned = ScannedKeys
  /\ DOMAIN v.counts = CountKeys(v.schema_version)
  /\ \A f \in Range(v.findings) : DOMAIN f = FindingKeys(v.schema_version)
  /\ \A r \in Range(v.evidence_contract.records) : r.fingerprint # Malformed

Analysed(v) == {k \in DOMAIN v.scanned.inventory : v.scanned.inventory[k].outcome = "analysed"}

InventoryFits(v) ==
  LET inventory == v.scanned.inventory IN
  /\ \A j, k \in DOMAIN inventory : inventory[j].path = inventory[k].path => j = k
  /\ \A k \in Analysed(v) : inventory[k].attested
  /\ v.scanned.files = Cardinality(Analysed(v))
  /\ \A e \in Range(inventory) :
       e.outcome \notin {"analysed", "excluded-by-policy"} => e.path \in Range(v.scanned.skipped)

Verified(v) == Status(Cardinality(Analysed(v)), v.scanned.coverage_failures,
                      v.scanned.skipped, v.scanned.inventory)

StatusFits(v) ==
  /\ v.scanned.coverage_status = Verified(v)
  /\ Analysed(v) = {} \/ v.scanned.coverage_failures # {} => v.exit_code \in {{}, {2}}

\* Of a path in slashes: neither absolute nor climbing out of the root.
Inside(path) == path = <<>> \/ path[1] \notin {"", ".."}

FindingFits(v, f) ==
  /\ f.evidence = EvidenceOf[f.tier]
  /\ f.location.byte_end >= f.location.byte_start
  /\ \E k \in Analysed(v) : v.scanned.inventory[k].path = f.location.file
  /\ v.schema_version = SchemaVersion =>
       /\ Inside(RelativePath(f.location.file, v.scanned.root))
       /\ f.semantic_fingerprint = SemanticFingerprint(f, v.scanned.root)

CountsFit(v) ==
  LET tally == Tally(v.findings) IN
  /\ v.counts.total = tally.total
  /\ v.counts.by_evidence = tally.by_evidence
  /\ v.schema_version = SchemaVersion => v.counts = tally

\* validate_records.
RecordsFit(records) ==
  /\ \A r \in Range(records) : r.evidence = EvidenceOf[r.tier] /\ r.path # <<>>
  /\ \A j, k \in DOMAIN records :
       records[j].producer = records[k].producer /\ records[j].fingerprint = records[k].fingerprint
       => j = k

Mirrors(v, r, f) ==
  /\ r.rule = f.rule_id /\ r.tier = f.tier /\ r.evidence = f.evidence
  /\ r.path = RelativePath(f.location.file, v.scanned.root) /\ r.line = f.location.line_start
  /\ r.trace = f.evidence_note /\ r.counterconditions = f.counter_condition
  /\ r.unknown_edges = NotesOn(v.scanned.inventory, f.location.file)

ContractFits(v) ==
  LET contract == v.evidence_contract IN
  /\ contract.execution_outcome = Verified(v)
  /\ RecordsFit(contract.records)
  /\ Len(contract.records) = Len(v.findings)
  /\ contract.parser_inventory = v.scanned.inventory
  /\ \A k \in DOMAIN v.findings : Mirrors(v, contract.records[k], v.findings[k])

Valid(v) == /\ Schema(v) /\ InventoryFits(v) /\ StatusFits(v)
            /\ \A f \in Range(v.findings) : FindingFits(v, f)
            /\ CountsFit(v) /\ ContractFits(v)
=============================================================================
