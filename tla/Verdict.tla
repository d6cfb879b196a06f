------------------------------- MODULE Verdict ------------------------------
(***************************************************************************)
(* What a finding weighs (crates/pons-core/src/verdict.rs, finding.rs): a  *)
(* rule's tier fixes the evidence class, and from class and severity come  *)
(* the SARIF level, the rank of --fail-on and the weight in a sum.  Grid,  *)
(* SeverityScale and EvidenceScale are the matrix published to consumers   *)
(* as schemas/verdict-matrix-1.0.0.json.                                   *)
(***************************************************************************)
EXTENDS Naturals

Tier          == {"T0", "T1", "T2", "T3"}
EvidenceClass == {"HEURISTIC", "DATAFLOW", "PROTOCOL", "SPECULATIVE"}
Severity      == {"INFO", "WARN", "ERROR"}

EvidenceOf == [T0 |-> "HEURISTIC", T1 |-> "DATAFLOW", T2 |-> "PROTOCOL", T3 |-> "SPECULATIVE"]
TierOf     == [HEURISTIC |-> "T0", DATAFLOW |-> "T1", PROTOCOL |-> "T2", SPECULATIVE |-> "T3"]
Confidence == [HEURISTIC |-> "heuristic", DATAFLOW |-> "model-dependent",
               PROTOCOL |-> "premise-dependent", SPECULATIVE |-> "speculative"]

FailOnRank     == [INFO |-> 0, WARN |-> 1, ERROR |-> 2]
SeverityWeight == [INFO |-> 1, WARN |-> 2, ERROR |-> 3]
SarifRank      == [HEURISTIC |-> 50, DATAFLOW |-> 80, PROTOCOL |-> 70, SPECULATIVE |-> 20]

CountsTowardVerdict(evidence) == evidence # "SPECULATIVE"

EvidenceWeight(evidence) == IF CountsTowardVerdict(evidence) THEN SarifRank[evidence] ELSE 0
AggregateWeight(evidence, severity) == SeverityWeight[severity] * EvidenceWeight(evidence)

LevelForSeverity == [INFO |-> "note", WARN |-> "warning", ERROR |-> "error"]

\* The demotion comes first, whatever the severity.
SarifLevel(evidence, severity) ==
  IF evidence = "SPECULATIVE" THEN "note" ELSE LevelForSeverity[severity]

CountBucket(evidence)    == IF CountsTowardVerdict(evidence) THEN "actionable" ELSE "demoted"
DemotionSuffix(evidence) == IF CountsTowardVerdict(evidence) THEN "" ELSE " (heuristic)"

Grid == [evidence \in EvidenceClass |-> [severity \in Severity |->
  [sarif_level      |-> SarifLevel(evidence, severity),
   aggregate_weight |-> AggregateWeight(evidence, severity),
   gate_eligible    |-> CountsTowardVerdict(evidence),
   count_bucket     |-> CountBucket(evidence),
   demotion_suffix  |-> DemotionSuffix(evidence)]]]

SeverityScale == [severity \in Severity |->
  [weight |-> SeverityWeight[severity], fail_on_rank |-> FailOnRank[severity],
   sarif_level_when_not_demoted |-> LevelForSeverity[severity]]]

EvidenceScale == [evidence \in EvidenceClass |->
  [tier |-> TierOf[evidence], sarif_rank |-> SarifRank[evidence],
   weight |-> EvidenceWeight(evidence), confidence |-> Confidence[evidence],
   counts_toward_verdict |-> CountsTowardVerdict(evidence)]]

-----------------------------------------------------------------------------
\* RawFinding::into_finding and Finding::new: the rule's id is the engine's
\* to give, the class is the tier's.
Finding(rule, raw, location) ==
  [rule_id |-> rule, tier |-> raw.tier, evidence |-> EvidenceOf[raw.tier],
   severity |-> raw.severity, location |-> location,
   evidence_note |-> raw.evidence_note, counter_condition |-> raw.counter_condition]

\* corroborate.rs, its hash taken to be injective: a site, whatever the rule.
FingerprintOf(path, line, class) == <<"pons-corroboration-v1", path, line, class>>
=============================================================================
