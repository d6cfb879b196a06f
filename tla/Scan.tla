-------------------------------- MODULE Scan --------------------------------
(***************************************************************************)
(* pons scan: discovery, then Engine::scan_files reads, parses and         *)
(* analyses each file it was given (crates/pons-core/src/engine.rs), then  *)
(* run_scan gates on coverage and findings, prints the report and exits    *)
(* (crates/pons-cli/src/main.rs).  Valid is the reader's side: the checks  *)
(* of report/validate.rs on the report that was printed.                   *)
(*                                                                         *)
(* What a file's bytes are is not modelled: reading and parsing a file     *)
(* that is there may end in any of the code's outcomes.                    *)
(***************************************************************************)
EXTENDS Discovery

CONSTANT Options   \* the invocations: records of failOnSkips, failOn and required

ASSUME OptionsAssumption ==
  Options \subseteq [failOnSkips : BOOLEAN, failOn : BOOLEAN,
                     required : SUBSET {"native", "recognised", "out-of-scope"}]

VARIABLES
  options,
  pending,    \* files the engine has yet to read
  scanned,    \* files_scanned: the files counted as analysed
  failures,   \* coverage_failures: the required languages that failed
  gating,     \* files with a finding that meets the threshold
  code,       \* exit_code in the report ({} before it is set)
  exit        \* status of the process ({} while it runs)

engineVars == <<pending, scanned, failures, gating>>
vars == <<fsVars, phase, walkVars, discoveryVars, options, engineVars, code, exit>>

TypeOK ==
  /\ DiscoveryTypeOK
  /\ phase \in {"open", "walk1", "walk2", "read", "emit", "exited"}
  /\ options \in Options
  /\ pending \subseteq files /\ scanned \subseteq files /\ gating \subseteq scanned
  /\ failures \subseteq options.required
  /\ code \in SUBSET (0..2) /\ exit \in SUBSET (0..2)

Init ==
  /\ DiscoveryInit
  /\ options \in Options
  /\ pending = {} /\ scanned = {} /\ failures = {} /\ gating = {}
  /\ code = {} /\ exit = {}

-----------------------------------------------------------------------------
\* The checks run_scan and discover make before any walk: the root, the
\* rules selected and the configuration.
Refuse == /\ phase = "open" /\ phase' = "exited" /\ exit' = {2}
          /\ UNCHANGED <<fsVars, walkVars, discoveryVars, options, engineVars, code>>

Discover == /\ \/ OpenRoot \/ SecondWalk
               \/ \E p \in Path : Visit(p) \/ Account(p)
            /\ UNCHANGED <<options, engineVars, code, exit>>

StartReading == /\ FinishDiscovery
                /\ pending' = files
                /\ UNCHANGED <<options, scanned, failures, gating, code, exit>>

\* Read errors, the 4 MiB limit, the parser's budgets, its errors, and a
\* grammar no selected rule applies to: an entry and a skip, both.
Setback(p, outcome) ==
  /\ outcome \in {"unreadable", "timeout", "parse-error", "unsupported"}
  /\ node[p] \in {"absent", "dir", "locked"} => outcome = "unreadable"
  /\ inventory' = inventory \cup {Listed(p, outcome, "read")}
  /\ skipped' = skipped \cup {p}
  /\ UNCHANGED <<scanned, gating>>

Analysed(p, whole) == [Listed(p, "analysed", "read") EXCEPT !.complete = whole]

\* The rules ran; opaque functions or PHP unknowns leave the file incomplete.
Analyse(p, whole, gates) ==
  /\ node[p] \in {"file", "symlink"}
  /\ inventory' = inventory \cup {Analysed(p, whole)}
  /\ scanned' = scanned \cup {p}
  /\ gating' = IF gates THEN gating \cup {p} ELSE gating
  /\ UNCHANGED skipped

Read(p) ==
  /\ phase = "read" /\ p \in pending
  /\ pending' = pending \ {p}
  /\ \/ \E outcome \in Outcome : Setback(p, outcome)
     \/ \E whole, gates \in BOOLEAN : Analyse(p, whole, gates)
  /\ UNCHANGED <<fsVars, phase, walkVars, included, files, options, failures, code, exit>>

-----------------------------------------------------------------------------
CoverageStatus ==
  IF /\ scanned = {} /\ failures = {}
     /\ \A e \in inventory : e.outcome \in {"unsupported", "excluded-by-policy"}
  THEN "no-applicable-input"
  ELSE IF \/ skipped # {} \/ failures # {}
          \/ \E e \in inventory : e.outcome = "analysed" /\ ~e.complete
       THEN "partial"
       ELSE "complete-within-policy"

\* Mutant: an incomplete analysis satisfies a required language.
MissingIfAbsent(l) == ~ \E e \in inventory : e.language = l /\ e.outcome = "analysed"

Missing(l) ==
  LET entries == {e \in inventory : e.language = l}
  IN entries = {} \/ \E e \in entries : e.outcome # "analysed" \/ ~e.complete

\* Mutant: a scan of nothing is a clean scan.
CoverageFailedNoZero(failed) == failed # {} \/ (options.failOnSkips /\ skipped # {})

CoverageFailed(failed) ==
  scanned = {} \/ failed # {} \/ (options.failOnSkips /\ skipped # {})

Gate ==
  /\ phase = "read" /\ pending = {}
  /\ phase' = "emit"
  /\ LET failed == {l \in options.required : Missing(l)}
     IN /\ failures' = failed
        /\ code' = IF CoverageFailed(failed) THEN {2}
                   ELSE IF options.failOn /\ gating # {} THEN {1} ELSE {0}
  /\ UNCHANGED <<fsVars, walkVars, discoveryVars, options, pending, scanned, gating, exit>>

Emit == /\ phase = "emit" /\ exit' = code
         /\ phase' = "exited"
         /\ UNCHANGED <<fsVars, walkVars, discoveryVars, options, engineVars, code>>

\* A reader that went away is no error, any other failure of emit is.
EmitFails == /\ phase = "emit" /\ \E status \in {0, 2} : exit' = {status}
              /\ phase' = "exited"
              /\ UNCHANGED <<fsVars, walkVars, discoveryVars, options, engineVars, code>>

Step == \/ Refuse \/ Discover \/ StartReading
        \/ \E p \in Path : Read(p)
        \/ Gate \/ Emit \/ EmitFails

Environment == /\ \E p \in Path : Change(p)
               /\ UNCHANGED <<options, engineVars, code, exit>>

Next == Step \/ Environment

Spec     == Init /\ [][Next]_vars
FairSpec == Spec /\ WF_vars(Step)

-----------------------------------------------------------------------------
Reported == code # {}

\* The directories above a path, and the path.
Ancestors ==
  [p \in Path |-> {q \in Path : \A S \in SUBSET Path :
                     p \in S /\ (\A r \in S : Parent[r] \in S) => q \in S}]

\* p has been there, unchanged, since the scan began, in directories that
\* could be opened and are not build or VCS boundaries.
Standing(p) ==
  /\ Ancestors[p] \subseteq steady
  /\ \A q \in Ancestors[p] \ {p} : node[q] = "dir" /\ q \notin Opaque

AnalysedInFull(p) == \E e \in inventory : e.file = p /\ e.outcome = "analysed" /\ e.complete

(* The inventory leaves nothing out: whatever the file system did during   *)
(* the scan, each file or link that stood throughout is in it, and each    *)
(* directory that stood locked is a skip ("surfaced so a partial scan can  *)
(* never be mistaken for a clean one", engine.rs:77-78).                   *)
NothingUnseen ==
  Reported => \A p \in Path : Standing(p) =>
    /\ node[p] \in {"file", "symlink"} => Display[p] \in Inventoried
    /\ node[p] = "locked" /\ p \notin Opaque => Display[p] \in Inventoried \cap Shown(skipped)

(* "complete-within-policy" means what it says: each source or             *)
(* configuration file that stood throughout and that no policy excludes    *)
(* was analysed, in full.                                                  *)
CompleteMeansAll ==
  Reported /\ CoverageStatus = "complete-within-policy" =>
    \A p \in Path :
      /\ Standing(p) /\ node[p] = "file" /\ Language[p] # "out-of-scope"
      /\ Ancestors[p] \cap (Ignored \cup Opaque) = {}
      => AnalysedInFull(p)

(* A gate that passes (exit code 0 or 1 in the report) has looked at       *)
(* something, and at all of each required language that stood throughout,  *)
(* files the policy excludes included (main.rs:303-306).                   *)
GateSawTheRequired ==
  Reported /\ code # {2} =>
    /\ \E e \in inventory : e.outcome = "analysed"
    /\ \A p \in Path :
         /\ Standing(p) /\ node[p] \in {"file", "symlink"}
         /\ Language[p] \in options.required
         => AnalysedInFull(p)

\* The checks validate_value makes of a report.
AnalysedEntries == {e \in inventory : e.outcome = "analysed"}
UniquePaths     == \A d, e \in inventory : Display[d.file] = Display[e.file] => d = e
CountMatches    == Cardinality(AnalysedEntries) = Cardinality(scanned)
SkipsListed     == \A e \in inventory : e.outcome \notin {"analysed", "excluded-by-policy"} =>
                     Display[e.file] \in Shown(skipped)
ExitFits        == AnalysedEntries = {} \/ failures # {} => code = {2}
FindingsInInput == \A p \in gating : \E e \in AnalysedEntries : Display[e.file] = Display[p]

(* The report's accounting passes the tool's own validator, whatever the   *)
(* file system did: as many analysed entries as files counted, a skip for  *)
(* every entry that is neither analysed nor excluded, exit code 2 when     *)
(* coverage failed, and findings only in analysed files.                   *)
AccountingAgrees ==
  Reported => CountMatches /\ SkipsListed /\ ExitFits /\ FindingsInInput

(* "invalid/duplicate inventory path" (report/validate.rs): the report on  *)
(* a tree that nobody changed names each path once, or the tool's own      *)
(* validator refuses it.                                                   *)
InventoryNamesPathsOnce == Reported /\ steady = Path => UniquePaths

(* A scan comes to an end, as long as the tree does not change for ever.   *)
Finishes == <>(phase = "exited")
=============================================================================
