------------------------------- MODULE Collect ------------------------------
(***************************************************************************)
(* From what the rules raise to the findings of a report: Engine::scan_    *)
(* files after parsing (crates/pons-core/src/engine.rs), under the rules   *)
(* and the configuration run_scan hands it (crates/pons-cli/src/main.rs).  *)
(* Files come in the order of a directory walk, which is any; each finding *)
(* is judged at a moment of its own, and the clock runs on.                *)
(*                                                                         *)
(* Which files there are, and which can be read, is Scan's matter: here a  *)
(* file says how it ends.  So do the rules: a file says what each raises.  *)
(***************************************************************************)
EXTENDS Verdict, Location, Suppression, Lists

CONSTANTS
  Registry,  \* the rules in the order they run: records of id (a number, by
             \* which ids are ordered) and languages
  Jobs,      \* the scans: records of root, base, files, config, select
  MaxClock   \* bound on the clock

ASSUME RegistryAssumption ==
  /\ Registry \in Seq(Range(Registry))
  /\ \A j, k \in DOMAIN Registry : Registry[j].id \in Nat /\ (Registry[j].id = Registry[k].id => j = k)
ASSUME ClockAssumption == MaxClock \in Nat

\* Every component has a name, and these are no names of files.
Component == Seq(STRING) \ {<<>>}
Reserved  == {<<"">>, <<".">>, <<"..">>}

\* What a rule raises has an extent, in the text.  Two of one extent are copies, of the
\* copies a finally body has, and nothing else with their start is between them.
RawsFit(raws) ==
  /\ raws \in Seq(Range(raws))
  /\ \A raw \in Range(raws) :
       /\ {"from", "to", "tier", "severity"} \subseteq DOMAIN raw
       /\ raw.from \in Nat /\ raw.to \in Nat /\ raw.from < raw.to
       /\ raw.tier \in Tier /\ raw.severity \in Severity
  /\ \A i, k \in DOMAIN raws : raws[i].from = raws[k].from /\ raws[i].to = raws[k].to =>
       \A j \in i..k : raws[j].from = raws[i].from => raws[j] = raws[i]

FileFits(f) ==
  /\ {"path", "rank", "language", "outcome", "artifact", "comments", "raws"} \subseteq DOMAIN f
  /\ f.path \in Seq(Component) /\ f.rank \in Nat /\ f.artifact \in Seq(Range(f.artifact))
  /\ \A k \in DOMAIN Registry :
       /\ Registry[k].id \in DOMAIN f.raws /\ RawsFit(f.raws[Registry[k].id])
       /\ \A raw \in Range(f.raws[Registry[k].id]) : raw.to <= Len(Decode(f.artifact))

\* The sources are in a directory, base; the root is one too, and all files
\* are below it, or the root is the one file there is.
PathFits(path, j) ==
  /\ Within(path, j.base)
  /\ \A k \in (Len(j.base) + 1)..Len(path) : path[k] \notin Reserved
  /\ IsStrictPrefix(j.root, path) \/ (path = j.root /\ j.root # j.base)

JobFits(j) ==
  /\ {"root", "base", "elsewhere", "files", "select"} \subseteq DOMAIN j
  /\ {j.root, j.base, j.elsewhere} \subseteq Seq(Component) /\ Within(j.root, j.base)
  /\ IsFiniteSet(j.files)
  /\ \A f \in j.files : FileFits(f) /\ PathFits(f.path, j)
  /\ \A f, g \in j.files : f.path = g.path \/ f.rank = g.rank \/ f.path = j.root => f = g

ASSUME JobsAssumption == \A j \in Jobs : JobFits(j)

VARIABLES
  job,
  clock,
  phase,       \* "start", "read", "collected"; "refused" when pons.toml is
  pending,     \* files to read
  current,     \* the path of the file being read
  todo,        \* what its rules raised and nobody judged yet
  findings, anchors, occurrences, suppressed, inventory, skipped,
  judged       \* history: each finding with whether it was kept

engineVars  == <<pending, current, todo>>
resultVars  == <<findings, anchors, occurrences, suppressed, inventory, skipped, judged>>
collectVars == <<job, clock, phase, engineVars, resultVars>>

Known == {Registry[k].id : k \in DOMAIN Registry}
Rules == Retain(Registry, LAMBDA r : job.select = {} \/ r.id \in job.select)

FileAt(path) == CHOOSE f \in job.files : f.path = path
TextOf(path) == Decode(FileAt(path).artifact)

CollectStart == /\ phase = "start" /\ pending = {} /\ current = <<>> /\ todo = <<>>
                /\ findings = <<>> /\ anchors = <<>> /\ occurrences = <<>>
                /\ suppressed = 0 /\ inventory = <<>> /\ skipped = <<>> /\ judged = <<>>

CollectInit == job \in Jobs /\ clock = 0 /\ CollectStart

Tick == /\ clock < MaxClock /\ phase \in {"start", "read"}
        /\ clock' = clock + 1
        /\ UNCHANGED <<job, phase, engineVars, resultVars>>

\* run_scan compiles pons.toml before it scans, or exits with 2.
Compile ==
  /\ phase = "start"
  /\ IF Compiles(job.config, Known, clock)
     THEN phase' = "read" /\ pending' = job.files
     ELSE phase' = "refused" /\ UNCHANGED pending
  /\ UNCHANGED <<job, clock, current, todo, resultVars>>

\* What an adapter does not know makes a file incomplete; its caveats do not.
Item(f) ==
  [path |-> f.path, language |-> f.language, outcome |-> f.outcome,
   analysis_complete |-> f.outcome = "analysed" /\ f.unknowns = <<>>,
   analysis_notes |-> f.unknowns \o f.caveats,
   attested |-> f.outcome = "analysed"]  \* a parser and a digest

\* What the rules for the file's language raise, rule by rule.
Raised(f) ==
  LET applicable == Retain(Rules, LAMBDA r : f.language \in r.languages)
      of(r) == [k \in DOMAIN f.raws[r.id] |-> [rule |-> r.id, raw |-> f.raws[r.id][k]]]
  IN FlattenSeq([k \in DOMAIN applicable |-> of(applicable[k])])

Open(f) ==
  /\ phase = "read" /\ todo = <<>> /\ f \in pending
  /\ pending' = pending \ {f} /\ current' = f.path
  /\ inventory' = Append(inventory, Item(f))
  /\ IF f.outcome = "analysed"
     THEN todo' = Raised(f) /\ UNCHANGED skipped
     ELSE /\ skipped' = IF f.outcome = "excluded-by-policy" THEN skipped
                        ELSE Append(skipped, f.path)
          /\ UNCHANGED todo
  /\ UNCHANGED <<job, clock, phase, findings, anchors, occurrences, suppressed, judged>>

Comments(f) ==
  {[line |-> Row(Decode(f.artifact), c.at) + 1, rules |-> c.rules,
    documented |-> c.documented, expires |-> c.expires] : c \in f.comments}

Hidden(finding) ==
  \/ Suppressed(job.config, finding, job.root)
  \/ InlineAllowed(Comments(FileAt(finding.location.file)), finding, clock)

SpanKey(f) == <<f.rule_id, f.location.file, f.location.byte_start, f.location.byte_end>>
Seen(key)  == IF key \in DOMAIN occurrences THEN occurrences[key] ELSE 0

Suppress(finding) ==
  /\ Hidden(finding)
  /\ suppressed' = suppressed + 1
  /\ UNCHANGED <<findings, anchors, occurrences>>

\* Mutant: every anchor is the first of its kind.
KeepUnnumbered(finding, snippet) ==
  /\ anchors' = Insert(anchors, SpanKey(finding), <<snippet, 0>>)
  /\ findings' = Append(findings, finding)
  /\ UNCHANGED <<suppressed, occurrences>>

Keep(finding, snippet) ==
  LET key == <<finding.rule_id, finding.location.file, snippet>> IN
  /\ anchors' = Insert(anchors, SpanKey(finding), <<snippet, Seen(key)>>)
  /\ occurrences' = Insert(occurrences, key, Seen(key) + 1)
  /\ findings' = Append(findings, finding)
  /\ UNCHANGED suppressed

Judge ==
  /\ phase = "read" /\ todo # <<>>
  /\ LET text    == TextOf(current)
         raw     == Head(todo).raw
         at      == FromNode(current, raw, text)
         finding == Finding(Head(todo).rule, raw, at)
     IN /\ \/ Suppress(finding)
           \/ ~Hidden(finding) /\ Keep(finding, Folded(Slice(text, at.byte_start, at.byte_end)))
        /\ judged' = Append(judged, [finding |-> finding, kept |-> ~Hidden(finding)])
  /\ todo' = Tail(todo)
  /\ UNCHANGED <<job, clock, phase, pending, current, inventory, skipped>>

Rank(path) == FileAt(path).rank

FindingBefore(f, g) ==
  LET x == f.location  y == g.location IN
  \/ Rank(x.file) < Rank(y.file)
  \/ /\ x.file = y.file
     /\ \/ x.byte_start < y.byte_start
        \/ x.byte_start = y.byte_start /\ f.rule_id < g.rule_id

\* Mutant: an equal line is an equal place.
SameLine(f, g) == f.rule_id = g.rule_id /\ f.location.file = g.location.file
                  /\ f.location.line_start = g.location.line_start

Same(f, g) == f.rule_id = g.rule_id /\ f.location = g.location

Finish ==
  /\ phase = "read" /\ pending = {} /\ todo = <<>>
  /\ phase' = "collected"
  /\ findings' = Dedup(Sorted(findings, FindingBefore), Same)
  /\ inventory' = Sorted(inventory, LAMBDA d, e : Rank(d.path) < Rank(e.path))
  /\ skipped' = Sorted(skipped, LAMBDA p, q : Rank(p) < Rank(q))
  /\ UNCHANGED <<job, clock, engineVars, anchors, occurrences, suppressed, judged>>

CollectNext == \/ Tick \/ Compile \/ Judge \/ Finish
               \/ \E f \in pending : Open(f)
=============================================================================
