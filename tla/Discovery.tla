------------------------------ MODULE Discovery ------------------------------
(***************************************************************************)
(* source::discover (crates/pons-core/src/source.rs) on a file system that *)
(* may change while it runs.  A first walk, under the ignore policy, lists *)
(* the files to analyse; a second one, without it, accounts for what the   *)
(* policy left out.  Each entry is seen at a moment of its own.            *)
(*                                                                         *)
(* The walker of crate `ignore` is external: it lists a directory's        *)
(* entries in any order and reports a directory it cannot open as an error *)
(* at that directory.                                                      *)
(***************************************************************************)
EXTENDS Naturals, FiniteSets

CONSTANTS
  Path, Root,
  Parent,     \* [Path -> Path]; Parent[Root] = Root
  Display,    \* [Path -> name]: what Path::display() shows of a path
  Language,   \* [Path -> "native", "recognised" or "out-of-scope"]
  Ignored,    \* the paths .gitignore, .ponsignore or a dot hide
  Opaque,     \* the paths named in SKIP_DIRS
  Kinds,      \* [Path -> the kinds of node that may be found there]
  MaxChanges  \* bound on the changes the file system makes during a scan

Kind == {"absent", "file", "dir", "locked", "symlink"}

ASSUME TreeAssumption ==
  /\ IsFiniteSet(Path)
  /\ Root \in Path /\ Parent \in [Path -> Path] /\ Parent[Root] = Root
  /\ \A S \in (SUBSET Path) \ {{}} : (\A p \in S : Parent[p] \in S) => Root \in S  \* a tree
  /\ Language \in [Path -> {"native", "recognised", "out-of-scope"}]
  /\ Kinds \in [Path -> SUBSET Kind]
  /\ DOMAIN Display = Path
  /\ Ignored \subseteq Path \ {Root} /\ Opaque \subseteq Path \ {Root}
  /\ MaxChanges \in Nat

VARIABLES
  node,      \* [Path -> Kind]: the file system
  steady,    \* history: the paths that have not changed since the scan began
  changes,
  phase,
  todo,      \* paths the current walk has yet to reach
  entered,   \* directories it has opened
  included, files, skipped, inventory

fsVars        == <<node, steady, changes>>
walkVars      == <<todo, entered>>
discoveryVars == <<included, files, skipped, inventory>>

Outcome == {"analysed", "unsupported", "excluded-by-policy", "parse-error", "timeout", "unreadable"}
LanguageName == {"native", "recognised", "out-of-scope", "unknown"}
Entry   == [file : Path, outcome : Outcome, complete : BOOLEAN, language : LanguageName,
            stage : {"listed", "policy", "skip", "read"}]

DiscoveryTypeOK ==
  /\ node \in [Path -> Kind] /\ steady \subseteq Path /\ changes \in 0..MaxChanges
  /\ todo \subseteq Path /\ entered \subseteq Path
  /\ included \subseteq Path /\ files \subseteq included /\ skipped \subseteq Path
  /\ inventory \subseteq Entry

IsDir(p) == node[p] \in {"dir", "locked"}
Listed(p, outcome, stage) ==
  [file |-> p, outcome |-> outcome, complete |-> FALSE, language |-> Language[p], stage |-> stage]
Shown(S) == {Display[p] : p \in S}
Inventoried == {Display[e.file] : e \in inventory}

DiscoveryInit ==
  /\ node \in {f \in [Path -> Kind] : \A p \in Path : f[p] \in Kinds[p]}
  /\ steady = Path /\ changes = 0
  /\ phase = "open"
  /\ todo = {} /\ entered = {}
  /\ included = {} /\ files = {} /\ skipped = {} /\ inventory = {}

\* Someone else writes to the tree.
Change(p) ==
  /\ phase \notin {"open", "exited"} /\ changes < MaxChanges
  /\ \E k \in Kinds[p] \ {node[p]} : node' = [node EXCEPT ![p] = k]
  /\ steady' = steady \ {p}
  /\ changes' = changes + 1
  /\ UNCHANGED <<phase, walkVars, discoveryVars>>

StartWalk(next) == phase' = next /\ todo' = Path /\ entered' = {}

\* metadata and read_dir on the root settle that it can be scanned at all.
OpenRoot == /\ phase = "open" /\ node[Root] \in {"dir", "file"}
            /\ StartWalk("walk1")
            /\ UNCHANGED <<fsVars, discoveryVars>>

\* An entry the walk comes to, in any order below the directories it opened.
Reach(walk, p) == /\ phase = walk /\ p \in todo
                  /\ p = Root \/ Parent[p] \in entered
                  /\ todo' = todo \ {p}
                  /\ UNCHANGED <<fsVars, phase>>

Enter(p) == entered' = entered \cup {p} /\ UNCHANGED discoveryVars
Pass     == UNCHANGED <<entered, discoveryVars>>

\* A walk error becomes a skip, not a failure.
Fail(p) == skipped' = skipped \cup {p} /\ UNCHANGED <<entered, included, files, inventory>>

\* Mutant: a file without an adapter is always out of scope.
OutOfScopeAlways(p) == TRUE

OutOfScope(p) == Language[p] = "out-of-scope" /\ IsDir(Root)

\* Mutant: only what is handed to the engine is remembered as included.
IncludeLate(p) ==
  /\ UNCHANGED entered
  /\ \/ /\ Language[p] = "native"
        /\ files' = files \cup {p}
        /\ UNCHANGED <<included, skipped, inventory>>
     \/ /\ Language[p] # "native"
        /\ included' = included \cup {p}
        /\ inventory' = inventory \cup {Listed(p, "unsupported", "listed")}
        /\ skipped' = skipped \cup {p}
        /\ UNCHANGED files

Include(p) ==
  /\ included' = included \cup {p}
  /\ UNCHANGED entered
  /\ \/ /\ Language[p] = "native"
        /\ files' = files \cup {p}
        /\ UNCHANGED <<skipped, inventory>>
     \/ /\ Language[p] # "native" /\ OutOfScope(p)
        /\ inventory' = inventory \cup {Listed(p, "excluded-by-policy", "listed")}
        /\ UNCHANGED <<files, skipped>>
     \/ /\ Language[p] # "native" /\ ~OutOfScope(p)
        /\ inventory' = inventory \cup {Listed(p, "unsupported", "listed")}
        /\ skipped' = skipped \cup {p}
        /\ UNCHANGED files

\* First walk, honouring the ignore files and SKIP_DIRS.
Visit(p) ==
  /\ Reach("walk1", p)
  /\ \/ p \in Ignored \cup Opaque /\ Pass
     \/ /\ p \notin Ignored \cup Opaque
        /\ \/ node[p] \in {"absent", "symlink"} /\ Pass
           \/ node[p] = "dir" /\ Enter(p)
           \/ node[p] = "locked" /\ Fail(p)
           \/ node[p] = "file" /\ Include(p)

\* Mutant: a walk waits for what lies below a directory it could not open.
ExhaustedAll == todo = {}

Exhausted == \A p \in todo : p # Root /\ Parent[p] \notin entered

SecondWalk == /\ phase = "walk1" /\ Exhausted
              /\ StartWalk("walk2")
              /\ UNCHANGED <<fsVars, discoveryVars>>

Exclude(p) == /\ inventory' = inventory \cup {Listed(p, "excluded-by-policy", "policy")}
              /\ UNCHANGED <<entered, included, files, skipped>>

\* Second walk, metadata only, everything but SKIP_DIRS.
Account(p) ==
  /\ Reach("walk2", p)
  /\ \/ node[p] = "absent" /\ Pass
     \/ node[p] \in {"file", "symlink"} /\ p \in included /\ Pass
     \/ node[p] \in {"file", "symlink"} /\ p \notin included /\ Exclude(p)
     \/ IsDir(p) /\ p \in Opaque /\ Exclude(p)
     \/ node[p] = "dir" /\ p \notin Opaque /\ Enter(p)
     \/ /\ node[p] = "locked" /\ p \notin Opaque
        /\ IF Display[p] \in Shown(skipped) THEN Pass ELSE Fail(p)

\* Only a regular file's language can be told from its name.
Unreadable(p) == [Listed(p, "unreadable", "skip") EXCEPT
                    !.language = IF node[p] = "file" THEN Language[p] ELSE "unknown"]

\* Mutant: skips are not turned into inventory entries.
UnexplainedSkipsNone == {}

\* Skips the inventory does not name get an entry of their own.
UnexplainedSkips ==
  {Unreadable(CHOOSE p \in skipped : Display[p] = n) : n \in Shown(skipped) \ Inventoried}

FinishDiscovery ==
  /\ phase = "walk2" /\ Exhausted
  /\ phase' = "read"
  /\ inventory' = inventory \cup UnexplainedSkips
  /\ todo' = {} /\ entered' = {}
  /\ UNCHANGED <<fsVars, included, files, skipped>>
=============================================================================
