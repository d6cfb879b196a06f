# pons-asinorum: models, checks and proofs

pons-asinorum is a static analyser in Rust. `pons scan` walks a tree, parses
what it can, runs structural and dataflow rules, and reports findings, the files
it did not look at and an exit code. `pons trace` and `pons wharf-trace` check
recorded event traces against protocol models. A run is one process and one
thread; what makes it hard to get right is not concurrency of its own but

* a fixed point reached in an order nobody chose, on graphs with loops, dead code
  and copies of one source line;
* graphs that must follow every way a function may run: jumps through nested
  finally bodies, exceptions between any two statements, context managers that
  swallow them;
* a file system that changes between the moments the tool looks at it;
* events of several sessions interleaved in one trace;
* accounting spread over four places (discovery, engine, gate, validator) that
  must agree after any mixture of failures;
* three report formats that must tell one story, of findings whose identity has
  to outlive moved sources and whose suppressions expire while the scan runs.

The project has TLA+ modules for these, TLC runs on small instances, and TLAPS
theorems for every value of the constants. `PROJECT.json` lists components, runs,
mutants (a plausible bug per property, each of which TLC finds), the source lines
each definition stands for, findings, hazards and theorems.

    tlc -workers 2 -config MCScan_racing.cfg MCScan.tla
    tlapm WharfProofs.tla

## The system

| part | source | state it keeps | operations | modelled |
|---|---|---|---|---|
| dataflow solver | `pons-core/src/dataflow.rs` | facts in and out of each block, worklist, flags | one loop iteration; replay; the queries `dead_stores`, `unbound_reads` | `Dataflow`, `GenKill`, `LeastSolution`, `PathSemantics`, `Execution` |
| control-flow graph | `pons-core/src/cfg/mod.rs` | blocks, edges, events | construction, reachability, predecessors | `FunctionCfg` |
| CFG builder, scopes | `cfg/builder.rs`, `cfg/scope.rs` | blocks, current block, frames of loops and finally bodies, raise targets, names seen | one per statement kind | `Syntax`, `Builder`; composed in `Lowering` |
| rules T1 | `pons-rules/src/t1` | none | report the two queries, drop reads under repeated guards | `PythonRules`, `Lowering` |
| rules T0 | `pons-rules/src/t0` | none | queries on a syntax tree | the two about control flow: `PythonRules` |
| PHP adapter | `pons-core/src/php.rs` | per function: graph, facts per block, queue, steps; flows and unknowns of the file | survey, lowering, solver, report | `PhpSolver`, `PhpBuilder`, `PhpFlow` |
| discovery | `source.rs`, `coverage.rs` | files, skips, inventory, included paths | two walks, accounting for skips | `Discovery` |
| engine and gate | `engine.rs`, `pons-cli/src/main.rs` | inventory, counts, failures, exit code | read, parse, analyse, gate, emit | `Scan` |
| suppression | `config.rs`, `suppress.rs` | compiled globs and comments | refuse a configuration; match a finding | `Suppression` |
| findings | `engine.rs`, `finding.rs`, `source.rs` | findings, anchors, occurrence counts | locate, number, judge, sort, deduplicate | `Location`, `Collect` |
| verdict, evidence, corroboration | `verdict.rs`, `evidence.rs`, `corroborate.rs` | none | tables, fingerprints, records | `Verdict`, `Envelope` |
| reporters | `report/{json,sarif,human}.rs` | none | say what was found | `Envelope`, `Formats` |
| report validator | `report/validate.rs` | none | checks of a report | `Envelope`; its accounting also in `Scan` |
| protocol contracts | `pons-protocols/src/lib.rs` | state, line and moved flag per instance | validate, one per event, exit check | `Contract`, `ProtocolTrace`, `Typestate` |
| Wharf sessions | `pons-protocols/src/wharf.rs` | sessions, nonces | one per event kind | `Wharf` |
| framing | `pons-protocols/src/stream.rs` | pending bytes, failed flag | push, finish | `Frames` |
| prepared statements | `pons-protocols/src/policy.rs` | summaries, bound names | prepare, bind, execute, decide | `Prepared` |

They interact by plain calls. `run_scan` builds an engine from rules and
configuration; `Engine::scan` calls `discover`, then reads, parses and analyses
each file; the T1 rules call the queries of `dataflow.rs` on the graphs of
`cfg/`; what they raise is located, numbered, matched with comments and allowances,
sorted; `run_scan` then gates and prints; `validate-report` reads what was
printed. The file system is the state they share with the rest of the world. The
protocol crate shares nothing with the scanner but the command line.

What makes each part correct:

* solver: at the end the facts are the least solution; on paths that means a fact
  holds exactly when some path makes it hold; a reported dead store is never read
  in any execution; a read reached unbound is reported; and the loop ends;
* builder and rules: the reports computed on its graph fit every run of the
  function, what runs is reachable in it and not called unreachable by a
  structural rule, and building ends;
* PHP adapter: a function has no verdict at all, or the flows of its paths and no
  others: what is not understood or over budget is unknown, never clean;
* discovery, engine, gate: nothing that stood throughout the scan goes
  unmentioned; "complete-within-policy" is only said of a complete analysis; a
  gate that passes has seen all of each required language; the report passes the
  tool's own validator; the scan ends;
* findings to reports: nothing raised is lost or shown twice; a fingerprint
  survives moved sources; every format leads its reader to the exit code that was
  given, and to the place that was meant; the validator accepts what the tool
  prints and refuses a report edited into another;
* traces: an instance or session is judged by its own events only, and is where
  they brought it; a clean verdict means what the contract says;
* framing: the frames do not depend on how the stream was cut;
* prepared statements: a decision is about the summary that was bound.

## Modules and how they correspond to the code

**FunctionCfg, GenKill, Dataflow.** A function's graph has blocks 0..N-1 (ENTRY
0, EXIT 1) of events on locals: Use, Def, WeakDef, Kill. `Problem` selects
liveness (backward) or may-unbound (forward). `LocalSet` is a set. One `Solve`
step is one iteration of the worklist loop: pop, meet, transfer, and push what
must be looked at again, in any order (the code's order is that of a Vec). The
transfer of a block is in closed form, the last deciding event wins;
`ReplayAgrees` compares it with the event-by-event loop. `DeadStores` and
`UnboundReads` are the two queries, with their opposite ways of combining the
copies of one location.

**LeastSolution** is the abstract solver: it answers once, with the least
solution. `Dataflow` implements it, with `answer` mapped to the facts once the
worklist is empty. **PathSemantics** says what the solution means on paths.
**Execution** composes the solver with a run of the analysed function: the
program counter walks the graph, `origin` remembers which event stored each
value. It is what the reports are about.

**Syntax, Builder.** A function is a table of statements; bodies are sequences of
keys. A statement's own expressions are the sequence of reads, stores, deletes
and captures the builder meets in them: what `expr`, `comprehension`,
`bind_target`, `assignment`, `augmented` and `nested_def` make of a syntax tree is
abstracted to its result, names that are not locals left out. The builder
recurses over the tree; in the module its call stack is the variable `todo`, and
an action is the code of a method between two of its calls of `block()`: `While`
is `while_` up to the body, `EndLoop` the rest. `Jump`, `RunFinally`, `Restore` and
`LandIn` are `jump()`, with its copies of finally bodies.

**Python** is external: how the interpreter runs the same table, with an exception
possible wherever an expression is evaluated, conditions and iterators that go
either way, and context managers that may swallow an exception. It is what the
builder's graphs are judged against. **Lowering** composes the two: it builds the
graph (`Build`), solves both problems on it (from the equations: that the worklist
finds that solution is what `Dataflow` is about), asks the two queries, and then
runs the function with only the reports in hand.

**PythonRules** has the pass by which read-before-init drops reads under a repeated guard
`X is [not] None`; an `if` has a field for its guard's text, and a statement one for
how it rebinds X, if it does (`assign`, the spelling the pass looks for, or `other`).
Whether X is None is a variable of `Python`. It has also the rules
unreachable-after-jump and while-true-no-break, on the same table of statements.

**PhpSolver, PhpBuilder, PhpFlow, PhpPaths.** `PhpFlow` is `analyse`: `Survey` walks
the file, `Lower` builds a function's graph, `Step` is one iteration of `solve`,
`Report` evaluates the sinks, and the three `GiveUp` actions are the ways to end
without a verdict. `PhpBuilder` is the recursive lowering, backwards as in the
code, each block knowing what follows it; a state of names to facts keeps which
names it has met, as the budget counts them. An expression is what it evaluates
to: the sources and the copied locals, each with the contexts not cleared.
`PhpPaths` is the promise, on the syntax alone: sets of environments walked along
every path. `SolverSpec` is the solver by itself, given any well-formed graphs;
that `PhpFlow` implements it (`SolverIsGivenGraphs`, checked) is what makes the
theorems about the solver speak of the adapter.

**Wharf.** One action per event kind of `wharf::check`, granted or denied, plus
malformed events and the end of the trace. The conjunction of an event's booleans
and blank tests is one boolean. `log` and `credential` are history.

**Contract, ProtocolTrace, Typestate.** `Valid` is `Protocol::validate` without the
checks of what the model leaves out: that id, channel, description and messages are not
blank, and that an operation's kind is `emit`. A trace
is read event by event: `Check` does what the loop body does (operations judged
before the transition, `entered_at`, `moved`, strict denials), `Malformed` is
each early error, `End` the exit check. The contract is chosen from `Protocols`,
invalid ones included. `Typestate` is the promise about one instance alone;
`ProtocolTrace` implements it for any one instance (`Watched`), whatever the
others do.

**Frames.** `push` is one step per byte, so that its local `frames` and the
failed state are visible; `Bail` drops what the failing call had cut off, as the
code does. **Prepared.** `bind` and `prepare` are actions, `execute` (which
changes nothing) an operator evaluated in every state.

**Discovery, Scan.** The tree is a set of paths, each absent, a file, a directory,
a directory that cannot be opened, or a symbolic link; `Change` lets someone else
replace a node at any moment. Both walks reach entries in any order below the
directories they have opened, each at a moment of its own: the walker of crate
`ignore` is external and modelled from its use. Reading a file ends in any of the
code's outcomes. `Gate` is `run_scan` from the required languages to the exit
code; `AnalysedEntries` to `FindingsInInput` are the checks of `validate_value`.

**Verdict, Location, Suppression.** The tables of `verdict.rs` with the matrix they
publish. A file as a sequence of pieces of every width in bytes and in UTF-16, a
stray byte making it Latin-1; a location in bytes, lines and columns. Which
allowance or comment silences a finding at which time: a glob is the set of paths
it matches, a path a sequence of names, and a name the sequence of what its backslashes
separate. The system is Unix, where a backslash is a character like any other and
`lib\x.py` one file: an inventory and SARIF keep it, while allowances, records,
fingerprints and the validator read slashes for it (`Slashed`, for
`replace('\\', "/")`), so that the file shares a path with `lib/x.py`. Files are shown by
paths of their own; `scan_names` is about those that are not.

**Collect** is `Engine::scan_files` behind the parser: files in any order of the walk,
each rule's nodes located, numbered and anchored, judged one by one while the
clock runs, then sorted and deduplicated. What a file holds and what its rules
raise is chosen with the job in `Init`: rules are functions of the text, and their
order (by id, not by registration) is the code's. A rule may raise nodes
of one extent only as copies (a finally body is in the graph more than once), with
no other node of the same start between them (`RawsFit`): the code's `dedup_by`
relies on it.

**Lists** has what `Vec` does to findings and entries: `retain`, `dedup_by`, a stable
sort and counting, each said of positions, so that it can be reasoned about.

**Envelope, Formats** are the three formats as functions of a finished scan, and
`Valid` is `validate_value`. A key is a record field, present or not; a hash is the
tuple it is taken of, so that two hashes agree only if all of it does. Left out:
messages, how a URI escapes characters (a backslash is `%5C`), the tool, the commit, the lists of languages and of
transcoded files. **Report** composes them: `Conclude` gates and prints, `Rescan` scans
the sources again after they were moved and a blank line was put in, `Edit` changes
a printed report before it is validated. A JSON text is the document it encodes.

## Runs

| run | what is explored | what it shows |
|---|---|---|
| `execution_liveness` | every graph of 4 blocks, 3 events on a local, backward; then every execution | no change is lost, facts exact on paths, replay agrees, facts only grow, the loop ends, it implements the least-solution solver; facts cover the run and no execution reads a reported dead store |
| `execution_unbound` | the same, with parameters or not, forward | every read reached unbound is reported; facts exact on paths, dead code contributes nothing |
| `lowering` | 1,880 functions of up to 10 statements from seven skeletons, every way Python may run them | reported stores are never read, failing reads are reported, what runs is reachable and not reported by the structural rules |
| `lowering_reads` | a handler with an alias, left by its end, break or continue; four functions with repeated guards | violated: see below |
| `lowering_withs` | three functions with a with | violated: see below |
| `wharf` | 2 sessions, 2 nonces, 2 artifacts, times 0..2 | earned states, one artifact, one nonce, clean traces finish, expiry is final |
| `protocol_models` | 2 instances and a blank one, 5 contracts (3 invalid), 4 events; every bit stream of up to 9 bits, cut anywhere; 2 names, 2 tables, summaries of up to 2 statements | verdict fits the trace, violations point at their cause, instances are independent; same frames, finish only on whole streams, failure only on oversize; decisions are about the bound summary and sound |
| `php` | 1,179 files of one to three functions, three leaves in each of three skeletons | no change is lost, the solver is given well-formed graphs one at a time, a function has no verdict or exactly the flows of its paths |
| `scan_racing` | 7 paths in every shape, one change at any moment or none | nothing unseen, complete means all, the gate saw the required, accounting agrees; each path named once if nothing changed; the scan ends |
| `scan_names` | two names shown alike | violated: see below |
| `report` | two files with characters of every width, one of them Latin-1, three rules, 32 combinations of options, allowances and failures; files whose names have backslashes; any walk and any moment of expiry; one rescan; up to two edits | the report is valid, unless backslashes in names make two findings one or lead out of the root; edits are refused, nothing is lost, fingerprints survive, the exit code follows from each format, SARIF places findings |
| `report_single_file` | one file scanned by its name | violated: see below |

The three models of `pons-protocols` share nothing, so one run has the behaviours of
each (variable `model`); their states add up instead of multiplying.

Bounds. Four blocks give ENTRY, EXIT and two blocks of code: loops, self-loops,
branches, unreachable code feeding live code, blocks that never reach EXIT. Two
events in one block and one in another are enough for a kill after a gen, a weak
definition between two others, and copies of one location in two blocks; the
theorems do not need the bound. Two sessions (instances, names) are enough
because an event touches one entry and compares it with at most one other;
times 0..2 give before, at and after an expiry. Budget 4 lets an instance leave
its initial state, come back and be followed by the other's events; it also
stands for the 100,000-event budget. A base of 2 with two-byte lengths and limit
2 has lengths 0, 1, 2 and an oversized 3. Seven paths hold one of each: source,
nested source, configuration file, hidden source, build directory; one change
separates any two moments at which the scan looks at a node. The skeletons of
`MCLowering` are a try in a loop, two nested finally bodies in a loop, if/elif/else
followed by match, a loop with else, a with holding a try, a loop in a loop, and
three guards on one name, the second in a loop; their leaves store,
read, delete, augment, call, return, break, continue and raise. Two levels of
nesting are what a jump needs to pass one frame and land in another, and one local
is enough since events on different locals do not interact. The name guarded is not a local
of the function, and changes by plain assignments behind the first guard only: the
other ways are in `lowering_reads`, where the property fails. Skeletons in which a
with can run twice, or holds a del, are left to `lowering_withs`, where the property
fails. The PHP functions are a loop with a branch that may leave it, a chain of
elseifs with dead code after a jump, and nested loops, over two locals (a third
exceeds the budget of names), two source lines, two contexts (one that escaping
clears, one that it does not); `MaxBlocks` 11 and `MaxTransfers` 21 let most
functions through and stop some. The files of `MCReport` hold two nodes that are one
snippet once blanks are folded, a node raised twice, two nodes that differ in their
end only, a guess, and a comment that expires at time 1; `MaxClock` 1 gives before
and after. Names with backslashes are one that another file shares in slashes, with the
same snippet, with another and with an allowance, one scanned by itself, and two that
lead out of the root (`..\x.py`, `\x.py`). Two edits are enough to change a derived value together with what
it is checked against. TLA+ names of bounds: `N` (blocks), `MaxTime`, `MaxLine`, `Budget`, `MaxReceived`, `MaxStatements`,
`MaxChanges`, `MaxClock`, `maxEdits` (of a job), `MaxBlocks`, `MaxTransfers`, `MaxNames`
(these three are the code's own budgets, small).

Deadlock checking is off where the program ends (a solved worklist, an exited
scan, a finished trace, a stream at its bound).

Fairness. `FairRunSpec` of `Execution` (for the solver's step only) and `FairSpec` of `Scan` assume weak fairness of the
program's own steps: one thread that is never blocked goes on. Nothing is assumed
of the environment; it makes a bounded number of changes. No fairness is assumed
elsewhere.

## Proofs

For every value of the constants that satisfies the named assumptions:

* **DataflowProofs.** The inductive invariant is types, `QueueMatchesFlags` (the
  flags tell exactly what the queue holds, once), `SettledOffQueue` (a block off
  the queue satisfies its equations) and `BelowEquations`. `SettledOffQueue`
  alone is not inductive: an iteration changes the fact a block sends, and its
  neighbours stay settled only because the flags say they were queued or are
  queued now. `BelowEquations` with monotone transfers gives `OnlyGrows`, and
  with any solution above it, minimality. `Refinement` is the safety part of
  `ImplementsLeastSolution`: every step maps to a stutter or to the one answer.
  For `Execution`, with the solved facts as a given, `FactsCoverTheRun` is
  inductive over the run's steps: where the run is, the fact at that point covers
  its state. `DeadStoresSound` and `UnboundReadsComplete` follow. They hold of any
  graph, so of those the builder makes, whatever their shape.
  That the facts are the loop over a block's events (`ReplayCorrect`) is
  an induction over the block, from the lemma that one event more moves the closed
  form by `TransferEvent` (`HereStep`). That they are exactly what the paths give
  (`ExactCorrect`) has two halves. What a path brings is in the facts, by induction
  over its edges: each edge is an inequality of the equations, which hold once the
  queue is empty. What is in the facts some path brings: the sets of the paths
  are themselves above their equations, and `BelowEverySolution` puts the solver's
  facts below every such family. `PathSemantics` follows as many edges as there are
  blocks (and bits); that no path brings more is `Saturation` of module Induction.
* **ProtocolProofs.** For prepared statements: a bound name's summary is the one its bind
  accepted. For frames: `Unfinished` (between two bytes the buffer is a proper part of
  one frame within the limit) is what makes the bound on the buffer inductive, and
  `StreamInv` adds `ParsedSoFar` (what was handed out, followed by what the current call has cut
  off, is what one parser cuts from all bytes received, and the buffer is the rest) and
  `FailedAtOversize`. The three properties of framing follow for streams of any length
  in any cuts. For traces: `ProtocolTrace` implements `Typestate` for any one instance of
  any trace under any contracts (`IndependenceCorrect`): another instance's event is a
  stutter, an own event the same step, an end the same end. The step needs
  `LinesAreNumbered`, as an instance without events is told from one with events by
  line 0. `TraceInv` ties each entry to the instance's history of states (a recursive
  function of the log: one more event extends it, `HistoryIn`) and each violation to the
  event that caused it; a clean verdict and the blamed lines follow from it
  (`VerdictCorrect`, `CausesCorrect`).
* **WharfProofs.** The invariant ties each session's state, artifact, expiry and
  nonce to its log. `CleanTracesFinish` needs an invariant of its own, `Reported`: a trace
  with events and no violation has granted something, and one that has ended blames
  every session that is not finished.
* **ScanProofs.** The invariant is types, `Accounting` (each file is pending, read or
  failed, counted and entered once, in every phase) and `Sight` (what stood since the
  start and was within reach of a walk that is over is among what that walk found).
  From it, for any tree, languages, options and changes: the printed report passes
  the validator's accounting, nothing that stood is unseen, `complete-within-policy`
  is true, and a gate that passes saw the required languages. A walk finds what
  stands because a directory that stands was opened, for every one above it: the
  induction along the tree is the assumption `TreeAssumption`, that a set of paths
  closed under parents contains the root. `NamesCorrect` has a hypothesis: paths are
  shown by names of their own (where they are not, `scan_names` shows what happens). Its
  invariant `Alone` says, of a tree nobody changed, that at each phase no path is in the
  inventory and still to come, so that an entry added is the only one of its path.
* **PhpSolverProofs.** For any well-formed graphs, names and budgets:
  `ToldItsSuccessors` is inductive with the types, as `SettledOffQueue` is above, and
  `NothingInvented` (whatever solves the equations of the reached blocks is above the
  solver's states) with them. So an empty queue means the least solution
  (`LeastSolutionFound`), whatever the graph; the queue is first in, first out, as in
  the code. `SolverIsGivenGraphs` of run `php`
  is the link to the adapter.
* **ReportProofs.** Collect's operators read the job; here they are stated of a job, so that
  a rescan can be spoken of. What a rule raises in a file is named by path, rule and
  number, and `Chronicle` numbers all of it: the judged first, in the order they were judged, then
  those to be judged. `Inv` has that with `Inventoried` (an entry per file opened), `Sifted`
  (the kept are the findings, the others are counted) and `Anchored` (an anchor's
  ordinal is below the count of its snippet, so a new one is new). `InOrder`, of the
  findings before they are sorted, is there for `Tidy`, of those after: a stable sort keeps
  the order of a rule's findings, so copies of one extent end up next to each other
  and `Dedup` removes all but one (`NeighboursTell`). That is where `RawsFit` is needed.
  A printed report then loses nothing; each format's test for a failing finding is
  the gate's, by a table of classes and severities (`Readings`); and the validator's
  checks hold one by one. The deep one is that fingerprints are distinct
  (`OneFingerprint`): equal ones give equal paths, so one file, so one anchor,
  so one span, so copies. That equal paths are of one file is `PathsTell`, which
  backslashes can make false; the validator accepts exactly the reports in which it
  holds (`ValidTells` is the other direction), and it holds when no name has a backslash
  (`PlainPathsTell`: what is below the root is then read back from its form in slashes).
  For `EditsAreRefused`, `DocumentInv` says that a document, edited
  or not, keeps its shape (`Shaped`: its keys, and sequences of findings and records
  with theirs); a document of that shape is determined by what the validator compares and
  the property does, so one it accepts is one that could be printed.
* **FingerprintProofs.** `Account` is what a job's rules raise with all places taken out:
  each with the rank of its file, its rule, its number among theirs, its path below
  the root and its folded snippet, and which come before which or are copies. The moved
  job gives the same account (`AccountStays`): the text of the file with the blank line, decoded
  from UTF-8 or Latin-1, is the old one with a newline more at the end of a line
  (`DecodeGains`), so a snippet that spans it folds to the same (`SnippetStays`), what lies
  behind keeps its order, and paths below a root that moves along stay. And the account,
  with the marks of what was hidden, determines the fingerprints of a printed report
  (`PrintedIsExpected`), whatever the order of the walk. That needs two more invariants
  of the scan (`PrintsInv`): an occurrence's count is the number of the kept findings of
  its file and rule with its snippet, and an anchor's ordinal is how many of these were
  judged before the last copy of its span (`CountedSnippets`, `NumberedAnchors`). A finding's fingerprint
  is thus said of the set of its copies, and the report's order is an order of those sets
  (`ListOrderIs`), as copies are told apart by nothing else (`RawsFit`).
  The module's second theorem is `SarifShowsTheFindingsCorrect`. A line starts after
  the last newline before a boundary (`LineStartIs`), boundaries of one line and no others
  have its row, and in a line UTF-16 columns grow with each character; the bytes
  `from_node` slices lead back to the boundaries they were counted from (`ColumnIs`). So what
  SARIF says, read by an editor, is one boundary (`PlacesRead`). Its URI is what is below
  the root, backslashes and all, so it leads from there to the file (`UriIs`). A rule's descriptor
  takes its class from the first finding, which is that of all of them because a rule has one
  tier: an assumption of the jobs (`TiersAssumption`) that every rescan keeps (`TiersInv`).
* **Induction.** Induction and recursion over the natural numbers, stated of sets and of
  functions: a least element, what holds up to n, that a recursive function
  exists and satisfies its equation (`Iteration`), and that a growing set is complete
  after as many steps as it can have elements (`Saturation`).

The type invariants of the solver, Wharf, prepared statements, the scan, traces, frames
and the PHP solver are proved, so no run repeats them. The assumptions are the `ASSUME`s
of the modules: sizes are natural numbers, the tree is a tree, constants are of their
type, a contract's operations are a sequence (`ProtocolsAssumption`), rules have ids
of their own (`RegistryAssumption`), files have paths and ranks of their own below the
root and what rules raise in them fits (`JobsAssumption`), options are of their kinds
(`OptionsAssumption`), all that one rule raises is of one tier (`TiersAssumption`: each
rule in the code names one `Tier`). `CfgsAssumption` (graphs are well formed) is not proved of `Builder`.

Only model-checked: `Terminates`, `Finishes` and the liveness half of
`ImplementsLeastSolution` (fairness is out of the prover's reach); everything in
`Lowering`, whose graphs and runs are tied together by the syntax of a function; and
the lowering of PHP with `VerdictsFitThePaths`, which are RECURSIVE operators over
syntax, that the prover cannot expand. Every property of run `report` is proved.

## What the checks found

`lowering_reads`, the aliases: the deletion of an except clause's alias is emitted where the
handler falls off its end, and nowhere else. After

    x = 1
    while c():
        try: f()
        except E as x: break
    print(x)

`x` is unbound when the loop was left by the break, `print(x)` raises, and
read-before-init says nothing. `ReadsThatFailAreReported` therefore excepts the
aliases of handlers left by a jump or an exception (history variable `abandoned`).

`lowering_reads`, the guards: read-before-init drops a read under `if b is not None` when
an earlier guard of the same text assigned the name, unless b is assigned in
between (read_before_init.rs:52-55). "In between" is looked for in the order of the
source, from the end of the whole first `if`, and only in the spelling `b = ..`. Each of
these raises at its second guard and nothing is reported:

    if b is not None: x = 1      if b is None: x = 1      if b is not None: x = 1
    else: b = 1                  while c:                 b, y = f()
    if b is not None: print(x)       if b is None:        if b is not None: print(x)
                                         print(x)
    while c:                             b = None
        if b is None: x = 1
    if b is None: print(x)

In the last one the loop did not run, so neither did the first guard. Each violates
the property alone, as a run with `Programs` set to it shows. A `del` of the name
between the guards, and a first guard interrupted inside a try, hide reads too.

`lowering_withs`: a definition in a with body is weakened only if the builder has
already *visited* another one, and deletions never are. Each of these gets a dead
store that is read (the store marked):

    x = 1  # reported             while c():                    x = 0
    with s():                         with s():                 while c():
        f(); del x                        f(); x = 1                print(x)
    print(x)                          print(x)                      try:
                                      x = 2  # reported                 with s(): continue
                                                                    finally: x = 1  # reported

In the first two `s` swallows an exception of `f`. In the third the copy of the
finally that is built for the `continue` is visited as part of the with body; its
store becomes a weak definition, which the query for dead stores does not count as
a copy, and the other copies are dead.

`scan_names`: an inventory entry's path is `path.display()`, which is not
injective. Two files whose names differ only in bytes that are not UTF-8 are
listed under one path, and `validate-report` refuses the report that `scan`
printed ("invalid/duplicate inventory path").

`report_single_file`: an allowance is matched with a finding's path as reported and
below the scan root (config.rs:137-138). The root of a scan of one file is that file,
below which nothing is left: the allowance of `main.py` in `app/pons.toml` hides a
finding of `pons scan app/` and not of `pons scan app/main.py`, though the record of the
second has the path `main.py` (evidence.rs takes the file's directory instead).

Also seen while modelling, and not stated as properties because nothing in the
repository promises otherwise: a file that turns into an unreadable directory
between the two walks is listed twice; `Frames::push` loses frames that were
complete before an oversized header in the same chunk and returns them when it
comes in a later one; a closed pipe turns any exit code into 0 (main.rs:466, `EmitFails`
of `Scan`); duplicate findings are removed only when neighbours in a sort key that
leaves the end of a finding out, which no rule's findings run into; the validator
does not look at a record's confidence, group, producer and fingerprint's content,
nor at whether an exit code is 0 or 1 (`EditsAreRefused` compares the rest).
`EVIDENCE-CONTRACT.adoc` says that added blank lines preserve fingerprints. An
occurrence's ordinal counts the findings that are not silenced, so a blank line
between an allowing comment and its finding, or an allowance that expires, also
renames the later finding of the same snippet: `FingerprintsSurvive` assumes that the
same findings are hidden.

The run `report` shows one that contradicts a doc. `evidence::relative_path` turns
backslashes into slashes on every system (evidence.rs:24), and a fingerprint is taken of
rule, path and anchor. On Unix, where `lib\x.py` may lie beside `lib/x.py`, the same
snippet of one rule in both gets one fingerprint, though a fingerprint "identifies one
finding" (EVIDENCE-CONTRACT.adoc:86-87), and `validate-report` refuses the report that
`scan` printed ("duplicate producer fingerprint"). It also refuses a finding of `..\x.py`
or `\x.py` as not inside the scan root. `ReportIsValid` says exactly when this happens,
and that nothing else is refused. An allowance of `lib/x.py` silences both files.

One more contradicts a comment and has no run of its own: of the arguments of a call of a
PHP sink, `stmt` lowers only the one that matters (php.rs:300-304), so an
assignment or an unknown call in another does not make the function opaque, as
"Unsupported side effects make a whole function opaque, never clean" (php.rs:3)
says. After `header($a, $b = $_GET['q']); echo $b;` the function is clean. `Stmt` of
`PhpBuilder` does the same; the calls of `MCPhp` have no such argument. Its sibling:
of a `throw` nothing is lowered (php.rs:313), so neither an assignment nor a sink in what
is thrown makes the function opaque. `Understood` of `PhpPaths` exempts these arguments,
and no run has one.

## Not modelled, and the plan

Left out for good: the parser (external); the other T0 rules (constant conditions,
self-assignments, divisions by a literal zero, empty loops, swallowed errors,
concatenation in a loop) and the PHP rules on names and includes, each of which
matches one shape of syntax, keeps no state and claims nothing about a run; the
registry, a list; `catalogue`, `man` and `doctor`, which print; `grammar_probe`, a test;
scans with a forced language, which skip discovery; the walk of one expression and
of bindings, abstracted to its result; panics.

Left:

1. **Proofs about Builder**: its graphs are well formed for every function (edges
   in range, ENTRY never a target, EXIT final), which is the assumption
   `CfgsAssumption` of `Dataflow`, so that the theorems of `DataflowProofs`
   speak of what the builder makes.
2. **Scopes**: which names are local, and the reasons a function is opaque.
