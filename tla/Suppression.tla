----------------------------- MODULE Suppression ----------------------------
(***************************************************************************)
(* What silences a finding: the allowances of pons.toml (config.rs) and    *)
(* the comments next to it (suppress.rs).  A glob is the set of the paths  *)
(* it matches.  An allowance's expiry is tested when the configuration is  *)
(* compiled, a comment's whenever a finding is judged.                     *)
(*                                                                         *)
(* A path is a sequence of components, and a component the sequence of     *)
(* what its backslashes separate: on Unix, lib\x.py is the name of one     *)
(* file, <<"lib", "x.py">>.  <<"">> is the root directory.                 *)
(***************************************************************************)
EXTENDS Naturals, Sequences, SequencesExt

\* Path::strip_prefix, on components.
Within(path, base) == IsPrefix(base, path)
Below(path, base)  == IF Within(path, base) THEN SubSeq(path, Len(base) + 1, Len(path)) ELSE path

\* Config::compile refuses a configuration as a whole.
Documented(a, now) == a.documented /\ a.expires > now
Compiles(config, known, now) ==
  /\ ~config.broad
  /\ \A a \in config.allow : Documented(a, now) /\ a.rule \in known

\* replace('\\', "/"): what the slashes of a path separate, when its
\* backslashes are slashes too.
Slashed(path) == FlattenSeq(path)

\* Globs see the path as reported and as it is below the root, with slashes.
Matched(glob, path, root) == Slashed(path) \in glob \/ Slashed(Below(path, root)) \in glob

\* CompiledConfig::suppressed.
Suppressed(config, finding, root) ==
  \E a \in config.allow :
    a.rule = finding.rule_id /\ Matched(a.glob, finding.location.file, root)

Live(comment, now) == comment.documented /\ comment.expires > now

\* inline_allowed: comments carry the line they begin on.
InlineAllowed(comments, finding, now) ==
  \E c \in comments :
    /\ finding.location.line_start \in {c.line, c.line + 1}
    /\ Live(c, now) /\ finding.rule_id \in c.rules
=============================================================================
