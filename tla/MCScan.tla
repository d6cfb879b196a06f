------------------------------- MODULE MCScan -------------------------------
(***************************************************************************)
(* A root directory with a source file, a directory holding another, a     *)
(* configuration file, a source file the ignore policy hides and a build   *)
(* directory.                                                              *)
(***************************************************************************)
EXTENDS Scan

MCPath == {"root", "main.py", "lib", "lib/util.py", "app.toml", "gen.py", "target"}
MCParent == [p \in MCPath |-> IF p = "lib/util.py" THEN "lib" ELSE "root"]
MCDisplay == [p \in MCPath |-> p]
MCLanguage == [p \in MCPath |->
  CASE p \in {"main.py", "lib/util.py", "gen.py"} -> "native"
    [] p = "app.toml" -> "recognised"
    [] OTHER -> "out-of-scope"]
MCOptions == {[failOnSkips |-> s, failOn |-> TRUE, required |-> r] :
                s \in BOOLEAN, r \in {{}, {"native"}}}

\* What may be found where, and may be put there while the scan runs.
MCKinds == [p \in MCPath |->
  CASE p = "root"        -> {"dir", "file", "locked"}
    [] p = "main.py"     -> {"file", "symlink", "locked", "absent"}
    [] p = "lib"         -> {"dir", "locked", "file"}
    [] p = "lib/util.py" -> {"file", "absent"}
    [] p = "app.toml"    -> {"file", "absent"}
    [] p = "gen.py"      -> {"file", "absent"}
    [] p = "target"      -> {"dir"}]

\* Two names that are not UTF-8 are shown alike.
LossyPath == {"root", "main\\xfe.py", "main\\xff.py"}
LossyParent == [p \in LossyPath |-> "root"]
LossyDisplay == [p \in LossyPath |-> IF p = "root" THEN p ELSE "main?.py"]
LossyLanguage == [p \in LossyPath |-> IF p = "root" THEN "out-of-scope" ELSE "native"]
LossyKinds == [p \in LossyPath |-> IF p = "root" THEN {"dir"} ELSE {"file"}]
=============================================================================
