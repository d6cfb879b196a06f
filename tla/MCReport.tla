------------------------------ MODULE MCReport ------------------------------
(***************************************************************************)
(* Two Python files in a directory, or one of them scanned by its name,    *)
(* with a file that cannot be read and one without an adapter.  main.py    *)
(* has a comment that allows rule 1 on the line below, until time 1, and   *)
(* characters of every width; old.py is Latin-1.  And short files whose    *)
(* names have backslashes: lib\x.py beside lib/x.py, ..\x.py, \x.py.       *)
(***************************************************************************)
EXTENDS Report

\* Rule 3 runs first: ids and the order of the rules differ.
MCRegistry == <<[id |-> 3, languages |-> {"python"}], [id |-> 1, languages |-> {"python", "rust"}],
                [id |-> 2, languages |-> {"python"}]>>

Node(from, to, tier, severity, note) ==
  [from |-> from, to |-> to, tier |-> tier, severity |-> severity,
   evidence_note |-> note, counter_condition |-> IF tier = "T3" THEN {"hint"} ELSE {}]

\* A path without backslashes.
Plain(names) == [k \in DOMAIN names |-> <<names[k]>>]

Quiet == [r \in 1..3 |-> <<>>]

\* #NL high x SP y NL astral ; x SP SP y NL high: the two nodes of rule 1 are
\* one snippet when folded; the copies of a finally body are reported twice.
Main ==
  [path |-> Plain(<<"app", "main.py">>), rank |-> 2, language |-> "python", outcome |-> "analysed",
   artifact |-> <<"#", Newline, "high", "x", " ", "y", Newline,
                  "astral", ";", "x", " ", " ", "y", Newline, "high">>,
   unknowns |-> <<>>, caveats |-> <<>>,
   comments |-> {[at |-> 0, rules |-> {1}, documented |-> TRUE, expires |-> 1]},
   raws |-> [Quiet EXCEPT
     ![1] = <<Node(9, 13, "T0", "WARN", "late"), Node(3, 6, "T0", "WARN", "early"),
              Node(3, 4, "T0", "WARN", "inner")>>,
     ![2] = <<Node(9, 10, "T1", "ERROR", "copied"), Node(5, 10, "T1", "ERROR", "wide"),
              Node(9, 10, "T1", "ERROR", "copied")>>,
     ![3] = <<Node(7, 8, "T3", "ERROR", "guess"), Node(8, 9, "T3", "INFO", "hunch")>>]]

\* high NL stray x SP y NL x SP y
Old ==
  [path |-> Plain(<<"app", "lib", "old.py">>), rank |-> 1, language |-> "python", outcome |-> "analysed",
   artifact |-> <<"high", Newline, "stray", "x", " ", "y", Newline, "x", " ", "y">>,
   unknowns |-> <<"opaque">>, caveats |-> <<"local only">>,
   comments |-> {}, raws |-> [Quiet EXCEPT ![1] = <<Node(8, 11, "T0", "INFO", "old")>>]]

Lost    == [Main EXCEPT !.path = Plain(<<"app", "z.py">>), !.rank = 4, !.outcome = "unreadable", !.raws = Quiet]
Foreign == [Main EXCEPT !.path = Plain(<<"app", "t.toml">>), !.rank = 3, !.language = "toml",
                        !.outcome = "excluded-by-policy", !.raws = Quiet]

Allowance(rule, path, expires) ==
  [rule |-> rule, glob |-> {path}, documented |-> TRUE, expires |-> expires]
Allowing(S) == [broad |-> FALSE, allow |-> S]

Job(root, files, config) ==
  [root |-> root, base |-> <<<<"app">>>>, elsewhere |-> Plain(<<"", "src", "new">>), files |-> files,
   config |-> config, select |-> {}, noSpeculative |-> FALSE, failOn |-> {},
   failOnSkips |-> FALSE, required |-> {}, maxEdits |-> 0]

Tree(files) == Job(<<<<"app">>>>, files, Allowing({}))

\* A file of one line, which rule 1 finds.
Short(names, rank, char) ==
  [Main EXCEPT !.path = <<<<"app">>>> \o names, !.rank = rank, !.artifact = <<char, " ", char>>,
               !.comments = {}, !.raws = [Quiet EXCEPT ![1] = <<Node(0, 3, "T0", "WARN", "short")>>]]

Odd == Short(<<<<"lib", "x.py">>>>, 2, "x")      \* lib\x.py
Even(char) == Short(<<<<"lib">>, <<"x.py">>>>, 1, char)  \* lib/x.py

Backslashed ==
  {Tree({Odd, Even("x")}), Tree({Odd, Even("y")}), Job(Odd.path, {Odd}, Allowing({})),
   Job(<<<<"app">>>>, {Odd, Even("x")}, Allowing({Allowance(1, <<"lib", "x.py">>, 1)})),
   Tree({Short(<<<<"..", "x.py">>>>, 1, "x"), Main}), Tree({Short(<<<<"", "x.py">>>>, 1, "x")})}

MCJobs ==
  {[Tree({Main, Old}) EXCEPT !.noSpeculative = n, !.failOn = t, !.required = r] :
     n \in BOOLEAN, t \in {{}, {"INFO"}, {"WARN"}, {"ERROR"}}, r \in {{}, {"python"}}}
  \cup {[Tree({Main, Lost, Foreign}) EXCEPT !.failOnSkips = s, !.failOn = {"ERROR"}, !.select = r] :
          s \in BOOLEAN, r \in {{}, {3}, {1, 3}}}
  \cup {[Tree({Main, Foreign}) EXCEPT !.maxEdits = 2], [Tree({Main, Old}) EXCEPT !.maxEdits = 1]}
  \cup {Tree({Lost}), Tree({Foreign}),
        Job(Main.path, {Main}, Allowing({})), Tree({Main})}
  \cup {Job(<<<<"app">>>>, {Main, Old}, Allowing(S)) :
          S \in {{Allowance(2, <<"main.py">>, 1)}, {Allowance(1, <<"app", "lib", "old.py">>, 9)},
                 {Allowance(7, <<"main.py">>, 9)}}}
  \cup {Job(<<<<"app">>>>, {Main}, [Allowing({}) EXCEPT !.broad = TRUE])}
  \cup Backslashed

\* pons scan app/main.py, with an allowance of app/pons.toml.
SingleFile == {Job(Main.path, {Main}, Allowing({Allowance(2, <<"main.py">>, 9)}))}
=============================================================================
