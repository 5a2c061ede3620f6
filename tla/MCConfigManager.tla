-------------------------- MODULE MCConfigManager ---------------------------
(* Instances of ConfigManager for TLC: two parameters and five texts.     *)
EXTENDS ConfigManager, TLC

Tree(x, y) == ("p" :> x) @@ ("q" :> y)
Text(t, style, size) == [tree |-> t, style |-> style, size |-> size]

MCParams == {"p", "q"}
Good     == Text(Tree("a", "b"), 1, 9)
Spaced   == Text(Tree("a", "b"), 2, 10)
Wide     == Text(Tree("wide", "wide"), 1, 9)
Alien    == Text(Tree("alien", "a"), 1, 9)
Lost     == Text(Tree("lost", "b"), 1, 8)

SafeDocs == {Good, Wide, Lost}
LiveDocs == {Good, Spaced, Alien}
=============================================================================
