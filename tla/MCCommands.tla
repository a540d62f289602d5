----------------------------- MODULE MCCommands -----------------------------
(***************************************************************************)
(* The commands, with two items, one replicate, and one alternative to     *)
(* everything that can be edited.                                          *)
(***************************************************************************)
EXTENDS Commands, TLC

CONSTANTS p1, p2, a, b, x, y, m1, m2, golden, emails

MCProcs == {p1, p2}
MCLabels == {a, b}

\* The text of the first item is edited.
Before == <<x, x>>
After  == <<y, x>>
MCContents == {Before, After}
MCContentVersion == Before :> 11 @@ After :> 12

Models(m) == a :> m @@ b :> m1 @@ "judge" :> m1

\* The candidate is swapped without a change of version.
Config(m) == [models |-> Models(m), k |-> 1, kBaseline |-> 1, version |-> 1]
MCConfigs == {Config(m1), Config(m2)}

\* The prompt is reworded, with its version, or the rubric is edited.
Build(prompt, rubric) == [prompt |-> prompt, rubric |-> rubric]
MCBuilds == {Build(1, 1), Build(2, 1), Build(1, 2)}

MCAtFirst == [config |-> Config(m1), content |-> Before, build |-> Build(1, 1)]

MCKeySets == {Roles, Roles \ {b}}

Command(name, labels, path, keep) ==
    [name |-> name, labels |-> labels, path |-> path, keep |-> keep]

MCInvocable ==
    {Command("run", <<a>>, None, FALSE),
     Command("run", <<a>>, golden, FALSE),
     Command("compare", <<a, b>>, None, FALSE),
     Command("gate", <<a, b>>, None, TRUE),
     Command("update", <<a, b>>, None, FALSE),
     Command("calibrate", <<a, b>>, emails, FALSE)}

Symmetry == Permutations(MCProcs)
=============================================================================
