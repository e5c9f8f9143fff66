------------------------- MODULE MCAgentIntegration -------------------------
EXTENDS AgentIntegration, TLC
CONSTANTS p1, p2
Symmetry == Permutations(Procs)
Both == <<"codex", "claude">>
One == <<"codex">>
\* A user's text alone, around an outdated block, a current block, half a block.
Few == "codex" :> {NoFile, <<"a", "n">>, <<"a", "n", "n", "S", "a", "E", "n", "a">>,
                   <<"S", "b", "E", "n">>, <<"a", "S">>} @@ "claude" :> {<<"a">>}
\* Every text of up to three tokens, and none.
Short == "codex" :> UNION {[1 .. n -> {"a", "n", "S", "E"}] : n \in 0 .. 3} \cup {NoFile}
=============================================================================
