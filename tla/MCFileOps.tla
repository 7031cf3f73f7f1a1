----------------------------- MODULE MCFileOps -----------------------------
(* FileOps for TLC: two names in one node, and one in another node.        *)
EXTENDS FileOps

Near == {<<"n1", "a">>, <<"n1", "b">>}

Far == Near \cup {<<"n2", "a">>}

OneEach == {<<"n1", "a">>, <<"n2", "a">>}
=============================================================================
