---------------------------- MODULE MCTParallel ----------------------------
EXTENDS TParallel

CONSTANTS a, b1, b2, c, root

\* a runs b1 and b2, or b1 alone, both parallel (b2 may call Parallel
\* twice); c is a parallel or a sequential top-level test.
MCTests == {a, b1, b2, c}
MCTop == <<a, c>>

MCParent == [t \in {a, b1, b2, c} |-> IF t \in {b1, b2} THEN a ELSE root]
MCScripts == [t \in {a, b1, b2, c} |->
                CASE t = a -> {<<b1, b2>>, <<b1>>}
                  [] t = b1 -> {<<"par">>}
                  [] t = b2 -> {<<"par">>, <<"par", "par">>}
                  [] t = c -> {<<"par">>, <<>>}]
====
