------------------------------- MODULE MCTrie -------------------------------
EXTENDS TrieBatch

\* Two nibbles of branching; a key that is a prefix of another one, two keys
\* that part late and one that parts at the root.
MCKeys == {<<1, 1>>, <<1, 1, 2, 1>>, <<1, 2>>}

\* One value for each key and a second one for the first.
MCValues == {<<k, 1>> : k \in MCKeys} \cup {<<<<1, 1>>, 2>>}
=============================================================================
