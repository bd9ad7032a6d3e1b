------------------------------- MODULE MCTrie -------------------------------
\* Two letters with a slot and one character without: all words up to three
\* letters over the former, the tests' shape of words that share stems, and
\* words with a bad character in front, in the middle and at the end.
EXTENDS TrieTraversal

MCWords ==
  UNION {[1 .. k -> 1 .. 2] : k \in 0 .. 3} \cup {<<3>>, <<1, 3>>, <<1, 3, 2>>}
=============================================================================
