-------------------------------- MODULE Trie --------------------------------
(***************************************************************************)
(* util/Trie.java: a dictionary tree changed by addNode and delNode.       *)
(*                                                                         *)
(* A node is named by the letters on the way to it, so the tree is a set   *)
(* of sequences closed under prefixes and the root is <<>>. Characters     *)
(* are numbered from 'a' = 1; one outside 1 .. Size has no slot in         *)
(* childNodes and indexing it throws. Nodes carry no end-of-word mark: the *)
(* words a tree holds are its leaves, as getDFS lists them.                *)
(***************************************************************************)
EXTENDS Integers, Sequences

CONSTANTS
  Size,        (* length of childNodes: 26 in the source                  *)
  Words        (* the arguments the callers pass                          *)

ASSUME TrieAssumption ==
  /\ Size \in Nat
  /\ Words \subseteq Seq(Nat)

VARIABLES
  nodes,       (* the nodes below (and with) the root                     *)
  call         (* the last call: operation, argument and how it ended     *)

vars == <<nodes, call>>

Letters == 1 .. Size

Init ==
  /\ nodes = {<<>>}
  /\ call = [op |-> "new", word |-> <<>>, out |-> "returned"]

-----------------------------------------------------------------------------
(* Words and trees. *)

Stem(w, i) == SubSeq(w, 1, i)

\* b is a or lies below it.
Below(a, b) == Len(a) <= Len(b) /\ Stem(b, Len(a)) = a

\* The non-null slots of a node's childNodes.
Kids(T, n) == {l \in Letters : Append(n, l) \in T}

\* Nodes without children.
Leaves(T) == {n \in T : Kids(T, n) = {}}

\* How many letters of w can be indexed before childNodes[index] throws.
Indexable(w, i) == \A j \in 1 .. i : w[j] \in Letters

-----------------------------------------------------------------------------
\* addNode: creates the nodes of the word that are missing, from the root
\* down; a letter outside the alphabet throws, and what was created stays.
CreatedAll(w) == {Stem(w, i) : i \in 0 .. Len(w)}
CreatedTooFew(w) == {Stem(w, i) : i \in {j \in 0 .. Len(w) - 1 : Indexable(w, j)}}
Created(w) == {Stem(w, i) : i \in {j \in 0 .. Len(w) : Indexable(w, j)}}

AddNode(w) ==
  /\ nodes' = nodes \cup Created(w)
  /\ call' = [op |-> "add", word |-> w,
              out |-> IF Indexable(w, Len(w)) THEN "returned" ELSE "threw"]

\* delNode, at the node reached by i letters of w. It answers true when no
\* letter is left, or when no other child than the word's next one exists.
Alone(T, w, i) == Kids(T, Stem(w, i)) \subseteq {w[i + 1]}
AnswersTrueAtTheEnd(T, w, i) == i = Len(w)
AnswersTrue(T, w, i) ==
  \/ i = Len(w)
  \/ i < Len(w) /\ w[i + 1] \in Letters /\ Alone(T, w, i)

\* It throws on a letter without a slot, and on childN.c of a null childN that
\* it compares with a sibling.
Throws(T, w, i) ==
  /\ i < Len(w)
  /\ w[i + 1] \in Letters =>
       ~ Alone(T, w, i) /\ w[i + 1] \notin Kids(T, Stem(w, i))

\* The recursion goes down to the first node where either happens.
Stop(T, w) ==
  CHOOSE i \in 0 .. Len(w) :
    /\ AnswersTrue(T, w, i) \/ Throws(T, w, i)
    /\ \A j \in 0 .. i - 1 : ~ AnswersTrue(T, w, j) /\ ~ Throws(T, w, j)

\* A true answer makes the caller one level up drop the child it descended to
\* and answer false, which every caller above passes on; at the root nobody
\* is left to drop anything.
DroppedFromTheParent(T, w, i) == {n \in T : Below(Stem(w, i - 1), n)}
DroppedBelow(T, w, i) == {n \in T : Below(Stem(w, i), n) /\ n # Stem(w, i)}
Dropped(T, w, i) == {n \in T : Below(Stem(w, i), n)}

DelNode(w) ==
  LET i == Stop(nodes, w) IN
  /\ nodes' = IF i > 0 /\ ~ Throws(nodes, w, i)
                THEN nodes \ Dropped(nodes, w, i) ELSE nodes
  /\ call' = [op |-> "del", word |-> w,
              out |-> IF Throws(nodes, w, i) THEN "threw"
                      ELSE IF i = 0 THEN "true" ELSE "false"]

Next == \E w \in Words : AddNode(w) \/ DelNode(w)

Spec == Init /\ [][Next]_vars

-----------------------------------------------------------------------------
\* No operation, complete or abandoned by an exception, leaves a node whose
\* parent is not in the tree, and the root is never removed (addNode creates
\* downwards, delNode cuts whole subtrees).
TypeOK ==
  /\ nodes \subseteq Seq(Letters)
  /\ call \in [op : {"new", "add", "del"}, word : Words \cup {<<>>},
               out : {"returned", "threw", "true", "false"}]
  /\ <<>> \in nodes
  /\ \A n \in nodes : n # <<>> => Stem(n, Len(n) - 1) \in nodes

\* A deletion never turns an inner node into a leaf, so getDFS never lists a
\* word that was not listed before: the node delNode cuts below keeps a child.
DeletionAddsNoWord ==
  [][call'.op = "del" => Leaves(nodes') \subseteq Leaves(nodes)]_vars

\* delNode that answers false has removed its word; one that answers true or
\* throws has changed nothing, be the word there or not (line 54).
AnswerTellsTheEffect ==
  [][call'.op = "del" =>
       IF call'.out = "false"
         THEN \A n \in nodes' : ~ Below(call'.word, n)
         ELSE nodes' = nodes]_vars

\* Where the words v and w part.
Common(v, w) == {i \in 0 .. Len(w) : i <= Len(v) /\ Stem(v, i) = Stem(w, i)}

\* A listed word survives the deletion of another exactly when every node the
\* two share has a second child: below the first node that does not branch, all
\* words go with the deleted one.
SurvivesIffAllBranch ==
  [][call'.op = "del" /\ call'.out = "false" =>
       \A v \in Leaves(nodes) :
         v \in nodes' <=>
           \A d \in Common(v, call'.word) :
             \E k \in Kids(nodes, Stem(v, d)) :
               d < Len(call'.word) /\ k # call'.word[d + 1]]_vars

\* An addNode that throws has planted the letters before the bad one, which
\* getDFS then lists as a word unless more letters follow; one that returns
\* adds its word and, of the leaves before, hides only the word's own prefixes.
AddedWords ==
  [][call'.op = "add" =>
       /\ \A v \in Leaves(nodes') \ Leaves(nodes) :
            IF call'.out = "threw" THEN Below(v, call'.word) ELSE v = call'.word
       /\ \A v \in Leaves(nodes) \ Leaves(nodes') : Below(v, call'.word)
       /\ call'.out = "returned" => call'.word \in nodes']_vars

\* delNode is exact about what it is: what it says it did it did, it adds no word
\* to the dictionary, and other words go with the deleted one by one rule only.
DeletionIsExact == DeletionAddsNoWord /\ AnswerTellsTheEffect /\ SurvivesIffAllBranch
=============================================================================
