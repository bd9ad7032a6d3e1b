---------------------------- MODULE TrieTraversal ----------------------------
(***************************************************************************)
(* getDFS and getBFS of util/Trie.java, evaluated on every tree that       *)
(* addNode and delNode can build. A string is a sequence of characters,    *)
(* 0 being the root's own character and "\n" the end of a line.            *)
(***************************************************************************)
EXTENDS Trie, SequencesExt

NL == -1

Sorted(S, before(_, _)) ==
  [i \in 1 .. Cardinality(S) |->
     CHOOSE x \in S : Cardinality({y \in S : before(y, x)}) = i - 1]

\* childNodes is scanned from 'a' on, null slots are skipped.
Scan(n) == LET kids == Sorted(Kids(nodes, n), <) IN [i \in DOMAIN kids |-> Append(n, kids[i])]

\* The character a node holds.
Char(n) == IF n = <<>> THEN 0 ELSE n[Len(n)]

-----------------------------------------------------------------------------
\* getDFS(n, builder, result): acc is the pair of the two objects it changes.
\* After each child's call the child's character is deleted from the builder.
PopForgotten(b) == b
Pop(b) == SubSeq(b, 1, Len(b) - 1)

RECURSIVE DFS(_, _)
DFS(n, acc) ==
  LET entered == [acc EXCEPT !.builder = Append(@, Char(n))]
      visit(a, k) == [DFS(k, a) EXCEPT !.builder = Pop(@)]
      left == FoldLeft(visit, entered, Scan(n))
  IN  IF Kids(nodes, n) = {}
        THEN [left EXCEPT !.result = Append(@, left.builder)]
        ELSE left

getDFS == DFS(<<>>, [builder |-> <<>>, result |-> <<>>])

\* getBFS: a queue, and two counters that tell where a level ends.
NextLevelKept(count) == count
NextLevel(count) == 0

RECURSIVE BFS(_, _, _, _)
BFS(queue, cur, next, builder) ==
  IF queue = <<>> THEN builder ELSE
    LET kids  == Scan(Head(queue))
        rest  == Tail(queue) \o kids
        count == next + Len(kids)
        out   == builder \o [i \in DOMAIN kids |-> Char(kids[i])]
    IN  IF cur - 1 = 0 THEN BFS(rest, count, NextLevel(count), Append(out, NL))
                       ELSE BFS(rest, cur - 1, count, out)

getBFS == BFS(<<<<>>>>, 1, 0, <<>>)

-----------------------------------------------------------------------------
\* Dictionary order: at the first letter where two words differ.
Before(v, w) ==
  \E i \in 1 .. Len(v) :
    i <= Len(w) /\ Stem(v, i - 1) = Stem(w, i - 1) /\ v[i] < w[i]

\* getDFS lists every leaf once, in dictionary order, each spelled from the root
\* down, and leaves in the builder nothing but the root's character: the one
\* StringBuilder shared by all levels is always unwound to the right length.
DFSListsTheWords ==
  LET words == [i \in DOMAIN getDFS.result |-> Tail(getDFS.result[i])] IN
  /\ ToSet(words) = Leaves(nodes)
  /\ \A i \in 2 .. Len(words) : Before(words[i - 1], words[i])
  /\ \A i \in DOMAIN getDFS.result : Head(getDFS.result[i]) = Char(<<>>)
  /\ getDFS.builder = <<Char(<<>>)>>

\* getBFS prints one line per level, an empty one after the deepest, with the
\* last letters of the level's nodes in dictionary order: the two counters
\* never let a line end early or late.
BFSPrintsTheLevels ==
  LET depth  == CHOOSE d \in {Len(n) : n \in nodes} : \A n \in nodes : Len(n) <= d
      row(d) == Sorted({n \in nodes : Len(n) = d}, Before)
      line(d) == Append([i \in DOMAIN row(d) |-> Char(row(d)[i])], NL)
  IN  getBFS = FlattenSeq([d \in 1 .. depth + 1 |-> line(d)])

\* The tree stays closed under stems, so that both traversals reach all of it, and
\* each prints what its loop counters and shared objects were meant to collect.
TraversalsListTheTree == TypeOK /\ DFSListsTheWords /\ BFSPrintsTheLevels
=============================================================================
