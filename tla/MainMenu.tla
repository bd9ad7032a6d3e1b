------------------------------- MODULE MainMenu -------------------------------
(***************************************************************************)
(* MainActivity: a menu made from the labels of the demos, each a path.    *)
(* An entry starts a demo, or the menu again with a longer path. A label   *)
(* is the sequence of its parts.                                           *)
(***************************************************************************)
EXTENDS Integers, Sequences, SequencesExt

CONSTANT Labels        (* of the activities in the category DEMO          *)
ASSUME LabelsAssumption == Labels # {} /\ \A l \in Labels : Len(l) > 0

VARIABLES
  path,        (* of the menu on top                                      *)
  demo         (* the demo on top of it, or << >>                         *)

menuVars == <<path, demo>>

MenuInit == path = << >> /\ demo = << >>

\* fullSubPath[subPathNames.length], or the last part of the path's own label.
TitleFirst(l, p) == l[1]
Title(l, p) == IF l = p THEN Last(l) ELSE l[Len(p) + 1]

StartsAlways(p, l) == TRUE
Starts(p, l) == p # << >> /\ l = Append(p, Title(l, p))

\* getData: an entry per title of the labels under the path. It starts a demo
\* if path and title make its label; at the top no label is "/" and title.
Entries(p) ==
  {[title |-> Title(l, p), starts |-> Starts(p, l)] :
     l \in {m \in Labels : IsPrefix(p, m)}}

\* onItemClick.
Click(e) ==
  /\ demo = << >>
  /\ IF e.starts THEN demo' = Append(path, e.title) /\ UNCHANGED path
     ELSE path' = Append(path, e.title) /\ UNCHANGED demo

\* The back key, in a demo or in a menu below the top.
LeaveDemo == demo # << >> /\ demo' = << >> /\ UNCHANGED path

LeaveMenu == demo = << >> /\ path # << >> /\ path' = Front(path) /\ UNCHANGED demo

MenuNext == (\E e \in Entries(path) : Click(e)) \/ LeaveDemo \/ LeaveMenu

-----------------------------------------------------------------------------
\* What the manifest's labels are like: none leads on to another, and none is an
\* entry of the top menu itself.
Parts == UNION {{l[k] : k \in DOMAIN l} : l \in Labels}

LabelsLeadDown ==
  /\ \A l \in Labels : l \in Seq(Parts) /\ Len(l) > 1
  /\ \A l, m \in Labels : IsPrefix(l, m) => l = m

MenuTypeOK == demo # << >> => demo \in Labels

\* No menu is a dead end, and from the menus as well as the demos' labels one
\* comes to every demo: each label under the menu's path has the entry that
\* starts it or leads one part nearer to it.
LeadsToEveryDemo ==
  /\ Entries(path) # {}
  /\ \A l \in Labels : IsPrefix(path, l) =>
       \E e \in Entries(path) :
         /\ IsPrefix(Append(path, e.title), l)
         /\ e.starts <=> Len(l) = Len(path) + 1
=============================================================================
