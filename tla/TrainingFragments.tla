--------------------------- MODULE TrainingFragments ---------------------------
(***************************************************************************)
(* TrainingActivity and its fragments. On a large screen list and detail   *)
(* stand side by side; on a small one a click commits a transaction, which *)
(* the fragment manager runs later, and sets the title at once, so that a  *)
(* second click may come before the first detail covers the list. The      *)
(* fragment manager is external.                                           *)
(***************************************************************************)
EXTENDS Integers, Sequences, SequencesExt

CONSTANTS
  Items,           (* positions of the list, each with its content        *)
  MaxClicks        (* bounds the clicks before the list is covered        *)
ASSUME TrainingAssumption == Items # {} /\ MaxClicks \in Nat

EmptyContent == "Empty Content"

VARIABLES
  originTitle, (* the activity's title, "" before onCreate                *)
  large,       (* is there a detail fragment in the layout?               *)
  commits,     (* transactions that have been committed, not yet run      *)
  backStack,   (* the details shown, the last one on top                  *)
  title,
  text,        (* of the detail of the layout                             *)
  stale        (* since the list was shown last, did a return lead from   *)
               (* one detail to another, or was the activity made anew    *)
               (* under a detail? history variable                        *)

trVars == <<originTitle, large, commits, backStack, title, text, stale>>

TrainingInit ==
  /\ originTitle = "" /\ large = FALSE
  /\ commits = << >> /\ backStack = << >>
  /\ title = "" /\ text = EmptyContent /\ stale = FALSE

AllDetails == backStack \o commits

\* onCreate: the layout, by the screen's size, has a fragment "detail" or not.
OnCreateTraining ==
  /\ originTitle = ""
  /\ originTitle' = "App/Fragment" /\ title' = originTitle'
  /\ large' \in BOOLEAN
  /\ UNCHANGED <<commits, backStack, text, stale>>

\* OnItemClick; the list can be touched as long as no detail covers it.
ClickLarge(p) ==
  /\ originTitle # "" /\ large
  /\ text' = p
  /\ UNCHANGED <<originTitle, large, commits, backStack, title, stale>>

ClickSmall(p) ==
  /\ originTitle # "" /\ ~large /\ backStack = << >> /\ Len(commits) < MaxClicks
  /\ commits' = Append(commits, p)
  /\ title' = p
  /\ UNCHANGED <<originTitle, large, backStack, text, stale>>

RunCommits ==
  /\ commits # << >>
  /\ backStack' = AllDetails /\ commits' = << >>
  /\ UNCHANGED <<originTitle, large, title, text, stale>>

\* onBackPressed: super runs what is pending and pops one detail, or finishes
\* the activity (a new one starts like this one did). Then the entries are
\* counted.
EntriesBefore == Len(AllDetails)
EntriesLeft == Len(backStack')

OnBackPressed ==
  /\ backStack' = IF AllDetails = << >> THEN << >> ELSE Front(AllDetails)
  /\ commits' = << >>
  /\ title' = IF EntriesLeft = 0 THEN originTitle ELSE title
  /\ stale' = (backStack' # << >>)
  /\ text' = IF AllDetails = << >> THEN EmptyContent ELSE text
  /\ UNCHANGED <<originTitle, large>>

\* The system destroys the activity and makes it anew: the manager saves its
\* stack, nobody the title and the position of the large layout's detail.
RecreateTraining ==
  /\ backStack' = AllDetails /\ commits' = << >>
  /\ title' = originTitle /\ text' = EmptyContent
  /\ stale' = (AllDetails # << >>)
  /\ UNCHANGED <<originTitle, large>>

TrainingNext ==
  \/ \E p \in Items : ClickLarge(p) \/ ClickSmall(p)
  \/ OnCreateTraining \/ RunCommits \/ OnBackPressed \/ RecreateTraining

TrainingSpec == TrainingInit /\ [][TrainingNext]_trVars

-----------------------------------------------------------------------------
TrainingTypeOK ==
  /\ large \in BOOLEAN /\ stale \in BOOLEAN
  /\ ToSet(AllDetails) \subseteq Items /\ Len(AllDetails) <= MaxClicks
  /\ title \in Items \cup {originTitle} /\ text \in Items \cup {EmptyContent}

\* The list is always shown under the activity's own title, and a detail that was
\* just opened under its own, however clicks, transactions and returns interleave,
\* a second click that overtakes the first transaction included. The code promises
\* no more: a return from one detail to another keeps the title of the one left,
\* and a recreation puts the activity's title over a detail.
TitleIsRight ==
  IF AllDetails = << >> THEN title = originTitle
  ELSE stale \/ title = Last(AllDetails)
=============================================================================
