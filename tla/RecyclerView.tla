----------------------------- MODULE RecyclerView -----------------------------
(***************************************************************************)
(* RecyclerViewActivity, MyAdapter and GridSpacingItemDecoration: the menu *)
(* changes the list and notifies the view, which applies the notifications *)
(* to its holders at the next layout, binding those that are new or        *)
(* changed and asking the decoration for everybody's offsets. The view     *)
(* itself is external; the lanes its layout chooses are left out.          *)
(***************************************************************************)
EXTENDS Integers, Sequences, SequencesExt

CONSTANTS
  Data,            (* the list getData returns: a sequence of images      *)
  MaxItems,        (* bounds the list                                     *)
  SpanCount,       (* columns                                             *)
  Spacing          (* pixels between and around the items                 *)

ASSUME RecyclerAssumption ==
  /\ Data \in Seq(ToSet(Data)) \ {<< >>} /\ MaxItems \in Nat
  /\ SpanCount \in Nat \ {0} /\ Spacing \in Nat

VARIABLES
  resIds,      (* the adapter's list                                      *)
  pending,     (* notifications since the last layout                     *)
  views,       (* the holders on the screen                               *)
  moved,       (* items came or went since the last resort?               *)
  fallen       (* did an exception end the process?                       *)

rvVars == <<resIds, pending, views, moved, fallen>>

-----------------------------------------------------------------------------
(* GridSpacingItemDecoration(spanCount, spacing, true), positions from 0. *)

LeftRounded(column) == Spacing - column * (Spacing \div SpanCount)
Left(column) == Spacing - (column * Spacing) \div SpanCount

Right(column) == ((column + 1) * Spacing) \div SpanCount

Top(position) == IF position < SpanCount THEN Spacing ELSE 0

ItemOffsets(position) ==
  [left |-> Left(position % SpanCount), right |-> Right(position % SpanCount),
   top |-> Top(position), bottom |-> Spacing]

-----------------------------------------------------------------------------
(* MyAdapter and the layout. *)

\* onBindViewHolder: the image, and listeners that keep the position.
BoundToOnce(v, position) ==
  [v EXCEPT !.image = resIds[position + 1],
            !.position = IF @ = -1 THEN position ELSE @, !.stale = FALSE]
BoundTo(v, position) ==
  [v EXCEPT !.image = resIds[position + 1], !.position = position, !.stale = FALSE]

NewHolder == [image |-> "none", position |-> -1, stale |-> TRUE, offsets |-> ItemOffsets(0)]

Applied(vs, n) ==
  CASE n.what = "inserted" -> InsertAt(vs, n.at + 1, NewHolder)
    [] n.what = "removed" -> RemoveAt(vs, n.at + 1)
    [] n.what = "changed" ->
         [p \in DOMAIN vs |->
            IF p - 1 \in n.at .. n.at + n.count - 1 THEN [vs[p] EXCEPT !.stale = TRUE]
            ELSE vs[p]]

LaidOut(vs) ==
  [p \in DOMAIN vs |->
     [(IF vs[p].stale THEN BoundTo(vs[p], p - 1) ELSE vs[p])
        EXCEPT !.offsets = ItemOffsets(p - 1)]]

\* The holders after the first n notifications.
After[n \in 0 .. Len(pending)] ==
  IF n = 0 THEN views ELSE Applied(After[n - 1], pending[n])

Layout ==
  /\ ~fallen /\ pending # << >>
  /\ views' = LaidOut(After[Len(pending)])
  /\ pending' = << >>
  /\ UNCHANGED <<resIds, moved, fallen>>

-----------------------------------------------------------------------------
(* onOptionsItemSelected. *)

RecyclerInit ==
  /\ resIds = Data
  /\ pending = << >> /\ moved = FALSE /\ fallen = FALSE
  /\ views = LaidOut([p \in DOMAIN resIds |-> NewHolder])

\* notifyItemInserted(0), notifyItemRemoved(0) and notifyItemRangeChanged(0, n).
InsertedAtTheEnd == [what |-> "inserted", at |-> Len(resIds), count |-> 1]
Inserted == [what |-> "inserted", at |-> 0, count |-> 1]

Removed == [what |-> "removed", at |-> 0, count |-> 1]

Changed == [what |-> "changed", at |-> 0, count |-> Len(resIds)]

\* The first of no items: nextInt(0) and remove(0) throw.
NothingThere ==
  /\ ~fallen /\ resIds = << >>
  /\ fallen' = TRUE
  /\ UNCHANGED <<resIds, pending, views, moved>>

Add ==
  /\ ~fallen /\ Len(resIds) \in 1 .. MaxItems - 1
  /\ \E p \in DOMAIN resIds : resIds' = <<resIds[p]>> \o resIds
  /\ pending' = Append(pending, Inserted)
  /\ moved' = TRUE
  /\ UNCHANGED <<views, fallen>>

Del ==
  /\ ~fallen /\ resIds # << >>
  /\ resIds' = Tail(resIds)
  /\ pending' = Append(pending, Removed)
  /\ moved' = TRUE
  /\ UNCHANGED <<views, fallen>>

Resort ==
  /\ ~fallen
  /\ \E f \in Bijection(DOMAIN resIds, DOMAIN resIds) :
       resIds' = [p \in DOMAIN resIds |-> resIds[f[p]]]
  /\ pending' = Append(pending, Changed)
  /\ moved' = FALSE
  /\ UNCHANGED <<views, fallen>>

\* MaxPending bounds what the user does between two frames.
MaxPending == 2
Select == Len(pending) < MaxPending /\ (Add \/ Del \/ Resort \/ NothingThere)

RecyclerNext == Layout \/ Select

RecyclerSpec == RecyclerInit /\ [][RecyclerNext]_rvVars

-----------------------------------------------------------------------------
RecyclerTypeOK ==
  /\ Len(resIds) <= Max({MaxItems, Len(Data)}) /\ ToSet(resIds) \subseteq ToSet(Data)
  /\ Len(pending) <= MaxPending
  /\ moved \in BOOLEAN /\ fallen \in BOOLEAN

\* What is notified is what was done: once laid out, the screen shows the list,
\* whatever was chosen between two frames.
ShowsTheList ==
  pending = << >> =>
    /\ Len(views) = Len(resIds)
    /\ \A p \in DOMAIN views : views[p].image = resIds[p]

\* A click tells the right position of every item as soon as a resort has been
\* laid out, and until an item comes or goes.
ResortMendsPositions ==
  pending = << >> /\ ~moved => \A p \in DOMAIN views : views[p].position = p - 1

\* As the decoration counts columns (position % spanCount, whatever lane the
\* staggered layout has put the item into), neighbours are Spacing apart and as far
\* from the edges, as are the rows, to the pixel and whatever the rounding; the
\* widths differ by one at most.
SpacedEvenly ==
  \A p \in DOMAIN views :
    LET o == views[p].offsets IN
    /\ (p - 1) % SpanCount = 0 => o.left = Spacing
    /\ p % SpanCount = 0 => o.right = Spacing
    /\ p % SpanCount # 0 /\ p < Len(views) => o.right + views[p + 1].offsets.left = Spacing
    /\ o.top + o.bottom = Spacing * (IF p <= SpanCount THEN 2 ELSE 1)
    /\ \A q \in DOMAIN views :
         o.left + o.right - views[q].offsets.left - views[q].offsets.right \in -1 .. 1

\* List, notifications, bound positions and offsets agree, frame after frame, for
\* every order of the three menu entries and the layouts.
RecyclerIsRight == RecyclerTypeOK /\ ShowsTheList /\ ResortMendsPositions /\ SpacedEvenly
=============================================================================
