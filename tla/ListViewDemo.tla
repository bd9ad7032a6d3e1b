----------------------------- MODULE ListViewDemo -----------------------------
(***************************************************************************)
(* ListViewDemoActivity: a scheduled pool of one thread, made with the     *)
(* activity object, to which onResume gives a task that every two seconds  *)
(* posts a log request to the main thread, and which onPause shuts down.   *)
(* Android drives the life cycle: an activity left and shown again is the  *)
(* same object, one that was recreated is another with a pool of its own.  *)
(***************************************************************************)
EXTENDS Integers

CONSTANTS
  MaxObjects,      (* bounds the recreations                              *)
  MaxPosts         (* bounds how far the main thread falls behind         *)
ASSUME ListViewAssumption == MaxObjects \in Nat \ {0} /\ MaxPosts \in Nat \ {0}

VARIABLES
  object,      (* the activity object of the screen                       *)
  stage,       (* "created", "resumed", "paused", "destroyed"; "crashed"  *)
  pool,        (* per object: "idle", "ticking", "shut"                   *)
  worker,      (* per object: 1 while its pool's thread is inside run()   *)
  posts        (* per object: log requests the main thread has to run     *)

lvVars == <<object, stage, pool, worker, posts>>

Objects == 1 .. MaxObjects

ListViewInit ==
  /\ object = 1 /\ stage = "created"
  /\ pool = [o \in Objects |-> "idle"]
  /\ worker = [o \in Objects |-> 0]
  /\ posts = [o \in Objects |-> 0]

-----------------------------------------------------------------------------
(* The main thread. *)

\* onResume: scheduleAtFixedRate, which a pool that was shut down rejects with
\* an exception nobody catches.
ScheduleTask ==
  /\ stage \in {"created", "paused"}
  /\ IF pool[object] = "shut"
       THEN stage' = "crashed" /\ UNCHANGED pool
       ELSE stage' = "resumed" /\ pool' = [pool EXCEPT ![object] = "ticking"]
  /\ UNCHANGED <<object, worker, posts>>

\* onPause: shutdownNow, which interrupts run() but does not end it.
NothingShut == pool
PoolsShut == [o \in Objects |-> "shut"]
PoolShut == [pool EXCEPT ![object] = "shut"]

ShutPool ==
  /\ stage = "resumed"
  /\ stage' = "paused" /\ pool' = PoolShut
  /\ UNCHANGED <<object, worker, posts>>

\* The activity goes for good, and may be started anew.
DestroyList ==
  /\ stage = "paused" /\ stage' = "destroyed"
  /\ UNCHANGED <<object, pool, worker, posts>>

RecreateList ==
  /\ stage = "destroyed" /\ object < MaxObjects
  /\ object' = object + 1 /\ stage' = "created"
  /\ UNCHANGED <<pool, worker, posts>>

\* logListViewState, from the main thread's queue; it does no harm to an
\* activity that has gone.
LogState(o) ==
  /\ stage # "crashed"
  /\ posts[o] > 0 /\ posts' = [posts EXCEPT ![o] = @ - 1]
  /\ UNCHANGED <<object, stage, pool, worker>>

-----------------------------------------------------------------------------
(* The pool's thread. *)

TicksForEver(o) == pool[o] # "idle"
Ticks(o) == pool[o] = "ticking"

Tick(o) ==
  /\ stage # "crashed" /\ Ticks(o)
  /\ worker[o] = 0 /\ posts[o] < MaxPosts
  /\ worker' = [worker EXCEPT ![o] = 1]
  /\ UNCHANGED <<object, stage, pool, posts>>

\* runOnUiThread, the pool shut down meanwhile or not.
PostLog(o) ==
  /\ stage # "crashed" /\ worker[o] = 1
  /\ worker' = [worker EXCEPT ![o] = 0]
  /\ posts' = [posts EXCEPT ![o] = @ + 1]
  /\ UNCHANGED <<object, stage, pool>>

ListViewNext ==
  \/ ScheduleTask \/ ShutPool \/ DestroyList \/ RecreateList
  \/ \E o \in Objects : Tick(o) \/ PostLog(o) \/ LogState(o)

\* run() comes to its end, and the main thread's queue is first in, first out.
ListViewFair == \A o \in Objects : WF_lvVars(PostLog(o)) /\ WF_lvVars(LogState(o))
ListViewSpec == ListViewInit /\ [][ListViewNext]_lvVars /\ ListViewFair

-----------------------------------------------------------------------------
ListViewTypeOK ==
  /\ object \in Objects
  /\ stage \in {"created", "resumed", "paused", "destroyed", "crashed"}
  /\ pool \in [Objects -> {"idle", "ticking", "shut"}]
  /\ worker \in [Objects -> 0 .. 1]
  /\ posts \in [Objects -> 0 .. MaxPosts]

\* However often the activity is rotated, at most one pool ticks, and only while
\* its activity is in front.
OneTicker == \A o \in Objects : Ticks(o) => o = object /\ stage = "resumed"

\* The crash is that of a return: an object shown for the first time never meets
\* a pool that is shut, whatever became of the objects before it.
CrashesOnReturnOnly == [][stage = "created" => stage' # "crashed"]_lvVars

\* The log requests of an activity that was left come to an end, although
\* shutdownNow may catch run() before it posts and the queue is not emptied.
LogsEnd ==
  <>[](\/ stage = "crashed"
       \/ \A o \in Objects : pool[o] = "shut" => posts[o] + worker[o] = 0)

\* Pools do not outlive the time their activity is in front, and the shutdown of
\* one never hits the next object's.
PoolsAreTame == [](ListViewTypeOK /\ OneTicker) /\ CrashesOnReturnOnly
=============================================================================
