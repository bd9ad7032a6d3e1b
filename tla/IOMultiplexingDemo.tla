------------------------- MODULE IOMultiplexingDemo -------------------------
(***************************************************************************)
(* How IOMultiplexingDemoActivity launches its servers. A tap submits a    *)
(* task to the thread pool unless the activity's flag says that a server   *)
(* runs; the flag is set by the main thread after the submission and reset *)
(* by the task when the native server returns. An activity that is         *)
(* recreated starts with its flags down while the tasks of the old one run *)
(* on; the port and the leaked sockets belong to the process.              *)
(* A server is reduced to what its launcher sees of it: whether bind() and *)
(* listen() got the port, and when it returns (modules SelectSocketServer  *)
(* and EPollSocketServer). SO_REUSEADDR lets two sockets be bound to a port*)
(* on which none listens yet; the second one to call listen() fails, which *)
(* createServer does not notice.                                           *)
(***************************************************************************)
EXTENDS Integers, FiniteSets

CONSTANTS
  Ports,            (* 9000 (select) and 9001 (epoll): one button each     *)
  Returning,        (* ports whose server may return: select's, when       *)
                    (* select() fails; epoll's loop has no way out         *)
  MaxActivities,    (* bounds the recreations                              *)
  MaxTasks          (* bounds the submissions                              *)

ASSUME LaunchAssumption ==
  /\ Returning \subseteq Ports
  /\ "none" \notin Ports
  /\ MaxActivities \in Nat \ {0}
  /\ MaxTasks \in Nat

Activities == 1 .. MaxActivities
Tasks == 1 .. MaxTasks

VARIABLES
  activity,         (* the activity on the screen                          *)
  running,          (* selectServerIsRunning, epollServerIsRunning         *)
  tapped,           (* port whose handler the main thread is in, or none   *)
  submitted,        (* tasks submitted so far                              *)
  task              (* each task: its activity, its port, its state        *)

launchVars == <<activity, running, tapped, submitted, task>>

NoPort == "none"
States == {"new", "queued", "bound", "listening", "deaf", "back", "over"}

LaunchInit ==
  /\ activity = 1
  /\ running = [a \in Activities |-> [p \in Ports |-> FALSE]]
  /\ tapped = NoPort
  /\ submitted = 0
  /\ task = [t \in Tasks |-> [of |-> 1, port |-> NoPort, state |-> "new"]]

Idle == tapped = NoPort
Live(t) == task[t].state \in {"queued", "bound", "listening", "deaf", "back"}
TaskGoes(t, from, to) == task[t].state = from /\ task' = [task EXCEPT ![t].state = to]

-----------------------------------------------------------------------------
(* The main thread. *)

\* if (!selectServerIsRunning) submit(...). A tap that finds the flag up starts
\* nothing, and leaves the state as it is.
TestForgotten(p) == TRUE
MaySubmit(p) == ~running[activity][p]

\* The task is an inner class: it keeps the activity it was made in.
Enclosing == activity

Tap(p) ==
  /\ Idle
  /\ submitted < MaxTasks
  /\ MaySubmit(p)
  /\ submitted' = submitted + 1
  /\ task' = [task EXCEPT ![submitted + 1] =
                [of |-> Enclosing, port |-> p, state |-> "queued"]]
  /\ tapped' = p
  /\ UNCHANGED <<activity, running>>

\* selectServerIsRunning = true, after the submission.
SetRunning ==
  /\ ~Idle
  /\ running' = [running EXCEPT ![activity][tapped] = TRUE]
  /\ tapped' = NoPort
  /\ UNCHANGED <<activity, submitted, task>>

\* The activity is destroyed and made anew: nothing stops its servers.
Recreate ==
  /\ Idle
  /\ activity < MaxActivities
  /\ activity' = activity + 1
  /\ UNCHANGED <<running, tapped, submitted, task>>

-----------------------------------------------------------------------------
(* The pool: a thread per task. *)

PortFree(p) == \A t \in Tasks : task[t].port = p => task[t].state # "listening"

TaskMoves(t, from, to) ==
  /\ TaskGoes(t, from, to)
  /\ UNCHANGED <<activity, running, tapped, submitted>>

\* setsockopt(SO_REUSEADDR) and bind().
BindOk(t) == PortFree(task[t].port) /\ TaskMoves(t, "queued", "bound")

\* bind() = -1 where somebody listens: createServer gives up and leaves the socket
\* it made open.
KeepsTrying(t) == FALSE
GivesUp(t) == ~PortFree(task[t].port)

BindFails(t) == GivesUp(t) /\ TaskMoves(t, "queued", "back")

ListenOk(t) == PortFree(task[t].port) /\ TaskMoves(t, "bound", "listening")

\* listen() = -1 is not looked at: the server's loop runs on a socket that nobody
\* can connect to.
ListenFails(t) == ~PortFree(task[t].port) /\ TaskMoves(t, "bound", "deaf")

\* processClientConnect is over and the server's socket closed.
ServerReturns(t) ==
  /\ task[t].port \in Returning
  /\ TaskMoves(t, "listening", "back") \/ TaskMoves(t, "deaf", "back")

\* selectServerIsRunning = false, in the activity that submitted the task.
ResetCurrent(t) == [running EXCEPT ![activity][task[t].port] = FALSE]
ResetOwn(t) == [running EXCEPT ![task[t].of][task[t].port] = FALSE]

ResetRunning(t) ==
  /\ TaskGoes(t, "back", "over")
  /\ running' = ResetOwn(t)
  /\ UNCHANGED <<activity, tapped, submitted>>

RunTask(t) == BindOk(t) \/ BindFails(t) \/ ListenOk(t) \/ ListenFails(t) \/ ResetRunning(t)

LaunchNext ==
  \/ \E p \in Ports : Tap(p)
  \/ SetRunning \/ Recreate
  \/ \E t \in Tasks : RunTask(t) \/ ServerReturns(t)

LaunchSpec ==
  /\ LaunchInit /\ [][LaunchNext]_launchVars
  /\ WF_launchVars(SetRunning) /\ \A t \in Tasks : WF_launchVars(RunTask(t))

-----------------------------------------------------------------------------
LaunchTypeOK ==
  /\ activity \in Activities
  /\ running \in [Activities -> [Ports -> BOOLEAN]]
  /\ tapped \in Ports \cup {NoPort}
  /\ submitted \in 0 .. MaxTasks
  /\ task \in [Tasks -> [of : Activities, port : Ports \cup {NoPort}, state : States]]

\* An activity does not start a second server for a port while a task of its own
\* for that port is not over: the flag, set after the submission and reset by the
\* task, is never down too early.
OneLiveTaskPerButton ==
  \A t, u \in Tasks :
    /\ Live(t) /\ Live(u)
    /\ task[t].of = task[u].of /\ task[t].port = task[u].port
    => t = u

\* A server that loses its port, at bind() and leaks a socket, or at listen() and is
\* deaf, loses it to a server of another activity that listens at that moment: within
\* one activity a server never competes with itself. (A port held outside the app and
\* a full descriptor table are left to the modules of the servers.)
LosesPort(t) ==
  \/ task[t].state = "queued" /\ task'[t].state = "back"
  \/ task[t].state = "bound" /\ task'[t].state = "deaf"

FailsOnlyAcrossActivities ==
  [][\A t \in Tasks : LosesPort(t) =>
       \E u \in Tasks :
         /\ task[u].state = "listening" /\ task[u].port = task[t].port
         /\ task[u].of # task[t].of]_launchVars

\* selectServerIsRunning and epollServerIsRunning tell, between two taps, whether
\* a server of this activity is on its way, up, or going down.
FlagTellsTheTruth ==
  Idle => \A a \in Activities, p \in Ports :
    running[a][p] => \E t \in Tasks : task[t].of = a /\ task[t].port = p /\ Live(t)

\* A task that was submitted comes to its server's loop, whether that listens or is
\* deaf, or is over, sooner or later.
TasksSettle ==
  \A t \in Tasks :
    task[t].state = "queued" ~> task[t].state \in {"listening", "deaf", "over"}
=============================================================================
