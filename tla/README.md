# A TLA+ development of android-demo

`android-demo` is an Android application of independent demos behind one menu. One
of them, the *I/O multiplexing demo*, is a small distributed system in one process:
two native echo servers (`select()` and `epoll`), an `IntentService` that talks to
them over TCP, an activity that launches them from a button, a thread pool, and one
descriptor table that all of them share. That demo is the core of this development.
The other demos are smaller, but several start threads, tasks, child processes or
queued transactions that outlive the call that made them; they are modelled one by
one and composed behind the menu that leads to them.

Paths below are relative to the repository: `cpp/` stands for `app/src/cpp/`,
and `java/` for `app/src/main/java/com/wujingchao/android/demo/`.

## 1. Inventory

### The I/O multiplexing demo

| component | state | operations | talks to |
|---|---|---|---|
| `AbstractSocketServer::readn` | buffer pointer, `remainLen`, `retryCount` | `read()` until `len` bytes are there | the stream socket of a client |
| `AbstractSocketServer` | `mPort`, `mRunning`, `mClientFds`, `serverFd` | `startServer`, `createServer`, `acceptClient` | kernel; the two subclasses |
| `SelectSocketServer` | the `fd_set`, the list iterator | `processClientConnect`, `receiveClientMsg` | base class, clients |
| `EPollSocketServer` | `epollfd`, the kernel's interest list, the event batch | `processClientConnect`, `handleEvent`, `handleAccept`, `receiveClientMsg`, `addEvent`, `deleteEvent` | base class, clients |
| `MockSocketIntentService` | intent queue, worker thread, one socket | `sendSocketMsg`, `onHandleIntent`, `sendMsg` | one of the servers, by port |
| `IOMultiplexingDemoActivity` | `selectServerIsRunning`, `epollServerIsRunning` | `startSelectServer`, `startEpollServer`, recreation | pool (`ThreadUtils`), native servers, `postDelayed` |

What makes them hard:

* The servers are single threads that block in `readn` while other connections
  queue up; a client may be slow, leave, or send in any number of pieces.
* A descriptor is a number. It is reused as soon as it is closed, by any thread
  of the process, while lists, sets and event batches still name it.
* `EPOLLONESHOT` disarms a client at its first event; the only code that arms
  anything walks a list from which nothing is ever erased.
* Every system call can fail half-way: `bind` after `socket`, `listen` unchecked,
  `accept` when the table is full, `epoll_create` unchecked, `read` and `select` by a
  signal.
* The running flag is written by two threads, and belongs to an activity that may
  be recreated, while the port belongs to the process.

What makes them correct:

* `readn`: fills the buffer in stream order, never reads into the next message,
  answers true exactly if it has everything, gives up for a cause, ends.
* a server: echoes each client its own message, in order, header before body,
  never ahead of what was sent, one client at a time; hangs up only on clients
  that are done; owns exactly the descriptors of its clients; serves whoever
  connected; stops listening when it returns, and loses one socket at most.
* the process: its threads keep to their own descriptors; requests are answered.
* the launcher: no second live task for a button; a server that loses its port loses
  it to another activity's; every task settles; the flag says what is the case.

### The other parts

| part | behaviour of its own | module |
|---|---|---|
| length header (`cpp/util/Tool.h`) | byte order by two pointers that walk in opposite directions; negative lengths | `LengthHeader` |
| `java/util/Trie.java` | insertion that may throw half-way, deletion that stops early, two traversals sharing a builder and counters | `Trie`, `TrieTraversal` |
| `PipeDemo` and its native code | `fork`, a child that writes, a parent that must close its own write end, a failed fork that closes twice | `PipeDemo` |
| `MaxFileDescriptorActivity` | a task that takes the whole descriptor table and gives it back, progress posted to the main thread | `MaxFileDescriptor` |
| `BasicDataBindingActivity`, `User` | a thread per `onResume` that changes, five seconds later, whatever user the field holds | `DataBinding` |
| `ListViewDemoActivity` | a scheduled pool shut down in `onPause` and used again in `onResume` | `ListViewDemo` |
| recycler view demo, `GridSpacingItemDecoration` | notifications applied at the next frame, positions captured by listeners, integer shares of a gap, a list that runs empty | `RecyclerView` |
| training fragments | a transaction queued, a title set at once, a stack restored after recreation | `TrainingFragments` |
| `MainActivity` | a menu tree cut from the labels of the manifest | `MainMenu` |
| address book messages, remote debugging, binder demo, JNI glue, shell, layout demos, vendored protobuf | see "Not modelled" | none |

What makes them correct: what a call takes from a table shared with others it gives
back, and nothing else; a background thread's change reaches the screen; the screen's
title, list and positions tell what is there, as far as the code promises it; a deletion
from the dictionary cuts off what hangs from the first node on its way that does not
branch, and with it exactly the other words that share such a node, or it changes nothing.

## 2. Modules

```
Readn ............ readn, call by call              ReadnProofs
  LengthHeader ... the number made of four bytes    (MCReadn)
EchoService ...... what an echo server promises     EchoServiceProofs
Sockets .......... descriptors, listeners, streams  SocketsProofs
                   (the kernel; external)
  AbstractSocketServer .. shared by both servers;   AbstractSocketServerProofs
                          INSTANCEs EchoService
    SelectSocketServer                              SelectSocketServerProofs
    EPollSocketServer     (MCEPollSocketServer)     EPollSocketServerProofs
  MockSocketIntentService
    EchoProcess .. both servers and the client on   EchoProcessProofs
                   one descriptor table
IOMultiplexingDemo  launching and relaunching       DemosProofs

Trie ............. addNode and delNode              DemosProofs
  TrieTraversal .. getDFS and getBFS                (MCTrie)

Demos ............ the main menu and what it starts DemosProofs
  MainMenu, ListViewDemo, DataBinding, RecyclerView, TrainingFragments
  MaxFileDescriptor .. EXTENDS PipeDemo, one table  (MCApp)
```

The modules in parentheses give the constants their values for model checking.

### Readn

Bytes are named by their position in the stream, so the buffer shows which byte
landed where. `cur` is the moving pointer `buf` of the source. One action per
outcome of `read()`: `ReadSome` (any split), `ReadZero` with `WakeUp` (the sleep,
then `++retryCount > 10`), `Interrupted` (EINTR: the loop is left), `ReadFails`
(any other error: `return false`), and `Return`. The peer sends, shuts down or
resets. The servers use `readn` by its contract, three operators of `Sockets`:
`Arrived` (all units are there), `Hopeless` (they cannot come any more),
`Blocked` (a signal would cut the wait short). The theorems of `ReadnProofs` are
what justifies taking a whole `readn` as one step.

### Sockets

External code, modelled from how the servers use it: the lowest free number is
allocated, `close` frees it at once and ends the connection, closing a listener
also ends its backlog, a bounded backlog, two inboxes per connection. A message
is `HeaderLen` units of header followed by `size[c]` units of body. `ForeignOpen`
and `ForeignClose` are the other threads of the app.

### AbstractSocketServer, SelectSocketServer, EPollSocketServer

`pc` is where the server thread is. The base module has `startServer` and
`createServer` (`CreateSocket`, `SocketFails`, `Bind`, `BindFails`,
`Listen`, `ListenFails`, `CloseListener`), `acceptClient` (`Accept`, `AcceptFails`), and the conversation
with one client, which both subclasses spell out the same way: `ReadHeader` and
its echo, `ReadBody` and its echo, `ReadFails`, `Interrupted`, `Drop`.
`cut` is a history variable: the clients whose message a signal cut short.
After `BindFails` the socket stays in the table while `serverFd` is `NoFd`: `createServer`
returned -1 and nobody knows the number. `ListenFails` goes on into the loop, as the code
does: the server is deaf, its socket always reported (`Reported`) and never accepting.

Select adds `Select` (with listening socket and clients in one set, the listener
looked at first), `SelectFails`, the walk over the list (`NextClient`,
`ScanOver`), and `DropClient`, which erases the entry the iterator stands at.

Epoll adds `EpollCreate`, `EpollCreateFails` (unchecked in the code: the loop
spins for ever), `EpollWait`, which disarms one-shot descriptors, the batch of
events in any order (`HandleListener`, `HandleClient`, `BatchOver`), `Register`
(the loop over all of `mClientFds` after an accept), `DropClient`, which closes
and deregisters but does not erase.

`interest[f]` is `"level"` for the listener, `"armed"`, `"spent"` (fired, waiting
to be armed again) or `"none"`.

### EchoService

The abstract server: per client a phase (`none`, `waiting`, `accepted`,
`answering`, `cut`, `closed`), what it sent, what it was sent back. No
descriptors, no polling. `AbstractSocketServer` instantiates it with a refinement
mapping computed from descriptors and streams; `ImplementsEchoService` is
`Echo!Spec` as a property of both servers.

### MockSocketIntentService, EchoProcess

The client is the worker of an `IntentService`: intents in order, `OpenSocket`,
`SocketConnect`, `Write`, `ReadInt`, `ReadFully`, `CloseSocket` in `finally`,
each with its failure. `EchoProcess` instantiates both servers over one `file`
table, adds taps and the delayed request of the main thread, and other threads.
A descriptor closed by any thread leaves the epoll instance.

`Disturbed` says beside which servers other threads, the other server included,
may open and close files. This is how the passing run states its precondition in
the open; the violating run shows why it is needed for the epoll server.

### IOMultiplexingDemo

The launcher, with a server reduced to what the launcher sees of it. `Tap` tests
the flag and submits, `SetRunning` is the assignment after `submit`, a separate
step because the task runs on another thread; `BindOk`, `BindFails`, `ListenOk`, `ListenFails`,
`ServerReturns`, `ResetRunning` are the task (`bind` and `listen` are two steps, for with
`SO_REUSEADDR` two sockets may be bound before either listens); `Recreate` makes a new activity with
its flags down while old tasks keep theirs (an inner class refers to the activity
it was made in).

### LengthHeader

`Readn` reads a header, `SwapByte` is one turn of the loop in `Tool::swap_endian`, and
`IntIn` is the int whose bytes then lie in memory. The client's `writeInt` is `Byte`.

### Trie, TrieTraversal

A node is named by the letters on the way to it, so a tree is a set of words closed
under prefixes. The code has no end-of-word mark: the words of a tree are its leaves.
`AddNode` creates node after node and, at a character without a slot, throws and leaves
what it created. `DelNode` is the recursion of the source told from where it stops:
`Stop` is the first level at which it answers true (no letter left, or no other child) or
throws (`childN.c` of a null child), and the caller of that level drops the child. The
traversals are operators evaluated in every reachable tree; their builder, queue and
two level counters are theirs.

### PipeDemo, MaxFileDescriptor

`table` says who opened a number. A call of `readFromChildPipe` goes `MakePipe` (or
`PipeFails`), `Fork` (or `ForkFails`, which closes both ends and goes on as the parent),
`CloseWriteEnd`, `ReadSome` until `ReadEnds`, `CloseReadEnd`, `Reap`; the child
has a table of its own and goes `ChildWrites`, `ChildExits`. The task of
`MaxFileDescriptorActivity` goes `OpenOne` until `OpenFails`, then `CloseOne` until
`ReturnCount`; `HandleMessage` shows a number, which the main thread cannot do while it
is in a call of the pipe demo. `OtherOpens` and `OtherCloses` are the rest of the process.
`forkFailed` is a history variable: after a failed fork the second close, or the
`read`, may hit a number that was given out again, and `DescriptorsAreSafe` says what
still holds then.

### DataBinding

Each resume makes a user and a thread. A statement of the thread is three steps:
`Look` (reads the field, once for the receiver and once for the argument of
`setAge(getAge() + 1)`), `Assign`, `Notify`. The field is neither volatile nor locked, so
a read gives any user since the thread's own. `ExecuteBindings` copies the marked
properties to the screen, later and on the main thread.

### ListViewDemo, RecyclerView, TrainingFragments, MainMenu

`ListViewDemo` has a pool per activity object (`ScheduleTask`, `ShutPool`,
`RecreateList`), its thread (`Tick`, `PostLog`) and the main thread's queue (`LogState`);
a return to a pool that was shut is the crash. `RecyclerView` has the three entries of
the options menu (`Add`, `Del`, `Resort`, and `NothingThere` on an empty list), the
notifications they queue and `Layout`, which applies them, binds, and asks the decoration
for offsets. `TrainingFragments` has both layouts, commits that run later, the back key
and recreation; `stale` is a history variable (since the list was shown last, a return led
from one detail to another, or the activity was made anew under a detail): then the title
may be another's, and `TitleIsRight` says that it never is otherwise. `MainMenu` is `getData` and `onItemClick` over the labels.

### Demos

The menu and the demos on one main thread. A behaviour plays one demo; the pipe demo may
be played beside the task of the descriptor limit, which is the one case where two demos
meet. The I/O multiplexing demo has its own runs: `EchoProcess` is that demo composed.

## 3. Runs

| run | what it asks | bounds |
|---|---|---|
| `readn` | storage, read-ahead, honest result, causes of failure, termination; the length made of a header | requests up to 4 bytes (a header), 6 bytes of stream (two of the next message), the source's limit of 10 retries; bytes of 16 values, seven lengths from the least int to the greatest |
| `readn_interrupt` | *violated*: an interrupted read is tried again | same |
| `echo_service` | the abstract service | 2 clients, header 2, bodies 0 and 1 |
| `select` | everything about the select server, its liveness, the refinement | 2 clients, header 1, bodies 0 and 1, 4 descriptors, backlog 1 |
| `epoll` | clients' view of the epoll server, its liveness, the refinement | 2 clients, header 1, body 1, 4 descriptors |
| `epoll_reuse` | descriptors, the stale list, one-shot arming | 3 clients (symmetric) on 2 numbers: listener and epoll instance take the other 2 |
| `process` | the app with one of its buttons | 5 descriptors, 2 requests, other threads beside the select server |
| `process_stale` | *violated*: what the epoll server closes is its client | 5 descriptors, 2 requests, one foreign file |
| `launch` | flags, ports, tasks | 2 activities, 2 ports (the server of one may return), 4 tasks |
| `launch_flag` | *violated*: the flag tells the truth | same, but no server returns |
| `trie` | words after insertions and deletions, traversals of every tree that can arise | 2 letters, words up to 3, three words with a character outside the alphabet |
| `app` | the menu and the demos behind it | 3 descriptors, 1 call of the pipe demo, 1 file of others; 2 resumes; 3 activity objects, 2 posts behind; 3 images, 4 items, 3 columns with a spacing of 11; 2 changes between frames; 3 fragments, 3 clicks |

A property of the newer runs is a conjunction of named parts, each with a comment of its
own in its module, its types among them:

| property | parts |
|---|---|
| `WatchesItsClients`, `EachItsOwn` | besides their own statement, the types of the epoll server and of the process |
| `TraversalsListTheTree` | the types of the trie, `getDFS` against the leaves, `getBFS` against the levels |
| `DeletionIsExact` | `DeletionAddsNoWord`, `AnswerTellsTheEffect`, `SurvivesIffAllBranch` |
| `NavigationIsRight` | `LeadsToEveryDemo`, `TitleIsRight` |
| `RecyclerIsRight` | `ShowsTheList`, `ResortMendsPositions`, `SpacedEvenly` |
| `BindingIsRight` | `CleanIsShown`, `LastUserIsChanged` |
| `DescriptorsAreSafe` | `CallShowsPIPE`, `NothingLeftOver`, `TaskGivesBack`, `StrangersAreSafe` |
| `PoolsAreTame` | `OneTicker`, `CrashesOnReturnOnly` |
| `EverythingSettles` | `ReadReturns`, `TaskEnds`, `ScreenSettles`, `LogsEnd` |

Why the bounds are enough. Two clients are what it takes for one to be read while
another waits, for a scan to go on after an erase, and for answers to mix. Three
are what it takes on two numbers for a number to be reused while a third party is
still in the list or in the batch. Four descriptors hold the listener, both clients
and a number to spare, so that two accepted clients must be served as long as nobody
else takes it, and the table fills up with foreign files. A message of a header and a
body can arrive in two pieces (a header in halves is `Readn`'s, and `echo_service`'s); a
body of zero takes the branch where the body's `readn` has nothing to wait for. A backlog
of one makes a second client wait.
Four tasks cover a launch, a failure, a relaunch in one activity and one in the
next; two activities let two sockets be bound to one port before either listens.
`launch_flag` lets no server return, so that the only early end of a task is a `bind`
that fails. `SYMMETRY` is used for the three clients of `epoll_reuse` only, a run without
liveness properties.

Two letters and words of three make every shape the deletion distinguishes: a chain, a
branch above or below the stop, a word that is a prefix of another, a letter that is
missing. Three numbers are the least on which a pipe and a stranger, or a pipe and a file
of the task, share the table, and on which it can be full. Two resumes give an earlier
and a later user; three objects a pool before, now and after. The spacing of 11 on three
columns leaves a remainder, where the 10 on two columns of the code leaves none.

The servers may stop (`startServer` returns), clients finish and bounds are
reached, so deadlock is not an error in these models and `CHECK_DEADLOCK FALSE` is
set; that nobody waits for ever is what the liveness properties say.

### Fairness

* The server threads, the client's worker and the pool's tasks: weak fairness on
  their steps together. They are ordinary threads and the scheduler runs them. No
  fairness is put on a single outcome of a system call, on signals or on failures.
* The main thread: weak fairness on the assignment after `submit` and on a posted
  `Runnable` that is due. Not on taps or recreation.
* Clients outside the process: none in `Spec`. Liveness of `select` and `epoll` is
  checked under `FairSpec`, where a client that has begun finishes its message or
  closes, as `MockSocketIntentService.sendMsg` does (its `close` is in `finally`).
  Without it the properties are false: `readn` has no timeout and one silent client
  keeps the only thread.

* The other demos: weak fairness on the parent of the pipe demo outside a `read` of
  somebody else's file, on its child, on the task, on the handling of a message, on each
  data binding thread, on the pool thread's post, on the main thread's queue and frame
  callbacks. All of them are threads that run, or entries of a queue that is served. The
  user owes nothing: no tap, return or back key is fair.

Exceptions are part of the properties. `ConnectedIsServed` allows the table to be
full at some moment after the connection: with select, a connection that `accept()` cannot take keeps the listener
readable and is looked at first in every round, so accepted clients starve. With
epoll they do not: `AcceptedIsServed` has no such exception.

## 4. Proofs

Each proof holds for every value of the constants, from the `ASSUME` of the module
that declares them (naturals, a retry limit, `None` not a connection, two ports that
differ, a first list that is a sequence); TLC evaluates those assumptions in the runs.
Three theorems have a hypothesis of their own, named below. `SocketsProofs` and
`AbstractSocketServerProofs` state lemmas only: what the kernel's operations do to a
descriptor table, what the pieces of a stream are, what a step both servers share does
to a conversation. The demos share one module because they share one table and one
thread; the launcher and the trie stand in it on variables of their own.

| module | theorems | argument |
|---|---|---|
| `ReadnProofs` | `TypeCorrect`, `BufferIsTheStream`, `NoReadAhead`, `HonestResult`, `FailuresHaveACause` | `StoredInOrder` speaks of `taken`, the code of its pointer: `Progress` ties them (`cur = taken`, `taken + remainLen = len`). `Outcome` keeps the cause with the state that led to it until `Return`. |
| `ReadnProofs` | `HeaderIsTheLengthAlways` | While the loop runs, the bytes above `index` are those of the number from its low end (`SwapByte` takes `Byte(buf[In])`, and `StoredInOrder` says that `buf[In]` is the byte at that place). `BytesAddUp` is the division by the base, four times; then the sign. Powers are written as products, for the provers know no exponent. |
| `EchoServiceProofs` | `ConversationsDoNotMix`, `EchoesAreOfWhatArrived` | `OneIsBusy`, and `EchoesFollowBegin`: a client with an echo is busy or closed. Whoever implements `EchoService` inherits both. |
| `SelectSocketServerProofs` | `TypeCorrect`, `ListIsExact`, `LeavesOpenAlways` | `ControlInv` (what `serverFd`, `clientFD` and `iter` stand for at each `pc`), `FilesInv` (only the server makes sockets), `ListInv` (the list has exactly the accepted open descriptors, each once). The crux is `DropClient`: the number closed is the one at `iter`, so erasing that entry keeps the list exact. Lemmas on `RemoveAt` and `Append` carry it. |
| `EPollSocketServerProofs` | `WatchesOnlyItsClients`, `NobodyIsForgotten` | Nothing is erased from `mClientFds`, so the list says little. `WatchInv` takes its place: what is armed or spent is an accepted connection, and what is in the batch is spent or the listener. It holds through `Register` because a stale number is free, or a plain file, on which `epoll_ctl` fails, or again a client. `ControlInv` keeps the client in hand out of the batch, so that its close cannot leave an event behind. `NoClientForgotten` is inductive beside these. |
| `AbstractSocketServerProofs`, then both servers' | `AnswersAreInOrder`, `NobodyIsHungUpOn` | `Conversations`, one invariant for both servers, by connection: who is in hand at `header`, `body` or `drop` determines how much was echoed and which units are still in the inbox (`Unanswered`, `HeaderEchoed`, `MayHangUp`); one descriptor per open connection (`FileLinked`), and a backlog without repetition. It rests on `Sound`, which each server's own invariant implies. |
| the same | `SelectImplementsEcho`, `EpollImplementsEcho` | The same lemmas give, for each action of the base module, the step of `EchoService` it is under the refinement mapping, or that nothing a client sees has changed. With `EchoServiceProofs`, the contract's invariants hold of both servers. |
| `EchoProcessProofs` | `OneServerKeepsApart`, `AnswersAreAlwaysRight` | Both are about one server at a time. Their hypothesis is `EPollPort \notin Disturbed`, the setting of `process`: nobody opens or closes files beside the epoll server, neither other threads nor the select server, although the app allows both; there the statements are false, as `process_stale` shows. Such a process has one server only (`WorldInv`): the select server with any other threads, or the epoll server alone. The select server erases what it closes, so `SelectInv` is its `OwnsItsClients` beside a client in the same table. The epoll server registers numbers it closed long ago, and one of them could be the app's own socket. `LowInv` says why it is not: one number `k` is free or the client's whenever the client is between two sockets, everything below it is taken and stays so, and everything the server ever listed is above it; as the kernel gives the lowest free number, the client gets `k` each time. `MockInv` says what its socket is at each step of `sendMsg`; `Waiting` and `Untold` keep the backlog and the connections not yet accepted in step with it. `Talking` follows each conversation from both ends: while a server has not answered, the whole message is unread and the client has read nothing; afterwards what the client has read and what is on its way are consecutive units (`Echoed`). |
| `DemosProofs` | `LaunchTypeCorrect`, `TasksAreAlone`, `FailuresComeFromOutside` | `LiveMeansFlagged`: a live task's flag is up, or the main thread is between `submit` and the assignment. It fails in the other direction, which is finding 3. A server that loses its port finds one that listens there, which is live; the same activity has no second live task for the port, so it is another activity's. |
| `DemosProofs` | `TypeCorrect`, `DeletionIsExactAlways`, `AddedWordsAlways` | `StopIsFirst`: the level where a deletion stops exists and is the least (well-foundedness of `<`), so every level above it branches and has the word's next child. `WhatIsCut` gives the nodes that go; that the node above keeps a child is `NoWordAdded`, which words survive is `SurvivalRule`. No strengthening beyond the types is needed: each statement is about one step from a tree. |
| `DemosProofs` | `DescriptorsAreSafeAlways` | A close names a number, so what it frees is known only from `NumbersAreTrue`: without a failed fork the numbers remembered stand for what they were opened for, and none is held twice. `PipeEnds` and `FilesHeld` are the converse, without any condition: an end or a file in the table is remembered by somebody who will close it, which gives `NothingLeftOver` and `TaskGivesBack` even after a failed fork. `BytesOnTheWay` says where the four bytes are; `HoldsAtMostAll` bounds the count by the pigeonhole principle. |
| `DemosProofs` | `PoolsAreTameAlways` | `FreshPools`: no object to come has a pool that was touched, nor has the one of the screen before it is shown; `RoomForPost` keeps the backlog in its bound. |
| `DemosProofs` | `BindingIsRightAlways` | A thread reads the field at will, and may see its own user or a later one: `ThreadsInStep`. The thread of the last user therefore has nobody else to change, which is why what it has done so far is in that user (`LastIsBeingChanged`). Ages race: `AgesAreCounted` bounds each by the number of threads that have read one (`Looked`), and that number grows with the read, before the write. |
| `DemosProofs` | `RecyclerIsRightAlways` | One frame applies all notifications queued since the last (`Layout`, by the recursive function `After`). What a recursion yields for every length cannot be proved by induction here, so the invariant carries the computation along: `LayoutWillAgree` says that there is a function that follows the notifications step by step (`Follows`) and ends in holders which the list and the positions agree with (`Agree`). A menu entry makes the function one longer (`FollowsLonger`), and does to the holders what it does to the list (`InsertedAgrees`, `RemovedAgrees`, `ChangedAgrees`); at the layout, `After` is that function, for there is only one (`OnlyOneFollows`, by well-foundedness). Spacing: the shares of two neighbours are cut at the same place, so a gap is exact, and rounding down loses one at most (`DividedSums`), which bounds the widths. |
| `DemosProofs` | `NavigationIsRightAlways` | The theorem has a hypothesis, `LabelsLeadDown`: no label of the manifest begins another, each has two parts or more. `MCApp` assumes it of the labels of the manifest, where TLC evaluates it. `MenuInv`: a menu that is shown lies above a label. `TrainingInv`: before `onCreate` there are no details, and `TitleIsRight` is inductive beside that, for a click is possible only while the list is on top. |
| `DemosProofs` | `DemosStayRight` | `StepsOfTheParts`: a step of the composition is a step of each demo or leaves it alone, the pipe demo and the descriptor task being one part. Each demo's invariant then carries over as it is. |

Four definitions have the form they have for the provers' sake: `Phase` in
`AbstractSocketServer` is a chain of `IF`s, `Notify` in `DataBinding` has no `@`
inside an `@`, and in `RecyclerView` the notifications are applied by a recursive
function where a fold would do, and lists are resorted by `Bijection`, which is spelled
out in a module, where `Permutations` is built in.

Model-checked only:

* liveness and fairness (`Terminates`, `ConnectedIsServed`, `AcceptedIsServed`,
  `RequestsEnd`, `ConnectedIsAnswered`, `TasksSettle`, `EverythingSettles`), which the
  proof system does not reach, and with it the fairness part of `FairSpec`: the
  refinement theorems are about `Spec`, as `Echo!Spec` is;
* `TraversalsListTheTree`: a traversal of every tree is a recursive operator, and an
  induction over data;
* the process with other threads beside the epoll server, where `EachItsOwn` is false and
  finding 2 what becomes of it.

## 5. Findings

1. `readn_interrupt`. `readn` logs "internal error, try again..." on `EINTR`
   (`cpp/AbstractSocketServer.cpp:45`) and then breaks out of its loop and returns
   false: the client is dropped in the middle of its message. `acceptClient`, with
   the same text, does try again.
2. `process_stale`. `EPollSocketServer` never erases from `mClientFds`, and every accept
   registers the whole list again. When another thread of the app shifts the numbers,
   a stale entry names the socket of the app's own client: the server reads the answer
   meant for it, and closes it.
3. `launch_flag`. The flag is set after `submit`, and reset by the task. A server that
   fails at once, because an earlier activity's server listens on its port, resets it
   first (in the run, `BindFails` and `ResetRunning` come before `SetRunning`); the flag
   then stays up with no server behind it and the button is dead until the
   activity is recreated.

## 6. Abstractions

* A signal is a failure of a blocked call. `SIGPIPE` is left out: the Android
  runtime ignores it, and a write to a closed peer is lost.
* Socket buffers are unbounded, so `write` is never short and never blocks. The
  app's client reads all it is sent.
* `FD_SETSIZE` and memory (the `malloc` per message, never freed) are not modelled.
* Time: `sleep(100)`, the two seconds before a request and the five of a connect are
  steps that may happen at any moment; a request may reach the port before its server.
* A header that is not a header (the stream of another conversation) announces any
  length. What number four bytes make, negative ones included, is `LengthHeader`'s.
* In `IOMultiplexingDemo` a server fails, or is deaf, for one reason: another task of the
  app listens on its port. A port held by another process and a failing `socket()` or
  `setsockopt()` are in the servers' modules (`BindFails`, `SocketFails`); for the
  launcher they are the same early return, and `FailsOnlyAcrossActivities` speaks of
  taken ports only.
* `btPoll` has a button and no code.
* The staggered layout of the recycler view puts an item into the shortest lane, which
  depends on the heights of the pictures; the lanes are left out. `SpacedEvenly` is about
  the columns as the decoration counts them (`position % spanCount`).
* Menu entries are a set: `getData` sorts them, and position and entry come from the same
  sorted list.
* `DataBinding` takes `id` and `name`, set one after the other, as one property.

## 7. Not modelled

* **Vendored protobuf** (`cpp/google/protobuf`, with its compiler, generators and tests):
  third-party code, of which the app links the lite runtime. It makes up about 99 of a
  hundred lines of the repository, so the share of all lines that the models cover stays
  small however much of the app they cover.
* **Remote debugging** (`tool/remotedebug`): each button starts `setprop`, `stop` and
  `start` without waiting for any of them. What they do, in which order, and whether they
  may, is decided outside the app.
* **Binder demo**: binds a service with an empty method and never calls it; no state.
* **Address book messages** (`cpp/google/protobuf/addressbook.pb.cc`, `geSerializeBuffer`,
  `NativeProtoActivity`): generated code over the vendored runtime. The app builds one
  fixed book, serialises it and parses it in Java, in one call and without input. The
  comment at `cpp/native-lib.cpp:182` says that the same bytes cannot be deserialised
  natively; why does not follow from the source, and the call is commented out.
* **JNI glue** other than the pipe demo: straight-line calls into the virtual machine.
* **Application shell, layout and widget demos, Retrofit screen**: calls into the platform
  with no state of their own; `DensityDemoActivity` divides two numbers of the display.
* In `PipeDemo`, the child's `exit(0)` runs the exit handlers of a process forked from a
  virtual machine; what these do is not in the source.
* Memory (`malloc` unchecked, a buffer never freed), `FD_SETSIZE` and short writes, as
  said above; each is listed among the hazards with its reason.

## 8. Plan

Done, in this order: `Readn`, `EchoService`, `Sockets` and the servers, the process, the
launcher, with first proofs for all but epoll and the process; then `LengthHeader`, the
trie, the demos behind the menu and their composition, with proofs for the trie, the descriptor table
and the list view's pools. Every part with behaviour that the source decides has its
module.

Then the proofs that were left: the length header, both servers' conversations and their
refinement of `EchoService`, the epoll server's hold on its clients, the data binding, the
menu and the fragments, and the composition of the demos.

Last, the process: `EachItsOwn` and `AnswersAreRight` for every number of connections,
descriptors and taps, and the recycler view for every list, number of columns and spacing.

Every safety property of the passing runs that the proof system reaches has its theorem.
What is left is out of its reach (end of section 4) or not modelled (section 7).
