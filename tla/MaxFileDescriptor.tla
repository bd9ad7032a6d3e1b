-------------------------- MODULE MaxFileDescriptor --------------------------
(***************************************************************************)
(* MaxFileDescriptorActivity: a background task opens files until the      *)
(* table is full, posting the count to the main thread after each, closes  *)
(* them all and posts the result. The user may be at the pipe demo by then:*)
(* both work on the process's table, and the main thread handles no        *)
(* message while readFromChildPipe blocks it.                              *)
(***************************************************************************)
EXTENDS PipeDemo, Sequences

VARIABLES
  mPc,                    (* "none", "opening", "closing", "over"         *)
  fileDescriptorHolder,   (* the numbers opened, oldest first             *)
  i,                      (* how many                                     *)
  messages,               (* counts posted to the main thread             *)
  countTv                 (* the number on the screen                     *)

taskVars == <<mPc, fileDescriptorHolder, i, messages, countTv>>
fdVars == <<pipeVars, taskVars>>
restOfPipe == <<pPc, pipe_fd, forked, forkFailed, child, inPipe, buff, reads>>

TaskInit ==
  /\ mPc = "none"
  /\ fileDescriptorHolder = << >> /\ i = 0 /\ messages = << >> /\ countTv = 0

\* onCreate: executeOnExecutor.
StartTask ==
  /\ mPc = "none" /\ pPc = "idle"
  /\ mPc' = "opening"
  /\ UNCHANGED <<pipeVars, fileDescriptorHolder, i, messages, countTv>>

\* new FileOutputStream succeeds; i++; publishProgress(i).
OpenOne ==
  /\ mPc = "opening" /\ FreeFds # {}
  /\ table' = [table EXCEPT ![Lowest(FreeFds)] = "file"]
  /\ fileDescriptorHolder' = Append(fileDescriptorHolder, Lowest(FreeFds))
  /\ i' = i + 1
  /\ messages' = Append(messages, i')
  /\ UNCHANGED <<restOfPipe, mPc, countTv>>

\* FileNotFoundException: closeIOQuietly(all), break.
AfterFailureRetry == "opening"
AfterFailure == "closing"

OpenFails ==
  /\ mPc = "opening" /\ FreeFds = {}
  /\ mPc' = AfterFailure
  /\ UNCHANGED <<pipeVars, fileDescriptorHolder, i, messages, countTv>>

CloseOne ==
  /\ mPc = "closing" /\ fileDescriptorHolder # << >>
  /\ table' = [table EXCEPT ![Head(fileDescriptorHolder)] = "free"]
  /\ fileDescriptorHolder' = Tail(fileDescriptorHolder)
  /\ UNCHANGED <<restOfPipe, mPc, i, messages, countTv>>

\* return i, posted to onPostExecute.
LastKept(holder) == Len(holder) <= 1
AllClosed(holder) == holder = << >>

ReturnCount ==
  /\ mPc = "closing" /\ AllClosed(fileDescriptorHolder)
  /\ mPc' = "over"
  /\ messages' = Append(messages, i)
  /\ UNCHANGED <<pipeVars, fileDescriptorHolder, i, countTv>>

\* onProgressUpdate and onPostExecute, as long as the text view is there.
HandleMessage ==
  /\ pPc = "idle" /\ messages # << >>
  /\ countTv' = Head(messages)
  /\ messages' = Tail(messages)
  /\ UNCHANGED <<pipeVars, mPc, fileDescriptorHolder, i>>

Task == OpenOne \/ OpenFails \/ CloseOne \/ ReturnCount

FdInit == PipeInit /\ TaskInit

FdNext ==
  \/ PipeNext /\ UNCHANGED taskVars
  \/ StartTask \/ Task \/ HandleMessage

FdFair ==
  /\ WF_fdVars(ParentRuns /\ UNCHANGED taskVars)
  /\ WF_fdVars(Child /\ UNCHANGED taskVars)
  /\ WF_fdVars(Task) /\ WF_fdVars(HandleMessage)

FdSpec == FdInit /\ [][FdNext]_fdVars /\ FdFair

-----------------------------------------------------------------------------
FdTypeOK ==
  /\ PipeTypeOK
  /\ mPc \in {"none", "opening", "closing", "over"}
  /\ fileDescriptorHolder \in Seq(Fds)
  /\ i \in Nat /\ messages \in Seq(Nat) /\ countTv \in Nat

\* Neither demo closes a file of another thread, unless a fork failed: it is the
\* second close of the pipe's ends that hits strangers, and then the task's own
\* close, of a number that was taken from it.
StrangersAreSafe ==
  [][(pPc' # pPc \/ fileDescriptorHolder' # fileDescriptorHolder) /\ ~forkFailed =>
       \A f \in Fds :
         /\ table[f] = "other" => table'[f] # "free"
         /\ table[f] = "file" /\ table'[f] = "free" => mPc = "closing"]_fdVars

\* When the task is over none of its files is open, and the last number on the
\* screen is how many it had open at once, never more than the table has places
\* unless a failed fork took some from it.
TaskGivesBack ==
  mPc = "over" =>
    /\ \A f \in Fds : table[f] # "file"
    /\ messages = << >> => countTv = i
    /\ ~forkFailed => i <= FdCount

\* The task comes to its end and its result to the screen, even with others
\* opening and closing files beside it, unless a failed fork leaves the main
\* thread in a read() that blocks.
TaskEnds == mPc = "opening" ~> mPc = "over" /\ (messages = << >> \/ OnStrangersFile)

\* Pipe demo and task share one descriptor table, on two threads, with others: the
\* calls still show the child's word, neither leaves a number taken, and neither
\* closes what is not its own.
DescriptorsAreSafe ==
  /\ [](FdTypeOK /\ CallShowsPIPE /\ NothingLeftOver /\ TaskGivesBack)
  /\ StrangersAreSafe
=============================================================================
