------------------------------ MODULE PipeDemo ------------------------------
(***************************************************************************)
(* PipeDemo.readPipe: the main thread makes a pipe, forks a child that     *)
(* writes "PIPE" into it, reads to the end of the stream, reaps the child  *)
(* and shows what it read. The descriptor table is the process's: other    *)
(* threads open and close files in it meanwhile, and a number that was     *)
(* closed is given out again. The kernel's pipe, fork and wait are         *)
(* external.                                                               *)
(***************************************************************************)
EXTENDS Integers, FiniteSets

CONSTANTS
  FdCount,     (* descriptor numbers the demos find free                  *)
  MaxReads,    (* bounds the taps                                         *)
  MaxOthers    (* bounds what other threads have open at once             *)

ASSUME PipeAssumption == FdCount \in Nat /\ MaxReads \in Nat /\ MaxOthers \in Nat

VARIABLES
  table,       (* descriptor number -> who opened it, or "free"           *)
  pPc,         (* readFromChildPipe: "idle", or the next system call      *)
  pipe_fd,     (* the two numbers, kept after they are closed             *)
  forked,      (* did fork() succeed in this call?                        *)
  forkFailed,  (* did it ever fail? history variable                      *)
  child,       (* "none", "running", "wrote" or "exited"                  *)
  inPipe,      (* what is in the pipe                                     *)
  buff,        (* what was read; in the end the text on the screen        *)
  reads        (* calls so far                                            *)

pipeVars == <<table, pPc, pipe_fd, forked, forkFailed, child, inPipe, buff, reads>>

Fds == 0 .. FdCount - 1
Owners == {"read end", "write end", "file", "other"}
FreeFds == {f \in Fds : table[f] = "free"}
Lowest(S) == CHOOSE f \in S : \A g \in S : f <= g

PipeInit ==
  /\ table = [f \in Fds |-> "free"]
  /\ pPc = "idle" /\ pipe_fd = <<0, 0>>
  /\ forked = FALSE /\ forkFailed = FALSE /\ child = "none"
  /\ inPipe = "" /\ buff = ""
  /\ reads = 0

-----------------------------------------------------------------------------
Call(from, to) == pPc = from /\ pPc' = to

\* pipe(pipe_fd) takes the two lowest numbers; short of two it fails.
MakePipe ==
  LET r == Lowest(FreeFds)
      w == Lowest(FreeFds \ {r})
  IN  /\ Cardinality(FreeFds) >= 2
      /\ reads < MaxReads /\ reads' = reads + 1
      /\ Call("idle", "fork")
      /\ pipe_fd' = <<r, w>>
      /\ table' = [table EXCEPT ![r] = "read end", ![w] = "write end"]
      /\ inPipe' = "" /\ buff' = ""
      /\ UNCHANGED <<forked, forkFailed, child>>

PipeFails ==
  /\ Cardinality(FreeFds) < 2
  /\ reads < MaxReads /\ reads' = reads + 1
  /\ pPc = "idle"
  /\ buff' = "create pipe error"
  /\ UNCHANGED <<table, pPc, pipe_fd, forked, forkFailed, child, inPipe>>

Fork ==
  /\ Call("fork", "close write end")
  /\ forked' = TRUE /\ child' = "running"
  /\ UNCHANGED <<table, pipe_fd, forkFailed, inPipe, buff, reads>>

\* A failed fork closes both ends and goes on into the parent's branch, which
\* closes them again: childPid is -1, not 0.
ForkFails ==
  /\ Call("fork", "close write end")
  /\ forked' = FALSE /\ forkFailed' = TRUE
  /\ table' = [table EXCEPT ![pipe_fd[1]] = "free", ![pipe_fd[2]] = "free"]
  /\ UNCHANGED <<pipe_fd, child, inPipe, buff, reads>>

\* The child has a table of its own: what it closes is closed there.
ChildWrites ==
  /\ child = "running"
  /\ child' = "wrote" /\ inPipe' = "PIPE"
  /\ UNCHANGED <<table, pPc, pipe_fd, forked, forkFailed, buff, reads>>

ChildExits ==
  /\ child = "wrote"
  /\ child' = "exited"
  /\ UNCHANGED <<table, pPc, pipe_fd, forked, forkFailed, inPipe, buff, reads>>

\* close(pipe_fd[1]) in the parent.
ClosedNot == table
ClosedWriteEnd == [table EXCEPT ![pipe_fd[2]] = "free"]

CloseWriteEnd ==
  /\ Call("close write end", "read")
  /\ table' = ClosedWriteEnd
  /\ UNCHANGED <<pipe_fd, forked, forkFailed, child, inPipe, buff, reads>>

\* End of stream: nothing left, and nobody holds the write end.
NothingLeft == inPipe = ""
EndOfStream ==
  inPipe = "" /\ child \notin {"running", "wrote"} /\ table[pipe_fd[2]] # "write end"

\* read(pipe_fd[0], buff, 4) > 0: the child's four bytes, or whatever the file
\* holds that has the number by now.
ReadSome ==
  /\ pPc = "read"
  /\ \/ table[pipe_fd[1]] = "read end" /\ inPipe # "" /\ buff' = inPipe /\ inPipe' = ""
     \/ table[pipe_fd[1]] \in {"file", "other"} /\ buff' = "foreign" /\ UNCHANGED inPipe
  /\ UNCHANGED <<table, pPc, pipe_fd, forked, forkFailed, child, reads>>

\* read() <= 0 ends the loop.
ReadEnds ==
  /\ Call("read", "close read end")
  /\ table[pipe_fd[1]] = "read end" => EndOfStream
  /\ UNCHANGED <<table, pipe_fd, forked, forkFailed, child, inPipe, buff, reads>>

ClosedWriteEndAgain == [table EXCEPT ![pipe_fd[2]] = "free"]
ClosedReadEnd == [table EXCEPT ![pipe_fd[1]] = "free"]

CloseReadEnd ==
  /\ Call("close read end", "waitpid")
  /\ table' = ClosedReadEnd
  /\ UNCHANGED <<pipe_fd, forked, forkFailed, child, inPipe, buff, reads>>

\* waitpid(childPid): with -1 and no child it returns at once. What is in buff
\* becomes the text; the other locals are gone.
Reap ==
  /\ Call("waitpid", "idle")
  /\ forked => child = "exited"
  /\ child' = "none"
  /\ pipe_fd' = <<0, 0>> /\ forked' = FALSE /\ inPipe' = ""
  /\ UNCHANGED <<table, forkFailed, buff, reads>>

Parent ==
  \/ Fork \/ ForkFails \/ CloseWriteEnd \/ ReadSome \/ ReadEnds \/ CloseReadEnd \/ Reap

Child == ChildWrites \/ ChildExits

\* The rest of the process.
OtherOpens ==
  /\ FreeFds # {} /\ Cardinality({f \in Fds : table[f] = "other"}) < MaxOthers
  /\ table' = [table EXCEPT ![Lowest(FreeFds)] = "other"]
  /\ UNCHANGED <<pPc, pipe_fd, forked, forkFailed, child, inPipe, buff, reads>>

OtherCloses ==
  /\ \E f \in Fds : table[f] = "other" /\ table' = [table EXCEPT ![f] = "free"]
  /\ UNCHANGED <<pPc, pipe_fd, forked, forkFailed, child, inPipe, buff, reads>>

PipeNext == MakePipe \/ PipeFails \/ Parent \/ Child \/ OtherOpens \/ OtherCloses

\* Both processes run on, but for a read() of somebody else's file, which may
\* block for ever; nobody has to tap.
OnStrangersFile == pPc = "read" /\ table[pipe_fd[1]] \in {"file", "other"}
ParentRuns == Parent /\ ~OnStrangersFile

PipeFair == WF_pipeVars(ParentRuns) /\ WF_pipeVars(Child)
PipeSpec == PipeInit /\ [][PipeNext]_pipeVars /\ PipeFair

-----------------------------------------------------------------------------
PipeTypeOK ==
  /\ table \in [Fds -> Owners \cup {"free"}]
  /\ pPc \in {"idle", "fork", "close write end", "read", "close read end", "waitpid"}
  /\ pipe_fd \in Int \X Int
  /\ forked \in BOOLEAN /\ forkFailed \in BOOLEAN
  /\ child \in {"none", "running", "wrote", "exited"}
  /\ inPipe \in {"", "PIPE"} /\ buff \in {"", "PIPE", "foreign", "create pipe error"}
  /\ reads \in 0 .. MaxReads

\* As long as no fork fails a call shows what the child wrote: the parent neither
\* stops reading before the child has written nor loses it to the empty last read.
\* After a failed fork even a later call may come to harm, by another thread's
\* late close of a number that the failed call had freed under it.
CallShowsPIPE == pPc = "waitpid" /\ ~forkFailed => buff = "PIPE"

\* Between two calls neither an end of the pipe nor a child is left over,
\* however the call ended and whoever took the numbers meanwhile.
NothingLeftOver ==
  pPc = "idle" =>
    /\ child = "none"
    /\ \A f \in Fds : table[f] \notin {"read end", "write end"}

\* A call does not hang: the parent drops its own copy of the write end before it
\* reads, so the child's exit ends the stream. Only a failed fork may make one
\* hang, in read() on a file that got the number.
ReadReturns == pPc # "idle" ~> pPc = "idle" \/ forkFailed
=============================================================================
