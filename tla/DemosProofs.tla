---------------------------- MODULE DemosProofs ----------------------------
(***************************************************************************)
(* The demos of one device, for every instance size: pipe demo and         *)
(* descriptor limit task on one descriptor table, the list view demo's     *)
(* pools, the data binding demo's threads, the recycler view, the          *)
(* fragments and the menu, and all of them as the menu starts them. Behind *)
(* them, on variables of their own, the launching of the I/O multiplexing  *)
(* demo and the word trie.                                                 *)
(***************************************************************************)
EXTENDS Demos, IOMultiplexingDemo, Trie,
        FiniteSetTheorems, SequenceTheorems, WellFoundedInduction, TLAPS

-----------------------------------------------------------------------------
(* A set of numbers that is not empty has a least one.                     *)

LEMMA LeastIndex ==
  ASSUME NEW T \in SUBSET Nat, T # {}
  PROVE  \E x \in T : \A y \in T : x <= y
<1> DEFINE R == OpToRel(<, Nat)
<1>1. IsWellFoundedOn(R, Nat)
  BY NatLessThanWellFounded
<1>2. \A x, y \in Nat : y < x => <<y, x>> \in R
  BY DEF OpToRel
<1> HIDE DEF R
<1>3. PICK x \in T : \A y \in T : ~ (<<y, x>> \in R)
  BY <1>1, WFMin
<1>4. \A y \in T : x \in Nat /\ y \in Nat /\ ~ (y < x)
  BY <1>2, <1>3
<1> QED BY <1>4

-----------------------------------------------------------------------------
(* Pipe demo and descriptor limit task, for every size of the table, every *)
(* number of calls and whatever the other threads open and close: neither  *)
(* loses a number, nor closes one that is not its own as long as no fork   *)
(* fails.                                                                  *)
held == fileDescriptorHolder

\* The ends of a pipe are found where the call in progress keeps their numbers,
\* and no longer than it has to close them.
PipeEnds ==
  \A f \in Fds :
    /\ table[f] = "write end" => f = pipe_fd[2] /\ pPc \in {"fork", "close write end"}
    /\ table[f] = "read end" =>
         f = pipe_fd[1] /\ pPc \in {"fork", "close write end", "read", "close read end"}

\* The task holds every number that stands for its files.
FilesHeld == \A f \in Fds : table[f] = "file" => \E k \in 1 .. Len(held) : held[k] = f

\* The child lives between fork and wait only.
ChildInCall == pPc \in {"idle", "fork"} => child = "none"

\* Without failed forks the numbers a call and the task remember are what they were
\* opened for.
NumbersAreTrue ==
  ~ forkFailed =>
    /\ pPc \in {"fork", "close write end"} =>
         /\ pipe_fd[1] \in Fds /\ table[pipe_fd[1]] = "read end"
         /\ pipe_fd[2] \in Fds /\ table[pipe_fd[2]] = "write end"
    /\ pPc \in {"read", "close read end"} =>
         pipe_fd[1] \in Fds /\ table[pipe_fd[1]] = "read end"
    /\ \A k \in 1 .. Len(held) : table[held[k]] = "file"
    /\ \A k, l \in 1 .. Len(held) : held[k] = held[l] => k = l

\* Where the four bytes are.
BytesOnTheWay ==
  ~ forkFailed =>
    /\ pPc = "fork" => inPipe = "" /\ buff = ""
    /\ pPc \in {"close write end", "read"} =>
         /\ child \in {"running", "wrote", "exited"}
         /\ child = "running" => inPipe = ""
         /\ child # "running" => inPipe = "PIPE" \/ buff = "PIPE"
    /\ pPc \in {"close read end", "waitpid"} => buff = "PIPE"

\* What the task counted, and what of it is on its way to the screen.
CountIsRight ==
  /\ mPc \in {"none", "over"} => held = << >>
  /\ mPc \in {"none", "opening"} => i = Len(held)
  /\ ~ forkFailed => i <= FdCount
  /\ mPc = "over" =>
       IF messages = << >> THEN countTv = i ELSE messages[Len(messages)] = i

\* The inductive invariant: a closing step frees a number somebody remembers, so what
\* it frees is known only with NumbersAreTrue, and that nothing is left over only
\* with PipeEnds and FilesHeld, its converse.
IInv ==
  /\ FdTypeOK /\ PipeEnds /\ FilesHeld /\ ChildInCall
  /\ NumbersAreTrue /\ BytesOnTheWay /\ CountIsRight

-----------------------------------------------------------------------------
LEMMA LowestIsOne ==
  ASSUME NEW S \in SUBSET Fds, S # {}
  PROVE  Lowest(S) \in S
<1> DEFINE R == OpToRel(<, Nat)
<1>1. IsWellFoundedOn(R, Nat)
  BY NatLessThanWellFounded
<1>2. \A x, y \in Nat : y < x => <<y, x>> \in R
  BY DEF OpToRel
<1> HIDE DEF R
<1>3. S \subseteq Nat
  BY PipeAssumption DEF Fds
<1>4. PICK x \in S : \A y \in S : ~ (<<y, x>> \in R)
  BY <1>1, <1>3, WFMin
<1>5. \A y \in S : x \in Nat /\ y \in Nat /\ ~ (y < x)
  BY <1>2, <1>3, <1>4
<1>6. \A y \in S : x <= y
  BY <1>5
<1> QED BY <1>6 DEF Lowest

LEMMA HeldAreNumbers ==
  ASSUME FdTypeOK
  PROVE  /\ Len(held) \in Nat /\ \A k \in 1 .. Len(held) : held[k] \in Fds
         /\ Len(messages) \in Nat
<1>1. held \in Seq(Fds) /\ messages \in Seq(Nat)
  BY DEF FdTypeOK, held
<1> QED BY <1>1, LenProperties, ElementOfSeq

LEMMA InvInit == FdInit => IInv
<1> SUFFICES ASSUME FdInit PROVE IInv
  OBVIOUS
<1>1. /\ table \in [Fds -> Owners \cup {"free"}]
      /\ \A f \in Fds : table[f] = "free"
  BY DEF FdInit, PipeInit
<1>2. pipe_fd \in Int \X Int /\ reads \in 0 .. MaxReads
  <2>1. pipe_fd = <<0, 0>> /\ reads = 0
    BY DEF FdInit, PipeInit
  <2>2. pipe_fd \in Int \X Int
    BY <2>1
  <2>3. reads \in 0 .. MaxReads
    BY <2>1, PipeAssumption
  <2> QED BY <2>2, <2>3
<1>3. /\ pPc = "idle" /\ forked = FALSE /\ forkFailed = FALSE /\ child = "none"
      /\ inPipe = "" /\ buff = "" /\ mPc = "none"
  BY DEF FdInit, PipeInit, TaskInit
<1>4. held = << >> /\ messages = << >> /\ i = 0 /\ countTv = 0
  BY DEF FdInit, TaskInit, held
<1>5. held \in Seq(Fds) /\ Len(held) = 0 /\ messages \in Seq(Nat)
  BY <1>4, EmptySeq
<1>6. FdTypeOK
  <2>1. PipeTypeOK
    BY <1>1, <1>2, <1>3 DEF PipeTypeOK
  <2> QED BY <2>1, <1>3, <1>4, <1>5 DEF FdTypeOK, held
<1>7. PipeEnds /\ ChildInCall /\ BytesOnTheWay
  BY <1>1, <1>3 DEF PipeEnds, ChildInCall, BytesOnTheWay
<1>8. FilesHeld /\ NumbersAreTrue
  <2>1. 1 .. Len(held) = {}
    BY <1>5
  <2>2. FilesHeld
    BY <1>1 DEF FilesHeld
  <2>3. NumbersAreTrue
    BY <1>3, <2>1 DEF NumbersAreTrue
  <2> QED BY <2>2, <2>3
<1>9. CountIsRight
  <2>1. i <= FdCount
    BY <1>4, PipeAssumption
  <2> QED BY <1>3, <1>4, <2>1 DEF CountIsRight
<1> QED BY <1>6, <1>7, <1>8, <1>9 DEF IInv

LEMMA PipeFailsKeeps == IInv /\ PipeFails /\ UNCHANGED taskVars => IInv'
<1> SUFFICES ASSUME IInv, PipeFails, UNCHANGED taskVars PROVE IInv'
  OBVIOUS
<1>1. FdTypeOK'
  <2>1. reads < MaxReads /\ reads' = reads + 1
    BY DEF PipeFails
  <2>2. reads \in 0 .. MaxReads
    BY DEF IInv, FdTypeOK, PipeTypeOK
  <2>3. reads' \in 0 .. MaxReads
    BY <2>1, <2>2, PipeAssumption
  <2>4. /\ buff' = "create pipe error"
        /\ UNCHANGED <<table, pPc, pipe_fd, forked, forkFailed, child, inPipe, taskVars>>
    BY DEF PipeFails
  <2> QED BY <2>3, <2>4 DEF IInv, FdTypeOK, PipeTypeOK, taskVars
<1> USE PipeAssumption DEF IInv, PipeFails, Call, taskVars, held
<1>2. PipeEnds'
  BY DEF PipeEnds, FdTypeOK, PipeTypeOK
<1>3. FilesHeld'
  BY DEF FilesHeld, FdTypeOK, PipeTypeOK
<1>4. ChildInCall'
  BY DEF ChildInCall
<1>5. NumbersAreTrue'
  BY HeldAreNumbers DEF NumbersAreTrue, FdTypeOK, PipeTypeOK
<1>6. BytesOnTheWay'
  BY DEF BytesOnTheWay, NumbersAreTrue, ChildInCall, FdTypeOK, PipeTypeOK
<1>7. CountIsRight'
  BY DEF CountIsRight
<1> QED BY <1>1, <1>2, <1>3, <1>4, <1>5, <1>6, <1>7

LEMMA ForkKeeps == IInv /\ Fork /\ UNCHANGED taskVars => IInv'
<1> SUFFICES ASSUME IInv, Fork, UNCHANGED taskVars PROVE IInv'
  OBVIOUS
<1> USE PipeAssumption DEF IInv, Fork, Call, taskVars, held
<1>1. FdTypeOK'
  BY DEF FdTypeOK, PipeTypeOK, Owners, Fds
<1>2. PipeEnds'
  BY DEF PipeEnds, FdTypeOK, PipeTypeOK
<1>3. FilesHeld'
  BY DEF FilesHeld, FdTypeOK, PipeTypeOK
<1>4. ChildInCall'
  BY DEF ChildInCall
<1>5. NumbersAreTrue'
  BY HeldAreNumbers DEF NumbersAreTrue, FdTypeOK, PipeTypeOK
<1>6. BytesOnTheWay'
  BY DEF BytesOnTheWay, NumbersAreTrue, ChildInCall, FdTypeOK, PipeTypeOK
<1>7. CountIsRight'
  BY DEF CountIsRight
<1> QED BY <1>1, <1>2, <1>3, <1>4, <1>5, <1>6, <1>7

LEMMA ForkFailsKeeps == IInv /\ ForkFails /\ UNCHANGED taskVars => IInv'
<1> SUFFICES ASSUME IInv, ForkFails, UNCHANGED taskVars PROVE IInv'
  OBVIOUS
<1> USE PipeAssumption DEF IInv, ForkFails, Call, taskVars, held
<1>1. FdTypeOK'
  BY DEF FdTypeOK, PipeTypeOK, Owners, Fds
<1>2. PipeEnds'
  BY DEF PipeEnds, FdTypeOK, PipeTypeOK
<1>3. FilesHeld'
  BY DEF FilesHeld, FdTypeOK, PipeTypeOK
<1>4. ChildInCall'
  BY DEF ChildInCall
<1>5. NumbersAreTrue'
  BY HeldAreNumbers DEF NumbersAreTrue, FdTypeOK, PipeTypeOK
<1>6. BytesOnTheWay'
  BY DEF BytesOnTheWay, NumbersAreTrue, ChildInCall, FdTypeOK, PipeTypeOK
<1>7. CountIsRight'
  BY DEF CountIsRight
<1> QED BY <1>1, <1>2, <1>3, <1>4, <1>5, <1>6, <1>7

LEMMA ChildWritesKeeps == IInv /\ ChildWrites /\ UNCHANGED taskVars => IInv'
<1> SUFFICES ASSUME IInv, ChildWrites, UNCHANGED taskVars PROVE IInv'
  OBVIOUS
<1> USE PipeAssumption DEF IInv, ChildWrites, Call, taskVars, held
<1>1. FdTypeOK'
  BY DEF FdTypeOK, PipeTypeOK, Owners, Fds
<1>2. PipeEnds'
  BY DEF PipeEnds, FdTypeOK, PipeTypeOK
<1>3. FilesHeld'
  BY DEF FilesHeld, FdTypeOK, PipeTypeOK
<1>4. ChildInCall'
  BY DEF ChildInCall
<1>5. NumbersAreTrue'
  BY HeldAreNumbers DEF NumbersAreTrue, FdTypeOK, PipeTypeOK
<1>6. BytesOnTheWay'
  BY DEF BytesOnTheWay, NumbersAreTrue, ChildInCall, FdTypeOK, PipeTypeOK
<1>7. CountIsRight'
  BY DEF CountIsRight
<1> QED BY <1>1, <1>2, <1>3, <1>4, <1>5, <1>6, <1>7

LEMMA ChildExitsKeeps == IInv /\ ChildExits /\ UNCHANGED taskVars => IInv'
<1> SUFFICES ASSUME IInv, ChildExits, UNCHANGED taskVars PROVE IInv'
  OBVIOUS
<1> USE PipeAssumption DEF IInv, ChildExits, Call, taskVars, held
<1>1. FdTypeOK'
  BY DEF FdTypeOK, PipeTypeOK, Owners, Fds
<1>2. PipeEnds'
  BY DEF PipeEnds, FdTypeOK, PipeTypeOK
<1>3. FilesHeld'
  BY DEF FilesHeld, FdTypeOK, PipeTypeOK
<1>4. ChildInCall'
  BY DEF ChildInCall
<1>5. NumbersAreTrue'
  BY HeldAreNumbers DEF NumbersAreTrue, FdTypeOK, PipeTypeOK
<1>6. BytesOnTheWay'
  BY DEF BytesOnTheWay, NumbersAreTrue, ChildInCall, FdTypeOK, PipeTypeOK
<1>7. CountIsRight'
  BY DEF CountIsRight
<1> QED BY <1>1, <1>2, <1>3, <1>4, <1>5, <1>6, <1>7

LEMMA CloseWriteEndKeeps == IInv /\ CloseWriteEnd /\ UNCHANGED taskVars => IInv'
<1> SUFFICES ASSUME IInv, CloseWriteEnd, UNCHANGED taskVars PROVE IInv'
  OBVIOUS
<1> USE PipeAssumption DEF IInv, CloseWriteEnd, ClosedWriteEnd, Call, taskVars, held
<1>1. FdTypeOK'
  BY DEF FdTypeOK, PipeTypeOK, Owners, Fds
<1>2. PipeEnds'
  BY DEF PipeEnds, FdTypeOK, PipeTypeOK
<1>3. FilesHeld'
  BY DEF FilesHeld, FdTypeOK, PipeTypeOK
<1>4. ChildInCall'
  BY DEF ChildInCall
<1>5. NumbersAreTrue'
  BY HeldAreNumbers DEF NumbersAreTrue, FdTypeOK, PipeTypeOK
<1>6. BytesOnTheWay'
  BY DEF BytesOnTheWay, NumbersAreTrue, ChildInCall, FdTypeOK, PipeTypeOK
<1>7. CountIsRight'
  BY DEF CountIsRight
<1> QED BY <1>1, <1>2, <1>3, <1>4, <1>5, <1>6, <1>7

LEMMA ReadSomeKeeps == IInv /\ ReadSome /\ UNCHANGED taskVars => IInv'
<1> SUFFICES ASSUME IInv, ReadSome, UNCHANGED taskVars PROVE IInv'
  OBVIOUS
<1> USE PipeAssumption DEF IInv, ReadSome, Call, taskVars, held
<1>1. FdTypeOK'
  BY DEF FdTypeOK, PipeTypeOK, Owners, Fds
<1>2. PipeEnds'
  BY DEF PipeEnds, FdTypeOK, PipeTypeOK
<1>3. FilesHeld'
  BY DEF FilesHeld, FdTypeOK, PipeTypeOK
<1>4. ChildInCall'
  BY DEF ChildInCall
<1>5. NumbersAreTrue'
  BY HeldAreNumbers DEF NumbersAreTrue, FdTypeOK, PipeTypeOK
<1>6. BytesOnTheWay'
  BY DEF BytesOnTheWay, NumbersAreTrue, ChildInCall, FdTypeOK, PipeTypeOK
<1>7. CountIsRight'
  BY DEF CountIsRight
<1> QED BY <1>1, <1>2, <1>3, <1>4, <1>5, <1>6, <1>7

LEMMA ReadEndsKeeps == IInv /\ ReadEnds /\ UNCHANGED taskVars => IInv'
<1> SUFFICES ASSUME IInv, ReadEnds, UNCHANGED taskVars PROVE IInv'
  OBVIOUS
<1> USE PipeAssumption DEF IInv, ReadEnds, Call, taskVars, held
<1>1. FdTypeOK'
  BY DEF FdTypeOK, PipeTypeOK, Owners, Fds
<1>2. PipeEnds'
  BY DEF PipeEnds, FdTypeOK, PipeTypeOK
<1>3. FilesHeld'
  BY DEF FilesHeld, FdTypeOK, PipeTypeOK
<1>4. ChildInCall'
  BY DEF ChildInCall
<1>5. NumbersAreTrue'
  BY HeldAreNumbers DEF NumbersAreTrue, FdTypeOK, PipeTypeOK
<1>6. BytesOnTheWay'
  BY DEF BytesOnTheWay, NumbersAreTrue, EndOfStream
<1>7. CountIsRight'
  BY DEF CountIsRight
<1> QED BY <1>1, <1>2, <1>3, <1>4, <1>5, <1>6, <1>7

LEMMA CloseReadEndKeeps == IInv /\ CloseReadEnd /\ UNCHANGED taskVars => IInv'
<1> SUFFICES ASSUME IInv, CloseReadEnd, UNCHANGED taskVars PROVE IInv'
  OBVIOUS
<1> USE PipeAssumption DEF IInv, CloseReadEnd, ClosedReadEnd, Call, taskVars, held
<1>1. FdTypeOK'
  BY DEF FdTypeOK, PipeTypeOK, Owners, Fds
<1>2. PipeEnds'
  BY DEF PipeEnds, FdTypeOK, PipeTypeOK
<1>3. FilesHeld'
  BY DEF FilesHeld, FdTypeOK, PipeTypeOK
<1>4. ChildInCall'
  BY DEF ChildInCall
<1>5. NumbersAreTrue'
  BY HeldAreNumbers DEF NumbersAreTrue, FdTypeOK, PipeTypeOK
<1>6. BytesOnTheWay'
  BY DEF BytesOnTheWay, NumbersAreTrue, ChildInCall, FdTypeOK, PipeTypeOK
<1>7. CountIsRight'
  BY DEF CountIsRight
<1> QED BY <1>1, <1>2, <1>3, <1>4, <1>5, <1>6, <1>7

LEMMA ZeroPair == <<0, 0>> \in Int \X Int
OBVIOUS

LEMMA ReapKeeps == IInv /\ Reap /\ UNCHANGED taskVars => IInv'
<1> SUFFICES ASSUME IInv, Reap, UNCHANGED taskVars PROVE IInv'
  OBVIOUS
<1> USE PipeAssumption DEF IInv, Reap, Call, taskVars, held
<1>1. FdTypeOK'
  <2>1. pipe_fd' = <<0, 0>>
    OBVIOUS
  <2>2. pipe_fd' \in Int \X Int
    BY <2>1, ZeroPair, Zenon
  <2> HIDE DEF Reap
  <2>3. /\ child' = "none" /\ pPc' = "idle" /\ forked' = FALSE /\ inPipe' = ""
        /\ UNCHANGED <<table, forkFailed, buff, reads, taskVars>>
    BY DEF Reap
  <2> QED BY <2>2, <2>3 DEF FdTypeOK, PipeTypeOK
<1>2. PipeEnds'
  BY DEF PipeEnds, FdTypeOK, PipeTypeOK
<1>3. FilesHeld'
  BY DEF FilesHeld, FdTypeOK, PipeTypeOK
<1>4. ChildInCall'
  BY DEF ChildInCall
<1>5. NumbersAreTrue'
  BY HeldAreNumbers DEF NumbersAreTrue, FdTypeOK, PipeTypeOK
<1>6. BytesOnTheWay'
  BY DEF BytesOnTheWay, NumbersAreTrue, ChildInCall, FdTypeOK, PipeTypeOK
<1>7. CountIsRight'
  BY DEF CountIsRight
<1> QED BY <1>1, <1>2, <1>3, <1>4, <1>5, <1>6, <1>7

LEMMA OtherClosesKeeps == IInv /\ OtherCloses /\ UNCHANGED taskVars => IInv'
<1> SUFFICES ASSUME IInv, OtherCloses, UNCHANGED taskVars PROVE IInv'
  OBVIOUS
<1> USE PipeAssumption DEF IInv, OtherCloses, Call, taskVars, held
<1>1. FdTypeOK'
  <2>1. PICK f \in Fds : table' = [table EXCEPT ![f] = "free"]
    OBVIOUS
  <2>2. table' \in [Fds -> Owners \cup {"free"}]
    BY <2>1 DEF FdTypeOK, PipeTypeOK
  <2> HIDE DEF IInv, OtherCloses
  <2>3. /\ pPc' = pPc /\ pipe_fd' = pipe_fd /\ forked' = forked /\ forkFailed' = forkFailed
        /\ child' = child /\ inPipe' = inPipe /\ buff' = buff /\ reads' = reads
    BY DEF OtherCloses
  <2>4. FdTypeOK /\ PipeTypeOK
    BY Zenon DEF IInv, FdTypeOK
  <2>5. PipeTypeOK'
    BY <2>2, <2>3, <2>4, Zenon DEF PipeTypeOK
  <2> QED BY <2>4, <2>5, Zenon DEF FdTypeOK
<1>2. PipeEnds'
  BY DEF PipeEnds, FdTypeOK, PipeTypeOK
<1>3. FilesHeld'
  BY DEF FilesHeld, FdTypeOK, PipeTypeOK
<1>4. ChildInCall'
  BY DEF ChildInCall
<1>5. NumbersAreTrue'
  <2>1. PICK f \in Fds : table[f] = "other" /\ table' = [table EXCEPT ![f] = "free"]
    OBVIOUS
  <2>2. table \in [Fds -> Owners \cup {"free"}] /\ \A k \in 1 .. Len(held) : held[k] \in Fds
    BY HeldAreNumbers DEF FdTypeOK, PipeTypeOK
  <2>3. \A g \in Fds : table[g] # "other" => table'[g] = table[g]
    BY <2>1, <2>2
  <2>4. /\ UNCHANGED <<pPc, pipe_fd, forkFailed, held>> /\ NumbersAreTrue
    OBVIOUS
  <2> HIDE DEF IInv, OtherCloses, held
  <2> QED BY <2>2, <2>3, <2>4 DEF NumbersAreTrue
<1>6. BytesOnTheWay'
  BY DEF BytesOnTheWay, NumbersAreTrue, ChildInCall, FdTypeOK, PipeTypeOK
<1>7. CountIsRight'
  BY DEF CountIsRight
<1> QED BY <1>1, <1>2, <1>3, <1>4, <1>5, <1>6, <1>7

-----------------------------------------------------------------------------
(* Numbers are given out. *)

LEMMA FreeIsFree ==
  ASSUME FreeFds # {}
  PROVE  Lowest(FreeFds) \in Fds /\ table[Lowest(FreeFds)] = "free"
<1>1. Lowest(FreeFds) \in FreeFds
  BY LowestIsOne DEF FreeFds
<1> QED BY <1>1 DEF FreeFds

LEMMA TwoAreFree ==
  ASSUME Cardinality(FreeFds) >= 2, NEW r, r = Lowest(FreeFds), NEW w, w = Lowest(FreeFds \ {r})
  PROVE  r \in Fds /\ w \in Fds /\ r # w /\ table[r] = "free" /\ table[w] = "free"
<1>1. FreeFds # {} /\ FreeFds \ {r} # {}
  <2>1. Cardinality({}) = 0 /\ Cardinality({r}) = 1
    BY FS_EmptySet, FS_Singleton
  <2>2. FreeFds # {} /\ FreeFds # {r}
    BY <2>1
  <2>3. r \in FreeFds
    BY <2>2, LowestIsOne DEF FreeFds
  <2> QED BY <2>2, <2>3
<1>2. r \in FreeFds /\ w \in FreeFds \ {r}
  BY <1>1, LowestIsOne DEF FreeFds
<1> QED BY <1>2 DEF FreeFds

LEMMA MakePipeKeeps == IInv /\ MakePipe /\ UNCHANGED taskVars => IInv'
<1> SUFFICES ASSUME IInv, MakePipe, UNCHANGED taskVars PROVE IInv'
  OBVIOUS
<1> DEFINE r == Lowest(FreeFds)
           w == Lowest(FreeFds \ {r})
<1>1. r \in Fds /\ w \in Fds /\ r # w /\ table[r] = "free" /\ table[w] = "free"
  <2>1. Cardinality(FreeFds) >= 2
    BY DEF MakePipe
  <2> QED BY <2>1, TwoAreFree
<1>2. /\ pPc = "idle" /\ pPc' = "fork" /\ inPipe' = "" /\ buff' = ""
      /\ pipe_fd' = <<r, w>>
      /\ table' = [table EXCEPT ![r] = "read end", ![w] = "write end"]
      /\ UNCHANGED <<forked, forkFailed, child>>
  BY DEF MakePipe, Call
<1>3. reads < MaxReads /\ reads' = reads + 1
  BY DEF MakePipe
<1> HIDE DEF r, w
<1>4. UNCHANGED <<mPc, fileDescriptorHolder, i, messages, countTv, held>>
  BY DEF taskVars, held
<1>5. table \in [Fds -> Owners \cup {"free"}] /\ FdTypeOK /\ PipeEnds /\ ChildInCall
  BY DEF IInv, FdTypeOK, PipeTypeOK
<1>6. /\ table' \in [Fds -> Owners \cup {"free"}]
      /\ table'[r] = "read end" /\ table'[w] = "write end"
      /\ \A f \in Fds \ {r, w} : table'[f] = table[f]
      /\ pipe_fd'[1] = r /\ pipe_fd'[2] = w
  BY <1>1, <1>2, <1>5 DEF Owners
<1>7. FdTypeOK'
  <2>1. reads' \in 0 .. MaxReads
    <3>1. reads \in 0 .. MaxReads
      BY <1>5 DEF FdTypeOK, PipeTypeOK
    <3> QED BY <1>3, <3>1, PipeAssumption
  <2>2. pipe_fd' \in Int \X Int
    <3>1. r \in Int /\ w \in Int
      BY <1>1 DEF Fds
    <3> QED BY <1>2, <3>1
  <2>3. PipeTypeOK'
    BY <1>2, <1>5, <1>6, <2>1, <2>2 DEF FdTypeOK, PipeTypeOK
  <2> QED BY <1>4, <1>5, <2>3 DEF FdTypeOK
<1>8. PipeEnds'
  BY <1>2, <1>5, <1>6 DEF PipeEnds
<1>9. FilesHeld'
  BY <1>4, <1>6 DEF IInv, FilesHeld
<1>10. ChildInCall'
  BY <1>2, <1>5 DEF ChildInCall
<1>11. NumbersAreTrue'
  <2>1. \A k \in 1 .. Len(held) : held[k] \in Fds
    BY <1>5, HeldAreNumbers
  <2>2. held' = held /\ forkFailed' = forkFailed /\ pPc' = "fork"
    BY <1>2, <1>4
  <2>3. NumbersAreTrue
    BY DEF IInv
  <2> SUFFICES ASSUME ~ forkFailed' PROVE NumbersAreTrue'
    BY DEF NumbersAreTrue
  <2>4. /\ \A k \in 1 .. Len(held) : table[held[k]] = "file"
        /\ \A k, l \in 1 .. Len(held) : held[k] = held[l] => k = l
    BY <2>2, <2>3 DEF NumbersAreTrue
  <2>5. \A k \in 1 .. Len(held) : table'[held[k]] = "file"
    <3> SUFFICES ASSUME NEW k \in 1 .. Len(held) PROVE table'[held[k]] = "file"
      OBVIOUS
    <3>1. held[k] \in Fds /\ held[k] # r /\ held[k] # w
      BY <1>1, <2>1, <2>4
    <3> QED BY <1>6, <2>4, <3>1
  <2>6. /\ pipe_fd'[1] \in Fds /\ table'[pipe_fd'[1]] = "read end"
        /\ pipe_fd'[2] \in Fds /\ table'[pipe_fd'[2]] = "write end"
    BY <1>1, <1>6
  <2> QED BY <2>2, <2>4, <2>5, <2>6 DEF NumbersAreTrue
<1>12. BytesOnTheWay'
  BY <1>2 DEF BytesOnTheWay
<1>13. CountIsRight'
  BY <1>2, <1>4 DEF IInv, CountIsRight
<1> QED BY <1>7, <1>8, <1>9, <1>10, <1>11, <1>12, <1>13 DEF IInv

LEMMA NumbersStay ==
  ASSUME NumbersAreTrue, UNCHANGED <<held, forkFailed, pPc, pipe_fd>>,
         \A k \in 1 .. Len(held) : held[k] \in Fds,
         \A f \in Fds : table[f] # "free" => table'[f] = table[f]
  PROVE  NumbersAreTrue'
<1> SUFFICES ASSUME ~ forkFailed' PROVE NumbersAreTrue'
  BY DEF NumbersAreTrue
<1>1. /\ \A k \in 1 .. Len(held) : table[held[k]] = "file"
      /\ \A k, l \in 1 .. Len(held) : held[k] = held[l] => k = l
  BY DEF NumbersAreTrue
<1>2. \A k \in 1 .. Len(held) : table'[held[k]] = "file"
  BY <1>1
<1>3. pPc \in {"fork", "close write end"} =>
         /\ pipe_fd[1] \in Fds /\ table'[pipe_fd[1]] = "read end"
         /\ pipe_fd[2] \in Fds /\ table'[pipe_fd[2]] = "write end"
  BY DEF NumbersAreTrue
<1>4. pPc \in {"read", "close read end"} =>
         pipe_fd[1] \in Fds /\ table'[pipe_fd[1]] = "read end"
  BY DEF NumbersAreTrue
<1> QED BY <1>1, <1>2, <1>3, <1>4 DEF NumbersAreTrue

LEMMA OtherOpensKeeps == IInv /\ OtherOpens /\ UNCHANGED taskVars => IInv'
<1> SUFFICES ASSUME IInv, OtherOpens, UNCHANGED taskVars PROVE IInv'
  OBVIOUS
<1> DEFINE f0 == Lowest(FreeFds)
<1>1. f0 \in Fds /\ table[f0] = "free"
  BY FreeIsFree DEF OtherOpens
<1>2. /\ table' = [table EXCEPT ![f0] = "other"]
      /\ UNCHANGED <<pPc, pipe_fd, forked, forkFailed, child, inPipe, buff, reads>>
  BY DEF OtherOpens
<1> HIDE DEF f0
<1>3. UNCHANGED <<mPc, fileDescriptorHolder, i, messages, countTv, held>>
  BY DEF taskVars, held
<1>4. table \in [Fds -> Owners \cup {"free"}] /\ FdTypeOK
  BY DEF IInv, FdTypeOK, PipeTypeOK
<1>5. /\ table' \in [Fds -> Owners \cup {"free"}] /\ table'[f0] = "other"
      /\ \A f \in Fds \ {f0} : table'[f] = table[f]
  BY <1>1, <1>2, <1>4 DEF Owners
<1>6. FdTypeOK'
  <2>1. PipeTypeOK'
    BY <1>2, <1>4, <1>5 DEF FdTypeOK, PipeTypeOK
  <2> QED BY <1>3, <1>4, <2>1 DEF FdTypeOK
<1>7. PipeEnds' /\ FilesHeld' /\ ChildInCall'
  BY <1>1, <1>2, <1>3, <1>5 DEF IInv, PipeEnds, FilesHeld, ChildInCall
<1>8. NumbersAreTrue'
  <2>1. \A k \in 1 .. Len(held) : held[k] \in Fds
    BY <1>4, HeldAreNumbers
  <2>2. \A f \in Fds : table[f] # "free" => table'[f] = table[f]
    BY <1>1, <1>5
  <2>3. UNCHANGED <<held, forkFailed, pPc, pipe_fd>>
    BY <1>2, <1>3
  <2> QED BY <2>1, <2>2, <2>3, NumbersStay DEF IInv
<1>9. BytesOnTheWay' /\ CountIsRight'
  BY <1>2, <1>3 DEF IInv, BytesOnTheWay, CountIsRight
<1> QED BY <1>6, <1>7, <1>8, <1>9 DEF IInv

-----------------------------------------------------------------------------
(* The task. *)

LEMMA PipeUntouched ==
  ASSUME IInv, UNCHANGED <<pipeVars, held>>
  PROVE  PipeEnds' /\ FilesHeld' /\ ChildInCall' /\ NumbersAreTrue' /\ BytesOnTheWay'
<1>1. UNCHANGED <<table, pPc, pipe_fd, forkFailed, child, inPipe, buff, held>>
  BY DEF pipeVars
<1>2. PipeEnds' /\ FilesHeld' /\ ChildInCall' /\ BytesOnTheWay'
  BY <1>1 DEF IInv, PipeEnds, FilesHeld, ChildInCall, BytesOnTheWay
<1>3. NumbersAreTrue'
  <2>1. \A k \in 1 .. Len(held) : held[k] \in Fds
    BY HeldAreNumbers DEF IInv
  <2> QED BY <1>1, <2>1, NumbersStay DEF IInv
<1> QED BY <1>2, <1>3

LEMMA PipeTypeStays ==
  ASSUME FdTypeOK, UNCHANGED <<restOfPipe>>, table' \in [Fds -> Owners \cup {"free"}]
  PROVE  PipeTypeOK'
BY DEF FdTypeOK, PipeTypeOK, restOfPipe

LEMMA StartTaskKeeps == IInv /\ StartTask => IInv'
<1> SUFFICES ASSUME IInv, StartTask PROVE IInv'
  OBVIOUS
<1>1. /\ mPc = "none" /\ mPc' = "opening"
      /\ UNCHANGED <<pipeVars, fileDescriptorHolder, i, messages, countTv, held>>
  BY DEF StartTask, held
<1>2. FdTypeOK'
  BY <1>1 DEF IInv, FdTypeOK, PipeTypeOK, pipeVars
<1>3. CountIsRight'
  BY <1>1 DEF IInv, CountIsRight, pipeVars
<1> QED BY <1>1, <1>2, <1>3, PipeUntouched DEF IInv

LEMMA OpenFailsKeeps == IInv /\ OpenFails => IInv'
<1> SUFFICES ASSUME IInv, OpenFails PROVE IInv'
  OBVIOUS
<1>1. /\ mPc = "opening" /\ mPc' = "closing"
      /\ UNCHANGED <<pipeVars, fileDescriptorHolder, i, messages, countTv, held>>
  BY DEF OpenFails, AfterFailure, held
<1>2. FdTypeOK'
  BY <1>1 DEF IInv, FdTypeOK, PipeTypeOK, pipeVars
<1>3. CountIsRight'
  BY <1>1 DEF IInv, CountIsRight, pipeVars
<1> QED BY <1>1, <1>2, <1>3, PipeUntouched DEF IInv

LEMMA ReturnCountKeeps == IInv /\ ReturnCount => IInv'
<1> SUFFICES ASSUME IInv, ReturnCount PROVE IInv'
  OBVIOUS
<1>1. /\ mPc' = "over" /\ held = << >> /\ messages' = Append(messages, i)
      /\ UNCHANGED <<pipeVars, fileDescriptorHolder, i, countTv, held>>
  BY DEF ReturnCount, AllClosed, held
<1>2. messages \in Seq(Nat) /\ i \in Nat
  BY DEF IInv, FdTypeOK
<1>3. messages' \in Seq(Nat) /\ messages' # << >> /\ messages'[Len(messages')] = i
  BY <1>1, <1>2, AppendProperties
<1>4. FdTypeOK'
  BY <1>1, <1>3 DEF IInv, FdTypeOK, PipeTypeOK, pipeVars
<1>5. CountIsRight'
  BY <1>1, <1>3 DEF IInv, CountIsRight, pipeVars
<1> QED BY <1>1, <1>4, <1>5, PipeUntouched DEF IInv

LEMMA HandleMessageKeeps == IInv /\ HandleMessage => IInv'
<1> SUFFICES ASSUME IInv, HandleMessage PROVE IInv'
  OBVIOUS
<1>1. /\ messages # << >> /\ countTv' = Head(messages) /\ messages' = Tail(messages)
      /\ UNCHANGED <<pipeVars, mPc, fileDescriptorHolder, i, held>>
  BY DEF HandleMessage, held
<1>2. messages \in Seq(Nat)
  BY DEF IInv, FdTypeOK
<1>3. messages' \in Seq(Nat) /\ countTv' \in Nat
  BY <1>1, <1>2, HeadTailProperties
<1>4. IF messages' = << >> THEN countTv' = messages[Len(messages)]
                           ELSE messages'[Len(messages')] = messages[Len(messages)]
  <2>1. /\ Len(messages) \in Nat /\ Len(messages) # 0 /\ Head(messages) = messages[1]
        /\ Len(messages') = Len(messages) - 1
        /\ \A k \in 1 .. Len(messages') : messages'[k] = messages[k + 1]
    BY <1>1, <1>2, HeadTailProperties, LenProperties, EmptySeq
  <2>2. CASE messages' = << >>
    <3>1. Len(messages') = 0
      BY <1>3, <2>2, EmptySeq
    <3>2. Len(messages) = 1
      BY <2>1, <3>1
    <3> QED BY <1>1, <2>1, <2>2, <3>2
  <2>3. CASE messages' # << >>
    <3>1. Len(messages') \in Nat /\ Len(messages') # 0
      BY <1>3, <2>3, EmptySeq, LenProperties
    <3>2. messages'[Len(messages')] = messages[Len(messages') + 1]
      BY <2>1, <3>1
    <3> QED BY <2>1, <2>3, <3>1, <3>2
  <2> QED BY <2>2, <2>3
<1>5. FdTypeOK'
  <2>1. mPc' = mPc /\ fileDescriptorHolder' = fileDescriptorHolder /\ i' = i /\ FdTypeOK
    BY <1>1 DEF IInv
  <2>2. PipeTypeOK' = PipeTypeOK
    BY <1>1, Zenon DEF PipeTypeOK, pipeVars
  <2> QED BY <1>3, <2>1, <2>2, Zenon DEF FdTypeOK
<1>6. CountIsRight'
  BY <1>1, <1>4 DEF IInv, CountIsRight, pipeVars
<1> QED BY <1>1, <1>5, <1>6, PipeUntouched DEF IInv

\* As many as there are numbers, when none is held twice.
LEMMA HoldsAtMostAll ==
  ASSUME NEW s \in Seq(Fds), \A k, l \in 1 .. Len(s) : s[k] = s[l] => k = l
  PROVE  Len(s) <= FdCount
<1> DEFINE n == Len(s)
           D == 1 .. n
<1>1. n \in Nat /\ s \in [D -> Fds]
  BY LenProperties
<1> HIDE DEF n
<1>2. IsFiniteSet(D) /\ Cardinality(D) = n
  BY <1>1, FS_Interval
<1>3. IsFiniteSet(Fds) /\ Cardinality(Fds) = FdCount
  BY PipeAssumption, FS_Interval DEF Fds
<1>4. SUFFICES ASSUME ~ (n <= FdCount) PROVE FALSE
  BY DEF n
<1>5. Cardinality(Fds) < Cardinality(D)
  BY <1>1, <1>2, <1>3, <1>4, PipeAssumption
<1> HIDE DEF D
<1>6. \E x, y \in D : x # y /\ s[x] = s[y]
  BY <1>1, <1>2, <1>3, <1>5, FS_PigeonHole
<1> QED BY <1>6 DEF D, n

LEMMA OpenOneKeeps == IInv /\ OpenOne => IInv'
<1> SUFFICES ASSUME IInv, OpenOne PROVE IInv'
  OBVIOUS
<1> DEFINE f0 == Lowest(FreeFds)
<1>1. f0 \in Fds /\ table[f0] = "free"
  BY FreeIsFree DEF OpenOne
<1>2. /\ mPc = "opening" /\ table' = [table EXCEPT ![f0] = "file"]
      /\ held' = Append(held, f0) /\ i' = i + 1 /\ messages' = Append(messages, i')
      /\ fileDescriptorHolder' = held'
      /\ UNCHANGED <<restOfPipe, mPc, countTv>>
  BY DEF OpenOne, held
<1>3. UNCHANGED <<pPc, pipe_fd, forkFailed, child, inPipe, buff>>
  BY <1>2 DEF restOfPipe
<1> HIDE DEF f0
<1>4. /\ table \in [Fds -> Owners \cup {"free"}] /\ FdTypeOK
      /\ held \in Seq(Fds) /\ i \in Nat /\ messages \in Seq(Nat)
  BY DEF IInv, FdTypeOK, PipeTypeOK, held
<1>5. /\ table' \in [Fds -> Owners \cup {"free"}] /\ table'[f0] = "file"
      /\ \A f \in Fds \ {f0} : table'[f] = table[f]
  BY <1>1, <1>2, <1>4 DEF Owners
<1>6. /\ held' \in Seq(Fds) /\ Len(held) \in Nat /\ Len(held') = Len(held) + 1
      /\ \A k \in 1 .. Len(held) : held'[k] = held[k]
      /\ held'[Len(held')] = f0
  BY <1>1, <1>2, <1>4, AppendProperties, LenProperties
<1>7. FdTypeOK'
  <2>1. i' \in Nat /\ messages' \in Seq(Nat)
    BY <1>2, <1>4, AppendProperties
  <2>2. PipeTypeOK'
    BY <1>2, <1>4, <1>5, PipeTypeStays
  <2> QED BY <1>2, <1>4, <1>6, <2>1, <2>2 DEF FdTypeOK
<1>8. PipeEnds' /\ ChildInCall' /\ BytesOnTheWay'
  BY <1>1, <1>3, <1>5 DEF IInv, PipeEnds, ChildInCall, BytesOnTheWay
<1>9. FilesHeld'
  <2> SUFFICES ASSUME NEW f \in Fds, table'[f] = "file"
               PROVE  \E k \in 1 .. Len(held') : held'[k] = f
    BY DEF FilesHeld
  <2>1. CASE f = f0
    BY <1>6, <2>1
  <2>2. CASE f # f0
    <3>1. PICK k \in 1 .. Len(held) : held[k] = f
      BY <1>5, <2>2 DEF IInv, FilesHeld
    <3> QED BY <1>6, <3>1
  <2> QED BY <2>1, <2>2
<1>10. NumbersAreTrue' /\ (~ forkFailed => \A k, l \in 1 .. Len(held') : held'[k] = held'[l] => k = l)
  <2> SUFFICES ASSUME ~ forkFailed
               PROVE  NumbersAreTrue' /\ \A k, l \in 1 .. Len(held') : held'[k] = held'[l] => k = l
    BY <1>3 DEF NumbersAreTrue
  <2>1. /\ \A k \in 1 .. Len(held) : table[held[k]] = "file"
        /\ \A k, l \in 1 .. Len(held) : held[k] = held[l] => k = l
    BY DEF IInv, NumbersAreTrue
  <2>2. \A k \in 1 .. Len(held) : held[k] \in Fds /\ held[k] # f0
    BY <1>1, <1>4, <2>1, ElementOfSeq
  <2>3. \A k \in 1 .. Len(held') : k \in 1 .. Len(held) \/ k = Len(held')
    BY <1>6
  <2>4. \A k \in 1 .. Len(held') : table'[held'[k]] = "file"
    BY <1>5, <1>6, <2>1, <2>2, <2>3
  <2>5. \A k, l \in 1 .. Len(held') : held'[k] = held'[l] => k = l
    BY <1>6, <2>1, <2>2, <2>3
  <2>6. pPc \in {"fork", "close write end"} =>
         /\ pipe_fd[1] \in Fds /\ table'[pipe_fd[1]] = "read end"
         /\ pipe_fd[2] \in Fds /\ table'[pipe_fd[2]] = "write end"
    BY <1>1, <1>5 DEF IInv, NumbersAreTrue
  <2>7. pPc \in {"read", "close read end"} =>
         pipe_fd[1] \in Fds /\ table'[pipe_fd[1]] = "read end"
    BY <1>1, <1>5 DEF IInv, NumbersAreTrue
  <2> QED BY <1>3, <2>4, <2>5, <2>6, <2>7 DEF NumbersAreTrue
<1>11. CountIsRight'
  <2>1. i' = Len(held')
    BY <1>2, <1>6 DEF IInv, CountIsRight
  <2>2. ~ forkFailed => i' <= FdCount
    BY <1>6, <1>10, <2>1, HoldsAtMostAll
  <2> QED BY <1>2, <1>3, <2>1, <2>2 DEF CountIsRight
<1> QED BY <1>7, <1>8, <1>9, <1>10, <1>11 DEF IInv

LEMMA CloseOneKeeps == IInv /\ CloseOne => IInv'
<1> SUFFICES ASSUME IInv, CloseOne PROVE IInv'
  OBVIOUS
<1> DEFINE f0 == Head(held)
<1>1. /\ mPc = "closing" /\ held # << >> /\ table' = [table EXCEPT ![f0] = "free"]
      /\ held' = Tail(held) /\ fileDescriptorHolder' = held'
      /\ UNCHANGED <<restOfPipe, mPc, i, messages, countTv>>
  BY DEF CloseOne, held
<1>2. UNCHANGED <<pPc, pipe_fd, forkFailed, child, inPipe, buff>>
  BY <1>1 DEF restOfPipe
<1>3. /\ table \in [Fds -> Owners \cup {"free"}] /\ FdTypeOK
      /\ held \in Seq(Fds)
  BY DEF IInv, FdTypeOK, PipeTypeOK, held
<1>4. /\ held' \in Seq(Fds) /\ Len(held) \in Nat /\ Len(held) # 0 /\ Len(held') = Len(held) - 1
      /\ \A k \in 1 .. Len(held') : held'[k] = held[k + 1]
      /\ f0 = held[1] /\ f0 \in Fds
  BY <1>1, <1>3, HeadTailProperties, LenProperties, EmptySeq
<1> HIDE DEF f0
<1>5. /\ table' \in [Fds -> Owners \cup {"free"}] /\ table'[f0] = "free"
      /\ \A f \in Fds \ {f0} : table'[f] = table[f]
  BY <1>1, <1>3, <1>4
<1>6. FdTypeOK'
  <2>1. PipeTypeOK'
    BY <1>1, <1>3, <1>5, PipeTypeStays
  <2> QED BY <1>1, <1>3, <1>4, <2>1 DEF FdTypeOK
<1>7. PipeEnds' /\ ChildInCall' /\ BytesOnTheWay'
  BY <1>2, <1>5 DEF IInv, PipeEnds, ChildInCall, BytesOnTheWay
<1>8. FilesHeld'
  <2> SUFFICES ASSUME NEW f \in Fds, table'[f] = "file"
               PROVE  \E k \in 1 .. Len(held') : held'[k] = f
    BY DEF FilesHeld
  <2>1. f # f0
    BY <1>5
  <2>2. PICK k \in 1 .. Len(held) : held[k] = f
    BY <1>5, <2>1 DEF IInv, FilesHeld
  <2>3. k - 1 \in 1 .. Len(held') /\ k = (k - 1) + 1
    BY <1>4, <2>1, <2>2
  <2> QED BY <1>4, <2>2, <2>3
<1>9. NumbersAreTrue'
  <2> SUFFICES ASSUME ~ forkFailed PROVE NumbersAreTrue'
    BY <1>2 DEF NumbersAreTrue
  <2>1. /\ \A k \in 1 .. Len(held) : table[held[k]] = "file"
        /\ \A k, l \in 1 .. Len(held) : held[k] = held[l] => k = l
    BY DEF IInv, NumbersAreTrue
  <2>2. \A k \in 1 .. Len(held') : /\ k + 1 \in 1 .. Len(held) /\ held'[k] = held[k + 1]
                                    /\ held'[k] \in Fds /\ held'[k] # f0
    <3> SUFFICES ASSUME NEW k \in 1 .. Len(held')
                 PROVE  /\ k + 1 \in 1 .. Len(held) /\ held'[k] = held[k + 1]
                        /\ held'[k] \in Fds /\ held'[k] # f0
      OBVIOUS
    <3>1. k + 1 \in 1 .. Len(held) /\ 1 \in 1 .. Len(held) /\ k + 1 # 1 /\ held'[k] = held[k + 1]
      BY <1>4
    <3>2. held[k + 1] \in Fds
      BY <1>3, <3>1, ElementOfSeq
    <3> QED BY <1>4, <2>1, <3>1, <3>2
  <2>3. \A k \in 1 .. Len(held') : table'[held'[k]] = "file"
    BY <1>5, <2>1, <2>2
  <2>4. \A k, l \in 1 .. Len(held') : held'[k] = held'[l] => k = l
    <3> SUFFICES ASSUME NEW k \in 1 .. Len(held'), NEW l \in 1 .. Len(held'), held'[k] = held'[l]
                 PROVE  k = l
      OBVIOUS
    <3>1. k + 1 = l + 1
      BY <2>1, <2>2
    <3> QED BY <1>4, <3>1
  <2>5. table[f0] = "file"
    BY <1>4, <2>1
  <2>6. pPc \in {"fork", "close write end"} =>
         /\ pipe_fd[1] \in Fds /\ table'[pipe_fd[1]] = "read end"
         /\ pipe_fd[2] \in Fds /\ table'[pipe_fd[2]] = "write end"
    BY <1>5, <2>5 DEF IInv, NumbersAreTrue
  <2>7. pPc \in {"read", "close read end"} =>
         pipe_fd[1] \in Fds /\ table'[pipe_fd[1]] = "read end"
    BY <1>5, <2>5 DEF IInv, NumbersAreTrue
  <2> QED BY <1>2, <2>3, <2>4, <2>6, <2>7 DEF NumbersAreTrue
<1>10. CountIsRight'
  BY <1>1, <1>2 DEF IInv, CountIsRight
<1> QED BY <1>6, <1>7, <1>8, <1>9, <1>10 DEF IInv

-----------------------------------------------------------------------------
LEMMA StutterKeeps == IInv /\ UNCHANGED fdVars => IInv'
<1> SUFFICES ASSUME IInv, UNCHANGED fdVars PROVE IInv'
  OBVIOUS
<1>1. UNCHANGED <<pipeVars, held, mPc, fileDescriptorHolder, i, messages, countTv>>
  BY DEF fdVars, taskVars, held
<1>2. FdTypeOK'
  <2>1. UNCHANGED <<table, pPc, pipe_fd, forked, forkFailed, child, inPipe, buff, reads>>
    BY <1>1 DEF pipeVars
  <2>2. PipeTypeOK'
    BY <2>1 DEF IInv, FdTypeOK, PipeTypeOK
  <2> QED BY <1>1, <2>2 DEF IInv, FdTypeOK
<1>3. CountIsRight'
  BY <1>1 DEF IInv, CountIsRight, pipeVars
<1> QED BY <1>1, <1>2, <1>3, PipeUntouched DEF IInv

LEMMA StepKeeps == IInv /\ [FdNext]_fdVars => IInv'
<1> SUFFICES ASSUME IInv, [FdNext]_fdVars PROVE IInv'
  OBVIOUS
<1>1. CASE PipeNext /\ UNCHANGED taskVars
  <2>1. CASE MakePipe \/ PipeFails
    BY <1>1, <2>1, MakePipeKeeps, PipeFailsKeeps
  <2>2. CASE Parent
    BY <1>1, <2>2, ForkKeeps, ForkFailsKeeps, CloseWriteEndKeeps, ReadSomeKeeps,
       ReadEndsKeeps, CloseReadEndKeeps, ReapKeeps DEF Parent
  <2>3. CASE Child
    BY <1>1, <2>3, ChildWritesKeeps, ChildExitsKeeps DEF Child
  <2>4. CASE OtherOpens \/ OtherCloses
    BY <1>1, <2>4, OtherOpensKeeps, OtherClosesKeeps
  <2> QED BY <1>1, <2>1, <2>2, <2>3, <2>4 DEF PipeNext
<1>2. CASE Task
  BY <1>2, OpenOneKeeps, OpenFailsKeeps, CloseOneKeeps, ReturnCountKeeps DEF Task
<1>3. CASE StartTask \/ HandleMessage
  BY <1>3, StartTaskKeeps, HandleMessageKeeps
<1>4. CASE UNCHANGED fdVars
  BY <1>4, StutterKeeps
<1> QED BY <1>1, <1>2, <1>3, <1>4 DEF FdNext

LEMMA WhatItMeans == IInv => FdTypeOK /\ CallShowsPIPE /\ NothingLeftOver /\ TaskGivesBack
<1> SUFFICES ASSUME IInv PROVE FdTypeOK /\ CallShowsPIPE /\ NothingLeftOver /\ TaskGivesBack
  OBVIOUS
<1>1. CallShowsPIPE
  BY DEF IInv, BytesOnTheWay, CallShowsPIPE
<1>2. NothingLeftOver
  BY DEF IInv, PipeEnds, ChildInCall, NothingLeftOver
<1>3. TaskGivesBack
  <2> SUFFICES ASSUME mPc = "over" PROVE TaskGivesBack
    BY DEF TaskGivesBack
  <2>1. held = << >>
    BY DEF IInv, CountIsRight
  <2>2. 1 .. Len(held) = {}
    BY <2>1
  <2>3. \A f \in Fds : table[f] # "file"
    BY <2>2 DEF IInv, FilesHeld
  <2> QED BY <2>3 DEF IInv, CountIsRight, TaskGivesBack
<1> QED BY <1>1, <1>2, <1>3 DEF IInv

\* What a step may free, as long as no fork has failed.
Safely ==
  (pPc' # pPc \/ held' # held) /\ ~ forkFailed =>
    \A f \in Fds :
      /\ table[f] = "other" => table'[f] # "free"
      /\ table[f] = "file" /\ table'[f] = "free" => mPc = "closing"

LEMMA ParentIsSafe == IInv /\ Parent => Safely
<1> SUFFICES ASSUME IInv, Parent, ~ forkFailed, NEW f \in Fds, table[f] \in {"file", "other"}
             PROVE  table'[f] = table[f]
  BY DEF Safely
<1>1. table \in [Fds -> Owners \cup {"free"}]
  BY DEF IInv, FdTypeOK, PipeTypeOK
<1>2. CASE ForkFails
  <2>1. /\ pPc = "fork"
        /\ table' = [table EXCEPT ![pipe_fd[1]] = "free", ![pipe_fd[2]] = "free"]
    BY <1>2 DEF ForkFails, Call
  <2>2. table[pipe_fd[1]] = "read end" /\ table[pipe_fd[2]] = "write end"
    BY <2>1 DEF IInv, NumbersAreTrue
  <2>3. f # pipe_fd[1] /\ f # pipe_fd[2]
    BY <2>2
  <2> QED BY <1>1, <2>1, <2>3
<1>3. CASE CloseWriteEnd
  <2>1. pPc = "close write end" /\ table' = [table EXCEPT ![pipe_fd[2]] = "free"]
    BY <1>3 DEF CloseWriteEnd, ClosedWriteEnd, Call
  <2>2. table[pipe_fd[2]] = "write end"
    BY <2>1 DEF IInv, NumbersAreTrue
  <2> QED BY <1>1, <2>1, <2>2
<1>4. CASE CloseReadEnd
  <2>1. pPc = "close read end" /\ table' = [table EXCEPT ![pipe_fd[1]] = "free"]
    BY <1>4 DEF CloseReadEnd, ClosedReadEnd, Call
  <2>2. table[pipe_fd[1]] = "read end"
    BY <2>1 DEF IInv, NumbersAreTrue
  <2> QED BY <1>1, <2>1, <2>2
<1>5. CASE Fork \/ ReadSome \/ ReadEnds \/ Reap
  BY <1>5 DEF Fork, ReadSome, ReadEnds, Reap
<1> QED BY <1>2, <1>3, <1>4, <1>5 DEF Parent

LEMMA StepIsSafe == IInv /\ [FdNext]_fdVars => [Safely]_fdVars
<1> SUFFICES ASSUME IInv, [FdNext]_fdVars PROVE [Safely]_fdVars
  OBVIOUS
<1>1. CASE PipeNext /\ UNCHANGED taskVars
  <2>1. held' = held
    BY <1>1 DEF taskVars, held
  <2>2. CASE MakePipe
    <3>1. Cardinality(FreeFds) >= 2 /\ table' = [table EXCEPT ![Lowest(FreeFds)] = "read end",
                                      ![Lowest(FreeFds \ {Lowest(FreeFds)})] = "write end"]
      BY <2>2 DEF MakePipe
    <3>2. table \in [Fds -> Owners \cup {"free"}]
      BY DEF IInv, FdTypeOK, PipeTypeOK
    <3>3. \A f \in Fds : table'[f] = "free" => table[f] = "free"
      BY <3>1, <3>2
    <3> QED BY <3>3 DEF Safely
  <2>3. CASE Parent
    BY <2>3, ParentIsSafe
  <2>4. CASE PipeFails \/ Child \/ OtherOpens \/ OtherCloses
    BY <2>1, <2>4 DEF Safely, PipeFails, Child, ChildWrites, ChildExits, OtherOpens, OtherCloses
  <2> QED BY <1>1, <2>2, <2>3, <2>4 DEF PipeNext
<1>2. CASE StartTask \/ OpenFails \/ ReturnCount \/ HandleMessage
  <2>1. UNCHANGED <<pPc, held>>
    BY <1>2 DEF StartTask, OpenFails, ReturnCount, HandleMessage, pipeVars, held
  <2> QED BY <2>1 DEF Safely
<1>3. CASE OpenOne
  <2>1. table' = [table EXCEPT ![Lowest(FreeFds)] = "file"]
    BY <1>3 DEF OpenOne
  <2>2. table \in [Fds -> Owners \cup {"free"}]
    BY DEF IInv, FdTypeOK, PipeTypeOK
  <2>3. \A f \in Fds : table'[f] = "free" => table[f] = "free"
    BY <2>1, <2>2
  <2> QED BY <2>3 DEF Safely
<1>4. CASE CloseOne
  <2> SUFFICES ASSUME ~ forkFailed, NEW f \in Fds, table[f] = "other"
               PROVE  mPc = "closing" /\ table'[f] # "free"
    BY <1>4 DEF Safely, CloseOne
  <2>1. held # << >> /\ table' = [table EXCEPT ![Head(held)] = "free"] /\ mPc = "closing"
    BY <1>4 DEF CloseOne, held
  <2>2. table \in [Fds -> Owners \cup {"free"}] /\ held \in Seq(Fds)
    BY DEF IInv, FdTypeOK, PipeTypeOK, held
  <2>3. Head(held) = held[1] /\ 1 \in 1 .. Len(held)
    BY <2>1, <2>2, HeadTailProperties, LenProperties, EmptySeq
  <2>4. table[Head(held)] = "file"
    BY <2>3 DEF IInv, NumbersAreTrue
  <2>5. f # Head(held)
    BY <2>4
  <2>6. table'[f] = table[f]
    BY <2>1, <2>2, <2>5
  <2> QED BY <2>1, <2>6
<1>5. CASE UNCHANGED fdVars
  BY <1>5
<1> QED BY <1>1, <1>2, <1>3, <1>4, <1>5 DEF FdNext, Task

LEMMA DescriptorsStaySafe == FdInit /\ [][FdNext]_fdVars => DescriptorsAreSafe
<1>1. FdInit => IInv
  BY InvInit
<1>2. IInv /\ [FdNext]_fdVars => IInv'
  BY StepKeeps
<1>3. IInv => FdTypeOK /\ CallShowsPIPE /\ NothingLeftOver /\ TaskGivesBack
  BY WhatItMeans
<1>4. IInv /\ [FdNext]_fdVars =>
        [(pPc' # pPc \/ fileDescriptorHolder' # fileDescriptorHolder) /\ ~forkFailed =>
           \A f \in Fds :
             /\ table[f] = "other" => table'[f] # "free"
             /\ table[f] = "file" /\ table'[f] = "free" => mPc = "closing"]_fdVars
  BY StepIsSafe DEF Safely, held
<1> QED BY <1>1, <1>2, <1>3, <1>4, PTL DEF DescriptorsAreSafe, StrangersAreSafe

\* Pipe demo and descriptor limit task on one table, and other threads beside them:
\* without a failed fork the call shows the child's word, and with or without one no
\* end of a pipe, no child and no file of the task is left over; no step of either
\* frees a stranger's number unless a fork has failed.
THEOREM DescriptorsAreSafeAlways == FdSpec => DescriptorsAreSafe
  BY DescriptorsStaySafe, PTL DEF FdSpec

-----------------------------------------------------------------------------
(* The list view demo's pools, for every number of recreations and every   *)
(* backlog of the main thread.                                             *)

\* The objects to come have pools nobody touched, and the object of the screen is
\* fresh until it is shown: what tells a first onResume from a return.
FreshPools ==
  /\ \A o \in Objects : o > object => pool[o] = "idle"
  /\ stage = "created" => pool[object] = "idle"

\* A run() that was begun has room for its post.
RoomForPost == \A o \in Objects : worker[o] = 1 => posts[o] < MaxPosts

LInv == ListViewTypeOK /\ OneTicker /\ FreshPools /\ RoomForPost

LEMMA LInit == ListViewInit => LInv
BY ListViewAssumption
   DEF ListViewInit, LInv, ListViewTypeOK, OneTicker, Ticks, FreshPools, RoomForPost, Objects

LEMMA MainThreadKeeps ==
  LInv /\ (ScheduleTask \/ ShutPool \/ DestroyList \/ RecreateList) => LInv'
<1> USE ListViewAssumption
    DEF LInv, ListViewTypeOK, OneTicker, Ticks, FreshPools, RoomForPost, Objects
<1> SUFFICES ASSUME LInv, ScheduleTask \/ ShutPool \/ DestroyList \/ RecreateList
             PROVE  LInv'
  OBVIOUS
<1>1. CASE ScheduleTask
  BY <1>1 DEF ScheduleTask
<1>2. CASE ShutPool
  BY <1>2 DEF ShutPool, PoolShut
<1>3. CASE DestroyList
  BY <1>3 DEF DestroyList
<1>4. CASE RecreateList
  BY <1>4 DEF RecreateList
<1> QED BY <1>1, <1>2, <1>3, <1>4

LEMMA PoolThreadKeeps ==
  ASSUME LInv, NEW o \in Objects, Tick(o) \/ PostLog(o) \/ LogState(o)
  PROVE  LInv'
<1>1. UNCHANGED <<object, stage, pool>>
  BY DEF Tick, PostLog, LogState
<1>2. OneTicker' /\ FreshPools'
  BY <1>1 DEF LInv, OneTicker, Ticks, FreshPools
<1> USE ListViewAssumption DEF LInv, ListViewTypeOK, RoomForPost, Objects
<1>3. CASE Tick(o)
  BY <1>1, <1>2, <1>3 DEF Tick
<1>4. CASE PostLog(o)
  BY <1>1, <1>2, <1>4 DEF PostLog
<1>5. CASE LogState(o)
  BY <1>1, <1>2, <1>5 DEF LogState
<1> QED BY <1>3, <1>4, <1>5

LEMMA LStep == LInv /\ [ListViewNext]_lvVars => LInv'
<1> SUFFICES ASSUME LInv, [ListViewNext]_lvVars PROVE LInv'
  OBVIOUS
<1>1. CASE ListViewNext
  BY <1>1, MainThreadKeeps, PoolThreadKeeps DEF ListViewNext
<1>2. CASE UNCHANGED lvVars
  BY <1>2 DEF lvVars, LInv, ListViewTypeOK, OneTicker, Ticks, FreshPools, RoomForPost
<1> QED BY <1>1, <1>2

LEMMA NoCrashAtFirst == LInv /\ [ListViewNext]_lvVars => [stage = "created" => stage' # "crashed"]_lvVars
<1> SUFFICES ASSUME LInv, [ListViewNext]_lvVars, stage = "created", UNCHANGED lvVars => FALSE
             PROVE  stage' # "crashed"
  OBVIOUS
<1>1. CASE ScheduleTask
  BY <1>1 DEF ScheduleTask, LInv, FreshPools
<1>2. CASE ShutPool \/ DestroyList \/ RecreateList
  BY <1>2 DEF ShutPool, DestroyList, RecreateList
<1>3. CASE \E o \in Objects : Tick(o) \/ PostLog(o) \/ LogState(o)
  BY <1>3 DEF Tick, PostLog, LogState
<1> QED BY <1>1, <1>2, <1>3 DEF ListViewNext

LEMMA PoolsStayTame == ListViewInit /\ [][ListViewNext]_lvVars => PoolsAreTame
<1>1. ListViewInit => LInv
  BY LInit
<1>2. LInv /\ [ListViewNext]_lvVars => LInv'
  BY LStep
<1>3. LInv => ListViewTypeOK /\ OneTicker
  BY DEF LInv
<1>4. LInv /\ [ListViewNext]_lvVars => [stage = "created" => stage' # "crashed"]_lvVars
  BY NoCrashAtFirst
<1> QED BY <1>1, <1>2, <1>3, <1>4, PTL DEF PoolsAreTame, CrashesOnReturnOnly

\* At most one pool ticks, only while its activity is in front, and the exception of
\* a pool that was shut down meets a return only, never the first onResume of an
\* object, for every number of rotations and however slow the main thread is.
THEOREM PoolsAreTameAlways == ListViewSpec => PoolsAreTame
  BY PoolsStayTame, PTL DEF ListViewSpec

-----------------------------------------------------------------------------
(* The data binding demo: several users, each with a thread of its own, for*)
(* every number of returns to the screen.                                  *)

Users == [age : Nat, name : {"unixman", "shock"}, portrait : {"001", "005", "008"},
          address : {"NULL", "ShenZhen"}]

Threads == [pc : 0 .. 5, at : {"look", "assign", "notify"}, on : 0 .. MaxResumes, age : Nat]

BindingTypes ==
  /\ users \in Seq(Users) /\ Latest \in 0 .. MaxResumes
  /\ threads \in [Resumes -> Threads]
  /\ dirty \subseteq Props

\* A thread runs from its user's making on, and meets no earlier user.
ThreadsInStep ==
  \A t \in Resumes :
    /\ threads[t].pc = 0 <=> t > Latest
    /\ threads[t].pc \in {0, 5} => threads[t].at = "look"
    /\ threads[t].at \in {"assign", "notify"} => threads[t].on \in t .. Latest

\* An age has grown at most once for each thread that has read one.
Looked == {t \in Started : threads[t].pc # 1 \/ threads[t].at # "look"}
Oldest == 25 + Cardinality(Looked)
Carries(t) == threads[t].at = "assign" /\ threads[t].pc = 1

AgesAreCounted ==
  /\ \A u \in Started : users[u].age \in 25 .. Oldest
  /\ \A t \in Resumes : IF Carries(t) THEN threads[t].age \in 26 .. Oldest ELSE threads[t].age = 0

\* The thread of the last user has nobody else to change.
Past(t, k) == threads[t].pc > k \/ (threads[t].pc = k /\ threads[t].at = "notify")

LastIsBeingChanged ==
  Latest > 0 =>
    /\ Past(Latest, 1) => users[Latest].age >= 26
    /\ Past(Latest, 2) => users[Latest].name = "shock"
    /\ Past(Latest, 3) => users[Latest].portrait \in {"005", "008"}
    /\ Past(Latest, 4) => users[Latest].address = "ShenZhen"

BindingInv ==
  BindingTypes /\ ThreadsInStep /\ AgesAreCounted /\ LastIsBeingChanged /\ CleanIsShown

LEMMA ProgramSays ==
  /\ DOMAIN Program = 1 .. 4 /\ Len(Program) = 4
  /\ Program[1].prop = "age"
  /\ Program[2].prop = "name" /\ Program[2].val = "shock"
  /\ Program[3].prop = "portrait" /\ Program[3].val = "005"
  /\ Program[4].prop = "address" /\ Program[4].val = "ShenZhen"
BY DEF Program

\* The ways a thread's record changes.
Begun(r)         == [r EXCEPT !.pc = 1]
Gone(r, a, u, n) == [r EXCEPT !.at = a, !.on = u, !.age = n]
Through(r)       == [r EXCEPT !.pc = @ + 1, !.at = "look", !.on = 0]

LEMMA ThreadSteps ==
  ASSUME NEW r \in Threads
  PROVE  /\ Begun(r) \in Threads /\ Begun(r).pc = 1 /\ Begun(r).at = r.at /\ Begun(r).age = r.age
         /\ \A a \in {"look", "assign", "notify"}, u \in 0 .. MaxResumes, n \in Nat :
              LET s == Gone(r, a, u, n)
              IN  s \in Threads /\ s.pc = r.pc /\ s.at = a /\ s.on = u /\ s.age = n
         /\ r.pc < 5 => LET s == Through(r)
                        IN  s \in Threads /\ s.pc = r.pc + 1 /\ s.at = "look" /\ s.age = r.age
<1>1. r \in [pc : 0 .. 5, at : {"look", "assign", "notify"}, on : 0 .. MaxResumes, age : Nat]
  BY DEF Threads
<1>2. 0 \in 0 .. MaxResumes
  BY DataBindingAssumption
<1>3. Begun(r) \in Threads /\ Begun(r).pc = 1 /\ Begun(r).at = r.at /\ Begun(r).age = r.age
  BY <1>1 DEF Begun, Threads
<1>4. ASSUME NEW a \in {"look", "assign", "notify"}, NEW u \in 0 .. MaxResumes, NEW n \in Nat
      PROVE  LET s == Gone(r, a, u, n)
             IN  s \in Threads /\ s.pc = r.pc /\ s.at = a /\ s.on = u /\ s.age = n
  BY <1>1 DEF Gone, Threads
<1>5. ASSUME r.pc < 5
      PROVE  LET s == Through(r)
             IN  s \in Threads /\ s.pc = r.pc + 1 /\ s.at = "look" /\ s.age = r.age
  <2>1. PICK q \in 0 .. 5 : q = r.pc + 1
    BY <1>1, <1>5
  <2>2. Through(r) = [r EXCEPT !.pc = q, !.at = "look", !.on = 0]
    BY <2>1 DEF Through
  <2> QED BY <1>1, <1>2, <2>1, <2>2 DEF Threads
<1> QED BY <1>3, <1>4, <1>5

LEMMA GoneToAssign ==
  ASSUME NEW r \in Threads, NEW u \in 0 .. MaxResumes, NEW n \in Nat
  PROVE  LET s == Gone(r, "assign", u, n)
         IN  s \in Threads /\ s.pc = r.pc /\ s.at = "assign" /\ s.on = u /\ s.age = n
<1>1. r \in [pc : 0 .. 5, at : {"look", "assign", "notify"}, on : 0 .. MaxResumes, age : Nat]
  BY DEF Threads
<1> QED BY <1>1 DEF Gone, Threads

\* A setter changes one property and nothing else.
Set(u, p, v) == [u EXCEPT ![p] = v]

LEMMA SetAge ==
  ASSUME NEW u \in Users, NEW n \in Nat
  PROVE  /\ Set(u, "age", n) \in Users /\ Set(u, "age", n).age = n
         /\ Set(u, "age", n).name = u.name /\ Set(u, "age", n).portrait = u.portrait
         /\ Set(u, "age", n).address = u.address
         /\ \A q \in Props \ {"age"} : Set(u, "age", n)[q] = u[q]
BY DEF Set, Users, Props

LEMMA SetName ==
  ASSUME NEW u \in Users
  PROVE  /\ Set(u, "name", "shock") \in Users /\ Set(u, "name", "shock").name = "shock"
         /\ Set(u, "name", "shock").age = u.age /\ Set(u, "name", "shock").portrait = u.portrait
         /\ Set(u, "name", "shock").address = u.address
         /\ \A q \in Props \ {"name"} : Set(u, "name", "shock")[q] = u[q]
BY DEF Set, Users, Props

LEMMA SetPortrait ==
  ASSUME NEW u \in Users, NEW v \in {"005", "008"}
  PROVE  /\ Set(u, "portrait", v) \in Users /\ Set(u, "portrait", v).portrait = v
         /\ Set(u, "portrait", v).age = u.age /\ Set(u, "portrait", v).name = u.name
         /\ Set(u, "portrait", v).address = u.address
         /\ \A q \in Props \ {"portrait"} : Set(u, "portrait", v)[q] = u[q]
BY DEF Set, Users, Props

LEMMA SetAddress ==
  ASSUME NEW u \in Users
  PROVE  /\ Set(u, "address", "ShenZhen") \in Users
         /\ Set(u, "address", "ShenZhen").address = "ShenZhen"
         /\ Set(u, "address", "ShenZhen").age = u.age /\ Set(u, "address", "ShenZhen").name = u.name
         /\ Set(u, "address", "ShenZhen").portrait = u.portrait
         /\ \A q \in Props \ {"address"} : Set(u, "address", "ShenZhen")[q] = u[q]
BY DEF Set, Users, Props

LEMMA LookedIsFinite ==
  ASSUME BindingTypes
  PROVE  IsFiniteSet(Looked) /\ Cardinality(Looked) \in 0 .. Latest
<1>1. IsFiniteSet(1 .. Latest) /\ Cardinality(1 .. Latest) = Latest /\ Latest \in Nat
  BY FS_Interval DEF BindingTypes
<1>2. Looked \subseteq 1 .. Latest
  BY DEF Looked, Started
<1>3. IsFiniteSet(Looked) /\ Cardinality(Looked) <= Latest
  BY <1>1, <1>2, FS_Subset
<1>4. Cardinality(Looked) \in Nat
  BY <1>3, FS_CardinalityType
<1> QED BY <1>1, <1>3, <1>4

LEMMA BindingInit == DataBindingInit => BindingInv
<1> SUFFICES ASSUME DataBindingInit PROVE BindingInv
  OBVIOUS
<1> USE DataBindingAssumption DEF DataBindingInit
<1>1. << >> \in Seq(Users) /\ Latest = 0
  BY EmptySeq DEF Latest
<1>2. BindingTypes
  BY <1>1 DEF BindingTypes, Threads
<1>3. ThreadsInStep /\ AgesAreCounted /\ LastIsBeingChanged /\ CleanIsShown
  BY <1>1 DEF ThreadsInStep, AgesAreCounted, Carries, LastIsBeingChanged, CleanIsShown, Started, Resumes
<1> QED BY <1>2, <1>3 DEF BindingInv

LEMMA OnResumeKeeps == BindingInv /\ OnResume => BindingInv'
<1> SUFFICES ASSUME BindingInv, OnResume PROVE BindingInv'
  OBVIOUS
<1> USE DEF BindingInv
<1> DEFINE n == Latest + 1
<1>1. /\ users \in Seq(Users) /\ Latest \in Nat /\ n \in Resumes /\ Fresh \in Users
      /\ threads \in [Resumes -> Threads] /\ MaxResumes \in Nat
  BY DataBindingAssumption DEF OnResume, BindingTypes, Users, Fresh, Resumes
<1>2. /\ users' \in Seq(Users) /\ Latest' = n
      /\ \A u \in Started : users'[u] = users[u]
      /\ users'[n] = Fresh
      /\ dirty' = Props /\ n <= MaxResumes
  BY <1>1, AppendProperties DEF OnResume, Bound, Latest, Started
<1>3. threads[n].pc = 0 /\ threads[n].at = "look" /\ threads[n] \in Threads
  BY <1>1 DEF ThreadsInStep
<1>4. threads' = [threads EXCEPT ![n] = Begun(threads[n])]
  BY Zenon DEF OnResume, Begun
<1>5. /\ \A t \in Resumes : t # n => threads'[t] = threads[t]
      /\ threads'[n].pc = 1 /\ threads'[n].at = "look" /\ threads'[n].age = threads[n].age
      /\ threads' \in [Resumes -> Threads]
  BY <1>1, <1>3, <1>4, ThreadSteps
<1>6. Looked' = Looked
  <2>1. Started' = Started \cup {n} /\ n \notin Started /\ Started \subseteq Resumes \ {n}
    BY <1>1, <1>2 DEF Started, Resumes
  <2>2. \A t \in Started : threads'[t] = threads[t]
    BY <1>5, <2>1
  <2> QED BY <1>5, <2>1, <2>2 DEF Looked
<1>7. BindingTypes'
  BY <1>1, <1>2, <1>5 DEF BindingTypes, Resumes
<1>8. ThreadsInStep'
  BY <1>1, <1>2, <1>5 DEF ThreadsInStep, Resumes
<1>9. AgesAreCounted'
  <2>1. Fresh.age = 25 /\ Cardinality(Looked) \in Nat
    BY LookedIsFinite DEF Fresh
  <2>2. Oldest' = Oldest
    BY <1>6 DEF Oldest
  <2>3. ASSUME NEW u \in Started' PROVE users'[u].age \in 25 .. Oldest'
    <3>1. CASE u = n
      BY <1>2, <2>1, <2>2, <3>1 DEF Oldest
    <3>2. CASE u # n
      <4>1. u \in Started
        BY <1>1, <1>2, <3>2 DEF Started
      <4> QED BY <1>2, <2>2, <4>1 DEF AgesAreCounted
    <3> QED BY <3>1, <3>2
  <2>4. ASSUME NEW t \in Resumes
        PROVE  IF Carries(t)' THEN threads'[t].age \in 26 .. Oldest' ELSE threads'[t].age = 0
    <3>1. Carries(t)' = Carries(t) /\ threads'[t].age = threads[t].age
      BY <1>3, <1>5 DEF Carries
    <3> QED BY <2>2, <3>1 DEF AgesAreCounted
  <2> QED BY <2>3, <2>4 DEF AgesAreCounted
<1>10. LastIsBeingChanged' /\ CleanIsShown'
  BY <1>1, <1>2, <1>5 DEF LastIsBeingChanged, Past, CleanIsShown
<1> QED BY <1>7, <1>8, <1>9, <1>10

\* What a step of one thread leaves to the others.
LEMMA OtherThreads ==
  ASSUME BindingTypes, NEW t \in Resumes, NEW s \in Threads, threads' = [threads EXCEPT ![t] = s]
  PROVE  /\ threads' \in [Resumes -> Threads]
         /\ \A x \in Resumes : threads'[x] = IF x = t THEN s ELSE threads[x]
BY DEF BindingTypes

LEMMA LookKeeps == ASSUME NEW t \in Resumes, BindingInv, Look(t) PROVE BindingInv'
<1> USE DEF BindingInv
<1>1. PICK r \in Sees(t), a \in Sees(t) :
        Goes(t, "look", "assign", r, IF threads[t].pc = 1 THEN users[a].age + 1 ELSE 0)
  BY DEF Look
<1>2. /\ threads[t].pc \in 1 .. 4 /\ threads[t].at = "look" /\ threads[t] \in Threads
      /\ UNCHANGED <<users, dirty, screen>> /\ Latest' = Latest
      /\ users \in Seq(Users) /\ Latest \in Nat /\ Latest <= MaxResumes /\ Latest = Len(users)
      /\ t \in Nat \ {0} /\ MaxResumes \in Nat
  BY <1>1, ProgramSays, DataBindingAssumption
     DEF Look, Goes, BindingTypes, Latest, Resumes
<1>3. r \in t .. Latest /\ a \in t .. Latest /\ r \in 0 .. MaxResumes /\ t <= Latest
  BY <1>1, <1>2 DEF Sees
<1>4. users[a] \in Users /\ a \in Started
  BY <1>2, <1>3, ElementOfSeq DEF Started
<1>5. Cardinality(Looked) \in Nat /\ IsFiniteSet(Looked) /\ Cardinality(Looked) <= Latest
  BY LookedIsFinite, <1>2
<1>6. users[a].age \in Nat /\ users[a].age >= 25 /\ users[a].age <= 25 + Cardinality(Looked)
  BY <1>4, <1>5 DEF AgesAreCounted, Oldest
<1> DEFINE n == IF threads[t].pc = 1 THEN users[a].age + 1 ELSE 0
<1>7. n \in Nat
  BY <1>6
<1>8. threads' = [threads EXCEPT ![t] = Gone(threads[t], "assign", r, n)]
  BY <1>1, Zenon DEF Goes, Gone
<1> HIDE DEF n
<1>9. PICK s \in Threads : /\ s = Gone(threads[t], "assign", r, n)
                           /\ s.pc = threads[t].pc /\ s.at = "assign" /\ s.on = r /\ s.age = n
  <2>1. threads[t] \in Threads /\ r \in 0 .. MaxResumes
    BY <1>2, <1>3
  <2> HIDE DEF BindingInv
  <2> QED BY <1>7, <2>1, GoneToAssign
<1>10. /\ threads' \in [Resumes -> Threads]
       /\ \A x \in Resumes : threads'[x] = IF x = t THEN s ELSE threads[x]
  BY <1>8, <1>9, OtherThreads
<1>11. BindingTypes'
  BY <1>2, <1>10 DEF BindingTypes
<1>12. ThreadsInStep'
  <2>1. Latest' = Latest /\ r \in t .. Latest /\ threads[t].pc \in 1 .. 4
    BY <1>2, <1>3
  <2>2. ASSUME NEW x \in Resumes
        PROVE  /\ threads'[x].pc = 0 <=> x > Latest
               /\ threads'[x].pc \in {0, 5} => threads'[x].at = "look"
               /\ threads'[x].at \in {"assign", "notify"} => threads'[x].on \in x .. Latest
    <3>1. CASE x = t
      <4>1. threads[t].pc = 0 <=> t > Latest
        BY DEF ThreadsInStep
      <4> QED BY <2>1, <3>1, <4>1, <1>9, <1>10
    <3>2. CASE x # t
      BY <3>2, <1>10 DEF ThreadsInStep
    <3> QED BY <3>1, <3>2
  <2> QED BY <2>1, <2>2 DEF ThreadsInStep
<1>13. Looked' = Looked \cup {t}
  BY <1>2, <1>3, <1>9, <1>10 DEF Looked, Started, Resumes
<1>14. threads[t].pc = 1 <=> t \notin Looked
  BY <1>2, <1>3 DEF Looked, Started
<1>15. /\ threads[t].pc = 1 => Oldest' = Oldest + 1
       /\ threads[t].pc # 1 => Oldest' = Oldest
       /\ Oldest \in Nat /\ Oldest = 25 + Cardinality(Looked)
  <2>1. threads[t].pc = 1 => Cardinality(Looked \cup {t}) = Cardinality(Looked) + 1
    BY <1>5, <1>14, FS_AddElement
  <2>2. threads[t].pc # 1 => Looked \cup {t} = Looked
    BY <1>14
  <2>3. Oldest' = 25 + Cardinality(Looked \cup {t})
    BY <1>13 DEF Oldest
  <2>4. Oldest = 25 + Cardinality(Looked)
    BY DEF Oldest
  <2>5. PICK k \in Nat : k = Cardinality(Looked)
    BY <1>5
  <2>6. CASE threads[t].pc = 1
    <3>1. Oldest' = 25 + (k + 1) /\ Oldest = 25 + k
      BY <2>1, <2>3, <2>4, <2>5, <2>6, Zenon
    <3> QED BY <2>4, <2>6, <3>1
  <2>7. CASE threads[t].pc # 1
    <3>1. Oldest' = 25 + k /\ Oldest = 25 + k
      BY <2>2, <2>3, <2>4, <2>5, <2>7, Zenon
    <3> QED BY <2>4, <2>7, <3>1
  <2> QED BY <2>6, <2>7, Zenon
<1>16. AgesAreCounted'
  <2>1. ASSUME NEW u \in Started PROVE users'[u].age \in 25 .. Oldest'
    BY <1>2, <1>15 DEF AgesAreCounted
  <2>2. Started' = Started
    BY <1>2 DEF Started
  <2>3. ASSUME NEW x \in Resumes
        PROVE  IF Carries(x)' THEN threads'[x].age \in 26 .. Oldest' ELSE threads'[x].age = 0
    <3>1. CASE x = t
      <4>1. Carries(t)' <=> threads[t].pc = 1
        BY <1>9, <1>10 DEF Carries
      <4>2. threads'[t].age = n
        BY <1>9, <1>10
      <4>3. threads[t].pc = 1 => n \in 26 .. Oldest'
        BY <1>6, <1>15 DEF n
      <4>4. threads[t].pc # 1 => n = 0
        BY DEF n
      <4> QED BY <3>1, <4>1, <4>2, <4>3, <4>4
    <3>2. CASE x # t
      <4>1. threads'[x] = threads[x]
        BY <1>10, <3>2
      <4> QED BY <1>15, <4>1 DEF AgesAreCounted, Carries
    <3> QED BY <3>1, <3>2
  <2> QED BY <2>1, <2>2, <2>3 DEF AgesAreCounted
<1>17. LastIsBeingChanged'
  BY <1>2, <1>9, <1>10 DEF LastIsBeingChanged, Past, Resumes
<1>18. CleanIsShown'
  BY <1>2, <1>9, <1>10 DEF CleanIsShown, Started, Resumes
<1> QED BY <1>11, <1>12, <1>16, <1>17, <1>18

LEMMA NotifyKeeps == ASSUME NEW t \in Resumes, BindingInv, Notify(t) PROVE BindingInv'
<1> USE DEF BindingInv
<1>1. /\ threads[t].pc \in 1 .. 4 /\ threads[t].at = "notify" /\ threads[t] \in Threads
      /\ UNCHANGED <<users, screen>> /\ Latest' = Latest /\ Started' = Started
      /\ Latest \in Nat /\ Latest <= MaxResumes /\ t \in Nat \ {0} /\ MaxResumes \in Nat
      /\ t <= Latest
  BY DataBindingAssumption DEF Notify, BindingTypes, Threads, ThreadsInStep, Latest, Resumes, Started
<1>2. threads' = [threads EXCEPT ![t] = Through(threads[t])]
  BY Zenon DEF Notify, Through
<1>3. PICK s \in Threads : /\ s = Through(threads[t]) /\ s.pc = threads[t].pc + 1
                           /\ s.at = "look" /\ s.age = threads[t].age
  BY <1>1, ThreadSteps
<1>4. /\ threads' \in [Resumes -> Threads]
      /\ \A x \in Resumes : threads'[x] = IF x = t THEN s ELSE threads[x]
  BY <1>2, <1>3, OtherThreads
<1>5. PICK p \in Props : /\ p = Program[threads[t].pc].prop
                         /\ dirty' = IF threads[t].on = Latest THEN dirty \cup {p} ELSE dirty
  <2>1. Program[threads[t].pc].prop \in Props
    BY <1>1, ProgramSays DEF Props
  <2>2. dirty' = IF threads[t].on = Latest
                   THEN dirty \cup {Program[threads[t].pc].prop} ELSE dirty
    BY Zenon DEF Notify, Notified
  <2> QED BY <2>1, <2>2
<1>6. BindingTypes'
  BY <1>1, <1>4, <1>5 DEF BindingTypes
<1>7. ThreadsInStep'
  <2> SUFFICES ASSUME NEW x \in Resumes
               PROVE  /\ threads'[x].pc = 0 <=> x > Latest
                      /\ threads'[x].pc \in {0, 5} => threads'[x].at = "look"
                      /\ threads'[x].at \in {"assign", "notify"} => threads'[x].on \in x .. Latest
    BY <1>1 DEF ThreadsInStep
  <2>1. CASE x = t
    <3>1. threads'[x] = s /\ s.at = "look" /\ s.pc # 0 /\ ~ (x > Latest)
      BY <1>1, <1>3, <1>4, <2>1
    <3> QED BY <3>1
  <2>2. CASE x # t
    <3>1. threads'[x] = threads[x]
      BY <1>4, <2>2
    <3> QED BY <3>1 DEF ThreadsInStep
  <2> QED BY <2>1, <2>2
<1>8. Looked' = Looked
  BY <1>1, <1>3, <1>4 DEF Looked, Started, Resumes
<1>9. AgesAreCounted'
  <2>1. Oldest' = Oldest
    BY <1>8 DEF Oldest
  <2>2. ASSUME NEW x \in Resumes PROVE Carries(x)' = Carries(x) /\ threads'[x].age = threads[x].age
    BY <1>1, <1>3, <1>4 DEF Carries
  <2> QED BY <1>1, <2>1, <2>2 DEF AgesAreCounted
<1>10. LastIsBeingChanged'
  BY <1>1, <1>3, <1>4 DEF LastIsBeingChanged, Past, Resumes
<1>11. CleanIsShown'
  BY <1>1, <1>3, <1>4, <1>5 DEF CleanIsShown, Started, Resumes
<1> QED BY <1>6, <1>7, <1>9, <1>10, <1>11

\* User o becomes s.
LEMMA OtherUsers ==
  ASSUME BindingTypes, NEW o \in Started, NEW s \in Users, users' = [users EXCEPT ![o] = s]
  PROVE  /\ users' \in Seq(Users) /\ Latest' = Latest /\ Started' = Started
         /\ \A u \in Started : users'[u] = IF u = o THEN s ELSE users[u]
<1>1. users \in Seq(Users) /\ Started = 1 .. Len(users)
  BY DEF BindingTypes, Started, Latest
<1>2. /\ users' \in Seq(Users) /\ Len(users') = Len(users)
      /\ \A u \in 1 .. Len(users) : users'[u] = IF u = o THEN s ELSE users[u]
  BY <1>1, ExceptSeq
<1> QED BY <1>1, <1>2 DEF Latest, Started

LEMMA AssignKeeps == ASSUME NEW t \in Resumes, BindingInv, Assign(t) PROVE BindingInv'
<1> USE DEF BindingInv
<1>1. /\ threads[t].pc \in 1 .. 4 /\ threads[t].at = "assign" /\ threads[t] \in Threads
      /\ UNCHANGED <<dirty, screen>>
  BY ProgramSays DEF Assign, Goes, BindingTypes
<1>2. PICK k \in 1 .. 4 : k = threads[t].pc
  BY <1>1
<1>3. PICK o \in Started : o = threads[t].on /\ o \in t .. Latest /\ o \in 0 .. MaxResumes
  BY <1>1, DataBindingAssumption DEF ThreadsInStep, Resumes, BindingTypes, Started
<1>4. t \in Nat \ {0} /\ Latest \in Nat /\ Latest > 0 /\ t <= Latest
  BY <1>3 DEF Resumes, BindingTypes, Started
<1>5. Oldest \in Nat /\ Cardinality(Looked) \in Nat
  BY LookedIsFinite DEF Oldest
<1>6. PICK p \in Props : p = Program[k].prop
  BY ProgramSays DEF Props
<1>7. PICK w \in Users :
        /\ users' = [users EXCEPT ![o] = w]
        /\ \A q \in Props \ {p} : w[q] = users[o][q]
        /\ k = 1 => w.age \in Nat /\ w.age >= 26 /\ w.age <= Oldest
        /\ k # 1 => w.age = users[o].age
        /\ IF k = 2 THEN w.name = "shock" ELSE w.name = users[o].name
        /\ IF k = 3 THEN w.portrait = "005" ELSE w.portrait = users[o].portrait
        /\ IF k = 4 THEN w.address = "ShenZhen" ELSE w.address = users[o].address
  <2>1. users[o] \in Users
    BY <1>3, ElementOfSeq DEF BindingTypes, Started, Latest
  <2>2. users' = [users EXCEPT ![o] = Set(users[o], p, IF p = "age" THEN threads[t].age
                                                                  ELSE Program[k].val)]
    BY <1>2, <1>3, <1>6, Zenon DEF Assign, Set
  <2>3. CASE k = 1
    <3>1. threads[t].age \in 26 .. Oldest
      BY <1>1, <1>2, <2>3 DEF AgesAreCounted, Carries
    <3>2. PICK n \in Nat : n = threads[t].age /\ n >= 26 /\ n <= Oldest
      BY <1>5, <3>1
    <3>3. p = "age"
      BY <1>6, <2>3, ProgramSays
    <3>4. users' = [users EXCEPT ![o] = Set(users[o], "age", n)]
      BY <2>2, <3>2, <3>3
    <3>5. PICK w \in Users : /\ w = Set(users[o], "age", n) /\ w.age = n
                             /\ w.name = users[o].name /\ w.portrait = users[o].portrait
                             /\ w.address = users[o].address
                             /\ \A q \in Props \ {"age"} : w[q] = users[o][q]
      BY <2>1, SetAge
    <3>6. users' = [users EXCEPT ![o] = w]
      BY <3>4, <3>5, Zenon
    <3>7. \A q \in Props \ {p} : w[q] = users[o][q]
      BY <3>3, <3>5, Zenon
    <3>8. /\ k = 1 => w.age \in Nat /\ w.age >= 26 /\ w.age <= Oldest
          /\ k # 1 => w.age = users[o].age
      BY <2>3, <3>5, <3>2
    <3>9. /\ IF k = 2 THEN w.name = "shock" ELSE w.name = users[o].name
          /\ IF k = 3 THEN w.portrait = "005" ELSE w.portrait = users[o].portrait
          /\ IF k = 4 THEN w.address = "ShenZhen" ELSE w.address = users[o].address
      BY <2>3, <3>5
    <3> QED BY <3>6, <3>7, <3>8, <3>9, Zenon
  <2>4. CASE k = 2
    <3>1. p = "name" /\ Program[k].val = "shock"
      BY <1>6, <2>4, ProgramSays
    <3>2. users' = [users EXCEPT ![o] = Set(users[o], "name", "shock")]
      BY <2>2, <3>1
    <3>3. PICK w \in Users : /\ w = Set(users[o], "name", "shock") /\ w.name = "shock"
                             /\ w.age = users[o].age /\ w.portrait = users[o].portrait
                             /\ w.address = users[o].address
                             /\ \A q \in Props \ {"name"} : w[q] = users[o][q]
      BY <2>1, SetName
    <3>4. users' = [users EXCEPT ![o] = w]
      BY <3>2, <3>3, Zenon
    <3>5. \A q \in Props \ {p} : w[q] = users[o][q]
      BY <3>1, <3>3, Zenon
    <3>6. /\ k = 1 => w.age \in Nat /\ w.age >= 26 /\ w.age <= Oldest
          /\ k # 1 => w.age = users[o].age
      BY <2>4, <3>3
    <3>7. /\ IF k = 2 THEN w.name = "shock" ELSE w.name = users[o].name
          /\ IF k = 3 THEN w.portrait = "005" ELSE w.portrait = users[o].portrait
          /\ IF k = 4 THEN w.address = "ShenZhen" ELSE w.address = users[o].address
      BY <2>4, <3>3
    <3> QED BY <3>4, <3>5, <3>6, <3>7, Zenon
  <2>5. CASE k = 3
    <3>1. p = "portrait" /\ Program[k].val = "005"
      BY <1>6, <2>5, ProgramSays
    <3>2. users' = [users EXCEPT ![o] = Set(users[o], "portrait", "005")]
      BY <2>2, <3>1
    <3>3. PICK w \in Users : /\ w = Set(users[o], "portrait", "005") /\ w.portrait = "005"
                             /\ w.age = users[o].age /\ w.name = users[o].name
                             /\ w.address = users[o].address
                             /\ \A q \in Props \ {"portrait"} : w[q] = users[o][q]
      BY <2>1, SetPortrait
    <3>4. users' = [users EXCEPT ![o] = w]
      BY <3>2, <3>3, Zenon
    <3>5. \A q \in Props \ {p} : w[q] = users[o][q]
      BY <3>1, <3>3, Zenon
    <3>6. /\ k = 1 => w.age \in Nat /\ w.age >= 26 /\ w.age <= Oldest
          /\ k # 1 => w.age = users[o].age
      BY <2>5, <3>3
    <3>7. /\ IF k = 2 THEN w.name = "shock" ELSE w.name = users[o].name
          /\ IF k = 3 THEN w.portrait = "005" ELSE w.portrait = users[o].portrait
          /\ IF k = 4 THEN w.address = "ShenZhen" ELSE w.address = users[o].address
      BY <2>5, <3>3
    <3> QED BY <3>4, <3>5, <3>6, <3>7, Zenon
  <2>6. CASE k = 4
    <3>1. p = "address" /\ Program[k].val = "ShenZhen"
      BY <1>6, <2>6, ProgramSays
    <3>2. users' = [users EXCEPT ![o] = Set(users[o], "address", "ShenZhen")]
      BY <2>2, <3>1
    <3>3. PICK w \in Users : /\ w = Set(users[o], "address", "ShenZhen") /\ w.address = "ShenZhen"
                             /\ w.age = users[o].age /\ w.name = users[o].name
                             /\ w.portrait = users[o].portrait
                             /\ \A q \in Props \ {"address"} : w[q] = users[o][q]
      BY <2>1, SetAddress
    <3>4. users' = [users EXCEPT ![o] = w]
      BY <3>2, <3>3, Zenon
    <3>5. \A q \in Props \ {p} : w[q] = users[o][q]
      BY <3>1, <3>3, Zenon
    <3>6. /\ k = 1 => w.age \in Nat /\ w.age >= 26 /\ w.age <= Oldest
          /\ k # 1 => w.age = users[o].age
      BY <2>6, <3>3
    <3>7. /\ IF k = 2 THEN w.name = "shock" ELSE w.name = users[o].name
          /\ IF k = 3 THEN w.portrait = "005" ELSE w.portrait = users[o].portrait
          /\ IF k = 4 THEN w.address = "ShenZhen" ELSE w.address = users[o].address
      BY <2>6, <3>3
    <3> QED BY <3>4, <3>5, <3>6, <3>7, Zenon
  <2> QED BY <2>3, <2>4, <2>5, <2>6
<1>8. threads' = [threads EXCEPT ![t] = Gone(threads[t], "notify", o, 0)]
  BY <1>3, Zenon DEF Assign, Goes, Gone
<1>9. PICK s \in Threads : /\ s = Gone(threads[t], "notify", o, 0)
                           /\ s.pc = k /\ s.at = "notify" /\ s.on = o /\ s.age = 0
  BY <1>1, <1>2, <1>3, ThreadSteps
<1>10. /\ threads' \in [Resumes -> Threads]
       /\ \A x \in Resumes : threads'[x] = IF x = t THEN s ELSE threads[x]
  BY <1>8, <1>9, OtherThreads
<1>11. /\ users' \in Seq(Users) /\ Latest' = Latest /\ Started' = Started
       /\ \A u \in Started : users'[u] = IF u = o THEN w ELSE users[u]
  BY <1>7, OtherUsers
<1>12. BindingTypes'
  BY <1>1, <1>10, <1>11 DEF BindingTypes
<1>13. ThreadsInStep'
  BY <1>1, <1>2, <1>3, <1>4, <1>9, <1>10, <1>11 DEF ThreadsInStep
<1>14. Looked' = Looked
  <2>1. \A x \in Started : (threads[x].pc # 1 \/ threads[x].at # "look")
                             <=> (threads'[x].pc # 1 \/ threads'[x].at # "look")
    BY <1>1, <1>2, <1>4, <1>9, <1>10, DataBindingAssumption DEF Started, Resumes, BindingTypes
  <2> QED BY <1>11, <2>1 DEF Looked
<1>15. AgesAreCounted'
  <2>1. Oldest' = Oldest
    BY <1>14 DEF Oldest
  <2>2. ASSUME NEW u \in Started PROVE users'[u].age \in 25 .. Oldest
    <3>1. users[u].age \in 25 .. Oldest /\ users[o].age \in 25 .. Oldest
      BY DEF AgesAreCounted
    <3>2. w.age \in 25 .. Oldest
      BY <1>5, <1>7, <3>1
    <3>3. CASE u = o
      BY <1>11, <3>2, <3>3, Zenon
    <3>4. CASE u # o
      BY <1>11, <3>1, <3>4, Zenon
    <3> QED BY <3>3, <3>4
  <2>3. ASSUME NEW x \in Resumes
        PROVE  IF Carries(x)' THEN threads'[x].age \in 26 .. Oldest ELSE threads'[x].age = 0
    BY <1>9, <1>10 DEF AgesAreCounted, Carries
  <2> QED BY <1>11, <2>1, <2>2, <2>3 DEF AgesAreCounted
<1>16. LastIsBeingChanged'
  <2>1. PICK l \in Started : l = Latest /\ l \in Resumes
    BY <1>4 DEF Started, Resumes, BindingTypes
  <2>2. /\ Past(l, 1) => users[l].age >= 26
        /\ Past(l, 2) => users[l].name = "shock"
        /\ Past(l, 3) => users[l].portrait \in {"005", "008"}
        /\ Past(l, 4) => users[l].address = "ShenZhen"
    BY <1>4, <2>1 DEF LastIsBeingChanged
  <2>3. l = t => o = l
    BY <1>3, <1>4, <2>1
  <2>4. \A j \in 1 .. 4 : Past(l, j)' => Past(l, j) \/ (l = t /\ k = j)
    BY <1>1, <1>2, <1>9, <1>10, <2>1 DEF Past
  <2>5. /\ Past(l, 1)' => users'[l].age >= 26
        /\ Past(l, 2)' => users'[l].name = "shock"
        /\ Past(l, 3)' => users'[l].portrait \in {"005", "008"}
        /\ Past(l, 4)' => users'[l].address = "ShenZhen"
    BY <1>7, <1>11, <2>1, <2>2, <2>3, <2>4
  <2> QED BY <1>11, <2>1, <2>5 DEF LastIsBeingChanged
<1>17. CleanIsShown'
  <2> SUFFICES ASSUME NEW q \in Props
               PROVE  \/ q \in dirty
                      \/ screen[q] = users'[Latest][q]
                      \/ \E x \in Started :
                           /\ threads'[x].at = "notify" /\ threads'[x].on = Latest
                           /\ Program[threads'[x].pc].prop = q
    BY <1>1, <1>11 DEF CleanIsShown
  <2>1. t \in Started /\ Latest \in Started /\ Started \subseteq Resumes
    BY <1>4, DataBindingAssumption DEF Started, Resumes, BindingTypes
  <2>2. CASE o = Latest /\ q = p
    BY <1>6, <1>9, <1>10, <2>1, <2>2
  <2>3. CASE ~ (o = Latest /\ q = p)
    <3>1. users'[Latest][q] = users[Latest][q]
      <4>1. CASE o = Latest
        <5>1. users'[o] = w
          BY <1>11
        <5>2. q \in Props \ {p}
          BY <2>3, <4>1
        <5>3. w[q] = users[o][q]
          BY <1>7, <5>2, Zenon
        <5> QED BY <4>1, <5>1, <5>3, Zenon
      <4>2. CASE o # Latest
        BY <1>11, <2>1, <4>2, Zenon
      <4> QED BY <4>1, <4>2
    <3>2. \/ q \in dirty
          \/ screen[q] = users[Latest][q]
          \/ \E x \in Started :
               /\ threads[x].at = "notify" /\ threads[x].on = Latest
               /\ Program[threads[x].pc].prop = q
      BY <1>4 DEF CleanIsShown
    <3>3. \A x \in Started : threads[x].at = "notify" => threads'[x] = threads[x]
      BY <1>1, <1>10, <2>1
    <3> QED BY <3>1, <3>2, <3>3
  <2> QED BY <2>2, <2>3
<1> QED BY <1>12, <1>13, <1>15, <1>16, <1>17

LEMMA PortraitClickKeeps == ASSUME BindingInv, PortraitClick PROVE BindingInv'
<1> USE DEF BindingInv
<1>1. UNCHANGED <<threads, screen>> /\ Latest > 0
  BY DEF PortraitClick
<1>2. PICK o \in Started : o = Latest /\ users[o] \in Users
  BY <1>1, ElementOfSeq DEF Started, Latest, BindingTypes
<1>3. dirty' = dirty \cup {"portrait"} /\ "portrait" \in Props
  BY DEF PortraitClick, Notified, Props
<1>4. PICK w \in Users :
        /\ w = Set(users[o], "portrait", "008")
        /\ \A q \in Props \ {"portrait"} : w[q] = users[o][q]
        /\ w.age = users[o].age /\ w.name = users[o].name
        /\ w.portrait = "008" /\ w.address = users[o].address
  BY <1>2, SetPortrait
<1>5. users' = [users EXCEPT ![o] = w]
  <2>1. users' = [users EXCEPT ![o] = Set(users[o], "portrait", "008")]
    BY <1>2, Zenon DEF PortraitClick, Set
  <2> QED BY <1>4, <2>1
<1>6. /\ users' \in Seq(Users) /\ Latest' = Latest /\ Started' = Started
      /\ \A u \in Started : users'[u] = IF u = o THEN w ELSE users[u]
  BY <1>5, OtherUsers
<1>7. BindingTypes' /\ ThreadsInStep'
  BY <1>1, <1>3, <1>6 DEF BindingTypes, ThreadsInStep
<1>8. AgesAreCounted'
  <2>1. Looked' = Looked
    BY <1>1, <1>6 DEF Looked
  <2>2. Oldest' = Oldest
    BY <2>1 DEF Oldest
  <2> QED BY <1>1, <1>4, <1>6, <2>2 DEF AgesAreCounted, Carries
<1>9. LastIsBeingChanged'
  BY <1>1, <1>2, <1>4, <1>6 DEF LastIsBeingChanged, Past
<1>10. CleanIsShown'
  BY <1>1, <1>2, <1>3, <1>4, <1>6 DEF CleanIsShown
<1> QED BY <1>7, <1>8, <1>9, <1>10

LEMMA ShowKeeps ==
  ASSUME BindingInv, ExecuteBindings \/ UNCHANGED dbVars PROVE BindingInv'
<1> USE DEF BindingInv
<1>1. UNCHANGED <<users, threads>> /\ dirty' \subseteq Props
  BY DEF ExecuteBindings, dbVars, BindingTypes
<1>2. Latest' = Latest /\ Looked' = Looked /\ Started' = Started
  BY <1>1 DEF Latest, Looked, Started
<1>3. BindingTypes' /\ ThreadsInStep' /\ LastIsBeingChanged'
  BY <1>1, <1>2 DEF BindingTypes, ThreadsInStep, LastIsBeingChanged, Past
<1>4. AgesAreCounted'
  <2>1. Oldest' = Oldest
    BY <1>2 DEF Oldest
  <2> QED BY <1>1, <1>2, <2>1 DEF AgesAreCounted, Carries
<1>5. CleanIsShown'
  BY <1>1, <1>2 DEF ExecuteBindings, ShowDirty, dbVars, CleanIsShown
<1> QED BY <1>3, <1>4, <1>5

LEMMA BindingMeans == BindingInv => BindingIsRight
<1> SUFFICES ASSUME BindingInv PROVE BindingIsRight
  OBVIOUS
<1> USE DEF BindingInv
<1>1. /\ Latest \in Nat /\ Latest <= MaxResumes /\ MaxResumes \in Nat
      /\ Cardinality(Looked) \in Nat /\ Cardinality(Looked) <= Latest
  BY LookedIsFinite, DataBindingAssumption DEF BindingTypes
<1>2. Oldest \in Nat /\ Oldest <= 25 + Latest
  BY <1>1 DEF Oldest
<1>3. DataBindingTypeOK
  <2>1. \A u \in Started : users[u].age \in 25 .. 25 + MaxResumes
    BY <1>1, <1>2 DEF AgesAreCounted
  <2>2. ASSUME NEW t \in Resumes
        PROVE  threads[t] \in [pc : 0 .. Len(Program) + 1, on : 0 .. MaxResumes,
                               at : {"look", "assign", "notify"}, age : 0 .. 25 + MaxResumes]
    <3>1. threads[t].age \in 0 .. 25 + MaxResumes
      BY <1>1, <1>2 DEF AgesAreCounted
    <3>2. Len(Program) + 1 = 5 /\ threads[t] \in Threads
      BY ProgramSays DEF BindingTypes
    <3> QED BY <3>1, <3>2 DEF Threads
  <2> QED BY <2>1, <2>2 DEF DataBindingTypeOK, BindingTypes
<1>4. LastUserIsChanged
  <2> SUFFICES ASSUME Latest > 0, \A t \in Started : Done(t)
               PROVE  /\ users[Latest].name = "shock"
                      /\ users[Latest].address = "ShenZhen"
                      /\ users[Latest].portrait \in {"005", "008"}
                      /\ users[Latest].age \in 26 .. 25 + Latest
    BY DEF LastUserIsChanged
  <2>1. Latest \in Started /\ threads[Latest].pc = 5
    BY <1>1, ProgramSays DEF Started, Done
  <2>2. Past(Latest, 1) /\ Past(Latest, 2) /\ Past(Latest, 3) /\ Past(Latest, 4)
    BY <2>1 DEF Past
  <2>3. users[Latest].age \in 25 .. Oldest
    BY <2>1 DEF AgesAreCounted
  <2> QED BY <1>1, <1>2, <2>2, <2>3 DEF LastIsBeingChanged
<1> QED BY <1>3, <1>4 DEF BindingIsRight

LEMMA BindingStaysRight == DataBindingInit /\ [][DataBindingNext]_dbVars => []BindingIsRight
<1>1. BindingInv /\ [DataBindingNext]_dbVars => BindingInv'
  BY OnResumeKeeps, LookKeeps, AssignKeeps, NotifyKeeps, PortraitClickKeeps, ShowKeeps
     DEF DataBindingNext, Run
<1> QED BY BindingInit, BindingMeans, <1>1, PTL

\* Threads of earlier users and of the current one race with the main thread: for
\* any number of returns nothing they change gets lost, and the last user is changed
\* in every property, its age at most once per thread.
THEOREM BindingIsRightAlways == DataBindingSpec => []BindingIsRight
  BY BindingStaysRight, PTL DEF DataBindingSpec

-----------------------------------------------------------------------------
(* The master and detail screens, for every list and any number of clicks. *)

LEMMA FrontProperties ==
  ASSUME NEW S, NEW s \in Seq(S), s # << >>
  PROVE  /\ Front(s) \in Seq(S) /\ Len(Front(s)) = Len(s) - 1
         /\ \A j \in 1 .. Len(s) - 1 : Front(s)[j] = s[j]
<1>1. Len(s) \in Nat \ {0}
  BY EmptySeq
<1>2. \A j \in 1 .. Len(s) - 1 : s[j] \in S
  BY <1>1, ElementOfSeq
<1>3. /\ SubSeq(s, 1, Len(s) - 1) \in Seq(S)
      /\ Len(SubSeq(s, 1, Len(s) - 1)) = IF 1 <= Len(s) - 1 THEN Len(s) - 1 - 1 + 1 ELSE 0
      /\ \A j \in 1 .. Len(s) - 1 - 1 + 1 : SubSeq(s, 1, Len(s) - 1)[j] = s[1 + j - 1]
  <2>1. 1 \in Int /\ Len(s) - 1 \in Int
    BY <1>1
  <2> QED BY <1>2, <2>1, SubSeqProperties
<1>4. PICK n \in Nat : Len(s) = n + 1
  BY <1>1
<1>5. Front(s) = SubSeq(s, 1, n)
  BY <1>4 DEF Front
<1>6. \A j \in 1 .. n : SubSeq(s, 1, n)[j] = s[j]
  BY <1>3, <1>4
<1> QED BY <1>3, <1>4, <1>5, <1>6

TrainingTypes ==
  /\ large \in BOOLEAN /\ stale \in BOOLEAN
  /\ title \in Items \cup {originTitle} /\ text \in Items \cup {EmptyContent}

\* Before onCreate there are no details.
FewDetails ==
  /\ backStack \in Seq(Items) /\ commits \in Seq(Items)
  /\ Len(backStack) + Len(commits) <= MaxClicks
  /\ originTitle = "" => AllDetails = << >>

TrainingInv == TrainingTypes /\ FewDetails /\ TitleIsRight

LEMMA DetailsAreItems ==
  ASSUME backStack \in Seq(Items), commits \in Seq(Items)
  PROVE  /\ AllDetails \in Seq(Items) /\ Len(AllDetails) = Len(backStack) + Len(commits)
         /\ Len(AllDetails) \in Nat
         /\ commits = << >> => AllDetails = backStack
         /\ backStack = << >> => AllDetails = commits
  BY ConcatProperties, ConcatEmptySeq, LenProperties DEF AllDetails

LEMMA TrainingAtFirst == TrainingInit => TrainingInv
<1> SUFFICES ASSUME TrainingInit PROVE TrainingInv
  OBVIOUS
<1>1. backStack \in Seq(Items) /\ commits \in Seq(Items) /\ Len(backStack) = 0 /\ Len(commits) = 0
  BY EmptySeq DEF TrainingInit
<1>2. AllDetails = << >>
  BY <1>1, DetailsAreItems DEF TrainingInit
<1>3. FewDetails
  BY <1>1, <1>2, TrainingAssumption DEF FewDetails
<1>4. TrainingTypes /\ TitleIsRight
  BY <1>2, Zenon DEF TrainingInit, TrainingTypes, TitleIsRight
<1> QED BY <1>3, <1>4 DEF TrainingInv

\* All details are on the stack, or none is left.
LEMMA AllOnTheStack ==
  ASSUME TrainingInv, backStack' \in Seq(Items), commits' = << >>
  PROVE  AllDetails' = backStack' /\ commits' \in Seq(Items) /\ Len(commits') = 0
<1>1. commits' \in Seq(Items) /\ Len(commits') = 0
  BY EmptySeq
<1>2. AllDetails' = backStack'
  BY <1>1, ConcatEmptySeq DEF AllDetails
<1> QED BY <1>1, <1>2

LEMMA TrainingStep == TrainingInv /\ [TrainingNext]_trVars => TrainingInv'
<1> SUFFICES ASSUME TrainingInv, [TrainingNext]_trVars PROVE TrainingInv'
  OBVIOUS
<1>1. /\ AllDetails \in Seq(Items) /\ Len(AllDetails) = Len(backStack) + Len(commits)
      /\ Len(AllDetails) \in Nat /\ Len(backStack) \in Nat /\ Len(commits) \in Nat
      /\ commits = << >> => AllDetails = backStack
      /\ backStack = << >> => AllDetails = commits
  BY DetailsAreItems, LenProperties DEF TrainingInv, FewDetails
<1>8. /\ MaxClicks \in Nat /\ Len(backStack) + Len(commits) <= MaxClicks
      /\ originTitle = "" => AllDetails = << >>
  BY Zenon, TrainingAssumption DEF TrainingInv, FewDetails
<1>9. PICK n \in Nat, m \in Nat :
        /\ n = Len(commits) /\ m = Len(backStack) /\ m + n = Len(AllDetails)
        /\ m + n <= MaxClicks /\ MaxClicks \in Nat
  BY <1>1, <1>8, Zenon
<1>2. CASE OnCreateTraining
  <2>1. AllDetails = << >> /\ AllDetails' = AllDetails
    BY <1>2 DEF OnCreateTraining, TrainingInv, FewDetails, AllDetails
  <2>2. TrainingTypes' /\ TitleIsRight'
    BY <1>2, <2>1, Zenon DEF OnCreateTraining, TrainingInv, TrainingTypes, TitleIsRight
  <2>3. FewDetails'
    BY <1>2, <2>1, Zenon DEF OnCreateTraining, TrainingInv, FewDetails
  <2> QED BY <2>2, <2>3 DEF TrainingInv
<1>3. ASSUME NEW p \in Items, ClickLarge(p) PROVE TrainingInv'
  <2>1. AllDetails' = AllDetails /\ TitleIsRight' = TitleIsRight /\ FewDetails' = FewDetails
    BY <1>3, Zenon DEF ClickLarge, AllDetails, TitleIsRight, FewDetails
  <2>2. TrainingTypes'
    BY <1>3, Zenon DEF ClickLarge, TrainingInv, TrainingTypes
  <2> QED BY <1>3, <2>1, <2>2, Zenon DEF TrainingInv, ClickLarge
<1>4. ASSUME NEW p \in Items, ClickSmall(p) PROVE TrainingInv'
  <2>1. /\ commits' \in Seq(Items) /\ Len(commits') = Len(commits) + 1
        /\ commits'[Len(commits) + 1] = p
        /\ backStack' = << >> /\ backStack = << >> /\ Len(backStack) = 0
        /\ Len(commits) < MaxClicks /\ originTitle' = originTitle /\ originTitle # ""
    <3>1. /\ commits \in Seq(Items) /\ commits' = Append(commits, p) /\ backStack = << >>
          /\ backStack' = backStack /\ Len(commits) < MaxClicks
          /\ originTitle' = originTitle /\ originTitle # ""
      BY <1>4, Zenon DEF ClickSmall, TrainingInv, FewDetails
    <3> HIDE DEF TrainingInv
    <3>2. /\ commits' \in Seq(Items) /\ Len(commits') = Len(commits) + 1
          /\ commits'[Len(commits) + 1] = p
      BY <3>1, AppendProperties
    <3>3. Len(backStack) = 0
      BY <3>1, EmptySeq
    <3> QED BY <3>1, <3>2, <3>3, Zenon
  <2>2. AllDetails' = commits'
    BY <2>1, ConcatEmptySeq DEF AllDetails
  <2>3. commits' # << >> /\ Last(commits') = p
    <3>1. Len(commits') # 0
      <4>1. Len(commits') = n + 1
        BY <1>9, <2>1, Zenon
      <4>2. n + 1 # 0
        OBVIOUS
      <4> QED BY <4>1, <4>2
    <3>2. Len(<< >>) = 0
      BY EmptySeq
    <3>3. commits' # << >>
      BY <3>1, <3>2, Zenon
    <3> QED BY <2>1, <3>3, Zenon DEF Last
  <2>5. TrainingTypes' /\ TitleIsRight'
    BY <1>4, <2>2, <2>3, Zenon DEF ClickSmall, TrainingInv, TrainingTypes, TitleIsRight
  <2>6. FewDetails'
    <3>1. Len(backStack') = 0 /\ Len(commits') = n + 1 /\ n < MaxClicks
      BY <1>9, <2>1, Zenon
    <3>2. Len(backStack') + Len(commits') <= MaxClicks
      BY <1>9, <3>1
    <3>3. backStack' \in Seq(Items)
      BY <2>1, EmptySeq
    <3> QED BY <2>1, <3>2, <3>3, Zenon DEF FewDetails
  <2> QED BY <2>5, <2>6 DEF TrainingInv
<1>5. CASE RunCommits \/ RecreateTraining
  <2>1. backStack' \in Seq(Items) /\ backStack' = AllDetails /\ commits' = << >>
    BY <1>1, <1>5 DEF RunCommits, RecreateTraining
  <2>2. AllDetails' = AllDetails /\ commits' \in Seq(Items) /\ Len(commits') = 0
    BY <2>1, AllOnTheStack
  <2>3. CASE RunCommits
    <3>1. stale' = stale /\ originTitle' = originTitle
      BY <2>3 DEF RunCommits
    <3>2. FewDetails'
      <4>1. Len(backStack') + Len(commits') = Len(backStack) + Len(commits)
        BY <1>1, <2>1, <2>2
      <4> QED BY <1>8, <2>1, <2>2, <3>1, <4>1, Zenon DEF FewDetails
    <3>3. TrainingTypes' /\ TitleIsRight'
      BY <2>2, <2>3, Zenon DEF RunCommits, TrainingInv, TrainingTypes, TitleIsRight
    <3> QED BY <3>2, <3>3 DEF TrainingInv
  <2>4. CASE RecreateTraining
    <3>3. originTitle' = originTitle
      BY <2>4 DEF RecreateTraining
    <3>4. FewDetails'
      <4>1. Len(backStack') + Len(commits') = Len(backStack) + Len(commits)
        BY <1>1, <2>1, <2>2
      <4> QED BY <1>8, <2>1, <2>2, <3>3, <4>1, Zenon DEF FewDetails
    <3>5. TrainingTypes' /\ TitleIsRight'
      BY <2>2, <2>4, Zenon DEF RecreateTraining, TrainingInv, TrainingTypes, TitleIsRight
    <3> QED BY <3>4, <3>5 DEF TrainingInv
  <2> QED BY <1>5, <2>3, <2>4
<1>6. CASE OnBackPressed
  <2>1. /\ commits' = << >> /\ originTitle' = originTitle /\ large' = large
        /\ AllDetails = << >> => backStack' = << >> /\ text' = EmptyContent
        /\ AllDetails # << >> => backStack' = Front(AllDetails) /\ text' = text
        /\ Len(backStack') = 0 => title' = originTitle
        /\ Len(backStack') # 0 => title' = title
        /\ stale' = (backStack' # << >>)
    BY <1>6, Zenon DEF OnBackPressed, EntriesLeft
  <2>2. /\ backStack' \in Seq(Items) /\ Len(backStack') \in Nat
        /\ backStack' = << >> <=> Len(backStack') = 0
        /\ Len(backStack') <= Len(AllDetails)
        /\ Len(AllDetails) > 0 => Len(backStack') = Len(AllDetails) - 1
        /\ AllDetails = << >> => backStack' = << >>
    <3>1. CASE AllDetails = << >>
      <4>1. backStack' = << >>
        BY <2>1, <3>1
      <4>2. Len(backStack') = 0 /\ Len(AllDetails) = 0 /\ backStack' \in Seq(Items)
        BY <3>1, <4>1, EmptySeq
      <4> QED BY <4>1, <4>2
    <3>2. CASE AllDetails # << >>
      <4>1. backStack' = Front(AllDetails)
        BY <2>1, <3>2
      <4>2. Front(AllDetails) \in Seq(Items) /\ Len(Front(AllDetails)) = Len(AllDetails) - 1
        BY <1>1, <3>2, FrontProperties
      <4>3. Len(backStack') \in Nat /\ (backStack' = << >> <=> Len(backStack') = 0)
        BY <4>1, <4>2, LenProperties, EmptySeq
      <4> QED BY <1>1, <3>2, <4>1, <4>2, <4>3
    <3> QED BY <3>1, <3>2
  <2>3. AllDetails' = backStack' /\ commits' \in Seq(Items) /\ Len(commits') = 0
    BY <2>1, <2>2, AllOnTheStack
  <2>5. TitleIsRight'
    BY <2>1, <2>2, <2>3, Zenon DEF TitleIsRight
  <2>6. originTitle' = "" => AllDetails' = << >>
    BY <2>1, <2>2, <2>3 DEF TrainingInv, FewDetails
  <2>7. TrainingTypes'
    BY <2>1, Zenon DEF TrainingInv, TrainingTypes
  <2>8. Len(backStack') + Len(commits') <= MaxClicks
    <3>1. PICK k \in Nat : k = Len(backStack') /\ k <= m + n
      BY <1>9, <2>2, Zenon
    <3> QED BY <1>9, <2>3, <3>1
  <2> QED BY <2>2, <2>3, <2>5, <2>6, <2>7, <2>8 DEF TrainingInv, FewDetails
<1>7. CASE UNCHANGED trVars
  BY <1>7, Zenon DEF trVars, TrainingInv, TrainingTypes, FewDetails, TitleIsRight, AllDetails
<1> QED BY <1>2, <1>3, <1>4, <1>5, <1>6, <1>7 DEF TrainingNext

LEMMA TrainingMeans == TrainingInv => TrainingTypeOK /\ TitleIsRight
<1> SUFFICES ASSUME TrainingInv PROVE TrainingTypeOK /\ TitleIsRight
  OBVIOUS
<1>1. AllDetails \in Seq(Items) /\ Len(AllDetails) = Len(backStack) + Len(commits)
  BY DetailsAreItems DEF TrainingInv, FewDetails
<1>2. \A k \in DOMAIN AllDetails : AllDetails[k] \in Items
  BY <1>1, LenProperties, ElementOfSeq
<1>3. ToSet(AllDetails) \subseteq Items /\ Len(AllDetails) <= MaxClicks
  BY <1>1, <1>2 DEF TrainingInv, FewDetails, ToSet
<1> QED BY <1>3, Zenon DEF TrainingInv, TrainingTypes, TrainingTypeOK

-----------------------------------------------------------------------------
(* The menu, for every set of labels of which none leads on to another and *)
(* none is an entry of the top itself; the manifest's are such.            *)

LEMMA PrefixProperties ==
  ASSUME NEW S, NEW a \in Seq(S), NEW b \in Seq(S)
  PROVE  IsPrefix(a, b) <=> Len(a) <= Len(b) /\ \A j \in 1 .. Len(a) : a[j] = b[j]
<1>1. Len(a) \in Nat /\ Len(b) \in Nat
  BY LenProperties
<1>2. CASE Len(a) <= Len(b)
  <2>1. ASSUME NEW u \in Seq(S), Len(a) <= Len(u)
        PROVE  /\ SubSeq(u, 1, Len(a)) \in Seq(S) /\ Len(SubSeq(u, 1, Len(a))) = Len(a)
               /\ \A j \in 1 .. Len(a) : SubSeq(u, 1, Len(a))[j] = u[j]
    <3>1. Len(u) \in Nat /\ \A j \in 1 .. Len(a) : u[j] \in S
      BY <1>1, <2>1, LenProperties, ElementOfSeq
    <3>2. /\ SubSeq(u, 1, Len(a)) \in Seq(S)
          /\ Len(SubSeq(u, 1, Len(a))) = IF 1 <= Len(a) THEN Len(a) - 1 + 1 ELSE 0
          /\ \A j \in 1 .. Len(a) - 1 + 1 : SubSeq(u, 1, Len(a))[j] = u[1 + j - 1]
      BY <1>1, <3>1, SubSeqProperties
    <3>3. PICK n \in Nat : n = Len(a)
      BY <1>1
    <3> QED BY <3>2, <3>3
  <2>2. /\ SubSeq(a, 1, Len(a)) \in Seq(S) /\ Len(SubSeq(a, 1, Len(a))) = Len(a)
        /\ \A j \in 1 .. Len(a) : SubSeq(a, 1, Len(a))[j] = a[j]
    BY <1>1, <2>1
  <2>3. /\ SubSeq(b, 1, Len(a)) \in Seq(S) /\ Len(SubSeq(b, 1, Len(a))) = Len(a)
        /\ \A j \in 1 .. Len(a) : SubSeq(b, 1, Len(a))[j] = b[j]
    BY <1>2, <2>1
  <2>4. (\A j \in 1 .. Len(a) : a[j] = b[j]) => SubSeq(a, 1, Len(a)) = SubSeq(b, 1, Len(a))
    <3> SUFFICES ASSUME \A j \in 1 .. Len(a) : a[j] = b[j]
                 PROVE  SubSeq(a, 1, Len(a)) = SubSeq(b, 1, Len(a))
      OBVIOUS
    <3>1. \A j \in 1 .. Len(a) : SubSeq(a, 1, Len(a))[j] = SubSeq(b, 1, Len(a))[j]
      BY <2>2, <2>3
    <3> QED BY <2>2, <2>3, <3>1, SeqEqual
  <2> QED BY <1>2, <2>2, <2>3, <2>4 DEF IsPrefix
<1>3. CASE ~ (Len(a) <= Len(b))
  BY <1>3 DEF IsPrefix
<1> QED BY <1>2, <1>3

\* The menus there are lie above labels.
MenuInv ==
  /\ MenuTypeOK
  /\ path \in Seq(Parts)
  /\ \E l \in Labels : IsPrefix(path, l) /\ Len(path) < Len(l)

\* The entry of a label under the path: the label's next part.
LEMMA EntryOf ==
  ASSUME LabelsLeadDown, MenuInv, NEW l \in Labels, IsPrefix(path, l)
  PROVE  /\ l # path /\ Len(path) < Len(l) /\ l[Len(path) + 1] \in Parts
         /\ Title(l, path) = l[Len(path) + 1]
         /\ Append(path, Title(l, path)) \in Seq(Parts)
         /\ Len(Append(path, Title(l, path))) = Len(path) + 1
         /\ IsPrefix(Append(path, Title(l, path)), l)
         /\ Len(l) = Len(path) + 1 <=> Starts(path, l)
         /\ Starts(path, l) => Append(path, Title(l, path)) = l
<1>1. l \in Seq(Parts) /\ path \in Seq(Parts) /\ Len(l) > 1
  BY DEF LabelsLeadDown, MenuInv
<1>2. PICK n \in Nat, k \in Nat : n = Len(path) /\ k = Len(l)
  BY <1>1, LenProperties
<1>3. n <= k /\ \A j \in 1 .. n : path[j] = l[j]
  BY <1>1, <1>2, PrefixProperties
<1>4. l # path
  <2>1. PICK m \in Labels : IsPrefix(path, m) /\ Len(path) < Len(m)
    BY DEF MenuInv
  <2>2. m # path
    BY <1>2, <2>1
  <2> QED BY <2>1, <2>2 DEF LabelsLeadDown
<1>5. n < k
  BY <1>1, <1>2, <1>3, <1>4, SeqEqual
<1>6. l[n + 1] \in Parts
  BY <1>1, <1>2, <1>5, ElementOfSeq
<1>7. Title(l, path) = l[n + 1]
  BY <1>2, <1>4 DEF Title
<1>8. PICK a \in Seq(Parts) :
        /\ a = Append(path, Title(l, path)) /\ Len(a) = n + 1
        /\ \A j \in 1 .. n + 1 : a[j] = l[j]
  <2>1. /\ Append(path, l[n + 1]) \in Seq(Parts) /\ Len(Append(path, l[n + 1])) = n + 1
        /\ \A j \in 1 .. n : Append(path, l[n + 1])[j] = path[j]
        /\ Append(path, l[n + 1])[n + 1] = l[n + 1]
    BY <1>1, <1>2, <1>6, AppendProperties
  <2>2. \A j \in 1 .. n + 1 : j \in 1 .. n \/ j = n + 1
    OBVIOUS
  <2> QED BY <1>3, <1>7, <2>1, <2>2
<1>9. IsPrefix(a, l)
  <2>1. n + 1 <= k
    BY <1>5
  <2>2. Len(a) <= Len(l) /\ \A j \in 1 .. Len(a) : a[j] = l[j]
    BY <1>2, <1>8, <2>1, Zenon
  <2> QED BY <1>1, <2>2, PrefixProperties, Zenon
<1>10. ASSUME k = n + 1 PROVE a = l /\ path # << >>
  <2>1. Len(a) = Len(l) /\ \A j \in 1 .. Len(a) : a[j] = l[j]
    BY <1>2, <1>8, <1>10
  <2>2. n # 0 /\ Len(<< >>) = 0
    BY <1>1, <1>2, <1>10, EmptySeq
  <2> QED BY <1>1, <1>2, <1>8, <2>1, <2>2, SeqEqual
<1>11. ASSUME l = a PROVE k = n + 1
  BY <1>2, <1>8, <1>11
<1>12. Starts(path, l) <=> path # << >> /\ l = a
  BY <1>8, Zenon DEF Starts
<1> QED BY <1>2, <1>4, <1>5, <1>6, <1>7, <1>8, <1>9, <1>10, <1>11, <1>12

LEMMA MenuMeans == LabelsLeadDown /\ MenuInv => MenuTypeOK /\ LeadsToEveryDemo
<1> SUFFICES ASSUME LabelsLeadDown, MenuInv PROVE LeadsToEveryDemo
  BY DEF MenuInv
<1>1. \A l \in Labels : IsPrefix(path, l) =>
        [title |-> Title(l, path), starts |-> Starts(path, l)] \in Entries(path)
  BY Zenon DEF Entries
<1>2. Entries(path) # {}
  BY <1>1, Zenon DEF MenuInv
<1>3. ASSUME NEW l \in Labels, IsPrefix(path, l)
      PROVE  \E e \in Entries(path) : /\ IsPrefix(Append(path, e.title), l)
                                      /\ e.starts <=> Len(l) = Len(path) + 1
  <2>1. PICK e \in Entries(path) : e.title = Title(l, path) /\ e.starts = Starts(path, l)
    BY <1>1, <1>3
  <2> QED BY <1>3, <2>1, EntryOf, Zenon
<1> QED BY <1>2, <1>3 DEF LeadsToEveryDemo

LEMMA MenuAtFirst == LabelsLeadDown /\ MenuInit => MenuInv
<1> SUFFICES ASSUME LabelsLeadDown, MenuInit PROVE MenuInv
  OBVIOUS
<1>1. path \in Seq(Parts) /\ Len(path) = 0
  BY EmptySeq DEF MenuInit
<1>2. PICK l \in Labels : l \in Seq(Parts) /\ Len(l) > 1
  BY LabelsAssumption DEF LabelsLeadDown
<1>3. IsPrefix(path, l) /\ Len(path) < Len(l)
  <2>1. Len(l) \in Nat
    BY <1>2, LenProperties
  <2>2. PICK k \in Nat : k = Len(l) /\ k > 1
    BY <1>2, <2>1
  <2>3. 0 <= k /\ 0 < k /\ 1 .. 0 = {}
    BY <2>2
  <2>4. Len(path) <= Len(l) /\ Len(path) < Len(l) /\ \A j \in 1 .. Len(path) : path[j] = l[j]
    BY <1>1, <2>2, <2>3, Zenon
  <2> QED BY <1>1, <1>2, <2>4, PrefixProperties, Zenon
<1> QED BY <1>1, <1>3 DEF MenuInit, MenuInv, MenuTypeOK

LEMMA MenuStep == LabelsLeadDown /\ MenuInv /\ [MenuNext]_menuVars => MenuInv'
<1> SUFFICES ASSUME LabelsLeadDown, MenuInv, [MenuNext]_menuVars PROVE MenuInv'
  OBVIOUS
<1>1. ASSUME NEW e \in Entries(path), Click(e) PROVE MenuInv'
  <2>1. PICK l \in Labels : /\ IsPrefix(path, l)
                            /\ e.title = Title(l, path) /\ e.starts = Starts(path, l)
    <3>1. PICK l \in Labels : /\ IsPrefix(path, l)
                              /\ e = [title |-> Title(l, path), starts |-> Starts(path, l)]
      BY Zenon DEF Entries
    <3> QED BY <3>1
  <2>2. PICK a : a = Append(path, e.title)
    OBVIOUS
  <2>3. /\ a \in Seq(Parts) /\ Len(a) = Len(path) + 1 /\ IsPrefix(a, l)
        /\ Len(path) < Len(l) /\ (Len(l) = Len(path) + 1 <=> e.starts)
        /\ e.starts => a = l
    BY <2>1, <2>2, EntryOf, Zenon
  <2>4. CASE e.starts
    <3>1. demo' = l /\ path' = path
      BY <1>1, <2>2, <2>3, <2>4, Zenon DEF Click
    <3> QED BY <3>1 DEF MenuInv, MenuTypeOK
  <2>5. CASE ~ e.starts
    <3>1. path' = a /\ demo' = demo
      BY <1>1, <2>2, <2>5, Zenon DEF Click
    <3>2. Len(a) < Len(l)
      <4>1. PICK n \in Nat, k \in Nat : n = Len(path) /\ k = Len(l)
        BY LenProperties DEF MenuInv, LabelsLeadDown
      <4> QED BY <2>3, <2>5, <4>1
    <3> QED BY <2>3, <3>1, <3>2, Zenon DEF MenuInv, MenuTypeOK
  <2> QED BY <2>4, <2>5
<1>2. CASE LeaveDemo
  BY <1>2 DEF LeaveDemo, MenuInv, MenuTypeOK
<1>3. CASE LeaveMenu
  <2>1. path # << >> /\ path' = Front(path) /\ demo' = demo
    BY <1>3 DEF LeaveMenu
  <2>2. /\ path' \in Seq(Parts) /\ Len(path') = Len(path) - 1
        /\ \A j \in 1 .. Len(path) - 1 : path'[j] = path[j]
    BY <2>1, FrontProperties DEF MenuInv
  <2>3. PICK l \in Labels : IsPrefix(path, l) /\ Len(path) < Len(l)
    BY DEF MenuInv
  <2>4. PICK n \in Nat \ {0}, k \in Nat : n = Len(path) /\ k = Len(l) /\ l \in Seq(Parts)
    BY <2>1, EmptySeq, LenProperties DEF MenuInv, LabelsLeadDown
  <2>5. n <= k /\ n < k /\ \A j \in 1 .. n : path[j] = l[j]
    BY <2>3, <2>4, PrefixProperties DEF MenuInv
  <2>6. Len(path') = n - 1 /\ \A j \in 1 .. n - 1 : path'[j] = l[j]
    BY <2>2, <2>4, <2>5
  <2>7. IsPrefix(path', l) /\ Len(path') < Len(l)
    BY <2>2, <2>4, <2>5, <2>6, PrefixProperties
  <2> QED BY <2>1, <2>2, <2>7 DEF MenuInv, MenuTypeOK
<1>4. CASE UNCHANGED menuVars
  BY <1>4 DEF menuVars, MenuInv, MenuTypeOK
<1> QED BY <1>1, <1>2, <1>3, <1>4 DEF MenuNext

-----------------------------------------------------------------------------
(* The recycler view, for every list, number of columns and spacing. The   *)
(* offsets first: a column's share of the spacing is rounded down, and     *)
(* neighbours cut at the same share.                                       *)

\* Quotient and remainder, and that there is no other.
LEMMA Divided ==
  ASSUME NEW a \in Nat, NEW n \in Nat \ {0}
  PROVE  /\ a \div n \in Nat /\ a % n \in 0 .. n - 1
         /\ a = n * (a \div n) + (a % n)
  BY Z3

LEMMA DividedOnce ==
  ASSUME NEW n \in Nat \ {0}, NEW q \in Nat, NEW r \in 0 .. n - 1
  PROVE  (n * q + r) \div n = q /\ ((n * q + r) % n) = r
  OBVIOUS

\* Rounding down loses one at most when two numbers are added.
LEMMA DividedSums ==
  ASSUME NEW a \in Nat, NEW b \in Nat, NEW n \in Nat \ {0}
  PROVE  (a + b) \div n - a \div n - b \div n \in 0 .. 1
<1> DEFINE x == a \div n
           y == b \div n
           z == (a + b) \div n
<1>1. /\ x \in Int /\ y \in Int /\ z \in Int /\ a % n \in 0 .. n - 1 /\ b % n \in 0 .. n - 1
      /\ (a + b) % n \in 0 .. n - 1
      /\ a = n * x + (a % n) /\ b = n * y + (b % n)
      /\ a + b = n * z + ((a + b) % n)
  BY Divided
<1> HIDE DEF x, y, z
<1>2. n * (z - x - y) = (a % n) + (b % n) - ((a + b) % n)
  <2>1. \A t, u, v \in Int : n * (t - u - v) = n * t - n * u - n * v
    BY Z3
  <2>2. n * (z - x - y) = n * z - n * x - n * y
    BY <1>1, <2>1
  <2>3. n * x \in Int /\ n * y \in Int /\ n * z \in Int /\ n * (z - x - y) \in Int
    BY <1>1
  <2> DEFINE nx == n * x
             ny == n * y
             nz == n * z
  <2>4. a = nx + (a % n) /\ b = ny + (b % n) /\ a + b = nz + ((a + b) % n)
    BY <1>1
  <2>5. n * (z - x - y) = nz - nx - ny
    BY <2>2
  <2> HIDE DEF nx, ny, nz
  <2>6. nx \in Int /\ ny \in Int /\ nz \in Int
    BY <2>3 DEF nx, ny, nz
  <2>7. nz - nx - ny = (a % n) + (b % n) - ((a + b) % n)
    <3>1. \A c, d, u, v, w, r, s, t \in Int :
             c = u + r /\ d = v + s /\ c + d = w + t => w - u - v = r + s - t
      BY Z3
    <3>2. a % n \in Int /\ b % n \in Int /\ (a + b) % n \in Int /\ a \in Int /\ b \in Int
      BY <1>1
    <3> QED BY <2>4, <2>6, <3>1, <3>2
  <2> QED BY <2>5, <2>7
<1>3. n * (z - x - y) > - n /\ n * (z - x - y) < 2 * n
  BY <1>1, <1>2
<1>4. \A t \in Int : n * t > - n => t >= 0
  OBVIOUS
<1>5. \A t \in Int : n * t < 2 * n => t <= 1
  OBVIOUS
<1>6. z - x - y \in Int
  BY <1>1
<1>7. z - x - y >= 0 /\ z - x - y <= 1
  BY <1>3, <1>4, <1>5, <1>6
<1> QED BY <1>6, <1>7 DEF x, y, z

\* The columns of two neighbours.
LEMMA NextColumn ==
  ASSUME NEW p \in Nat \ {0}, NEW n \in Nat \ {0}
  PROVE  /\ (p - 1) % n \in 0 .. n - 1 /\ p % n \in 0 .. n - 1
         /\ p % n = 0 => (p - 1) % n = n - 1
         /\ p % n # 0 => p % n = ((p - 1) % n) + 1
<1> DEFINE x == (p - 1) \div n
           r == (p - 1) % n
<1>1. x \in Nat /\ r \in 0 .. n - 1 /\ p - 1 = n * x + r
  <2>1. p - 1 \in Nat
    OBVIOUS
  <2> QED BY <2>1, Divided
<1>2. p % n \in 0 .. n - 1
  BY Divided
<1> HIDE DEF x, r
<1>3. CASE r = n - 1
  <2>1. p = n * (x + 1) + 0
    <3>1. n * (x + 1) = n * x + n
      BY <1>1
    <3>2. n * x \in Int
      BY <1>1
    <3> QED BY <1>1, <1>3, <3>1, <3>2
  <2>2. ((n * (x + 1) + 0) % n) = 0
    BY <1>1, DividedOnce
  <2>3. p % n = 0
    BY <2>1, <2>2
  <2> QED BY <1>1, <1>2, <1>3, <2>3 DEF r
<1>4. CASE r # n - 1
  <2>1. r + 1 \in 0 .. n - 1 /\ n * x \in Int
    BY <1>1, <1>4
  <2>2. p = n * x + (r + 1)
    BY <1>1, <2>1
  <2>3. ((n * x + (r + 1)) % n) = r + 1
    BY <1>1, <2>1, DividedOnce
  <2>4. p % n = r + 1
    BY <2>2, <2>3
  <2> QED BY <1>1, <1>2, <2>1, <2>4 DEF r
<1> QED BY <1>3, <1>4

\* The share of the spacing right of a number of columns.
Share(c) == (c * Spacing) \div SpanCount

\* The shares of two neighbours differ by the share of one column, or by one more.
LEMMA ShareProperties ==
  ASSUME NEW c \in Nat
  PROVE  /\ Share(c) \in Nat /\ Share(0) = 0 /\ Share(SpanCount) = Spacing
         /\ Share(c + 1) - Share(c) - Share(1) \in 0 .. 1
<1> USE RecyclerAssumption
<1>1. \A d \in Nat : d * Spacing \in Nat
  OBVIOUS
<1>2. \A d \in Nat : Share(d) \in Nat
  BY <1>1, Divided DEF Share
<1>3. Share(0) = 0 /\ Share(SpanCount) = Spacing
  <2>1. 0 * Spacing = SpanCount * 0 + 0 /\ SpanCount * Spacing = SpanCount * Spacing + 0
    BY <1>1
  <2>2. (SpanCount * 0 + 0) \div SpanCount = 0
        /\ (SpanCount * Spacing + 0) \div SpanCount = Spacing
    BY DividedOnce
  <2> QED BY <2>1, <2>2 DEF Share
<1>4. (c + 1) * Spacing = c * Spacing + 1 * Spacing
  OBVIOUS
<1>5. (c * Spacing + 1 * Spacing) \div SpanCount - (c * Spacing) \div SpanCount
        - (1 * Spacing) \div SpanCount \in 0 .. 1
  <2>1. c * Spacing \in Nat /\ 1 * Spacing \in Nat
    BY <1>1
  <2> HIDE DEF Share
  <2> QED BY <2>1, DividedSums
<1> QED BY <1>2, <1>3, <1>4, <1>5 DEF Share

\* What the decoration answers for one position, and for the one after it.
LEMMA OffsetsOfOne ==
  ASSUME NEW p \in Nat \ {0}
  PROVE  LET o == ItemOffsets(p - 1) IN
         /\ o.left \in Int /\ o.right \in Int
         /\ (p - 1) % SpanCount = 0 => o.left = Spacing
         /\ p % SpanCount = 0 => o.right = Spacing
         /\ p % SpanCount # 0 => o.right + ItemOffsets(p).left = Spacing
         /\ o.top + o.bottom = Spacing * (IF p <= SpanCount THEN 2 ELSE 1)
         /\ o.left + o.right - Spacing - Share(1) \in 0 .. 1
<1> DEFINE c == (p - 1) % SpanCount
           d == p % SpanCount
<1>1. /\ c \in 0 .. SpanCount - 1 /\ d \in 0 .. SpanCount - 1
      /\ d = 0 => c = SpanCount - 1
      /\ d # 0 => d = c + 1
  BY NextColumn, RecyclerAssumption
<1>2. /\ ItemOffsets(p - 1) =
           [left |-> Spacing - Share(c), right |-> Share(c + 1), top |-> Top(p - 1), bottom |-> Spacing]
      /\ ItemOffsets(p).left = Spacing - Share(d)
  BY DEF ItemOffsets, Left, Right, Share
<1>3. /\ Share(c) \in Nat /\ Share(0) = 0 /\ Share(SpanCount) = Spacing
      /\ Share(c + 1) - Share(c) - Share(1) \in 0 .. 1
      /\ Share(c + 1) \in Nat /\ Share(1) \in Nat /\ Share(d) \in Nat
  <2>1. c \in Nat /\ c + 1 \in Nat /\ 1 \in Nat /\ d \in Nat
    BY <1>1, RecyclerAssumption
  <2> HIDE DEF c, d
  <2> QED BY <2>1, ShareProperties
<1>4. Top(p - 1) + Spacing = Spacing * (IF p <= SpanCount THEN 2 ELSE 1)
  BY RecyclerAssumption DEF Top
<1> HIDE DEF c, d
<1>5. /\ c = 0 => Spacing - Share(c) = Spacing
      /\ d = 0 => Share(c + 1) = Spacing
      /\ d # 0 => Share(c + 1) + (Spacing - Share(d)) = Spacing
      /\ Spacing - Share(c) + Share(c + 1) - Spacing - Share(1) \in 0 .. 1
  <2>1. d = 0 => c + 1 = SpanCount
    BY <1>1, RecyclerAssumption
  <2>2. Spacing \in Nat /\ Share(c) \in Nat /\ Share(d) \in Nat /\ Share(c + 1) \in Nat
        /\ Share(1) \in Nat
    BY <1>3, RecyclerAssumption
  <2>3. c = 0 => Spacing - Share(c) = Spacing
    BY <1>3, <2>2
  <2>4. d = 0 => Share(c + 1) = Spacing
    BY <1>3, <2>1
  <2>5. d # 0 => Share(c + 1) + (Spacing - Share(d)) = Spacing
    <3>1. d # 0 => Share(c + 1) = Share(d)
      BY <1>1
    <3> QED BY <2>2, <3>1
  <2>6. Spacing - Share(c) + Share(c + 1) - Spacing - Share(1) \in 0 .. 1
    BY <1>3, <2>2
  <2> QED BY <2>3, <2>4, <2>5, <2>6
<1>6. Spacing - Share(c) \in Int /\ Share(c + 1) \in Int
  BY <1>3, RecyclerAssumption
<1> QED BY <1>2, <1>4, <1>5, <1>6 DEF c, d

LEMMA OffsetsAreEven ==
  ASSUME Len(views) \in Nat, DOMAIN views = 1 .. Len(views),
         \A p \in 1 .. Len(views) : views[p].offsets = ItemOffsets(p - 1)
  PROVE  SpacedEvenly
<1> SUFFICES ASSUME NEW p \in 1 .. Len(views)
             PROVE  LET o == views[p].offsets IN
                    /\ (p - 1) % SpanCount = 0 => o.left = Spacing
                    /\ p % SpanCount = 0 => o.right = Spacing
                    /\ p % SpanCount # 0 /\ p < Len(views) =>
                         o.right + views[p + 1].offsets.left = Spacing
                    /\ o.top + o.bottom = Spacing * (IF p <= SpanCount THEN 2 ELSE 1)
                    /\ \A q \in 1 .. Len(views) :
                         o.left + o.right - views[q].offsets.left - views[q].offsets.right
                           \in -1 .. 1
  BY DEF SpacedEvenly
<1> DEFINE o(q) == ItemOffsets(q - 1)
<1>1. \A q \in 1 .. Len(views) :
        /\ o(q).left \in Int /\ o(q).right \in Int
        /\ o(q).left + o(q).right - Spacing - Share(1) \in 0 .. 1
  BY OffsetsOfOne
<1>2. /\ (p - 1) % SpanCount = 0 => o(p).left = Spacing
      /\ p % SpanCount = 0 => o(p).right = Spacing
      /\ p % SpanCount # 0 => o(p).right + ItemOffsets(p).left = Spacing
      /\ o(p).top + o(p).bottom = Spacing * (IF p <= SpanCount THEN 2 ELSE 1)
  BY OffsetsOfOne
<1>3. p < Len(views) => views[p + 1].offsets = ItemOffsets(p)
  <2>1. p < Len(views) => p + 1 \in 1 .. Len(views)
    OBVIOUS
  <2>2. (p + 1) - 1 = p
    OBVIOUS
  <2> QED BY <2>1, <2>2
<1>4. views[p].offsets = o(p) /\ \A q \in 1 .. Len(views) : views[q].offsets = o(q)
  OBVIOUS
<1> HIDE DEF o
<1>5. ASSUME NEW q \in 1 .. Len(views)
      PROVE  o(p).left + o(p).right - o(q).left - o(q).right \in -1 .. 1
  <2>1. Share(1) \in Int /\ Spacing \in Int
    <3>1. 1 \in Nat /\ \A c \in Nat : Share(c) \in Nat
      BY ShareProperties
    <3> QED BY <3>1, RecyclerAssumption
  <2>2. \A a, b, c, d, s, t \in Int :
          a + b - s - t \in 0 .. 1 /\ c + d - s - t \in 0 .. 1 => a + b - c - d \in -1 .. 1
    OBVIOUS
  <2>3. /\ o(p).left \in Int /\ o(p).right \in Int /\ o(q).left \in Int /\ o(q).right \in Int
        /\ o(p).left + o(p).right - Spacing - Share(1) \in 0 .. 1
        /\ o(q).left + o(q).right - Spacing - Share(1) \in 0 .. 1
    BY <1>1
  <2> QED BY <2>1, <2>2, <2>3, Zenon
<1> QED BY <1>2, <1>3, <1>4, <1>5

-----------------------------------------------------------------------------
(* The notifications. The layout applies all of them at once, by recursion *)
(* on their number: the invariant says that whatever follows them step by  *)
(* step ends in holders that agree with the list, and one more is one more *)
(* step.                                                                   *)

\* f holds the holders after each of the notifications s, as After does.
Follows(f, vs, s) ==
  f = [n \in 0 .. Len(s) |-> IF n = 0 THEN vs ELSE Applied(f[n - 1], s[n])]

LEMMA FollowsStep ==
  ASSUME NEW vs, NEW s, Len(s) \in Nat, NEW f, Follows(f, vs, s)
  PROVE  f[0] = vs /\ \A n \in 1 .. Len(s) : f[n] = Applied(f[n - 1], s[n])
BY DEF Follows

\* The notifications leave no choice.
LEMMA OnlyOneFollows ==
  ASSUME NEW vs, NEW s, Len(s) \in Nat, NEW f, NEW g, Follows(f, vs, s), Follows(g, vs, s)
  PROVE  \A n \in 0 .. Len(s) : f[n] = g[n]
<1> DEFINE T == {n \in 0 .. Len(s) : f[n] # g[n]}
<1> SUFFICES ASSUME T # {} PROVE FALSE
  OBVIOUS
<1>1. PICK x \in T : \A y \in T : x <= y
  <2>1. T \in SUBSET Nat
    OBVIOUS
  <2> HIDE DEF T
  <2> QED BY <2>1, LeastIndex
<1>2. /\ f[0] = vs /\ \A n \in 1 .. Len(s) : f[n] = Applied(f[n - 1], s[n])
      /\ g[0] = vs /\ \A n \in 1 .. Len(s) : g[n] = Applied(g[n - 1], s[n])
  <2>1. f[0] = vs /\ \A n \in 1 .. Len(s) : f[n] = Applied(f[n - 1], s[n])
    BY FollowsStep
  <2>2. g[0] = vs /\ \A n \in 1 .. Len(s) : g[n] = Applied(g[n - 1], s[n])
    BY FollowsStep
  <2> QED BY <2>1, <2>2
<1>3. x \in 1 .. Len(s) /\ x - 1 \in 0 .. Len(s) /\ ~ (x <= x - 1)
  <2>1. x \in 0 .. Len(s) /\ f[x] # g[x]
    BY <1>1
  <2>2. x # 0
    BY <1>2, <2>1
  <2> QED BY <2>1, <2>2
<1>4. f[x - 1] = g[x - 1]
  BY <1>1, <1>3
<1> QED BY <1>1, <1>2, <1>3, <1>4

LEMMA FollowsLonger ==
  ASSUME NEW vs, NEW S, NEW s \in Seq(S), NEW e \in S, NEW f, Follows(f, vs, s)
  PROVE  \E g : Follows(g, vs, Append(s, e)) /\ g[Len(Append(s, e))] = Applied(f[Len(s)], e)
<1> DEFINE t == Append(s, e)
           g == [n \in 0 .. Len(s) + 1 |-> IF n <= Len(s) THEN f[n] ELSE Applied(f[Len(s)], e)]
<1>1. /\ Len(s) \in Nat /\ Len(t) = Len(s) + 1 /\ t[Len(s) + 1] = e
      /\ \A n \in 1 .. Len(s) : t[n] = s[n]
  <2>1. Len(s) \in Nat
    BY LenProperties
  <2>2. /\ Len(t) = Len(s) + 1 /\ t[Len(s) + 1] = e
        /\ \A n \in 1 .. Len(s) : t[n] = s[n]
    BY AppendProperties
  <2> QED BY <2>1, <2>2
<1>2. f[0] = vs /\ \A n \in 1 .. Len(s) : f[n] = Applied(f[n - 1], s[n])
  BY <1>1, FollowsStep
<1>3. ASSUME NEW n \in 0 .. Len(t)
      PROVE  g[n] = IF n = 0 THEN vs ELSE Applied(g[n - 1], t[n])
  <2>1. CASE n = 0
    BY <1>1, <1>2, <2>1
  <2>2. CASE n \in 1 .. Len(s)
    <3>1. g[n - 1] = f[n - 1] /\ g[n] = f[n]
      BY <1>1, <2>2
    <3> QED BY <1>1, <1>2, <2>2, <3>1
  <2>3. CASE n = Len(s) + 1
    <3>1. g[n - 1] = f[Len(s)] /\ g[n] = Applied(f[Len(s)], e)
      BY <1>1, <2>3
    <3> QED BY <1>1, <2>3, <3>1
  <2> QED BY <1>1, <2>1, <2>2, <2>3
<1>4. Follows(g, vs, t)
  <2>1. g = [n \in 0 .. Len(t) |-> g[n]]
    BY <1>1
  <2>2. [n \in 0 .. Len(t) |-> g[n]] =
        [n \in 0 .. Len(t) |-> IF n = 0 THEN vs ELSE Applied(g[n - 1], t[n])]
    BY <1>3
  <2> QED BY <2>1, <2>2 DEF Follows
<1>5. g[Len(t)] = Applied(f[Len(s)], e)
  BY <1>1
<1> QED BY <1>4, <1>5

LEMMA AfterFollows ==
  ASSUME NEW f, Follows(f, views, pending)
  PROVE  Follows(After, views, pending)
BY DEF After, Follows


\* What holders and notifications are made of.
Images == ToSet(Data) \cup {"none"}

Offsets == [left : Int, right : Int, top : Int, bottom : Int]

Holders == [image : Images, position : Int, stale : BOOLEAN, offsets : Offsets]

Notifications == [what : {"inserted", "removed", "changed"}, at : {0}, count : Nat]

\* Once laid out, the holders vs show the list, and tell the positions unless some
\* item moved.
Agree(vs, list, mv) ==
  /\ vs \in Seq(Holders) /\ Len(vs) = Len(list)
  /\ \A p \in 1 .. Len(list) :
       ~ vs[p].stale => vs[p].image = list[p] /\ (~ mv => vs[p].position = p - 1)

RecyclerTypes ==
  /\ resIds \in Seq(ToSet(Data)) /\ Len(resIds) <= Max({MaxItems, Len(Data)})
  /\ pending \in Seq(Notifications) /\ Len(pending) <= MaxPending
  /\ moved \in BOOLEAN /\ fallen \in BOOLEAN

\* On the screen everybody is bound and has the offsets of his position.
NoneStale ==
  /\ views \in Seq(Holders)
  /\ \A p \in 1 .. Len(views) : ~ views[p].stale /\ views[p].offsets = ItemOffsets(p - 1)

\* The layout to come will be right.
LayoutWillAgree ==
  \E f : Follows(f, views, pending) /\ Agree(f[Len(pending)], resIds, moved)

RecyclerInv == RecyclerTypes /\ NoneStale /\ LayoutWillAgree

LEMMA ItemOffsetsType ==
  ASSUME NEW k \in Nat
  PROVE  ItemOffsets(k) \in Offsets
<1>1. k + 1 \in Nat \ {0} /\ (k + 1) - 1 = k
  OBVIOUS
<1>2. ItemOffsets(k).left \in Int /\ ItemOffsets(k).right \in Int
  BY <1>1, OffsetsOfOne
<1>3. Top(k) \in Int /\ Spacing \in Int
  BY RecyclerAssumption DEF Top
<1> QED BY <1>2, <1>3 DEF ItemOffsets, Offsets

LEMMA NewHolderType == NewHolder \in Holders
<1>1. ItemOffsets(0) \in Offsets
  BY ItemOffsetsType
<1> QED BY <1>1 DEF NewHolder, Holders, Images

LEMMA OneMore ==
  ASSUME NEW S, NEW e \in S, NEW s \in Seq(S)
  PROVE  /\ <<e>> \o s \in Seq(S) /\ Len(<<e>> \o s) = Len(s) + 1
         /\ (<<e>> \o s)[1] = e
         /\ \A p \in 2 .. Len(s) + 1 : (<<e>> \o s)[p] = s[p - 1]
<1>1. <<e>> \in Seq(S) /\ Len(<<e>>) = 1 /\ <<e>>[1] = e /\ Len(s) \in Nat
  BY LenProperties
<1> QED BY <1>1, ConcatProperties

LEMMA FirstInserted ==
  ASSUME NEW S, NEW e \in S, NEW s \in Seq(S)
  PROVE  InsertAt(s, 1, e) = <<e>> \o s
<1>1. Len(s) \in Nat /\ \A k \in 1 .. Len(s) : s[k] \in S
  BY LenProperties
<1>2. SubSeq(s, 1, 0) = << >>
  BY SubSeqEmpty
<1>3. SubSeq(s, 1, Len(s)) = s
  <2>1. /\ SubSeq(s, 1, Len(s)) \in Seq(S) /\ Len(SubSeq(s, 1, Len(s))) = Len(s)
        /\ \A k \in 1 .. Len(s) : SubSeq(s, 1, Len(s))[k] = s[k]
    BY <1>1, SubSeqProperties
  <2> QED BY <2>1, SeqEqual
<1>4. << >> \o <<e>> = <<e>>
  <2>1. <<e>> \in Seq(S)
    OBVIOUS
  <2> QED BY <2>1, ConcatEmptySeq
<1> QED BY <1>2, <1>3, <1>4 DEF InsertAt

LEMMA FirstRemoved ==
  ASSUME NEW S, NEW s \in Seq(S), s # << >>
  PROVE  /\ RemoveAt(s, 1) \in Seq(S) /\ Len(RemoveAt(s, 1)) = Len(s) - 1
         /\ \A p \in 1 .. Len(s) - 1 : RemoveAt(s, 1)[p] = s[p + 1]
<1>1. Len(s) \in Nat \ {0} /\ \A k \in 1 .. Len(s) : s[k] \in S
  BY EmptySeq, LenProperties
<1>2. SubSeq(s, 1, 0) = << >>
  BY SubSeqEmpty
<1> DEFINE t == SubSeq(s, 2, Len(s))
<1>3. /\ t \in Seq(S) /\ Len(t) = Len(s) - 1
      /\ \A p \in 1 .. Len(s) - 1 : t[p] = s[p + 1]
  <2>1. \A k \in 2 .. Len(s) : s[k] \in S
    BY <1>1
  <2>2. /\ t \in Seq(S) /\ Len(t) = IF 2 <= Len(s) THEN Len(s) - 2 + 1 ELSE 0
        /\ \A p \in 1 .. Len(s) - 2 + 1 : t[p] = s[2 + p - 1]
    BY <1>1, <2>1, SubSeqProperties
  <2> QED BY <1>1, <2>2
<1> HIDE DEF t
<1>4. << >> \o t = t
  BY <1>3, ConcatEmptySeq
<1>5. RemoveAt(s, 1) = t
  BY <1>2, <1>4 DEF RemoveAt, t
<1> QED BY <1>3, <1>5

\* Each notification does to the holders what was done to the list.
LEMMA InsertedAgrees ==
  ASSUME NEW vs, NEW list \in Seq(ToSet(Data)), NEW mv, Agree(vs, list, mv),
         NEW e \in ToSet(Data)
  PROVE  Agree(Applied(vs, Inserted), <<e>> \o list, TRUE)
<1> DEFINE w == <<NewHolder>> \o vs
           l == <<e>> \o list
<1>1. Applied(vs, Inserted) = w
  BY NewHolderType, FirstInserted DEF Applied, Inserted, Agree
<1>2. /\ w \in Seq(Holders) /\ Len(w) = Len(vs) + 1 /\ w[1] = NewHolder
      /\ \A p \in 2 .. Len(vs) + 1 : w[p] = vs[p - 1]
  BY NewHolderType, OneMore DEF Agree
<1>3. /\ Len(l) = Len(list) + 1 /\ l[1] = e
      /\ \A p \in 2 .. Len(list) + 1 : l[p] = list[p - 1]
  BY OneMore
<1>4. Len(list) \in Nat /\ Len(vs) = Len(list)
  BY LenProperties DEF Agree
<1> HIDE DEF w, l
<1>5. ASSUME NEW p \in 1 .. Len(l), ~ w[p].stale
      PROVE  w[p].image = l[p]
  <2>1. p # 1
    BY <1>2, <1>5 DEF NewHolder
  <2>2. p \in 2 .. Len(list) + 1 /\ p - 1 \in 1 .. Len(list)
    BY <1>3, <1>4, <2>1
  <2>3. w[p] = vs[p - 1] /\ l[p] = list[p - 1]
    BY <1>2, <1>3, <1>4, <2>2
  <2> QED BY <1>5, <2>2, <2>3 DEF Agree
<1>6. Agree(w, l, TRUE)
  BY <1>2, <1>3, <1>4, <1>5 DEF Agree
<1> QED BY <1>1, <1>6 DEF l

LEMMA RemovedAgrees ==
  ASSUME NEW vs, NEW list \in Seq(ToSet(Data)), NEW mv, Agree(vs, list, mv), list # << >>
  PROVE  Agree(Applied(vs, Removed), Tail(list), TRUE)
<1> DEFINE w == RemoveAt(vs, 1)
           l == Tail(list)
<1>1. Applied(vs, Removed) = w
  BY DEF Applied, Removed
<1>2. Len(list) \in Nat \ {0} /\ Len(vs) = Len(list) /\ vs \in Seq(Holders) /\ vs # << >>
  <2>1. Len(list) \in Nat \ {0}
    BY EmptySeq
  <2>2. Len(<< >>) = 0
    BY EmptySeq
  <2> QED BY <2>1, <2>2 DEF Agree
<1>3. /\ w \in Seq(Holders) /\ Len(w) = Len(vs) - 1
      /\ \A p \in 1 .. Len(vs) - 1 : w[p] = vs[p + 1]
  BY <1>2, FirstRemoved
<1>4. Len(l) = Len(list) - 1 /\ \A p \in 1 .. Len(l) : l[p] = list[p + 1]
  BY HeadTailProperties
<1> HIDE DEF w, l
<1>5. ASSUME NEW p \in 1 .. Len(l), ~ w[p].stale
      PROVE  w[p].image = l[p]
  <2>1. p + 1 \in 1 .. Len(list) /\ w[p] = vs[p + 1] /\ l[p] = list[p + 1]
    BY <1>2, <1>3, <1>4
  <2> QED BY <1>5, <2>1 DEF Agree
<1>6. Agree(w, l, TRUE)
  BY <1>2, <1>3, <1>4, <1>5 DEF Agree
<1> QED BY <1>1, <1>6 DEF l

LEMMA ChangedAgrees ==
  ASSUME NEW vs, NEW list \in Seq(ToSet(Data)), NEW mv, Agree(vs, list, mv),
         NEW c \in Nat, c = Len(list), NEW after \in Seq(ToSet(Data)), Len(after) = c
  PROVE  Agree(Applied(vs, [what |-> "changed", at |-> 0, count |-> c]), after, FALSE)
<1> DEFINE w == [p \in 1 .. c |-> [vs[p] EXCEPT !.stale = TRUE]]
<1>1. vs \in Seq(Holders) /\ Len(vs) = c /\ DOMAIN vs = 1 .. c /\ \A p \in 1 .. c : vs[p] \in Holders
  BY LenProperties DEF Agree
<1>2. Applied(vs, [what |-> "changed", at |-> 0, count |-> c]) = w
  <2>1. \A p \in 1 .. c : p - 1 \in 0 .. 0 + c - 1
    OBVIOUS
  <2>2. Applied(vs, [what |-> "changed", at |-> 0, count |-> c]) =
          [p \in 1 .. c |-> IF p - 1 \in 0 .. 0 + c - 1 THEN [vs[p] EXCEPT !.stale = TRUE]
                            ELSE vs[p]]
    BY <1>1 DEF Applied
  <2> QED BY <2>1, <2>2
<1>3. \A p \in 1 .. c : w[p] \in Holders /\ w[p].stale
  BY <1>1 DEF Holders
<1>4. w \in Seq(Holders) /\ Len(w) = c
  <2>1. w \in [1 .. c -> Holders]
    BY <1>3
  <2> HIDE DEF w
  <2> QED BY <2>1
<1> HIDE DEF w
<1>5. Agree(w, after, FALSE)
  BY <1>3, <1>4 DEF Agree
<1> QED BY <1>2, <1>5

\* A layout binds what is stale and leaves nobody stale.
LEMMA LaidOutAgrees ==
  ASSUME NEW vs, resIds \in Seq(ToSet(Data)), Agree(vs, resIds, moved)
  PROVE  LET w == LaidOut(vs) IN
         /\ Agree(w, resIds, moved)
         /\ \A p \in 1 .. Len(w) : ~ w[p].stale /\ w[p].offsets = ItemOffsets(p - 1)
<1> DEFINE w == LaidOut(vs)
           c == Len(resIds)
<1>1. /\ c \in Nat /\ vs \in Seq(Holders) /\ Len(vs) = c /\ DOMAIN vs = 1 .. c
      /\ \A p \in 1 .. c : vs[p] \in Holders
      /\ \A p \in 1 .. c : resIds[p] \in Images
  BY LenProperties DEF Agree, Images
<1>2. ASSUME NEW p \in 1 .. c
      PROVE  /\ w[p] \in Holders /\ ~ w[p].stale /\ w[p].offsets = ItemOffsets(p - 1)
             /\ w[p].image = resIds[p] /\ (~ moved => w[p].position = p - 1)
  <2>1. ItemOffsets(p - 1) \in Offsets /\ p - 1 \in Int
    <3>1. p - 1 \in Nat
      OBVIOUS
    <3> QED BY <3>1, ItemOffsetsType
  <2>2. vs[p] \in Holders /\ resIds[p] \in Images
    BY <1>1
  <2>3. CASE vs[p].stale
    <3>1. (p - 1) + 1 = p
      OBVIOUS
    <3>2. BoundTo(vs[p], p - 1) =
            [vs[p] EXCEPT !.image = resIds[p], !.position = p - 1, !.stale = FALSE]
      BY <3>1 DEF BoundTo
    <3>3. w[p] = [[vs[p] EXCEPT !.image = resIds[p], !.position = p - 1, !.stale = FALSE]
                    EXCEPT !.offsets = ItemOffsets(p - 1)]
      BY <1>1, <2>3, <3>2 DEF LaidOut
    <3> QED BY <2>1, <2>2, <3>3 DEF Holders
  <2>4. CASE ~ vs[p].stale
    <3>1. w[p] = [vs[p] EXCEPT !.offsets = ItemOffsets(p - 1)]
      BY <1>1, <2>4 DEF LaidOut
    <3>2. vs[p].image = resIds[p] /\ (~ moved => vs[p].position = p - 1)
      BY <2>4 DEF Agree
    <3> QED BY <2>1, <2>2, <2>4, <3>1, <3>2 DEF Holders
  <2> QED BY <2>3, <2>4
<1>3. w \in Seq(Holders) /\ Len(w) = c
  <2>1. DOMAIN w = 1 .. c /\ w = [p \in 1 .. c |-> w[p]]
    BY <1>1 DEF LaidOut
  <2> HIDE DEF w
  <2>2. w \in [1 .. c -> Holders]
    BY <1>2, <2>1
  <2> QED BY <1>1, <2>2
<1> HIDE DEF w
<1>4. Agree(w, resIds, moved)
  BY <1>2, <1>3 DEF Agree
<1> QED BY <1>2, <1>3, <1>4 DEF w

LEMMA NoneFollow ==
  ASSUME NEW vs, NEW s, s = << >>
  PROVE  Follows([n \in {0} |-> vs], vs, s) /\ Len(s) = 0
<1>1. Len(<< >>) = 0 /\ 0 .. 0 = {0}
  BY EmptySeq
<1> QED BY <1>1 DEF Follows

\* A notification that goes with what was done to the list.
LEMMA NotifiedKeeps ==
  ASSUME RecyclerInv, NEW e \in Notifications, pending' = Append(pending, e), views' = views,
         Len(pending) < MaxPending, fallen' = fallen, moved' \in BOOLEAN,
         resIds' \in Seq(ToSet(Data)), Len(resIds') <= Max({MaxItems, Len(Data)}),
         \A vs : Agree(vs, resIds, moved) => Agree(Applied(vs, e), resIds', moved')
  PROVE  RecyclerInv'
<1>1. RecyclerTypes'
  <2>1. pending \in Seq(Notifications) /\ Len(pending) \in Nat /\ Len(pending) < MaxPending
    BY LenProperties DEF RecyclerInv, RecyclerTypes
  <2>2. pending' \in Seq(Notifications) /\ Len(pending') = Len(pending) + 1
    BY <2>1, AppendProperties
  <2> QED BY <2>1, <2>2 DEF RecyclerInv, RecyclerTypes, MaxPending
<1>2. NoneStale'
  BY DEF RecyclerInv, NoneStale
<1>3. LayoutWillAgree'
  <2>1. PICK f : Follows(f, views, pending) /\ Agree(f[Len(pending)], resIds, moved)
    BY DEF RecyclerInv, LayoutWillAgree
  <2>2. pending \in Seq(Notifications)
    BY DEF RecyclerInv, RecyclerTypes
  <2>3. PICK g : /\ Follows(g, views, Append(pending, e))
                 /\ g[Len(Append(pending, e))] = Applied(f[Len(pending)], e)
    BY <2>1, <2>2, FollowsLonger
  <2>4. Agree(Applied(f[Len(pending)], e), resIds', moved')
    BY <2>1
  <2>5. Follows(g, views', pending') /\ Agree(g[Len(pending')], resIds', moved')
    BY <2>3, <2>4
  <2> QED BY <2>5 DEF LayoutWillAgree
<1> QED BY <1>1, <1>2, <1>3 DEF RecyclerInv

LEMMA MostItems ==
  /\ Max({MaxItems, Len(Data)}) \in Nat
  /\ MaxItems <= Max({MaxItems, Len(Data)}) /\ Len(Data) <= Max({MaxItems, Len(Data)})
<1>1. MaxItems \in Nat /\ Len(Data) \in Nat
  BY LenProperties, RecyclerAssumption
<1>2. \E x \in {MaxItems, Len(Data)} : \A y \in {MaxItems, Len(Data)} : x >= y
  BY <1>1
<1>3. /\ Max({MaxItems, Len(Data)}) \in {MaxItems, Len(Data)}
      /\ \A y \in {MaxItems, Len(Data)} : Max({MaxItems, Len(Data)}) >= y
  BY <1>2 DEF Max
<1> QED BY <1>1, <1>3

LEMMA AddKeeps == ASSUME RecyclerInv, Len(pending) < MaxPending, Add PROVE RecyclerInv'
<1>1. resIds \in Seq(ToSet(Data)) /\ Len(resIds) \in Nat /\ Len(resIds) <= MaxItems - 1
      /\ MaxItems \in Nat /\ DOMAIN resIds = 1 .. Len(resIds)
  BY LenProperties, RecyclerAssumption DEF RecyclerInv, RecyclerTypes, Add
<1>2. PICK p \in 1 .. Len(resIds) : resIds' = <<resIds[p]>> \o resIds
  BY <1>1 DEF Add
<1>3. resIds[p] \in ToSet(Data)
  BY <1>1, <1>2, LenProperties
<1>4. resIds' \in Seq(ToSet(Data)) /\ Len(resIds') = Len(resIds) + 1
  BY <1>1, <1>2, <1>3, OneMore
<1>5. Len(resIds') <= Max({MaxItems, Len(Data)})
  BY <1>1, <1>4, MostItems
<1>6. Inserted \in Notifications
  BY DEF Inserted, Notifications
<1>7. \A vs : Agree(vs, resIds, moved) => Agree(Applied(vs, Inserted), resIds', TRUE)
  BY <1>1, <1>2, <1>3, InsertedAgrees
<1> QED BY <1>4, <1>5, <1>6, <1>7, NotifiedKeeps DEF Add

LEMMA DelKeeps == ASSUME RecyclerInv, Len(pending) < MaxPending, Del PROVE RecyclerInv'
<1>1. resIds \in Seq(ToSet(Data)) /\ resIds # << >> /\ resIds' = Tail(resIds)
  BY DEF RecyclerInv, RecyclerTypes, Del
<1>2. resIds' \in Seq(ToSet(Data)) /\ Len(resIds') = Len(resIds) - 1 /\ Len(resIds) \in Nat
  BY <1>1, HeadTailProperties, LenProperties
<1>3. Len(resIds') <= Max({MaxItems, Len(Data)})
  <2>1. Len(resIds) <= Max({MaxItems, Len(Data)})
    BY DEF RecyclerInv, RecyclerTypes
  <2> QED BY <1>2, <2>1, MostItems
<1>4. Removed \in Notifications
  BY DEF Removed, Notifications
<1>5. \A vs : Agree(vs, resIds, moved) => Agree(Applied(vs, Removed), resIds', TRUE)
  BY <1>1, RemovedAgrees
<1> QED BY <1>2, <1>3, <1>4, <1>5, NotifiedKeeps DEF Del

LEMMA ResortKeeps == ASSUME RecyclerInv, Len(pending) < MaxPending, Resort PROVE RecyclerInv'
<1> DEFINE c == Len(resIds)
<1>1. resIds \in Seq(ToSet(Data)) /\ c \in Nat /\ DOMAIN resIds = 1 .. c
      /\ \A p \in 1 .. c : resIds[p] \in ToSet(Data)
  BY LenProperties DEF RecyclerInv, RecyclerTypes
<1>2. PICK f \in Bijection(DOMAIN resIds, DOMAIN resIds) :
        resIds' = [p \in DOMAIN resIds |-> resIds[f[p]]]
  BY DEF Resort
<1>3. f \in [1 .. c -> 1 .. c]
  BY <1>1, <1>2 DEF Bijection, Injection
<1>4. resIds' \in [1 .. c -> ToSet(Data)]
  BY <1>1, <1>2, <1>3
<1>5. resIds' \in Seq(ToSet(Data)) /\ Len(resIds') = c
  BY <1>1, <1>4
<1>6. Len(resIds') <= Max({MaxItems, Len(Data)})
  BY <1>5 DEF RecyclerInv, RecyclerTypes
<1>7. Changed \in Notifications
  BY <1>1 DEF Changed, Notifications
<1>8. \A vs : Agree(vs, resIds, moved) => Agree(Applied(vs, Changed), resIds', FALSE)
  BY <1>1, <1>5, ChangedAgrees DEF Changed
<1> QED BY <1>5, <1>6, <1>7, <1>8, NotifiedKeeps DEF Resort

LEMMA LayoutKeeps == ASSUME RecyclerInv, Layout PROVE RecyclerInv'
<1>1. PICK f : Follows(f, views, pending) /\ Agree(f[Len(pending)], resIds, moved)
  BY DEF RecyclerInv, LayoutWillAgree
<1>2. Len(pending) \in Nat /\ resIds \in Seq(ToSet(Data))
  BY LenProperties DEF RecyclerInv, RecyclerTypes
<1>3. After[Len(pending)] = f[Len(pending)]
  <2>1. Follows(After, views, pending)
    BY <1>1, AfterFollows
  <2>2. \A n \in 0 .. Len(pending) : After[n] = f[n]
    BY <1>1, <1>2, <2>1, OnlyOneFollows
  <2> QED BY <1>2, <2>2
<1>4. /\ Agree(views', resIds, moved)
      /\ \A p \in 1 .. Len(views') : ~ views'[p].stale /\ views'[p].offsets = ItemOffsets(p - 1)
  <2>1. views' = LaidOut(f[Len(pending)])
    BY <1>3 DEF Layout
  <2> QED BY <1>1, <1>2, <2>1, LaidOutAgrees
<1>5. UNCHANGED <<resIds, moved, fallen>> /\ pending' = << >>
  BY DEF Layout
<1>6. RecyclerTypes'
  BY <1>5, EmptySeq DEF RecyclerInv, RecyclerTypes, MaxPending
<1>7. NoneStale'
  BY <1>4 DEF NoneStale, Agree
<1>8. LayoutWillAgree'
  <2>1. Follows([n \in {0} |-> views'], views', pending') /\ Len(pending') = 0
    BY <1>5, NoneFollow
  <2>2. [n \in {0} |-> views'][Len(pending')] = views'
    BY <2>1
  <2>3. Agree([n \in {0} |-> views'][Len(pending')], resIds', moved')
    BY <1>4, <1>5, <2>2
  <2> QED BY <2>1, <2>3 DEF LayoutWillAgree
<1> QED BY <1>6, <1>7, <1>8 DEF RecyclerInv

LEMMA RecyclerAtFirst == RecyclerInit => RecyclerInv
<1> SUFFICES ASSUME RecyclerInit PROVE RecyclerInv
  OBVIOUS
<1>1. Data \in Seq(ToSet(Data)) /\ Len(Data) \in Nat
  BY LenProperties, RecyclerAssumption
<1>2. resIds = Data /\ pending = << >> /\ moved = FALSE /\ fallen = FALSE
      /\ DOMAIN resIds = 1 .. Len(Data)
  BY <1>1, LenProperties DEF RecyclerInit
<1> DEFINE vs == [p \in 1 .. Len(Data) |-> NewHolder]
<1>3. Agree(vs, resIds, moved)
  <2>1. vs \in [1 .. Len(Data) -> Holders]
    BY NewHolderType
  <2>2. vs \in Seq(Holders) /\ Len(vs) = Len(Data)
    BY <1>1, <2>1
  <2>3. \A p \in 1 .. Len(Data) : vs[p].stale
    BY DEF NewHolder
  <2> HIDE DEF vs
  <2> QED BY <1>2, <2>2, <2>3 DEF Agree
<1>4. /\ Agree(views, resIds, moved)
      /\ \A p \in 1 .. Len(views) : ~ views[p].stale /\ views[p].offsets = ItemOffsets(p - 1)
  <2>1. views = LaidOut(vs)
    BY <1>2 DEF RecyclerInit
  <2> HIDE DEF vs
  <2> QED BY <1>1, <1>2, <1>3, <2>1, LaidOutAgrees
<1>5. RecyclerTypes
  <2>1. pending \in Seq(Notifications) /\ Len(pending) = 0
    BY <1>2, EmptySeq
  <2>2. Len(pending) <= MaxPending
    BY <2>1 DEF MaxPending
  <2>3. resIds \in Seq(ToSet(Data)) /\ Len(resIds) <= Max({MaxItems, Len(Data)})
    BY <1>1, <1>2, MostItems
  <2>4. moved \in BOOLEAN /\ fallen \in BOOLEAN
    BY <1>2
  <2> QED BY <2>1, <2>2, <2>3, <2>4 DEF RecyclerTypes
<1>6. NoneStale
  BY <1>4 DEF NoneStale, Agree
<1>7. LayoutWillAgree
  <2>1. Follows([n \in {0} |-> views], views, pending) /\ Len(pending) = 0
    BY <1>2, NoneFollow
  <2>2. [n \in {0} |-> views][Len(pending)] = views
    BY <2>1
  <2> QED BY <1>4, <2>1, <2>2 DEF LayoutWillAgree
<1> QED BY <1>5, <1>6, <1>7 DEF RecyclerInv

LEMMA RecyclerStep == RecyclerInv /\ [RecyclerNext]_rvVars => RecyclerInv'
<1> SUFFICES ASSUME RecyclerInv, [RecyclerNext]_rvVars PROVE RecyclerInv'
  OBVIOUS
<1>1. CASE Layout
  BY <1>1, LayoutKeeps
<1>2. CASE Len(pending) < MaxPending /\ Add
  BY <1>2, AddKeeps
<1>3. CASE Len(pending) < MaxPending /\ Del
  BY <1>3, DelKeeps
<1>4. CASE Len(pending) < MaxPending /\ Resort
  BY <1>4, ResortKeeps
<1>5. CASE NothingThere
  <2>1. UNCHANGED <<resIds, pending, views, moved>> /\ fallen' = TRUE
    BY <1>5 DEF NothingThere
  <2> QED BY <2>1 DEF RecyclerInv, RecyclerTypes, NoneStale, LayoutWillAgree
<1>6. CASE UNCHANGED rvVars
  BY <1>6 DEF RecyclerInv, RecyclerTypes, NoneStale, LayoutWillAgree, rvVars
<1> QED BY <1>1, <1>2, <1>3, <1>4, <1>5, <1>6 DEF RecyclerNext, Select

LEMMA RecyclerMeans == RecyclerInv => RecyclerIsRight
<1> SUFFICES ASSUME RecyclerInv PROVE RecyclerIsRight
  OBVIOUS
<1>1. /\ Len(views) \in Nat /\ DOMAIN views = 1 .. Len(views)
      /\ \A p \in 1 .. Len(views) : ~ views[p].stale /\ views[p].offsets = ItemOffsets(p - 1)
  BY LenProperties DEF RecyclerInv, NoneStale
<1>2. RecyclerTypeOK
  <2>1. ToSet(resIds) \subseteq ToSet(Data)
    <3>1. \A p \in DOMAIN resIds : resIds[p] \in ToSet(Data)
      BY LenProperties DEF RecyclerInv, RecyclerTypes
    <3>2. ToSet(resIds) = {resIds[p] : p \in DOMAIN resIds}
      BY DEF ToSet
    <3> QED BY <3>1, <3>2
  <2> QED BY <2>1 DEF RecyclerInv, RecyclerTypes, RecyclerTypeOK
<1>3. ASSUME pending = << >> PROVE Agree(views, resIds, moved)
  <2>1. PICK f : Follows(f, views, pending) /\ Agree(f[Len(pending)], resIds, moved)
    BY DEF RecyclerInv, LayoutWillAgree
  <2>2. Len(pending) = 0
    BY <1>3, EmptySeq
  <2>3. f[0] = views
    BY <2>1, <2>2 DEF Follows
  <2> QED BY <2>1, <2>2, <2>3
<1>4. ShowsTheList
  BY <1>1, <1>3 DEF ShowsTheList, Agree
<1>5. ResortMendsPositions
  BY <1>1, <1>3 DEF ResortMendsPositions, Agree
<1>6. SpacedEvenly
  BY <1>1, OffsetsAreEven
<1> QED BY <1>2, <1>4, <1>5, <1>6 DEF RecyclerIsRight

LEMMA RecyclerStaysRight == RecyclerInit /\ [][RecyclerNext]_rvVars => []RecyclerIsRight
<1>1. RecyclerInit /\ [][RecyclerNext]_rvVars => []RecyclerInv
  BY RecyclerAtFirst, RecyclerStep, PTL
<1> QED BY <1>1, RecyclerMeans, PTL

\* Whatever the user adds, deletes and resorts between two frames: the screen shows the
\* list, a resort mends the positions the clicks tell, and the items are Spacing apart
\* to the pixel.
THEOREM RecyclerIsRightAlways == RecyclerSpec => []RecyclerIsRight
BY RecyclerStaysRight DEF RecyclerSpec

-----------------------------------------------------------------------------
(* All of them, as the menu starts them: what each demo does to its own    *)
(* state is a step of its own specification, and no other's.               *)

LEMMA StepsOfTheParts ==
  ASSUME [DemosNext]_demosVars
  PROVE  /\ [MenuNext]_menuVars /\ [FdNext]_fdVars /\ [DataBindingNext]_dbVars
         /\ [ListViewNext]_lvVars /\ [RecyclerNext]_rvVars /\ [TrainingNext]_trVars
<1>1. CASE Navigate
  BY <1>1 DEF Navigate
<1>2. CASE PlayPipe
  BY <1>2 DEF PlayPipe, FdNext
<1>3. CASE PlayDescriptors
  BY <1>3 DEF PlayDescriptors
<1>4. CASE PlayDataBinding
  BY <1>4 DEF PlayDataBinding
<1>5. CASE PlayListView
  BY <1>5 DEF PlayListView
<1>6. CASE PlayRecyclerView
  BY <1>6 DEF PlayRecyclerView
<1>7. CASE PlayFragments
  BY <1>7 DEF PlayFragments
<1>8. CASE UNCHANGED demosVars
  BY <1>8 DEF demosVars
<1> QED BY <1>1, <1>2, <1>3, <1>4, <1>5, <1>6, <1>7, <1>8 DEF DemosNext

LEMMA NavigationStaysRight ==
  ASSUME LabelsLeadDown
  PROVE  /\ MenuInit /\ [][MenuNext]_menuVars => [](MenuTypeOK /\ LeadsToEveryDemo)
         /\ TrainingInit /\ [][TrainingNext]_trVars => [](TrainingTypeOK /\ TitleIsRight)
<1>1. MenuInit /\ [][MenuNext]_menuVars => [](MenuTypeOK /\ LeadsToEveryDemo)
  <2>1. MenuInit => MenuInv
    BY MenuAtFirst
  <2>2. MenuInv /\ [MenuNext]_menuVars => MenuInv'
    BY MenuStep
  <2>3. MenuInv => MenuTypeOK /\ LeadsToEveryDemo
    BY MenuMeans
  <2> QED BY <2>1, <2>2, <2>3, PTL
<1>2. TrainingInit /\ [][TrainingNext]_trVars => [](TrainingTypeOK /\ TitleIsRight)
  BY TrainingAtFirst, TrainingStep, TrainingMeans, PTL
<1> QED BY <1>1, <1>2

\* From every menu there is a way to every demo below it, and the title in the demo
\* with a stack of its own is that of what is on top: for every manifest whose labels
\* lead down and whatever else the user plays in between.
THEOREM NavigationIsRightAlways ==
  ASSUME LabelsLeadDown
  PROVE  DemosSpec => []NavigationIsRight
<1>1. DemosInit => MenuInit /\ TrainingInit
  BY DEF DemosInit
<1>2. [DemosNext]_demosVars => [MenuNext]_menuVars /\ [TrainingNext]_trVars
  BY StepsOfTheParts
<1> QED BY <1>1, <1>2, NavigationStaysRight, PTL DEF DemosSpec, NavigationIsRight

\* Played one after the other, or beside each other where the menu lets them, the
\* demos do not get into each other's way: what holds of each alone holds of all.
THEOREM DemosStayRight ==
  DemosSpec => []BindingIsRight /\ []RecyclerIsRight /\ DescriptorsAreSafe /\ PoolsAreTame
<1>1. DemosInit => FdInit /\ DataBindingInit /\ ListViewInit /\ RecyclerInit
  BY DEF DemosInit
<1>2. [DemosNext]_demosVars =>
        /\ [FdNext]_fdVars /\ [DataBindingNext]_dbVars /\ [ListViewNext]_lvVars
        /\ [RecyclerNext]_rvVars
  BY StepsOfTheParts
<1> QED
  BY <1>1, <1>2, DescriptorsStaySafe, BindingStaysRight, PoolsStayTame, RecyclerStaysRight, PTL
  DEF DemosSpec

-----------------------------------------------------------------------------
(* The launch of the servers, for every number of ports, activities and    *)
(* taps.                                                                   *)

\* Tasks are submitted in order, and only for a port.
SubmittedTasks ==
  \A t \in Tasks :
    /\ t > submitted => task[t].state = "new"
    /\ task[t].state = "new" => task[t].port = NoPort
    /\ task[t].state # "new" => task[t].port \in Ports

\* A task that is not over keeps its activity from submitting another one: the
\* flag is up, or the main thread is on its way from submit to setting it.
LiveMeansFlagged ==
  \A t \in Tasks :
    Live(t) =>
      \/ running[task[t].of][task[t].port]
      \/ tapped = task[t].port /\ activity = task[t].of

LaunchInv == LaunchTypeOK /\ SubmittedTasks /\ LiveMeansFlagged /\ OneLiveTaskPerButton

LEMMA LaunchInitInv == LaunchInit => LaunchInv
<1> SUFFICES ASSUME LaunchInit PROVE LaunchInv
  OBVIOUS
<1> USE LaunchAssumption DEF LaunchInit, Activities, Tasks, States, NoPort
<1>1. LaunchTypeOK
  BY DEF LaunchTypeOK
<1>2. SubmittedTasks /\ LiveMeansFlagged /\ OneLiveTaskPerButton
  BY DEF SubmittedTasks, LiveMeansFlagged, OneLiveTaskPerButton, Live
<1> QED BY <1>1, <1>2 DEF LaunchInv

LEMMA TapInv == ASSUME LaunchInv, NEW p \in Ports, Tap(p) PROVE LaunchInv'
<1> DEFINE n == submitted + 1
<1> USE LaunchAssumption DEF LaunchInv, Tap, Idle, Enclosing
<1>1. /\ n \in Tasks
      /\ task' = [task EXCEPT ![n] = [of |-> activity, port |-> p, state |-> "queued"]]
      /\ task[n].state = "new"
  BY DEF LaunchTypeOK, Tasks, SubmittedTasks
<1>2. LaunchTypeOK'
  BY <1>1 DEF LaunchTypeOK, Tasks, States
<1>3. SubmittedTasks'
  BY <1>1 DEF LaunchTypeOK, Tasks, SubmittedTasks
<1>4. \A t \in Tasks \ {n} : task'[t] = task[t]
  BY <1>1 DEF LaunchTypeOK
<1>5. task'[n] = [of |-> activity, port |-> p, state |-> "queued"]
  BY <1>1 DEF LaunchTypeOK
<1>6. \A t \in Tasks : Live(t) => ~(task[t].of = activity /\ task[t].port = p)
  BY DEF LiveMeansFlagged, MaySubmit, NoPort, LaunchTypeOK, SubmittedTasks, Live
<1>7. LiveMeansFlagged'
  <2> SUFFICES ASSUME NEW t \in Tasks, Live(t)'
               PROVE  \/ running'[task'[t].of][task'[t].port]
                      \/ tapped' = task'[t].port /\ activity' = task'[t].of
    BY DEF LiveMeansFlagged
  <2>1. CASE t = n
    BY <2>1, <1>5
  <2>2. CASE t # n
    BY <2>2, <1>4 DEF LiveMeansFlagged, Live, NoPort, SubmittedTasks
  <2> QED BY <2>1, <2>2
<1>8. OneLiveTaskPerButton'
  <2> SUFFICES ASSUME NEW t \in Tasks, NEW u \in Tasks, Live(t)', Live(u)',
                      task'[t].of = task'[u].of, task'[t].port = task'[u].port
               PROVE  t = u
    BY DEF OneLiveTaskPerButton
  <2>1. CASE t # n /\ u # n
    BY <2>1, <1>4 DEF OneLiveTaskPerButton, Live
  <2>2. CASE t = n /\ u # n
    BY <2>2, <1>4, <1>5, <1>6 DEF Live
  <2>3. CASE u = n /\ t # n
    BY <2>3, <1>4, <1>5, <1>6 DEF Live
  <2> QED BY <2>1, <2>2, <2>3
<1> QED BY <1>2, <1>3, <1>7, <1>8

LEMMA SetRunningInv == LaunchInv /\ SetRunning => LaunchInv'
<1> SUFFICES ASSUME LaunchInv, SetRunning PROVE LaunchInv'
  OBVIOUS
<1> USE LaunchAssumption DEF LaunchInv, SetRunning, Idle, NoPort
<1>1. LaunchTypeOK'
  BY DEF LaunchTypeOK
<1>2. LiveMeansFlagged'
  BY DEF LiveMeansFlagged, Live, LaunchTypeOK
<1>3. SubmittedTasks' /\ OneLiveTaskPerButton'
  BY DEF SubmittedTasks, OneLiveTaskPerButton, Live
<1> QED BY <1>1, <1>2, <1>3

LEMMA RecreateInv == LaunchInv /\ Recreate => LaunchInv'
<1> SUFFICES ASSUME LaunchInv, Recreate PROVE LaunchInv'
  OBVIOUS
<1> USE LaunchAssumption DEF LaunchInv, Recreate, Idle, NoPort
<1>1. LaunchTypeOK'
  BY DEF LaunchTypeOK, Activities
<1>2. LiveMeansFlagged'
  BY DEF LiveMeansFlagged, Live, LaunchTypeOK, SubmittedTasks
<1>3. SubmittedTasks' /\ OneLiveTaskPerButton'
  BY DEF SubmittedTasks, OneLiveTaskPerButton, Live
<1> QED BY <1>1, <1>2, <1>3

\* A task that gets on with its server, or fails to, stays live, and keeps its port
\* and its activity.
LEMMA TaskMovesInv ==
  ASSUME LaunchInv, NEW t \in Tasks, NEW from \in States \ {"new", "over"},
         NEW to \in States \ {"new", "over"}, TaskMoves(t, from, to)
  PROVE  LaunchInv'
<1> USE LaunchAssumption DEF LaunchInv, TaskMoves, TaskGoes
<1>1. LaunchTypeOK'
  BY DEF LaunchTypeOK, States
<1>2. \A u \in Tasks : /\ task'[u].of = task[u].of /\ task'[u].port = task[u].port
                        /\ u # t => task'[u].state = task[u].state
  BY DEF LaunchTypeOK
<1>3. task[t].state = from /\ task'[t].state = to
  BY DEF LaunchTypeOK
<1>4. \A u \in Tasks : Live(u)' <=> Live(u)
  BY <1>2, <1>3 DEF Live, States
<1>5. SubmittedTasks' /\ LiveMeansFlagged'
  BY <1>2, <1>3, <1>4 DEF SubmittedTasks, LiveMeansFlagged
<1>6. OneLiveTaskPerButton'
  BY <1>2, <1>4 DEF OneLiveTaskPerButton
<1> QED BY <1>1, <1>5, <1>6

\* The flag a task resets is no other live task's: no other task of its activity
\* and port is live.
LEMMA ResetRunningInv == ASSUME LaunchInv, NEW t \in Tasks, ResetRunning(t) PROVE LaunchInv'
<1> USE LaunchAssumption DEF LaunchInv, ResetRunning, TaskGoes
<1>1. task[t].state = "back" /\ task[t].of \in Activities /\ task[t].port \in Ports
  BY DEF LaunchTypeOK, SubmittedTasks
<1>2. /\ running' = [running EXCEPT ![task[t].of][task[t].port] = FALSE]
      /\ task' = [task EXCEPT ![t].state = "over"]
  BY DEF ResetOwn
<1>3. LaunchTypeOK'
  BY <1>1, <1>2 DEF LaunchTypeOK, States
<1>4. \A u \in Tasks : /\ task'[u].of = task[u].of /\ task'[u].port = task[u].port
                        /\ u # t => task'[u].state = task[u].state
  BY <1>2 DEF LaunchTypeOK
<1>5. task'[t].state = "over"
  BY <1>2 DEF LaunchTypeOK
<1>6. \A u \in Tasks : Live(u)' => Live(u) /\ u # t
  BY <1>4, <1>5 DEF Live
<1>7. LiveMeansFlagged'
  <2> SUFFICES ASSUME NEW u \in Tasks, Live(u)'
               PROVE  \/ running'[task[u].of][task[u].port]
                      \/ tapped = task[u].port /\ activity = task[u].of
    BY <1>4 DEF LiveMeansFlagged
  <2>1. Live(u) /\ u # t
    BY <1>6
  <2>2. ~(task[u].of = task[t].of /\ task[u].port = task[t].port)
    BY <1>1, <2>1 DEF OneLiveTaskPerButton, Live
  <2>3. task[u].of \in Activities /\ task[u].port \in Ports
    BY <2>1 DEF LaunchTypeOK, SubmittedTasks, Live
  <2>4. running'[task[u].of][task[u].port] = running[task[u].of][task[u].port]
    <3> DEFINE a == task[u].of
               q == task[u].port
    <3>1. CASE a # task[t].of
      <4>1. running'[a] = running[a]
        BY <1>1, <1>2, <2>3, <3>1 DEF LaunchTypeOK
      <4> QED BY <4>1
    <3>2. CASE a = task[t].of
      <4>1. running'[a] = [running[a] EXCEPT ![task[t].port] = FALSE]
        BY <1>1, <1>2, <3>2 DEF LaunchTypeOK
      <4>2. running[a] \in [Ports -> BOOLEAN] /\ q # task[t].port
        BY <2>2, <2>3, <3>2 DEF LaunchTypeOK
      <4> QED BY <2>3, <4>1, <4>2, Zenon
    <3> QED BY <3>1, <3>2
  <2> QED BY <2>1, <2>4 DEF LiveMeansFlagged
<1>8. SubmittedTasks'
  BY <1>1, <1>4, <1>5 DEF SubmittedTasks
<1>9. OneLiveTaskPerButton'
  BY <1>4, <1>5, <1>6 DEF OneLiveTaskPerButton
<1> QED BY <1>3, <1>7, <1>8, <1>9

LEMMA LaunchStep == LaunchInv /\ [LaunchNext]_launchVars => LaunchInv'
<1> SUFFICES ASSUME LaunchInv, [LaunchNext]_launchVars PROVE LaunchInv'
  OBVIOUS
<1>1. CASE \E p \in Ports : Tap(p)
  BY <1>1, TapInv
<1>2. CASE SetRunning
  BY <1>2, SetRunningInv
<1>3. CASE Recreate
  BY <1>3, RecreateInv
<1>4. CASE \E t \in Tasks : RunTask(t) \/ ServerReturns(t)
  <2>1. PICK t \in Tasks : RunTask(t) \/ ServerReturns(t)
    BY <1>4
  <2>2. ResetRunning(t) \/ \E from, to \in States \ {"new", "over"} : TaskMoves(t, from, to)
    BY <2>1 DEF RunTask, ServerReturns, BindOk, BindFails, ListenOk, ListenFails, States
  <2> QED BY <2>2, TaskMovesInv, ResetRunningInv
<1>5. CASE UNCHANGED launchVars
  <2>1. LaunchTypeOK' /\ SubmittedTasks'
    BY <1>5 DEF LaunchInv, launchVars, LaunchTypeOK, SubmittedTasks
  <2>2. LiveMeansFlagged' /\ OneLiveTaskPerButton'
    BY <1>5 DEF LaunchInv, launchVars, LiveMeansFlagged, OneLiveTaskPerButton, Live
  <2> QED BY <2>1, <2>2 DEF LaunchInv
<1> QED BY <1>1, <1>2, <1>3, <1>4, <1>5 DEF LaunchNext

\* Type correctness of the launch.
THEOREM LaunchTypeCorrect == LaunchSpec => []LaunchTypeOK
<1>1. LaunchInv => LaunchTypeOK
  BY DEF LaunchInv
<1> QED BY LaunchInitInv, LaunchStep, <1>1, PTL DEF LaunchSpec

\* The flag, although set after the submission, is never down while a task of the
\* same button lives.
THEOREM TasksAreAlone == LaunchSpec => []OneLiveTaskPerButton
<1>1. LaunchInv => OneLiveTaskPerButton
  BY DEF LaunchInv
<1> QED BY LaunchInitInv, LaunchStep, <1>1, PTL DEF LaunchSpec

\* A server that loses its port, at bind() or at listen(), loses it to a server of
\* another activity that listens: the one that holds it is live, and its own activity
\* has no second live task for the port.
THEOREM FailuresComeFromOutside == LaunchSpec => FailsOnlyAcrossActivities
<1> DEFINE Outside == \A t \in Tasks : LosesPort(t) =>
      \E u \in Tasks :
        /\ task[u].state = "listening" /\ task[u].port = task[t].port
        /\ task[u].of # task[t].of
<1>1. LaunchInv /\ [LaunchNext]_launchVars => [Outside]_launchVars
  <2> SUFFICES ASSUME LaunchInv, LaunchNext, NEW t \in Tasks, LosesPort(t)
               PROVE  \E u \in Tasks :
                        /\ task[u].state = "listening" /\ task[u].port = task[t].port
                        /\ task[u].of # task[t].of
    OBVIOUS
  <2>1. ~PortFree(task[t].port)
    <3>1. LaunchTypeOK
      BY DEF LaunchInv
    <3>2. CASE \E p \in Ports : Tap(p)
      <4>1. submitted + 1 # t \/ task[t].state = "new"
        BY DEF LaunchInv, SubmittedTasks, LaunchTypeOK, Tasks
      <4> QED BY <3>1, <3>2, <4>1 DEF Tap, LosesPort, LaunchTypeOK
    <3>3. CASE SetRunning \/ Recreate
      BY <3>3 DEF SetRunning, Recreate, LosesPort
    <3>4. CASE \E u \in Tasks : RunTask(u) \/ ServerReturns(u)
      <4>1. PICK u \in Tasks : RunTask(u) \/ ServerReturns(u)
        BY <3>4
      <4>2. \A from, to : TaskGoes(u, from, to) =>
              /\ task[u].state = from /\ task'[u].state = to
              /\ \A v \in Tasks \ {u} : task'[v] = task[v]
        BY <3>1 DEF TaskGoes, LaunchTypeOK
      <4> QED BY <4>1, <4>2 DEF RunTask, ServerReturns, BindOk, BindFails, GivesUp, ListenOk,
                 ListenFails, ResetRunning, TaskMoves, LosesPort
    <3> QED BY <3>2, <3>3, <3>4 DEF LaunchNext
  <2>2. PICK u \in Tasks : task[u].port = task[t].port /\ task[u].state = "listening"
    BY <2>1 DEF PortFree
  <2>3. t # u /\ Live(t) /\ Live(u)
    BY <2>2 DEF LosesPort, Live
  <2>4. task[u].of # task[t].of
    BY <2>2, <2>3 DEF LaunchInv, OneLiveTaskPerButton
  <2> QED BY <2>2, <2>4
<1>2. LaunchSpec => [][Outside]_launchVars
  BY LaunchInitInv, LaunchStep, <1>1, PTL DEF LaunchSpec
<1> QED BY <1>2 DEF FailsOnlyAcrossActivities

-----------------------------------------------------------------------------
(* What addNode and delNode do to the words of the tree, for every size of *)
(* the alphabet and every set of words.                                    *)

-----------------------------------------------------------------------------
(* Numbers and sequences. *)

LEMMA StemProperties ==
  ASSUME NEW S, NEW w \in Seq(S), NEW d \in 0 .. Len(w)
  PROVE  /\ Stem(w, d) \in Seq(S) /\ Len(Stem(w, d)) = d
         /\ \A j \in 1 .. d : Stem(w, d)[j] = w[j]
<1>1. d \in Int /\ 1 \in Int /\ Len(w) \in Nat
  BY LenProperties
<1>2. \A j \in 1 .. d : w[j] \in S
  BY <1>1, ElementOfSeq
<1>3. /\ SubSeq(w, 1, d) \in Seq(S)
      /\ Len(SubSeq(w, 1, d)) = IF 1 <= d THEN d - 1 + 1 ELSE 0
      /\ \A j \in 1 .. d - 1 + 1 : SubSeq(w, 1, d)[j] = w[1 + j - 1]
  BY <1>1, <1>2, SubSeqProperties
<1> QED BY <1>1, <1>3 DEF Stem

LEMMA BelowProperties ==
  ASSUME NEW a \in Seq(Nat), NEW b \in Seq(Nat)
  PROVE  Below(a, b) <=> Len(a) <= Len(b) /\ \A j \in 1 .. Len(a) : a[j] = b[j]
<1>1. Len(a) \in Nat /\ Len(b) \in Nat
  BY LenProperties
<1>2. CASE Len(a) <= Len(b)
  <2>1. /\ Stem(b, Len(a)) \in Seq(Nat) /\ Len(Stem(b, Len(a))) = Len(a)
        /\ \A j \in 1 .. Len(a) : Stem(b, Len(a))[j] = b[j]
    <3>1. Len(a) \in 0 .. Len(b)
      BY <1>1, <1>2
    <3> QED BY <3>1, StemProperties
  <2>2. (\A j \in 1 .. Len(a) : a[j] = b[j]) => Stem(b, Len(a)) = a
    <3>1. SUFFICES ASSUME \A j \in 1 .. Len(a) : a[j] = b[j]
                   PROVE  Stem(b, Len(a)) = a
      OBVIOUS
    <3>2. \A j \in 1 .. Len(Stem(b, Len(a))) : Stem(b, Len(a))[j] = a[j]
      BY <2>1, <3>1
    <3> HIDE DEF Stem
    <3> QED BY <2>1, <3>2, SeqEqual
  <2> QED BY <1>2, <2>1, <2>2 DEF Below
<1>3. CASE ~ (Len(a) <= Len(b))
  BY <1>3 DEF Below
<1> QED BY <1>2, <1>3

LEMMA AppendedProperties ==
  ASSUME NEW n \in Seq(Nat), NEW k \in Nat
  PROVE  /\ Append(n, k) \in Seq(Nat) /\ Len(Append(n, k)) = Len(n) + 1
         /\ Append(n, k)[Len(n) + 1] = k
         /\ \A j \in 1 .. Len(n) : Append(n, k)[j] = n[j]
<1>1. Len(n) \in Nat
  BY LenProperties
<1> QED BY <1>1, AppendProperties

\* The two ways of naming the same node: by its letters, and as the end of a stem.
LEMMA StepDown ==
  ASSUME NEW S, NEW w \in Seq(S), S \subseteq Nat, NEW d \in 0 .. Len(w) - 1
  PROVE  Append(Stem(w, d), w[d + 1]) = Stem(w, d + 1)
<1>1. w \in Seq(Nat) /\ Len(w) \in Nat /\ d \in 0 .. Len(w) /\ d + 1 \in 0 .. Len(w)
  <2>1. w \in Seq(Nat)
    BY SeqMonotonic
  <2>2. Len(w) \in Nat
    BY LenProperties
  <2> QED BY <2>1, <2>2
<1>2. w[d + 1] \in Nat
  <2>1. d + 1 \in 1 .. Len(w)
    BY <1>1
  <2> QED BY <1>1, <2>1, ElementOfSeq
<1> DEFINE a == Stem(w, d)
           b == Stem(w, d + 1)
<1>3. /\ a \in Seq(Nat) /\ Len(a) = d /\ \A j \in 1 .. d : a[j] = w[j]
      /\ b \in Seq(Nat) /\ Len(b) = d + 1 /\ \A j \in 1 .. d + 1 : b[j] = w[j]
  BY <1>1, StemProperties
<1> HIDE DEF a, b
<1>4. /\ Append(a, w[d + 1]) \in Seq(Nat) /\ Len(Append(a, w[d + 1])) = d + 1
      /\ Append(a, w[d + 1])[d + 1] = w[d + 1]
      /\ \A j \in 1 .. d : Append(a, w[d + 1])[j] = a[j]
  BY <1>2, <1>3, AppendedProperties
<1>5. ASSUME NEW j \in 1 .. d + 1
      PROVE  Append(a, w[d + 1])[j] = b[j]
  <2>1. CASE j = d + 1
    BY <2>1, <1>1, <1>3, <1>4
  <2>2. CASE j \in 1 .. d
    BY <2>2, <1>1, <1>3, <1>4
  <2>3. d \in Nat
    BY <1>1
  <2>4. j = d + 1 \/ j \in 1 .. d
    BY <2>3
  <2> QED BY <2>1, <2>2, <2>4
<1>6. Append(a, w[d + 1]) = b
  BY <1>3, <1>4, <1>5, SeqEqual
<1> QED BY <1>6 DEF a, b

-----------------------------------------------------------------------------
(* Where delNode stops. *)

LEMMA StopIsFirst ==
  ASSUME NEW T, NEW w \in Seq(Nat), NEW d, d = Stop(T, w)
  PROVE  /\ d \in 0 .. Len(w)
         /\ AnswersTrue(T, w, d) \/ Throws(T, w, d)
         /\ \A j \in 0 .. d - 1 : ~ AnswersTrue(T, w, j) /\ ~ Throws(T, w, j)
<1> DEFINE Ends == {j \in 0 .. Len(w) : AnswersTrue(T, w, j) \/ Throws(T, w, j)}
<1>1. Len(w) \in Nat
  BY LenProperties
<1>2. AnswersTrue(T, w, Len(w))
  BY DEF AnswersTrue
<1>3. Len(w) \in Ends /\ Ends \in SUBSET Nat
  BY <1>1, <1>2
<1>4. PICK x \in Ends : \A y \in Ends : x <= y
  <2> HIDE DEF Ends
  <2> QED BY <1>3, LeastIndex
<1>5. /\ x \in 0 .. Len(w) /\ (AnswersTrue(T, w, x) \/ Throws(T, w, x))
      /\ \A j \in 0 .. x - 1 : ~ AnswersTrue(T, w, j) /\ ~ Throws(T, w, j)
  <2>1. ASSUME NEW j \in 0 .. x - 1
        PROVE  ~ AnswersTrue(T, w, j) /\ ~ Throws(T, w, j)
    <3>1. j \in 0 .. Len(w) /\ ~ (x <= j)
      BY <1>1
    <3>2. j \notin Ends
      BY <1>4, <3>1
    <3> QED BY <3>1, <3>2
  <2> QED BY <1>4, <2>1
<1> QED BY <1>5 DEF Stop

-----------------------------------------------------------------------------
(* Type correctness: the tree is closed under stems. *)

\* Words stand for arguments of any program: sequences of numbered characters.
LEMMA WordsAreSequences ==
  ASSUME NEW w \in Words
  PROVE  w \in Seq(Nat) /\ Len(w) \in Nat
BY TrieAssumption, LenProperties

LEMMA LettersAreNumbers == Letters \subseteq Nat
BY TrieAssumption DEF Letters

LEMMA NodesAreSequences ==
  ASSUME TypeOK, NEW n \in nodes
  PROVE  n \in Seq(Letters) /\ n \in Seq(Nat) /\ Len(n) \in Nat
<1>1. n \in Seq(Letters)
  BY DEF TypeOK
<1>2. n \in Seq(Nat)
  BY <1>1, LettersAreNumbers, SeqMonotonic
<1> QED BY <1>1, <1>2, LenProperties

\* What addNode creates is in the alphabet and closed under stems.
LEMMA CreatedIsATree ==
  ASSUME NEW w \in Words
  PROVE  /\ Created(w) \subseteq Seq(Letters) /\ <<>> \in Created(w)
         /\ \A n \in Created(w) : n # <<>> => Stem(n, Len(n) - 1) \in Created(w)
<1>1. w \in Seq(Nat) /\ Len(w) \in Nat
  BY WordsAreSequences
<1>2. ASSUME NEW d \in 0 .. Len(w), Indexable(w, d)
      PROVE  /\ Stem(w, d) \in Seq(Letters) /\ Len(Stem(w, d)) = d
             /\ d > 0 => Stem(Stem(w, d), d - 1) = Stem(w, d - 1)
  <2>1. /\ Stem(w, d) \in Seq(Nat) /\ Len(Stem(w, d)) = d
        /\ \A j \in 1 .. d : Stem(w, d)[j] = w[j]
    BY <1>1, StemProperties
  <2>2. Stem(w, d) \in Seq(Letters)
    <3>1. \A j \in 1 .. d : w[j] \in Letters
      BY <1>2 DEF Indexable
    <3>2. d \in Int /\ 1 \in Int
      OBVIOUS
    <3>3. SubSeq(w, 1, d) \in Seq(Letters)
      BY <3>1, <3>2, SubSeqProperties
    <3> QED BY <3>3 DEF Stem
  <2>3. ASSUME d > 0
        PROVE  Stem(Stem(w, d), d - 1) = Stem(w, d - 1)
    <3> DEFINE a == Stem(w, d)
               b == Stem(w, d - 1)
               c == Stem(a, d - 1)
    <3>1. d - 1 \in 0 .. Len(w) /\ d - 1 \in 0 .. Len(a)
      BY <1>1, <2>1, <2>3
    <3>2. b \in Seq(Nat) /\ Len(b) = d - 1 /\ \A j \in 1 .. d - 1 : b[j] = w[j]
      BY <1>1, <3>1, StemProperties
    <3>3. c \in Seq(Nat) /\ Len(c) = d - 1 /\ \A j \in 1 .. d - 1 : c[j] = a[j]
      <4> HIDE DEF a
      <4> QED BY <2>1, <3>1, StemProperties DEF a
    <3>4. ASSUME NEW j \in 1 .. d - 1
          PROVE  c[j] = b[j]
      <4>1. j \in 1 .. d
        BY <1>1
      <4>2. a[j] = w[j]
        BY <2>1, <4>1
      <4> HIDE DEF a, b, c
      <4> QED BY <3>2, <3>3, <4>2
    <3> HIDE DEF a, b, c
    <3>5. c = b
      BY <3>2, <3>3, <3>4, SeqEqual
    <3> QED BY <3>5 DEF a, b, c
  <2> QED BY <2>1, <2>2, <2>3
<1>3. Created(w) \subseteq Seq(Letters)
  BY <1>2 DEF Created
<1>4. <<>> \in Created(w)
  <2>1. 0 \in 0 .. Len(w) /\ Indexable(w, 0)
    BY <1>1 DEF Indexable
  <2>2. Stem(w, 0) = <<>>
    BY SubSeqEmpty DEF Stem
  <2> QED BY <2>1, <2>2 DEF Created
<1>5. ASSUME NEW n \in Created(w), n # <<>>
      PROVE  Stem(n, Len(n) - 1) \in Created(w)
  <2>1. PICK d \in 0 .. Len(w) : Indexable(w, d) /\ n = Stem(w, d)
    BY DEF Created
  <2>2. d # 0
    <3>1. Stem(w, 0) = <<>>
      BY SubSeqEmpty DEF Stem
    <3> QED BY <1>5, <2>1, <3>1
  <2>3. d - 1 \in 0 .. Len(w) /\ Indexable(w, d - 1)
    BY <1>1, <2>1, <2>2 DEF Indexable
  <2>4. Stem(n, Len(n) - 1) = Stem(w, d - 1)
    BY <1>2, <2>1, <2>2
  <2> QED BY <2>3, <2>4 DEF Created
<1> QED BY <1>3, <1>4, <1>5

LEMMA TypeInit == Init => TypeOK
<1> SUFFICES ASSUME Init PROVE TypeOK
  OBVIOUS
<1>1. <<>> \in Seq(Letters)
  BY EmptySeq
<1> QED BY <1>1 DEF Init, TypeOK

LEMMA TypeStep == TypeOK /\ [Next]_vars => TypeOK'
<1> SUFFICES ASSUME TypeOK, [Next]_vars
             PROVE  TypeOK'
  OBVIOUS
<1>1. ASSUME NEW w \in Words, AddNode(w)
      PROVE  TypeOK'
  <2>1. /\ nodes' = nodes \cup Created(w)
        /\ call' \in [op : {"new", "add", "del"}, word : Words \cup {<<>>},
                      out : {"returned", "threw", "true", "false"}]
    BY <1>1 DEF AddNode
  <2>2. /\ Created(w) \subseteq Seq(Letters) /\ <<>> \in Created(w)
        /\ \A n \in Created(w) : n # <<>> => Stem(n, Len(n) - 1) \in Created(w)
    BY CreatedIsATree
  <2> QED BY <2>1, <2>2 DEF TypeOK
<1>2. ASSUME NEW w \in Words, DelNode(w)
      PROVE  TypeOK'
  <2> DEFINE d == Stop(nodes, w)
  <2>1. w \in Seq(Nat) /\ Len(w) \in Nat
    BY WordsAreSequences
  <2>2. d \in 0 .. Len(w)
    BY <2>1, StopIsFirst
  <2>3. /\ \/ nodes' = nodes
           \/ d > 0 /\ nodes' = nodes \ Dropped(nodes, w, d)
        /\ call' \in [op : {"new", "add", "del"}, word : Words \cup {<<>>},
                      out : {"returned", "threw", "true", "false"}]
    BY <1>2 DEF DelNode
  <2> HIDE DEF d
  <2>4. CASE nodes' = nodes
    BY <2>3, <2>4 DEF TypeOK
  <2>5. CASE d > 0 /\ nodes' = nodes \ Dropped(nodes, w, d)
    <3> DEFINE s == Stem(w, d)
    <3>1. s \in Seq(Nat) /\ Len(s) = d
      BY <2>1, <2>2, StemProperties
    <3>2. \A n : n \in nodes' <=> n \in nodes /\ ~ Below(s, n)
      BY <2>5 DEF Dropped
    <3> HIDE DEF s
    <3>3. <<>> \in nodes'
      <4>1. ~ Below(s, <<>>)
        BY <2>5, <2>2, <3>1, EmptySeq DEF Below
      <4> QED BY <3>2, <4>1 DEF TypeOK
    <3>4. ASSUME NEW n \in nodes', n # <<>>
          PROVE  Stem(n, Len(n) - 1) \in nodes'
      <4> DEFINE p == Stem(n, Len(n) - 1)
      <4>1. n \in nodes /\ p \in nodes /\ ~ Below(s, n)
        BY <3>2, <3>4 DEF TypeOK
      <4>2. n \in Seq(Nat) /\ Len(n) \in Nat /\ p \in Seq(Nat)
        BY <4>1, NodesAreSequences
      <4>3. Len(n) - 1 \in 0 .. Len(n)
        BY <3>4, <4>2, EmptySeq
      <4>4. Len(p) = Len(n) - 1 /\ \A j \in 1 .. Len(n) - 1 : p[j] = n[j]
        BY <4>2, <4>3, StemProperties
      <4> HIDE DEF p
      <4>5. Below(s, p) => Below(s, n)
        <5>1. Len(s) \in Nat
          BY <3>1, LenProperties
        <5>2. Below(s, p) <=> Len(s) <= Len(p) /\ \A j \in 1 .. Len(s) : s[j] = p[j]
          BY <3>1, <4>2, BelowProperties
        <5>3. Below(s, n) <=> Len(s) <= Len(n) /\ \A j \in 1 .. Len(s) : s[j] = n[j]
          BY <3>1, <4>2, BelowProperties
        <5>4. ASSUME Len(s) <= Len(p)
              PROVE  /\ Len(s) <= Len(n)
                     /\ \A j \in 1 .. Len(s) : j \in 1 .. Len(n) - 1
          BY <4>2, <4>4, <5>1, <5>4
        <5> QED BY <4>4, <5>2, <5>3, <5>4
      <4>6. p \in nodes'
        BY <3>2, <4>1, <4>5
      <4> QED BY <4>6 DEF p
    <3>5. nodes' \subseteq Seq(Letters)
      BY <3>2 DEF TypeOK
    <3> QED BY <2>3, <3>3, <3>4, <3>5 DEF TypeOK
  <2> QED BY <2>3, <2>4, <2>5
<1>3. CASE UNCHANGED vars
  BY <1>3 DEF vars, TypeOK
<1> QED BY <1>1, <1>2, <1>3 DEF Next

\* The tree stays a tree over the alphabet: closed under stems, with its root,
\* whatever is added, abandoned or cut off.
THEOREM TypeCorrect == Spec => []TypeOK
BY TypeInit, TypeStep, PTL DEF Spec

-----------------------------------------------------------------------------
(* What a deletion does. *)

\* delNode that answers false cuts the subtree at the end of a stem of the word:
\* below it nothing branches off the word at once, above it every node branches.
LEMMA WhatIsCut ==
  ASSUME NEW w \in Words, DelNode(w), call'.out = "false"
  PROVE  \E d \in 1 .. Len(w) :
           /\ d = Len(w) \/ Kids(nodes, Stem(w, d)) \subseteq {w[d + 1]}
           /\ \A j \in 0 .. d - 1 : \E k \in Kids(nodes, Stem(w, j)) : k # w[j + 1]
           /\ \A n : n \in nodes' <=> n \in nodes /\ ~ Below(Stem(w, d), n)
<1> DEFINE d == Stop(nodes, w)
<1>1. w \in Seq(Nat) /\ Len(w) \in Nat
  BY WordsAreSequences
<1>2. /\ d \in 0 .. Len(w)
      /\ AnswersTrue(nodes, w, d) \/ Throws(nodes, w, d)
      /\ \A j \in 0 .. d - 1 : ~ AnswersTrue(nodes, w, j) /\ ~ Throws(nodes, w, j)
  BY <1>1, StopIsFirst
<1>3. ~ Throws(nodes, w, d) /\ d # 0
  BY DEF DelNode
<1>4. nodes' = IF d > 0 /\ ~ Throws(nodes, w, d) THEN nodes \ Dropped(nodes, w, d) ELSE nodes
  BY DEF DelNode
<1> HIDE DEF d
<1>5. d \in 1 .. Len(w) /\ d > 0
  BY <1>1, <1>2, <1>3
<1>6. d = Len(w) \/ Kids(nodes, Stem(w, d)) \subseteq {w[d + 1]}
  BY <1>2, <1>3 DEF AnswersTrue, Alone
<1>7. ASSUME NEW j \in 0 .. d - 1
      PROVE  \E k \in Kids(nodes, Stem(w, j)) : k # w[j + 1]
  <2>1. j < Len(w)
    BY <1>1, <1>5
  <2>2. w[j + 1] \in Letters /\ ~ Alone(nodes, w, j)
    BY <1>2, <2>1 DEF AnswersTrue, Throws
  <2> QED BY <2>2 DEF Alone
<1>8. \A n : n \in nodes' <=> n \in nodes /\ ~ Below(Stem(w, d), n)
  BY <1>3, <1>4, <1>5 DEF Dropped
<1> QED BY <1>5, <1>6, <1>7, <1>8

LEMMA OtherwiseUnchanged ==
  ASSUME NEW w \in Words, DelNode(w), call'.out # "false"
  PROVE  nodes' = nodes
<1>1. Stop(nodes, w) \in 0 .. Len(w)
  BY WordsAreSequences, StopIsFirst
<1>2. Throws(nodes, w, Stop(nodes, w)) \/ Stop(nodes, w) = 0
  BY DEF DelNode
<1> QED BY <1>1, <1>2 DEF DelNode

\* No new leaves: the father of the cut keeps another child.
LEMMA NoWordAdded ==
  ASSUME TypeOK, NEW w \in Words, DelNode(w)
  PROVE  Leaves(nodes') \subseteq Leaves(nodes)
<1>1. CASE call'.out # "false"
  BY <1>1, OtherwiseUnchanged
<1>2. CASE call'.out = "false"
  <2>1. w \in Seq(Nat) /\ Len(w) \in Nat
    BY WordsAreSequences
  <2>2. PICK d \in 1 .. Len(w) :
           /\ \A j \in 0 .. d - 1 : \E k \in Kids(nodes, Stem(w, j)) : k # w[j + 1]
           /\ \A n : n \in nodes' <=> n \in nodes /\ ~ Below(Stem(w, d), n)
    BY <1>2, WhatIsCut
  <2> DEFINE s == Stem(w, d)
  <2>3. d \in 0 .. Len(w) /\ d - 1 \in 0 .. Len(w) - 1 /\ d - 1 \in 0 .. Len(w) /\ d - 1 \in 0 .. d - 1
    BY <2>1
  <2>4. s \in Seq(Nat) /\ Len(s) = d /\ \A j \in 1 .. d : s[j] = w[j]
    BY <2>1, <2>3, StemProperties
  <2> HIDE DEF s
  <2>5. SUFFICES ASSUME NEW n \in nodes', Kids(nodes', n) = {}, NEW k \in Kids(nodes, n)
                 PROVE  FALSE
    BY <2>2 DEF Leaves
  <2>6. n \in nodes /\ ~ Below(s, n) /\ n \in Seq(Nat) /\ Len(n) \in Nat
    BY <2>2, <2>5, NodesAreSequences DEF s
  <2>7. ASSUME NEW l \in Kids(nodes, n)
        PROVE  /\ l \in Nat /\ Append(n, l) \in Seq(Nat) /\ Len(n) + 1 = d
               /\ \A j \in 1 .. d - 1 : n[j] = w[j]
               /\ l = w[d]
    <3>1. l \in Letters /\ Append(n, l) \in nodes /\ Append(n, l) \notin nodes'
      BY <2>5, <2>7 DEF Kids
    <3>2. Below(s, Append(n, l))
      BY <2>2, <3>1 DEF s
    <3>3. l \in Nat
      BY <3>1, LettersAreNumbers
    <3>4. /\ Append(n, l) \in Seq(Nat) /\ Len(Append(n, l)) = Len(n) + 1
          /\ Append(n, l)[Len(n) + 1] = l
          /\ \A j \in 1 .. Len(n) : Append(n, l)[j] = n[j]
      BY <2>6, <3>3, AppendedProperties
    <3>5. d <= Len(n) + 1 /\ \A j \in 1 .. d : w[j] = Append(n, l)[j]
      BY <2>4, <3>2, <3>4, BelowProperties
    <3>6. ~ (d <= Len(n))
      <4>1. SUFFICES ASSUME d <= Len(n) PROVE FALSE
        OBVIOUS
      <4>2. ASSUME NEW j \in 1 .. d
            PROVE  s[j] = n[j]
        <5>1. j \in 1 .. Len(n)
          BY <2>6, <4>1
        <5> QED BY <2>4, <3>4, <3>5, <5>1
      <4>3. Below(s, n)
        BY <2>4, <2>6, <4>1, <4>2, BelowProperties
      <4> QED BY <2>6, <4>3
    <3>7. Len(n) + 1 = d
      BY <2>6, <3>5, <3>6
    <3>8. ASSUME NEW j \in 1 .. d - 1
          PROVE  n[j] = w[j]
      <4>1. j \in 1 .. Len(n) /\ j \in 1 .. d
        BY <2>6, <3>7
      <4> QED BY <3>4, <3>5, <4>1
    <3>9. l = w[d]
      <4>1. d \in 1 .. d
        OBVIOUS
      <4> QED BY <3>4, <3>5, <3>7, <4>1
    <3> QED BY <3>3, <3>4, <3>7, <3>8, <3>9
  <2>8. n = Stem(w, d - 1)
    <3> DEFINE p == Stem(w, d - 1)
    <3>1. p \in Seq(Nat) /\ Len(p) = d - 1 /\ \A j \in 1 .. d - 1 : p[j] = w[j]
      BY <2>1, <2>3, StemProperties
    <3>2. Len(n) = d - 1 /\ \A j \in 1 .. d - 1 : n[j] = w[j]
      BY <2>5, <2>6, <2>7
    <3> HIDE DEF p
    <3>3. n = p
      BY <2>6, <3>1, <3>2, SeqEqual
    <3> QED BY <3>3 DEF p
  <2>9. PICK l \in Kids(nodes, n) : l # w[d]
    BY <2>2, <2>3, <2>8
  <2> QED BY <2>7, <2>9
<1> QED BY <1>1, <1>2

\* The answer false means the word is gone with all below it.
LEMMA AnswerIsHonest ==
  ASSUME TypeOK, NEW w \in Words, DelNode(w)
  PROVE  IF call'.out = "false" THEN \A n \in nodes' : ~ Below(w, n) ELSE nodes' = nodes
<1>1. CASE call'.out # "false"
  BY <1>1, OtherwiseUnchanged
<1>2. CASE call'.out = "false"
  <2>1. w \in Seq(Nat) /\ Len(w) \in Nat
    BY WordsAreSequences
  <2>2. PICK d \in 1 .. Len(w) : \A n : n \in nodes' <=> n \in nodes /\ ~ Below(Stem(w, d), n)
    BY <1>2, WhatIsCut
  <2> DEFINE s == Stem(w, d)
  <2>3. s \in Seq(Nat) /\ Len(s) = d /\ \A j \in 1 .. d : s[j] = w[j]
    <3>1. d \in 0 .. Len(w)
      OBVIOUS
    <3> QED BY <2>1, <3>1, StemProperties
  <2> HIDE DEF s
  <2>4. ASSUME NEW n \in nodes', Below(w, n)
        PROVE  FALSE
    <3>1. n \in nodes /\ ~ Below(s, n) /\ n \in Seq(Nat) /\ Len(n) \in Nat
      BY <2>2, <2>4, NodesAreSequences DEF s
    <3>2. Len(w) <= Len(n) /\ \A j \in 1 .. Len(w) : w[j] = n[j]
      BY <2>1, <2>4, <3>1, BelowProperties
    <3>3. d <= Len(n) /\ \A j \in 1 .. d : j \in 1 .. Len(w)
      BY <2>1, <3>1, <3>2
    <3>4. Below(s, n)
      BY <2>3, <3>1, <3>2, <3>3, BelowProperties
    <3> QED BY <3>1, <3>4
  <2> QED BY <1>2, <2>4
<1> QED BY <1>1, <1>2

\* Sharing a stem is lying below it.
LEMMA CommonMeansBelow ==
  ASSUME NEW v \in Seq(Nat), NEW w \in Seq(Nat), NEW d \in 0 .. Len(w)
  PROVE  d \in Common(v, w) <=> Below(Stem(w, d), v)
<1>1. Len(Stem(w, d)) = d
  BY StemProperties
<1> QED BY <1>1 DEF Common, Below

\* A stem of a shared stem is shared.
LEMMA CommonIsInitial ==
  ASSUME NEW v \in Seq(Nat), NEW w \in Seq(Nat), NEW d \in Common(v, w), NEW j \in 0 .. d
  PROVE  j \in Common(v, w)
<1>1. /\ Len(v) \in Nat /\ Len(w) \in Nat
      /\ d \in 0 .. Len(w) /\ j \in 0 .. Len(w) /\ d <= Len(v) /\ Stem(v, d) = Stem(w, d)
  BY LenProperties DEF Common
<1>2. d \in 0 .. Len(v) /\ j \in 0 .. Len(v)
  BY <1>1
<1> DEFINE a == Stem(v, j)
           b == Stem(w, j)
<1>3. \A m \in 1 .. d : v[m] = w[m]
  <2>1. \A m \in 1 .. d : Stem(v, d)[m] = v[m]
    BY <1>2, StemProperties
  <2>2. \A m \in 1 .. d : Stem(w, d)[m] = w[m]
    BY <1>1, StemProperties
  <2> QED BY <1>1, <2>1, <2>2
<1>4. a \in Seq(Nat) /\ Len(a) = j /\ \A m \in 1 .. j : a[m] = v[m]
  BY <1>2, StemProperties
<1>5. b \in Seq(Nat) /\ Len(b) = j /\ \A m \in 1 .. j : b[m] = w[m]
  BY <1>1, StemProperties
<1> HIDE DEF a, b
<1>6. ASSUME NEW m \in 1 .. j
      PROVE  a[m] = b[m]
  <2>1. m \in 1 .. d
    BY <1>1
  <2> QED BY <1>3, <1>4, <1>5, <2>1
<1>7. a = b
  BY <1>4, <1>5, <1>6, SeqEqual
<1> QED BY <1>1, <1>2, <1>7 DEF Common, a, b

\* A listed word survives if and only if all it shares with the deleted one branches.
LEMMA SurvivalRule ==
  ASSUME TypeOK, NEW w \in Words, DelNode(w), call'.out = "false", NEW v \in Leaves(nodes)
  PROVE  v \in nodes' <=>
           \A d \in Common(v, w) :
             \E k \in Kids(nodes, Stem(v, d)) : d < Len(w) /\ k # w[d + 1]
<1>1. w \in Seq(Nat) /\ Len(w) \in Nat
  BY WordsAreSequences
<1>2. v \in nodes /\ v \in Seq(Nat) /\ Len(v) \in Nat
  BY NodesAreSequences DEF Leaves
<1>3. PICK d \in 1 .. Len(w) :
           /\ d = Len(w) \/ Kids(nodes, Stem(w, d)) \subseteq {w[d + 1]}
           /\ \A j \in 0 .. d - 1 : \E k \in Kids(nodes, Stem(w, j)) : k # w[j + 1]
           /\ \A n : n \in nodes' <=> n \in nodes /\ ~ Below(Stem(w, d), n)
  BY WhatIsCut
<1>4. d \in 0 .. Len(w) /\ d \in Nat
  BY <1>1
<1>5. v \in nodes' <=> d \notin Common(v, w)
  BY <1>1, <1>2, <1>3, <1>4, CommonMeansBelow
<1>6. \A j \in Common(v, w) : Stem(v, j) = Stem(w, j) /\ j \in 0 .. Len(w)
  BY DEF Common
<1>7. ASSUME d \in Common(v, w)
      PROVE  ~ \E k \in Kids(nodes, Stem(v, d)) : d < Len(w) /\ k # w[d + 1]
  BY <1>3, <1>6, <1>7
<1>8. ASSUME d \notin Common(v, w), NEW j \in Common(v, w)
      PROVE  \E k \in Kids(nodes, Stem(v, j)) : j < Len(w) /\ k # w[j + 1]
  <2>1. j < d
    <3>1. j \in 0 .. Len(w) /\ j \in Nat
      BY <1>1, <1>6
    <3>2. SUFFICES ASSUME d <= j PROVE FALSE
      BY <1>4, <3>1
    <3>3. d \in 0 .. j
      BY <1>4, <3>1, <3>2
    <3> QED BY <1>1, <1>2, <1>8, <3>3, CommonIsInitial
  <2>2. j \in 0 .. d - 1 /\ j < Len(w)
    BY <1>1, <1>4, <1>6, <2>1
  <2>3. PICK k \in Kids(nodes, Stem(w, j)) : k # w[j + 1]
    BY <1>3, <2>2
  <2> QED BY <1>6, <2>2, <2>3
<1> QED BY <1>5, <1>7, <1>8

\* delNode is exact about what it is: it adds no word, it answers what it did,
\* and exactly the words that share an unbranched stem with its own go with it.
THEOREM DeletionIsExactAlways == Spec => DeletionIsExact
<1>1. ASSUME TypeOK, [Next]_vars
      PROVE  /\ [call'.op = "del" => Leaves(nodes') \subseteq Leaves(nodes)]_vars
             /\ [call'.op = "del" =>
                   IF call'.out = "false"
                     THEN \A n \in nodes' : ~ Below(call'.word, n)
                     ELSE nodes' = nodes]_vars
             /\ [call'.op = "del" /\ call'.out = "false" =>
                   \A v \in Leaves(nodes) :
                     v \in nodes' <=>
                       \A d \in Common(v, call'.word) :
                         \E k \in Kids(nodes, Stem(v, d)) :
                           d < Len(call'.word) /\ k # call'.word[d + 1]]_vars
  <2>1. ASSUME NEW w \in Words, AddNode(w)
        PROVE  call'.op # "del"
    BY <2>1 DEF AddNode
  <2>2. ASSUME NEW w \in Words, DelNode(w)
        PROVE  call'.word = w
    BY <2>2 DEF DelNode
  <2>3. ASSUME NEW w \in Words, DelNode(w)
        PROVE  /\ Leaves(nodes') \subseteq Leaves(nodes)
               /\ IF call'.out = "false" THEN \A n \in nodes' : ~ Below(w, n)
                  ELSE nodes' = nodes
               /\ call'.out = "false" =>
                    \A v \in Leaves(nodes) :
                      v \in nodes' <=>
                        \A d \in Common(v, w) :
                          \E k \in Kids(nodes, Stem(v, d)) : d < Len(w) /\ k # w[d + 1]
    BY <1>1, <2>3, NoWordAdded, AnswerIsHonest, SurvivalRule
  <2> QED BY <1>1, <2>1, <2>2, <2>3 DEF Next
<1>2. Spec => DeletionAddsNoWord
  BY <1>1, TypeCorrect, PTL DEF Spec, DeletionAddsNoWord
<1>3. Spec => AnswerTellsTheEffect
  BY <1>1, TypeCorrect, PTL DEF Spec, AnswerTellsTheEffect
<1>4. Spec => SurvivesIffAllBranch
  BY <1>1, TypeCorrect, PTL DEF Spec, SurvivesIffAllBranch
<1> QED BY <1>2, <1>3, <1>4 DEF DeletionIsExact

-----------------------------------------------------------------------------
(* What an insertion does. *)

LEMMA CreatedLiesAbove ==
  ASSUME NEW w \in Words, NEW d \in 0 .. Len(w)
  PROVE  /\ Below(Stem(w, d), w) /\ Len(Stem(w, d)) = d
         /\ Stem(w, Len(w)) = w
         /\ d < Len(w) => Append(Stem(w, d), w[d + 1]) = Stem(w, d + 1)
<1>1. w \in Seq(Nat) /\ Len(w) \in Nat
  BY WordsAreSequences
<1>2. Stem(w, d) \in Seq(Nat) /\ Len(Stem(w, d)) = d
  BY <1>1, StemProperties
<1>3. Below(Stem(w, d), w)
  BY <1>1, <1>2 DEF Below
<1>4. Stem(w, Len(w)) = w
  BY <1>1, SubSeqFull DEF Stem
<1>5. ASSUME d < Len(w)
      PROVE  Append(Stem(w, d), w[d + 1]) = Stem(w, d + 1)
  <2>1. d \in 0 .. Len(w) - 1
    BY <1>1, <1>5
  <2> QED BY <1>1, <2>1, StepDown
<1> QED BY <1>2, <1>3, <1>4, <1>5

\* A node whose child addNode created lies above the word.
LEMMA FatherLiesAbove ==
  ASSUME TypeOK, NEW w \in Words, NEW v \in nodes, NEW k \in Letters,
         Append(v, k) \in Created(w)
  PROVE  Below(v, w)
<1>1. w \in Seq(Nat) /\ Len(w) \in Nat
  BY WordsAreSequences
<1>2. v \in Seq(Nat) /\ Len(v) \in Nat /\ k \in Nat
  BY NodesAreSequences, LettersAreNumbers
<1> DEFINE a == Append(v, k)
<1>3. PICK d \in 0 .. Len(w) : a = Stem(w, d)
  BY DEF Created
<1>4. a \in Seq(Nat) /\ Len(a) = Len(v) + 1 /\ \A j \in 1 .. Len(v) : a[j] = v[j]
  BY <1>2, AppendedProperties
<1>5. Len(a) = d /\ \A j \in 1 .. d : a[j] = w[j]
  BY <1>1, <1>3, StemProperties
<1> HIDE DEF a
<1>6. d = Len(v) + 1
  BY <1>4, <1>5
<1>7. Len(v) <= Len(w)
  BY <1>1, <1>2, <1>6
<1>8. ASSUME NEW j \in 1 .. Len(v)
      PROVE  v[j] = w[j]
  <2>1. j \in 1 .. d
    BY <1>2, <1>6
  <2> QED BY <1>4, <1>5, <2>1
<1> QED BY <1>1, <1>2, <1>7, <1>8, BelowProperties

LEMMA InsertionRule ==
  ASSUME TypeOK, NEW w \in Words, AddNode(w)
  PROVE  /\ \A v \in Leaves(nodes') \ Leaves(nodes) :
              IF call'.out = "threw" THEN Below(v, w) ELSE v = w
         /\ \A v \in Leaves(nodes) \ Leaves(nodes') : Below(v, w)
         /\ call'.out = "returned" => w \in nodes'
<1>1. /\ w \in Seq(Nat) /\ Len(w) \in Nat
      /\ nodes' = nodes \cup Created(w)
      /\ call'.out = "returned" \/ call'.out = "threw"
      /\ call'.out = "returned" <=> Indexable(w, Len(w))
  BY WordsAreSequences DEF AddNode
<1>2. Indexable(w, Len(w)) => w \in Created(w)
  <2>1. Stem(w, Len(w)) = w /\ Len(w) \in 0 .. Len(w)
    BY <1>1, SubSeqFull DEF Stem
  <2> QED BY <2>1 DEF Created
<1>3. ASSUME NEW v \in Leaves(nodes') \ Leaves(nodes)
      PROVE  IF call'.out = "threw" THEN Below(v, w) ELSE v = w
  <2>1. v \in Created(w)
    BY <1>1, <1>3 DEF Leaves, Kids
  <2>2. PICK d \in 0 .. Len(w) : v = Stem(w, d)
    BY <2>1 DEF Created
  <2>3. Below(v, w)
    BY <2>2, CreatedLiesAbove
  <2>4. ASSUME Indexable(w, Len(w))
        PROVE  v = w
    <3>1. SUFFICES ASSUME d # Len(w) PROVE FALSE
      BY <2>2, CreatedLiesAbove
    <3>2. d < Len(w) /\ d + 1 \in 0 .. Len(w) /\ d + 1 \in 1 .. Len(w)
      BY <1>1, <3>1
    <3>3. w[d + 1] \in Letters /\ Indexable(w, d + 1)
      BY <1>1, <2>4, <3>2 DEF Indexable
    <3>4. Append(v, w[d + 1]) = Stem(w, d + 1)
      BY <2>2, <3>2, CreatedLiesAbove
    <3>5. Append(v, w[d + 1]) \in Created(w)
      BY <3>2, <3>3, <3>4 DEF Created
    <3> QED BY <1>1, <1>3, <3>3, <3>5 DEF Leaves, Kids
  <2> QED BY <1>1, <2>3, <2>4
<1>4. ASSUME NEW v \in Leaves(nodes) \ Leaves(nodes')
      PROVE  Below(v, w)
  <2>1. PICK k \in Letters : Append(v, k) \in nodes' /\ Append(v, k) \notin nodes
    BY <1>1, <1>4 DEF Leaves, Kids
  <2>2. v \in nodes /\ Append(v, k) \in Created(w)
    BY <1>1, <1>4, <2>1 DEF Leaves
  <2> QED BY <2>2, FatherLiesAbove
<1> QED BY <1>1, <1>2, <1>3, <1>4

\* addNode lists its word and hides at most stems of it; abandoned by an
\* exception it lists a stem of it at most.
THEOREM AddedWordsAlways == Spec => AddedWords
<1>1. ASSUME TypeOK, [Next]_vars
      PROVE  [call'.op = "add" =>
                /\ \A v \in Leaves(nodes') \ Leaves(nodes) :
                     IF call'.out = "threw" THEN Below(v, call'.word) ELSE v = call'.word
                /\ \A v \in Leaves(nodes) \ Leaves(nodes') : Below(v, call'.word)
                /\ call'.out = "returned" => call'.word \in nodes']_vars
  <2>1. ASSUME NEW w \in Words, DelNode(w)
        PROVE  call'.op # "add"
    BY <2>1 DEF DelNode
  <2>2. ASSUME NEW w \in Words, AddNode(w)
        PROVE  call'.word = w
    BY <2>2 DEF AddNode
  <2> QED BY <1>1, <2>1, <2>2, InsertionRule DEF Next
<1> QED BY <1>1, TypeCorrect, PTL DEF Spec, AddedWords
=============================================================================
