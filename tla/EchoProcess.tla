---------------------------- MODULE EchoProcess ----------------------------
(***************************************************************************)
(* The I/O multiplexing demo as it runs: both echo servers, each on its    *)
(* thread, and the client they are tried with, in one process and so with  *)
(* one descriptor table. A tap on a button of IOMultiplexingDemoActivity   *)
(* starts the server on the first time and always posts a request that is  *)
(* sent two seconds later. A server is launched once here; launching one   *)
(* again is the matter of module IOMultiplexingDemo.                       *)
(***************************************************************************)
EXTENDS MockSocketIntentService

CONSTANTS
  SelectPort, EPollPort,   (* 9000 and 9001                                *)
  Disturbed,               (* servers beside which other threads, the other*)
                           (* server among them, may open and close files  *)
  MaxTaps,                 (* bounds the model                             *)
  MaxOthers                (* bounds what other threads have open at once  *)

ASSUME EchoProcessAssumption ==
  /\ Ports = {SelectPort, EPollPort} /\ SelectPort # EPollPort
  /\ Disturbed \subseteq Ports
  /\ MaxTaps \in Nat /\ MaxOthers \in Nat

VARIABLES
  taps,                                         (* how often a button was tapped  *)
  running,                                      (* ports whose server was launched *)
  posted,                                       (* requests waiting for their two seconds *)
  cut,
  sPc, sServerFd, sClientFds, sClientFD, sLen,  (* the select server *)
  sReadFds, sIter,
  ePc, eServerFd, eClientFds, eClientFD, eLen,  (* the epoll server *)
  epollfd, interest, batch

uiVars == <<taps, running, posted>>
sVars  == <<sPc, sServerFd, sClientFds, sClientFD, sLen, sReadFds, sIter>>
eVars  == <<ePc, eServerFd, eClientFds, eClientFD, eLen, epollfd, batch>>
vars   == <<netVars, mockVars, uiVars, cut, sVars, eVars, interest>>

S == INSTANCE SelectSocketServer WITH
  Port <- SelectPort,
  pc <- sPc, serverFd <- sServerFd, mClientFds <- sClientFds,
  clientFD <- sClientFD, len <- sLen, readFds <- sReadFds, iter <- sIter

E == INSTANCE EPollSocketServer WITH
  Port <- EPollPort,
  pc <- ePc, serverFd <- eServerFd, mClientFds <- eClientFds,
  clientFD <- eClientFD, len <- eLen

Init ==
  /\ S!Init
  /\ E!Init
  /\ MockInit
  /\ taps = 0
  /\ running = {}
  /\ posted = << >>

-----------------------------------------------------------------------------
\* startSelectServer and startEpollServer, on the main thread.
Tap(p) ==
  /\ taps < MaxTaps
  /\ running \subseteq {p} \/ running \cup {p} \subseteq Disturbed
  /\ taps' = taps + 1
  /\ running' = running \cup {p}
  /\ posted' = Append(posted, p)
  /\ UNCHANGED <<netVars, mockVars, cut, sVars, eVars, interest>>

\* The delayed Runnable: posted with the same delay, they run in order.
PostedRuns ==
  /\ posted # << >>
  /\ SendSocketMsg(Head(posted))
  /\ posted' = Tail(posted)
  /\ UNCHANGED <<taps, running, cut, sVars, eVars, interest>>

\* A closed descriptor drops out of the epoll instance, whoever closed it.
ClosedOnesDropOut ==
  interest' = [f \in Fds |-> IF file'[f] = Free THEN "none" ELSE interest[f]]

SelectThread ==
  /\ SelectPort \in running
  /\ S!Server
  /\ ClosedOnesDropOut
  /\ UNCHANGED <<mockVars, uiVars, eVars>>

\* select() failing, or a readn call cut short: by a signal, or because a
\* descriptor was closed behind the server's back.
SelectInterrupted ==
  /\ S!Signal
  /\ UNCHANGED <<mockVars, uiVars, eVars, interest>>

EPollInterrupted ==
  /\ E!Signal
  /\ UNCHANGED <<mockVars, uiVars, sVars>>

EPollThread ==
  /\ EPollPort \in running
  /\ E!Server
  /\ UNCHANGED <<mockVars, uiVars, sVars>>

ClientThread ==
  /\ Worker
  /\ ClosedOnesDropOut
  /\ UNCHANGED <<uiVars, cut, sVars, eVars>>

\* The rest of the app, MaxFileDescriptorActivity for one.
OtherThreads ==
  /\ ForeignOpen \/ ForeignClose
  /\ running \subseteq Disturbed
  /\ Cardinality({f \in Fds : file'[f] = Plain}) <= MaxOthers
  /\ UNCHANGED <<mockVars, uiVars, cut, sVars, eVars, interest>>

Next ==
  \/ \E p \in Ports : Tap(p)
  \/ PostedRuns \/ SelectThread \/ EPollThread \/ ClientThread \/ OtherThreads
  \/ SelectInterrupted \/ EPollInterrupted

Spec ==
  /\ Init /\ [][Next]_vars
  /\ WF_vars(PostedRuns)
  /\ WF_vars(SelectThread) /\ WF_vars(EPollThread) /\ WF_vars(ClientThread)

-----------------------------------------------------------------------------
TypeOK ==
  /\ S!TypeOK /\ E!TypeOK /\ MockTypeOK
  /\ taps \in 0 .. MaxTaps
  /\ running \subseteq Ports
  /\ posted \in Seq(Ports)

\* While nobody else opens or closes files beside the epoll server, the threads
\* keep out of each other's descriptors: the select server's list, what the epoll
\* server watches, and the client's socket are the ends each of them made itself. All
\* three keep their variables in range.
ServedEnd(f, p) == \E c \in Conns : file[f] = End("srv", c) /\ dest[c] = p

EachItsOwn ==
  /\ TypeOK
  /\ \A f \in ToSet(sClientFds) : ServedEnd(f, SelectPort)
  /\ \A f \in Fds : interest[f] \in {"armed", "spent"} => ServedEnd(f, EPollPort)
  /\ conn # None => file[socket] = End("cli", conn)

\* What the app reads back is what it sent, header first.
AnswersAreRight ==
  \A c \in Conns : conn = c => IsPrefix(answer, Message(c))

\* A descriptor the epoll server closes is, as its log says (EPollSocketServer.cpp:71,
\* "close clientFD : %d"), that of a client it has accepted.
ClosesItsClients ==
  ePc = "drop" => ServedEnd(eClientFD, EPollPort)

\* Each request the service takes up comes to its end, so that the next one has
\* its turn; unless select() has failed, which leaves accepted clients open with
\* nobody to answer them, or the table is full when accept() or, earlier,
\* epoll_create() wants a descriptor.
RequestsEnd ==
  cpc # "idle" ~>
    cpc = "idle" \/ sPc = "returned" \/ TableFull \/ epollfd = E!Failed

\* A request that found its server is answered in full, unless a signal hit the
\* server or the descriptors run out.
ConnectedIsAnswered ==
  \A c \in Conns :
    conn = c ~>
      \/ outcome[c] = "answered" \/ c \in cut \/ sPc = "returned"
      \/ TableFull \/ epollfd = E!Failed
=============================================================================
