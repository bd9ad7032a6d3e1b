---------------------- MODULE SelectSocketServerProofs ----------------------
(***************************************************************************)
(* The select server's hold on its descriptors, for every number of        *)
(* clients, every descriptor limit and every framing.                      *)
(***************************************************************************)
EXTENDS SelectSocketServer, AbstractSocketServerProofs

-----------------------------------------------------------------------------
(* The inductive invariant. *)

Inside == pc \in {"wait", "accept", "scan", "header", "body", "drop", "close"}

\* Where the thread is tells what serverFd and clientFD stand for. The server
\* may be inside with a socket that does not listen.
ControlInv ==
  /\ pc \in {"idle", "bind", "listen", "returned"} \/ Inside
  /\ pc \in {"idle", "bind", "listen"} => mClientFds = << >>
  /\ pc \in {"bind", "listen"} => serverFd \in Fds /\ file[serverFd] = RawSocket
  /\ Inside => serverFd \in Fds /\ file[serverFd] \in {Listener(Port), RawSocket}
  /\ AtClient => iter \in 1 .. Len(mClientFds) /\ clientFD = mClientFds[iter]

\* What the process has open: only the server makes sockets, and the number of
\* the one it makes itself is lost only where it returns without having served.
FilesInv ==
  /\ \A f \in Fds :
       /\ file[f].kind = "listen" => f = serverFd /\ Inside
       /\ file[f].kind = "raw" =>
            \/ f = serverFd /\ pc \notin {"idle", "returned"}
            \/ pc = "returned" /\ mClientFds = << >>
       /\ file[f].kind = "srv" => file[f].id \in Conns
       /\ file[f].kind # "cli"
  /\ \A f, g \in Fds : file[f].kind = "raw" /\ file[g].kind = "raw" => f = g

ListInv ==
  /\ \A f \in Fds : file[f].kind = "srv" <=> f \in ToSet(mClientFds)
  /\ Distinct(mClientFds)

IInv == TypeOK /\ ControlInv /\ FilesInv /\ ListInv

LEMMA InitInv == Init => IInv
<1> SUFFICES ASSUME Init PROVE IInv
  OBVIOUS
<1> USE DEF Init, NetInit, BaseInit
<1>1. BaseTypeOK
  BY BaseTypeAtFirst
<1>2. TypeOK
  BY <1>1 DEF TypeOK
<1>3. ControlInv
  BY DEF ControlInv, Inside, AtClient
<1>4. FilesInv
  BY DEF FilesInv, Free
<1>5. ListInv
  BY DEF ListInv, Distinct, ToSet, Free
<1> QED BY <1>2, <1>3, <1>4, <1>5 DEF IInv

\* A step that opens and closes nothing and leaves the list alone.
LEMMA QuietStep ==
  ASSUME IInv, TypeOK', ControlInv', file' = file, serverFd' = serverFd,
         mClientFds' = mClientFds,
         Inside => Inside', pc' = "returned" <=> pc = "returned", pc' = "idle" => pc = "idle"
  PROVE  IInv'
BY DEF IInv, FilesInv, ListInv, Inside

LEMMA CreateSocketInv ==
  ASSUME IInv, CreateSocket, UNCHANGED <<readFds, iter>> PROVE IInv'
<1> USE DEF IInv, CreateSocket
<1>1. PICK f \in Fds : LowestFree(f) /\ file' = [file EXCEPT ![f] = RawSocket] /\ serverFd' = f
  OBVIOUS
<1>2. TypeOK'
  BY <1>1 DEF TypeOK, BaseTypeOK, NetTypeOK, linkVars, RawSocket, Files
<1>3. ControlInv'
  BY <1>1 DEF ControlInv, Inside, AtClient, TypeOK, BaseTypeOK, NetTypeOK
<1>4. FilesInv'
  <2>1. /\ \A g \in Fds : file'[g] = IF g = f THEN RawSocket ELSE file[g]
        /\ RawSocket.kind = "raw" /\ pc = "idle" /\ pc' = "bind"
    BY <1>1 DEF TypeOK, BaseTypeOK, NetTypeOK, RawSocket
  <2>2. \A g \in Fds : file[g].kind \notin {"raw", "listen", "cli"}
    BY <2>1 DEF FilesInv, Inside
  <2> QED BY <1>1, <2>1, <2>2 DEF FilesInv, Inside
<1>5. ListInv'
  BY <1>1 DEF ListInv, LowestFree, TypeOK, BaseTypeOK, NetTypeOK, RawSocket, Free
<1> QED BY <1>2, <1>3, <1>4, <1>5

LEMMA ListenInv ==
  ASSUME IInv, Listen("wait"), UNCHANGED <<readFds, iter>> PROVE IInv'
<1> USE PortAssumption DEF IInv, Listen
<1>1. serverFd \in Fds /\ file[serverFd] = RawSocket
  BY DEF ControlInv
<1>2. TypeOK'
  BY <1>1 DEF TypeOK, BaseTypeOK, NetTypeOK, linkVars, Listener, Files
<1>3. ControlInv'
  BY <1>1 DEF ControlInv, Inside, AtClient, TypeOK, BaseTypeOK, NetTypeOK
<1>4. FilesInv'
  BY <1>1 DEF FilesInv, TypeOK, BaseTypeOK, NetTypeOK, Listener, Inside
<1>5. ListInv'
  BY <1>1 DEF ListInv, TypeOK, BaseTypeOK, NetTypeOK, RawSocket, Listener
<1> QED BY <1>2, <1>3, <1>4, <1>5

LEMMA CloseListenerInv ==
  ASSUME IInv, CloseListener, UNCHANGED <<readFds, iter>> PROVE IInv'
<1> USE DEF IInv, CloseListener
<1>1. serverFd \in Fds /\ file[serverFd] \in {Listener(Port), RawSocket}
  BY DEF ControlInv, Inside
<1>2. NetTypeOK' /\ file' = [file EXCEPT ![serverFd] = Free]
  BY <1>1, CloseType DEF CloseServerFd, TypeOK, BaseTypeOK
<1>3. TypeOK'
  BY <1>2 DEF TypeOK, BaseTypeOK
<1>4. ControlInv'
  BY <1>2 DEF ControlInv, Inside, AtClient
<1>5. FilesInv'
  BY <1>2 DEF FilesInv, TypeOK, BaseTypeOK, NetTypeOK, Free, Inside
<1>6. ListInv'
  BY <1>1, <1>2 DEF ListInv, TypeOK, BaseTypeOK, NetTypeOK, Listener, RawSocket, Free
<1> QED BY <1>3, <1>4, <1>5, <1>6

\* The number of the socket that could not be bound is lost.
LEMMA GivesUpInv ==
  ASSUME IInv, SocketFails \/ BindFails, UNCHANGED <<readFds, iter>> PROVE IInv'
<1>1. /\ pc \in {"idle", "bind"} /\ pc' = "returned" /\ serverFd' \in {serverFd, NoFd}
      /\ mClientFds' = mClientFds /\ file' = file
      /\ UNCHANGED <<netVars, clientFD, len, cut, readFds, iter>>
  BY DEF SocketFails, BindFails, netVars
<1>2. TypeOK' /\ ControlInv'
  BY <1>1 DEF IInv, TypeOK, BaseTypeOK, NetTypeOK, netVars, ControlInv, Inside, AtClient
<1>3. FilesInv' /\ ListInv'
  BY <1>1 DEF IInv, FilesInv, ListInv, ControlInv, Inside
<1> QED BY <1>2, <1>3 DEF IInv

\* The number accept() hands out is free, so it is not in the list yet.
LEMMA AcceptInv ==
  ASSUME IInv, Accept("wait"), readFds' = {}, UNCHANGED iter PROVE IInv'
<1> USE PortAssumption DEF IInv, Accept
<1> DEFINE c == Head(backlog[Port])
<1>1. PICK f \in Fds : /\ LowestFree(f)
                        /\ file' = [file EXCEPT ![f] = End("srv", c)]
                        /\ mClientFds' = Append(mClientFds, f)
  BY DEF PushBack
<1>2. /\ c \in Conns /\ Tail(backlog[Port]) \in Seq(Conns)
      /\ mClientFds \in Seq(Fds) /\ Append(mClientFds, f) \in Seq(Fds)
  BY HeadTailProperties, AppendProperties DEF TypeOK, BaseTypeOK, NetTypeOK
<1> HIDE DEF c
<1>3. f \notin ToSet(mClientFds) /\ file[f] = Free
  BY <1>1 DEF ListInv, LowestFree, Free
<1>4. TypeOK'
  <2>1. file' \in [Fds -> Files]
    BY <1>1, <1>2 DEF TypeOK, BaseTypeOK, NetTypeOK, End, Files
  <2>2. end' \in [Conns -> [Ends -> {"none", "queued", "open", "closed"}]]
    BY <1>2 DEF TypeOK, BaseTypeOK, NetTypeOK, c
  <2>3. backlog' \in [Ports -> Seq(Conns)]
    BY <1>2 DEF TypeOK, BaseTypeOK, NetTypeOK
  <2> QED BY <1>1, <1>2, <2>1, <2>2, <2>3 DEF TypeOK, BaseTypeOK, NetTypeOK
<1>5. ControlInv'
  <2>1. serverFd \in Fds /\ file[serverFd] = Listener(Port) /\ file'[serverFd] = Listener(Port)
    BY <1>1, <1>3 DEF ControlInv, Inside, Listener, Free, TypeOK, BaseTypeOK, NetTypeOK
  <2> QED BY <2>1 DEF ControlInv, Inside, AtClient
<1>6. FilesInv'
  <2>1. /\ \A g \in Fds : file'[g] = IF g = f THEN End("srv", c) ELSE file[g]
        /\ End("srv", c).kind = "srv" /\ End("srv", c).id = c
        /\ pc = "accept" /\ pc' = "wait" /\ serverFd' = serverFd
    BY <1>1 DEF TypeOK, BaseTypeOK, NetTypeOK, End
  <2>2. \A g \in Fds : file'[g].kind \in {"raw", "listen", "cli"} => file'[g] = file[g]
    BY <2>1
  <2> QED BY <1>2, <2>1, <2>2 DEF FilesInv, Inside
<1>7. ListInv'
  <2>1. ToSet(mClientFds') = ToSet(mClientFds) \cup {f} /\ Distinct(mClientFds')
    BY <1>1, <1>2, <1>3, AppendElements DEF ListInv
  <2> QED BY <1>1, <2>1 DEF ListInv, TypeOK, BaseTypeOK, NetTypeOK, End
<1> QED BY <1>4, <1>5, <1>6, <1>7

\* The erased entry is the descriptor that is closed, and no other entry names it.
LEMMA DropClientInv == ASSUME IInv, DropClient PROVE IInv'
<1> USE DEF IInv, DropClient, Drop
<1>1. /\ iter \in 1 .. Len(mClientFds) /\ clientFD = mClientFds[iter]
      /\ mClientFds \in Seq(Fds)
  BY DEF ControlInv, AtClient, TypeOK, BaseTypeOK
<1>2. clientFD \in Fds /\ clientFD \in ToSet(mClientFds) /\ file[clientFD].kind = "srv"
  <2>1. clientFD \in Fds /\ DOMAIN mClientFds = 1 .. Len(mClientFds)
    BY <1>1, ElementOfSeq, LenProperties
  <2> QED BY <1>1, <2>1 DEF ListInv, ToSet
<1>3. NetTypeOK' /\ file' = [file EXCEPT ![clientFD] = Free]
  BY <1>2, CloseType DEF TypeOK, BaseTypeOK
<1>4. mClientFds' = RemoveAt(mClientFds, iter) /\ mClientFds' \in Seq(Fds)
  BY <1>1, RemoveAtProperties DEF Erase
<1>5. TypeOK'
  BY <1>3, <1>4 DEF TypeOK, BaseTypeOK
<1>6. ControlInv'
  <2>1. /\ serverFd \in Fds /\ file[serverFd] \in {Listener(Port), RawSocket}
        /\ serverFd # clientFD
    BY <1>2 DEF ControlInv, Inside, Listener, RawSocket
  <2> QED BY <1>3, <2>1 DEF ControlInv, Inside, AtClient, TypeOK, BaseTypeOK, NetTypeOK
<1>7. FilesInv'
  <2>1. /\ \A g \in Fds : file'[g] = IF g = clientFD THEN Free ELSE file[g]
        /\ Free.kind = "free" /\ pc = "drop" /\ pc' = "scan" /\ serverFd' = serverFd
    BY <1>3 DEF TypeOK, BaseTypeOK, NetTypeOK, Free
  <2>2. \A g \in Fds : file'[g].kind # "free" => file'[g] = file[g]
    BY <2>1
  <2> QED BY <2>1, <2>2 DEF FilesInv, Inside
<1>8. ListInv'
  <2>1. ToSet(mClientFds') = ToSet(mClientFds) \ {clientFD} /\ Distinct(mClientFds')
    BY <1>1, <1>4, RemoveAtElements DEF ListInv
  <2> QED BY <1>2, <1>3, <2>1 DEF ListInv, TypeOK, BaseTypeOK, NetTypeOK, Free
<1> QED BY <1>5, <1>6, <1>7, <1>8

\* The client in hand is one of the server's own connections.
LEMMA ClientInHand ==
  ASSUME IInv, AtClient
  PROVE  clientFD \in Fds /\ file[clientFD].kind = "srv" /\ file[clientFD].id \in Conns
<1>1. /\ iter \in 1 .. Len(mClientFds) /\ clientFD = mClientFds[iter]
      /\ mClientFds \in Seq(Fds)
  BY DEF IInv, ControlInv, AtClient, TypeOK, BaseTypeOK
<1>2. clientFD \in Fds /\ DOMAIN mClientFds = 1 .. Len(mClientFds)
  BY <1>1, ElementOfSeq, LenProperties
<1> QED BY <1>1, <1>2 DEF IInv, ListInv, FilesInv, ToSet

LEMMA ReadHeaderInv ==
  ASSUME IInv, ReadHeader, UNCHANGED <<readFds, iter>> PROVE IInv'
<1> USE SocketsAssumption DEF ReadHeader
<1>1. clientFD \in Fds /\ file[clientFD].kind = "srv" /\ file[clientFD].id \in Conns
  BY ClientInHand DEF AtClient
<1>2. NetTypeOK' /\ file' = file
  BY <1>1, WriteBackType DEF EchoHeader, Arrived, Ends, IInv, TypeOK, BaseTypeOK
<1>3. len' \in Nat
  <2>1. Announced(clientFD) \subseteq Sizes
    BY <1>1 DEF Announced, IInv, TypeOK, BaseTypeOK, NetTypeOK
  <2> QED BY <2>1
<1>4. TypeOK' /\ ControlInv'
  BY <1>2, <1>3 DEF IInv, TypeOK, BaseTypeOK, ControlInv, Inside, AtClient
<1> QED BY <1>2, <1>4, QuietStep DEF Inside

LEMMA ReadBodyInv ==
  ASSUME IInv, ReadBody, UNCHANGED <<readFds, iter>> PROVE IInv'
<1> USE DEF ReadBody
<1>1. clientFD \in Fds /\ file[clientFD].kind = "srv" /\ file[clientFD].id \in Conns
  BY ClientInHand DEF AtClient
<1>2. NetTypeOK' /\ file' = file
  BY <1>1, WriteBackType DEF Arrived, Ends, IInv, TypeOK, BaseTypeOK
<1>3. TypeOK' /\ ControlInv'
  BY <1>2 DEF IInv, TypeOK, BaseTypeOK, ControlInv, Inside, AtClient
<1> QED BY <1>2, <1>3, QuietStep DEF Inside

\* The steps that only move the thread on.
LEMMA OtherServerInv ==
  ASSUME IInv,
         \/ /\ Bind \/ ListenFails("wait") \/ ReadFails \/ Interrupted
            /\ UNCHANGED <<readFds, iter>>
         \/ Select \/ SelectFails \/ NextClient \/ ScanOver
         \/ AcceptFails("wait") /\ readFds' = {} /\ UNCHANGED iter
  PROVE  IInv'
<1>1. CASE Bind /\ UNCHANGED <<readFds, iter>>
  BY <1>1, QuietStep DEF Bind, IInv, TypeOK, BaseTypeOK, NetTypeOK, netVars,
                         ControlInv, Inside, AtClient
<1>2. CASE ListenFails("wait") /\ UNCHANGED <<readFds, iter>>
  BY <1>2, QuietStep DEF ListenFails, IInv, TypeOK, BaseTypeOK, NetTypeOK, netVars,
                         ControlInv, Inside, AtClient
<1>3. CASE ReadFails /\ UNCHANGED <<readFds, iter>>
  BY <1>3, QuietStep DEF ReadFails, IInv, TypeOK, BaseTypeOK, NetTypeOK, netVars,
                         ControlInv, Inside, AtClient
<1>4. CASE Interrupted /\ UNCHANGED <<readFds, iter>>
  <2>1. file[clientFD].id \in Conns
    BY <1>4, ClientInHand DEF Interrupted, AtClient
  <2> QED BY <1>4, <2>1, QuietStep DEF Interrupted, IInv, TypeOK, BaseTypeOK, NetTypeOK,
                         netVars, ControlInv, Inside, AtClient
<1>5. CASE Select
  <2>1. Watched \subseteq Fds
    BY <1>5, ElementOfSeq, LenProperties
       DEF Select, Watched, ToSet, IInv, ControlInv, Inside, TypeOK, BaseTypeOK
  <2> QED BY <1>5, <2>1, QuietStep DEF Select, IInv, TypeOK, BaseTypeOK, NetTypeOK, netVars,
                         ControlInv, Inside, AtClient
<1>6. CASE SelectFails
  BY <1>6, QuietStep DEF SelectFails, IInv, TypeOK, BaseTypeOK, NetTypeOK, netVars,
                         ControlInv, Inside, AtClient
<1>7. CASE NextClient
  <2>1. PICK i \in iter .. Len(mClientFds) : iter' = i /\ clientFD' = mClientFds[i]
    BY <1>7 DEF NextClient
  <2>2. iter \in Nat \ {0} /\ mClientFds \in Seq(Fds) /\ Len(mClientFds) \in Nat
    BY LenProperties DEF IInv, TypeOK, BaseTypeOK
  <2>3. i \in 1 .. Len(mClientFds) /\ mClientFds[i] \in Fds
    BY <2>2, ElementOfSeq
  <2> QED BY <1>7, <2>1, <2>3, QuietStep DEF NextClient, IInv, TypeOK, BaseTypeOK, NetTypeOK,
                         netVars, ControlInv, Inside, AtClient
<1>8. CASE ScanOver
  BY <1>8, QuietStep DEF ScanOver, IInv, TypeOK, BaseTypeOK, NetTypeOK, netVars,
                         ControlInv, Inside, AtClient
<1>9. CASE AcceptFails("wait") /\ readFds' = {} /\ UNCHANGED iter
  BY <1>9, QuietStep DEF AcceptFails, NoPushBack, IInv, TypeOK, BaseTypeOK, NetTypeOK,
                         netVars, ControlInv, Inside, AtClient
<1> QED BY <1>1, <1>2, <1>3, <1>4, <1>5, <1>6, <1>7, <1>8, <1>9

LEMMA OthersInv == ASSUME IInv, Others PROVE IInv'
<1> USE DEF IInv
<1>1. UNCHANGED locals
  BY DEF Others
<1>2. ASSUME NEW f \in Fds, NEW x \in {Plain, Free},
             file[f].kind \in {"free", "plain"}, file' = [file EXCEPT ![f] = x],
             UNCHANGED linkVars
      PROVE  IInv'
  <2>1. TypeOK'
    BY <1>1, <1>2 DEF locals, baseVars, linkVars, TypeOK, BaseTypeOK, NetTypeOK, Plain, Free, Files
  <2>2. ControlInv'
    BY <1>1, <1>2 DEF locals, baseVars, ControlInv, Inside, AtClient, RawSocket, Listener,
                      TypeOK, BaseTypeOK, NetTypeOK
  <2>3. FilesInv'
    BY <1>1, <1>2 DEF locals, baseVars, FilesInv, Plain, Free, Inside, TypeOK, BaseTypeOK, NetTypeOK
  <2>4. ListInv'
    BY <1>1, <1>2 DEF locals, baseVars, ListInv, Plain, Free, TypeOK, BaseTypeOK, NetTypeOK
  <2> QED BY <2>1, <2>2, <2>3, <2>4
<1>3. CASE ForeignOpen
  <2>1. PICK f \in Fds : LowestFree(f) /\ file' = [file EXCEPT ![f] = Plain]
    BY <1>3 DEF ForeignOpen
  <2>2. file[f].kind = "free"
    BY <2>1 DEF LowestFree, Free
  <2> QED BY <1>2, <1>3, <2>1, <2>2 DEF ForeignOpen
<1>4. CASE ForeignClose
  <2>1. PICK f \in Fds : file[f] = Plain /\ file' = [file EXCEPT ![f] = Free]
    BY <1>4 DEF ForeignClose
  <2>2. file[f].kind = "plain"
    BY <2>1 DEF Plain
  <2> QED BY <1>2, <1>4, <2>1, <2>2 DEF ForeignClose
<1>5. ASSUME NEW c \in Conns, Client(c, Port) PROVE IInv'
  <2>1. NetTypeOK' /\ file' = file
    BY <1>5, ClientType, PortAssumption DEF TypeOK, BaseTypeOK
  <2>2. TypeOK' /\ ControlInv'
    BY <1>1, <2>1 DEF locals, baseVars, TypeOK, BaseTypeOK, ControlInv, Inside, AtClient
  <2> QED BY <1>1, <2>1, <2>2, QuietStep DEF locals, baseVars, Inside
<1> QED BY <1>3, <1>4, <1>5 DEF Others

THEOREM Invariance == Spec => []IInv
<1>1. IInv /\ [Next]_vars => IInv'
  <2> SUFFICES ASSUME IInv, [Next]_vars PROVE IInv'
    OBVIOUS
  <2>1. CASE Inherited
    BY <2>1, CreateSocketInv, GivesUpInv, ListenInv, CloseListenerInv, ReadHeaderInv,
       ReadBodyInv, OtherServerInv
       DEF Inherited
  <2>2. CASE Select \/ NextClient \/ ScanOver
    BY <2>2, OtherServerInv
  <2>3. CASE SelectAccept
    BY <2>3, AcceptInv, OtherServerInv DEF SelectAccept
  <2>4. CASE DropClient
    BY <2>4, DropClientInv
  <2>5. CASE Signal
    BY <2>5, OtherServerInv DEF Signal
  <2>6. CASE Others
    BY <2>6, OthersInv
  <2>7. CASE UNCHANGED vars
    <3>1. TypeOK' /\ ControlInv'
      BY <2>7 DEF IInv, vars, netVars, locals, baseVars, TypeOK, BaseTypeOK, NetTypeOK,
                  ControlInv, Inside, AtClient
    <3> QED BY <2>7, <3>1, QuietStep DEF vars, netVars, locals, baseVars, Inside
  <2> QED BY <2>1, <2>2, <2>3, <2>4, <2>5, <2>6, <2>7 DEF Next, Server
<1> QED BY InitInv, <1>1, PTL DEF Spec

\* Type correctness of the select server.
THEOREM TypeCorrect == Spec => []TypeOK
<1>1. IInv => TypeOK
  BY DEF IInv
<1> QED BY Invariance, <1>1, PTL

\* The list names the open accepted connections, each once, and nothing else, for
\* every number of clients and whatever other threads do with free numbers.
THEOREM ListIsExact == Spec => []OwnsItsClients
<1>1. IInv => OwnsItsClients
  BY DEF IInv, ListInv, Distinct, OwnsItsClients
<1> QED BY Invariance, <1>1, PTL

\* A server that returns has closed the socket it listened on. It has lost the
\* number of one socket at most, and then it had no client; a server that got as
\* far as its loop loses none, whether it listened or not.
THEOREM LeavesOpenAlways == Spec => []LeavesOpen
<1>1. IInv => LeavesOpen
  BY DEF IInv, ListInv, FilesInv, LeavesOpen, Listening, Listener, Inside, ToSet
<1> QED BY Invariance, <1>1, PTL

-----------------------------------------------------------------------------
(* The conversations of the select server, step by step. *)

LEMMA SelectIsSound == IInv => Sound
<1> SUFFICES ASSUME IInv PROVE Sound
  OBVIOUS
<1>1. BaseTypeOK
  BY DEF IInv, TypeOK
<1>2. ASSUME NEW f \in Fds
      PROVE  /\ file[f].kind # "cli"
             /\ file[f].kind = "srv" => file[f].id \in Conns
             /\ file[f].kind = "listen" => file[f] = Listener(Port) /\ f = serverFd
  BY DEF IInv, FilesInv, ControlInv, RawSocket
<1>3. AtClient => clientFD \in Fds /\ file[clientFD].kind = "srv"
  BY ClientInHand
<1>4. /\ pc \in {"bind", "listen"} => serverFd \in Fds /\ file[serverFd] = RawSocket
      /\ pc \in {"accept", "close"} =>
           serverFd \in Fds /\ file[serverFd] \in {Listener(Port), RawSocket}
  BY DEF IInv, ControlInv, Inside
<1> QED BY <1>1, <1>2, <1>3, <1>4 DEF Sound

LEMMA SelectQuietSteps ==
  ASSUME IInv,
         \/ CreateSocket \/ SocketFails \/ Bind \/ BindFails \/ ListenFails("wait")
         \/ AcceptFails("wait") \/ (CloseListener /\ file[serverFd] = RawSocket)
         \/ (ForeignOpen \/ ForeignClose) /\ UNCHANGED locals
         \/ Select \/ SelectFails \/ ScanOver \/ UNCHANGED vars
  PROVE  Quiet
<1>1. NetTypeOK /\ (UNCHANGED locals => UNCHANGED baseVars)
  BY DEF IInv, TypeOK, BaseTypeOK, locals
<1>2. CASE Select \/ SelectFails \/ ScanOver \/ UNCHANGED vars
  BY <1>2 DEF Select, SelectFails, ScanOver, vars, netVars, locals, baseVars, Quiet, AtClient
<1>3. CASE CloseListener /\ file[serverFd] = RawSocket
  BY <1>3, SelectIsSound, CloseDeafStep
<1> QED BY <1>1, <1>2, <1>3, QuietSteps

LEMMA NextClientStep ==
  ASSUME IInv, Conversations, NextClient
  PROVE  Conversations' /\ Echo!Next
<1>1. PICK i \in iter .. Len(mClientFds) : clientFD' = mClientFds[i]
  BY DEF NextClient
<1>2. /\ pc = "scan" /\ pc' = "header" /\ UNCHANGED <<netVars, cut>> /\ ~ AtClient
      /\ iter \in Nat \ {0} /\ mClientFds \in Seq(Fds) /\ file \in [Fds -> Files]
  BY DEF NextClient, AtClient, IInv, TypeOK, BaseTypeOK, NetTypeOK
<1>3. Len(mClientFds) \in Nat /\ DOMAIN mClientFds = 1 .. Len(mClientFds)
  BY <1>2, LenProperties
<1>4. i \in 1 .. Len(mClientFds)
  BY <1>2, <1>3
<1>5. PICK f \in Fds : f = mClientFds[i]
  BY <1>2, <1>4, ElementOfSeq
<1>6. f \in ToSet(mClientFds)
  BY <1>3, <1>4, <1>5 DEF ToSet
<1>7. file[f].kind = "srv"
  BY <1>6 DEF IInv, ListInv
<1>8. PICK c \in Conns : c = file[f].id
  BY <1>7 DEF IInv, FilesInv
<1>9. file[f] = End("srv", c)
  BY <1>2, <1>7, <1>8 DEF Files, End
<1>10. Sound
  BY SelectIsSound
<1> QED BY <1>1, <1>2, <1>5, <1>9, <1>10, BeginStep

LEMMA SelectConverses ==
  ASSUME IInv, Conversations, [Next]_vars, IInv'
  PROVE  Conversations' /\ [Echo!Next]_(Echo!vars)
<1>1. Sound
  BY SelectIsSound
<1>2. Sound'
  <2>1. (IInv => Sound)'
    BY SelectIsSound, PTL
  <2> QED BY <2>1
<1>3. CASE \/ CreateSocket \/ SocketFails \/ Bind \/ BindFails \/ ListenFails("wait")
           \/ AcceptFails("wait") \/ (CloseListener /\ file[serverFd] = RawSocket)
           \/ Select \/ SelectFails \/ ScanOver
           \/ (ForeignOpen \/ ForeignClose) /\ UNCHANGED locals
           \/ UNCHANGED vars
  BY <1>1, <1>2, <1>3, SelectQuietSteps, QuietConversation
<1>4. CASE Listen("wait")
  BY <1>1, <1>2, <1>4, ListenStep
<1>5. CASE CloseListener /\ file[serverFd] # RawSocket
  <2>1. file[serverFd] = Listener(Port)
    BY <1>1, <1>5 DEF Sound, CloseListener
  <2> QED BY <1>1, <1>2, <1>5, <2>1, CloseListenerStep
<1>6. CASE ReadHeader \/ ReadBody \/ ReadFails \/ Interrupted
  BY <1>1, <1>6, ReadHeaderStep, ReadBodyStep, ReadFailsStep, InterruptedStep
<1>7. CASE Accept("wait")
  BY <1>1, <1>7, AcceptStep
<1>8. CASE NextClient
  BY <1>8, NextClientStep
<1>9. CASE DropClient
  BY <1>1, <1>9, DropStep DEF DropClient
<1>10. ASSUME NEW c \in Conns, Client(c, Port), UNCHANGED locals
       PROVE  Conversations' /\ [Echo!Next]_(Echo!vars)
  BY <1>1, <1>10, ClientStep DEF locals
<1>11. CASE Inherited
  BY <1>3, <1>4, <1>5, <1>6, <1>11 DEF Inherited
<1>12. CASE Server /\ ~ Inherited
  BY <1>3, <1>7, <1>8, <1>9, <1>12 DEF Server, SelectAccept
<1> QED BY <1>3, <1>6, <1>10, <1>11, <1>12 DEF Next, Signal, Others

THEOREM ConversationsHold == Spec => [](IInv /\ Conversations)
<1>1. Init => Conversations
  BY ConversationsAtFirst DEF Init
<1>2. IInv /\ Conversations /\ [Next]_vars /\ IInv' => Conversations'
  BY SelectConverses
<1> QED BY Invariance, <1>1, <1>2, PTL DEF Spec

\* What a client of the select server gets back is the beginning of what it sent,
\* however its units, its leaving, signals and other clients interleave.
THEOREM AnswersAreInOrder == Spec => []EchoesInOrder
<1>1. IInv /\ Conversations => EchoesInOrder
  BY SelectIsSound, ConversationsAreRight
<1> QED BY ConversationsHold, <1>1, PTL

\* The select server hangs up only with the whole message echoed, on a client that
\* has left, after a signal, or when it stops.
THEOREM NobodyIsHungUpOn == Spec => []NobodyIsCheated
<1>1. IInv /\ Conversations => NobodyIsCheated
  BY SelectIsSound, ConversationsAreRight
<1> QED BY ConversationsHold, <1>1, PTL

\* The select server implements the echo service: its first states are the service's,
\* and each of its steps is one of the service or changes nothing a client sees.
THEOREM SelectImplementsEcho == Spec => ImplementsEchoService
<1>1. Init => Echo!Init
  BY ConversationsAtFirst DEF Init
<1>2. IInv /\ Conversations /\ [Next]_vars /\ IInv' => [Echo!Next]_(Echo!vars)
  BY SelectConverses
<1> QED BY ConversationsHold, <1>1, <1>2, PTL DEF Spec, Echo!Spec, ImplementsEchoService
=============================================================================
