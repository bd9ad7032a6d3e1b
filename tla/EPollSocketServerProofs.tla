----------------------- MODULE EPollSocketServerProofs -----------------------
(***************************************************************************)
(* The epoll server's hold on its clients although its list of descriptors *)
(* only grows, and what its clients see, for every number of clients, every*)
(* descriptor limit and every framing.                                     *)
(***************************************************************************)
EXTENDS EPollSocketServer, AbstractSocketServerProofs

-----------------------------------------------------------------------------
(* The inductive invariant. *)

Inside == pc \in {"create", "wait", "handle", "accept", "register", "header", "body", "drop"}

\* Where the thread is tells what its variables stand for. The server may be
\* inside with a socket that does not listen.
ControlInv ==
  /\ pc \in {"idle", "bind", "listen", "returned"} \/ Inside
  /\ pc \in {"idle", "bind", "listen", "create", "returned"} =>
       mClientFds = << >> /\ \A f \in Fds : interest[f] = "none"
  /\ pc \in {"idle", "bind", "listen", "create", "wait", "returned"} => batch = {}
  /\ pc \in {"bind", "listen"} => serverFd \in Fds /\ file[serverFd] = RawSocket
  /\ Inside => /\ serverFd \in Fds /\ file[serverFd] \in {Listener(Port), RawSocket}
               /\ serverFd \notin ToSet(mClientFds)
  /\ AtClient => clientFD \in Fds \ batch /\ interest[clientFD] = "spent"

\* What the process has open: only the server makes sockets; the number of the one
\* that could not be bound is lost.
FilesInv ==
  \A f \in Fds :
    /\ file[f].kind = "listen" => f = serverFd /\ Inside
    /\ file[f].kind = "raw" => pc # "idle" /\ (f = serverFd \/ pc = "returned")
    /\ file[f].kind = "srv" => file[f].id \in Conns
    /\ file[f].kind # "cli"

\* Only connections are watched for one event, and only for the listener is an
\* event reported while it stays watched.
WatchInv ==
  \A f \in Fds :
    /\ interest[f] = "level" => f = serverFd
    /\ interest[f] \in {"armed", "spent"} => file[f].kind = "srv"
    /\ f \in batch => f = serverFd \/ interest[f] = "spent"

IInv == TypeOK /\ ControlInv /\ FilesInv /\ WatchInv /\ NoClientForgotten

LEMMA InitInv == Init => IInv
<1> SUFFICES ASSUME Init PROVE IInv
  OBVIOUS
<1> USE DEF Init
<1>1. BaseTypeOK
  BY BaseTypeAtFirst
<1>2. TypeOK
  BY <1>1 DEF TypeOK
<1>3. pc = "idle" /\ mClientFds = << >> /\ \A f \in Fds : file[f].kind = "free"
  BY DEF NetInit, BaseInit, Free
<1>4. ControlInv
  BY <1>3 DEF ControlInv, Inside, AtClient
<1>5. FilesInv /\ WatchInv /\ NoClientForgotten
  BY <1>3 DEF FilesInv, WatchInv, NoClientForgotten
<1> QED BY <1>2, <1>4, <1>5 DEF IInv

\* A step that opens, closes and watches nothing more, and keeps who is in hand.
LEMMA IdleStep ==
  ASSUME IInv, TypeOK', ControlInv', UNCHANGED <<file, serverFd, mClientFds, interest, batch>>,
         Inside => Inside', pc # "register",
         pc' = "idle" => pc = "idle", pc' = "returned" <=> pc = "returned",
         AtClient => AtClient' /\ clientFD' = clientFD
  PROVE  IInv'
<1>1. FilesInv' /\ WatchInv'
  BY DEF IInv, FilesInv, WatchInv, Inside
<1>2. NoClientForgotten'
  BY DEF IInv, NoClientForgotten
<1> QED BY <1>1, <1>2 DEF IInv

LEMMA CreateSocketInv ==
  ASSUME IInv, CreateSocket, UNCHANGED <<epollfd, interest, batch>> PROVE IInv'
<1> USE DEF IInv, CreateSocket
<1>1. PICK f \in Fds : LowestFree(f) /\ file' = [file EXCEPT ![f] = RawSocket] /\ serverFd' = f
  OBVIOUS
<1>2. TypeOK'
  BY <1>1 DEF TypeOK, BaseTypeOK, NetTypeOK, linkVars, RawSocket, Files
<1>3. /\ \A g \in Fds : interest[g] = "none" /\ file[g].kind # "srv"
      /\ \A g \in Fds : file'[g] = IF g = f THEN RawSocket ELSE file[g]
      /\ RawSocket.kind = "raw" /\ batch = {} /\ pc = "idle"
  BY <1>1 DEF ControlInv, TypeOK, BaseTypeOK, NetTypeOK, NoClientForgotten, RawSocket, AtClient
<1>4. ControlInv'
  BY <1>1, <1>3 DEF ControlInv, Inside, AtClient
<1>5. FilesInv'
  BY <1>1, <1>3 DEF FilesInv, Inside
<1>6. WatchInv' /\ NoClientForgotten'
  BY <1>3 DEF WatchInv, NoClientForgotten
<1> QED BY <1>2, <1>4, <1>5, <1>6

LEMMA ListenInv ==
  ASSUME IInv, Listen("create"), UNCHANGED <<epollfd, interest, batch>> PROVE IInv'
<1> USE PortAssumption DEF IInv, Listen
<1>1. serverFd \in Fds /\ file[serverFd] = RawSocket
  BY DEF ControlInv
<1>2. TypeOK'
  BY <1>1 DEF TypeOK, BaseTypeOK, NetTypeOK, linkVars, Listener, Files
<1>3. /\ \A g \in Fds : interest[g] = "none" /\ file[g].kind # "srv"
      /\ \A g \in Fds : file'[g] = IF g = serverFd THEN Listener(Port) ELSE file[g]
      /\ Listener(Port).kind = "listen" /\ batch = {} /\ mClientFds = << >> /\ pc = "listen"
  BY <1>1 DEF ControlInv, TypeOK, BaseTypeOK, NetTypeOK, NoClientForgotten, Listener, AtClient
<1>4. ControlInv'
  BY <1>1, <1>3 DEF ControlInv, Inside, AtClient, ToSet
<1>5. FilesInv'
  BY <1>1, <1>3 DEF FilesInv, Inside
<1>6. WatchInv' /\ NoClientForgotten'
  BY <1>3 DEF WatchInv, NoClientForgotten
<1> QED BY <1>2, <1>4, <1>5, <1>6

LEMMA EpollCreateInv == ASSUME IInv, EpollCreate PROVE IInv'
<1> USE DEF IInv, EpollCreate, ListenerEvents
<1>1. PICK f \in Fds : LowestFree(f) /\ file' = [file EXCEPT ![f] = EpollFile] /\ epollfd' = f
  OBVIOUS
<1>2. /\ serverFd \in Fds /\ file[serverFd] \in {Listener(Port), RawSocket} /\ file[f] = Free
      /\ serverFd # f /\ pc = "create" /\ ~ AtClient /\ mClientFds = << >> /\ batch = {}
      /\ \A g \in Fds : interest[g] = "none" /\ file[g].kind # "srv"
  BY <1>1 DEF ControlInv, Inside, LowestFree, Listener, RawSocket, Free, NoClientForgotten,
               AtClient
<1>3. TypeOK'
  <2>1. file' \in [Fds -> Files]
    BY <1>1 DEF TypeOK, BaseTypeOK, NetTypeOK, EpollFile, Files
  <2>2. interest' \in [Fds -> {"none", "level", "armed", "spent"}]
    BY DEF TypeOK
  <2> QED BY <1>1, <2>1, <2>2 DEF TypeOK, BaseTypeOK, NetTypeOK, linkVars
<1>4. /\ \A g \in Fds : file'[g] = IF g = f THEN EpollFile ELSE file[g]
      /\ \A g \in Fds : interest'[g] = IF g = serverFd THEN "level" ELSE "none"
      /\ EpollFile.kind = "epoll"
  BY <1>1, <1>2 DEF TypeOK, BaseTypeOK, NetTypeOK, EpollFile
<1>5. ControlInv'
  BY <1>2, <1>4 DEF ControlInv, Inside, AtClient, ToSet
<1>6. FilesInv'
  BY <1>1, <1>2, <1>4 DEF FilesInv, Inside
<1>7. WatchInv' /\ NoClientForgotten'
  BY <1>2, <1>4 DEF WatchInv, NoClientForgotten
<1> QED BY <1>3, <1>5, <1>6, <1>7

\* What epoll_wait reports it also disarms, the listener excepted.
LEMMA EpollWaitInv == ASSUME IInv, EpollWait PROVE IInv'
<1> USE DEF IInv, EpollWait
<1>0. \A g \in Fds : interest[g] = "armed" => (Reported(g) <=> Readable(g))
  BY DEF WatchInv, Reported
<1>1. /\ \A g \in Fds : g \in batch' => interest[g] \in {"level", "armed"}
      /\ \A g \in Fds : interest'[g] = IF g \in batch' /\ interest[g] = "armed"
                                         THEN "spent" ELSE interest[g]
      /\ interest' \in [Fds -> {"none", "level", "armed", "spent"}]
      /\ batch' \subseteq Fds
  BY <1>0 DEF Watching, Disarmed, TypeOK
<1>2. TypeOK'
  BY <1>1 DEF TypeOK, BaseTypeOK, NetTypeOK, netVars
<1>3. ControlInv'
  BY DEF ControlInv, Inside, AtClient, netVars
<1>4. FilesInv'
  BY DEF FilesInv, Inside, netVars
<1>5. WatchInv'
  BY <1>1 DEF WatchInv, netVars
<1>6. NoClientForgotten'
  BY <1>1 DEF NoClientForgotten, AtClient, ControlInv, netVars
<1> QED BY <1>2, <1>3, <1>4, <1>5, <1>6

\* The thread takes an event of the batch, or finds none left.
LEMMA HandleInv ==
  ASSUME IInv, HandleListener \/ HandleClient \/ BatchOver PROVE IInv'
<1> USE DEF IInv
<1>1. /\ pc = "handle" /\ ~ AtClient /\ Inside
      /\ UNCHANGED <<netVars, serverFd, mClientFds, len, cut, epollfd, interest>>
  BY DEF HandleListener, HandleClient, BatchOver, AtClient, Inside
<1>2. CASE HandleListener
  <2>1. batch' = batch \ {serverFd} /\ pc' = "accept" /\ clientFD' = clientFD
    BY <1>2 DEF HandleListener
  <2>2. TypeOK'
    BY <1>1, <2>1 DEF TypeOK, BaseTypeOK, NetTypeOK, netVars
  <2>3. ControlInv' /\ FilesInv' /\ WatchInv'
    BY <1>1, <2>1 DEF ControlInv, FilesInv, WatchInv, Inside, AtClient, netVars
  <2>4. NoClientForgotten'
    BY <1>1, <2>1 DEF ControlInv, NoClientForgotten, Listener, RawSocket, netVars
  <2> QED BY <2>2, <2>3, <2>4
<1>3. CASE HandleClient
  <2>1. PICK f \in batch \ {serverFd} : batch' = batch \ {f} /\ clientFD' = f
    BY <1>3 DEF HandleClient, ClientEvents
  <2>2. pc' = "header" /\ f \in Fds /\ interest[f] = "spent" /\ AtClient'
    BY <1>3, <2>1 DEF HandleClient, TypeOK, WatchInv, AtClient
  <2>3. TypeOK'
    BY <1>1, <2>1, <2>2 DEF TypeOK, BaseTypeOK, NetTypeOK, netVars
  <2>4. ControlInv' /\ FilesInv' /\ WatchInv'
    BY <1>1, <2>1, <2>2 DEF ControlInv, FilesInv, WatchInv, Inside, AtClient, netVars
  <2>5. NoClientForgotten'
    BY <1>1, <2>1, <2>2 DEF NoClientForgotten, netVars
  <2> QED BY <2>3, <2>4, <2>5
<1>4. CASE BatchOver
  <2>1. TypeOK' /\ ControlInv'
    BY <1>1, <1>4 DEF BatchOver, TypeOK, BaseTypeOK, NetTypeOK, netVars, ControlInv, Inside, AtClient
  <2> QED BY <1>1, <1>4, <2>1, IdleStep DEF BatchOver, Inside, netVars
<1> QED BY <1>2, <1>3, <1>4

\* Registering the whole list again arms the connection accepted last, which no
\* registration knows yet, and nothing else: every other connection is registered.
LEMMA RegisterInv == ASSUME IInv, Register PROVE IInv'
<1> USE DEF IInv, Register, ToRegister
<1>1. /\ interest' \in [Fds -> {"none", "level", "armed", "spent"}]
      /\ \A f \in Fds : interest'[f] =
           IF f \in ToSet(mClientFds) /\ interest[f] = "none" /\ Pollable(f)
             THEN "armed" ELSE interest[f]
      /\ UNCHANGED <<file, serverFd, mClientFds, batch, clientFD, epollfd>>
      /\ pc = "register" /\ pc' = "handle" /\ Inside /\ ~ AtClient /\ ~ AtClient'
  BY DEF TypeOK, netVars, Inside, AtClient
<1>2. \A f \in Fds : f \in ToSet(mClientFds) /\ Pollable(f) => file[f].kind = "srv"
  BY <1>1 DEF ControlInv, FilesInv, Pollable
<1>3. TypeOK'
  BY <1>1 DEF TypeOK, BaseTypeOK, NetTypeOK, netVars
<1>4. ControlInv'
  BY <1>1 DEF ControlInv, Inside
<1>5. FilesInv'
  BY <1>1 DEF FilesInv, Inside
<1>6. WatchInv'
  BY <1>1, <1>2 DEF WatchInv
<1>7. NoClientForgotten'
  BY <1>1 DEF NoClientForgotten, Pollable
<1> QED BY <1>3, <1>4, <1>5, <1>6, <1>7

\* The number accept() hands out was free: nobody watches it, and if the list names
\* it already, it is a connection of the past.
LEMMA AcceptInv ==
  ASSUME IInv, Accept("register"), UNCHANGED <<epollfd, interest, batch>> PROVE IInv'
<1> USE PortAssumption DEF IInv, Accept
<1> DEFINE c == Head(backlog[Port])
<1>1. PICK f \in Fds : /\ LowestFree(f)
                        /\ file' = [file EXCEPT ![f] = End("srv", c)]
                        /\ mClientFds' = Append(mClientFds, f)
  BY DEF PushBack
<1>2. /\ c \in Conns /\ Tail(backlog[Port]) \in Seq(Conns)
      /\ mClientFds \in Seq(Fds) /\ Append(mClientFds, f) \in Seq(Fds)
  BY HeadTailProperties, AppendProperties DEF TypeOK, BaseTypeOK, NetTypeOK
<1> HIDE DEF c
<1>3. /\ file[f].kind = "free" /\ interest[f] \in {"none", "level"} /\ f \notin batch
      /\ serverFd \in Fds /\ file[serverFd] = Listener(Port) /\ f # serverFd
      /\ pc = "accept" /\ ~ AtClient /\ ~ AtClient'
  BY <1>1 DEF LowestFree, Free, Listener, ControlInv, WatchInv, Inside, AtClient, TypeOK
<1>4. interest[f] = "none"
  BY <1>3 DEF WatchInv
<1>5. TypeOK'
  <2>1. file' \in [Fds -> Files]
    BY <1>1, <1>2 DEF TypeOK, BaseTypeOK, NetTypeOK, End, Files
  <2>2. end' \in [Conns -> [Ends -> {"none", "queued", "open", "closed"}]]
    BY <1>2 DEF TypeOK, BaseTypeOK, NetTypeOK, c
  <2>3. backlog' \in [Ports -> Seq(Conns)]
    BY <1>2 DEF TypeOK, BaseTypeOK, NetTypeOK
  <2> QED BY <1>1, <1>2, <2>1, <2>2, <2>3 DEF TypeOK, BaseTypeOK, NetTypeOK
<1>6. ToSet(mClientFds') = ToSet(mClientFds) \cup {f}
  BY <1>1, <1>2, AppendElements
<1>7. /\ \A g \in Fds : file'[g] = IF g = f THEN End("srv", c) ELSE file[g]
      /\ End("srv", c).kind = "srv" /\ End("srv", c).id = c
  BY <1>1 DEF TypeOK, BaseTypeOK, NetTypeOK, End
<1>8. ControlInv'
  BY <1>3, <1>6, <1>7 DEF ControlInv, Inside
<1>9. FilesInv'
  BY <1>2, <1>3, <1>7 DEF FilesInv, Inside
<1>10. WatchInv'
  BY <1>4, <1>7 DEF WatchInv
<1>11. NoClientForgotten'
  BY <1>3, <1>4, <1>6, <1>7 DEF NoClientForgotten
<1> QED BY <1>5, <1>8, <1>9, <1>10, <1>11

\* The client in hand is one of the server's own connections.
LEMMA ClientInHand ==
  ASSUME IInv, AtClient
  PROVE  clientFD \in Fds /\ file[clientFD].kind = "srv" /\ file[clientFD].id \in Conns
BY DEF IInv, ControlInv, WatchInv, FilesInv

\* Closing the client takes it out of the epoll instance: no event and no
\* registration outlives the connection whose number may be given out again.
LEMMA DropClientInv == ASSUME IInv, DropClient PROVE IInv'
<1> USE DEF IInv, DropClient, Drop
<1>1. /\ clientFD \in Fds \ batch /\ file[clientFD].kind = "srv"
      /\ serverFd \in Fds /\ serverFd # clientFD
      /\ pc = "drop" /\ pc' = "handle" /\ Inside /\ AtClient /\ ~ AtClient'
  BY ClientInHand DEF ControlInv, Inside, AtClient, Listener, RawSocket
<1>2. NetTypeOK' /\ file' = [file EXCEPT ![clientFD] = Free]
  BY <1>1, CloseType DEF TypeOK, BaseTypeOK
<1>3. TypeOK'
  BY <1>2 DEF TypeOK, BaseTypeOK
<1>4. /\ \A f \in Fds : file'[f] = IF f = clientFD THEN Free ELSE file[f]
      /\ \A f \in Fds : interest'[f] = IF f = clientFD THEN "none" ELSE interest[f]
      /\ Free.kind = "free"
  BY <1>1, <1>2 DEF TypeOK, BaseTypeOK, NetTypeOK, Free
<1>5. ControlInv'
  BY <1>1, <1>4 DEF ControlInv, Inside
<1>6. FilesInv'
  BY <1>1, <1>4 DEF FilesInv, Inside
<1>7. WatchInv'
  BY <1>1, <1>4 DEF WatchInv
<1>8. NoClientForgotten'
  BY <1>1, <1>4 DEF NoClientForgotten
<1> QED BY <1>3, <1>5, <1>6, <1>7, <1>8

LEMMA ReadInv ==
  ASSUME IInv, ReadHeader \/ ReadBody, UNCHANGED <<epollfd, interest, batch>> PROVE IInv'
<1>1. /\ AtClient /\ AtClient' /\ Inside /\ Inside' /\ pc # "register" /\ pc' \in {"body", "drop"}
      /\ UNCHANGED <<serverFd, mClientFds, clientFD, cut>>
  BY DEF ReadHeader, ReadBody, AtClient, Inside
<1>2. clientFD \in Fds /\ file[clientFD].kind = "srv" /\ file[clientFD].id \in Conns
  BY <1>1, ClientInHand
<1>3. NetTypeOK' /\ file' = file
  BY <1>2, WriteBackType, SocketsAssumption
     DEF ReadHeader, ReadBody, EchoHeader, Arrived, Ends, IInv, TypeOK, BaseTypeOK
<1>4. len' \in Nat
  <2>1. Announced(clientFD) \subseteq Sizes
    BY <1>2 DEF Announced, IInv, TypeOK, BaseTypeOK, NetTypeOK
  <2> QED BY <2>1, SocketsAssumption DEF ReadHeader, ReadBody, IInv, TypeOK, BaseTypeOK
<1>5. TypeOK'
  BY <1>1, <1>3, <1>4 DEF IInv, TypeOK, BaseTypeOK
<1>6. ControlInv'
  BY <1>1, <1>3 DEF IInv, ControlInv, Inside
<1> QED BY <1>1, <1>3, <1>5, <1>6, IdleStep DEF Inside

\* The number of the socket that could not be bound is lost.
LEMMA GivesUpInv ==
  ASSUME IInv, SocketFails \/ BindFails, UNCHANGED <<epollfd, interest, batch>> PROVE IInv'
<1>1. /\ pc \in {"idle", "bind"} /\ pc' = "returned" /\ serverFd' \in {serverFd, NoFd}
      /\ ~ AtClient /\ ~ AtClient' /\ ~ Inside /\ ~ Inside'
      /\ UNCHANGED <<netVars, mClientFds, clientFD, len, cut, epollfd, interest, batch>>
  BY DEF SocketFails, BindFails, AtClient, Inside
<1>2. TypeOK' /\ ControlInv'
  BY <1>1 DEF IInv, TypeOK, BaseTypeOK, NetTypeOK, netVars, ControlInv
<1>3. FilesInv' /\ WatchInv' /\ NoClientForgotten'
  BY <1>1 DEF IInv, ControlInv, FilesInv, WatchInv, NoClientForgotten, netVars
<1> QED BY <1>2, <1>3 DEF IInv

\* The steps that only move the thread on.
LEMMA OtherServerInv ==
  ASSUME IInv,
         \/ /\ \/ Bind \/ ListenFails("create") \/ ReadFails \/ Interrupted
               \/ AcceptFails("register")
            /\ UNCHANGED <<epollfd, interest, batch>>
         \/ EpollCreateFails
  PROVE  IInv'
<1>1. /\ UNCHANGED <<netVars, serverFd, mClientFds, clientFD, len, interest, batch>>
      /\ pc # "register"
      /\ \/ pc = "bind" /\ pc' = "listen" /\ ~ AtClient /\ ~ AtClient'
         \/ pc = "listen" /\ pc' = "create" /\ ~ AtClient /\ ~ AtClient'
         \/ pc \in {"header", "body"} /\ pc' = "drop" /\ AtClient /\ AtClient'
         \/ pc = "accept" /\ pc' = "register" /\ ~ AtClient /\ ~ AtClient'
         \/ pc = "create" /\ pc' = "wait" /\ ~ AtClient /\ ~ AtClient'
  BY DEF Bind, ListenFails, ReadFails, Interrupted, AcceptFails, NoPushBack,
         EpollCreateFails, AtClient
<1>2. cut' \subseteq Conns /\ epollfd' \in Fds \cup {NoFd, Failed}
  <2>1. CASE Interrupted
    BY <2>1, ClientInHand
       DEF Interrupted, AtClient, IInv, TypeOK, BaseTypeOK, EpollCreateFails
  <2>2. CASE ~ Interrupted
    BY <2>2 DEF Bind, ListenFails, ReadFails, AcceptFails, EpollCreateFails, IInv,
                TypeOK, BaseTypeOK
  <2> QED BY <2>1, <2>2
<1>3. TypeOK'
  BY <1>1, <1>2 DEF IInv, TypeOK, BaseTypeOK, NetTypeOK, netVars
<1>4. ControlInv'
  <2>1. CASE pc \in {"bind", "listen"}
    BY <1>1, <2>1 DEF IInv, ControlInv, Inside, netVars, AtClient, ToSet
  <2>2. CASE pc \notin {"bind", "listen"}
    BY <1>1, <2>2 DEF IInv, ControlInv, Inside, netVars
  <2> QED BY <2>1, <2>2
<1> QED BY <1>1, <1>3, <1>4, IdleStep DEF netVars, Inside

LEMMA OthersInv == ASSUME IInv, Others PROVE IInv'
<1> USE DEF IInv
<1>1. UNCHANGED <<baseVars, epollfd, interest, batch>>
  BY DEF Others, locals
<1>2. ASSUME NEW f \in Fds, NEW x \in {Plain, Free},
             file[f].kind \in {"free", "plain"}, file' = [file EXCEPT ![f] = x],
             UNCHANGED linkVars
      PROVE  IInv'
  <2>1. TypeOK'
    BY <1>1, <1>2 DEF baseVars, linkVars, TypeOK, BaseTypeOK, NetTypeOK, Plain, Free, Files
  <2>2. /\ \A g \in Fds : file'[g] = IF g = f THEN x ELSE file[g]
        /\ x.kind \in {"free", "plain"}
    BY <1>2 DEF TypeOK, BaseTypeOK, NetTypeOK, Plain, Free
  <2>3. ControlInv'
    BY <1>1, <1>2, <2>2 DEF baseVars, ControlInv, Inside, AtClient, RawSocket, Listener
  <2>4. FilesInv'
    BY <1>1, <2>2 DEF baseVars, FilesInv, Inside
  <2>5. WatchInv'
    BY <1>1, <1>2, <2>2 DEF baseVars, WatchInv
  <2>6. NoClientForgotten'
    BY <1>1, <2>2 DEF baseVars, NoClientForgotten, AtClient
  <2> QED BY <2>1, <2>3, <2>4, <2>5, <2>6
<1>3. CASE ForeignOpen
  <2>1. PICK f \in Fds : LowestFree(f) /\ file' = [file EXCEPT ![f] = Plain]
    BY <1>3 DEF ForeignOpen
  <2>2. file[f].kind = "free"
    BY <2>1 DEF LowestFree, Free
  <2> QED BY <1>2, <1>3, <2>1, <2>2 DEF ForeignOpen
<1>4. CASE ForeignClose
  <2>1. PICK f \in Fds : file[f] = Plain /\ file' = [file EXCEPT ![f] = Free]
    BY <1>4 DEF ForeignClose
  <2>2. file[f].kind = "plain"
    BY <2>1 DEF Plain
  <2> QED BY <1>2, <1>4, <2>1, <2>2 DEF ForeignClose
<1>5. ASSUME NEW c \in Conns, Client(c, Port) PROVE IInv'
  <2>1. NetTypeOK' /\ file' = file
    BY <1>5, ClientType, PortAssumption DEF TypeOK, BaseTypeOK
  <2>2. TypeOK'
    BY <1>1, <2>1 DEF baseVars, TypeOK, BaseTypeOK
  <2>3. ControlInv' /\ FilesInv' /\ WatchInv' /\ NoClientForgotten'
    BY <1>1, <2>1 DEF baseVars, ControlInv, FilesInv, WatchInv, NoClientForgotten, Inside, AtClient
  <2> QED BY <2>2, <2>3
<1> QED BY <1>3, <1>4, <1>5 DEF Others

THEOREM Invariance == Spec => []IInv
<1>1. IInv /\ [Next]_vars => IInv'
  <2> SUFFICES ASSUME IInv, [Next]_vars PROVE IInv'
    OBVIOUS
  <2>1. CASE Inherited
    BY <2>1, CreateSocketInv, GivesUpInv, ListenInv, AcceptInv, ReadInv, OtherServerInv
       DEF Inherited
  <2>2. CASE EpollCreate \/ EpollCreateFails \/ EpollWait
    BY <2>2, EpollCreateInv, OtherServerInv, EpollWaitInv
  <2>3. CASE HandleListener \/ HandleClient \/ BatchOver \/ Register \/ DropClient
    BY <2>3, HandleInv, RegisterInv, DropClientInv
  <2>4. CASE Signal
    BY <2>4, OtherServerInv DEF Signal
  <2>5. CASE Others
    BY <2>5, OthersInv
  <2>6. CASE UNCHANGED vars
    <3>1. TypeOK' /\ ControlInv'
      BY <2>6 DEF IInv, vars, netVars, locals, baseVars, TypeOK, BaseTypeOK, NetTypeOK,
                  ControlInv, Inside, AtClient
    <3>2. FilesInv' /\ WatchInv' /\ NoClientForgotten'
      BY <2>6 DEF IInv, vars, netVars, locals, baseVars, FilesInv, WatchInv, NoClientForgotten,
                  Inside, AtClient
    <3> QED BY <3>1, <3>2 DEF IInv
  <2> QED BY <2>1, <2>2, <2>3, <2>4, <2>5, <2>6 DEF Next, Server
<1> QED BY InitInv, <1>1, PTL DEF Spec

\* However long the list of numbers grows and whoever holds them by now, what the
\* epoll server watches, is about to handle or reads is a connection it accepted.
THEOREM WatchesOnlyItsClients == Spec => []WatchesItsClients
<1>1. TypeOK => batch \subseteq Fds
  BY DEF TypeOK
<1>2. IInv => WatchesItsClients
  BY <1>1, ClientInHand DEF IInv, WatchInv, WatchesItsClients
<1> QED BY Invariance, <1>2, PTL

\* EPOLLONESHOT disarms a connection with every event, and none is left disarmed
\* with nobody about to look at it.
THEOREM NobodyIsForgotten == Spec => []NoClientForgotten
<1>1. IInv => NoClientForgotten
  BY DEF IInv
<1> QED BY Invariance, <1>1, PTL

-----------------------------------------------------------------------------
(* The conversations of the epoll server, step by step. *)

LEMMA EpollIsSound == IInv => Sound
<1> SUFFICES ASSUME IInv PROVE Sound
  OBVIOUS
<1>1. BaseTypeOK
  BY DEF IInv, TypeOK
<1>2. ASSUME NEW f \in Fds
      PROVE  /\ file[f].kind # "cli"
             /\ file[f].kind = "srv" => file[f].id \in Conns
             /\ file[f].kind = "listen" => file[f] = Listener(Port) /\ f = serverFd
  BY DEF IInv, FilesInv, ControlInv, RawSocket
<1>3. AtClient => clientFD \in Fds /\ file[clientFD].kind = "srv"
  BY ClientInHand
<1>4. /\ pc \in {"bind", "listen"} => serverFd \in Fds /\ file[serverFd] = RawSocket
      /\ pc = "accept" => serverFd \in Fds /\ file[serverFd] \in {Listener(Port), RawSocket}
      /\ pc # "close"
  BY DEF IInv, ControlInv, Inside
<1> QED BY <1>1, <1>2, <1>3, <1>4 DEF Sound

LEMMA EpollQuietSteps ==
  ASSUME IInv,
         \/ CreateSocket \/ SocketFails \/ Bind \/ BindFails \/ ListenFails("create")
         \/ AcceptFails("register")
         \/ (ForeignOpen \/ ForeignClose) /\ UNCHANGED locals
         \/ EpollCreate \/ EpollCreateFails \/ EpollWait
         \/ HandleListener \/ BatchOver \/ Register \/ UNCHANGED vars
  PROVE  Quiet
<1>1. NetTypeOK /\ (UNCHANGED locals => UNCHANGED baseVars)
  BY DEF IInv, TypeOK, BaseTypeOK, locals
<1>2. CASE \/ EpollCreateFails \/ EpollWait \/ HandleListener \/ BatchOver \/ Register
           \/ UNCHANGED vars
  BY <1>2 DEF EpollCreateFails, EpollWait, HandleListener, BatchOver, Register, vars, netVars,
              locals, baseVars, Quiet, AtClient
<1>3. CASE EpollCreate
  <2>1. PICK f \in Fds : file[f] = Free /\ file' = [file EXCEPT ![f] = EpollFile]
    BY <1>3 DEF EpollCreate, LowestFree
  <2>2. UNCHANGED linkVars /\ cut' = cut /\ ~ AtClient /\ ~ AtClient' /\ pc # "returned"
    BY <1>3 DEF EpollCreate, linkVars, AtClient
  <2>3. Free.kind = "free" /\ EpollFile.kind = "epoll"
    BY DEF Free, EpollFile
  <2> QED BY <1>1, <2>1, <2>2, <2>3, QuietFile
<1> QED BY <1>1, <1>2, <1>3, QuietSteps

LEMMA HandleClientStep ==
  ASSUME IInv, Conversations, HandleClient
  PROVE  Conversations' /\ Echo!Next
<1>1. PICK f \in batch \ {serverFd} : clientFD' = f
  BY DEF HandleClient, ClientEvents
<1>2. /\ pc = "handle" /\ pc' = "header" /\ UNCHANGED <<netVars, cut>> /\ ~ AtClient
      /\ f \in Fds /\ file[f] \in Files
  BY DEF HandleClient, AtClient, IInv, TypeOK, BaseTypeOK, NetTypeOK
<1>3. file[f].kind = "srv"
  BY <1>1, <1>2 DEF IInv, WatchInv
<1>4. PICK c \in Conns : c = file[f].id
  BY <1>2, <1>3 DEF IInv, FilesInv
<1>5. file[f] = End("srv", c)
  BY <1>2, <1>3, <1>4 DEF Files, End
<1>6. Sound
  BY EpollIsSound
<1> QED BY <1>1, <1>2, <1>5, <1>6, BeginStep

LEMMA EpollConverses ==
  ASSUME IInv, Conversations, [Next]_vars, IInv'
  PROVE  Conversations' /\ [Echo!Next]_(Echo!vars)
<1>1. Sound
  BY EpollIsSound
<1>2. Sound'
  <2>1. (IInv => Sound)'
    BY EpollIsSound, PTL
  <2> QED BY <2>1
<1>3. CASE \/ CreateSocket \/ SocketFails \/ Bind \/ BindFails \/ ListenFails("create")
           \/ AcceptFails("register")
           \/ (ForeignOpen \/ ForeignClose) /\ UNCHANGED locals
           \/ EpollCreate \/ EpollCreateFails \/ EpollWait
           \/ HandleListener \/ BatchOver \/ Register \/ UNCHANGED vars
  BY <1>1, <1>2, <1>3, EpollQuietSteps, QuietConversation
<1>4. CASE Listen("create")
  BY <1>1, <1>2, <1>4, ListenStep
<1>5. CASE ReadHeader \/ ReadBody \/ ReadFails \/ Interrupted
  BY <1>1, <1>5, ReadHeaderStep, ReadBodyStep, ReadFailsStep, InterruptedStep
<1>6. CASE Accept("register")
  BY <1>1, <1>6, AcceptStep
<1>7. CASE HandleClient
  BY <1>7, HandleClientStep
<1>8. CASE DropClient
  BY <1>1, <1>8, DropStep DEF DropClient
<1>9. ASSUME NEW c \in Conns, Client(c, Port), UNCHANGED locals
      PROVE  Conversations' /\ [Echo!Next]_(Echo!vars)
  BY <1>1, <1>9, ClientStep DEF locals
<1> QED BY <1>3, <1>4, <1>5, <1>6, <1>7, <1>8, <1>9
        DEF Next, Server, Inherited, Signal, Others

THEOREM ConversationsHold == Spec => [](IInv /\ Conversations)
<1>1. Init => Conversations
  BY ConversationsAtFirst DEF Init
<1>2. IInv /\ Conversations /\ [Next]_vars /\ IInv' => Conversations'
  BY EpollConverses
<1> QED BY Invariance, <1>1, <1>2, PTL DEF Spec

\* What a client of the epoll server gets back is the beginning of what it sent.
THEOREM AnswersAreInOrder == Spec => []EchoesInOrder
<1>1. IInv /\ Conversations => EchoesInOrder
  BY EpollIsSound, ConversationsAreRight
<1> QED BY ConversationsHold, <1>1, PTL

\* The epoll server hangs up only with the whole message echoed, on a client that
\* has left, after a signal, or when it has stopped.
THEOREM NobodyIsHungUpOn == Spec => []NobodyIsCheated
<1>1. IInv /\ Conversations => NobodyIsCheated
  BY EpollIsSound, ConversationsAreRight
<1> QED BY ConversationsHold, <1>1, PTL

\* The epoll server implements the same echo service the select server does.
THEOREM EpollImplementsEcho == Spec => ImplementsEchoService
<1>1. Init => Echo!Init
  BY ConversationsAtFirst DEF Init
<1>2. IInv /\ Conversations /\ [Next]_vars /\ IInv' => [Echo!Next]_(Echo!vars)
  BY EpollConverses
<1> QED BY ConversationsHold, <1>1, <1>2, PTL DEF Spec, Echo!Spec, ImplementsEchoService
=============================================================================
