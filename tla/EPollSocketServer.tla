------------------------- MODULE EPollSocketServer -------------------------
(***************************************************************************)
(* The echo server built on epoll, on top of AbstractSocketServer.         *)
(* Clients are registered EPOLLONESHOT, so an event disarms its descriptor;*)
(* every accept registers the whole of mClientFds again, from which nothing*)
(* is ever erased: it also names descriptors closed since, and numbers     *)
(* given to somebody else.                                                 *)
(***************************************************************************)
EXTENDS AbstractSocketServer

VARIABLES
  epollfd,       (* NoFd before epoll_create, Failed if that returned -1   *)
  interest,      (* what the epoll instance watches each descriptor for    *)
  batch          (* descriptors whose event handleEvent has yet to handle  *)

locals == <<baseVars, epollfd, interest, batch>>
vars   == <<netVars, locals>>

Failed == -1

Init ==
  /\ NetInit
  /\ BaseInit
  /\ epollfd = NoFd
  /\ interest = [f \in Fds |-> "none"]
  /\ batch = {}

-----------------------------------------------------------------------------
(* processClientConnect. *)

\* epoll_create and the level-triggered registration of the listening socket.
OneShotListener == "armed"
ListenerEvents == "level"

EpollCreate ==
  /\ pc = "create"
  /\ \E f \in Fds :
       /\ LowestFree(f)
       /\ file' = [file EXCEPT ![f] = EpollFile]
       /\ epollfd' = f
  /\ interest' = [interest EXCEPT ![serverFd] = ListenerEvents]
  /\ pc' = "wait"
  /\ UNCHANGED <<linkVars, serverFd, mClientFds, clientFD, len, cut, batch>>

\* epoll_create = -1 is not looked at: epoll_ctl and every epoll_wait fail, and
\* the loop spins without ever handling an event.
EpollCreateFails ==
  /\ pc = "create"
  /\ TableFull
  /\ epollfd' = Failed
  /\ pc' = "wait"
  /\ UNCHANGED <<netVars, serverFd, mClientFds, clientFD, len, cut, interest, batch>>

Watching(f) == interest[f] \in {"level", "armed"}

\* An event disarms a descriptor registered EPOLLONESHOT.
Disarmed(f) == IF interest[f] = "armed" THEN "spent" ELSE interest[f]

\* epoll_wait returns the events of every watched descriptor there are any of;
\* interrupted by a signal it returns -1 and is called again. handleEvent passes
\* over an event without EPOLLIN.
EpollWait ==
  /\ pc = "wait"
  /\ epollfd \in Fds
  /\ \E f \in Fds : Watching(f) /\ Reported(f)
  /\ batch' = {f \in Fds : Watching(f) /\ Readable(f)}
  /\ interest' = [f \in Fds |-> IF Reported(f) THEN Disarmed(f) ELSE interest[f]]
  /\ pc' = "handle"
  /\ UNCHANGED <<netVars, serverFd, mClientFds, clientFD, len, cut, epollfd>>

-----------------------------------------------------------------------------
(* handleEvent: the events of one epoll_wait, in an order left open. *)

HandleListener ==
  /\ pc = "handle"
  /\ serverFd \in batch
  /\ batch' = batch \ {serverFd}
  /\ pc' = "accept"
  /\ UNCHANGED <<netVars, serverFd, mClientFds, clientFD, len, cut, epollfd, interest>>

\* fd == serverFd is tested first.
Untested == batch
ClientEvents == batch \ {serverFd}

HandleClient ==
  /\ pc = "handle"
  /\ \E f \in ClientEvents :
       /\ batch' = batch \ {f}
       /\ clientFD' = f
  /\ pc' = "header"
  /\ UNCHANGED <<netVars, serverFd, mClientFds, len, cut, epollfd, interest>>

BatchOver ==
  /\ pc = "handle"
  /\ batch = {}
  /\ pc' = "wait"
  /\ UNCHANGED <<netVars, serverFd, mClientFds, clientFD, len, cut, epollfd, interest, batch>>

\* What epoll_ctl(EPOLL_CTL_ADD) takes; a plain file is refused (EPERM).
Pollable(f) == file[f].kind \in {"srv", "cli", "listen", "raw"}

\* handleAccept's loop over mClientFds: a descriptor already registered, spent
\* or not, is refused (EEXIST).
AllButTheNewest == {mClientFds[i] : i \in 1 .. Len(mClientFds) - 1}
ToRegister == ToSet(mClientFds)

Register ==
  /\ pc = "register"
  /\ interest' = [f \in Fds |->
       IF f \in ToRegister /\ interest[f] = "none" /\ Pollable(f)
         THEN "armed" ELSE interest[f]]
  /\ pc' = "handle"
  /\ UNCHANGED <<netVars, serverFd, mClientFds, clientFD, len, cut, epollfd, batch>>

\* close and deleteEvent. The close has already taken the descriptor out of the
\* epoll instance, so that EPOLL_CTL_DEL finds nothing to delete.
DropClient ==
  /\ Drop("handle")
  /\ interest' = [interest EXCEPT ![clientFD] = "none"]
  /\ UNCHANGED <<mClientFds, epollfd, batch>>

-----------------------------------------------------------------------------
Inherited ==
  /\ \/ CreateSocket \/ SocketFails \/ Bind \/ BindFails
     \/ Listen("create") \/ ListenFails("create")
     \/ Accept("register") \/ AcceptFails("register")
     \/ ReadHeader \/ ReadBody \/ ReadFails
  /\ UNCHANGED <<epollfd, interest, batch>>

Server ==
  \/ Inherited
  \/ EpollCreate \/ EpollCreateFails \/ EpollWait
  \/ HandleListener \/ HandleClient \/ BatchOver \/ Register \/ DropClient

Signal == Interrupted /\ UNCHANGED <<epollfd, interest, batch>>

Others ==
  /\ ForeignOpen \/ ForeignClose \/ \E c \in Conns : Client(c, Port)
  /\ UNCHANGED locals

Next == Server \/ Signal \/ Others

Spec == Init /\ [][Next]_vars /\ WF_vars(Server)

\* Clients that keep the promise of MockSocketIntentService.sendMsg: a message
\* begun is finished, or the connection is closed.
FairSpec ==
  /\ Spec
  /\ \A c \in Conns : WF_vars((Send(c) \/ Leave(c)) /\ UNCHANGED locals)

-----------------------------------------------------------------------------
TypeOK ==
  /\ BaseTypeOK
  /\ epollfd \in Fds \cup {NoFd, Failed}
  /\ interest \in [Fds -> {"none", "level", "armed", "spent"}]
  /\ batch \subseteq Fds

\* Every accepted connection still open is on its way to being read: watched, in
\* the batch, being read, or accepted a moment ago and about to be registered.
\* EPOLLONESHOT never leaves one behind that nobody would look at again.
NoClientForgotten ==
  \A f \in Fds :
    file[f].kind = "srv" =>
      \/ interest[f] = "armed"
      \/ interest[f] = "spent" /\ (f \in batch \/ (AtClient /\ clientFD = f))
      \/ interest[f] = "none" /\ pc = "register" /\ f \in ToSet(mClientFds)

\* The stale numbers in mClientFds do no harm while the other descriptors of the
\* process are not sockets: what is watched, is in the batch or is being read is
\* a connection the server accepted, and the server's variables are well typed.
WatchesItsClients ==
  /\ TypeOK
  /\ \A f \in Fds : interest[f] \in {"armed", "spent"} => file[f].kind = "srv"
  /\ \A f \in batch \ {serverFd} : file[f].kind = "srv"
  /\ AtClient => file[clientFD].kind = "srv"

\* Every accepted client is eventually answered and let go, even with the table
\* full.
AcceptedIsServed ==
  \A c \in Conns : end[c]["srv"] = "open" ~> end[c]["srv"] = "closed"

\* So is every client that connects, until the table fills up; unless it was full
\* when the epoll instance was to be made: then they connect and nobody answers.
ConnectedIsServed ==
  \A c \in Conns :
    end[c]["srv"] = "queued" ~>
      end[c]["srv"] = "closed" \/ TableFull \/ epollfd = Failed
=============================================================================
