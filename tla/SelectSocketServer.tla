------------------------- MODULE SelectSocketServer -------------------------
(***************************************************************************)
(* The echo server built on select(): processClientConnect's loop and the  *)
(* walk of receiveClientMsg over the client list, on top of                *)
(* AbstractSocketServer.                                                   *)
(***************************************************************************)
EXTENDS AbstractSocketServer

VARIABLES
  readFds,       (* what select() left in the fd_set                       *)
  iter           (* receiveClientMsg's iterator, as an index               *)

locals == <<baseVars, readFds, iter>>
vars   == <<netVars, locals>>

Init ==
  /\ NetInit
  /\ BaseInit
  /\ readFds = {}
  /\ iter = 1

-----------------------------------------------------------------------------
(* processClientConnect. *)

\* The set handed to select(), rebuilt in every round (the model clears it where
\* a round ends, not where the next one begins).
WatchedListener == {serverFd}
Watched == {serverFd} \cup ToSet(mClientFds)

\* select() returns with every watched descriptor that is readable. New
\* connections come first: clients are read in rounds without one.
Select ==
  /\ pc = "wait"
  /\ \A f \in Watched : file[f] # Free
  /\ readFds' = {f \in Watched : Reported(f)}
  /\ readFds' # {}
  /\ pc' = IF serverFd \in readFds' THEN "accept" ELSE "scan"
  /\ UNCHANGED <<netVars, serverFd, mClientFds, clientFD, len, cut, iter>>

\* select() = -1, by a signal (EINTR) or a closed descriptor (EBADF): the loop
\* is left.
SelectFails ==
  /\ pc = "wait"
  /\ pc' = "close"
  /\ UNCHANGED <<netVars, serverFd, mClientFds, clientFD, len, cut, readFds, iter>>

SelectAccept ==
  /\ Accept("wait") \/ AcceptFails("wait")
  /\ readFds' = {}
  /\ UNCHANGED iter

-----------------------------------------------------------------------------
(* receiveClientMsg. *)

\* The iterator moves on to the next client found in the set.
NextClient ==
  /\ pc = "scan"
  /\ \E i \in iter .. Len(mClientFds) :
       /\ mClientFds[i] \in readFds
       /\ \A j \in iter .. i - 1 : mClientFds[j] \notin readFds
       /\ iter' = i
       /\ clientFD' = mClientFds[i]
  /\ pc' = "header"
  /\ UNCHANGED <<netVars, serverFd, mClientFds, len, cut, readFds>>

ScanOver ==
  /\ pc = "scan"
  /\ \A i \in iter .. Len(mClientFds) : mClientFds[i] \notin readFds
  /\ pc' = "wait"
  /\ readFds' = {}
  /\ iter' = 1
  /\ UNCHANGED <<netVars, serverFd, mClientFds, clientFD, len, cut>>

\* iter = mClientFds.erase(iter).
EraseForgotten == mClientFds
Erase == RemoveAt(mClientFds, iter)

\* FD_CLR, erase and close.
DropClient ==
  /\ Drop("scan")
  /\ readFds' = readFds \ {clientFD}
  /\ mClientFds' = Erase
  /\ UNCHANGED iter

-----------------------------------------------------------------------------
Inherited ==
  /\ \/ CreateSocket \/ SocketFails \/ Bind \/ BindFails
     \/ Listen("wait") \/ ListenFails("wait") \/ CloseListener
     \/ ReadHeader \/ ReadBody \/ ReadFails
  /\ UNCHANGED <<readFds, iter>>

Server == Inherited \/ Select \/ SelectAccept \/ NextClient \/ ScanOver \/ DropClient

Signal == SelectFails \/ (Interrupted /\ UNCHANGED <<readFds, iter>>)

Others ==
  /\ ForeignOpen \/ ForeignClose \/ \E c \in Conns : Client(c, Port)
  /\ UNCHANGED locals

Next == Server \/ Signal \/ Others

Spec == Init /\ [][Next]_vars /\ WF_vars(Server)

\* Clients that keep the promise of MockSocketIntentService.sendMsg: a message
\* begun is finished, or the connection is closed.
FairSpec ==
  /\ Spec
  /\ \A c \in Conns : WF_vars((Send(c) \/ Leave(c)) /\ UNCHANGED locals)

-----------------------------------------------------------------------------
TypeOK ==
  /\ BaseTypeOK
  /\ readFds \subseteq Fds
  /\ iter \in Nat \ {0}

\* The list holds each accepted connection that is still open exactly once, and
\* nothing else: no descriptor of another thread is watched, read or closed, and
\* none of the server's own is forgotten.
OwnsItsClients ==
  /\ \A f \in Fds : file[f].kind = "srv" <=> f \in ToSet(mClientFds)
  /\ \A i, j \in 1 .. Len(mClientFds) :
       mClientFds[i] = mClientFds[j] => i = j

\* A server that returns has leaked one thing at most, and never a port: the one
\* socket that createServer made and could not bind, its number lost, if it never
\* came to serve; otherwise the clients it had accepted, and no socket of its own,
\* whether or not listen() had worked.
LeavesOpen ==
  pc = "returned" =>
    /\ ~Listening(Port)
    /\ \A f, g \in Fds :
         file[f].kind = "raw" /\ file[g].kind \in {"raw", "srv"} => f = g

\* Every client that connects is eventually answered and let go, as long as the
\* descriptor table does not fill up and select() does not fail.
ConnectedIsServed ==
  \A c \in Conns :
    end[c]["srv"] \in {"queued", "open"} ~>
      end[c]["srv"] = "closed" \/ TableFull \/ pc = "returned"
=============================================================================
