------------------------ MODULE AbstractSocketServer ------------------------
(***************************************************************************)
(* The part the two echo servers share: AbstractSocketServer (startServer, *)
(* createServer, acceptClient) and the conversation with one client, which *)
(* SelectSocketServer and EPollSocketServer both spell out the same way in *)
(* their receiveClientMsg. One thread runs a server; clients and the other *)
(* threads of the process run beside it. readn is taken by its contract,   *)
(* which module Readn establishes. A local variable is given its initial   *)
(* value again where its scope ends.                                       *)
(*                                                                         *)
(* The actions leave alone the variables a server adds; the module that    *)
(* extends this one says so and gives Next.                                *)
(***************************************************************************)
EXTENDS Sockets

CONSTANT
  Port           (* mPort                                                  *)

ASSUME PortAssumption == Port \in Ports

VARIABLES
  pc,            (* where the server thread is                             *)
  serverFd,
  mClientFds,    (* the list of accepted descriptors                       *)
  clientFD,      (* the client receiveClientMsg is at                      *)
  len,           (* body length announced by the header in hand            *)
  cut            (* clients whose message a signal cut short (history)     *)

baseVars == <<pc, serverFd, mClientFds, clientFD, len, cut>>

BaseInit ==
  /\ pc = "idle"
  /\ serverFd = NoFd
  /\ mClientFds = << >>
  /\ clientFD = NoFd
  /\ len = 0
  /\ cut = {}

-----------------------------------------------------------------------------
(* startServer and createServer. *)

CreateSocket ==
  /\ pc = "idle"
  /\ \E f \in Fds :
       /\ LowestFree(f)
       /\ file' = [file EXCEPT ![f] = RawSocket]
       /\ serverFd' = f
  /\ pc' = "bind"
  /\ UNCHANGED <<linkVars, mClientFds, clientFD, len, cut>>

\* socket() = -1: createServer and startServer return.
SocketFails ==
  /\ pc = "idle"
  /\ TableFull
  /\ pc' = "returned"
  /\ UNCHANGED <<netVars, serverFd, mClientFds, clientFD, len, cut>>

\* setsockopt(SO_REUSEADDR) and bind(), which then succeeds until somebody listens.
Bind ==
  /\ pc = "bind"
  /\ ~Listening(Port)
  /\ pc' = "listen"
  /\ UNCHANGED <<netVars, serverFd, mClientFds, clientFD, len, cut>>

\* setsockopt() or bind() = -1 (another process may listen on the port):
\* createServer returns -1; the socket it made stays open and nobody knows its number.
BindFails ==
  /\ pc = "bind"
  /\ serverFd' = NoFd
  /\ pc' = "returned"
  /\ UNCHANGED <<netVars, mClientFds, clientFD, len, cut>>

\* listen(); processClientConnect is entered.
Listen(entry) ==
  /\ pc = "listen"
  /\ ~Listening(Port)
  /\ file' = [file EXCEPT ![serverFd] = Listener(Port)]
  /\ pc' = entry
  /\ UNCHANGED <<linkVars, serverFd, mClientFds, clientFD, len, cut>>

\* listen() = -1 is not looked at (somebody else came to listen since bind()): the
\* server goes to work on a socket that does not listen.
ListenFails(entry) ==
  /\ pc = "listen"
  /\ pc' = entry
  /\ UNCHANGED <<netVars, serverFd, mClientFds, clientFD, len, cut>>

\* close(serverFd) once processClientConnect is over.
LeaveListening == UNCHANGED netVars
CloseServerFd == Close(serverFd)

CloseListener ==
  /\ pc = "close"
  /\ CloseServerFd
  /\ serverFd' = NoFd
  /\ pc' = "returned"
  /\ UNCHANGED <<mClientFds, clientFD, len, cut>>

-----------------------------------------------------------------------------
(* acceptClient; a signal only makes it call accept() again. *)

\* mClientFds.push_back(clientFD).
PushBack(f) == Append(mClientFds, f)

Accept(next) ==
  /\ pc = "accept"
  /\ file[serverFd] = Listener(Port)
  /\ backlog[Port] # << >>
  /\ \E f \in Fds :
       /\ LowestFree(f)
       /\ file' = [file EXCEPT ![f] = End("srv", Head(backlog[Port]))]
       /\ mClientFds' = PushBack(f)
  /\ end' = [end EXCEPT ![Head(backlog[Port])]["srv"] = "open"]
  /\ backlog' = [backlog EXCEPT ![Port] = Tail(@)]
  /\ pc' = next
  /\ UNCHANGED <<inbox, size, sent, serverFd, clientFD, len, cut>>

\* accept() = -1, EMFILE, or EINVAL of a socket that does not listen: logged, and
\* acceptClient returns before it comes to push_back.
PushBackUnchecked == Append(mClientFds, NoFd)
NoPushBack == mClientFds

AcceptFails(next) ==
  /\ pc = "accept"
  /\ TableFull \/ file[serverFd] # Listener(Port)
  /\ mClientFds' = NoPushBack
  /\ pc' = next
  /\ UNCHANGED <<netVars, serverFd, clientFD, len, cut>>

-----------------------------------------------------------------------------
(* receiveClientMsg, up to the point where the client is dropped. *)

\* The length in a header, after swap_endian; anything if it is no header.
Announced(f) ==
  IF FirstUnits(f, HeaderLen) = [i \in 1 .. HeaderLen |-> i] THEN {size[file[f].id]} ELSE Sizes

\* The header is written back as soon as it is read.
EchoHeaderForgotten(f) ==
  /\ inbox' = [inbox EXCEPT ![file[f].id]["srv"] = SubSeq(@, HeaderLen + 1, Len(@))]
  /\ UNCHANGED <<file, backlog, end, size, sent>>
EchoHeader(f) == WriteBack(f, HeaderLen)

ReadHeader ==
  /\ pc = "header"
  /\ Arrived(clientFD, HeaderLen)
  /\ EchoHeader(clientFD)
  /\ len' \in Announced(clientFD)
  /\ pc' = "body"
  /\ UNCHANGED <<serverFd, mClientFds, clientFD, cut>>

ReadBody ==
  /\ pc = "body"
  /\ Arrived(clientFD, len)
  /\ WriteBack(clientFD, len)
  /\ pc' = "drop"
  /\ UNCHANGED <<serverFd, mClientFds, clientFD, len, cut>>

\* What the current readn call waits for.
Needed == IF pc = "header" THEN HeaderLen ELSE len

\* readn = false: the stream ended or failed before all units arrived.
GivesUpTooEarly(f) == Len(Inbox(f)) < Needed
GivesUp(f) == Hopeless(f, Needed)

ReadFails ==
  /\ pc \in {"header", "body"}
  /\ GivesUp(clientFD)
  /\ pc' = "drop"
  /\ UNCHANGED <<netVars, serverFd, mClientFds, clientFD, len, cut>>

\* readn = false: a signal hit it while it was blocked.
Interrupted ==
  /\ pc \in {"header", "body"}
  /\ Blocked(clientFD, Needed)
  /\ cut' = cut \cup {file[clientFD].id}
  /\ pc' = "drop"
  /\ UNCHANGED <<netVars, serverFd, mClientFds, clientFD, len>>

\* close(clientFD), whatever became of the message; the caller erases it.
Drop(next) ==
  /\ pc = "drop"
  /\ Close(clientFD)
  /\ clientFD' = NoFd
  /\ len' = 0
  /\ pc' = next
  /\ UNCHANGED <<serverFd, cut>>

-----------------------------------------------------------------------------
AtClient == pc \in {"header", "body", "drop"}

BaseTypeOK ==
  /\ NetTypeOK
  /\ pc \in {"idle", "bind", "listen", "create", "wait", "accept", "register", "scan",
             "handle", "header", "body", "drop", "close", "returned"}
  /\ serverFd \in Fds \cup {NoFd}
  /\ mClientFds \in Seq(Fds)
  /\ clientFD \in Fds \cup {NoFd}
  /\ len \in Nat
  /\ cut \subseteq Conns

\* What a client gets back is what it sent, from the first unit on and in order.
EchoesInOrder ==
  \A c \in Conns : IsPrefix(inbox[c]["cli"], Message(c))

\* The server hangs up on a client only with the whole message echoed, unless
\* the client left first, a signal cut it, or the server has stopped.
NobodyIsCheated ==
  \A c \in Conns :
    end[c]["srv"] = "closed" =>
      \/ inbox[c]["cli"] = Message(c)
      \/ end[c]["cli"] = "closed"
      \/ c \in cut
      \/ pc = "returned"

\* The echo service a server provides: what its clients see of its state.
Phase(c) ==
  IF end[c]["srv"] = "open"
    THEN IF ~AtClient \/ file[clientFD] # End("srv", c) THEN "accepted"
         ELSE IF c \in cut THEN "cut" ELSE "answering"
    ELSE IF end[c]["srv"] = "queued" THEN "waiting" ELSE end[c]["srv"]

Echo == INSTANCE EchoService WITH
  up    <- Listening(Port),
  phase <- [c \in Conns |-> Phase(c)],
  gone  <- {c \in Conns : end[c]["cli"] = "closed"},
  echo  <- [c \in Conns |-> inbox[c]["cli"]]

\* Seen from its clients, the server is an EchoService.
ImplementsEchoService == Echo!Spec
=============================================================================
