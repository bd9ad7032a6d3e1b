---------------------- MODULE MockSocketIntentService ----------------------
(***************************************************************************)
(* The client inside the app: an IntentService, whose one worker thread    *)
(* handles the queued intents one after the other. sendMsg connects, sends *)
(* a length header and a body, reads the echo of both and closes. Only the *)
(* connect has a timeout. The socket is a descriptor of the same process   *)
(* as the servers, and every call names it by its number.                  *)
(***************************************************************************)
EXTENDS Sockets

VARIABLES
  intents,       (* ports of the intents not handled yet                   *)
  cpc,           (* where the worker is in sendMsg                         *)
  port,          (* of the intent in hand                                  *)
  socket,        (* descriptor of the socket, NoFd without one             *)
  conn,          (* the connection in hand, None before connect            *)
  answer,        (* units read so far                                      *)
  dest,          (* the port each connection was made to (history)         *)
  outcome        (* of each connection: "none", "answered", "failed"       *)

mockVars == <<intents, cpc, port, socket, conn, answer, dest, outcome>>

MockInit ==
  /\ intents = << >>
  /\ cpc = "idle"
  /\ port = None
  /\ socket = NoFd
  /\ conn = None
  /\ answer = << >>
  /\ dest = [c \in Conns |-> None]
  /\ outcome = [c \in Conns |-> "none"]

-----------------------------------------------------------------------------
\* onHandleIntent: the next intent in the order of startService.
HandleIntent ==
  /\ cpc = "idle"
  /\ intents # << >>
  /\ port' = Head(intents)
  /\ intents' = Tail(intents)
  /\ cpc' = "socket"
  /\ UNCHANGED <<netVars, socket, conn, answer, dest, outcome>>

\* The socket is made when connect is called.
OpenSocket ==
  /\ cpc = "socket"
  /\ \E f \in Fds :
       /\ LowestFree(f)
       /\ file' = [file EXCEPT ![f] = RawSocket]
       /\ socket' = f
  /\ cpc' = "connect"
  /\ UNCHANGED <<linkVars, intents, port, conn, answer, dest, outcome>>

OpenSocketFails ==
  /\ cpc = "socket"
  /\ TableFull
  /\ cpc' = "close"
  /\ UNCHANGED <<netVars, intents, port, socket, conn, answer, dest, outcome>>

Room(p) == Listening(p) /\ Len(backlog[p]) < BacklogLimit

\* The name of the next connection; which one it is makes no difference.
Unused == {c \in Conns : end[c]["srv"] = "none"}
NextConn == CHOOSE c \in Unused : TRUE

SocketConnect ==
  /\ cpc = "connect"
  /\ Room(port)
  /\ Unused # {}
  /\ file[socket] = RawSocket
  /\ \E c \in {NextConn} :
       /\ file' = [file EXCEPT ![socket] = End("cli", c)]
       /\ end' = [end EXCEPT ![c] = [e \in Ends |-> IF e = "srv" THEN "queued" ELSE "open"]]
       /\ backlog' = [backlog EXCEPT ![port] = Append(@, c)]
       /\ conn' = c
       /\ dest' = [dest EXCEPT ![c] = port]
  /\ cpc' = "write"
  /\ UNCHANGED <<inbox, size, sent, intents, port, socket, answer, outcome>>

\* Refused, or given up after five seconds: the IOException is logged.
ConnectFails ==
  /\ cpc = "connect"
  /\ ~Room(port) \/ file[socket] # RawSocket
  /\ cpc' = "close"
  /\ UNCHANGED <<netVars, intents, port, socket, conn, answer, dest, outcome>>

\* writeInt and write, a unit at a time; what comes after a hang-up is lost.
Write ==
  /\ cpc = "write"
  /\ Connected(socket)
  /\ sent' = [sent EXCEPT ![conn] = @ + 1]
  /\ inbox' = IF PeerGone(socket) THEN inbox
              ELSE [inbox EXCEPT ![file[socket].id][Peer(file[socket].kind)] =
                      Append(@, sent[conn] + 1)]
  /\ cpc' = IF sent[conn] + 1 = HeaderLen + size[conn] THEN "readInt" ELSE "write"
  /\ UNCHANGED <<file, backlog, end, size, intents, port, socket, conn, answer, dest, outcome>>

\* DataInputStream takes n units out of the socket.
Take(n) ==
  /\ answer' = answer \o FirstUnits(socket, n)
  /\ inbox' = [inbox EXCEPT ![file[socket].id][file[socket].kind] =
                 SubSeq(@, n + 1, Len(@))]
  /\ UNCHANGED <<file, backlog, end, size, sent, intents, port, socket, conn, dest>>

ReadInt ==
  /\ cpc = "readInt"
  /\ Arrived(socket, HeaderLen)
  /\ Take(HeaderLen)
  /\ cpc' = "readFully"
  /\ UNCHANGED outcome

ReadFully ==
  /\ cpc = "readFully"
  /\ Arrived(socket, size[conn])
  /\ Take(size[conn])
  /\ outcome' = [outcome EXCEPT ![conn] = "answered"]
  /\ cpc' = "close"

\* An end of stream or an error is an IOException, which is logged.
Failing ==
  \/ cpc = "write" /\ (Connected(socket) => PeerGone(socket))
  \/ cpc = "readInt" /\ Hopeless(socket, HeaderLen)
  \/ cpc = "readFully" /\ Hopeless(socket, size[conn])

StreamFails ==
  /\ Failing
  /\ outcome' = [outcome EXCEPT ![conn] = "failed"]
  /\ cpc' = "close"
  /\ UNCHANGED <<netVars, intents, port, socket, conn, answer, dest>>

\* finally: socket.close().
CloseSocketForgotten == UNCHANGED netVars
CloseSocketFd == IF socket = NoFd THEN UNCHANGED netVars ELSE Close(socket)

CloseSocket ==
  /\ cpc = "close"
  /\ CloseSocketFd
  /\ socket' = NoFd
  /\ conn' = None
  /\ answer' = << >>
  /\ port' = None
  /\ cpc' = "idle"
  /\ UNCHANGED <<intents, dest, outcome>>

Worker ==
  \/ HandleIntent \/ OpenSocket \/ OpenSocketFails \/ SocketConnect \/ ConnectFails
  \/ Write \/ ReadInt \/ ReadFully \/ StreamFails \/ CloseSocket

\* sendSocketMsg: startService queues an intent that carries the port.
SendSocketMsg(p) ==
  /\ intents' = Append(intents, p)
  /\ UNCHANGED <<netVars, cpc, port, socket, conn, answer, dest, outcome>>

-----------------------------------------------------------------------------
MockTypeOK ==
  /\ intents \in Seq(Ports)
  /\ cpc \in {"idle", "socket", "connect", "write", "readInt", "readFully", "close"}
  /\ port \in Ports \cup {None}
  /\ socket \in Fds \cup {NoFd}
  /\ conn \in Conns \cup {None}
  /\ answer \in Seq(Nat)
  /\ dest \in [Conns -> Ports \cup {None}]
  /\ outcome \in [Conns -> {"none", "answered", "failed"}]
=============================================================================
