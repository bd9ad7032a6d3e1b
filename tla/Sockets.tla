------------------------------ MODULE Sockets ------------------------------
(***************************************************************************)
(* What the two echo servers use of the kernel: the descriptor table of    *)
(* the process, listening sockets with their backlog, and connected stream *)
(* sockets. None of it is code of the repository; it is modelled from how  *)
(* AbstractSocketServer, SelectSocketServer, EPollSocketServer and         *)
(* MockSocketIntentService call it.                                        *)
(*                                                                         *)
(* A descriptor is a number, allocated lowest first and given out again    *)
(* once closed. A connection has two ends; what one end writes is appended *)
(* to the inbox of the other. The stream of a client is cut in units,      *)
(* named by their position: HeaderLen units of length header (more than    *)
(* one, as DataOutputStream.writeInt sends it byte by byte), then the body.*)
(* The module has no specification of its own: the servers extend it.      *)
(***************************************************************************)
EXTENDS Integers, SequencesExt

CONSTANTS
  HeaderLen,     (* units of the length header (4 bytes in the source)     *)
  FdLimit,       (* descriptors the process may have open (RLIMIT_NOFILE)  *)
  Conns,         (* connections there may ever be                          *)
  Sizes,         (* body lengths a client may send, in units               *)
  Ports,         (* ports listened on                                      *)
  BacklogLimit,  (* 10 in the source: listen(fd, 10)                       *)
  None           (* not a connection, not a port                           *)

ASSUME SocketsAssumption ==
  /\ HeaderLen \in Nat \ {0}
  /\ FdLimit \in Nat
  /\ Sizes \subseteq Nat
  /\ None \notin Conns \cup Ports
  /\ BacklogLimit \in Nat

VARIABLES
  file,          (* what each descriptor refers to                         *)
  backlog,       (* per port: connections made and not accepted yet        *)
  end,           (* state of both ends of each connection                  *)
  inbox,         (* per end: units delivered to it and not read yet        *)
  size,          (* body length each client announces                      *)
  sent           (* units each client has sent (history)                   *)

netVars == <<file, backlog, end, inbox, size, sent>>
linkVars == <<backlog, end, inbox, size, sent>>

Fds  == 1 .. FdLimit
NoFd == 0

Ends == {"srv", "cli"}
Peer(e) == IF e = "srv" THEN "cli" ELSE "srv"

Free      == [kind |-> "free",   id |-> None]
Plain     == [kind |-> "plain",  id |-> None]   \* any file epoll refuses
EpollFile == [kind |-> "epoll",  id |-> None]
RawSocket == [kind |-> "raw",    id |-> None]   \* neither listens nor connected
Listener(p) == [kind |-> "listen", id |-> p]
End(e, c)   == [kind |-> e, id |-> c]

Files == [kind : {"free", "plain", "epoll", "raw", "listen", "srv", "cli"},
          id   : Conns \cup Ports \cup {None}]

\* The stream of client c.
Message(c) == [i \in 1 .. HeaderLen + size[c] |-> i]

NetInit ==
  /\ file = [f \in Fds |-> Free]
  /\ backlog = [p \in Ports |-> << >>]
  /\ end = [c \in Conns |-> [e \in Ends |-> "none"]]
  /\ inbox = [c \in Conns |-> [e \in Ends |-> << >>]]
  /\ size \in [Conns -> Sizes]
  /\ sent = [c \in Conns |-> 0]

NetTypeOK ==
  /\ file \in [Fds -> Files]
  /\ backlog \in [Ports -> Seq(Conns)]
  /\ end \in [Conns -> [Ends -> {"none", "queued", "open", "closed"}]]
  /\ inbox \in [Conns -> [Ends -> Seq(Nat)]]
  /\ size \in [Conns -> Sizes]
  /\ sent \in [Conns -> Nat]

-----------------------------------------------------------------------------
(* Descriptors. *)

\* The kernel hands out the lowest free number.
LowestFree(f) == file[f] = Free /\ \A g \in Fds : g < f => file[g] # Free
TableFull == \A f \in Fds : file[f] # Free

\* The connections a close of f ends, and on which side. Closing a listening
\* socket also ends the connections waiting in its backlog.
Ended(f, c, e) ==
  \/ file[f] = End(e, c)
  \/ e = "srv" /\ file[f].kind = "listen" /\ c \in ToSet(backlog[file[f].id])

\* close(f); of a number that is not open it is the no-op EBADF.
Close(f) ==
  /\ file' = [file EXCEPT ![f] = Free]
  /\ backlog' = [p \in Ports |->
       IF file[f].kind = "listen" /\ file[f].id = p THEN << >> ELSE backlog[p]]
  /\ end' = [c \in Conns |-> [e \in Ends |->
       IF Ended(f, c, e) THEN "closed" ELSE end[c][e]]]
  /\ UNCHANGED <<inbox, size, sent>>

\* Other threads of the process open and close files of their own
\* (MaxFileDescriptorActivity opens them until the table is full).
ForeignOpen ==
  /\ \E f \in Fds : LowestFree(f) /\ file' = [file EXCEPT ![f] = Plain]
  /\ UNCHANGED linkVars

ForeignClose ==
  /\ \E f \in Fds : file[f] = Plain /\ file' = [file EXCEPT ![f] = Free]
  /\ UNCHANGED linkVars

-----------------------------------------------------------------------------
(* Connected sockets. *)

Connected(f) == file[f].kind \in Ends
Inbox(f) == inbox[file[f].id][file[f].kind]
PeerGone(f) == end[file[f].id][Peer(file[f].kind)] = "closed"

\* There is something to accept, or to read, the end of the stream included.
Readable(f) ==
  \/ file[f].kind = "listen" /\ backlog[file[f].id] # << >>
  \/ Connected(f) /\ (Inbox(f) # << >> \/ PeerGone(f))
  \/ file[f].kind = "plain"

\* select() and epoll also report a socket that is not connected (EPOLLHUP).
Reported(f) == Readable(f) \/ file[f].kind = "raw"

\* readn(f, n) by its contract (module Readn): all n units, or false at the
\* end of the stream or on an error, or false when a signal hits it blocked.
Arrived(f, n) == Connected(f) /\ Len(Inbox(f)) >= n
Hopeless(f, n) == ~Arrived(f, n) /\ (Connected(f) => PeerGone(f))
Blocked(f, n) == ~Arrived(f, n) /\ ~Hopeless(f, n)

FirstUnits(f, n) == SubSeq(Inbox(f), 1, n)

\* readn(f, n) and write(f) of what was read: the units move from the inbox of
\* this end to that of the other one, where they are lost if it is closed.
WriteBack(f, n) ==
  LET c == file[f].id
      e == file[f].kind
  IN  /\ inbox' = [inbox EXCEPT ![c] = [x \in Ends |->
           IF x = e THEN SubSeq(@[e], n + 1, Len(@[e]))
           ELSE IF PeerGone(f) THEN @[x] ELSE @[x] \o FirstUnits(f, n)]]
      /\ UNCHANGED <<file, backlog, end, size, sent>>

-----------------------------------------------------------------------------
(* Clients outside the process: the select server listens on INADDR_ANY. A *)
(* client sends one message as MockSocketIntentService.sendMsg does, a unit*)
(* at a time, and may leave at any moment.                                 *)

Listening(p) == \E f \in Fds : file[f] = Listener(p)

Connect(c, p) ==
  /\ end[c]["srv"] = "none"
  /\ Listening(p)
  /\ Len(backlog[p]) < BacklogLimit
  /\ end' = [end EXCEPT ![c] = [e \in Ends |-> IF e = "srv" THEN "queued" ELSE "open"]]
  /\ backlog' = [backlog EXCEPT ![p] = Append(@, c)]
  /\ UNCHANGED <<file, inbox, size, sent>>

\* What is sent after the server has hung up is lost, and left out.
Send(c) ==
  /\ end[c]["cli"] = "open" /\ end[c]["srv"] # "closed"
  /\ sent[c] < HeaderLen + size[c]
  /\ sent' = [sent EXCEPT ![c] = @ + 1]
  /\ inbox' = [inbox EXCEPT ![c]["srv"] = Append(@, sent[c] + 1)]
  /\ UNCHANGED <<file, backlog, end, size>>

Leave(c) ==
  /\ end[c]["cli"] = "open"
  /\ end' = [end EXCEPT ![c]["cli"] = "closed"]
  /\ UNCHANGED <<file, backlog, inbox, size, sent>>

Client(c, p) == Connect(c, p) \/ Send(c) \/ Leave(c)
=============================================================================
