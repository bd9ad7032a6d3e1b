------------------------- MODULE EchoProcessProofs -------------------------
(***************************************************************************)
(* One echo server and the client in one process keep out of each other's  *)
(* descriptors, and the answers are right: the epoll server alone, or the  *)
(* select server with any other threads beside it (WorldInv). Both servers *)
(* together, or other threads beside the epoll server, are excluded by the *)
(* assumption of the theorems; ClosesItsClients is checked there and fails.*)
(* The select server erases a client when it closes it. The epoll server   *)
(* never does, and may register a number that has passed to somebody else; *)
(* LowInv says why that does no harm: the client's socket, made first and  *)
(* closed last, is always the same number, below every one the epoll server*)
(* has ever listed.                                                        *)
(***************************************************************************)
EXTENDS EchoProcess, SocketsProofs

-----------------------------------------------------------------------------
(* The inductive invariant. *)

SelectTypes ==
  /\ sPc \in {"idle", "bind", "listen", "create", "wait", "accept", "register",
              "scan", "handle", "header", "body", "drop", "close", "returned"}
  /\ sServerFd \in Fds \cup {NoFd}
  /\ sClientFds \in Seq(Fds)
  /\ sClientFD \in Fds \cup {NoFd}
  /\ sLen \in Nat
  /\ sReadFds \subseteq Fds
  /\ sIter \in Nat \ {0}

EPollTypes ==
  /\ ePc \in {"idle", "bind", "listen", "create", "wait", "accept", "register",
              "scan", "handle", "header", "body", "drop", "close", "returned"}
  /\ eServerFd \in Fds \cup {NoFd}
  /\ eClientFds \in Seq(Fds)
  /\ eClientFD \in Fds \cup {NoFd}
  /\ eLen \in Nat
  /\ epollfd \in Fds \cup {NoFd, E!Failed}
  /\ interest \in [Fds -> {"none", "level", "armed", "spent"}]
  /\ batch \subseteq Fds

UiTypes ==
  /\ taps \in 0 .. MaxTaps
  /\ running \subseteq Ports
  /\ posted \in Seq(Ports)

\* TypeOK, with what the servers share said once.
Types ==
  NetTypeOK /\ MockTypeOK /\ SelectTypes /\ EPollTypes /\ UiTypes /\ cut \subseteq Conns

LEMMA TypesAreTypeOK == Types => TypeOK
BY DEF Types, TypeOK, SelectTypes, EPollTypes, UiTypes,
       S!TypeOK, S!BaseTypeOK, S!NetTypeOK, E!TypeOK, E!BaseTypeOK, E!NetTypeOK,
       S!Fds, E!Fds, S!NoFd, E!NoFd, S!Ends, E!Ends, S!Files, E!Files,
       NetTypeOK, Fds, NoFd, Ends, Files

\* One server at a time, while the epoll server tolerates no other.
SelectIdle == sPc = "idle" /\ sClientFds = << >> /\ sServerFd = NoFd
EPollIdle ==
  /\ ePc = "idle" /\ eClientFds = << >> /\ eServerFd = NoFd
  /\ batch = {} /\ \A f \in Fds : interest[f] = "none"

WorldInv ==
  /\ EPollPort \in running => running = {EPollPort}
  /\ SelectPort \notin running => SelectIdle
  /\ EPollPort \notin running => EPollIdle
  /\ running = {} => posted = << >> /\ intents = << >> /\ cpc = "idle"

\* The client's socket is what sendMsg has made of it so far.
MockInv ==
  /\ cpc \in {"socket", "connect"} => port \in Ports
  /\ cpc \in {"idle", "socket"} => socket = NoFd
  /\ cpc \in {"connect", "write", "readInt", "readFully"} => socket # NoFd
  /\ cpc \in {"idle", "socket", "connect"} => conn = None
  /\ cpc \in {"write", "readInt", "readFully"} => conn # None
  /\ conn = None => answer = << >>
  /\ conn = None /\ socket # NoFd => file[socket] = RawSocket
  /\ conn # None =>
       /\ socket # NoFd /\ file[socket] = End("cli", conn)
       /\ end[conn]["cli"] = "open" /\ end[conn]["srv"] # "none"
  /\ cpc = "readFully" => answer # << >>
  /\ cpc = "close" /\ conn # None => end[conn]["srv"] # "queued"

\* A server has given up or stopped; what it could not bind has lost its number.
Over == "returned" \in {sPc, ePc}

\* A socket in the table is the one its owner's variables name, and a connection
\* accepted is in the list of the server it was made to.
Owned(f) ==
  /\ file[f].kind = "cli" => f = socket
  /\ file[f].kind \in {"raw", "listen"} => f \in {socket, sServerFd, eServerFd} \/ Over
  /\ file[f].kind = "srv" =>
       /\ file[f].id \in Conns /\ end[file[f].id]["srv"] = "open"
       /\ \/ f \in ToSet(sClientFds) /\ dest[file[f].id] = SelectPort
          \/ f \in ToSet(eClientFds) /\ dest[file[f].id] = EPollPort

OnlyOnce(f) == file[f].kind = "srv" => \A g \in Fds : file[g] = file[f] => g = f

\* The only connection that can wait in a backlog is the one in hand.
Waiting(p) ==
  backlog[p] # << >> =>
    /\ conn # None /\ backlog[p] = <<conn>>
    /\ dest[conn] = p /\ end[conn]["srv"] = "queued"

Untold(c) ==
  end[c]["srv"] \in {"none", "queued"} =>
    inbox[c]["cli"] = << >> /\ (conn = c => answer = << >>)

NetInv ==
  /\ \A f \in Fds : Owned(f) /\ OnlyOnce(f)
  /\ \A p \in Ports : Waiting(p)
  /\ \A c \in Conns : Untold(c)

SelectInv ==
  /\ Distinct(sClientFds)
  /\ \A f \in ToSet(sClientFds) : ServedEnd(f, SelectPort)
  /\ sPc \notin {"create", "register", "handle"}
  /\ sPc = "idle" => sServerFd = NoFd
  /\ sPc \in {"bind", "listen"} =>
       sServerFd \in Fds /\ file[sServerFd] = RawSocket /\ sServerFd # socket
  /\ sPc \in {"wait", "accept", "scan", "header", "body", "drop", "close"} =>
       /\ sServerFd \in Fds /\ sServerFd # socket
       /\ file[sServerFd] \in {Listener(SelectPort), RawSocket}
  /\ sPc \in {"header", "body", "drop"} =>
       sIter \in 1 .. Len(sClientFds) /\ sClientFD = sClientFds[sIter]

EPollInv ==
  /\ ePc \notin {"scan", "close"}
  /\ ePc = "idle" => eServerFd = NoFd
  /\ ePc \in {"bind", "listen"} =>
       eServerFd \in Fds /\ file[eServerFd] = RawSocket /\ eServerFd # socket
  /\ ePc \notin {"idle", "bind", "listen", "returned"} =>
       /\ eServerFd \in Fds /\ eServerFd # socket
       /\ file[eServerFd] \in {Listener(EPollPort), RawSocket}
       /\ eServerFd \notin ToSet(eClientFds)
  /\ ePc \in {"idle", "bind", "listen", "create", "returned"} =>
       eClientFds = << >> /\ batch = {} /\ \A f \in Fds : interest[f] = "none"
  /\ \A f \in Fds :
       /\ interest[f] = "level" => f = eServerFd
       /\ interest[f] \in {"armed", "spent"} => ServedEnd(f, EPollPort)
  /\ \A f \in batch : f = eServerFd \/ interest[f] = "spent"
  /\ ePc \in {"header", "body", "drop"} =>
       eClientFD \in Fds /\ eClientFD \notin batch /\ interest[eClientFD] = "spent"

\* k is the number of the client's socket, each time it is made: nobody closes what
\* is below it, and nothing the epoll server lists is.
Kept(f) == file[f] # Free /\ file[f].kind \notin {"srv", "cli"} /\ f # socket

Lowest(k) ==
  /\ \A f \in ToSet(eClientFds) : f > k
  /\ \A g \in Fds : g < k => Kept(g)
  /\ socket = k \/ (socket = NoFd /\ file[k] = Free)

LowInv ==
  EPollPort \in running /\ (socket # NoFd \/ eClientFds # << >>) =>
    \E k \in Fds : Lowest(k)

Base == Types /\ WorldInv /\ MockInv /\ NetInv /\ SelectInv /\ EPollInv /\ LowInv

\* The conversation of each connection, seen from both of its ends.
SelectHas(c) == sPc \in {"header", "body", "drop"} /\ file[sClientFD] = End("srv", c)
EPollHas(c)  == ePc \in {"header", "body", "drop"} /\ file[eClientFD] = End("srv", c)

Unanswered(c) ==
  /\ Piece(inbox[c]["srv"], 0, sent[c])
  /\ inbox[c]["cli"] = << >>
  /\ conn = c => answer = << >>

\* Of the first n units of the answer the client has read some and not yet the rest.
Echoed(c, n) ==
  conn = c => Piece(answer, 0, Len(answer)) /\ Piece(inbox[c]["cli"], Len(answer), n)

HeaderEchoed(c) == Piece(inbox[c]["srv"], HeaderLen, sent[c]) /\ Echoed(c, HeaderLen)

Talking(c) ==
  /\ sent[c] <= HeaderLen + size[c]
  /\ end[c]["srv"] = "none" => sent[c] = 0
  /\ conn = c /\ cpc = "write" => sent[c] < HeaderLen + size[c]
  /\ end[c]["srv"] # "closed"
     /\ ~ (SelectHas(c) /\ sPc # "header") /\ ~ (EPollHas(c) /\ ePc # "header") => Unanswered(c)
  /\ SelectHas(c) /\ sPc = "body" => HeaderEchoed(c) /\ sLen = size[c]
  /\ EPollHas(c) /\ ePc = "body" => HeaderEchoed(c) /\ eLen = size[c]
  /\ \E n \in 0 .. HeaderLen + size[c] : Echoed(c, n)

IInv == Base /\ \A c \in Conns : Talking(c)

-----------------------------------------------------------------------------
LEMMA EachItsOwnFollows == IInv => EachItsOwn
<1> SUFFICES ASSUME IInv PROVE EachItsOwn
  OBVIOUS
<1>1. TypeOK
  BY TypesAreTypeOK DEF IInv, Base
<1>2. conn # None => file[socket] = End("cli", conn)
  BY DEF IInv, Base, MockInv
<1> QED BY <1>1, <1>2 DEF EachItsOwn, IInv, Base, SelectInv, EPollInv

LEMMA AnswersFollow == IInv => AnswersAreRight
<1> SUFFICES ASSUME IInv, NEW c \in Conns, conn = c PROVE IsPrefix(answer, Message(c))
  BY DEF AnswersAreRight
<1>1. PICK n \in 0 .. HeaderLen + size[c] : Echoed(c, n)
  BY DEF IInv, Talking
<1>2. HeaderLen \in Nat /\ size[c] \in Nat /\ n \in Nat /\ n <= HeaderLen + size[c]
  <2>1. HeaderLen \in Nat /\ size[c] \in Nat
    BY SocketsAssumption DEF IInv, Base, Types, NetTypeOK
  <2> QED BY <2>1
<1>3. Piece(answer, 0, Len(answer)) /\ Piece(inbox[c]["cli"], Len(answer), n)
  BY <1>1 DEF Echoed
<1>4. Len(answer) \in Nat /\ Len(inbox[c]["cli"]) \in Nat /\ Len(inbox[c]["cli"]) = n - Len(answer)
  BY <1>3, LenProperties DEF Piece
<1>5. Len(answer) <= HeaderLen + size[c] /\ HeaderLen + size[c] \in Nat
  BY <1>2, <1>4
<1>6. answer = Units(Len(answer)) /\ Message(c) = Units(HeaderLen + size[c])
  BY <1>3, <1>4, PieceIsUnits DEF Message, Units
<1> QED BY <1>4, <1>5, <1>6, UnitsArePrefix

-----------------------------------------------------------------------------
(* The beginning. *)

LEMMA AtFirst == Init => IInv
<1> SUFFICES ASSUME Init PROVE IInv
  OBVIOUS
<1>1. /\ NetInit /\ MockInit /\ taps = 0 /\ running = {} /\ posted = << >>
      /\ sPc = "idle" /\ sServerFd = NoFd /\ sClientFds = << >> /\ sClientFD = NoFd
      /\ sLen = 0 /\ cut = {} /\ sReadFds = {} /\ sIter = 1
      /\ ePc = "idle" /\ eServerFd = NoFd /\ eClientFds = << >> /\ eClientFD = NoFd
      /\ eLen = 0 /\ epollfd = NoFd /\ batch = {} /\ interest = [f \in Fds |-> "none"]
  BY DEF Init, S!Init, S!NetInit, S!BaseInit, S!Fds, S!NoFd, S!Ends, S!Free,
         E!Init, E!BaseInit, E!Fds, E!NoFd,
         NetInit, Fds, NoFd, Ends, Free
<1>2. NetTypeOK
  BY <1>1, NetTypeAtFirst
<1>3. << >> \in Seq(Fds) /\ << >> \in Seq(Ports) /\ << >> \in Seq(Nat) /\ ToSet(<< >>) = {}
  BY EmptySeq DEF ToSet
<1>4. /\ \A f \in Fds : file[f].kind = "free"
      /\ \A c \in Conns : /\ end[c]["srv"] = "none" /\ end[c]["cli"] = "none" /\ sent[c] = 0
                          /\ inbox[c]["srv"] = << >> /\ inbox[c]["cli"] = << >>
      /\ \A p \in Ports : backlog[p] = << >>
      /\ intents = << >> /\ cpc = "idle" /\ socket = NoFd /\ conn = None /\ answer = << >>
  BY <1>1 DEF NetInit, MockInit, Free, Ends
<1>5. Types
  BY <1>1, <1>2, <1>3, EchoProcessAssumption
     DEF Types, MockInit, MockTypeOK, SelectTypes, EPollTypes, UiTypes
<1>6. SelectIdle /\ EPollIdle
  BY <1>1 DEF SelectIdle, EPollIdle
<1>7. Base
  BY <1>1, <1>3, <1>4, <1>5, <1>6
     DEF Base, WorldInv, MockInv, NetInv, Owned, OnlyOnce, Waiting, Untold, Distinct,
         SelectInv, EPollIdle, EPollInv, LowInv
<1>8. ASSUME NEW c \in Conns PROVE Talking(c)
  <2>1. c # None
    BY SocketsAssumption
  <2>2. Piece(<< >>, 0, 0)
    BY EmptyPiece
  <2>3. HeaderLen + size[c] \in Nat /\ 0 \in 0 .. HeaderLen + size[c] /\ 0 <= HeaderLen + size[c]
    <3>1. HeaderLen \in Nat /\ size[c] \in Nat
      BY <1>2, SocketsAssumption DEF NetTypeOK
    <3> QED BY <3>1
  <2> QED BY <1>1, <1>4, <2>1, <2>2, <2>3
          DEF Talking, Unanswered, Echoed, SelectHas, EPollHas
<1> QED BY <1>7, <1>8 DEF IInv

-----------------------------------------------------------------------------
(* Steps beside the servers. *)

\* What a server relies on stays: its sockets, their connections' ports, and what
\* it watches, but for descriptors that are closed.
Undisturbed ==
  /\ UNCHANGED <<sVars, eVars>>
  /\ \A f \in Fds :
       file[f].kind \in {"srv", "listen"} \/ (file[f] = RawSocket /\ f # socket) =>
         file'[f] = file[f] /\ f # socket'
  /\ \A c \in Conns : end[c]["srv"] = "open" => dest'[c] = dest[c]
  /\ \A f \in Fds : interest'[f] = interest[f] \/ (interest'[f] = "none" /\ file'[f] = Free)

LEMMA ServedKind == \A f, p : ServedEnd(f, p) => file[f].kind = "srv"
BY DEF ServedEnd, End

LEMMA SocketKind ==
  ASSUME Base
  PROVE  /\ socket # NoFd => socket \in Fds /\ file[socket].kind \in {"raw", "cli"}
         /\ NoFd \notin Fds
BY DEF Base, Types, MockTypeOK, MockInv, RawSocket, End, Fds, NoFd

\* The client a server has in hand.
LEMMA SelectHand ==
  ASSUME Base, sPc \in {"header", "body", "drop"}
  PROVE  /\ sClientFD \in Fds /\ sIter \in 1 .. Len(sClientFds)
         /\ sClientFD = sClientFds[sIter] /\ sClientFD \in ToSet(sClientFds)
         /\ ServedEnd(sClientFD, SelectPort) /\ file[sClientFD].kind = "srv"
<1>1. sIter \in 1 .. Len(sClientFds) /\ sClientFD = sClientFds[sIter]
  BY DEF Base, SelectInv
<1>2. sClientFds \in Seq(Fds)
  BY DEF Base, Types, SelectTypes
<1>3. sClientFD \in Fds /\ sClientFD \in ToSet(sClientFds)
  BY <1>1, <1>2, ElementOfSeq, LenProperties DEF ToSet
<1>4. ServedEnd(sClientFD, SelectPort)
  BY <1>3 DEF Base, SelectInv
<1> QED BY <1>1, <1>3, <1>4, ServedKind

LEMMA EPollHand ==
  ASSUME Base, ePc \in {"header", "body", "drop"}
  PROVE  /\ eClientFD \in Fds /\ eClientFD \notin batch /\ interest[eClientFD] = "spent"
         /\ ServedEnd(eClientFD, EPollPort) /\ file[eClientFD].kind = "srv"
<1>1. eClientFD \in Fds /\ eClientFD \notin batch /\ interest[eClientFD] = "spent"
  BY DEF Base, EPollInv
<1>2. ServedEnd(eClientFD, EPollPort)
  BY <1>1 DEF Base, EPollInv
<1> QED BY <1>1, <1>2, ServedKind

LEMMA ServersGoOn ==
  ASSUME Base, Undisturbed
  PROVE  SelectInv' /\ EPollInv'
<1> USE DEF Undisturbed, sVars, eVars
<1>1. \A f \in Fds : file[f].kind = "srv" =>
        /\ file'[f] = file[f] /\ file[f].id \in Conns
        /\ dest'[file[f].id] = dest[file[f].id]
  BY DEF Base, NetInv, Owned
<1>2. \A f \in Fds, p \in Ports : ServedEnd(f, p) => ServedEnd(f, p)'
  BY <1>1 DEF ServedEnd, End
<1>3. RawSocket.kind = "raw" /\ \A p : Listener(p).kind = "listen"
  BY DEF RawSocket, Listener
<1>4. ToSet(sClientFds) \subseteq Fds
  BY DEF Base, Types, SelectTypes, ToSet
<1>5. SelectInv'
  BY <1>2, <1>3, <1>4, EchoProcessAssumption DEF Base, SelectInv
<1>6. \A f \in Fds : interest[f] \in {"armed", "spent"} => file'[f] # Free /\ file[f].kind = "srv"
  <2>1. \A f \in Fds : interest[f] \in {"armed", "spent"} => file[f].kind = "srv"
    BY ServedKind DEF Base, EPollInv
  <2>2. Free.kind = "free"
    BY DEF Free
  <2> QED BY <1>1, <2>1, <2>2
<1>7. \A f \in Fds : interest[f] = "spent" => interest'[f] = "spent"
  BY <1>6
<1>8. batch \subseteq Fds
  BY DEF Base, Types, EPollTypes
<1>9. EPollInv'
  BY <1>2, <1>3, <1>6, <1>7, <1>8, EchoProcessAssumption DEF Base, EPollInv
<1> QED BY <1>5, <1>9

\* A conversation goes on, or comes to its end, as long as no unit of it moves.
LEMMA TalksOn ==
  ASSUME NEW c \in Conns, Talking(c),
         \/ end'[c]["srv"] = end[c]["srv"]
         \/ end[c]["srv"] \in {"queued", "open"} /\ end'[c]["srv"] \in {"open", "closed"},
         inbox'[c] = inbox[c], size'[c] = size[c], sent'[c] = sent[c],
         conn' = c => conn = c /\ answer' = answer /\ (cpc' = "write" => cpc = "write"),
         SelectHas(c)' /\ sPc' = "body" => SelectHas(c) /\ sPc = "body" /\ sLen' = sLen,
         EPollHas(c)' /\ ePc' = "body" => EPollHas(c) /\ ePc = "body" /\ eLen' = eLen,
         end'[c]["srv"] # "closed" =>
           /\ SelectHas(c) /\ sPc # "header" => SelectHas(c)' /\ sPc' # "header"
           /\ EPollHas(c) /\ ePc # "header" => EPollHas(c)' /\ ePc' # "header"
  PROVE  Talking(c)'
BY DEF Talking, Unanswered, HeaderEchoed, Echoed

\* Every connection a server has in hand keeps its descriptor.
LEMMA HandsKept ==
  ASSUME Base, Undisturbed, NEW c \in Conns, Base'
  PROVE  /\ SelectHas(c)' = SelectHas(c) /\ EPollHas(c)' = EPollHas(c)
         /\ sPc' = sPc /\ sLen' = sLen /\ ePc' = ePc /\ eLen' = eLen
<1>1. UNCHANGED <<sPc, sLen, sClientFD, ePc, eLen, eClientFD>>
  BY DEF Undisturbed, sVars, eVars
<1>2. SelectHas(c)' = SelectHas(c)
  <2> SUFFICES ASSUME sPc \in {"header", "body", "drop"}
               PROVE  file'[sClientFD] = file[sClientFD]
    BY <1>1 DEF SelectHas
  <2> QED BY SelectHand DEF Undisturbed
<1>3. EPollHas(c)' = EPollHas(c)
  <2> SUFFICES ASSUME ePc \in {"header", "body", "drop"}
               PROVE  file'[eClientFD] = file[eClientFD]
    BY <1>1 DEF EPollHas
  <2> QED BY EPollHand DEF Undisturbed
<1> QED BY <1>1, <1>2, <1>3

\* Steps that leave the sockets alone: those of the main thread, and of threads
\* that open and close plain files where the servers bear it.
Calm ==
  /\ UNCHANGED <<linkVars, cpc, port, socket, conn, answer, dest, cut, sVars, eVars, interest>>
  /\ \A f \in Fds : file'[f] # file[f] =>
       file[f].kind \in {"free", "plain"} /\ file'[f].kind \in {"free", "plain"}
  /\ file' # file => EPollPort \notin running'
  /\ running \subseteq running'

LEMMA CalmStep ==
  ASSUME IInv, Calm, Types', WorldInv'
  PROVE  IInv'
<1> USE DEF IInv, Base, Calm
<1>1. Undisturbed
  <2>1. \A f \in Fds : file[f].kind \in {"srv", "listen"} => file'[f] = file[f] /\ f # socket
    BY SocketKind
  <2>2. RawSocket.kind = "raw"
    BY DEF RawSocket
  <2> QED BY <2>1, <2>2 DEF Undisturbed
<1>2. SelectInv' /\ EPollInv'
  BY <1>1, ServersGoOn
<1>3. socket # NoFd => file'[socket] = file[socket]
  <2>1. socket # NoFd => socket \in Fds /\ file[socket].kind \in {"raw", "cli"}
    BY SocketKind
  <2> QED BY <2>1
<1>4. MockInv'
  BY <1>3 DEF MockInv, linkVars
<1>5. NetInv'
  <2>1. \A f \in Fds : Owned(f)'
    BY DEF NetInv, Owned, Over, linkVars, sVars, eVars
  <2>2. \A f \in Fds : OnlyOnce(f)'
    BY DEF NetInv, OnlyOnce
  <2>3. \A p \in Ports : Waiting(p)'
    BY DEF NetInv, Waiting, linkVars
  <2>4. \A c \in Conns : Untold(c)'
    BY DEF NetInv, Untold, linkVars
  <2> QED BY <2>1, <2>2, <2>3, <2>4 DEF NetInv
<1>6. LowInv'
  <2> SUFFICES ASSUME EPollPort \in running', socket # NoFd \/ eClientFds # << >>
               PROVE  \E k \in Fds : Lowest(k)'
    BY DEF LowInv, eVars
  <2>1. EPollPort \in running
    BY DEF WorldInv, MockInv, EPollIdle
  <2>2. file' = file
    OBVIOUS
  <2> QED BY <2>1, <2>2 DEF LowInv, Lowest, Kept, eVars
<1>7. Base'
  BY <1>2, <1>4, <1>5, <1>6
<1>8. ASSUME NEW c \in Conns PROVE Talking(c)'
  <2>1. /\ SelectHas(c)' = SelectHas(c) /\ EPollHas(c)' = EPollHas(c)
        /\ sPc' = sPc /\ sLen' = sLen /\ ePc' = ePc /\ eLen' = eLen
    BY <1>1, <1>7, HandsKept
  <2> QED BY <2>1, TalksOn DEF linkVars
<1> QED BY <1>7, <1>8

LEMMA TypesStay ==
  ASSUME Types, NetTypeOK', MockTypeOK', UiTypes', UNCHANGED <<cut, sVars, eVars>>,
         interest' \in [Fds -> {"none", "level", "armed", "spent"}]
  PROVE  Types'
BY DEF Types, SelectTypes, EPollTypes, sVars, eVars

LEMMA TapStep ==
  ASSUME IInv, EPollPort \notin Disturbed, NEW p \in Ports, Tap(p)
  PROVE  IInv'
<1> USE EchoProcessAssumption DEF IInv, Base
<1>1. /\ UNCHANGED <<netVars, mockVars, cut, sVars, eVars, interest>>
      /\ running' = running \cup {p} /\ posted' = Append(posted, p)
      /\ taps' = taps + 1 /\ taps < MaxTaps
      /\ running \subseteq {p} \/ running \cup {p} \subseteq Disturbed
  BY DEF Tap
<1>2. posted' \in Seq(Ports)
  BY <1>1, AppendProperties DEF Types, UiTypes
<1>3. taps' \in 0 .. MaxTaps /\ running' \subseteq Ports
  BY <1>1 DEF Types, UiTypes
<1>4. Types'
  <2>1. UiTypes'
    BY <1>2, <1>3 DEF UiTypes
  <2>2. NetTypeOK' /\ MockTypeOK'
    BY <1>1 DEF netVars, mockVars, Types, NetTypeOK, MockTypeOK
  <2> QED BY <1>1, <2>1, <2>2, TypesStay DEF Types, EPollTypes
<1>5. WorldInv'
  BY <1>1 DEF WorldInv, SelectIdle, EPollIdle, sVars, eVars, Types, UiTypes
<1>6. Calm
  BY <1>1 DEF Calm, netVars, linkVars, mockVars
<1> QED BY <1>4, <1>5, <1>6, CalmStep

LEMMA PostedRunsStep ==
  ASSUME IInv, PostedRuns
  PROVE  IInv'
<1> USE DEF IInv, Base
<1>1. /\ posted # << >> /\ intents' = Append(intents, Head(posted)) /\ posted' = Tail(posted)
      /\ UNCHANGED <<netVars, cpc, port, socket, conn, answer, dest, outcome>>
      /\ UNCHANGED <<taps, running, cut, sVars, eVars, interest>>
  BY DEF PostedRuns, SendSocketMsg
<1>2. posted' \in Seq(Ports) /\ Head(posted) \in Ports
  BY <1>1, HeadTailProperties DEF Types, UiTypes
<1>3. intents' \in Seq(Ports)
  BY <1>1, <1>2, AppendProperties DEF Types, MockTypeOK
<1>4. Types'
  <2>1. NetTypeOK' /\ MockTypeOK' /\ UiTypes'
    BY <1>1, <1>2, <1>3 DEF netVars, Types, NetTypeOK, MockTypeOK, UiTypes
  <2> QED BY <1>1, <2>1, TypesStay DEF Types, EPollTypes
<1>5. WorldInv'
  BY <1>1 DEF WorldInv, SelectIdle, EPollIdle, sVars, eVars
<1>6. Calm
  BY <1>1 DEF Calm, netVars, linkVars
<1> QED BY <1>4, <1>5, <1>6, CalmStep

LEMMA OtherThreadsStep ==
  ASSUME IInv, EPollPort \notin Disturbed, OtherThreads
  PROVE  IInv'
<1> USE DEF IInv, Base
<1>1. /\ UNCHANGED <<linkVars, mockVars, uiVars, cut, sVars, eVars, interest>>
      /\ EPollPort \notin running
  BY DEF OtherThreads, ForeignOpen, ForeignClose
<1>2. PICK f \in Fds, x \in {Free, Plain} :
        file[f] \in {Free, Plain} /\ file' = [file EXCEPT ![f] = x]
  BY DEF OtherThreads, ForeignOpen, ForeignClose, LowestFree
<1>3. NetTypeOK'
  <2>1. x \in Files
    BY DEF Free, Plain, Files
  <2> QED BY <1>1, <1>2, <2>1 DEF Types, NetTypeOK, linkVars
<1>4. Types'
  <2>1. MockTypeOK' /\ UiTypes'
    BY <1>1 DEF mockVars, uiVars, Types, MockTypeOK, UiTypes
  <2> QED BY <1>1, <1>3, <2>1, TypesStay DEF Types, EPollTypes
<1>5. WorldInv'
  BY <1>1 DEF WorldInv, SelectIdle, EPollIdle, sVars, eVars, mockVars, uiVars
<1>6. \A g \in Fds : file'[g] # file[g] =>
        file[g].kind \in {"free", "plain"} /\ file'[g].kind \in {"free", "plain"}
  <2>1. \A y \in {Free, Plain} : y.kind \in {"free", "plain"}
    BY DEF Free, Plain
  <2> QED BY <1>2, <2>1 DEF Types, NetTypeOK
<1>7. Calm
  BY <1>1, <1>6 DEF Calm, mockVars, uiVars
<1> QED BY <1>4, <1>5, <1>7, CalmStep

LEMMA StutterStep == ASSUME IInv, UNCHANGED vars PROVE IInv'
<1> USE DEF vars, IInv, Base
<1>1. Types'
  BY DEF netVars, mockVars, uiVars, sVars, eVars, Types, NetTypeOK, MockTypeOK,
       SelectTypes, EPollTypes, UiTypes
<1>2. WorldInv'
  BY DEF WorldInv, SelectIdle, EPollIdle, sVars, eVars, mockVars, uiVars
<1>3. Calm
  BY DEF Calm, netVars, linkVars, mockVars, uiVars
<1> QED BY <1>1, <1>2, <1>3, CalmStep

-----------------------------------------------------------------------------
(* The client's thread. *)

\* The client changes the file of its own socket only, or takes a free number.
LEMMA ClientFrame ==
  ASSUME IInv, UNCHANGED <<uiVars, cut, sVars, eVars>>, ClosedOnesDropOut,
         NetTypeOK', MockTypeOK', MockInv', NetInv', LowInv',
         cpc # "idle" \/ intents # << >>,
         \A f \in Fds : file'[f] # file[f] => f = socket \/ file[f] = Free,
         socket' # socket => socket' = NoFd \/ file[socket'] = Free,
         \A c \in Conns : end[c]["srv"] = "open" => dest'[c] = dest[c]
  PROVE  /\ Base'
         /\ \A c \in Conns : SelectHas(c)' = SelectHas(c) /\ EPollHas(c)' = EPollHas(c)
         /\ sPc' = sPc /\ sLen' = sLen /\ ePc' = ePc /\ eLen' = eLen
<1>1. Base
  BY DEF IInv
<1>2. interest \in [Fds -> {"none", "level", "armed", "spent"}]
  BY <1>1 DEF Base, Types, EPollTypes
<1>3. \A f \in Fds : interest'[f] = interest[f] \/ (interest'[f] = "none" /\ file'[f] = Free)
  BY DEF ClosedOnesDropOut
<1>4. Undisturbed
  <2>1. RawSocket.kind = "raw" /\ Free.kind = "free" /\ RawSocket # Free
    BY DEF RawSocket, Free
  <2>2. \A f \in Fds : file[f].kind \in {"srv", "listen"} => f # socket
    BY <1>1, SocketKind
  <2>3. ASSUME NEW f \in Fds,
               file[f].kind \in {"srv", "listen"} \/ (file[f] = RawSocket /\ f # socket)
        PROVE  file'[f] = file[f] /\ f # socket'
    <3>1. file[f] # Free /\ f # socket /\ f # NoFd
      BY <1>1, <2>1, <2>2, <2>3, SocketKind
    <3> QED BY <3>1
  <2> QED BY <1>3, <2>3 DEF Undisturbed
<1>5. SelectInv' /\ EPollInv'
  BY <1>1, <1>4, ServersGoOn
<1>6. Types'
  <2>1. interest' \in [Fds -> {"none", "level", "armed", "spent"}]
    BY <1>2 DEF ClosedOnesDropOut
  <2>2. UiTypes'
    BY <1>1 DEF Base, Types, UiTypes, uiVars
  <2> QED BY <1>1, <2>1, <2>2, TypesStay DEF Base
<1>7. WorldInv'
  <2>1. WorldInv /\ running # {}
    BY <1>1 DEF Base, WorldInv
  <2>2. EPollIdle => EPollIdle'
    BY <1>3 DEF EPollIdle, eVars
  <2> QED BY <2>1, <2>2 DEF WorldInv, SelectIdle, sVars, uiVars
<1>8. Base'
  BY <1>5, <1>6, <1>7 DEF Base
<1>9. \A c \in Conns : SelectHas(c)' = SelectHas(c) /\ EPollHas(c)' = EPollHas(c)
  BY <1>1, <1>4, <1>8, HandsKept
<1> QED BY <1>8, <1>9 DEF sVars, eVars

\* A socket that is neither made nor closed stays where it was.
LEMMA LowKept ==
  ASSUME LowInv, socket' = socket, UNCHANGED <<running, eClientFds>>,
         \A f \in Fds : file'[f] # file[f] => f = socket, NoFd \notin Fds
  PROVE  LowInv'
<1> SUFFICES ASSUME EPollPort \in running, socket # NoFd \/ eClientFds # << >>
             PROVE  \E k \in Fds : Lowest(k)'
  BY DEF LowInv
<1>1. PICK k \in Fds : Lowest(k)
  BY DEF LowInv
<1>2. Lowest(k)'
  BY <1>1 DEF Lowest, Kept
<1> QED BY <1>2

\* Steps that only move the worker on.
LEMMA ClientMovesOn ==
  ASSUME IInv, UNCHANGED <<uiVars, cut, sVars, eVars>>, ClosedOnesDropOut,
         UNCHANGED <<netVars, socket, conn, answer, dest>>,
         MockTypeOK', MockInv',
         cpc # "idle" \/ intents # << >>, cpc' # "write"
  PROVE  IInv'
<1> USE DEF netVars
<1>1. NetTypeOK'
  BY DEF IInv, Base, Types, NetTypeOK
<1>2. NetInv'
  <2>1. \A f \in Fds : Owned(f)' /\ OnlyOnce(f)'
    BY DEF IInv, Base, NetInv, Owned, OnlyOnce, Over, sVars, eVars
  <2>2. \A p \in Ports : Waiting(p)'
    BY DEF IInv, Base, NetInv, Waiting
  <2>3. \A c \in Conns : Untold(c)'
    BY DEF IInv, Base, NetInv, Untold
  <2> QED BY <2>1, <2>2, <2>3 DEF NetInv
<1>3. LowInv'
  BY LowKept, SocketKind DEF IInv, Base, uiVars, eVars
<1>4. /\ Base'
      /\ \A c \in Conns : SelectHas(c)' = SelectHas(c) /\ EPollHas(c)' = EPollHas(c)
      /\ sPc' = sPc /\ sLen' = sLen /\ ePc' = ePc /\ eLen' = eLen
  BY <1>1, <1>2, <1>3, ClientFrame
<1>5. \A c \in Conns : Talking(c)'
  BY <1>4, TalksOn DEF IInv
<1> QED BY <1>4, <1>5 DEF IInv

LEMMA HandleIntentStep ==
  ASSUME IInv, ClientThread, HandleIntent
  PROVE  IInv'
<1>1. /\ UNCHANGED <<uiVars, cut, sVars, eVars>> /\ ClosedOnesDropOut
      /\ UNCHANGED <<netVars, socket, conn, answer, dest, outcome>>
      /\ cpc = "idle" /\ intents # << >> /\ cpc' = "socket"
      /\ port' = Head(intents) /\ intents' = Tail(intents)
  BY DEF ClientThread, HandleIntent
<1>2. port' \in Ports /\ intents' \in Seq(Ports)
  BY <1>1, HeadTailProperties DEF IInv, Base, Types, MockTypeOK
<1>3. MockTypeOK'
  BY <1>1, <1>2 DEF IInv, Base, Types, MockTypeOK
<1>4. MockInv'
  BY <1>1, <1>2 DEF IInv, Base, MockInv, netVars
<1> QED BY <1>1, <1>3, <1>4, ClientMovesOn

LEMMA FailingAtClose ==
  ASSUME IInv, Failing
  PROVE  conn # None /\ cpc # "idle" /\ end[conn]["srv"] = "closed"
<1>1. cpc \in {"write", "readInt", "readFully"} /\ Connected(socket) => PeerGone(socket)
  BY DEF Failing, Hopeless
<1>2. conn # None /\ file[socket] = End("cli", conn)
  BY <1>1 DEF IInv, Base, MockInv, Failing
<1>3. Connected(socket) /\ (PeerGone(socket) <=> end[conn]["srv"] = "closed")
  BY <1>2 DEF Connected, PeerGone, Peer, End, Ends
<1> QED BY <1>1, <1>2, <1>3 DEF Failing

LEMMA GivingUpStep ==
  ASSUME IInv, ClientThread, OpenSocketFails \/ ConnectFails \/ StreamFails
  PROVE  IInv'
<1>1. /\ UNCHANGED <<uiVars, cut, sVars, eVars>> /\ ClosedOnesDropOut
      /\ UNCHANGED <<netVars, intents, port, socket, conn, answer, dest>>
      /\ cpc' = "close" /\ cpc # "idle"
  BY DEF ClientThread, OpenSocketFails, ConnectFails, StreamFails, Failing
<1>2. conn # None => end[conn]["srv"] # "queued" /\ outcome' \in [Conns -> {"none", "answered", "failed"}]
  <2>1. CASE OpenSocketFails \/ ConnectFails
    BY <2>1 DEF OpenSocketFails, ConnectFails, IInv, Base, MockInv
  <2>2. CASE StreamFails
    BY <2>2, FailingAtClose DEF StreamFails, IInv, Base, Types, MockTypeOK
  <2> QED BY <2>1, <2>2
<1>3. conn = None => outcome' = outcome
  BY FailingAtClose DEF OpenSocketFails, ConnectFails, StreamFails
<1>4. MockTypeOK'
  BY <1>1, <1>2, <1>3 DEF IInv, Base, Types, MockTypeOK
<1>5. MockInv'
  BY <1>1, <1>2 DEF IInv, Base, MockInv, netVars
<1> QED BY <1>1, <1>4, <1>5, ClientMovesOn

LEMMA HasOpen ==
  ASSUME Base, NEW c \in Conns
  PROVE  /\ SelectHas(c) => end[c]["srv"] = "open"
         /\ EPollHas(c) => end[c]["srv"] = "open"
<1>1. \A f \in Fds : file[f] = End("srv", c) => end[c]["srv"] = "open"
  BY DEF Base, NetInv, Owned, End
<1> QED BY <1>1, SelectHand, EPollHand DEF SelectHas, EPollHas

\* Units pass between the client's socket and the connection it is an end of.
LEMMA ClientTransfers ==
  ASSUME IInv, UNCHANGED <<uiVars, cut, sVars, eVars>>, ClosedOnesDropOut,
         UNCHANGED <<file, backlog, end, size, intents, port, socket, conn, dest>>,
         NetTypeOK', MockTypeOK', MockInv',
         cpc # "idle", conn \in Conns, Untold(conn)',
         \A c \in Conns \ {conn} : inbox'[c] = inbox[c] /\ sent'[c] = sent[c]
  PROVE  /\ Base'
         /\ \A c \in Conns \ {conn} : Talking(c)'
         /\ SelectHas(conn)' = SelectHas(conn) /\ EPollHas(conn)' = EPollHas(conn)
         /\ sPc' = sPc /\ sLen' = sLen /\ ePc' = ePc /\ eLen' = eLen
<1>1. NetInv'
  <2>1. \A f \in Fds : Owned(f)' /\ OnlyOnce(f)'
    BY DEF IInv, Base, NetInv, Owned, OnlyOnce, Over, sVars, eVars
  <2>2. \A p \in Ports : Waiting(p)'
    BY DEF IInv, Base, NetInv, Waiting
  <2>3. \A c \in Conns : Untold(c)'
    BY DEF IInv, Base, NetInv, Untold
  <2> QED BY <2>1, <2>2, <2>3 DEF NetInv
<1>2. LowInv'
  BY LowKept, SocketKind DEF IInv, Base, uiVars, eVars
<1>3. /\ Base'
      /\ \A c \in Conns : SelectHas(c)' = SelectHas(c) /\ EPollHas(c)' = EPollHas(c)
      /\ sPc' = sPc /\ sLen' = sLen /\ ePc' = ePc /\ eLen' = eLen
  BY <1>1, <1>2, ClientFrame
<1>4. \A c \in Conns \ {conn} : Talking(c)'
  BY <1>3, TalksOn DEF IInv
<1> QED BY <1>3, <1>4

LEMMA WriteStep ==
  ASSUME IInv, ClientThread, Write
  PROVE  IInv'
<1>c. PICK c \in Conns : c = conn
  BY DEF ClientThread, Write, IInv, Base, Types, MockTypeOK, MockInv
<1>1. /\ UNCHANGED <<uiVars, cut, sVars, eVars>> /\ ClosedOnesDropOut
      /\ UNCHANGED <<file, backlog, end, size, intents, port, socket, conn, answer, dest, outcome>>
      /\ cpc = "write" /\ sent' = [sent EXCEPT ![c] = @ + 1]
      /\ cpc' = IF sent[c] + 1 = HeaderLen + size[c] THEN "readInt" ELSE "write"
      /\ NetTypeOK /\ MockTypeOK /\ MockInv
  BY <1>c DEF ClientThread, Write, IInv, Base, Types
<1>2. /\ c \in Conns /\ c # None /\ file[socket] = End("cli", c)
      /\ end[c]["cli"] = "open" /\ end[c]["srv"] # "none" /\ Talking(c)
  BY <1>c, <1>1 DEF MockInv, MockTypeOK, IInv
<1>3. file[socket].id = c /\ file[socket].kind = "cli" /\ Peer(file[socket].kind) = "srv"
  BY <1>2 DEF End, Peer
<1>4. inbox' = IF end[c]["srv"] = "closed" THEN inbox
               ELSE [inbox EXCEPT ![c]["srv"] = Append(@, sent[c] + 1)]
  BY <1>c, <1>3 DEF Write, PeerGone
<1>5. /\ HeaderLen \in Nat /\ size[c] \in Nat /\ sent[c] \in Nat
      /\ sent'[c] = sent[c] + 1 /\ sent' \in [Conns -> Nat]
      /\ \A d \in Conns \ {c} : sent'[d] = sent[d]
  <2>1. HeaderLen \in Nat /\ size[c] \in Nat /\ sent[c] \in Nat
    BY <1>1, <1>2, SocketsAssumption DEF NetTypeOK
  <2> QED BY <1>1, <1>2, <2>1 DEF NetTypeOK
<1>6. sent[c] < HeaderLen + size[c]
  BY <1>c, <1>1, <1>2 DEF Talking
<1>7. /\ \A d \in Conns : inbox'[d]["cli"] = inbox[d]["cli"]
      /\ \A d \in Conns \ {c} : inbox'[d] = inbox[d]
      /\ inbox' \in [Conns -> [Ends -> Seq(Nat)]]
      /\ end[c]["srv"] # "closed" => inbox'[c]["srv"] = Append(inbox[c]["srv"], sent[c] + 1)
  <2>1. inbox[c]["srv"] \in Seq(Nat) /\ sent[c] + 1 \in Nat /\ "srv" \in Ends /\ "cli" \in Ends
    BY <1>1, <1>2, <1>5 DEF NetTypeOK, Ends
  <2>2. Append(inbox[c]["srv"], sent[c] + 1) \in Seq(Nat)
    BY <2>1, AppendProperties
  <2> QED BY <1>1, <1>2, <1>4, <2>1, <2>2 DEF NetTypeOK
<1>8. NetTypeOK' /\ MockTypeOK'
  BY <1>1, <1>5, <1>7 DEF NetTypeOK, MockTypeOK
<1>9. MockInv'
  BY <1>c, <1>1, <1>2 DEF MockInv
<1>10. Untold(c)'
  BY <1>c, <1>1, <1>2, <1>7 DEF IInv, Base, NetInv, Untold
<1>11. /\ Base' /\ \A d \in Conns \ {c} : Talking(d)'
       /\ SelectHas(c)' = SelectHas(c) /\ EPollHas(c)' = EPollHas(c)
       /\ sPc' = sPc /\ sLen' = sLen /\ ePc' = ePc /\ eLen' = eLen
  BY <1>1, <1>2, <1>5, <1>7, <1>8, <1>9, <1>10, <1>c, ClientTransfers
<1>12. Talking(c)'
  <2>1. \A n : Echoed(c, n) => Echoed(c, n)'
    BY <1>1, <1>2, <1>7 DEF Echoed
  <2>2. end[c]["srv"] # "closed" /\ Unanswered(c) => Unanswered(c)'
    <3>1. 0 \in Nat
      OBVIOUS
    <3>2. Piece(inbox[c]["srv"], 0, sent[c]) => Piece(Append(inbox[c]["srv"], sent[c] + 1), 0, sent[c] + 1)
      BY <1>5, <3>1, AppendPiece
    <3> QED BY <1>1, <1>2, <1>5, <1>7, <3>2 DEF Unanswered
  <2>3. end[c]["srv"] # "closed" /\ HeaderEchoed(c) => HeaderEchoed(c)'
    <3>1. Piece(inbox[c]["srv"], HeaderLen, sent[c]) =>
            Piece(Append(inbox[c]["srv"], sent[c] + 1), HeaderLen, sent[c] + 1)
      BY <1>5, AppendPiece
    <3> QED BY <1>5, <1>7, <2>1, <3>1 DEF HeaderEchoed
  <2>4. SelectHas(c) \/ EPollHas(c) => end[c]["srv"] # "closed"
    BY <1>2, HasOpen DEF IInv
  <2>5. sent'[c] <= HeaderLen + size[c] /\ (cpc' = "write" => sent'[c] < HeaderLen + size[c])
    BY <1>1, <1>5, <1>6
  <2>6. end' = end /\ size' = size /\ end[c]["srv"] # "none"
    BY <1>1, <1>2
  <2> QED BY <1>2, <1>11, <2>1, <2>2, <2>3, <2>4, <2>5, <2>6 DEF Talking
<1> QED BY <1>11, <1>12 DEF IInv

LEMMA TakeStep ==
  ASSUME IInv, ClientThread, NEW n \in Nat, Take(n), Arrived(socket, n),
         \/ cpc = "readInt" /\ n = HeaderLen /\ cpc' = "readFully"
         \/ cpc = "readFully" /\ cpc' = "close",
         outcome' \in [Conns -> {"none", "answered", "failed"}]
  PROVE  IInv'
<1>c. PICK c \in Conns : c = conn
  BY DEF IInv, Base, Types, MockTypeOK, MockInv
<1>1. /\ UNCHANGED <<uiVars, cut, sVars, eVars>> /\ ClosedOnesDropOut
      /\ UNCHANGED <<file, backlog, end, size, sent, intents, port, socket, conn, dest>>
      /\ NetTypeOK /\ MockTypeOK /\ MockInv /\ Untold(c) /\ Talking(c)
  BY <1>c DEF ClientThread, Take, IInv, Base, Types, NetInv
<1>2. /\ c # None /\ file[socket] = End("cli", c)
      /\ end[c]["cli"] = "open" /\ end[c]["srv"] # "none"
  BY <1>c, <1>1 DEF MockInv
<1>3. file[socket].id = c /\ file[socket].kind = "cli" /\ "cli" \in Ends /\ "srv" \in Ends
  BY <1>2 DEF End, Ends
<1>4. /\ answer' = answer \o SubSeq(inbox[c]["cli"], 1, n)
      /\ inbox' = [inbox EXCEPT ![c]["cli"] = SubSeq(@, n + 1, Len(@))]
      /\ n <= Len(inbox[c]["cli"])
  BY <1>3 DEF Take, FirstUnits, Inbox, Arrived
<1>5. /\ HeaderLen \in Nat \ {0} /\ size[c] \in Nat
      /\ answer \in Seq(Nat) /\ Len(answer) \in Nat
      /\ inbox[c]["cli"] \in Seq(Nat) /\ Len(inbox[c]["cli"]) \in Nat
  <2>1. size[c] \in Nat
    BY <1>1, SocketsAssumption DEF NetTypeOK
  <2>2. inbox[c]["cli"] \in Seq(Nat)
    BY <1>1, <1>3 DEF NetTypeOK
  <2>3. answer \in Seq(Nat)
    BY <1>1 DEF MockTypeOK
  <2> QED BY <2>1, <2>2, <2>3, SocketsAssumption, LenProperties
<1>6. PICK k \in 0 .. HeaderLen + size[c] : Echoed(c, k)
  BY <1>1 DEF Talking
<1>7. ASSUME NEW m \in Nat, Echoed(c, m)
      PROVE  /\ Len(answer') = Len(answer) + n /\ Piece(answer', 0, Len(answer'))
             /\ Piece(inbox'[c]["cli"], Len(answer'), m)
  <2>1. Piece(answer, 0, Len(answer)) /\ Piece(inbox[c]["cli"], Len(answer), m)
    BY <1>c, <1>7 DEF Echoed
  <2>2. inbox'[c]["cli"] = SubSeq(inbox[c]["cli"], n + 1, Len(inbox[c]["cli"]))
    BY <1>1, <1>3, <1>4 DEF NetTypeOK
  <2>3. LET s == inbox[c]["cli"]
            b == answer \o SubSeq(s, 1, n)
        IN  /\ Len(b) = Len(answer) + n /\ Piece(b, 0, Len(b))
            /\ Piece(SubSeq(s, n + 1, Len(s)), Len(b), m)
    <3>1. n <= Len(inbox[c]["cli"])
      BY <1>4
    <3> QED BY <2>1, <3>1, TakePiece
  <2>4. answer' = answer \o SubSeq(inbox[c]["cli"], 1, n)
    BY <1>4
  <2> QED BY <2>2, <2>3, <2>4
<1>8. k \in Nat
  BY <1>5
<1>9. answer' \in Seq(Nat) /\ inbox'[c]["cli"] \in Seq(Nat) /\ Len(answer') = Len(answer) + n
  BY <1>6, <1>7, <1>8 DEF Piece
<1>10. /\ \A d \in Conns : inbox'[d]["srv"] = inbox[d]["srv"]
       /\ \A d \in Conns \ {c} : inbox'[d] = inbox[d]
       /\ inbox' \in [Conns -> [Ends -> Seq(Nat)]]
  <2>1. SubSeq(inbox[c]["cli"], n + 1, Len(inbox[c]["cli"])) \in Seq(Nat)
    BY <1>1, <1>3, <1>4, <1>9 DEF NetTypeOK
  <2> QED BY <1>1, <1>3, <1>4, <2>1 DEF NetTypeOK
<1>11. end[c]["srv"] # "queued"
  <2>1. CASE cpc = "readInt"
    <3>1. Len(inbox[c]["cli"]) # 0
      BY <1>4, <1>5, <2>1
    <3> QED BY <1>1, <3>1, EmptySeq DEF Untold
  <2>2. CASE cpc = "readFully"
    BY <1>c, <1>1, <2>2 DEF Untold, MockInv
  <2> QED BY <2>1, <2>2
<1>12. ~ Unanswered(c)
  <2>1. CASE cpc = "readInt"
    <3>1. Len(inbox[c]["cli"]) # 0
      BY <1>4, <1>5, <2>1
    <3> QED BY <3>1, EmptySeq DEF Unanswered
  <2>2. CASE cpc = "readFully"
    BY <1>c, <1>1, <2>2 DEF Unanswered, MockInv
  <2> QED BY <2>1, <2>2
<1>13. NetTypeOK' /\ MockTypeOK'
  BY <1>1, <1>9, <1>10 DEF NetTypeOK, MockTypeOK
<1>14. cpc' = "readFully" => answer' # << >>
  <2>1. cpc' = "readFully" => Len(answer') # 0
    BY <1>5, <1>9
  <2> QED BY <2>1, EmptySeq
<1>15. MockInv'
  BY <1>c, <1>1, <1>2, <1>11, <1>14 DEF MockInv
<1>16. Untold(c)'
  BY <1>1, <1>2, <1>11 DEF Untold
<1>17. /\ Base' /\ \A d \in Conns \ {c} : Talking(d)'
       /\ SelectHas(c)' = SelectHas(c) /\ EPollHas(c)' = EPollHas(c)
       /\ sPc' = sPc /\ sLen' = sLen /\ ePc' = ePc /\ eLen' = eLen
  <2>1. cpc # "idle"
    OBVIOUS
  <2> QED BY <1>1, <1>10, <1>13, <1>15, <1>16, <1>c, <2>1, ClientTransfers
<1>18. Talking(c)'
  <2>1. \A m \in Nat : Echoed(c, m) => Echoed(c, m)'
    BY <1>c, <1>1, <1>7 DEF Echoed
  <2>2. HeaderEchoed(c) => HeaderEchoed(c)'
    BY <1>1, <1>5, <1>10, <2>1 DEF HeaderEchoed
  <2>3. \E m \in 0 .. HeaderLen + size[c] : Echoed(c, m)'
    BY <1>6, <1>8, <2>1
  <2> QED BY <1>1, <1>2, <1>12, <1>17, <2>2, <2>3 DEF Talking
<1> QED BY <1>17, <1>18 DEF IInv

LEMMA ReadStep ==
  ASSUME IInv, ClientThread, ReadInt \/ ReadFully
  PROVE  IInv'
<1>1. CASE ReadInt
  <2>1. HeaderLen \in Nat /\ outcome' \in [Conns -> {"none", "answered", "failed"}]
    BY <1>1, SocketsAssumption DEF ReadInt, IInv, Base, Types, MockTypeOK
  <2> QED BY <1>1, <2>1, TakeStep DEF ReadInt
<1>2. CASE ReadFully
  <2>1. conn \in Conns
    BY <1>2 DEF ReadFully, IInv, Base, Types, MockTypeOK, MockInv
  <2>2. size[conn] \in Nat /\ outcome' \in [Conns -> {"none", "answered", "failed"}]
    BY <1>2, <2>1, SocketsAssumption DEF ReadFully, IInv, Base, Types, NetTypeOK, MockTypeOK
  <2> QED BY <1>2, <2>2, TakeStep DEF ReadFully
<1> QED BY <1>1, <1>2

LEMMA OpenSocketStep ==
  ASSUME IInv, ClientThread, OpenSocket
  PROVE  IInv'
<1>1. /\ UNCHANGED <<uiVars, cut, sVars, eVars>> /\ ClosedOnesDropOut
      /\ UNCHANGED <<linkVars, intents, port, conn, answer, dest, outcome>>
      /\ cpc = "socket" /\ cpc' = "connect"
      /\ NetTypeOK /\ MockTypeOK /\ MockInv /\ NetInv /\ WorldInv /\ LowInv
  BY DEF ClientThread, OpenSocket, IInv, Base, Types
<1>2. PICK f \in Fds : LowestFree(f) /\ file' = [file EXCEPT ![f] = RawSocket] /\ socket' = f
  BY DEF OpenSocket
<1>3. /\ file'[f] = RawSocket /\ file[f] = Free
      /\ \A g \in Fds \ {f} : file'[g] = file[g]
      /\ socket = NoFd /\ conn = None /\ NoFd \notin Fds /\ socket' # NoFd
  BY <1>1, <1>2 DEF NetTypeOK, LowestFree, MockInv, NoFd, Fds
<1>4. NetTypeOK' /\ MockTypeOK'
  <2>1. RawSocket \in Files
    BY DEF RawSocket, Files
  <2> QED BY <1>1, <1>2, <2>1 DEF NetTypeOK, MockTypeOK, linkVars
<1>5. MockInv'
  BY <1>1, <1>2, <1>3 DEF MockInv
<1>6. RawSocket.kind = "raw" /\ Free.kind = "free"
  BY DEF RawSocket, Free
<1>7. NetInv'
  <2>1. ASSUME NEW g \in Fds PROVE Owned(g)' /\ OnlyOnce(g)'
    <3>1. CASE g = f
      BY <1>2, <1>3, <1>6, <3>1 DEF Owned, OnlyOnce
    <3>2. CASE g # f
      <4>1. file'[g] = file[g] /\ Owned(g) /\ OnlyOnce(g) /\ g # socket
        BY <1>1, <1>3, <3>2 DEF NetInv
      <4>2. file[g].kind = "srv" => \A h \in Fds : file'[h] = file'[g] => file[h] = file[g]
        BY <1>3, <1>6, <4>1
      <4> QED BY <1>1, <4>1, <4>2 DEF Owned, OnlyOnce, Over, linkVars, sVars, eVars
    <3> QED BY <3>1, <3>2
  <2>2. \A p \in Ports : Waiting(p)'
    BY <1>1 DEF NetInv, Waiting, linkVars
  <2>3. \A c \in Conns : Untold(c)'
    BY <1>1 DEF NetInv, Untold, linkVars
  <2> QED BY <2>1, <2>2, <2>3 DEF NetInv
<1>8. LowInv'
  <2> SUFFICES ASSUME EPollPort \in running PROVE \E k \in Fds : Lowest(k)'
    BY <1>1 DEF LowInv, uiVars
  <2>1. CASE eClientFds = << >>
    <3>1. sClientFds = << >> /\ ToSet(<< >>) = {}
      BY <1>1, EchoProcessAssumption DEF WorldInv, SelectIdle, ToSet
    <3>2. ASSUME NEW g \in Fds, g < f PROVE Kept(g)'
      <4>1. file[g] # Free /\ file[g].kind \notin {"srv", "cli"} /\ g # f
        BY <1>1, <1>2, <1>3, <2>1, <3>1, <3>2 DEF LowestFree, NetInv, Owned, Fds
      <4> QED BY <1>2, <1>3, <4>1 DEF Kept
    <3> QED BY <1>1, <1>2, <2>1, <3>1, <3>2 DEF Lowest, eVars
  <2>2. CASE eClientFds # << >>
    <3>1. PICK k \in Fds : Lowest(k)
      BY <1>1, <2>2 DEF LowInv
    <3>2. k = f
      BY <1>2, <1>3, <1>6, <3>1 DEF Lowest, Kept, LowestFree, Fds
    <3>3. \A g \in Fds : g < f => Kept(g)'
      <4>1. \A g \in Fds : g < f => g # f
        BY DEF Fds
      <4> QED BY <1>2, <1>3, <3>1, <3>2, <4>1 DEF Lowest, Kept
    <3> QED BY <1>1, <1>2, <3>1, <3>2, <3>3 DEF Lowest, eVars
  <2> QED BY <2>1, <2>2
<1>9. /\ Base'
      /\ \A c \in Conns : SelectHas(c)' = SelectHas(c) /\ EPollHas(c)' = EPollHas(c)
      /\ sPc' = sPc /\ sLen' = sLen /\ ePc' = ePc /\ eLen' = eLen
  BY <1>1, <1>2, <1>3, <1>4, <1>5, <1>7, <1>8, ClientFrame DEF linkVars
<1>10. \A c \in Conns : Talking(c)'
  BY <1>1, <1>9, TalksOn DEF IInv, linkVars
<1> QED BY <1>9, <1>10 DEF IInv

LEMMA SocketConnectStep ==
  ASSUME IInv, ClientThread, SocketConnect
  PROVE  IInv'
<1>1. /\ UNCHANGED <<uiVars, cut, sVars, eVars>> /\ ClosedOnesDropOut
      /\ UNCHANGED <<inbox, size, sent, intents, port, socket, answer, outcome>>
      /\ cpc = "connect" /\ cpc' = "write" /\ file[socket] = RawSocket
      /\ NetTypeOK /\ MockTypeOK /\ MockInv /\ NetInv /\ LowInv
  BY DEF ClientThread, SocketConnect, IInv, Base, Types
<1>2. PICK c \in Conns :
        /\ end[c]["srv"] = "none"
        /\ file' = [file EXCEPT ![socket] = End("cli", c)]
        /\ end' = [end EXCEPT ![c] = [e \in Ends |-> IF e = "srv" THEN "queued" ELSE "open"]]
        /\ backlog' = [backlog EXCEPT ![port] = Append(@, c)]
        /\ conn' = c
        /\ dest' = [dest EXCEPT ![c] = port]
  BY DEF SocketConnect, NextConn, Unused
<1>3. /\ socket \in Fds /\ conn = None /\ answer = << >> /\ port \in Ports /\ c # None
      /\ NoFd \notin Fds /\ socket # NoFd
  BY <1>1, SocketKind, SocketsAssumption DEF MockInv, IInv
<1>4. /\ file'[socket] = End("cli", c) /\ \A g \in Fds \ {socket} : file'[g] = file[g]
      /\ end'[c]["srv"] = "queued" /\ end'[c]["cli"] = "open"
      /\ \A d \in Conns \ {c} : end'[d] = end[d] /\ dest'[d] = dest[d]
      /\ dest'[c] = port
  BY <1>1, <1>2, <1>3 DEF NetTypeOK, MockTypeOK, Ends
<1>5. backlog'[port] = <<c>> /\ \A p \in Ports \ {port} : backlog'[p] = << >>
  <2>1. \A p \in Ports : backlog[p] = << >>
    BY <1>1, <1>3 DEF NetInv, Waiting
  <2>2. Append(<< >>, c) = <<c>>
    OBVIOUS
  <2> QED BY <1>1, <1>2, <1>3, <2>1, <2>2 DEF NetTypeOK
<1>6. NetTypeOK' /\ MockTypeOK'
  <2>1. End("cli", c) \in Files
    BY DEF End, Files
  <2>2. <<c>> \in Seq(Conns) /\ << >> \in Seq(Conns)
    OBVIOUS
  <2>3. backlog' \in [Ports -> Seq(Conns)]
    BY <1>1, <1>2, <1>3, <1>5, <2>2 DEF NetTypeOK
  <2>4. end' \in [Conns -> [Ends -> {"none", "queued", "open", "closed"}]]
    BY <1>1, <1>2 DEF NetTypeOK
  <2>5. file' \in [Fds -> Files]
    BY <1>1, <1>2, <2>1 DEF NetTypeOK
  <2>6. dest' \in [Conns -> Ports \cup {None}]
    BY <1>1, <1>2, <1>3 DEF MockTypeOK
  <2> QED BY <1>1, <1>2, <2>3, <2>4, <2>5, <2>6 DEF NetTypeOK, MockTypeOK
<1>7. MockInv'
  BY <1>1, <1>2, <1>3, <1>4 DEF MockInv
<1>8. RawSocket.kind = "raw" /\ End("cli", c).kind = "cli"
  BY DEF RawSocket, End
<1>9. NetInv'
  <2>1. ASSUME NEW g \in Fds PROVE Owned(g)' /\ OnlyOnce(g)'
    <3>1. CASE g = socket
      BY <1>1, <1>4, <1>8, <3>1 DEF Owned, OnlyOnce
    <3>2. CASE g # socket
      <4>1. file'[g] = file[g] /\ Owned(g) /\ OnlyOnce(g)
        BY <1>1, <1>4, <3>2 DEF NetInv
      <4>2. file[g].kind = "srv" =>
              /\ file[g].id \in Conns \ {c}
              /\ \A h \in Fds : file'[h] = file'[g] => file[h] = file[g]
        BY <1>2, <1>4, <1>8, <4>1 DEF Owned
      <4> QED BY <1>1, <1>4, <4>1, <4>2 DEF Owned, OnlyOnce, Over, sVars, eVars
    <3> QED BY <3>1, <3>2
  <2>2. \A p \in Ports : Waiting(p)'
    BY <1>2, <1>3, <1>4, <1>5 DEF Waiting
  <2>3. \A d \in Conns : Untold(d)'
    BY <1>1, <1>2, <1>3, <1>4 DEF NetInv, Untold
  <2> QED BY <2>1, <2>2, <2>3 DEF NetInv
<1>10. LowInv'
  BY <1>1, <1>3, <1>4, LowKept DEF uiVars, eVars
<1>11. /\ Base'
       /\ \A d \in Conns : SelectHas(d)' = SelectHas(d) /\ EPollHas(d)' = EPollHas(d)
       /\ sPc' = sPc /\ sLen' = sLen /\ ePc' = ePc /\ eLen' = eLen
  <2>1. \A d \in Conns : end[d]["srv"] = "open" => dest'[d] = dest[d]
    BY <1>2, <1>4
  <2> QED BY <1>1, <1>4, <1>6, <1>7, <1>9, <1>10, <2>1, ClientFrame
<1>12. \A d \in Conns \ {c} : Talking(d)'
  BY <1>1, <1>2, <1>4, <1>11, TalksOn DEF IInv
<1>13. Talking(c)'
  <2>1. Talking(c) /\ ~ SelectHas(c) /\ ~ EPollHas(c)
    BY <1>2, HasOpen DEF IInv
  <2>2. Unanswered(c) /\ sent[c] = 0
    BY <1>2, <2>1 DEF Talking
  <2>3. Unanswered(c)'
    BY <1>1, <1>3, <2>2 DEF Unanswered
  <2>4. HeaderLen + size[c] \in Nat /\ 0 < HeaderLen + size[c] /\ 0 \in 0 .. HeaderLen + size[c]
    <3>1. HeaderLen \in Nat \ {0} /\ size[c] \in Nat
      BY <1>1, SocketsAssumption DEF NetTypeOK
    <3> QED BY <3>1
  <2>5. Echoed(c, 0)'
    <3>1. Len(<< >>) = 0 /\ Piece(<< >>, 0, 0)
      BY EmptyPiece
    <3> QED BY <1>1, <1>3, <2>2, <3>1 DEF Echoed, Unanswered
  <2> QED BY <1>1, <1>4, <1>11, <2>1, <2>2, <2>3, <2>4, <2>5 DEF Talking
<1> QED BY <1>11, <1>12, <1>13 DEF IInv

LEMMA CloseSocketStep ==
  ASSUME IInv, ClientThread, CloseSocket
  PROVE  IInv'
<1>1. /\ UNCHANGED <<uiVars, cut, sVars, eVars>> /\ ClosedOnesDropOut
      /\ UNCHANGED <<intents, dest, outcome>>
      /\ cpc = "close" /\ cpc' = "idle" /\ port' = None
      /\ socket' = NoFd /\ conn' = None /\ answer' = << >>
      /\ NetTypeOK /\ MockTypeOK /\ MockInv /\ NetInv /\ LowInv
  BY DEF ClientThread, CloseSocket, IInv, Base, Types
<1>2. \A p \in Ports : backlog[p] = << >>
  BY <1>1 DEF MockInv, NetInv, Waiting
<1>3. /\ NoFd \notin Fds
      /\ socket # NoFd => socket \in Fds
      /\ \A c \in Conns : c # None
  BY SocketKind, SocketsAssumption DEF IInv
<1>4. /\ NetTypeOK' /\ UNCHANGED <<backlog, inbox, size, sent>>
      /\ \A g \in Fds \ {socket} : file'[g] = file[g]
      /\ socket # NoFd => file'[socket] = Free
      /\ \A c \in Conns : end'[c]["srv"] = end[c]["srv"]
  <2>1. CASE socket = NoFd
    <3>1. UNCHANGED netVars
      BY <2>1 DEF CloseSocket, CloseSocketFd
    <3> QED BY <1>1, <2>1, <3>1 DEF netVars, NetTypeOK
  <2>2. CASE socket # NoFd
    <3>1. Close(socket) /\ socket \in Fds /\ "srv" \in Ends /\ "cli" \in Ends
      BY <1>3, <2>2 DEF CloseSocket, CloseSocketFd, Ends
    <3>2. backlog' = backlog /\ \A c \in Conns : end'[c]["srv"] = end[c]["srv"]
      <4>1. CASE conn = None
        BY <1>1, <2>2, <3>1, <4>1, CloseRaw DEF MockInv
      <4>2. CASE conn # None
        <5>1. conn \in Conns /\ file[socket] = End("cli", conn)
          BY <1>1, <4>2 DEF MockInv, MockTypeOK
        <5> QED BY <1>1, <3>1, <5>1, CloseEnd
      <4> QED BY <4>1, <4>2
    <3> QED BY <1>1, <2>2, <3>1, <3>2, CloseType, CloseFile
  <2> QED BY <2>1, <2>2
<1>5. MockTypeOK' /\ MockInv'
  BY <1>1, EmptySeq DEF MockTypeOK, MockInv
<1>6. NetInv'
  <2>1. ASSUME NEW g \in Fds PROVE Owned(g)' /\ OnlyOnce(g)'
    <3>1. CASE g = socket
      BY <1>3, <1>4, <3>1 DEF Owned, OnlyOnce, Free
    <3>2. CASE g # socket
      <4>1. file'[g] = file[g] /\ Owned(g) /\ OnlyOnce(g)
        BY <1>1, <1>4, <3>2 DEF NetInv
      <4>2. file[g].kind = "srv" => \A h \in Fds : file'[h] = file'[g] => file[h] = file[g]
        BY <1>3, <1>4, <4>1 DEF Free
      <4> QED BY <1>1, <1>4, <3>2, <4>1, <4>2 DEF Owned, OnlyOnce, Over, sVars, eVars
    <3> QED BY <3>1, <3>2
  <2>2. \A p \in Ports : Waiting(p)'
    BY <1>2, <1>4 DEF Waiting
  <2>3. \A c \in Conns : Untold(c)'
    BY <1>1, <1>3, <1>4 DEF NetInv, Untold
  <2> QED BY <2>1, <2>2, <2>3 DEF NetInv
<1>7. LowInv'
  <2> SUFFICES ASSUME EPollPort \in running, eClientFds # << >>
               PROVE  \E k \in Fds : Lowest(k)'
    BY <1>1 DEF LowInv, uiVars, eVars
  <2>1. PICK k \in Fds : Lowest(k)
    BY <1>1 DEF LowInv
  <2>2. \A g \in Fds : g < k => Kept(g)'
    BY <1>1, <1>3, <1>4, <2>1 DEF Lowest, Kept
  <2>3. file'[k] = Free
    BY <1>3, <1>4, <2>1 DEF Lowest
  <2> QED BY <1>1, <2>1, <2>2, <2>3 DEF Lowest, eVars
<1>8. /\ Base'
      /\ \A c \in Conns : SelectHas(c)' = SelectHas(c) /\ EPollHas(c)' = EPollHas(c)
      /\ sPc' = sPc /\ sLen' = sLen /\ ePc' = ePc /\ eLen' = eLen
  BY <1>1, <1>4, <1>5, <1>6, <1>7, ClientFrame
<1>9. \A c \in Conns : Talking(c)'
  BY <1>1, <1>3, <1>4, <1>8, TalksOn DEF IInv
<1> QED BY <1>8, <1>9 DEF IInv

LEMMA ClientStep ==
  ASSUME IInv, ClientThread
  PROVE  IInv'
BY HandleIntentStep, OpenSocketStep, SocketConnectStep, WriteStep, ReadStep,
   GivingUpStep, CloseSocketStep DEF ClientThread, Worker

-----------------------------------------------------------------------------
(* What a server's operations do, whichever server it is. *)

\* socket() and epoll_create().
LEMMA FreshNet ==
  ASSUME Base, NEW f \in Fds, NEW x \in {RawSocket, EpollFile},
         file[f] = Free, file' = [file EXCEPT ![f] = x],
         UNCHANGED <<linkVars, mockVars, sClientFds, eClientFds>>,
         x = RawSocket => f \in {sServerFd', eServerFd'},
         {sServerFd, eServerFd} \ {NoFd} \subseteq {sServerFd', eServerFd'}, Over => Over'
  PROVE  /\ NetTypeOK' /\ NetInv'
         /\ file'[f] = x /\ \A g \in Fds \ {f} : file'[g] = file[g]
         /\ f # socket
<1> USE DEF Base, Types
<1>1. file'[f] = x /\ \A g \in Fds \ {f} : file'[g] = file[g]
  BY DEF NetTypeOK
<1>2. f # socket
  BY SocketKind DEF Free
<1>3. x.kind \in {"raw", "epoll"} /\ (x.kind = "raw" => x = RawSocket) /\ x \in Files /\ NoFd \notin Fds
  BY DEF RawSocket, EpollFile, Files, NoFd, Fds
<1>4. NetTypeOK'
  BY <1>3 DEF NetTypeOK, linkVars
<1>5. ASSUME NEW g \in Fds PROVE Owned(g)' /\ OnlyOnce(g)'
  <2>1. CASE g = f
    BY <1>1, <1>3, <2>1 DEF Owned, OnlyOnce
  <2>2. CASE g # f
    <3>1. file'[g] = file[g] /\ Owned(g) /\ OnlyOnce(g) /\ g # NoFd
      BY <1>1, <1>3, <2>2 DEF NetInv
    <3>2. file[g].kind = "srv" => \A h \in Fds : file'[h] = file'[g] => file[h] = file[g]
      BY <1>1, <1>3, <3>1
    <3> QED BY <3>1, <3>2 DEF Owned, OnlyOnce, linkVars, mockVars
  <2> QED BY <2>1, <2>2
<1>6. \A p \in Ports : Waiting(p)'
  BY DEF NetInv, Waiting, linkVars, mockVars
<1>7. \A c \in Conns : Untold(c)'
  BY DEF NetInv, Untold, linkVars, mockVars
<1> QED BY <1>1, <1>2, <1>4, <1>5, <1>6, <1>7 DEF NetInv

\* bind() and listen().
LEMMA BoundNet ==
  ASSUME Base, NEW f \in Fds, NEW p \in Ports,
         file[f] = RawSocket, f # socket, file' = [file EXCEPT ![f] = Listener(p)],
         UNCHANGED <<linkVars, mockVars, sClientFds, eClientFds, sServerFd, eServerFd>>,
         Over => Over'
  PROVE  /\ NetTypeOK' /\ NetInv'
         /\ file'[f] = Listener(p) /\ \A g \in Fds \ {f} : file'[g] = file[g]
<1> USE DEF Base, Types
<1>1. file'[f] = Listener(p) /\ \A g \in Fds \ {f} : file'[g] = file[g]
  BY DEF NetTypeOK
<1>2. Listener(p).kind = "listen" /\ Listener(p) \in Files /\ RawSocket.kind = "raw"
  BY DEF Listener, RawSocket, Files
<1>3. NetTypeOK'
  BY <1>2 DEF NetTypeOK, linkVars
<1>4. ASSUME NEW g \in Fds PROVE Owned(g)' /\ OnlyOnce(g)'
  <2>1. Owned(g) /\ OnlyOnce(g)
    BY DEF NetInv
  <2>2. CASE g = f
    BY <1>1, <1>2, <2>1, <2>2 DEF Owned, OnlyOnce
  <2>3. CASE g # f
    <3>1. file[g].kind = "srv" => \A h \in Fds : file'[h] = file'[g] => file[h] = file[g]
      BY <1>1, <1>2, <2>3
    <3> QED BY <1>1, <2>1, <2>3, <3>1 DEF Owned, OnlyOnce, linkVars, mockVars
  <2> QED BY <2>2, <2>3
<1>5. \A q \in Ports : Waiting(q)'
  BY DEF NetInv, Waiting, linkVars, mockVars
<1>6. \A c \in Conns : Untold(c)'
  BY DEF NetInv, Untold, linkVars, mockVars
<1> QED BY <1>1, <1>3, <1>4, <1>5, <1>6 DEF NetInv

\* accept(): the only connection that can wait is the one in hand, so that the
\* client has its socket open.
LEMMA AcceptedNet ==
  ASSUME Base, NEW f \in Fds, NEW p \in Ports, backlog[p] # << >>,
         file[f] = Free, file' = [file EXCEPT ![f] = End("srv", Head(backlog[p]))],
         end' = [end EXCEPT ![Head(backlog[p])]["srv"] = "open"],
         backlog' = [backlog EXCEPT ![p] = Tail(@)],
         UNCHANGED <<inbox, size, sent, mockVars, sServerFd, eServerFd>>, Over => Over',
         \/ /\ p = SelectPort /\ eClientFds' = eClientFds
            /\ ToSet(sClientFds') = ToSet(sClientFds) \cup {f}
         \/ /\ p = EPollPort /\ sClientFds' = sClientFds
            /\ ToSet(eClientFds') = ToSet(eClientFds) \cup {f}
  PROVE  /\ NetTypeOK' /\ NetInv' /\ socket # NoFd /\ f # socket
         /\ \A g \in Fds \ {f} : file'[g] = file[g]
         /\ ServedEnd(f, p)'
         /\ \A d \in Conns : /\ end'[d]["cli"] = end[d]["cli"]
                             /\ \/ end'[d]["srv"] = end[d]["srv"]
                                \/ end[d]["srv"] = "queued" /\ end'[d]["srv"] = "open"
<1> USE DEF Base, Types
<1>1. PICK c \in Conns : /\ c = conn /\ conn # None /\ backlog[p] = <<c>>
                         /\ dest[c] = p /\ end[c]["srv"] = "queued"
  BY DEF NetInv, Waiting, MockTypeOK
<1>2. Head(backlog[p]) = c /\ Tail(backlog[p]) = << >>
  BY <1>1
<1>3. /\ file'[f] = End("srv", c) /\ \A g \in Fds \ {f} : file'[g] = file[g]
      /\ end'[c]["srv"] = "open" /\ end'[c]["cli"] = end[c]["cli"]
      /\ \A d \in Conns \ {c} : end'[d] = end[d]
      /\ backlog'[p] = << >> /\ \A q \in Ports \ {p} : backlog'[q] = backlog[q]
  BY <1>1, <1>2 DEF NetTypeOK, Ends
<1>4. socket # NoFd /\ f # socket
  BY <1>1, SocketKind DEF MockInv, Free
<1>5. End("srv", c).kind = "srv" /\ End("srv", c).id = c /\ End("srv", c) \in Files
  BY DEF End, Files
<1>6. NetTypeOK'
  <2>1. << >> \in Seq(Conns)
    BY EmptySeq
  <2>2. file' \in [Fds -> Files] /\ backlog' \in [Ports -> Seq(Conns)]
    BY <1>2, <1>5, <2>1 DEF NetTypeOK
  <2>3. end' \in [Conns -> [Ends -> {"none", "queued", "open", "closed"}]]
    BY <1>1, <1>2 DEF NetTypeOK
  <2> QED BY <2>2, <2>3 DEF NetTypeOK
<1>7. \A g \in Fds : file[g] # End("srv", c)
  BY <1>1, <1>5 DEF NetInv, Owned
<1>8. ASSUME NEW g \in Fds PROVE Owned(g)' /\ OnlyOnce(g)'
  <2>1. CASE g = f
    <3>1. OnlyOnce(g)'
      BY <1>3, <1>7, <2>1 DEF OnlyOnce
    <3>2. Owned(g)'
      BY <1>1, <1>3, <1>5, <2>1 DEF Owned, mockVars
    <3> QED BY <3>1, <3>2
  <2>2. CASE g # f
    <3>1. file'[g] = file[g] /\ Owned(g) /\ OnlyOnce(g) /\ file[g] # End("srv", c)
      BY <1>3, <1>7, <2>2 DEF NetInv
    <3>2. file[g].kind = "srv" => file[g].id # c
      BY <1>1, <3>1 DEF Owned
    <3>3. file[g].kind = "srv" => \A h \in Fds : file'[h] = file'[g] => file[h] = file[g]
      BY <1>3, <3>1
    <3> QED BY <1>3, <3>1, <3>2, <3>3 DEF Owned, OnlyOnce, mockVars
  <2> QED BY <2>1, <2>2
<1>9. \A q \in Ports : Waiting(q)'
  <2>1. \A q \in Ports \ {p} : backlog[q] = << >>
    BY <1>1 DEF NetInv, Waiting
  <2> QED BY <1>3, <2>1 DEF Waiting
<1>10. \A d \in Conns : Untold(d)'
  BY <1>3 DEF NetInv, Untold, mockVars
<1>11. ServedEnd(f, p)'
  BY <1>1, <1>3 DEF ServedEnd, mockVars
<1> QED BY <1>1, <1>3, <1>4, <1>6, <1>8, <1>9, <1>10, <1>11 DEF NetInv

\* write() of what readn() has taken in, to a client accepted and not yet closed.
LEMMA WrittenBackNet ==
  ASSUME Base, NEW f \in Fds, NEW c \in Conns, file[f] = End("srv", c),
         NEW n \in Nat, Len(inbox[c]["srv"]) >= n, WriteBack(f, n),
         UNCHANGED <<mockVars, sClientFds, eClientFds, sServerFd, eServerFd>>, Over => Over'
  PROVE  NetTypeOK' /\ NetInv'
<1> USE DEF Base, Types
<1>1. /\ UNCHANGED <<file, backlog, end, size, sent>>
      /\ \A d \in Conns \ {c} : inbox'[d] = inbox[d]
  BY WriteBackEffect
<1>2. file[f].kind = "srv" /\ file[f].id = c /\ "srv" \in Ends
  BY DEF End, Ends
<1>3. NetTypeOK'
  <2>1. Len(Inbox(f)) >= n
    BY <1>2 DEF Inbox
  <2> QED BY <1>2, <2>1, WriteBackType
<1>4. end[c]["srv"] = "open"
  BY <1>2 DEF NetInv, Owned
<1>5. \A g \in Fds : Owned(g)' /\ OnlyOnce(g)'
  BY <1>1 DEF NetInv, Owned, OnlyOnce, mockVars
<1>6. \A p \in Ports : Waiting(p)'
  BY <1>1 DEF NetInv, Waiting, mockVars
<1>7. \A d \in Conns : Untold(d)'
  BY <1>1, <1>4 DEF NetInv, Untold, mockVars
<1> QED BY <1>3, <1>5, <1>6, <1>7 DEF NetInv

\* close() of a client, whether or not its number stays in the list.
LEMMA DroppedNet ==
  ASSUME Base, NEW f \in Fds, NEW c \in Conns, file[f] = End("srv", c), Close(f),
         UNCHANGED <<mockVars, sServerFd, eServerFd>>, Over => Over',
         ToSet(sClientFds) \ {f} \subseteq ToSet(sClientFds'),
         ToSet(eClientFds) \ {f} \subseteq ToSet(eClientFds')
  PROVE  /\ NetTypeOK' /\ NetInv' /\ f # socket
         /\ file'[f] = Free /\ \A g \in Fds \ {f} : file'[g] = file[g]
         /\ UNCHANGED <<inbox, size, sent>> /\ end[c]["srv"] = "open"
         /\ end'[c]["srv"] = "closed" /\ end'[c]["cli"] = end[c]["cli"]
         /\ \A d \in Conns \ {c} : /\ end'[d]["srv"] = end[d]["srv"]
                                   /\ end'[d]["cli"] = end[d]["cli"]
<1> USE DEF Base, Types
<1>1. /\ file'[f] = Free /\ \A g \in Fds \ {f} : file'[g] = file[g]
      /\ UNCHANGED <<inbox, size, sent>> /\ NetTypeOK'
  BY CloseFile, CloseType
<1>2. "srv" \in Ends /\ "cli" \in Ends
  BY DEF Ends
<1>3. /\ backlog' = backlog /\ end'[c]["srv"] = "closed"
      /\ \A d \in Conns, x \in Ends : d # c \/ x # "srv" => end'[d][x] = end[d][x]
  BY <1>2, CloseEnd
<1>4. /\ end'[c]["cli"] = end[c]["cli"]
      /\ \A d \in Conns \ {c} : /\ end'[d]["srv"] = end[d]["srv"]
                                /\ end'[d]["cli"] = end[d]["cli"]
  BY <1>2, <1>3
<1>5. file[f].kind = "srv" /\ file[f].id = c /\ Free.kind = "free"
  BY DEF End, Free
<1>6. f # socket
  BY <1>5, SocketKind
<1>7. end[c]["srv"] = "open"
  BY <1>5 DEF NetInv, Owned
<1>8. ASSUME NEW g \in Fds PROVE Owned(g)' /\ OnlyOnce(g)'
  <2>1. CASE g = f
    BY <1>1, <1>5, <2>1 DEF Owned, OnlyOnce
  <2>2. CASE g # f
    <3>1. file'[g] = file[g] /\ Owned(g) /\ OnlyOnce(g) /\ OnlyOnce(f)
      BY <1>1, <2>2 DEF NetInv
    <3>2. file[g].kind = "srv" => \A h \in Fds : file'[h] = file'[g] => file[h] = file[g]
      BY <1>1, <1>5, <3>1
    <3>3. OnlyOnce(g)'
      BY <3>1, <3>2 DEF OnlyOnce
    <3>4. file[g].kind = "srv" => file[g].id \in Conns \ {c}
      <4>1. file[g].kind = "srv" /\ file[g].id = c => file[g] = file[f]
        BY <1>5 DEF NetTypeOK, Files, End
      <4> QED BY <1>5, <2>2, <3>1, <4>1 DEF OnlyOnce, Owned
    <3>5. Owned(g)'
      BY <1>4, <2>2, <3>1, <3>4 DEF Owned, mockVars
    <3> QED BY <3>3, <3>5
  <2> QED BY <2>1, <2>2
<1>9. \A p \in Ports : Waiting(p)'
  <2>1. \A d \in Conns : end[d]["srv"] = "queued" => end'[d]["srv"] = "queued"
    BY <1>4, <1>7
  <2> QED BY <1>3, <2>1 DEF NetInv, Waiting, MockTypeOK, mockVars
<1>10. \A d \in Conns : Untold(d)'
  BY <1>1, <1>3, <1>4 DEF NetInv, Untold, mockVars
<1> QED BY <1>1, <1>3, <1>4, <1>6, <1>7, <1>8, <1>9, <1>10 DEF NetInv

\* The header found by a server is the connection's, and the client gets it back.
LEMMA HeaderGoesBack ==
  ASSUME Base, NEW f \in Fds, NEW c \in Conns, file[f] = End("srv", c),
         Unanswered(c), Len(inbox[c]["srv"]) >= HeaderLen, WriteBack(f, HeaderLen),
         UNCHANGED mockVars
  PROVE  /\ HeaderEchoed(c)'
         /\ FirstUnits(f, HeaderLen) = Units(HeaderLen) /\ file[f].id = c
<1> DEFINE u == inbox[c]["srv"]
<1>1. /\ UNCHANGED <<file, backlog, end, size, sent>>
      /\ inbox'[c]["srv"] = SubSeq(u, HeaderLen + 1, Len(u))
      /\ inbox'[c]["cli"] = IF Gone(c) THEN inbox[c]["cli"]
                            ELSE inbox[c]["cli"] \o SubSeq(u, 1, HeaderLen)
  BY WriteBackEffect DEF Base, Types
<1>2. HeaderLen \in Nat /\ sent[c] \in Nat /\ Len(u) \in Nat /\ HeaderLen \in 0 .. Len(u)
  <2>1. HeaderLen \in Nat /\ sent[c] \in Nat /\ u \in Seq(Nat)
    BY SocketsAssumption DEF Base, Types, NetTypeOK, Unanswered, Piece
  <2>2. Len(u) \in Nat
    BY <2>1, LenProperties
  <2> QED BY <2>1, <2>2
<1>3. Piece(u, 0, sent[c])
  BY DEF Unanswered
<1>4. Piece(SubSeq(u, 1, HeaderLen), 0, HeaderLen)
      /\ Piece(SubSeq(u, HeaderLen + 1, Len(u)), HeaderLen, sent[c])
  <2>1. 0 + HeaderLen = HeaderLen
    BY <1>2
  <2> QED BY <1>2, <1>3, <2>1, FirstPiece, RestPiece
<1>5. conn = c => Echoed(c, HeaderLen)'
  <2> SUFFICES ASSUME conn = c
               PROVE  Piece(answer, 0, Len(answer)) /\ Piece(inbox'[c]["cli"], Len(answer), HeaderLen)
    BY DEF Echoed, mockVars
  <2>1. end[c]["cli"] = "open" /\ answer = << >> /\ inbox[c]["cli"] = << >>
    BY SocketsAssumption DEF Base, MockInv, Unanswered
  <2>2. Piece(<< >>, 0, 0) /\ Len(<< >>) = 0
    BY EmptyPiece
  <2>3. inbox'[c]["cli"] = << >> \o SubSeq(u, 1, HeaderLen)
    BY <1>1, <2>1 DEF Gone
  <2>4. Piece(inbox'[c]["cli"], 0, HeaderLen)
    BY <1>2, <1>4, <2>2, <2>3, JoinPieces
  <2> QED BY <2>1, <2>2, <2>4
<1>6. FirstUnits(f, HeaderLen) = Units(HeaderLen) /\ file[f].id = c
  <2>1. file[f].id = c /\ file[f].kind = "srv"
    BY DEF End
  <2>2. FirstUnits(f, HeaderLen) = SubSeq(u, 1, HeaderLen)
    BY <2>1 DEF FirstUnits, Inbox
  <2> QED BY <1>2, <1>4, <2>1, <2>2, PieceIsUnits
<1>7. Echoed(c, HeaderLen)'
  BY <1>5 DEF Echoed, mockVars
<1> QED BY <1>1, <1>4, <1>6, <1>7 DEF HeaderEchoed

\* The rest of the message follows it.
LEMMA BodyGoesBack ==
  ASSUME Base, NEW f \in Fds, NEW c \in Conns, file[f] = End("srv", c),
         HeaderEchoed(c), Len(inbox[c]["srv"]) >= size[c], WriteBack(f, size[c]),
         UNCHANGED mockVars
  PROVE  Echoed(c, HeaderLen + size[c])'
<1> DEFINE u == inbox[c]["srv"]
<1>1. /\ UNCHANGED <<file, backlog, end, size, sent>>
      /\ inbox'[c]["cli"] = IF Gone(c) THEN inbox[c]["cli"]
                            ELSE inbox[c]["cli"] \o SubSeq(u, 1, size[c])
  BY WriteBackEffect DEF Base, Types
<1>2. HeaderLen \in Nat /\ size[c] \in Nat /\ sent[c] \in Nat /\ u \in Seq(Nat)
  BY SocketsAssumption DEF Base, Types, NetTypeOK, HeaderEchoed, Piece
<1>3. Len(u) \in Nat /\ size[c] \in 0 .. Len(u)
  BY <1>2, LenProperties
<1>4. Piece(u, HeaderLen, sent[c])
  BY DEF HeaderEchoed
<1>5. Piece(SubSeq(u, 1, size[c]), HeaderLen, HeaderLen + size[c])
  BY <1>2, <1>3, <1>4, FirstPiece
<1> SUFFICES ASSUME conn = c
             PROVE  /\ Piece(answer, 0, Len(answer))
                    /\ Piece(inbox'[c]["cli"], Len(answer), HeaderLen + size[c])
  BY <1>1 DEF Echoed, mockVars
<1>6. end[c]["cli"] = "open" /\ answer \in Seq(Nat)
  BY SocketsAssumption DEF Base, MockInv, Types, MockTypeOK
<1>7. Piece(answer, 0, Len(answer)) /\ Piece(inbox[c]["cli"], Len(answer), HeaderLen)
  BY DEF HeaderEchoed, Echoed
<1>8. inbox'[c]["cli"] = inbox[c]["cli"] \o SubSeq(u, 1, size[c])
  BY <1>1, <1>6 DEF Gone
<1>9. Len(answer) \in Nat /\ HeaderLen + size[c] \in Nat
  BY <1>2, <1>6, LenProperties
<1> QED BY <1>2, <1>5, <1>7, <1>8, <1>9, JoinPieces

-----------------------------------------------------------------------------
(* The select server's thread, with no epoll server beside it. *)

LEMMA SelectWorld ==
  ASSUME Base, SelectPort \in running \/ sPc # "idle"
  PROVE  SelectPort \in running /\ EPollPort \notin running /\ EPollIdle
BY EchoProcessAssumption DEF Base, WorldInv, SelectIdle, Types, UiTypes

\* A step of the select server, or of a signal that hits it.
SelectMoves ==
  /\ SelectPort \in running \/ sPc # "idle"
  /\ UNCHANGED <<mockVars, uiVars, eVars>>
  /\ ClosedOnesDropOut \/ UNCHANGED interest

LEMMA SelectFrame ==
  ASSUME Base, SelectMoves, SelectTypes', NetTypeOK', cut' \subseteq Conns, NetInv', SelectInv',
         socket # NoFd => file'[socket] = file[socket],
         \A c \in Conns :
           /\ end'[c]["cli"] = end[c]["cli"]
           /\ end'[c]["srv"] = end[c]["srv"] \/ end'[c]["srv"] \in {"open", "closed"}
  PROVE  Base' /\ \A c \in Conns : ~EPollHas(c) /\ ~EPollHas(c)'
<1> USE DEF SelectMoves
<1>1. SelectPort \in running /\ EPollPort \notin running /\ EPollIdle
  BY SelectWorld
<1>2. interest \in [Fds -> {"none", "level", "armed", "spent"}]
  BY DEF Base, Types, EPollTypes
<1>3. interest' \in [Fds -> {"none", "level", "armed", "spent"}]
      /\ \A f \in Fds : interest'[f] = "none"
  BY <1>1, <1>2 DEF ClosedOnesDropOut, EPollIdle
<1>4. EPollIdle'
  BY <1>1, <1>3 DEF EPollIdle, eVars
<1>5. Types'
  <2>1. MockTypeOK' /\ UiTypes'
    BY DEF Base, Types, MockTypeOK, UiTypes, mockVars, uiVars
  <2>2. EPollTypes'
    BY <1>3 DEF Base, Types, EPollTypes, eVars
  <2> QED BY <2>1, <2>2 DEF Types
<1>6. WorldInv'
  BY <1>1, <1>4 DEF Base, WorldInv, mockVars, uiVars
<1>7. MockInv'
  <2>1. conn # None => conn \in Conns /\ socket # NoFd
    BY DEF Base, Types, MockTypeOK, MockInv
  <2> QED BY <2>1 DEF Base, MockInv, mockVars
<1>8. EPollInv'
  <2>1. ToSet(<< >>) = {}
    BY EmptySeq DEF ToSet
  <2> QED BY <1>4, <2>1 DEF EPollIdle, EPollInv
<1>9. LowInv'
  BY <1>1 DEF LowInv, uiVars
<1>10. Base'
  BY <1>5, <1>6, <1>7, <1>8, <1>9 DEF Base
<1> QED BY <1>1, <1>4, <1>10 DEF EPollIdle, EPollHas

\* A step that moves no unit and keeps the list.
SelectGoesOn ==
  /\ UNCHANGED <<netVars, sClientFds>>
  /\ sPc # "returned" /\ (sServerFd' = sServerFd \/ sPc' = "returned")
  /\ sPc' # "body"
  /\ sPc \in {"body", "drop"} => sPc' = "drop" /\ sClientFD' = sClientFD

LEMMA SelectSilent ==
  ASSUME IInv, SelectMoves, SelectGoesOn, SelectTypes', cut' \subseteq Conns, SelectInv'
  PROVE  IInv'
<1> USE DEF IInv, SelectGoesOn
<1>1. NetTypeOK'
  BY DEF Base, Types, NetTypeOK, netVars
<1>2. NetInv'
  <2>1. \A f \in Fds : Owned(f)' /\ OnlyOnce(f)'
    BY DEF SelectMoves, Base, NetInv, Owned, OnlyOnce, Over, netVars, mockVars, eVars
  <2>2. \A p \in Ports : Waiting(p)'
    BY DEF SelectMoves, Base, NetInv, Waiting, netVars, mockVars
  <2>3. \A c \in Conns : Untold(c)'
    BY DEF SelectMoves, Base, NetInv, Untold, netVars, mockVars
  <2> QED BY <2>1, <2>2, <2>3 DEF NetInv
<1>3. Base' /\ \A c \in Conns : ~EPollHas(c) /\ ~EPollHas(c)'
  BY <1>1, <1>2, SelectFrame DEF netVars
<1>4. \A c \in Conns : SelectHas(c) /\ sPc # "header" => SelectHas(c)' /\ sPc' # "header"
  BY DEF SelectHas, netVars
<1>5. \A c \in Conns : Talking(c)'
  BY <1>3, <1>4, TalksOn DEF SelectMoves, netVars, mockVars
<1> QED BY <1>3, <1>5

\* The calls that fail, select() itself, and the walk along the list.
LEMMA SelectSilentStep ==
  ASSUME IInv, SelectMoves,
         \/ /\ \/ S!SocketFails \/ S!Bind \/ S!BindFails \/ S!ListenFails("wait")
               \/ S!ReadFails \/ S!Interrupted
            /\ UNCHANGED <<sReadFds, sIter>>
         \/ S!AcceptFails("wait") /\ sReadFds' = {} /\ UNCHANGED sIter
         \/ S!Select \/ S!SelectFails \/ S!NextClient \/ S!ScanOver
  PROVE  IInv'
<1>1. SelectTypes /\ SelectInv /\ cut \subseteq Conns
  BY DEF IInv, Base, Types
<1>2. CASE S!SocketFails /\ UNCHANGED <<sReadFds, sIter>>
  <2>1. /\ sPc = "idle" /\ sPc' = "returned" /\ UNCHANGED netVars
        /\ UNCHANGED <<sServerFd, sClientFds, sClientFD, sLen, cut, sReadFds, sIter>>
    BY <1>2 DEF S!SocketFails, S!netVars, netVars
  <2>2. SelectTypes' /\ cut' \subseteq Conns
    BY <1>1, <2>1 DEF SelectTypes
  <2>3. SelectInv'
    BY <1>1, <2>1 DEF SelectInv, SelectMoves, ServedEnd, netVars, mockVars
  <2> QED BY <2>1, <2>2, <2>3, SelectSilent DEF SelectGoesOn
<1>3. CASE S!BindFails /\ UNCHANGED <<sReadFds, sIter>>
  <2>1. /\ sPc = "bind" /\ sPc' = "returned" /\ UNCHANGED netVars
        /\ sServerFd' = NoFd
        /\ UNCHANGED <<sClientFds, sClientFD, sLen, cut, sReadFds, sIter>>
    BY <1>3 DEF S!BindFails, S!NoFd, NoFd, S!netVars, netVars
  <2>2. SelectTypes' /\ cut' \subseteq Conns
    BY <1>1, <2>1 DEF SelectTypes
  <2>3. SelectInv'
    BY <1>1, <2>1 DEF SelectInv, SelectMoves, ServedEnd, netVars, mockVars
  <2> QED BY <2>1, <2>2, <2>3, SelectSilent DEF SelectGoesOn
<1>4. CASE (S!ReadFails \/ S!Interrupted) /\ UNCHANGED <<sReadFds, sIter>>
  <2>1. /\ sPc \in {"header", "body"} /\ sPc' = "drop" /\ UNCHANGED netVars
        /\ UNCHANGED <<sServerFd, sClientFds, sClientFD, sLen, sReadFds, sIter>>
    BY <1>4 DEF S!ReadFails, S!Interrupted, S!netVars, netVars
  <2>2. cut' \subseteq Conns
    <3>1. \A c : End("srv", c).id = c
      BY DEF End
    <3>2. file[sClientFD].id \in Conns
      BY <2>1, <3>1, SelectHand DEF IInv, ServedEnd
    <3> QED BY <1>1, <1>4, <3>2 DEF S!ReadFails, S!Interrupted
  <2>3. SelectTypes'
    BY <1>1, <2>1 DEF SelectTypes
  <2>4. SelectInv'
    BY <1>1, <2>1 DEF SelectInv, SelectMoves, ServedEnd, netVars, mockVars
  <2> QED BY <2>1, <2>2, <2>3, <2>4, SelectSilent DEF SelectGoesOn
<1>5. CASE S!AcceptFails("wait") /\ sReadFds' = {} /\ UNCHANGED sIter
  <2>1. /\ sPc = "accept" /\ sPc' = "wait" /\ UNCHANGED netVars
        /\ UNCHANGED <<sServerFd, sClientFds, sClientFD, sLen, cut, sIter>> /\ sReadFds' = {}
    BY <1>5 DEF S!AcceptFails, S!NoPushBack, S!netVars, netVars
  <2>2. SelectTypes' /\ cut' \subseteq Conns
    BY <1>1, <2>1 DEF SelectTypes
  <2>3. SelectInv'
    BY <1>1, <2>1 DEF SelectInv, SelectMoves, ServedEnd, netVars, mockVars
  <2> QED BY <2>1, <2>2, <2>3, SelectSilent DEF SelectGoesOn
<1>6. CASE S!Select \/ S!SelectFails
  <2>1. /\ sPc = "wait" /\ sPc' \in {"accept", "scan", "close"} /\ UNCHANGED netVars
        /\ UNCHANGED <<sServerFd, sClientFds, sClientFD, sLen, cut, sIter>>
    BY <1>6 DEF S!Select, S!SelectFails, S!netVars, netVars
  <2>2. sReadFds' \subseteq Fds
    <3>1. {sServerFd} \cup ToSet(sClientFds) \subseteq Fds
      BY <1>1, <2>1 DEF SelectTypes, SelectInv, ToSet
    <3> QED BY <1>1, <1>6, <3>1
        DEF S!Select, S!SelectFails, S!Watched, S!ToSet, ToSet, SelectTypes
  <2>3. SelectTypes' /\ cut' \subseteq Conns
    BY <1>1, <2>1, <2>2 DEF SelectTypes
  <2>4. SelectInv'
    BY <1>1, <2>1 DEF SelectInv, SelectMoves, ServedEnd, netVars, mockVars
  <2> QED BY <2>1, <2>3, <2>4, SelectSilent DEF SelectGoesOn
<1>7. CASE S!NextClient
  <2>1. /\ sPc = "scan" /\ sPc' = "header" /\ UNCHANGED netVars
        /\ UNCHANGED <<sServerFd, sClientFds, sLen, cut, sReadFds>>
        /\ sIter' \in sIter .. Len(sClientFds) /\ sClientFD' = sClientFds[sIter']
    BY <1>7 DEF S!NextClient, S!netVars, netVars
  <2>2. sIter \in Nat \ {0} /\ sClientFds \in Seq(Fds) /\ Len(sClientFds) \in Nat
    BY <1>1, LenProperties DEF SelectTypes
  <2>3. sIter' \in 1 .. Len(sClientFds) /\ sIter' \in Nat \ {0}
    BY <2>1, <2>2
  <2>4. sClientFD' \in Fds
    BY <2>1, <2>2, <2>3, ElementOfSeq
  <2>5. SelectTypes' /\ cut' \subseteq Conns
    BY <1>1, <2>1, <2>3, <2>4 DEF SelectTypes
  <2>6. SelectInv'
    BY <1>1, <2>1, <2>3 DEF SelectInv, SelectMoves, ServedEnd, netVars, mockVars
  <2> QED BY <2>1, <2>5, <2>6, SelectSilent DEF SelectGoesOn
<1>8. CASE S!ScanOver
  <2>1. /\ sPc = "scan" /\ sPc' = "wait" /\ UNCHANGED netVars
        /\ UNCHANGED <<sServerFd, sClientFds, sClientFD, sLen, cut>>
        /\ sReadFds' = {} /\ sIter' = 1
    BY <1>8 DEF S!ScanOver, S!netVars, netVars
  <2>2. SelectTypes' /\ cut' \subseteq Conns
    BY <1>1, <2>1 DEF SelectTypes
  <2>3. SelectInv'
    BY <1>1, <2>1 DEF SelectInv, SelectMoves, ServedEnd, netVars, mockVars
  <2> QED BY <2>1, <2>2, <2>3, SelectSilent DEF SelectGoesOn
<1>9. CASE (S!Bind \/ S!ListenFails("wait")) /\ UNCHANGED <<sReadFds, sIter>>
  <2>1. /\ \/ sPc = "bind" /\ sPc' = "listen"
           \/ sPc = "listen" /\ sPc' = "wait"
        /\ UNCHANGED netVars
        /\ UNCHANGED <<sServerFd, sClientFds, sClientFD, sLen, cut, sReadFds, sIter>>
    BY <1>9 DEF S!Bind, S!ListenFails, S!netVars, netVars
  <2>2. SelectTypes' /\ cut' \subseteq Conns
    BY <1>1, <2>1 DEF SelectTypes
  <2>3. SelectInv'
    BY <1>1, <2>1 DEF SelectInv, SelectMoves, ServedEnd, netVars, mockVars
  <2> QED BY <2>1, <2>2, <2>3, SelectSilent DEF SelectGoesOn
<1> QED BY <1>2, <1>3, <1>4, <1>5, <1>6, <1>7, <1>8, <1>9

LEMMA ServedStays ==
  ASSUME NEW g \in Fds, file'[g] = file[g], UNCHANGED mockVars
  PROVE  \A p \in Ports : ServedEnd(g, p) => ServedEnd(g, p)'
BY DEF ServedEnd, mockVars

\* The frame of a step that moves no unit.
LEMMA SelectMovesOn ==
  ASSUME IInv, SelectMoves, SelectTypes', NetTypeOK', cut' \subseteq Conns, NetInv', SelectInv',
         socket # NoFd => file'[socket] = file[socket],
         UNCHANGED <<inbox, size, sent>>,
         \A c \in Conns :
           /\ end'[c]["cli"] = end[c]["cli"]
           /\ \/ end'[c]["srv"] = end[c]["srv"]
              \/ end[c]["srv"] \in {"queued", "open"} /\ end'[c]["srv"] \in {"open", "closed"}
           /\ SelectHas(c) /\ sPc # "header" => end'[c]["srv"] = "closed",
         sPc' # "body"
  PROVE  IInv'
<1>1. Base' /\ \A c \in Conns : ~EPollHas(c) /\ ~EPollHas(c)'
  BY SelectFrame DEF IInv
<1>2. \A c \in Conns : Talking(c)'
  BY <1>1, TalksOn DEF IInv, SelectMoves, mockVars
<1> QED BY <1>1, <1>2 DEF IInv

LEMMA SelectCreateSocketStep ==
  ASSUME IInv, SelectMoves, S!CreateSocket, UNCHANGED <<sReadFds, sIter>>
  PROVE  IInv'
<1>1. PICK f \in Fds :
        /\ file[f] = Free /\ file' = [file EXCEPT ![f] = RawSocket] /\ sServerFd' = f
        /\ UNCHANGED linkVars /\ sPc = "idle" /\ sPc' = "bind"
        /\ UNCHANGED <<sClientFds, sClientFD, sLen, cut>>
  BY DEF S!CreateSocket, S!LowestFree, S!Fds, S!Free, S!RawSocket, S!linkVars,
         LowestFree, Fds, Free, RawSocket, linkVars
<1>2. Base /\ SelectInv /\ sServerFd = NoFd
  BY <1>1 DEF IInv, Base, SelectInv
<1>3. eServerFd' = eServerFd /\ eClientFds' = eClientFds /\ UNCHANGED mockVars
  BY DEF SelectMoves, eVars
<1>4. /\ NetTypeOK' /\ NetInv'
      /\ file'[f] = RawSocket /\ \A g \in Fds \ {f} : file'[g] = file[g]
      /\ f # socket
  <2>1. {sServerFd, eServerFd} \ {NoFd} \subseteq {sServerFd', eServerFd'} /\ (Over => Over')
    BY <1>1, <1>2, <1>3 DEF Over, SelectMoves, eVars
  <2> QED BY <1>1, <1>2, <1>3, <2>1, FreshNet
<1>5. SelectTypes' /\ cut' \subseteq Conns
  BY <1>1, <1>2 DEF Base, Types, SelectTypes
<1>6. SelectInv'
  <2>1. \A g \in ToSet(sClientFds) : g \in Fds /\ ServedEnd(g, SelectPort) /\ file[g].kind = "srv"
    BY <1>2, ServedKind DEF Base, Types, SelectTypes, SelectInv, ToSet
  <2>2. \A g \in ToSet(sClientFds) : ServedEnd(g, SelectPort)'
    BY <1>1, <1>3, <1>4, <2>1, ServedStays, EchoProcessAssumption DEF Free
  <2> QED BY <1>1, <1>2, <1>3, <1>4, <2>2 DEF SelectInv, mockVars
<1>7. socket # NoFd => file'[socket] = file[socket]
  BY <1>2, <1>4, SocketKind
<1> QED BY <1>1, <1>4, <1>5, <1>6, <1>7, SelectMovesOn DEF linkVars, SelectHas

LEMMA SelectListenStep ==
  ASSUME IInv, SelectMoves, S!Listen("wait"), UNCHANGED <<sReadFds, sIter>>
  PROVE  IInv'
<1>1. /\ file' = [file EXCEPT ![sServerFd] = Listener(SelectPort)]
      /\ UNCHANGED linkVars /\ sPc = "listen" /\ sPc' = "wait"
      /\ UNCHANGED <<sServerFd, sClientFds, sClientFD, sLen, cut>>
  BY DEF S!Listen, S!Listener, S!linkVars, Listener, linkVars
<1>2. /\ Base /\ SelectInv
      /\ sServerFd \in Fds /\ file[sServerFd] = RawSocket /\ sServerFd # socket
  BY <1>1 DEF IInv, Base, SelectInv
<1>3. eServerFd' = eServerFd /\ eClientFds' = eClientFds /\ UNCHANGED mockVars
  BY DEF SelectMoves, eVars
<1>4. /\ NetTypeOK' /\ NetInv'
      /\ file'[sServerFd] = Listener(SelectPort)
      /\ \A g \in Fds \ {sServerFd} : file'[g] = file[g]
  <2>1. Over => Over'
    BY <1>1 DEF Over, SelectMoves, eVars
  <2> QED BY <1>1, <1>2, <1>3, <2>1, BoundNet, EchoProcessAssumption
<1>5. SelectTypes' /\ cut' \subseteq Conns
  BY <1>1, <1>2 DEF Base, Types, SelectTypes
<1>6. SelectInv'
  <2>1. \A g \in ToSet(sClientFds) : g \in Fds /\ ServedEnd(g, SelectPort) /\ file[g].kind = "srv"
    <3>1. ToSet(sClientFds) \subseteq Fds
      BY <1>2 DEF Base, Types, SelectTypes, ToSet
    <3>2. \A g \in ToSet(sClientFds) : ServedEnd(g, SelectPort)
      BY <1>2 DEF SelectInv
    <3> QED BY <3>1, <3>2, ServedKind
  <2>2. \A g \in ToSet(sClientFds) : ServedEnd(g, SelectPort)'
    BY <1>2, <1>3, <1>4, <2>1, ServedStays, EchoProcessAssumption DEF RawSocket
  <2> QED BY <1>1, <1>2, <1>3, <1>4, <2>2 DEF SelectInv, mockVars
<1>7. socket # NoFd => file'[socket] = file[socket]
  BY <1>2, <1>4, SocketKind
<1> QED BY <1>1, <1>4, <1>5, <1>6, <1>7, SelectMovesOn DEF linkVars, SelectHas

LEMMA SelectAcceptStep ==
  ASSUME IInv, SelectMoves, S!Accept("wait"), sReadFds' = {}, UNCHANGED sIter
  PROVE  IInv'
<1>1. PICK f \in Fds :
        /\ file[f] = Free /\ backlog[SelectPort] # << >>
        /\ file' = [file EXCEPT ![f] = End("srv", Head(backlog[SelectPort]))]
        /\ sClientFds' = Append(sClientFds, f)
        /\ end' = [end EXCEPT ![Head(backlog[SelectPort])]["srv"] = "open"]
        /\ backlog' = [backlog EXCEPT ![SelectPort] = Tail(@)]
        /\ sPc = "accept" /\ sPc' = "wait"
        /\ UNCHANGED <<inbox, size, sent, sServerFd, sClientFD, sLen, cut>>
  BY DEF S!Accept, S!LowestFree, S!Fds, S!Free, S!End, S!PushBack, LowestFree, Fds, Free, End
<1>2. Base /\ SelectInv /\ sClientFds \in Seq(Fds)
  BY DEF IInv, Base, Types, SelectTypes
<1>3. eServerFd' = eServerFd /\ eClientFds' = eClientFds /\ UNCHANGED mockVars
  BY DEF SelectMoves, eVars
<1>4. ToSet(sClientFds') = ToSet(sClientFds) \cup {f}
      /\ (f \notin ToSet(sClientFds) /\ Distinct(sClientFds) => Distinct(sClientFds'))
  BY <1>1, <1>2, AppendElements
<1>5. /\ NetTypeOK' /\ NetInv' /\ socket # NoFd /\ f # socket
      /\ \A g \in Fds \ {f} : file'[g] = file[g]
      /\ ServedEnd(f, SelectPort)'
      /\ \A d \in Conns : /\ end'[d]["cli"] = end[d]["cli"]
                          /\ \/ end'[d]["srv"] = end[d]["srv"]
                             \/ end[d]["srv"] = "queued" /\ end'[d]["srv"] = "open"
  <2>1. Over => Over'
    BY <1>1 DEF Over, SelectMoves, eVars
  <2> QED BY <1>1, <1>2, <1>3, <1>4, <2>1, AcceptedNet, EchoProcessAssumption
<1>6. SelectTypes' /\ cut' \subseteq Conns
  <2>1. sClientFds' \in Seq(Fds)
    BY <1>1, <1>2, AppendProperties
  <2> QED BY <1>1, <1>2, <2>1 DEF Base, Types, SelectTypes
<1>7. SelectInv'
  <2>1. \A g \in ToSet(sClientFds) : g \in Fds /\ ServedEnd(g, SelectPort) /\ file[g].kind = "srv"
    BY <1>2, ServedKind DEF SelectInv, ToSet
  <2>2. f \notin ToSet(sClientFds)
    BY <1>1, <2>1 DEF Free
  <2>3. \A g \in ToSet(sClientFds') : ServedEnd(g, SelectPort)'
    BY <1>3, <1>4, <1>5, <2>1, <2>2, ServedStays, EchoProcessAssumption
  <2>4. /\ sServerFd \in Fds /\ sServerFd # socket
        /\ file[sServerFd] \in {Listener(SelectPort), RawSocket}
    BY <1>1, <1>2 DEF SelectInv
  <2>5. file'[sServerFd] = file[sServerFd]
    BY <1>1, <1>5, <2>4 DEF Free, Listener, RawSocket
  <2> QED BY <1>1, <1>2, <1>3, <1>4, <2>2, <2>3, <2>4, <2>5 DEF SelectInv, mockVars
<1>8. socket # NoFd => file'[socket] = file[socket]
  BY <1>2, <1>5, SocketKind
<1> QED BY <1>1, <1>5, <1>6, <1>7, <1>8, SelectMovesOn DEF SelectHas

\* A server has read a part of the message of c and sent it back.
LEMMA SelectReads ==
  ASSUME IInv, SelectMoves, NEW c \in Conns, NEW n \in Nat,
         file[sClientFD] = End("srv", c), Len(inbox[c]["srv"]) >= n, WriteBack(sClientFD, n),
         sPc \in {"header", "body"}, sPc' \in {"body", "drop"}, sLen' \in Nat,
         UNCHANGED <<sServerFd, sClientFds, sClientFD, cut, sReadFds, sIter>>
  PROVE  /\ Base' /\ UNCHANGED <<file, backlog, end, size, sent>>
         /\ \A d \in Conns : ~EPollHas(d) /\ ~EPollHas(d)'
         /\ \A d \in Conns \ {c} : Talking(d)'
<1>1. Base /\ SelectInv
  BY DEF IInv, Base
<1>2. sClientFD \in Fds
  BY <1>1, SelectHand
<1>3. /\ UNCHANGED <<file, backlog, end, size, sent>>
      /\ \A d \in Conns \ {c} : inbox'[d] = inbox[d]
  BY <1>1, <1>2, WriteBackEffect DEF Base, Types
<1>4. NetTypeOK' /\ NetInv'
  <2>1. Over => Over'
    BY DEF Over, SelectMoves, eVars
  <2> QED BY <1>1, <1>2, <2>1, WrittenBackNet DEF SelectMoves, eVars
<1>5. SelectTypes' /\ cut' \subseteq Conns
  BY <1>1 DEF Base, Types, SelectTypes
<1>6. SelectInv'
  BY <1>1, <1>3 DEF SelectInv, ServedEnd, SelectMoves, mockVars
<1>7. Base' /\ \A d \in Conns : ~EPollHas(d) /\ ~EPollHas(d)'
  BY <1>1, <1>3, <1>4, <1>5, <1>6, SelectFrame
<1>8. ASSUME NEW d \in Conns \ {c} PROVE Talking(d)'
  <2>1. ~SelectHas(d) /\ ~SelectHas(d)'
    BY <1>3 DEF SelectHas, End
  <2> QED BY <1>3, <1>7, <2>1, TalksOn DEF IInv, SelectMoves, mockVars
<1> QED BY <1>3, <1>7, <1>8

LEMMA SelectReadHeaderStep ==
  ASSUME IInv, SelectMoves, S!ReadHeader, UNCHANGED <<sReadFds, sIter>>
  PROVE  IInv'
<1>1. /\ sPc = "header" /\ sPc' = "body"
      /\ UNCHANGED <<sServerFd, sClientFds, sClientFD, cut>>
      /\ Arrived(sClientFD, HeaderLen) /\ WriteBack(sClientFD, HeaderLen)
      /\ sLen' \in IF FirstUnits(sClientFD, HeaderLen) = Units(HeaderLen)
                     THEN {size[file[sClientFD].id]} ELSE Sizes
  BY DEF S!ReadHeader, S!Arrived, S!Connected, S!Inbox, S!EchoHeader, S!WriteBack, S!PeerGone,
         S!Peer, S!Ends, S!FirstUnits, S!Announced,
         Arrived, Connected, Inbox, WriteBack, PeerGone, Peer, Ends, FirstUnits, Units
<1>2. Base
  BY DEF IInv
<1>3. PICK c \in Conns : file[sClientFD] = End("srv", c)
  BY <1>1, <1>2, SelectHand DEF ServedEnd
<1>4. sClientFD \in Fds /\ file[sClientFD].kind = "srv" /\ file[sClientFD].id = c
  BY <1>1, <1>2, <1>3, SelectHand DEF End
<1>5. end[c]["srv"] = "open"
  BY <1>2, <1>4 DEF Base, NetInv, Owned
<1>6. HeaderLen \in Nat /\ size[c] \in Nat /\ Len(inbox[c]["srv"]) >= HeaderLen
  BY <1>1, <1>2, <1>4, SocketsAssumption DEF Base, Types, NetTypeOK, Arrived, Inbox
<1>7. Unanswered(c) /\ Talking(c)
  <2>1. ~EPollHas(c)
    BY <1>1, <1>2, SelectWorld DEF SelectMoves, EPollIdle, EPollHas
  <2> QED BY <1>1, <1>5, <2>1 DEF IInv, Talking
<1>8. UNCHANGED mockVars
  BY DEF SelectMoves
<1>9. /\ HeaderEchoed(c)' /\ FirstUnits(sClientFD, HeaderLen) = Units(HeaderLen)
  BY <1>1, <1>2, <1>3, <1>4, <1>6, <1>7, <1>8, HeaderGoesBack
<1>10. sLen' = size[c]
  BY <1>1, <1>4, <1>9
<1>11. /\ Base' /\ UNCHANGED <<file, backlog, end, size, sent>>
       /\ \A d \in Conns : ~EPollHas(d) /\ ~EPollHas(d)'
       /\ \A d \in Conns \ {c} : Talking(d)'
  BY <1>1, <1>3, <1>6, <1>10, SelectReads
<1>12. Talking(c)'
  <2>1. HeaderLen \in 0 .. HeaderLen + size[c]
    BY <1>6
  <2>2. SelectHas(c)'
    BY <1>1, <1>3, <1>11 DEF SelectHas
  <2>3. Echoed(c, HeaderLen)'
    BY <1>9 DEF HeaderEchoed
  <2>4. \E n \in 0 .. HeaderLen + size'[c] : Echoed(c, n)'
    BY <1>11, <2>1, <2>3
  <2> QED BY <1>1, <1>7, <1>8, <1>9, <1>10, <1>11, <2>2, <2>4 DEF Talking, mockVars
<1> QED BY <1>11, <1>12 DEF IInv

LEMMA SelectReadBodyStep ==
  ASSUME IInv, SelectMoves, S!ReadBody, UNCHANGED <<sReadFds, sIter>>
  PROVE  IInv'
<1>1. /\ sPc = "body" /\ sPc' = "drop"
      /\ UNCHANGED <<sServerFd, sClientFds, sClientFD, sLen, cut>>
      /\ Arrived(sClientFD, sLen) /\ WriteBack(sClientFD, sLen)
  BY DEF S!ReadBody, S!Arrived, S!Connected, S!Inbox, S!WriteBack, S!PeerGone,
         S!Peer, S!Ends, S!FirstUnits,
         Arrived, Connected, Inbox, WriteBack, PeerGone, Peer, Ends, FirstUnits
<1>2. Base
  BY DEF IInv
<1>3. PICK c \in Conns : file[sClientFD] = End("srv", c)
  BY <1>1, <1>2, SelectHand DEF ServedEnd
<1>4. sClientFD \in Fds /\ file[sClientFD].kind = "srv" /\ file[sClientFD].id = c
  BY <1>1, <1>2, <1>3, SelectHand DEF End
<1>5. end[c]["srv"] = "open"
  BY <1>2, <1>4 DEF Base, NetInv, Owned
<1>6. HeaderEchoed(c) /\ sLen = size[c] /\ Talking(c)
  BY <1>1, <1>3 DEF IInv, Talking, SelectHas
<1>7. /\ HeaderLen \in Nat /\ size[c] \in Nat /\ Len(inbox[c]["srv"]) >= size[c]
      /\ WriteBack(sClientFD, size[c])
  BY <1>1, <1>2, <1>4, <1>6, SocketsAssumption DEF Base, Types, NetTypeOK, Arrived, Inbox
<1>8. UNCHANGED mockVars
  BY DEF SelectMoves
<1>9. Echoed(c, HeaderLen + size[c])'
  BY <1>2, <1>3, <1>4, <1>6, <1>7, <1>8, BodyGoesBack
<1>10. /\ Base' /\ UNCHANGED <<file, backlog, end, size, sent>>
       /\ \A d \in Conns : ~EPollHas(d) /\ ~EPollHas(d)'
       /\ \A d \in Conns \ {c} : Talking(d)'
  BY <1>1, <1>3, <1>6, <1>7, SelectReads
<1>11. Talking(c)'
  <2>1. HeaderLen + size[c] \in 0 .. HeaderLen + size[c]
    BY <1>7
  <2>2. SelectHas(c)'
    BY <1>1, <1>3, <1>10 DEF SelectHas
  <2>3. \E n \in 0 .. HeaderLen + size'[c] : Echoed(c, n)'
    BY <1>9, <1>10, <2>1
  <2> QED BY <1>1, <1>5, <1>6, <1>8, <1>10, <2>2, <2>3 DEF Talking, mockVars
<1> QED BY <1>10, <1>11 DEF IInv

\* erase and close: the number leaves the list with the client.
LEMMA SelectDropStep ==
  ASSUME IInv, SelectMoves, S!DropClient
  PROVE  IInv'
<1>1. /\ sPc = "drop" /\ sPc' = "scan" /\ Close(sClientFD)
      /\ sClientFD' = NoFd /\ sLen' = 0 /\ sClientFds' = RemoveAt(sClientFds, sIter)
      /\ UNCHANGED <<sServerFd, cut, sIter>> /\ sReadFds' = sReadFds \ {sClientFD}
  BY DEF S!DropClient, S!Drop, S!Close, S!Ended, S!End, S!Ends, S!Free, S!ToSet, S!NoFd, S!Erase,
         S!RemoveAt, Close, Ended, End, Ends, Free, ToSet, NoFd, RemoveAt
<1>2. Base /\ SelectInv /\ sClientFds \in Seq(Fds) /\ UNCHANGED mockVars
  BY DEF IInv, Base, Types, SelectTypes, SelectMoves
<1>3. PICK c \in Conns : file[sClientFD] = End("srv", c)
  BY <1>1, <1>2, SelectHand DEF ServedEnd
<1>4. /\ sClientFD \in Fds /\ sIter \in 1 .. Len(sClientFds)
      /\ sClientFD = sClientFds[sIter] /\ Distinct(sClientFds)
  BY <1>1, <1>2, SelectHand DEF SelectInv
<1>5. /\ ToSet(sClientFds') = ToSet(sClientFds) \ {sClientFD} /\ Distinct(sClientFds')
      /\ sClientFds' \in Seq(Fds)
  BY <1>1, <1>2, <1>4, RemoveAtElements, RemoveAtProperties
<1>6. /\ NetTypeOK' /\ NetInv' /\ sClientFD # socket
      /\ file'[sClientFD] = Free /\ \A g \in Fds \ {sClientFD} : file'[g] = file[g]
      /\ UNCHANGED <<inbox, size, sent>> /\ end[c]["srv"] = "open"
      /\ end'[c]["srv"] = "closed" /\ end'[c]["cli"] = end[c]["cli"]
      /\ \A d \in Conns \ {c} : /\ end'[d]["srv"] = end[d]["srv"]
                                /\ end'[d]["cli"] = end[d]["cli"]
  <2>1. Over => Over'
    BY <1>1 DEF Over, SelectMoves, eVars
  <2> QED BY <1>1, <1>2, <1>3, <1>4, <1>5, <2>1, DroppedNet DEF SelectMoves, eVars
<1>7. SelectTypes' /\ cut' \subseteq Conns
  <2>1. 0 \in Nat /\ sReadFds \subseteq Fds
    BY <1>2 DEF Base, Types, SelectTypes
  <2> QED BY <1>1, <1>2, <1>5, <2>1 DEF Base, Types, SelectTypes
<1>8. SelectInv'
  <2>1. \A g \in ToSet(sClientFds') : g \in Fds \ {sClientFD} /\ ServedEnd(g, SelectPort)
    <3>1. \A g \in ToSet(sClientFds) : g \in Fds /\ ServedEnd(g, SelectPort)
      BY <1>2 DEF SelectInv, ToSet
    <3> QED BY <1>5, <3>1
  <2>2. \A g \in ToSet(sClientFds') : ServedEnd(g, SelectPort)'
    BY <1>2, <1>6, <2>1, ServedStays, EchoProcessAssumption
  <2>3. /\ sServerFd \in Fds /\ sServerFd # socket
        /\ file[sServerFd] \in {Listener(SelectPort), RawSocket}
    BY <1>1, <1>2 DEF SelectInv
  <2>4. file'[sServerFd] = file[sServerFd]
    BY <1>3, <1>6, <2>3 DEF End, Listener, RawSocket
  <2> QED BY <1>1, <1>2, <1>5, <2>2, <2>3, <2>4 DEF SelectInv, mockVars
<1>9. socket # NoFd => file'[socket] = file[socket]
  BY <1>2, <1>6, SocketKind
<1>10. \A d \in Conns : SelectHas(d) => d = c
  BY <1>3 DEF SelectHas, End
<1> QED BY <1>1, <1>6, <1>7, <1>8, <1>9, <1>10, SelectMovesOn

\* The server's socket is closed, and with it the connection in its backlog, if it
\* has listened at all.
LEMMA SelectCloseStep ==
  ASSUME IInv, SelectMoves, S!CloseListener, UNCHANGED <<sReadFds, sIter>>
  PROVE  IInv'
<1>1. /\ sPc = "close" /\ sPc' = "returned" /\ Close(sServerFd)
      /\ sServerFd' = NoFd /\ UNCHANGED <<sClientFds, sClientFD, sLen, cut>>
  BY DEF S!CloseListener, S!NoFd, NoFd, S!CloseServerFd, S!Close, S!Ended, S!End, S!Ends, S!Free, S!ToSet,
         Close, Ended, End, Ends, Free, ToSet
<1>2. /\ Base /\ SelectInv /\ NetInv /\ UNCHANGED mockVars /\ UNCHANGED eVars
      /\ sServerFd \in Fds /\ sServerFd # socket
      /\ file[sServerFd] \in {Listener(SelectPort), RawSocket}
  BY <1>1 DEF IInv, Base, SelectInv, SelectMoves
<1>3. /\ NetTypeOK' /\ file'[sServerFd] = Free
      /\ \A g \in Fds \ {sServerFd} : file'[g] = file[g]
      /\ UNCHANGED <<inbox, size, sent>>
  BY <1>1, <1>2, CloseFile, CloseType DEF Base, Types
<1>4. /\ \A q \in Ports : backlog'[q] = backlog[q] \/ (q = SelectPort /\ backlog'[q] = << >>)
      /\ \A d \in Conns :
           /\ end'[d]["cli"] = end[d]["cli"]
           /\ \/ end'[d]["srv"] = end[d]["srv"]
              \/ /\ d \in ToSet(backlog[SelectPort]) /\ backlog'[SelectPort] = << >>
                 /\ end'[d]["srv"] = "closed"
  <2>1. NetTypeOK /\ SelectPort \in Ports /\ "cli" \in Ends /\ "srv" \in Ends
    BY <1>2, EchoProcessAssumption DEF Base, Types, Ends
  <2>2. CASE file[sServerFd] = RawSocket
    BY <1>1, <1>2, <2>1, <2>2, CloseRaw
  <2>3. CASE file[sServerFd] = Listener(SelectPort)
    <3>1. /\ backlog'[SelectPort] = << >>
          /\ \A q \in Ports \ {SelectPort} : backlog'[q] = backlog[q]
          /\ \A d \in Conns :
               /\ end'[d]["cli"] = end[d]["cli"]
               /\ end'[d]["srv"] = IF d \in ToSet(backlog[SelectPort]) THEN "closed"
                                   ELSE end[d]["srv"]
      BY <1>1, <1>2, <2>1, <2>3, CloseListening
    <3> QED BY <3>1
  <2> QED BY <1>2, <2>2, <2>3
<1>5. \A d \in Conns : d \in ToSet(backlog[SelectPort]) =>
        end[d]["srv"] = "queued" /\ dest[d] = SelectPort
  <2> SUFFICES ASSUME NEW d \in Conns, d \in ToSet(backlog[SelectPort])
               PROVE  end[d]["srv"] = "queued" /\ dest[d] = SelectPort
    OBVIOUS
  <2>1. backlog[SelectPort] # << >>
    <3>1. ToSet(<< >>) = {}
      BY EmptySeq DEF ToSet
    <3> QED BY <3>1
  <2>2. PICK e : e = conn /\ backlog[SelectPort] = <<e>> /\ dest[e] = SelectPort
                 /\ end[e]["srv"] = "queued"
    BY <1>2, <2>1, EchoProcessAssumption DEF NetInv, Waiting
  <2>3. ToSet(<<e>>) = {e}
    BY DEF ToSet
  <2> QED BY <2>2, <2>3
<1>6. NetInv'
  <2>1. ASSUME NEW g \in Fds PROVE Owned(g)' /\ OnlyOnce(g)'
    <3>1. CASE g = sServerFd
      BY <1>3, <3>1 DEF Owned, OnlyOnce, Free
    <3>2. CASE g # sServerFd
      <4>1. file'[g] = file[g] /\ Owned(g) /\ OnlyOnce(g)
        BY <1>2, <1>3, <3>2 DEF NetInv
      <4>2. file[g].kind = "srv" => \A h \in Fds : file'[h] = file'[g] => file[h] = file[g]
        BY <1>3, <4>1 DEF Free
      <4>3. \A d \in Conns : end[d]["srv"] = "open" => end'[d]["srv"] = "open"
        BY <1>4, <1>5
      <4> QED BY <1>1, <1>2, <3>2, <4>1, <4>2, <4>3 DEF Owned, OnlyOnce, Over, mockVars, eVars
    <3> QED BY <3>1, <3>2
  <2>2. ASSUME NEW q \in Ports PROVE Waiting(q)'
    <3> SUFFICES ASSUME backlog'[q] # << >>
                 PROVE  /\ conn # None /\ backlog[q] = <<conn>>
                        /\ dest[conn] = q /\ end'[conn]["srv"] = "queued"
      BY <1>2, <1>4 DEF Waiting, mockVars
    <3>1. /\ backlog'[q] = backlog[q] /\ conn # None /\ backlog[q] = <<conn>>
          /\ dest[conn] = q /\ end[conn]["srv"] = "queued"
      BY <1>2, <1>4 DEF NetInv, Waiting
    <3>2. conn \in ToSet(backlog[SelectPort]) => backlog'[SelectPort] # << >>
      BY <1>2, <1>5, <3>1 DEF Base, Types, MockTypeOK
    <3> QED BY <1>2, <1>4, <3>1, <3>2 DEF Base, Types, MockTypeOK
  <2>3. \A d \in Conns : Untold(d)'
    BY <1>2, <1>3, <1>4 DEF NetInv, Untold, mockVars
  <2> QED BY <2>1, <2>2, <2>3 DEF NetInv
<1>7. SelectTypes' /\ cut' \subseteq Conns
  BY <1>1, <1>2 DEF Base, Types, SelectTypes
<1>8. SelectInv'
  <2>1. \A g \in ToSet(sClientFds) : g \in Fds /\ ServedEnd(g, SelectPort) /\ file[g].kind = "srv"
    BY <1>2, ServedKind DEF Base, Types, SelectTypes, SelectInv, ToSet
  <2>2. \A g \in ToSet(sClientFds) : ServedEnd(g, SelectPort)'
    BY <1>2, <1>3, <2>1, ServedStays, EchoProcessAssumption DEF Listener, RawSocket
  <2> QED BY <1>1, <1>2, <2>2 DEF SelectInv
<1>9. socket # NoFd => file'[socket] = file[socket]
  BY <1>2, <1>3, SocketKind
<1> QED BY <1>1, <1>3, <1>4, <1>5, <1>6, <1>7, <1>8, <1>9, SelectMovesOn DEF SelectHas

LEMMA SelectStep ==
  ASSUME IInv, SelectThread \/ SelectInterrupted
  PROVE  IInv'
<1>1. CASE SelectThread
  <2>1. SelectMoves
    BY <1>1 DEF SelectThread, SelectMoves
  <2> QED BY <1>1, <2>1, SelectSilentStep, SelectCreateSocketStep, SelectListenStep,
             SelectAcceptStep, SelectReadHeaderStep, SelectReadBodyStep, SelectDropStep,
             SelectCloseStep DEF SelectThread, S!Server, S!Inherited, S!SelectAccept
<1>2. CASE SelectInterrupted
  <2>1. SelectMoves
    BY <1>2 DEF SelectInterrupted, SelectMoves, S!Signal, S!SelectFails, S!Interrupted
  <2> QED BY <1>2, <2>1, SelectSilentStep DEF SelectInterrupted, S!Signal
<1> QED BY <1>1, <1>2

-----------------------------------------------------------------------------
(* The epoll server's thread, alone with the client's. *)

LEMMA EPollWorld ==
  ASSUME Base, EPollPort \in running \/ ePc # "idle"
  PROVE  EPollPort \in running /\ SelectPort \notin running /\ SelectIdle
BY EchoProcessAssumption DEF Base, WorldInv, EPollIdle

\* A step of the epoll server, or of a signal that hits it.
EPollMoves ==
  /\ EPollPort \in running \/ ePc # "idle"
  /\ UNCHANGED <<mockVars, uiVars, sVars>>

LEMMA EPollFrame ==
  ASSUME Base, EPollMoves, EPollTypes', NetTypeOK', cut' \subseteq Conns, NetInv', EPollInv',
         LowInv', socket # NoFd => file'[socket] = file[socket],
         \A c \in Conns :
           /\ end'[c]["cli"] = end[c]["cli"]
           /\ end'[c]["srv"] = end[c]["srv"] \/ end'[c]["srv"] \in {"open", "closed"}
  PROVE  Base' /\ \A c \in Conns : ~SelectHas(c) /\ ~SelectHas(c)'
<1> USE DEF EPollMoves
<1>1. EPollPort \in running /\ SelectPort \notin running /\ SelectIdle
  BY EPollWorld
<1>2. SelectIdle'
  BY <1>1 DEF SelectIdle, sVars
<1>3. Types'
  <2>1. MockTypeOK' /\ UiTypes'
    BY DEF Base, Types, MockTypeOK, UiTypes, mockVars, uiVars
  <2>2. SelectTypes'
    BY DEF Base, Types, SelectTypes, sVars
  <2> QED BY <2>1, <2>2 DEF Types
<1>4. WorldInv'
  BY <1>1, <1>2 DEF Base, WorldInv, mockVars, uiVars
<1>5. MockInv'
  <2>1. conn # None => conn \in Conns /\ socket # NoFd
    BY DEF Base, Types, MockTypeOK, MockInv
  <2> QED BY <2>1 DEF Base, MockInv, mockVars
<1>6. SelectInv'
  <2>1. ToSet(<< >>) = {} /\ Distinct(<< >>)
    BY EmptySeq DEF ToSet, Distinct
  <2> QED BY <1>2, <2>1 DEF SelectIdle, SelectInv
<1>7. Base'
  BY <1>3, <1>4, <1>5, <1>6 DEF Base
<1> QED BY <1>1, <1>2, <1>7 DEF SelectIdle, SelectHas

\* A step that moves no unit and keeps the list and the descriptors.
EPollGoesOn ==
  /\ UNCHANGED <<netVars, eClientFds>>
  /\ ePc # "returned" /\ (eServerFd' = eServerFd \/ ePc' = "returned")
  /\ ePc' # "body"
  /\ ePc \in {"body", "drop"} => ePc' = "drop" /\ eClientFD' = eClientFD

LEMMA EPollSilent ==
  ASSUME IInv, EPollMoves, EPollGoesOn, EPollTypes', cut' \subseteq Conns, EPollInv'
  PROVE  IInv'
<1> USE DEF IInv, EPollGoesOn
<1>1. NetTypeOK'
  BY DEF Base, Types, NetTypeOK, netVars
<1>2. NetInv'
  <2>1. \A f \in Fds : Owned(f)' /\ OnlyOnce(f)'
    BY DEF EPollMoves, Base, NetInv, Owned, OnlyOnce, Over, netVars, mockVars, sVars
  <2>2. \A p \in Ports : Waiting(p)'
    BY DEF EPollMoves, Base, NetInv, Waiting, netVars, mockVars
  <2>3. \A c \in Conns : Untold(c)'
    BY DEF EPollMoves, Base, NetInv, Untold, netVars, mockVars
  <2> QED BY <2>1, <2>2, <2>3 DEF NetInv
<1>3. LowInv'
  BY DEF EPollMoves, Base, LowInv, Lowest, Kept, netVars, mockVars, uiVars
<1>4. Base' /\ \A c \in Conns : ~SelectHas(c) /\ ~SelectHas(c)'
  BY <1>1, <1>2, <1>3, EPollFrame DEF netVars
<1>5. \A c \in Conns : EPollHas(c) /\ ePc # "header" => EPollHas(c)' /\ ePc' # "header"
  BY DEF EPollHas, netVars
<1>6. \A c \in Conns : Talking(c)'
  BY <1>4, <1>5, TalksOn DEF EPollMoves, netVars, mockVars
<1> QED BY <1>4, <1>6

\* The crux: while the epoll server lists anything, the client's socket is the
\* lowest number that was free, so that an entry left in the list can be no
\* socket but one the server has accepted.
LEMMA ListedAreServed ==
  ASSUME Base, EPollPort \in running, eServerFd \notin ToSet(eClientFds),
         NEW f \in ToSet(eClientFds), E!Pollable(f)
  PROVE  ServedEnd(f, EPollPort)
<1>1. SelectIdle
  BY EPollWorld
<1>2. f \in Fds /\ eClientFds # << >>
  <2>1. ToSet(<< >>) = {}
    BY EmptySeq DEF ToSet
  <2>2. ToSet(eClientFds) \subseteq Fds
    BY DEF Base, Types, EPollTypes, ToSet
  <2> QED BY <2>1, <2>2
<1>3. f # socket /\ f # NoFd
  <2>1. PICK k \in Fds : Lowest(k)
    BY <1>2 DEF Base, LowInv
  <2>2. f > k
    BY <2>1 DEF Lowest
  <2>3. socket = k \/ socket = NoFd
    BY <2>1 DEF Lowest
  <2> QED BY <1>2, <2>2, <2>3 DEF Fds, NoFd
<1>4. Owned(f) /\ file[f].kind \in {"srv", "cli", "listen", "raw"}
  BY <1>2 DEF Base, NetInv, E!Pollable
<1>5. f \notin {socket, sServerFd, eServerFd} /\ ~Over
  BY <1>1, <1>2, <1>3 DEF SelectIdle, Base, EPollInv, Over
<1>6. file[f].kind = "srv"
  BY <1>4, <1>5 DEF Owned
<1>7. ToSet(sClientFds) = {}
  BY <1>1, EmptySeq DEF SelectIdle, ToSet
<1>8. file[f].id \in Conns /\ dest[file[f].id] = EPollPort
  BY <1>4, <1>6, <1>7 DEF Owned
<1>9. file[f] = End("srv", file[f].id)
  BY <1>2, <1>6 DEF Base, Types, NetTypeOK, Files, End
<1> QED BY <1>8, <1>9 DEF ServedEnd

\* The calls that fail, epoll_wait(), the batch, and the registration of the list.
LEMMA EPollSilentStep ==
  ASSUME IInv, EPollMoves,
         \/ /\ \/ E!SocketFails \/ E!Bind \/ E!BindFails \/ E!ListenFails("create")
               \/ E!AcceptFails("register") \/ E!ReadFails \/ E!Interrupted
            /\ UNCHANGED <<epollfd, interest, batch>>
         \/ E!EpollCreateFails \/ E!EpollWait
         \/ E!HandleListener \/ E!HandleClient \/ E!BatchOver \/ E!Register
  PROVE  IInv'
<1>1. EPollTypes /\ EPollInv /\ cut \subseteq Conns /\ Base
  BY DEF IInv, Base, Types
<1>2. /\ \A f, p : UNCHANGED netVars => (ServedEnd(f, p)' <=> ServedEnd(f, p))
      /\ UNCHANGED socket
  BY DEF ServedEnd, EPollMoves, netVars, mockVars
<1>3. CASE /\ \/ E!SocketFails \/ E!Bind \/ E!BindFails \/ E!ListenFails("create")
              \/ E!AcceptFails("register")
           /\ UNCHANGED <<epollfd, interest, batch>>
  <2>1. /\ UNCHANGED netVars
        /\ \/ ePc = "idle" /\ ePc' = "returned" /\ eServerFd' = eServerFd
           \/ ePc = "bind" /\ ePc' = "returned" /\ eServerFd' = NoFd
           \/ ePc = "bind" /\ ePc' = "listen" /\ eServerFd' = eServerFd
           \/ ePc = "listen" /\ ePc' = "create" /\ eServerFd' = eServerFd
           \/ ePc = "accept" /\ ePc' = "register" /\ eServerFd' = eServerFd
        /\ UNCHANGED <<eClientFds, eClientFD, eLen, cut, epollfd, interest, batch>>
    BY <1>3 DEF E!SocketFails, E!Bind, E!BindFails, E!ListenFails, E!AcceptFails, E!NoPushBack,
                E!NoFd, NoFd, E!netVars, netVars
  <2>2. EPollTypes' /\ cut' \subseteq Conns
    BY <1>1, <2>1 DEF EPollTypes
  <2>3. EPollInv'
    <3>1. file' = file /\ socket' = socket
      BY <1>2, <2>1 DEF netVars
    <3>2. \A f \in Fds : ServedEnd(f, EPollPort)' <=> ServedEnd(f, EPollPort)
      BY <1>2, <2>1, EchoProcessAssumption
    <3>3. UNCHANGED <<eClientFds, eClientFD, interest, batch>>
      BY <2>1
    <3>4. CASE ePc \in {"idle", "bind"} /\ ePc' = "returned"
      BY <1>1, <3>1, <3>2, <3>3, <3>4 DEF EPollInv
    <3>5. CASE /\ eServerFd' = eServerFd
               /\ \/ ePc = "bind" /\ ePc' = "listen"
                  \/ ePc = "listen" /\ ePc' = "create"
                  \/ ePc = "accept" /\ ePc' = "register"
      BY <1>1, <3>1, <3>2, <3>3, <3>5 DEF EPollInv, ToSet
    <3> QED BY <2>1, <3>4, <3>5
  <2> QED BY <2>1, <2>2, <2>3, EPollSilent DEF EPollGoesOn
<1>4. CASE (E!ReadFails \/ E!Interrupted) /\ UNCHANGED <<epollfd, interest, batch>>
  <2>1. /\ ePc \in {"header", "body"} /\ ePc' = "drop" /\ UNCHANGED netVars
        /\ UNCHANGED <<eServerFd, eClientFds, eClientFD, eLen, epollfd, interest, batch>>
    BY <1>4 DEF E!ReadFails, E!Interrupted, E!netVars, netVars
  <2>2. cut' \subseteq Conns
    <3>1. \A c : End("srv", c).id = c
      BY DEF End
    <3>2. file[eClientFD].id \in Conns
      BY <1>1, <2>1, <3>1, EPollHand DEF ServedEnd
    <3> QED BY <1>1, <1>4, <3>2 DEF E!ReadFails, E!Interrupted
  <2>3. EPollTypes'
    BY <1>1, <2>1 DEF EPollTypes
  <2>4. EPollInv'
    BY <1>1, <1>2, <2>1, EchoProcessAssumption DEF EPollInv, netVars
  <2> QED BY <2>1, <2>2, <2>3, <2>4, EPollSilent DEF EPollGoesOn
<1>5. CASE E!EpollCreateFails
  <2>1. /\ ePc = "create" /\ ePc' = "wait" /\ UNCHANGED netVars /\ epollfd' = E!Failed
        /\ UNCHANGED <<eServerFd, eClientFds, eClientFD, eLen, cut, interest, batch>>
    BY <1>5 DEF E!EpollCreateFails, E!netVars, netVars
  <2>2. EPollTypes' /\ cut' \subseteq Conns
    BY <1>1, <2>1 DEF EPollTypes
  <2>3. EPollInv'
    BY <1>1, <1>2, <2>1, EchoProcessAssumption DEF EPollInv, netVars
  <2> QED BY <2>1, <2>2, <2>3, EPollSilent DEF EPollGoesOn
<1>6. CASE E!EpollWait
  <2>1. /\ ePc = "wait" /\ ePc' = "handle" /\ UNCHANGED netVars
        /\ UNCHANGED <<eServerFd, eClientFds, eClientFD, eLen, cut, epollfd>>
        /\ batch' \subseteq {f \in Fds : interest[f] \in {"level", "armed"} /\ E!Reported(f)}
        /\ interest' = [f \in Fds |->
             IF E!Reported(f) /\ interest[f] = "armed" THEN "spent" ELSE interest[f]]
    BY <1>6 DEF E!EpollWait, E!Watching, E!Disarmed, E!Reported, E!Fds, Fds, E!netVars, netVars
  <2>2. EPollTypes' /\ cut' \subseteq Conns
    BY <1>1, <2>1 DEF EPollTypes
  <2>3. \A f \in Fds :
          /\ interest'[f] = "level" => interest[f] = "level"
          /\ interest'[f] \in {"armed", "spent"} => interest[f] \in {"armed", "spent"}
          /\ f \in batch' => interest[f] = "level" \/ interest'[f] = "spent"
    BY <2>1
  <2>4. EPollInv'
    BY <1>1, <1>2, <2>1, <2>2, <2>3, EchoProcessAssumption DEF EPollInv, EPollTypes, netVars
  <2> QED BY <2>1, <2>2, <2>4, EPollSilent DEF EPollGoesOn
<1>7. CASE E!HandleListener \/ E!BatchOver
  <2>1. /\ ePc = "handle" /\ ePc' \in {"accept", "wait"} /\ UNCHANGED netVars
        /\ batch' \subseteq batch
        /\ UNCHANGED <<eServerFd, eClientFds, eClientFD, eLen, cut, epollfd, interest>>
    BY <1>7 DEF E!HandleListener, E!BatchOver, E!netVars, netVars
  <2>2. EPollTypes' /\ cut' \subseteq Conns
    BY <1>1, <2>1 DEF EPollTypes
  <2>3. EPollInv'
    BY <1>1, <1>2, <2>1, EchoProcessAssumption DEF EPollInv, netVars
  <2> QED BY <2>1, <2>2, <2>3, EPollSilent DEF EPollGoesOn
<1>8. CASE E!HandleClient
  <2>1. /\ ePc = "handle" /\ ePc' = "header" /\ UNCHANGED netVars
        /\ eClientFD' \in batch \ {eServerFd} /\ batch' = batch \ {eClientFD'}
        /\ UNCHANGED <<eServerFd, eClientFds, eLen, cut, epollfd, interest>>
    BY <1>8 DEF E!HandleClient, E!ClientEvents, E!netVars, netVars
  <2>2. eClientFD' \in Fds /\ interest[eClientFD'] = "spent"
    BY <1>1, <2>1 DEF EPollTypes, EPollInv
  <2>3. EPollTypes' /\ cut' \subseteq Conns
    BY <1>1, <2>1, <2>2 DEF EPollTypes
  <2>4. EPollInv'
    BY <1>1, <1>2, <2>1, <2>2, EchoProcessAssumption DEF EPollInv, netVars
  <2> QED BY <2>1, <2>3, <2>4, EPollSilent DEF EPollGoesOn
<1>9. CASE E!Register
  <2>1. /\ ePc = "register" /\ ePc' = "handle" /\ UNCHANGED netVars
        /\ UNCHANGED <<eServerFd, eClientFds, eClientFD, eLen, cut, epollfd, batch>>
        /\ interest' = [f \in Fds |->
             IF f \in ToSet(eClientFds) /\ interest[f] = "none" /\ E!Pollable(f)
               THEN "armed" ELSE interest[f]]
    BY <1>9 DEF E!Register, E!ToRegister, E!ToSet, ToSet, E!Fds, Fds, E!netVars, netVars
  <2>2. EPollTypes' /\ cut' \subseteq Conns
    <3>1. interest' \in [Fds -> {"none", "level", "armed", "spent"}]
      BY <1>1, <2>1 DEF EPollTypes
    <3> QED BY <1>1, <2>1, <3>1 DEF EPollTypes
  <2>3. EPollPort \in running /\ eServerFd \notin ToSet(eClientFds)
    BY <1>1, <2>1, EPollWorld DEF EPollMoves, EPollInv
  <2>4. ASSUME NEW f \in Fds, interest'[f] \in {"armed", "spent"}
        PROVE  ServedEnd(f, EPollPort)
    <3>1. CASE interest'[f] = interest[f]
      BY <1>1, <2>4, <3>1 DEF EPollInv
    <3>2. CASE interest'[f] # interest[f]
      BY <1>1, <2>1, <2>3, <3>2, ListedAreServed
    <3> QED BY <3>1, <3>2
  <2>5. \A f \in Fds : /\ interest'[f] = "level" => interest[f] = "level"
                       /\ interest[f] = "spent" => interest'[f] = "spent"
    BY <2>1
  <2>6. batch \subseteq Fds
    BY <1>1 DEF EPollTypes
  <2>7. EPollInv'
    BY <1>1, <1>2, <2>1, <2>4, <2>5, <2>6, EchoProcessAssumption DEF EPollInv, netVars
  <2> QED BY <2>1, <2>2, <2>7, EPollSilent DEF EPollGoesOn
<1> QED BY <1>3, <1>4, <1>5, <1>6, <1>7, <1>8, <1>9

\* The frame of a step that moves no unit.
LEMMA EPollMovesOn ==
  ASSUME IInv, EPollMoves, EPollTypes', NetTypeOK', cut' \subseteq Conns, NetInv', EPollInv',
         LowInv', socket # NoFd => file'[socket] = file[socket],
         UNCHANGED <<inbox, size, sent>>,
         \A c \in Conns :
           /\ end'[c]["cli"] = end[c]["cli"]
           /\ \/ end'[c]["srv"] = end[c]["srv"]
              \/ end[c]["srv"] \in {"queued", "open"} /\ end'[c]["srv"] \in {"open", "closed"}
           /\ EPollHas(c) /\ ePc # "header" => end'[c]["srv"] = "closed",
         ePc' # "body"
  PROVE  IInv'
<1>1. Base' /\ \A c \in Conns : ~SelectHas(c) /\ ~SelectHas(c)'
  BY EPollFrame DEF IInv
<1>2. \A c \in Conns : Talking(c)'
  BY <1>1, TalksOn DEF IInv, EPollMoves, mockVars
<1> QED BY <1>1, <1>2 DEF IInv

\* The client's socket keeps its number's place when no new file appears beside a
\* list, and none of the files below it that count is closed.
LEMMA LowStays ==
  ASSUME Base, EPollMoves, UNCHANGED eClientFds,
         \A g \in Fds : file[g] # Free /\ file[g].kind \notin {"srv", "cli"} =>
           file'[g] # Free /\ file'[g].kind \notin {"srv", "cli"},
         eClientFds = << >> \/ \A g \in Fds : file[g] = Free => file'[g] = Free
  PROVE  LowInv'
<1> USE DEF EPollMoves, mockVars, uiVars
<1> SUFFICES ASSUME socket # NoFd \/ eClientFds # << >>
             PROVE  \E k \in Fds : Lowest(k)'
  BY DEF LowInv
<1>1. EPollPort \in running
  BY EPollWorld
<1>2. PICK k \in Fds : Lowest(k)
  BY <1>1 DEF Base, LowInv
<1>3. \A g \in Fds : g < k => Kept(g)'
  BY <1>2 DEF Lowest, Kept
<1>4. socket = k \/ (socket = NoFd /\ file'[k] = Free)
  BY <1>2 DEF Lowest
<1>5. Lowest(k)'
  BY <1>2, <1>3, <1>4 DEF Lowest
<1> QED BY <1>5

LEMMA EPollCreateSocketStep ==
  ASSUME IInv, EPollMoves, E!CreateSocket, UNCHANGED <<epollfd, interest, batch>>
  PROVE  IInv'
<1>1. PICK f \in Fds :
        /\ file[f] = Free /\ file' = [file EXCEPT ![f] = RawSocket] /\ eServerFd' = f
        /\ UNCHANGED linkVars /\ ePc = "idle" /\ ePc' = "bind"
        /\ UNCHANGED <<eClientFds, eClientFD, eLen, cut>>
  BY DEF E!CreateSocket, E!LowestFree, E!Fds, E!Free, E!RawSocket, E!linkVars,
         LowestFree, Fds, Free, RawSocket, linkVars
<1>2. Base /\ EPollInv /\ eServerFd = NoFd
  BY <1>1 DEF IInv, Base, EPollInv
<1>3. eClientFds = << >> /\ batch = {} /\ \A g \in Fds : interest[g] = "none"
  BY <1>1, <1>2 DEF EPollInv
<1>4. sServerFd' = sServerFd /\ sClientFds' = sClientFds /\ UNCHANGED mockVars
  BY DEF EPollMoves, sVars
<1>5. /\ NetTypeOK' /\ NetInv'
      /\ file'[f] = RawSocket /\ \A g \in Fds \ {f} : file'[g] = file[g]
      /\ f # socket
  <2>1. {sServerFd, eServerFd} \ {NoFd} \subseteq {sServerFd', eServerFd'} /\ (Over => Over')
    BY <1>1, <1>2, <1>4 DEF Over, EPollMoves, sVars
  <2> QED BY <1>1, <1>2, <1>4, <2>1, FreshNet
<1>6. EPollTypes' /\ cut' \subseteq Conns
  BY <1>1, <1>2 DEF Base, Types, EPollTypes
<1>7. EPollInv'
  BY <1>1, <1>3, <1>4, <1>5 DEF EPollInv, mockVars
<1>8. LowInv'
  BY <1>1, <1>2, <1>3, <1>5, LowStays DEF Free
<1>9. socket # NoFd => file'[socket] = file[socket]
  BY <1>2, <1>5, SocketKind
<1> QED BY <1>1, <1>5, <1>6, <1>7, <1>8, <1>9, EPollMovesOn DEF linkVars, EPollHas

LEMMA EPollCreateStep ==
  ASSUME IInv, EPollMoves, E!EpollCreate
  PROVE  IInv'
<1>1. PICK f \in Fds :
        /\ file[f] = Free /\ file' = [file EXCEPT ![f] = EpollFile] /\ epollfd' = f
        /\ interest' = [interest EXCEPT ![eServerFd] = "level"]
        /\ UNCHANGED linkVars /\ ePc = "create" /\ ePc' = "wait"
        /\ UNCHANGED <<eServerFd, eClientFds, eClientFD, eLen, cut, batch>>
  BY DEF E!EpollCreate, E!LowestFree, E!Fds, E!Free, E!EpollFile, E!linkVars, E!ListenerEvents,
         LowestFree, Fds, Free, EpollFile, linkVars
<1>2. /\ Base /\ EPollInv /\ EPollTypes
      /\ eServerFd \in Fds /\ eServerFd # socket
      /\ file[eServerFd] \in {Listener(EPollPort), RawSocket}
  BY <1>1 DEF IInv, Base, Types, EPollInv
<1>3. /\ eClientFds = << >> /\ batch = {} /\ \A g \in Fds : interest[g] = "none"
      /\ eServerFd \notin ToSet(eClientFds)
  BY <1>1, <1>2 DEF EPollInv
<1>4. sServerFd' = sServerFd /\ sClientFds' = sClientFds /\ UNCHANGED mockVars
  BY DEF EPollMoves, sVars
<1>5. /\ NetTypeOK' /\ NetInv'
      /\ file'[f] = EpollFile /\ \A g \in Fds \ {f} : file'[g] = file[g]
      /\ f # socket
  <2>1. /\ EpollFile # RawSocket /\ (Over => Over')
        /\ {sServerFd, eServerFd} \ {NoFd} \subseteq {sServerFd', eServerFd'}
    BY <1>1, <1>4 DEF EpollFile, RawSocket, Over, EPollMoves, sVars
  <2> QED BY <1>1, <1>2, <1>4, <2>1, FreshNet
<1>6. \A g \in Fds : interest'[g] = IF g = eServerFd THEN "level" ELSE "none"
  BY <1>1, <1>2, <1>3 DEF EPollTypes
<1>7. EPollTypes' /\ cut' \subseteq Conns
  <2>1. interest' \in [Fds -> {"none", "level", "armed", "spent"}]
    BY <1>1, <1>2 DEF EPollTypes
  <2> QED BY <1>1, <1>2, <2>1 DEF Base, Types, EPollTypes
<1>8. EPollInv'
  <2>1. file'[eServerFd] = file[eServerFd]
    BY <1>1, <1>2, <1>5 DEF Free, Listener, RawSocket
  <2> QED BY <1>1, <1>2, <1>3, <1>4, <1>6, <2>1 DEF EPollInv, mockVars
<1>9. LowInv'
  BY <1>1, <1>2, <1>3, <1>5, LowStays DEF Free
<1>10. socket # NoFd => file'[socket] = file[socket]
  BY <1>2, <1>5, SocketKind
<1> QED BY <1>1, <1>5, <1>7, <1>8, <1>9, <1>10, EPollMovesOn DEF linkVars, EPollHas

LEMMA EPollListenStep ==
  ASSUME IInv, EPollMoves, E!Listen("create"), UNCHANGED <<epollfd, interest, batch>>
  PROVE  IInv'
<1>1. /\ file' = [file EXCEPT ![eServerFd] = Listener(EPollPort)]
      /\ UNCHANGED linkVars /\ ePc = "listen" /\ ePc' = "create"
      /\ UNCHANGED <<eServerFd, eClientFds, eClientFD, eLen, cut>>
  BY DEF E!Listen, E!Listener, E!linkVars, Listener, linkVars
<1>2. /\ Base /\ EPollInv
      /\ eServerFd \in Fds /\ file[eServerFd] = RawSocket /\ eServerFd # socket
      /\ eClientFds = << >> /\ batch = {} /\ \A g \in Fds : interest[g] = "none"
  BY <1>1 DEF IInv, Base, EPollInv
<1>3. sServerFd' = sServerFd /\ sClientFds' = sClientFds /\ UNCHANGED mockVars
  BY DEF EPollMoves, sVars
<1>4. /\ NetTypeOK' /\ NetInv'
      /\ file'[eServerFd] = Listener(EPollPort)
      /\ \A g \in Fds \ {eServerFd} : file'[g] = file[g]
  <2>1. Over => Over'
    BY <1>1 DEF Over, EPollMoves, sVars
  <2> QED BY <1>1, <1>2, <1>3, <2>1, BoundNet, EchoProcessAssumption
<1>5. EPollTypes' /\ cut' \subseteq Conns
  BY <1>1, <1>2 DEF Base, Types, EPollTypes
<1>6. EPollInv'
  <2>1. ToSet(<< >>) = {}
    BY EmptySeq DEF ToSet
  <2> QED BY <1>1, <1>2, <1>3, <1>4, <2>1 DEF EPollInv, mockVars
<1>7. LowInv'
  <2>1. Listener(EPollPort) # Free /\ Listener(EPollPort).kind \notin {"srv", "cli"}
    BY DEF Listener, Free
  <2> QED BY <1>1, <1>2, <1>4, <2>1, LowStays
<1>8. socket # NoFd => file'[socket] = file[socket]
  BY <1>2, <1>4, SocketKind
<1> QED BY <1>1, <1>4, <1>5, <1>6, <1>7, <1>8, EPollMovesOn DEF linkVars, EPollHas

\* A connection is accepted while the client has its socket open: the number it
\* gets is above that of the socket.
LEMMA EPollAcceptStep ==
  ASSUME IInv, EPollMoves, E!Accept("register"), UNCHANGED <<epollfd, interest, batch>>
  PROVE  IInv'
<1>1. PICK f \in Fds :
        /\ file[f] = Free /\ backlog[EPollPort] # << >>
        /\ file' = [file EXCEPT ![f] = End("srv", Head(backlog[EPollPort]))]
        /\ eClientFds' = Append(eClientFds, f)
        /\ end' = [end EXCEPT ![Head(backlog[EPollPort])]["srv"] = "open"]
        /\ backlog' = [backlog EXCEPT ![EPollPort] = Tail(@)]
        /\ ePc = "accept" /\ ePc' = "register"
        /\ UNCHANGED <<inbox, size, sent, eServerFd, eClientFD, eLen, cut>>
  BY DEF E!Accept, E!LowestFree, E!Fds, E!Free, E!End, E!PushBack, LowestFree, Fds, Free, End
<1>2. Base /\ EPollInv /\ EPollTypes /\ eClientFds \in Seq(Fds)
  BY DEF IInv, Base, Types, EPollTypes
<1>3. sServerFd' = sServerFd /\ sClientFds' = sClientFds /\ UNCHANGED mockVars
  BY DEF EPollMoves, sVars
<1>4. ToSet(eClientFds') = ToSet(eClientFds) \cup {f}
  BY <1>1, <1>2, AppendElements
<1>5. /\ NetTypeOK' /\ NetInv' /\ socket # NoFd /\ f # socket
      /\ \A g \in Fds \ {f} : file'[g] = file[g]
      /\ ServedEnd(f, EPollPort)'
      /\ \A d \in Conns : /\ end'[d]["cli"] = end[d]["cli"]
                          /\ \/ end'[d]["srv"] = end[d]["srv"]
                             \/ end[d]["srv"] = "queued" /\ end'[d]["srv"] = "open"
  <2>1. Over => Over'
    BY <1>1 DEF Over, EPollMoves, sVars
  <2> QED BY <1>1, <1>2, <1>3, <1>4, <2>1, AcceptedNet, EchoProcessAssumption
<1>6. EPollTypes' /\ cut' \subseteq Conns
  <2>1. eClientFds' \in Seq(Fds)
    BY <1>1, <1>2, AppendProperties
  <2> QED BY <1>1, <1>2, <2>1 DEF Base, Types, EPollTypes
<1>7. /\ eServerFd \in Fds /\ eServerFd # socket /\ f # eServerFd
      /\ file[eServerFd] \in {Listener(EPollPort), RawSocket}
      /\ eServerFd \notin ToSet(eClientFds)
  BY <1>1, <1>2 DEF EPollInv, Free, Listener, RawSocket
<1>8. EPollInv'
  <2>1. \A g \in Fds : interest[g] \in {"armed", "spent"} =>
          ServedEnd(g, EPollPort) /\ file[g].kind = "srv"
    BY <1>2, ServedKind DEF EPollInv
  <2>2. \A g \in Fds : interest[g] \in {"armed", "spent"} => ServedEnd(g, EPollPort)'
    BY <1>1, <1>3, <1>5, <2>1, ServedStays, EchoProcessAssumption DEF Free
  <2>3. file'[eServerFd] = file[eServerFd] /\ eServerFd \notin ToSet(eClientFds')
    BY <1>4, <1>5, <1>7
  <2> QED BY <1>1, <1>2, <1>3, <1>7, <2>2, <2>3 DEF EPollInv, mockVars
<1>9. LowInv'
  <2>1. EPollPort \in running /\ UNCHANGED socket
    BY <1>2, <1>3, EPollWorld DEF EPollMoves, mockVars
  <2>2. PICK k \in Fds : Lowest(k)
    BY <1>2, <1>5, <2>1 DEF Base, LowInv
  <2>3. socket = k /\ \A g \in Fds : g < k => Kept(g)
    BY <1>5, <2>2 DEF Lowest
  <2>4. f > k
    <3>1. ~ (f < k)
      BY <1>1, <2>3 DEF Kept
    <3>2. f \in Int /\ k \in Int /\ f # k
      BY <1>5, <2>3 DEF Fds
    <3> QED BY <3>1, <3>2
  <2>5. \A g \in Fds : g < k => Kept(g)'
    BY <1>1, <1>5, <2>1, <2>3 DEF Kept
  <2>6. \A g \in ToSet(eClientFds') : g > k
    BY <1>4, <2>2, <2>4 DEF Lowest
  <2>7. Lowest(k)'
    BY <2>1, <2>3, <2>5, <2>6 DEF Lowest
  <2> QED BY <2>7 DEF LowInv
<1>10. socket # NoFd => file'[socket] = file[socket]
  BY <1>2, <1>5, SocketKind
<1> QED BY <1>1, <1>5, <1>6, <1>8, <1>9, <1>10, EPollMovesOn DEF EPollHas

\* A server has read a part of the message of c and sent it back.
LEMMA EPollReads ==
  ASSUME IInv, EPollMoves, NEW c \in Conns, NEW n \in Nat,
         file[eClientFD] = End("srv", c), Len(inbox[c]["srv"]) >= n, WriteBack(eClientFD, n),
         ePc \in {"header", "body"}, ePc' \in {"body", "drop"}, eLen' \in Nat,
         UNCHANGED <<eServerFd, eClientFds, eClientFD, cut, epollfd, interest, batch>>
  PROVE  /\ Base' /\ UNCHANGED <<file, backlog, end, size, sent>>
         /\ \A d \in Conns : ~SelectHas(d) /\ ~SelectHas(d)'
         /\ \A d \in Conns \ {c} : Talking(d)'
<1>1. Base /\ EPollInv
  BY DEF IInv, Base
<1>2. eClientFD \in Fds
  BY <1>1, EPollHand
<1>3. /\ UNCHANGED <<file, backlog, end, size, sent>>
      /\ \A d \in Conns \ {c} : inbox'[d] = inbox[d]
  BY <1>1, <1>2, WriteBackEffect DEF Base, Types
<1>4. NetTypeOK' /\ NetInv'
  <2>1. Over => Over'
    BY DEF Over, EPollMoves, sVars
  <2> QED BY <1>1, <1>2, <2>1, WrittenBackNet DEF EPollMoves, sVars
<1>5. EPollTypes' /\ cut' \subseteq Conns
  BY <1>1 DEF Base, Types, EPollTypes
<1>6. EPollInv'
  <2>1. \A f \in Fds : ServedEnd(f, EPollPort)' <=> ServedEnd(f, EPollPort)
    BY <1>3 DEF ServedEnd, EPollMoves, mockVars
  <2> QED BY <1>1, <1>3, <2>1 DEF EPollInv, EPollMoves, mockVars
<1>7. LowInv'
  BY <1>1, <1>3, LowStays
<1>8. Base' /\ \A d \in Conns : ~SelectHas(d) /\ ~SelectHas(d)'
  BY <1>1, <1>3, <1>4, <1>5, <1>6, <1>7, EPollFrame
<1>9. ASSUME NEW d \in Conns \ {c} PROVE Talking(d)'
  <2>1. ~EPollHas(d) /\ ~EPollHas(d)'
    BY <1>3 DEF EPollHas, End
  <2> QED BY <1>3, <1>8, <2>1, TalksOn DEF IInv, EPollMoves, mockVars
<1> QED BY <1>3, <1>8, <1>9

LEMMA EPollReadHeaderStep ==
  ASSUME IInv, EPollMoves, E!ReadHeader, UNCHANGED <<epollfd, interest, batch>>
  PROVE  IInv'
<1>1. /\ ePc = "header" /\ ePc' = "body"
      /\ UNCHANGED <<eServerFd, eClientFds, eClientFD, cut>>
      /\ Arrived(eClientFD, HeaderLen) /\ WriteBack(eClientFD, HeaderLen)
      /\ eLen' \in IF FirstUnits(eClientFD, HeaderLen) = Units(HeaderLen)
                     THEN {size[file[eClientFD].id]} ELSE Sizes
  BY DEF E!ReadHeader, E!Arrived, E!Connected, E!Inbox, E!EchoHeader, E!WriteBack, E!PeerGone,
         E!Peer, E!Ends, E!FirstUnits, E!Announced,
         Arrived, Connected, Inbox, WriteBack, PeerGone, Peer, Ends, FirstUnits, Units
<1>2. Base
  BY DEF IInv
<1>3. PICK c \in Conns : file[eClientFD] = End("srv", c)
  BY <1>1, <1>2, EPollHand DEF ServedEnd
<1>4. eClientFD \in Fds /\ file[eClientFD].kind = "srv" /\ file[eClientFD].id = c
  BY <1>1, <1>2, <1>3, EPollHand DEF End
<1>5. end[c]["srv"] = "open"
  BY <1>2, <1>4 DEF Base, NetInv, Owned
<1>6. HeaderLen \in Nat /\ size[c] \in Nat /\ Len(inbox[c]["srv"]) >= HeaderLen
  BY <1>1, <1>2, <1>4, SocketsAssumption DEF Base, Types, NetTypeOK, Arrived, Inbox
<1>7. Unanswered(c) /\ Talking(c)
  <2>1. ~SelectHas(c)
    BY <1>1, <1>2, EPollWorld DEF EPollMoves, SelectIdle, SelectHas
  <2> QED BY <1>1, <1>5, <2>1 DEF IInv, Talking
<1>8. UNCHANGED mockVars
  BY DEF EPollMoves
<1>9. /\ HeaderEchoed(c)' /\ FirstUnits(eClientFD, HeaderLen) = Units(HeaderLen)
  BY <1>1, <1>2, <1>3, <1>4, <1>6, <1>7, <1>8, HeaderGoesBack
<1>10. eLen' = size[c]
  BY <1>1, <1>4, <1>9
<1>11. /\ Base' /\ UNCHANGED <<file, backlog, end, size, sent>>
       /\ \A d \in Conns : ~SelectHas(d) /\ ~SelectHas(d)'
       /\ \A d \in Conns \ {c} : Talking(d)'
  BY <1>1, <1>3, <1>6, <1>10, EPollReads
<1>12. Talking(c)'
  <2>1. HeaderLen \in 0 .. HeaderLen + size[c]
    BY <1>6
  <2>2. EPollHas(c)'
    BY <1>1, <1>3, <1>11 DEF EPollHas
  <2>3. Echoed(c, HeaderLen)'
    BY <1>9 DEF HeaderEchoed
  <2>4. \E n \in 0 .. HeaderLen + size'[c] : Echoed(c, n)'
    BY <1>11, <2>1, <2>3
  <2> QED BY <1>1, <1>7, <1>8, <1>9, <1>10, <1>11, <2>2, <2>4 DEF Talking, mockVars
<1> QED BY <1>11, <1>12 DEF IInv

LEMMA EPollReadBodyStep ==
  ASSUME IInv, EPollMoves, E!ReadBody, UNCHANGED <<epollfd, interest, batch>>
  PROVE  IInv'
<1>1. /\ ePc = "body" /\ ePc' = "drop"
      /\ UNCHANGED <<eServerFd, eClientFds, eClientFD, eLen, cut>>
      /\ Arrived(eClientFD, eLen) /\ WriteBack(eClientFD, eLen)
  BY DEF E!ReadBody, E!Arrived, E!Connected, E!Inbox, E!WriteBack, E!PeerGone,
         E!Peer, E!Ends, E!FirstUnits,
         Arrived, Connected, Inbox, WriteBack, PeerGone, Peer, Ends, FirstUnits
<1>2. Base
  BY DEF IInv
<1>3. PICK c \in Conns : file[eClientFD] = End("srv", c)
  BY <1>1, <1>2, EPollHand DEF ServedEnd
<1>4. eClientFD \in Fds /\ file[eClientFD].kind = "srv" /\ file[eClientFD].id = c
  BY <1>1, <1>2, <1>3, EPollHand DEF End
<1>5. end[c]["srv"] = "open"
  BY <1>2, <1>4 DEF Base, NetInv, Owned
<1>6. HeaderEchoed(c) /\ eLen = size[c] /\ Talking(c)
  BY <1>1, <1>3 DEF IInv, Talking, EPollHas
<1>7. /\ HeaderLen \in Nat /\ size[c] \in Nat /\ Len(inbox[c]["srv"]) >= size[c]
      /\ WriteBack(eClientFD, size[c])
  BY <1>1, <1>2, <1>4, <1>6, SocketsAssumption DEF Base, Types, NetTypeOK, Arrived, Inbox
<1>8. UNCHANGED mockVars
  BY DEF EPollMoves
<1>9. Echoed(c, HeaderLen + size[c])'
  BY <1>2, <1>3, <1>4, <1>6, <1>7, <1>8, BodyGoesBack
<1>10. /\ Base' /\ UNCHANGED <<file, backlog, end, size, sent>>
       /\ \A d \in Conns : ~SelectHas(d) /\ ~SelectHas(d)'
       /\ \A d \in Conns \ {c} : Talking(d)'
  BY <1>1, <1>3, <1>6, <1>7, EPollReads
<1>11. Talking(c)'
  <2>1. HeaderLen + size[c] \in 0 .. HeaderLen + size[c]
    BY <1>7
  <2>2. EPollHas(c)'
    BY <1>1, <1>3, <1>10 DEF EPollHas
  <2>3. \E n \in 0 .. HeaderLen + size'[c] : Echoed(c, n)'
    BY <1>9, <1>10, <2>1
  <2> QED BY <1>1, <1>5, <1>6, <1>8, <1>10, <2>2, <2>3 DEF Talking, mockVars
<1> QED BY <1>10, <1>11 DEF IInv

\* close() of the client in hand, whose number stays in the list.
LEMMA EPollDropStep ==
  ASSUME IInv, EPollMoves, E!DropClient
  PROVE  IInv'
<1>1. /\ ePc = "drop" /\ ePc' = "handle" /\ Close(eClientFD)
      /\ eClientFD' = NoFd /\ eLen' = 0 /\ interest' = [interest EXCEPT ![eClientFD] = "none"]
      /\ UNCHANGED <<eServerFd, eClientFds, cut, epollfd, batch>>
  BY DEF E!DropClient, E!Drop, E!Close, E!Ended, E!End, E!Ends, E!Free, E!ToSet, E!NoFd,
         Close, Ended, End, Ends, Free, ToSet, NoFd
<1>2. Base /\ EPollInv /\ EPollTypes /\ UNCHANGED mockVars
  BY DEF IInv, Base, Types, EPollMoves
<1>3. PICK c \in Conns : file[eClientFD] = End("srv", c)
  BY <1>1, <1>2, EPollHand DEF ServedEnd
<1>4. eClientFD \in Fds /\ eClientFD \notin batch
  BY <1>1, <1>2, EPollHand
<1>5. /\ NetTypeOK' /\ NetInv' /\ eClientFD # socket
      /\ file'[eClientFD] = Free /\ \A g \in Fds \ {eClientFD} : file'[g] = file[g]
      /\ UNCHANGED <<inbox, size, sent>> /\ end[c]["srv"] = "open"
      /\ end'[c]["srv"] = "closed" /\ end'[c]["cli"] = end[c]["cli"]
      /\ \A d \in Conns \ {c} : /\ end'[d]["srv"] = end[d]["srv"]
                                /\ end'[d]["cli"] = end[d]["cli"]
  <2>1. Over => Over'
    BY <1>1 DEF Over, EPollMoves, sVars
  <2> QED BY <1>1, <1>2, <1>3, <1>4, <2>1, DroppedNet DEF EPollMoves, sVars
<1>6. EPollTypes' /\ cut' \subseteq Conns
  <2>1. interest' \in [Fds -> {"none", "level", "armed", "spent"}]
    BY <1>1, <1>2 DEF EPollTypes
  <2>2. 0 \in Nat
    OBVIOUS
  <2> QED BY <1>1, <1>2, <2>1, <2>2 DEF Base, Types, EPollTypes
<1>7. EPollInv'
  <2>1. interest'[eClientFD] = "none" /\ \A g \in Fds \ {eClientFD} : interest'[g] = interest[g]
    BY <1>1, <1>2, <1>4 DEF EPollTypes
  <2>2. \A g \in Fds : interest'[g] \in {"armed", "spent"} => ServedEnd(g, EPollPort)'
    BY <1>2, <1>5, <2>1, ServedStays, EchoProcessAssumption DEF EPollInv
  <2>3. /\ eServerFd \in Fds /\ eServerFd # socket
        /\ file[eServerFd] \in {Listener(EPollPort), RawSocket}
        /\ eServerFd \notin ToSet(eClientFds)
    BY <1>1, <1>2 DEF EPollInv
  <2>4. file'[eServerFd] = file[eServerFd]
    BY <1>3, <1>5, <2>3 DEF End, Listener, RawSocket
  <2>5. \A g \in batch : g \in Fds \ {eClientFD}
    BY <1>2, <1>4 DEF EPollTypes
  <2> QED BY <1>1, <1>2, <2>1, <2>2, <2>3, <2>4, <2>5 DEF EPollInv, mockVars
<1>8. LowInv'
  <2>1. file[eClientFD].kind = "srv"
    BY <1>3 DEF End
  <2> QED BY <1>1, <1>2, <1>5, <2>1, LowStays
<1>9. socket # NoFd => file'[socket] = file[socket]
  BY <1>2, <1>5, SocketKind
<1>10. \A d \in Conns : EPollHas(d) => d = c
  BY <1>3 DEF EPollHas, End
<1> QED BY <1>1, <1>5, <1>6, <1>7, <1>8, <1>9, <1>10, EPollMovesOn

LEMMA EPollStep ==
  ASSUME IInv, EPollThread \/ EPollInterrupted
  PROVE  IInv'
<1>1. CASE EPollThread
  <2>1. EPollMoves
    BY <1>1 DEF EPollThread, EPollMoves
  <2> QED BY <1>1, <2>1, EPollSilentStep, EPollCreateSocketStep, EPollCreateStep, EPollListenStep,
             EPollAcceptStep, EPollReadHeaderStep, EPollReadBodyStep, EPollDropStep
             DEF EPollThread, E!Server, E!Inherited
<1>2. CASE EPollInterrupted
  <2>1. EPollMoves
    BY <1>2 DEF EPollInterrupted, EPollMoves, E!Signal, E!Interrupted
  <2> QED BY <1>2, <2>1, EPollSilentStep DEF EPollInterrupted, E!Signal
<1> QED BY <1>1, <1>2

-----------------------------------------------------------------------------
(* The theorems. *)

LEMMA Inductive ==
  ASSUME IInv, EPollPort \notin Disturbed, [Next]_vars
  PROVE  IInv'
BY TapStep, PostedRunsStep, SelectStep, EPollStep, ClientStep, OtherThreadsStep, StutterStep
   DEF Next

\* However many connections, bodies, descriptors and taps, in a process with one of
\* the two servers: the select server beside whatever other threads, or the epoll
\* server beside the client alone, reads, watches and closes connections that it has
\* accepted, and the client's socket is the client's. It says nothing of both servers
\* together, or of other threads beside the epoll server, which the app allows too:
\* the assumption excludes them, and ClosesItsClients fails there.
THEOREM OneServerKeepsApart ==
  ASSUME EPollPort \notin Disturbed
  PROVE  Spec => []EachItsOwn
<1>1. IInv /\ [Next]_vars => IInv'
  BY Inductive
<1> QED BY <1>1, AtFirst, EachItsOwnFollows, PTL DEF Spec

\* What the app reads back from the one server of such a process, in pieces or all
\* at once, and however its conversation ends, is what it sent, from the first unit
\* on.
THEOREM AnswersAreAlwaysRight ==
  ASSUME EPollPort \notin Disturbed
  PROVE  Spec => []AnswersAreRight
<1>1. IInv /\ [Next]_vars => IInv'
  BY Inductive
<1> QED BY <1>1, AtFirst, AnswersFollow, PTL DEF Spec
=============================================================================
