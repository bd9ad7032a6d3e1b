--------------------- MODULE AbstractSocketServerProofs ---------------------
(***************************************************************************)
(* What the two echo servers have in common to prove: the conversation     *)
(* with the clients, kept up by every step of AbstractSocketServer and of  *)
(* its clients, each of which is a step of EchoService or none.            *)
(***************************************************************************)
EXTENDS AbstractSocketServer, SocketsProofs

-----------------------------------------------------------------------------
(* The conversation. *)

LEMMA BaseTypeAtFirst == ASSUME NetInit, BaseInit PROVE BaseTypeOK
BY NetTypeAtFirst, EmptySeq DEF BaseInit, BaseTypeOK

\* What the invariant of each server says of the state they share.
Sound ==
  /\ BaseTypeOK
  /\ \A f \in Fds :
       /\ file[f].kind # "cli"
       /\ file[f].kind = "srv" => file[f].id \in Conns
       /\ file[f].kind = "listen" => file[f] = Listener(Port) /\ f = serverFd
  /\ AtClient => clientFD \in Fds /\ file[clientFD].kind = "srv"
  /\ pc \in {"bind", "listen"} => serverFd \in Fds /\ file[serverFd] = RawSocket
  /\ pc \in {"accept", "close"} =>
       serverFd \in Fds /\ file[serverFd] \in {Listener(Port), RawSocket}

InHand(c) == AtClient /\ file[clientFD] = End("srv", c)

\* A connection is open where one descriptor says so, and waits where the backlog does.
FileLinked(f) ==
  file[f].kind = "srv" =>
    /\ end[file[f].id]["srv"] = "open"
    /\ \A g \in Fds : file[g] = file[f] => g = f

Linked(c) ==
  /\ end[c]["srv"] = "open" => \E f \in Fds : file[f] = End("srv", c)
  /\ end[c]["srv"] = "queued" <=> c \in ToSet(backlog[Port])
  /\ end[c]["srv"] = "none" <=> end[c]["cli"] = "none"
  /\ end[c]["cli"] # "queued"
  /\ end[c]["srv"] = "none" => sent[c] = 0
  /\ sent[c] <= HeaderLen + size[c]

\* How far the answer is.
Unanswered(c) == Piece(inbox[c]["srv"], 0, sent[c]) /\ inbox[c]["cli"] = << >>

HeaderEchoed(c) ==
  /\ Piece(inbox[c]["srv"], HeaderLen, sent[c])
  /\ len = size[c]
  /\ \/ inbox[c]["cli"] = Units(HeaderLen)
     \/ inbox[c]["cli"] = << >> /\ Gone(c)

MayHangUp(c) == inbox[c]["cli"] = Units(HeaderLen + size[c]) \/ Gone(c) \/ c \in cut

Talking(c) ==
  /\ end[c]["srv"] # "closed" /\ ~ (InHand(c) /\ pc \in {"body", "drop"}) => Unanswered(c)
  /\ InHand(c) /\ pc = "body" => HeaderEchoed(c)
  /\ InHand(c) /\ pc = "drop" => MayHangUp(c)
  /\ end[c]["srv"] = "closed" => MayHangUp(c) \/ pc = "returned"
  /\ c \in cut => end[c]["srv"] = "closed" \/ (InHand(c) /\ pc = "drop")
  /\ \E n \in 0 .. HeaderLen + size[c] : inbox[c]["cli"] = Units(n)

Conversations ==
  /\ \A f \in Fds : FileLinked(f)
  /\ \A c \in Conns : Linked(c) /\ Talking(c)
  /\ Distinct(backlog[Port])

\* The abstract phases, case by case, in a state and in the next.
PhaseCases ==
  \A c \in Conns :
    /\ end[c]["srv"] = "queued" => Phase(c) = "waiting"
    /\ end[c]["srv"] \in {"none", "closed"} => Phase(c) = end[c]["srv"]
    /\ end[c]["srv"] = "open" /\ ~ InHand(c) => Phase(c) = "accepted"
    /\ end[c]["srv"] = "open" /\ InHand(c) /\ c \in cut => Phase(c) = "cut"
    /\ end[c]["srv"] = "open" /\ InHand(c) /\ c \notin cut => Phase(c) = "answering"

LEMMA PhasesByCase == PhaseCases /\ PhaseCases'
<1>1. PhaseCases
  BY DEF PhaseCases, Phase, InHand
<1>2. PhaseCases'
  BY DEF PhaseCases, Phase, InHand
<1> QED BY <1>1, <1>2

\* A connection nothing happens to.
Untouched(c) ==
  /\ end'[c] = end[c] /\ inbox'[c] = inbox[c] /\ size'[c] = size[c] /\ sent'[c] = sent[c]
  /\ (c \in cut') = (c \in cut)
  /\ InHand(c)' = InHand(c)
  /\ InHand(c) => pc' = pc /\ len' = len
  /\ pc = "returned" => pc' = "returned"

LEMMA UntouchedTalksOn ==
  ASSUME NEW c \in Conns, Talking(c), Untouched(c)
  PROVE  Talking(c)'
BY DEF Untouched, Talking, Unanswered, HeaderEchoed, MayHangUp, Gone

LEMMA UntouchedKeepsPhase ==
  ASSUME NEW c \in Conns, NetTypeOK, Untouched(c)
  PROVE  Phase(c)' = Phase(c)
<1>1. end[c]["srv"] \in {"none", "queued", "open", "closed"}
  BY DEF NetTypeOK, Ends
<1> QED BY <1>1, PhasesByCase DEF Untouched, PhaseCases

-----------------------------------------------------------------------------
(* Steps that touch no connection. *)

Quiet ==
  /\ UNCHANGED <<backlog, end, inbox, size, sent, cut>>
  /\ \A f \in Fds : file'[f] # file[f] =>
       file[f].kind \notin {"srv", "listen"} /\ file'[f].kind \notin {"srv", "listen"}
  /\ \/ UNCHANGED <<pc, clientFD, len>>
     \/ ~ AtClient /\ ~ AtClient' /\ pc # "returned"

LEMMA QuietFile ==
  ASSUME NetTypeOK, NEW f \in Fds, NEW x, file' = [file EXCEPT ![f] = x],
         file[f].kind \notin {"srv", "listen"}, x.kind \notin {"srv", "listen"},
         UNCHANGED linkVars, cut' = cut,
         UNCHANGED <<pc, clientFD, len>> \/ (~ AtClient /\ ~ AtClient' /\ pc # "returned")
  PROVE  Quiet
<1>1. \A g \in Fds : file'[g] = IF g = f THEN x ELSE file[g]
  BY DEF NetTypeOK
<1> QED BY <1>1 DEF Quiet, linkVars

\* A free or plain number changes hands, or the thread moves on.
LEMMA QuietSteps ==
  ASSUME NetTypeOK, NEW next \in {"wait", "register"}, NEW entry \in {"wait", "create"},
         \/ CreateSocket \/ SocketFails \/ Bind \/ BindFails \/ ListenFails(entry)
         \/ AcceptFails(next)
         \/ (ForeignOpen \/ ForeignClose) /\ UNCHANGED baseVars
  PROVE  Quiet
<1>1. Free.kind = "free" /\ Plain.kind = "plain" /\ RawSocket.kind = "raw"
  BY DEF Free, Plain, RawSocket
<1>2. CASE CreateSocket
  <2>1. PICK f \in Fds : file[f] = Free /\ file' = [file EXCEPT ![f] = RawSocket]
    BY <1>2 DEF CreateSocket, LowestFree
  <2>2. UNCHANGED linkVars /\ cut' = cut /\ ~ AtClient /\ ~ AtClient' /\ pc # "returned"
    BY <1>2 DEF CreateSocket, linkVars, AtClient
  <2> QED BY <1>1, <2>1, <2>2, QuietFile
<1>3. CASE SocketFails \/ Bind \/ BindFails \/ ListenFails(entry) \/ AcceptFails(next)
  BY <1>3 DEF SocketFails, Bind, BindFails, ListenFails, AcceptFails, netVars, Quiet, AtClient
<1>4. CASE (ForeignOpen \/ ForeignClose) /\ UNCHANGED baseVars
  <2>1. UNCHANGED linkVars /\ cut' = cut /\ UNCHANGED <<pc, clientFD, len>>
    BY <1>4 DEF ForeignOpen, ForeignClose, linkVars, baseVars
  <2>2. PICK f \in Fds : \/ file[f] = Free /\ file' = [file EXCEPT ![f] = Plain]
                         \/ file[f] = Plain /\ file' = [file EXCEPT ![f] = Free]
    BY <1>4 DEF ForeignOpen, ForeignClose, LowestFree
  <2> QED BY <1>1, <2>1, <2>2, QuietFile
<1> QED BY <1>2, <1>3, <1>4

LEMMA QuietConversation ==
  ASSUME Sound, Conversations, Quiet, Sound'
  PROVE  Conversations' /\ UNCHANGED Echo!vars
<1>1. ASSUME NEW c \in Conns PROVE Untouched(c)
  <2>1. AtClient' = AtClient /\ (AtClient => pc' = pc /\ len' = len /\ clientFD' = clientFD)
    BY DEF Quiet, AtClient
  <2>2. InHand(c)' = InHand(c)
    BY <2>1 DEF InHand, Sound, Quiet, End
  <2> QED BY <2>1, <2>2 DEF Untouched, Quiet, InHand
<1>2. ASSUME NEW f \in Fds PROVE FileLinked(f)'
  <2>1. FileLinked(f)
    BY DEF Conversations
  <2> QED BY <2>1 DEF FileLinked, Quiet
<1>3. ASSUME NEW c \in Conns PROVE Linked(c)' /\ Talking(c)'
  <2>1. Linked(c) /\ Talking(c)
    BY DEF Conversations
  <2>2. Linked(c)'
    BY <2>1 DEF Linked, Quiet, End
  <2> QED BY <1>1, <2>1, <2>2, UntouchedTalksOn
<1>4. Distinct(backlog'[Port])
  BY DEF Quiet, Conversations
<1>5. Conversations'
  BY <1>2, <1>3, <1>4 DEF Conversations
<1>6. Listening(Port)' = Listening(Port)
  BY DEF Listening, Quiet, Listener
<1>7. \A c \in Conns : Phase(c)' = Phase(c)
  BY <1>1, UntouchedKeepsPhase DEF Sound, BaseTypeOK
<1> QED BY <1>5, <1>6, <1>7 DEF Echo!vars, Quiet

-----------------------------------------------------------------------------
(* Steps of one connection. *)

LEMMA OthersGoOn ==
  ASSUME Sound, Conversations, NEW c \in Conns,
         \A d \in Conns \ {c} :
           /\ Untouched(d)
           /\ d \in ToSet(backlog[Port]) <=> d \in ToSet(backlog'[Port])
           /\ \A f \in Fds : file[f] = End("srv", d) => file'[f] = file[f]
  PROVE  \A d \in Conns \ {c} : Linked(d)' /\ Talking(d)' /\ Phase(d)' = Phase(d)
<1> SUFFICES ASSUME NEW d \in Conns \ {c}
             PROVE  Linked(d)' /\ Talking(d)' /\ Phase(d)' = Phase(d)
  OBVIOUS
<1>1. Linked(d) /\ Talking(d) /\ Untouched(d)
  BY DEF Conversations
<1>2. Talking(d)' /\ Phase(d)' = Phase(d)
  BY <1>1, UntouchedTalksOn, UntouchedKeepsPhase DEF Sound, BaseTypeOK
<1>3. Linked(d)'
  BY <1>1 DEF Linked, Untouched
<1> QED BY <1>2, <1>3

\* How the abstract phases change when one of them does.
LEMMA PhaseMoves ==
  ASSUME NEW c \in Conns, \A d \in Conns \ {c} : Phase(d)' = Phase(d)
  PROVE  [d \in Conns |-> Phase(d)]' =
           [[d \in Conns |-> Phase(d)] EXCEPT ![c] = Phase(c)']
BY Zenon

LEMMA ConnectStep ==
  ASSUME Sound, Conversations, NEW c \in Conns, Connect(c, Port), UNCHANGED baseVars
  PROVE  Conversations' /\ Echo!Connect(c)
<1> USE PortAssumption DEF Connect, baseVars
<1>1. /\ file' = file /\ inbox' = inbox /\ size' = size /\ sent' = sent
      /\ end[c]["srv"] = "none"
      /\ end' = [end EXCEPT ![c] = [e \in Ends |-> IF e = "srv" THEN "queued" ELSE "open"]]
      /\ NetTypeOK
  BY DEF Sound, BaseTypeOK
<1>2. /\ end'[c]["srv"] = "queued" /\ end'[c]["cli"] = "open"
      /\ \A d \in Conns \ {c} : end'[d] = end[d]
  BY <1>1 DEF NetTypeOK, Ends
<1>3. /\ ToSet(backlog'[Port]) = ToSet(backlog[Port]) \cup {c} /\ Distinct(backlog'[Port])
      /\ c \notin ToSet(backlog[Port])
  <2>1. c \notin ToSet(backlog[Port])
    BY <1>1 DEF Conversations, Linked
  <2>2. backlog'[Port] = Append(backlog[Port], c) /\ backlog[Port] \in Seq(Conns)
    BY <1>1 DEF NetTypeOK
  <2> QED BY <2>1, <2>2, AppendElements DEF Conversations
<1>4. ~ InHand(c) /\ \A d \in Conns : InHand(d)' = InHand(d)
  <2>1. file[clientFD] = End("srv", c) /\ AtClient => end[c]["srv"] = "open"
    BY DEF Conversations, FileLinked, Sound, End
  <2> QED BY <1>1, <2>1 DEF InHand, AtClient
<1>5. \A d \in Conns \ {c} : Linked(d)' /\ Talking(d)' /\ Phase(d)' = Phase(d)
  BY <1>1, <1>2, <1>3, <1>4, OthersGoOn DEF Untouched
<1>6. Linked(c)'
  BY <1>1, <1>2, <1>3 DEF Conversations, Linked
<1>7. Talking(c)'
  <2>1. Talking(c)
    BY DEF Conversations
  <2> QED BY <1>1, <1>2, <1>4, <2>1 DEF Talking, Unanswered
<1>8. \A f \in Fds : FileLinked(f)'
  BY <1>1, <1>2 DEF Conversations, FileLinked, Sound
<1>9. Conversations'
  BY <1>3, <1>5, <1>6, <1>7, <1>8 DEF Conversations
<1>10. Phase(c) = "none" /\ Phase(c)' = "waiting"
  BY <1>1, <1>2, PhasesByCase DEF PhaseCases
<1>11. Listening(Port) /\ Listening(Port)' = Listening(Port)
  BY <1>1 DEF Listening
<1>12. \A d \in Conns : (end'[d]["cli"] = "closed") = (end[d]["cli"] = "closed")
  BY <1>1, <1>2 DEF Conversations, Linked
<1>13. Echo!Connect(c)
  BY <1>1, <1>5, <1>10, <1>11, <1>12, PhaseMoves DEF Echo!Connect, Echo!Move
<1> QED BY <1>9, <1>13

LEMMA SendStep ==
  ASSUME Sound, Conversations, NEW c \in Conns, Send(c), UNCHANGED baseVars
  PROVE  Conversations' /\ Echo!Send(c)
<1> USE DEF Send, baseVars
<1>1. /\ file' = file /\ backlog' = backlog /\ end' = end /\ size' = size
      /\ end[c]["srv"] # "closed" /\ end[c]["cli"] = "open" /\ end[c]["srv"] # "none"
      /\ sent[c] < HeaderLen + size[c] /\ sent[c] \in Nat /\ sent'[c] = sent[c] + 1
      /\ inbox'[c]["srv"] = Append(inbox[c]["srv"], sent[c] + 1)
      /\ \A d \in Conns : inbox'[d]["cli"] = inbox[d]["cli"]
      /\ \A d \in Conns \ {c} : inbox'[d] = inbox[d] /\ sent'[d] = sent[d]
  BY DEF Sound, BaseTypeOK, NetTypeOK, Ends, Conversations, Linked
<1>2. HeaderLen \in Nat /\ size[c] \in Nat
  BY SocketsAssumption DEF Sound, BaseTypeOK, NetTypeOK
<1>3. \A d \in Conns : InHand(d)' = InHand(d)
  BY <1>1 DEF InHand, AtClient
<1>4. \A d \in Conns \ {c} : Linked(d)' /\ Talking(d)' /\ Phase(d)' = Phase(d)
  BY <1>1, <1>3, OthersGoOn DEF Untouched
<1>5. Linked(c)'
  BY <1>1, <1>2 DEF Conversations, Linked
<1>6. Talking(c)'
  <2>1. Talking(c)
    BY DEF Conversations
  <2>2. Piece(inbox[c]["srv"], 0, sent[c]) => Piece(inbox'[c]["srv"], 0, sent'[c])
    <3>1. 0 \in Nat
      OBVIOUS
    <3>2. inbox'[c]["srv"] = Append(inbox[c]["srv"], sent[c] + 1)
          /\ sent[c] \in Nat /\ sent'[c] = sent[c] + 1
      BY <1>1
    <3> QED BY <3>1, <3>2, AppendPiece, Zenon
  <2>3. Piece(inbox[c]["srv"], HeaderLen, sent[c]) => Piece(inbox'[c]["srv"], HeaderLen, sent'[c])
    BY <1>1, <1>2, AppendPiece
  <2>4. Unanswered(c) => Unanswered(c)'
    BY <1>1, <2>2 DEF Unanswered
  <2>5. HeaderEchoed(c) => HeaderEchoed(c)'
    BY <1>1, <2>3 DEF HeaderEchoed, Gone
  <2>6. MayHangUp(c) => MayHangUp(c)'
    BY <1>1 DEF MayHangUp, Gone
  <2>7. pc' = pc /\ cut' = cut /\ inbox'[c]["cli"] = inbox[c]["cli"] /\ end'[c] = end[c] /\ size' = size
    BY <1>1
  <2> HIDE DEF Send, baseVars
  <2> QED BY <1>3, <2>1, <2>4, <2>5, <2>6, <2>7 DEF Talking
<1>7. \A f \in Fds : FileLinked(f)'
  BY <1>1 DEF Conversations, FileLinked
<1>8. Conversations'
  BY <1>1, <1>4, <1>5, <1>6, <1>7 DEF Conversations
<1>9. Phase(c)' = Phase(c) /\ Phase(c) # "none"
  <2>1. end[c]["srv"] \in {"queued", "open"}
    BY <1>1 DEF Sound, BaseTypeOK, NetTypeOK, Ends
  <2> QED BY <1>1, <1>3, <2>1, PhasesByCase DEF PhaseCases
<1>10. Listening(Port)' = Listening(Port)
  BY <1>1 DEF Listening
<1>11. Echo!Send(c)
  BY <1>1, <1>4, <1>9, <1>10 DEF Echo!Send, Echo!Whole
<1> QED BY <1>8, <1>11

LEMMA LeaveStep ==
  ASSUME Sound, Conversations, NEW c \in Conns, Leave(c), UNCHANGED baseVars
  PROVE  Conversations' /\ Echo!Leave(c)
<1> USE DEF Leave, baseVars
<1>1. /\ file' = file /\ backlog' = backlog /\ inbox' = inbox /\ size' = size /\ sent' = sent
      /\ end[c]["cli"] = "open" /\ end[c]["srv"] # "none"
      /\ end'[c]["cli"] = "closed" /\ \A d \in Conns : end'[d]["srv"] = end[d]["srv"]
      /\ \A d \in Conns \ {c} : end'[d] = end[d]
  BY DEF Sound, BaseTypeOK, NetTypeOK, Ends, Conversations, Linked
<1>2. \A d \in Conns : InHand(d)' = InHand(d)
  BY <1>1 DEF InHand, AtClient
<1>3. \A d \in Conns \ {c} : Linked(d)' /\ Talking(d)' /\ Phase(d)' = Phase(d)
  BY <1>1, <1>2, OthersGoOn DEF Untouched
<1>4. Linked(c)'
  BY <1>1 DEF Conversations, Linked
<1>5. Talking(c)'
  BY <1>1, <1>2 DEF Conversations, Talking, Unanswered, HeaderEchoed, MayHangUp, Gone
<1>6. \A f \in Fds : FileLinked(f)'
  BY <1>1 DEF Conversations, FileLinked, Sound
<1>7. Conversations'
  BY <1>1, <1>3, <1>4, <1>5, <1>6 DEF Conversations
<1>8. Phase(c)' = Phase(c) /\ Phase(c) # "none"
  <2>1. end[c]["srv"] \in {"queued", "open", "closed"}
    BY <1>1 DEF Sound, BaseTypeOK, NetTypeOK, Ends
  <2> QED BY <1>1, <1>2, <2>1, PhasesByCase DEF PhaseCases
<1>9. Listening(Port)' = Listening(Port)
  BY <1>1 DEF Listening
<1>10. {d \in Conns : end'[d]["cli"] = "closed"} = {d \in Conns : end[d]["cli"] = "closed"} \cup {c}
  BY <1>1
<1>11. Echo!Leave(c)
  BY <1>1, <1>3, <1>8, <1>9, <1>10 DEF Echo!Leave
<1> QED BY <1>7, <1>11

LEMMA ClientStep ==
  ASSUME Sound, Conversations, NEW c \in Conns, Client(c, Port), UNCHANGED baseVars
  PROVE  Conversations' /\ Echo!Next
BY ConnectStep, SendStep, LeaveStep DEF Client, Echo!Next, Echo!Client

-----------------------------------------------------------------------------
(* Steps of the server that concern no client, or one that is not in hand. *)

LEMMA ListenStep ==
  ASSUME Sound, Conversations, NEW entry \in {"wait", "create"}, Listen(entry), Sound'
  PROVE  Conversations' /\ Echo!Next
<1>1. /\ ~ AtClient /\ ~ AtClient' /\ pc = "listen" /\ serverFd \in Fds
      /\ file[serverFd] = RawSocket /\ file' = [file EXCEPT ![serverFd] = Listener(Port)]
      /\ UNCHANGED <<backlog, end, inbox, size, sent, cut>>
      /\ ~ Listening(Port) /\ NetTypeOK
  BY DEF Listen, linkVars, AtClient, Sound, BaseTypeOK
<1>2. /\ file'[serverFd] = Listener(Port)
      /\ \A f \in Fds \ {serverFd} : file'[f] = file[f]
  BY <1>1 DEF NetTypeOK
<1>3. \A d \in Conns : Untouched(d)
  BY <1>1 DEF Untouched, InHand
<1>4. \A d \in Conns, f \in Fds : (file'[f] = End("srv", d)) = (file[f] = End("srv", d))
  BY <1>1, <1>2 DEF End, RawSocket, Listener
<1>5. \A f \in Fds : FileLinked(f)'
  <2> SUFFICES ASSUME NEW f \in Fds, file'[f].kind = "srv"
               PROVE  /\ end'[file'[f].id]["srv"] = "open"
                      /\ \A g \in Fds : file'[g] = file'[f] => g = f
    BY DEF FileLinked
  <2>1. f # serverFd
    BY <1>2 DEF Listener
  <2>2. file'[f] = file[f] /\ FileLinked(f)
    BY <1>2, <2>1 DEF Conversations
  <2>3. \A g \in Fds : file'[g] = file'[f] => file[g] = file[f]
    BY <1>2, <2>2 DEF Listener
  <2> QED BY <1>1, <2>2, <2>3 DEF FileLinked
<1>6. \A d \in Conns : Linked(d)' /\ Talking(d)'
  <2>1. \A d \in Conns : Linked(d) /\ Talking(d)
    BY DEF Conversations
  <2>2. \A d \in Conns : Linked(d)'
    BY <1>1, <1>4, <2>1 DEF Linked
  <2> QED BY <1>3, <2>1, <2>2, UntouchedTalksOn
<1>7. Conversations'
  BY <1>1, <1>5, <1>6 DEF Conversations
<1>8. \A d \in Conns : Phase(d)' = Phase(d)
  BY <1>1, <1>3, UntouchedKeepsPhase
<1>9. Listening(Port)'
  BY <1>1, <1>2 DEF Listening
<1>10. Echo!Start
  BY <1>1, <1>8, <1>9 DEF Echo!Start
<1> QED BY <1>7, <1>10 DEF Echo!Next

\* A socket that never listened closes without a client noticing.
LEMMA CloseDeafStep ==
  ASSUME Sound, CloseListener, file[serverFd] = RawSocket
  PROVE  Quiet
<1>1. pc = "close" /\ pc' = "returned" /\ cut' = cut /\ Close(serverFd)
  BY DEF CloseListener, CloseServerFd
<1>2. serverFd \in Fds /\ NetTypeOK /\ ~ AtClient /\ ~ AtClient'
  BY <1>1 DEF Sound, BaseTypeOK, AtClient
<1>3. /\ file'[serverFd] = Free /\ \A f \in Fds \ {serverFd} : file'[f] = file[f]
      /\ UNCHANGED <<inbox, size, sent>>
  BY <1>1, <1>2, CloseFile
<1>4. backlog' = backlog /\ end' = end
  <2>1. \A c \in Conns, e \in Ends : end'[c][e] = end[c][e]
    BY <1>1, <1>2, CloseRaw
  <2>2. end \in [Conns -> [Ends -> {"none", "queued", "open", "closed"}]]
    BY <1>2 DEF NetTypeOK
  <2>3. end' = [c \in Conns |-> [e \in Ends |-> end'[c][e]]]
    BY <1>1 DEF Close
  <2> QED BY <1>1, <1>2, <2>1, <2>2, <2>3, CloseRaw
<1> QED BY <1>1, <1>2, <1>3, <1>4 DEF Quiet, Free, RawSocket

\* The connections in the backlog end with the listening socket.
LEMMA CloseListenerStep ==
  ASSUME Sound, Conversations, CloseListener, file[serverFd] = Listener(Port), Sound'
  PROVE  Conversations' /\ Echo!Next
<1>1. /\ pc = "close" /\ pc' = "returned" /\ ~ AtClient /\ ~ AtClient' /\ serverFd \in Fds
      /\ file[serverFd] = Listener(Port) /\ NetTypeOK
      /\ UNCHANGED <<inbox, size, sent, cut, len>>
  BY DEF CloseListener, CloseServerFd, Close, AtClient, Sound, BaseTypeOK
<1>2. Close(serverFd)
  BY DEF CloseListener, CloseServerFd
<1>3. /\ file'[serverFd] = Free
      /\ \A f \in Fds \ {serverFd} : file'[f] = file[f]
  BY <1>1, <1>2 DEF Close, NetTypeOK
<1>4. backlog'[Port] = << >>
  BY <1>1, <1>2, PortAssumption DEF Close, Listener
<1>5. ASSUME NEW d \in Conns
      PROVE  /\ end'[d]["srv"] = IF end[d]["srv"] = "queued" THEN "closed" ELSE end[d]["srv"]
             /\ end'[d]["cli"] = end[d]["cli"]
  <2>1. Ended(serverFd, d, "srv") <=> d \in ToSet(backlog[Port])
    BY <1>1 DEF Ended, Listener, End
  <2>2. ~ Ended(serverFd, d, "cli")
    BY <1>1 DEF Ended, Listener, End
  <2>3. "srv" \in Ends /\ "cli" \in Ends
    BY DEF Ends
  <2>4. \A e \in Ends : end'[d][e] = IF Ended(serverFd, d, e) THEN "closed" ELSE end[d][e]
    BY <1>2 DEF Close
  <2>5. end[d]["srv"] = "queued" <=> d \in ToSet(backlog[Port])
    BY DEF Conversations, Linked
  <2> QED BY <2>1, <2>2, <2>3, <2>4, <2>5
<1>6. \A f \in Fds : FileLinked(f)'
  <2> SUFFICES ASSUME NEW f \in Fds, file'[f].kind = "srv"
               PROVE  /\ end'[file'[f].id]["srv"] = "open"
                      /\ \A g \in Fds : file'[g] = file'[f] => g = f
    BY DEF FileLinked
  <2>1. f # serverFd
    BY <1>3 DEF Free
  <2>2. file'[f] = file[f] /\ FileLinked(f) /\ file[f].id \in Conns
    BY <1>3, <2>1 DEF Conversations, Sound
  <2>3. \A g \in Fds : file'[g] = file'[f] => file[g] = file[f]
    BY <1>3, <2>2 DEF Free
  <2> QED BY <1>5, <2>2, <2>3 DEF FileLinked
<1>7. ToSet(backlog'[Port]) = {} /\ Distinct(backlog'[Port])
  BY <1>4 DEF ToSet, Distinct
<1>8. ASSUME NEW d \in Conns PROVE Linked(d)'
  <2>1. Linked(d)
    BY DEF Conversations
  <2>2. end[d]["srv"] = "open" => \E f \in Fds : file'[f] = End("srv", d)
    BY <1>1, <1>3, <2>1 DEF Linked, End, Listener
  <2> QED BY <1>1, <1>5, <1>7, <2>1, <2>2 DEF Linked
<1>9. ASSUME NEW d \in Conns PROVE Talking(d)'
  <2>1. Talking(d) /\ ~ InHand(d) /\ ~ InHand(d)'
    BY <1>1 DEF Conversations, InHand
  <2>2. pc' = "returned" /\ UNCHANGED <<inbox, size, sent, cut>>
    BY <1>1
  <2>3. end'[d]["srv"] # "closed" => end[d]["srv"] # "closed"
    BY <1>5
  <2>4. end[d]["srv"] = "closed" => end'[d]["srv"] = "closed"
    BY <1>5
  <2> QED BY <2>1, <2>2, <2>3, <2>4 DEF Talking, Unanswered
<1>10. Conversations'
  BY <1>6, <1>7, <1>8, <1>9 DEF Conversations
<1>11. Listening(Port)
  BY <1>1 DEF Listening
<1>12. ~ Listening(Port)'
  BY <1>1, <1>3 DEF Listening, Sound, Listener, Free
<1>13. ASSUME NEW d \in Conns
       PROVE  Phase(d)' = IF Phase(d) = "waiting" THEN "closed" ELSE Phase(d)
  <2>1. end[d]["srv"] \in {"none", "queued", "open", "closed"} /\ ~ InHand(d) /\ ~ InHand(d)'
    BY <1>1 DEF NetTypeOK, Ends, InHand
  <2> QED BY <1>5, <2>1, PhasesByCase DEF PhaseCases
<1>14. \A d \in Conns : (end'[d]["cli"] = "closed") = (end[d]["cli"] = "closed")
  BY <1>5
<1>15. Echo!Stop
  BY <1>1, <1>11, <1>12, <1>13, <1>14 DEF Echo!Stop
<1> QED BY <1>10, <1>15 DEF Echo!Next

LEMMA AcceptStep ==
  ASSUME Sound, Conversations, NEW next \in {"wait", "register"}, Accept(next)
  PROVE  Conversations' /\ Echo!Next
<1>0. PICK c \in Conns : c = Head(backlog[Port])
  BY HeadTailProperties, PortAssumption DEF Accept, Sound, BaseTypeOK, NetTypeOK
<1>1. /\ pc = "accept" /\ pc' = next /\ ~ AtClient /\ ~ AtClient' /\ NetTypeOK
      /\ serverFd \in Fds /\ file[serverFd] = Listener(Port)
      /\ UNCHANGED <<inbox, size, sent, cut, len>>
      /\ backlog[Port] # << >> /\ backlog[Port] \in Seq(Conns)
      /\ backlog' = [backlog EXCEPT ![Port] = Tail(backlog[Port])]
      /\ end' = [end EXCEPT ![c]["srv"] = "open"]
  BY <1>0, PortAssumption DEF Accept, AtClient, Sound, BaseTypeOK, NetTypeOK
<1>2. PICK f \in Fds : file[f] = Free /\ file' = [file EXCEPT ![f] = End("srv", c)]
  BY <1>0 DEF Accept, LowestFree
<1>3. /\ c \in ToSet(backlog[Port])
      /\ ToSet(backlog'[Port]) = ToSet(backlog[Port]) \ {c} /\ Distinct(backlog'[Port])
  <2>1. backlog'[Port] = Tail(backlog[Port])
    BY <1>1, PortAssumption DEF NetTypeOK
  <2> QED BY <1>0, <1>1, <2>1, TailElements DEF Conversations
<1>4. end[c]["srv"] = "queued"
  BY <1>3 DEF Conversations, Linked
<1>5. /\ end'[c]["srv"] = "open" /\ end'[c]["cli"] = end[c]["cli"]
      /\ \A d \in Conns \ {c} : end'[d] = end[d]
  BY <1>1, <1>3 DEF NetTypeOK, Ends
<1>6. file'[f] = End("srv", c) /\ \A g \in Fds \ {f} : file'[g] = file[g]
  BY <1>1, <1>2 DEF NetTypeOK
<1>7. \A g \in Fds : file[g].kind = "srv" => file[g].id \in Conns \ {c} /\ FileLinked(g)
  BY <1>4 DEF Conversations, FileLinked, Sound
<1>8. ASSUME NEW g \in Fds PROVE FileLinked(g)'
  <2>1. CASE g = f
    BY <1>5, <1>6, <1>7, <2>1 DEF FileLinked, End
  <2>2. CASE g # f
    BY <1>5, <1>6, <1>7, <2>2 DEF FileLinked, End
  <2> QED BY <2>1, <2>2
<1>9. \A d \in Conns \ {c} : Linked(d)' /\ Talking(d)' /\ Phase(d)' = Phase(d)
  BY <1>1, <1>2, <1>3, <1>5, <1>6, OthersGoOn DEF Untouched, InHand, End, Free
<1>10. Linked(c)'
  BY <1>1, <1>3, <1>4, <1>5, <1>6 DEF Conversations, Linked
<1>11. Talking(c)'
  <2>1. Talking(c) /\ ~ InHand(c) /\ ~ InHand(c)'
    BY <1>1, <1>3 DEF Conversations, InHand
  <2>2. Unanswered(c) /\ c \notin cut
    BY <1>4, <2>1 DEF Talking
  <2> QED BY <1>1, <1>5, <2>1, <2>2 DEF Talking, Unanswered
<1>12. Conversations'
  BY <1>3, <1>8, <1>9, <1>10, <1>11 DEF Conversations
<1>13. Phase(c) = "waiting" /\ Phase(c)' = "accepted"
  <2>1. ~ InHand(c)'
    BY <1>1 DEF InHand
  <2> QED BY <1>3, <1>4, <1>5, <2>1, PhasesByCase DEF PhaseCases
<1>14. Listening(Port) /\ Listening(Port)'
  BY <1>1, <1>2, <1>6 DEF Listening, Listener, Free
<1>15. \A d \in Conns : (end'[d]["cli"] = "closed") = (end[d]["cli"] = "closed")
  BY <1>3, <1>5
<1>16. Echo!Accept(c)
  BY <1>1, <1>3, <1>9, <1>13, <1>14, <1>15, PhaseMoves DEF Echo!Accept, Echo!Move
<1> QED BY <1>3, <1>12, <1>16 DEF Echo!Next, Echo!ServerStep

\* receiveClientMsg turns to a client; it is at none before.
LEMMA BeginStep ==
  ASSUME Sound, Conversations, ~ AtClient, pc # "returned", pc' = "header",
         UNCHANGED <<netVars, cut>>,
         NEW c \in Conns, NEW f \in Fds, clientFD' = f, file[f] = End("srv", c)
  PROVE  Conversations' /\ Echo!Next
<1>1. /\ UNCHANGED <<file, backlog, end, inbox, size, sent, cut>> /\ NetTypeOK
      /\ AtClient'
  BY DEF netVars, AtClient, Sound, BaseTypeOK
<1>2. file'[clientFD'] = End("srv", c)
  BY <1>1
<1>3. /\ InHand(c)' /\ \A d \in Conns : ~ InHand(d)
      /\ \A d \in Conns \ {c} : InHand(d)' = InHand(d)
  BY <1>1, <1>2 DEF InHand, End
<1>4. end[c]["srv"] = "open"
  <2>1. FileLinked(f) /\ file[f].kind = "srv" /\ file[f].id = c
    BY DEF Conversations, End
  <2> QED BY <2>1 DEF FileLinked
<1>5. \A d \in Conns \ {c} : Linked(d)' /\ Talking(d)' /\ Phase(d)' = Phase(d)
  BY <1>1, <1>3, OthersGoOn DEF Untouched
<1>6. Linked(c)'
  BY <1>1 DEF Conversations, Linked
<1>7. Unanswered(c) /\ c \notin cut /\ Talking(c)
  <2>1. Talking(c)
    BY <1>1 DEF Conversations
  <2> QED BY <1>1, <1>3, <1>4, <2>1 DEF Talking
<1>8. Talking(c)'
  BY <1>1, <1>3, <1>4, <1>7 DEF Talking, Unanswered
<1>9. \A g \in Fds : FileLinked(g)'
  BY <1>1 DEF Conversations, FileLinked
<1>10. Conversations'
  BY <1>1, <1>5, <1>6, <1>8, <1>9 DEF Conversations
<1>11. Phase(c) = "accepted" /\ Phase(c)' = "answering"
  BY <1>1, <1>3, <1>4, <1>7, PhasesByCase DEF PhaseCases
<1>12. Listening(Port)' = Listening(Port)
  BY <1>1 DEF Listening
<1>13. \A d \in Conns : Phase(d) \notin {"answering", "cut"}
  <2>1. \A d \in Conns : end[d]["srv"] \in {"none", "queued", "open", "closed"}
    BY <1>1 DEF NetTypeOK, Ends
  <2> QED BY <1>3, <2>1, PhasesByCase DEF PhaseCases
<1>14. Echo!Begin(c)
  BY <1>1, <1>5, <1>11, <1>12, <1>13, PhaseMoves
     DEF Echo!Begin, Echo!Move, Echo!NobodyIsBusy, Echo!Busy
<1> QED BY <1>1, <1>10, <1>14 DEF Echo!Next, Echo!ServerStep

-----------------------------------------------------------------------------
(* Steps of the conversation with the client in hand. *)

LEMMA SomeoneInHand ==
  ASSUME Sound, Conversations, AtClient
  PROVE  \E c \in Conns :
           /\ InHand(c) /\ file[clientFD] = End("srv", c) /\ clientFD \in Fds
           /\ end[c]["srv"] = "open"
           /\ \A d \in Conns \ {c} : ~ InHand(d)
<1> DEFINE c == file[clientFD].id
<1>1. /\ clientFD \in Fds /\ file[clientFD].kind = "srv" /\ c \in Conns
      /\ file[clientFD] \in Files
  BY DEF Sound, BaseTypeOK, NetTypeOK
<1>2. file[clientFD] = End("srv", c)
  BY <1>1 DEF Files, End
<1>3. end[c]["srv"] = "open"
  BY <1>1 DEF Conversations, FileLinked
<1> HIDE DEF c
<1>4. InHand(c) /\ \A d \in Conns \ {c} : ~ InHand(d)
  BY <1>2 DEF InHand, End
<1> QED BY <1>1, <1>2, <1>3, <1>4

\* Whatever happens to the client in hand leaves the others where they are.
LEMMA InHandStep ==
  ASSUME Sound, Conversations, NEW c \in Conns, InHand(c), pc' \in {"body", "drop"},
         \A d \in Conns \ {c} : /\ ~ InHand(d) /\ inbox'[d] = inbox[d]
                                /\ (d \in cut') = (d \in cut),
         UNCHANGED <<file, backlog, end, size, sent, clientFD>>,
         Talking(c)'
  PROVE  /\ Conversations' /\ InHand(c)'
         /\ Listening(Port)' = Listening(Port)
         /\ \A d \in Conns \ {c} : Phase(d)' = Phase(d)
<1>1. AtClient /\ AtClient' /\ pc # "returned"
  BY DEF InHand, AtClient
<1>2. InHand(c)' /\ \A d \in Conns \ {c} : InHand(d)' = InHand(d)
  BY <1>1 DEF InHand
<1>3. \A d \in Conns \ {c} : Linked(d)' /\ Talking(d)' /\ Phase(d)' = Phase(d)
  BY <1>1, <1>2, OthersGoOn DEF Untouched
<1>4. Linked(c)'
  BY DEF Conversations, Linked
<1>5. \A f \in Fds : FileLinked(f)'
  BY DEF Conversations, FileLinked
<1>6. Conversations'
  BY <1>3, <1>4, <1>5 DEF Conversations
<1>7. Listening(Port)' = Listening(Port)
  BY DEF Listening
<1> QED BY <1>2, <1>3, <1>6, <1>7

\* An answer of n units to the client in hand, or none that anybody sees.
LEMMA AnswerSeen ==
  ASSUME NEW c \in Conns, NEW n \in Nat,
         Phase(c) = "answering", Phase(c)' = "answering",
         \A d \in Conns \ {c} : Phase(d)' = Phase(d) /\ inbox'[d] = inbox[d],
         Listening(Port)' = Listening(Port), UNCHANGED <<end, size, sent>>,
         n <= sent[c],
         \/ n = HeaderLen /\ inbox[c]["cli"] = << >>
         \/ n = HeaderLen + size[c] /\ inbox[c]["cli"] = Units(HeaderLen),
         inbox'[c]["cli"] = IF Gone(c) THEN inbox[c]["cli"] ELSE Units(n)
  PROVE  [Echo!Next]_(Echo!vars)
<1>1. CASE Gone(c)
  BY <1>1 DEF Echo!vars
<1>2. CASE ~ Gone(c)
  <2>1. Echo!Answer(c, n)
    BY <1>2 DEF Echo!Answer, Echo!HasArrived, Echo!Whole, Gone, Units
  <2>2. n \in {HeaderLen, Echo!Whole(c)}
    BY DEF Echo!Whole
  <2> QED BY <2>1, <2>2 DEF Echo!Next, Echo!ServerStep
<1> QED BY <1>1, <1>2

LEMMA ReadHeaderStep ==
  ASSUME Sound, Conversations, ReadHeader
  PROVE  Conversations' /\ [Echo!Next]_(Echo!vars)
<1>1. /\ pc = "header" /\ pc' = "body" /\ AtClient /\ NetTypeOK
      /\ UNCHANGED <<clientFD, cut>> /\ WriteBack(clientFD, HeaderLen)
      /\ Arrived(clientFD, HeaderLen) /\ len' \in Announced(clientFD)
      /\ HeaderLen \in Nat
  BY SocketsAssumption DEF ReadHeader, EchoHeader, AtClient, Sound, BaseTypeOK
<1>2. PICK c \in Conns : /\ InHand(c) /\ file[clientFD] = End("srv", c) /\ clientFD \in Fds
                         /\ end[c]["srv"] = "open"
                         /\ \A d \in Conns \ {c} : ~ InHand(d)
  BY <1>1, SomeoneInHand
<1>3. Linked(c) /\ Talking(c)
  BY DEF Conversations
<1>4. Unanswered(c) /\ c \notin cut
  BY <1>1, <1>2, <1>3 DEF Talking
<1>5. /\ UNCHANGED <<file, backlog, end, size, sent>>
      /\ inbox'[c]["srv"] = SubSeq(inbox[c]["srv"], HeaderLen + 1, Len(inbox[c]["srv"]))
      /\ inbox'[c]["cli"] = IF Gone(c) THEN inbox[c]["cli"]
                            ELSE inbox[c]["cli"] \o SubSeq(inbox[c]["srv"], 1, HeaderLen)
      /\ \A d \in Conns \ {c} : inbox'[d] = inbox[d]
  BY <1>1, <1>2, WriteBackEffect
<1>6. /\ Piece(inbox[c]["srv"], 0, sent[c]) /\ inbox[c]["cli"] = << >>
      /\ HeaderLen <= Len(inbox[c]["srv"]) /\ sent[c] \in Nat /\ size[c] \in Nat
      /\ HeaderLen <= sent[c]
  <2>1. Inbox(clientFD) = inbox[c]["srv"]
    BY <1>2 DEF Inbox, End
  <2>2. sent[c] \in Nat /\ size[c] \in Nat
    BY <1>1, SocketsAssumption DEF NetTypeOK
  <2>3. Len(inbox[c]["srv"]) = sent[c]
    BY <1>4, <2>2 DEF Unanswered, Piece
  <2> QED BY <1>1, <1>4, <2>1, <2>2, <2>3 DEF Unanswered, Arrived
<1>7. SubSeq(inbox[c]["srv"], 1, HeaderLen) = Units(HeaderLen)
  <2>1. Piece(SubSeq(inbox[c]["srv"], 1, HeaderLen), 0, 0 + HeaderLen)
    BY <1>1, <1>6, FirstPiece
  <2>2. 0 + HeaderLen = HeaderLen
    BY <1>1
  <2> QED BY <1>1, <2>1, <2>2, PieceIsUnits
<1>8. Piece(inbox'[c]["srv"], HeaderLen, sent[c])
  <2>1. Piece(inbox'[c]["srv"], 0 + HeaderLen, sent[c])
    BY <1>1, <1>5, <1>6, RestPiece
  <2>2. 0 + HeaderLen = HeaderLen
    BY <1>1
  <2> QED BY <2>1, <2>2
<1>9. inbox'[c]["cli"] = IF Gone(c) THEN inbox[c]["cli"] ELSE Units(HeaderLen)
  <2>1. Units(HeaderLen) \in Seq(Nat)
    BY <1>1, UnitsAreAPiece DEF Piece
  <2>2. << >> \o Units(HeaderLen) = Units(HeaderLen)
    BY <2>1, ConcatEmptySeq
  <2> QED BY <1>5, <1>6, <1>7, <2>2
<1>10. len' = size[c]
  <2>1. FirstUnits(clientFD, HeaderLen) = Units(HeaderLen)
    BY <1>2, <1>7 DEF FirstUnits, Inbox, End
  <2> QED BY <1>1, <1>2, <2>1 DEF Announced, Units, End
<1>11. HeaderEchoed(c)'
  BY <1>5, <1>6, <1>8, <1>9, <1>10 DEF HeaderEchoed, Gone
<1>12. Talking(c)'
  <2>1. \E n \in 0 .. HeaderLen + size[c] : inbox'[c]["cli"] = Units(n)
    <3>1. CASE Gone(c)
      BY <1>3, <1>9, <3>1 DEF Talking
    <3>2. CASE ~ Gone(c)
      <4>1. HeaderLen \in 0 .. HeaderLen + size[c]
        BY <1>1, <1>6
      <4> QED BY <1>9, <3>2, <4>1
    <3> QED BY <3>1, <3>2
  <2>2. InHand(c)'
    BY <1>1, <1>2, <1>5 DEF InHand, AtClient
  <2> QED BY <1>1, <1>2, <1>4, <1>5, <1>11, <2>1, <2>2 DEF Talking
<1>13. /\ Conversations' /\ InHand(c)' /\ Listening(Port)' = Listening(Port)
       /\ \A d \in Conns \ {c} : Phase(d)' = Phase(d)
  BY <1>1, <1>2, <1>5, <1>12, InHandStep
<1>14. Phase(c) = "answering" /\ Phase(c)' = "answering"
  BY <1>1, <1>2, <1>4, <1>5, <1>13, PhasesByCase DEF PhaseCases
<1>15. [Echo!Next]_(Echo!vars)
  BY <1>1, <1>5, <1>6, <1>9, <1>13, <1>14, AnswerSeen
<1> QED BY <1>13, <1>15

LEMMA ReadBodyStep ==
  ASSUME Sound, Conversations, ReadBody
  PROVE  Conversations' /\ [Echo!Next]_(Echo!vars)
<1>1. /\ pc = "body" /\ pc' = "drop" /\ AtClient /\ NetTypeOK
      /\ UNCHANGED <<clientFD, cut, len>> /\ WriteBack(clientFD, len)
      /\ Arrived(clientFD, len) /\ HeaderLen \in Nat
  BY SocketsAssumption DEF ReadBody, AtClient, Sound, BaseTypeOK
<1>2. PICK c \in Conns : /\ InHand(c) /\ file[clientFD] = End("srv", c) /\ clientFD \in Fds
                         /\ end[c]["srv"] = "open"
                         /\ \A d \in Conns \ {c} : ~ InHand(d)
  BY <1>1, SomeoneInHand
<1>3. Linked(c) /\ Talking(c)
  BY DEF Conversations
<1>4. HeaderEchoed(c) /\ c \notin cut
  BY <1>1, <1>2, <1>3 DEF Talking
<1>5. /\ UNCHANGED <<file, backlog, end, size, sent>>
      /\ inbox'[c]["cli"] = IF Gone(c) THEN inbox[c]["cli"]
                            ELSE inbox[c]["cli"] \o SubSeq(inbox[c]["srv"], 1, len)
      /\ \A d \in Conns \ {c} : inbox'[d] = inbox[d]
  BY <1>1, <1>2, WriteBackEffect
<1>6. /\ Piece(inbox[c]["srv"], HeaderLen, sent[c]) /\ len = size[c]
      /\ len <= Len(inbox[c]["srv"]) /\ sent[c] \in Nat /\ size[c] \in Nat
      /\ HeaderLen + size[c] <= sent[c]
  <2>1. Inbox(clientFD) = inbox[c]["srv"]
    BY <1>2 DEF Inbox, End
  <2>2. sent[c] \in Nat /\ size[c] \in Nat
    BY <1>1, SocketsAssumption DEF NetTypeOK
  <2>3. Len(inbox[c]["srv"]) = sent[c] - HeaderLen
    BY <1>4 DEF HeaderEchoed, Piece
  <2> QED BY <1>1, <1>4, <2>1, <2>2, <2>3 DEF HeaderEchoed, Arrived
<1>7. Piece(SubSeq(inbox[c]["srv"], 1, len), HeaderLen, HeaderLen + size[c])
  BY <1>1, <1>6, FirstPiece
<1>8. ASSUME ~ Gone(c)
      PROVE  /\ inbox[c]["cli"] = Units(HeaderLen)
             /\ inbox'[c]["cli"] = Units(HeaderLen + size[c])
  <2>1. inbox[c]["cli"] = Units(HeaderLen)
    BY <1>4, <1>8 DEF HeaderEchoed
  <2>2. Piece(Units(HeaderLen), 0, HeaderLen) /\ 0 \in Nat /\ HeaderLen + size[c] \in Nat
    BY <1>1, <1>6, UnitsAreAPiece
  <2>3. Piece(Units(HeaderLen) \o SubSeq(inbox[c]["srv"], 1, len), 0, HeaderLen + size[c])
    BY <1>1, <1>7, <2>2, JoinPieces, Zenon
  <2>4. Units(HeaderLen) \o SubSeq(inbox[c]["srv"], 1, len) = Units(HeaderLen + size[c])
    BY <2>2, <2>3, PieceIsUnits
  <2> QED BY <1>5, <1>8, <2>1, <2>4
<1>9. MayHangUp(c)'
  BY <1>5, <1>8 DEF MayHangUp, Gone
<1>10. Talking(c)'
  <2>1. \E n \in 0 .. HeaderLen + size[c] : inbox'[c]["cli"] = Units(n)
    <3>1. CASE Gone(c)
      BY <1>3, <1>5, <3>1 DEF Talking
    <3>2. CASE ~ Gone(c)
      <4>1. HeaderLen + size[c] \in 0 .. HeaderLen + size[c]
        BY <1>1, <1>6
      <4> QED BY <1>8, <3>2, <4>1
    <3> QED BY <3>1, <3>2
  <2>2. InHand(c)'
    BY <1>1, <1>2, <1>5 DEF InHand, AtClient
  <2> QED BY <1>1, <1>2, <1>4, <1>5, <1>9, <2>1, <2>2 DEF Talking
<1>11. /\ Conversations' /\ InHand(c)' /\ Listening(Port)' = Listening(Port)
       /\ \A d \in Conns \ {c} : Phase(d)' = Phase(d)
  BY <1>1, <1>2, <1>5, <1>10, InHandStep
<1>12. Phase(c) = "answering" /\ Phase(c)' = "answering"
  BY <1>1, <1>2, <1>4, <1>5, <1>11, PhasesByCase DEF PhaseCases
<1>13. [Echo!Next]_(Echo!vars)
  <2>1. CASE Gone(c)
    BY <1>5, <1>11, <1>12, <2>1 DEF Echo!vars
  <2>2. CASE ~ Gone(c)
    <3>1. HeaderLen + size[c] \in Nat
      BY <1>1, <1>6
    <3> QED BY <1>5, <1>6, <1>8, <1>11, <1>12, <2>2, <3>1, AnswerSeen
  <2> QED BY <2>1, <2>2
<1> QED BY <1>11, <1>13

\* The stream ended: the client left before it had sent all of its message.
LEMMA ReadFailsStep ==
  ASSUME Sound, Conversations, ReadFails
  PROVE  Conversations' /\ UNCHANGED Echo!vars
<1>1. /\ pc \in {"header", "body"} /\ pc' = "drop" /\ AtClient /\ NetTypeOK
      /\ UNCHANGED <<file, backlog, end, inbox, size, sent, clientFD, cut, len>>
      /\ Hopeless(clientFD, Needed)
  BY DEF ReadFails, GivesUp, netVars, AtClient, Sound, BaseTypeOK
<1>2. PICK c \in Conns : /\ InHand(c) /\ file[clientFD] = End("srv", c) /\ clientFD \in Fds
                         /\ end[c]["srv"] = "open"
                         /\ \A d \in Conns \ {c} : ~ InHand(d)
  BY <1>1, SomeoneInHand
<1>3. Gone(c)
  BY <1>1, <1>2 DEF Hopeless, Connected, PeerGone, Peer, Ends, End, Gone
<1>4. Talking(c) /\ c \notin cut
  BY <1>1, <1>2 DEF Conversations, Talking
<1>5. InHand(c)'
  BY <1>1, <1>2 DEF InHand, AtClient
<1>6. Talking(c)'
  BY <1>1, <1>2, <1>3, <1>4, <1>5 DEF Talking, MayHangUp, Gone
<1>7. /\ Conversations' /\ Listening(Port)' = Listening(Port)
      /\ \A d \in Conns \ {c} : Phase(d)' = Phase(d)
  BY <1>1, <1>2, <1>6, InHandStep
<1>8. Phase(c)' = Phase(c)
  BY <1>1, <1>2, <1>4, <1>5, PhasesByCase DEF PhaseCases
<1> QED BY <1>1, <1>7, <1>8 DEF Echo!vars

\* Only a wait that could still have ended well is cut short.
LEMMA InterruptedStep ==
  ASSUME Sound, Conversations, Interrupted
  PROVE  Conversations' /\ Echo!Next
<1>1. /\ pc \in {"header", "body"} /\ pc' = "drop" /\ AtClient /\ NetTypeOK
      /\ UNCHANGED <<file, backlog, end, inbox, size, sent, clientFD, len>>
      /\ Blocked(clientFD, Needed) /\ cut' = cut \cup {file[clientFD].id}
  BY DEF Interrupted, netVars, AtClient, Sound, BaseTypeOK
<1>2. PICK c \in Conns : /\ InHand(c) /\ file[clientFD] = End("srv", c) /\ clientFD \in Fds
                         /\ end[c]["srv"] = "open"
                         /\ \A d \in Conns \ {c} : ~ InHand(d)
  BY <1>1, SomeoneInHand
<1>3. cut' = cut \cup {c}
  BY <1>1, <1>2 DEF End
<1>4. Talking(c) /\ c \notin cut
  BY <1>1, <1>2 DEF Conversations, Talking
<1>5. InHand(c)'
  BY <1>1, <1>2 DEF InHand, AtClient
<1>6. Talking(c)'
  BY <1>1, <1>2, <1>3, <1>4, <1>5 DEF Talking, MayHangUp
<1>7. /\ Conversations' /\ Listening(Port)' = Listening(Port)
      /\ \A d \in Conns \ {c} : Phase(d)' = Phase(d)
  BY <1>1, <1>2, <1>3, <1>6, InHandStep
<1>8. Phase(c) = "answering" /\ Phase(c)' = "cut"
  BY <1>1, <1>2, <1>3, <1>4, <1>5, PhasesByCase DEF PhaseCases
<1>9. sent[c] < HeaderLen + size[c]
  <2>1. /\ HeaderLen \in Nat /\ sent[c] \in Nat /\ size[c] \in Nat
        /\ Len(inbox[c]["srv"]) \in Nat
    <3>1. inbox[c]["srv"] \in Seq(Nat)
      BY <1>1 DEF NetTypeOK, Ends
    <3> QED BY <1>1, <3>1, SocketsAssumption, LenProperties DEF NetTypeOK
  <2>2. ~ (Len(inbox[c]["srv"]) >= Needed)
    BY <1>1, <1>2 DEF Blocked, Arrived, Connected, Inbox, Ends, End
  <2>3. CASE pc = "header"
    <3>1. Unanswered(c)
      BY <1>2, <1>4, <2>3 DEF Talking
    <3>2. Len(inbox[c]["srv"]) = sent[c]
      BY <2>1, <3>1 DEF Unanswered, Piece
    <3> QED BY <2>1, <2>2, <2>3, <3>2 DEF Needed
  <2>4. CASE pc = "body"
    <3>1. HeaderEchoed(c)
      BY <1>2, <1>4, <2>4 DEF Talking
    <3>2. Len(inbox[c]["srv"]) = sent[c] - HeaderLen /\ len = size[c]
      BY <3>1 DEF HeaderEchoed, Piece
    <3> QED BY <2>1, <2>2, <2>4, <3>2 DEF Needed
  <2> QED BY <1>1, <2>3, <2>4
<1>10. Echo!Cut(c)
  BY <1>1, <1>7, <1>8, <1>9, PhaseMoves DEF Echo!Cut, Echo!Move, Echo!Whole
<1> QED BY <1>7, <1>10 DEF Echo!Next, Echo!ServerStep

\* close(clientFD) ends the conversation of the client in hand, and no other.
LEMMA DropStep ==
  ASSUME Sound, Conversations, NEW next \in {"scan", "handle"}, Drop(next)
  PROVE  Conversations' /\ Echo!Next
<1>1. /\ pc = "drop" /\ pc' = next /\ AtClient /\ ~ AtClient' /\ NetTypeOK
      /\ Close(clientFD) /\ UNCHANGED <<inbox, size, sent, cut>>
  BY DEF Drop, Close, AtClient, Sound, BaseTypeOK
<1>2. PICK c \in Conns : /\ InHand(c) /\ file[clientFD] = End("srv", c) /\ clientFD \in Fds
                         /\ end[c]["srv"] = "open"
                         /\ \A d \in Conns \ {c} : ~ InHand(d)
  BY <1>1, SomeoneInHand
<1>3. /\ file'[clientFD] = Free
      /\ \A f \in Fds \ {clientFD} : file'[f] = file[f]
  BY <1>1, <1>2 DEF Close, NetTypeOK
<1>4. backlog'[Port] = backlog[Port]
  BY <1>1, <1>2, PortAssumption DEF Close, End
<1>5. /\ end'[c]["srv"] = "closed" /\ end'[c]["cli"] = end[c]["cli"]
      /\ \A d \in Conns \ {c} : end'[d] = end[d]
  <2>1. \A d \in Conns, e \in Ends : Ended(clientFD, d, e) <=> d = c /\ e = "srv"
    BY <1>2 DEF Ended, End
  <2>2. end' = [d \in Conns |-> [e \in Ends |->
                  IF d = c /\ e = "srv" THEN "closed" ELSE end[d][e]]]
    BY <1>1, <2>1 DEF Close
  <2>3. end \in [Conns -> [Ends -> {"none", "queued", "open", "closed"}]]
    BY <1>1 DEF NetTypeOK
  <2>4. \A d \in Conns \ {c} : end'[d] = end[d]
    BY <2>2, <2>3
  <2> QED BY <2>2, <2>4 DEF Ends
<1>6. \A f \in Fds : file[f] = End("srv", c) => f = clientFD
  <2>1. FileLinked(clientFD) /\ file[clientFD].kind = "srv"
    BY <1>2 DEF Conversations, End
  <2> QED BY <1>2, <2>1 DEF FileLinked
<1>7. ASSUME NEW f \in Fds PROVE FileLinked(f)'
  <2> SUFFICES ASSUME file'[f].kind = "srv"
               PROVE  /\ end'[file'[f].id]["srv"] = "open"
                      /\ \A g \in Fds : file'[g] = file'[f] => g = f
    BY DEF FileLinked
  <2>1. f # clientFD
    BY <1>3 DEF Free
  <2>2. file'[f] = file[f] /\ FileLinked(f) /\ file[f].id \in Conns /\ file[f] \in Files
    BY <1>1, <1>3, <2>1 DEF Conversations, Sound, NetTypeOK
  <2>3. file[f].id # c
    BY <1>6, <2>1, <2>2 DEF End, Files
  <2>4. \A g \in Fds : file'[g] = file'[f] => file[g] = file[f]
    BY <1>3, <2>2 DEF Free
  <2> QED BY <1>5, <2>2, <2>3, <2>4 DEF FileLinked
<1>8. \A d \in Conns : ~ InHand(d)'
  BY <1>1 DEF InHand
<1>9. \A d \in Conns \ {c} : Linked(d)' /\ Talking(d)' /\ Phase(d)' = Phase(d)
  <2>1. \A d \in Conns \ {c} : Untouched(d)
    BY <1>1, <1>2, <1>5 DEF Untouched, InHand
  <2>2. \A d \in Conns \ {c}, f \in Fds : file[f] = End("srv", d) => file'[f] = file[f]
    BY <1>2, <1>3 DEF End
  <2> QED BY <1>4, <2>1, <2>2, OthersGoOn
<1>10. Linked(c) /\ Talking(c)
  BY DEF Conversations
<1>11. Linked(c)'
  BY <1>1, <1>2, <1>4, <1>5, <1>10 DEF Linked
<1>12. MayHangUp(c)
  BY <1>1, <1>2, <1>10 DEF Talking
<1>13. Talking(c)'
  BY <1>1, <1>5, <1>8, <1>10, <1>12 DEF Talking, MayHangUp, Gone
<1>14. Conversations'
  BY <1>4, <1>7, <1>9, <1>11, <1>13 DEF Conversations
<1>15. /\ Phase(c) \in {"answering", "cut"} /\ (c \in cut => Phase(c) = "cut")
       /\ Phase(c)' = "closed"
  BY <1>2, <1>5, PhasesByCase DEF PhaseCases
<1>16. Listening(Port)' = Listening(Port)
  BY <1>2, <1>3 DEF Listening, Listener, Free, End
<1>17. \A d \in Conns : (end'[d]["cli"] = "closed") = (end[d]["cli"] = "closed")
  BY <1>5
<1>18. Echo!HangUp(c)
  <2>1. \/ inbox[c]["cli"] = [i \in 1 .. Echo!Whole(c) |-> i]
        \/ end[c]["cli"] = "closed"
        \/ Phase(c) = "cut"
    BY <1>12, <1>15 DEF MayHangUp, Gone, Units, Echo!Whole
  <2>2. Echo!Move(c, {"answering", "cut"}, "closed")
    BY <1>1, <1>9, <1>15, <1>16, <1>17, PhaseMoves DEF Echo!Move
  <2> QED BY <2>1, <2>2 DEF Echo!HangUp
<1> QED BY <1>14, <1>18 DEF Echo!Next, Echo!ServerStep

-----------------------------------------------------------------------------
(* What the conversations mean for the properties. *)

LEMMA ConversationsAtFirst ==
  ASSUME NetInit, BaseInit
  PROVE  Conversations /\ Echo!Init
<1>1. /\ \A f \in Fds : file[f] = Free
      /\ backlog[Port] = << >>
      /\ \A c \in Conns : /\ end[c]["srv"] = "none" /\ end[c]["cli"] = "none"
                          /\ inbox[c]["srv"] = << >> /\ inbox[c]["cli"] = << >>
                          /\ sent[c] = 0 /\ size[c] \in Nat
      /\ pc = "idle" /\ cut = {}
  BY SocketsAssumption, PortAssumption DEF NetInit, BaseInit, Ends
<1>2. ~ AtClient /\ HeaderLen \in Nat
  BY <1>1, SocketsAssumption DEF AtClient
<1>3. \A f \in Fds : FileLinked(f)
  BY <1>1 DEF FileLinked, Free
<1>4. ToSet(backlog[Port]) = {} /\ Distinct(backlog[Port])
  BY <1>1 DEF ToSet, Distinct
<1>5. \A c \in Conns : Linked(c)
  BY <1>1, <1>2, <1>4 DEF Linked
<1>6. ASSUME NEW c \in Conns PROVE Talking(c)
  <2>1. Piece(<< >>, 0, 0)
    BY EmptyPiece
  <2>2. << >> = Units(0) /\ 0 \in 0 .. HeaderLen + size[c]
    BY <1>1, <1>2, <2>1, PieceIsUnits
  <2> QED BY <1>1, <1>2, <2>1, <2>2 DEF Talking, Unanswered, InHand
<1>7. ~ Listening(Port)
  BY <1>1 DEF Listening, Listener, Free
<1>8. \A c \in Conns : Phase(c) = "none"
  BY <1>1, PhasesByCase DEF PhaseCases
<1>9. {c \in Conns : end[c]["cli"] = "closed"} = {}
  BY <1>1
<1>10. Echo!Init
  <2>1. /\ Listening(Port) = FALSE
        /\ [c \in Conns |-> Phase(c)] = [c \in Conns |-> "none"]
        /\ [c \in Conns |-> inbox[c]["cli"]] = [c \in Conns |-> << >>]
    BY <1>1, <1>7, <1>8
  <2>2. size \in [Conns -> Sizes] /\ sent = [c \in Conns |-> 0]
    BY Zenon DEF NetInit
  <2> QED BY <1>9, <2>1, <2>2, Zenon DEF Echo!Init
<1> QED BY <1>3, <1>4, <1>5, <1>6, <1>10 DEF Conversations

LEMMA ConversationsAreRight ==
  ASSUME Sound, Conversations
  PROVE  EchoesInOrder /\ NobodyIsCheated
<1>1. \A c \in Conns : Message(c) = Units(HeaderLen + size[c])
  BY DEF Message, Units
<1>2. \A c \in Conns : Talking(c)
  BY DEF Conversations
<1>3. EchoesInOrder
  <2> SUFFICES ASSUME NEW c \in Conns PROVE IsPrefix(inbox[c]["cli"], Message(c))
    BY DEF EchoesInOrder
  <2>1. HeaderLen + size[c] \in Nat
    <3>1. size[c] \in Nat /\ HeaderLen \in Nat
      BY SocketsAssumption DEF Sound, BaseTypeOK, NetTypeOK
    <3> QED BY <3>1
  <2>2. PICK n \in 0 .. HeaderLen + size[c] : inbox[c]["cli"] = Units(n)
    BY <1>2 DEF Talking
  <2>3. n \in Nat /\ n <= HeaderLen + size[c]
    BY <2>1
  <2>4. IsPrefix(Units(n), Units(HeaderLen + size[c]))
    BY <2>1, <2>3, UnitsArePrefix
  <2> QED BY <1>1, <2>2, <2>4
<1>4. NobodyIsCheated
  BY <1>1, <1>2 DEF NobodyIsCheated, Talking, MayHangUp, Gone
<1> QED BY <1>3, <1>4

=============================================================================
