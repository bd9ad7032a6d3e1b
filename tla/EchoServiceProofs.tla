------------------------- MODULE EchoServiceProofs -------------------------
(***************************************************************************)
(* What follows from the promise of an echo server alone, for any number   *)
(* of clients and any message lengths; a server that implements            *)
(* EchoService inherits it.                                                *)
(***************************************************************************)
EXTENDS EchoService, TLAPS

TypeInv ==
  /\ phase \in [Conns -> Phases]
  /\ size \in [Conns -> Nat]
  /\ sent \in [Conns -> Nat]
  /\ DOMAIN echo = Conns

OneIsBusy == \A c, d \in Conns : Busy(c) /\ Busy(d) => c = d

\* Only a client that has been begun with has an echo.
EchoesFollowBegin ==
  \A c \in Conns : echo[c] # << >> => Busy(c) \/ phase[c] = "closed"

IInv == TypeInv /\ OneIsBusy /\ EchoesFollowBegin /\ EchoOfWhatArrived

LEMMA InitInv == Init => IInv
<1> SUFFICES ASSUME Init PROVE IInv
  OBVIOUS
<1> USE EchoServiceAssumption DEF Init
<1>1. TypeInv
  BY DEF TypeInv, Phases
<1>2. OneIsBusy /\ EchoesFollowBegin
  BY DEF OneIsBusy, EchoesFollowBegin, Busy
<1>3. << >> = [i \in 1 .. 0 |-> i]
  OBVIOUS
<1>4. \A c \in Conns : 0 <= sent[c] /\ echo[c] = [i \in 1 .. 0 |-> i]
  <2>1. 0 <= 0
    OBVIOUS
  <2>2. \A c \in Conns : sent[c] = 0 /\ echo[c] = << >>
    BY Zenon
  <2> QED BY <1>3, <2>1, <2>2, Zenon
<1>5. EchoOfWhatArrived
  BY <1>4 DEF EchoOfWhatArrived
<1> QED BY <1>1, <1>2, <1>5 DEF IInv

\* A step that leaves the echoes alone, takes nothing back of what was sent, and
\* makes at most one client busy, when none is.
LEMMA QuietStep ==
  ASSUME IInv, TypeInv', echo' = echo, size' = size,
         \A c \in Conns : sent[c] <= sent'[c],
         \A c \in Conns : phase[c] = "closed" => phase'[c] = "closed",
         \A c \in Conns : Busy(c) => Busy(c)' \/ phase'[c] = "closed",
         \/ \A c \in Conns : Busy(c)' => Busy(c)
         \/ NobodyIsBusy /\ \E c \in Conns : \A d \in Conns : Busy(d)' => d = c
  PROVE  IInv'
<1>1. OneIsBusy'
  BY DEF IInv, OneIsBusy, NobodyIsBusy
<1>2. EchoesFollowBegin'
  BY DEF IInv, EchoesFollowBegin
<1>3. EchoOfWhatArrived'
  <2> SUFFICES ASSUME NEW c \in Conns
               PROVE  \E n \in {0, HeaderLen, Whole(c)'} :
                        n <= sent'[c] /\ echo'[c] = [i \in 1 .. n |-> i]
    BY DEF EchoOfWhatArrived
  <2>1. PICK n \in {0, HeaderLen, Whole(c)} :
          n <= sent[c] /\ echo[c] = [i \in 1 .. n |-> i]
    BY DEF IInv, EchoOfWhatArrived
  <2>2. n \in Nat /\ sent[c] \in Nat /\ sent'[c] \in Nat
    BY EchoServiceAssumption DEF IInv, TypeInv, Whole
  <2> QED BY <2>1, <2>2 DEF Whole
<1> QED BY <1>1, <1>2, <1>3 DEF IInv

LEMMA AnswerStep ==
  ASSUME IInv, NEW c \in Conns, NEW n \in {HeaderLen, Whole(c)}, Answer(c, n)
  PROVE  IInv'
<1> USE EchoServiceAssumption DEF IInv, Answer
<1>1. TypeInv'
  BY DEF TypeInv
<1>2. OneIsBusy'
  BY DEF OneIsBusy, Busy
<1>3. EchoesFollowBegin'
  BY DEF EchoesFollowBegin, Busy, TypeInv
<1>4. EchoOfWhatArrived'
  <2> SUFFICES ASSUME NEW d \in Conns
               PROVE  \E m \in {0, HeaderLen, Whole(d)'} :
                        m <= sent'[d] /\ echo'[d] = [i \in 1 .. m |-> i]
    BY DEF EchoOfWhatArrived
  <2>1. CASE d = c
    BY <2>1 DEF TypeInv, Whole, HasArrived
  <2>2. CASE d # c
    BY <2>2 DEF EchoOfWhatArrived, TypeInv, Whole
  <2> QED BY <2>1, <2>2
<1> QED BY <1>1, <1>2, <1>3, <1>4

THEOREM Invariance == Spec => []IInv
<1>1. IInv /\ [Next]_vars => IInv'
  <2> SUFFICES ASSUME IInv, [Next]_vars PROVE IInv'
    OBVIOUS
  <2> USE EchoServiceAssumption DEF IInv
  <2>1. CASE Start
    BY <2>1, QuietStep DEF Start, TypeInv, Busy
  <2>2. CASE Stop
    BY <2>2, QuietStep DEF Stop, TypeInv, Busy, Phases
  <2>3. ASSUME NEW c \in Conns, Connect(c) PROVE IInv'
    BY <2>3, QuietStep DEF Connect, Move, TypeInv, Busy, Phases
  <2>4. ASSUME NEW c \in Conns, Send(c) PROVE IInv'
    BY <2>4, QuietStep DEF Send, TypeInv, Busy
  <2>5. ASSUME NEW c \in Conns, Leave(c) PROVE IInv'
    BY <2>5, QuietStep DEF Leave, TypeInv, Busy
  <2>6. ASSUME NEW c \in Conns, Accept(c) PROVE IInv'
    BY <2>6, QuietStep DEF Accept, Move, TypeInv, Busy, Phases
  <2>7. ASSUME NEW c \in Conns, Begin(c) PROVE IInv'
    BY <2>7, QuietStep DEF Begin, Move, TypeInv, Busy, Phases, NobodyIsBusy
  <2>8. ASSUME NEW c \in Conns, Cut(c) PROVE IInv'
    BY <2>8, QuietStep DEF Cut, Move, TypeInv, Busy, Phases
  <2>9. ASSUME NEW c \in Conns, HangUp(c) PROVE IInv'
    BY <2>9, QuietStep DEF HangUp, Move, TypeInv, Busy, Phases
  <2>10. CASE UNCHANGED vars
    BY <2>10, QuietStep DEF vars, TypeInv, Busy
  <2> QED BY <2>1, <2>2, <2>3, <2>4, <2>5, <2>6, <2>7, <2>8, <2>9, <2>10, AnswerStep
          DEF Next, Client, ServerStep
<1> QED BY InitInv, <1>1, PTL DEF Spec

\* However many clients there are, the server talks to one at a time, from the
\* first unit it echoes to the hang-up.
THEOREM ConversationsDoNotMix == Spec => []OneConversation
<1>1. IInv => OneConversation
  BY DEF IInv, OneConversation, Conversing, OneIsBusy, EchoesFollowBegin
<1> QED BY Invariance, <1>1, PTL

\* A client is only ever sent the beginning of its own message, and never more of
\* it than it had sent.
THEOREM EchoesAreOfWhatArrived == Spec => []EchoOfWhatArrived
<1>1. IInv => EchoOfWhatArrived
  BY DEF IInv
<1> QED BY Invariance, <1>1, PTL
=============================================================================
