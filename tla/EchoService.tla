----------------------------- MODULE EchoService -----------------------------
(***************************************************************************)
(* What an echo server promises to its clients, without descriptors,       *)
(* polling or loops: one client is answered at a time, its header before   *)
(* its body, each only once it has arrived and unchanged; and the server   *)
(* hangs up on a client only when that one has its answer, has left, or    *)
(* was cut short by a signal in the middle of its message.                 *)
(* SelectSocketServer and EPollSocketServer both implement it.             *)
(***************************************************************************)
EXTENDS Integers

CONSTANTS
  Conns,      (* connections                        *)
  HeaderLen,  (* units of a length header           *)
  Sizes       (* body lengths                       *)

ASSUME EchoServiceAssumption ==
  HeaderLen \in Nat \ {0} /\ Sizes \subseteq Nat

VARIABLES
  up,         (* the server takes connections       *)
  phase,      (* of each connection, as the server sees it *)
  size, sent, (* what each client announces, and how much of it it has sent *)
  gone,       (* clients that have left             *)
  echo        (* what each client was sent back     *)

vars == <<up, phase, size, sent, gone, echo>>

Phases == {"none", "waiting", "accepted", "answering", "cut", "closed"}

Whole(c) == HeaderLen + size[c]

Init ==
  /\ up = FALSE
  /\ phase = [c \in Conns |-> "none"]
  /\ size \in [Conns -> Sizes]
  /\ sent = [c \in Conns |-> 0]
  /\ gone = {}
  /\ echo = [c \in Conns |-> << >>]

Start ==
  /\ ~up
  /\ up' = TRUE
  /\ UNCHANGED <<phase, size, sent, gone, echo>>

\* The clients still waiting are turned away.
Stop ==
  /\ up
  /\ up' = FALSE
  /\ phase' = [c \in Conns |-> IF phase[c] = "waiting" THEN "closed" ELSE phase[c]]
  /\ UNCHANGED <<size, sent, gone, echo>>

Move(c, from, to) ==
  /\ phase[c] \in from
  /\ phase' = [phase EXCEPT ![c] = to]
  /\ UNCHANGED <<up, size, sent, gone, echo>>

Connect(c) == up /\ Move(c, {"none"}, "waiting")

Send(c) ==
  /\ phase[c] # "none" /\ c \notin gone
  /\ sent[c] < Whole(c)
  /\ sent' = [sent EXCEPT ![c] = @ + 1]
  /\ UNCHANGED <<up, phase, size, gone, echo>>

Leave(c) ==
  /\ phase[c] # "none"
  /\ gone' = gone \cup {c}
  /\ UNCHANGED <<up, phase, size, sent, echo>>

Accept(c) == Move(c, {"waiting"}, "accepted")

Busy(c) == phase[c] \in {"answering", "cut"}

\* There is one thread.
NobodyWaitsItsTurn == TRUE
NobodyIsBusy == \A d \in Conns : ~Busy(d)

Begin(c) ==
  /\ NobodyIsBusy
  /\ Move(c, {"accepted"}, "answering")

\* Nothing is written before it was read.
Unread(c, n) == TRUE
HasArrived(c, n) == n <= sent[c]

\* The header comes back first, then the whole message.
Answer(c, n) ==
  /\ phase[c] = "answering" /\ c \notin gone
  /\ HasArrived(c, n)
  /\ \/ n = HeaderLen /\ echo[c] = << >>
     \/ n = Whole(c) /\ echo[c] = [i \in 1 .. HeaderLen |-> i]
  /\ echo' = [echo EXCEPT ![c] = [i \in 1 .. n |-> i]]
  /\ UNCHANGED <<up, phase, size, sent, gone>>

\* A signal interrupts the wait for the rest of a message.
Cut(c) == sent[c] < Whole(c) /\ Move(c, {"answering"}, "cut")

HangUp(c) ==
  /\ \/ echo[c] = [i \in 1 .. Whole(c) |-> i]
     \/ c \in gone
     \/ phase[c] = "cut"
  /\ Move(c, {"answering", "cut"}, "closed")

Client(c) == Connect(c) \/ Send(c) \/ Leave(c)
ServerStep(c) ==
  \/ Accept(c) \/ Begin(c) \/ Cut(c) \/ HangUp(c)
  \/ \E n \in {HeaderLen, Whole(c)} : Answer(c, n)

Next == Start \/ Stop \/ \E c \in Conns : Client(c) \/ ServerStep(c)

Spec == Init /\ [][Next]_vars

-----------------------------------------------------------------------------
\* Conversations do not mix: between the first unit the server sends a client
\* and its hanging up on it, it sends nothing to another client.
Conversing(c) == echo[c] # << >> /\ phase[c] # "closed"

OneConversation ==
  \A c, d \in Conns : Conversing(c) /\ Conversing(d) => c = d

\* What a client has been sent is the beginning of what it sent before, cut after
\* its header or at its end.
EchoOfWhatArrived ==
  \A c \in Conns :
    \E n \in {0, HeaderLen, Whole(c)} :
      n <= sent[c] /\ echo[c] = [i \in 1 .. n |-> i]
=============================================================================
