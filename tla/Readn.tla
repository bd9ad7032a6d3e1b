------------------------------- MODULE Readn -------------------------------
(***************************************************************************)
(* AbstractSocketServer::readn: read exactly len bytes from a connected    *)
(* stream socket into a buffer, in as many read() calls as it takes.       *)
(*                                                                         *)
(* Bytes are named by their position in the peer's stream (1, 2, ...), so  *)
(* a cell of the buffer tells which byte of the stream landed in it.       *)
(* The socket is external: `sent' bytes have arrived, `taken' were read.   *)
(***************************************************************************)
EXTENDS Integers

CONSTANTS
  MaxLen,      (* largest len a caller asks for                           *)
  StreamLen,   (* bytes the peer sends at most (bounds the model)         *)
  RetryLimit   (* 10 in the source: zero reads tolerated before giving up *)

ASSUME ReadnAssumption ==
  /\ MaxLen \in Nat
  /\ StreamLen \in Nat
  /\ RetryLimit \in Nat

VARIABLES
  len,         (* the argument                                            *)
  buf,         (* the caller's memory: stream position per cell, 0 unset  *)
  cur,         (* the moving pointer buf of the source, as an offset      *)
  remainLen,
  retryCount,
  pc,          (* "read": at the read() call; "sleep": in sleep(100);     *)
               (* "broken": left the loop by break; "done": returned      *)
  cause,       (* why the loop was left early; history variable           *)
  result,      (* "none" until readn returns "true" or "false"              *)
  sent, taken, (* stream bytes delivered to / consumed from the socket    *)
  peer         (* "open", "eof" (orderly shutdown) or "reset"             *)

locals == <<len, buf, cur, remainLen, retryCount, pc, cause, result>>
socket == <<sent, taken, peer>>
vars   == <<locals, socket>>

Cells == 0 .. MaxLen - 1

Init ==
  /\ len \in 0 .. MaxLen
  /\ buf = [i \in Cells |-> 0]
  /\ cur = 0
  /\ remainLen = len
  /\ retryCount = 0
  /\ pc = "read"
  /\ cause = "none"
  /\ result = "none"
  /\ sent = 0 /\ taken = 0 /\ peer = "open"

-----------------------------------------------------------------------------
(* The peer. *)

PeerSend ==
  /\ peer = "open"
  /\ \E s \in sent + 1 .. StreamLen : sent' = s
  /\ UNCHANGED <<locals, taken, peer>>

PeerLeaves ==
  /\ peer = "open"
  /\ peer' \in {"eof", "reset"}
  /\ UNCHANGED <<locals, sent, taken>>

-----------------------------------------------------------------------------
(* The reader. *)

AtRead == pc = "read" /\ remainLen > 0

\* Where n bytes read at once land: from the pointer on.
Store(n) ==
  [i \in Cells |-> IF cur <= i /\ i < cur + n THEN taken + 1 + i - cur ELSE buf[i]]

\* buf += tmpLen.
AdvanceForgotten(n) == cur
Advance(n) == cur + n

\* The most one read() call is asked for.
WantedWhole == len
Wanted == remainLen

\* ++retryCount, and the test that ends the waiting.
CountForgotten == retryCount
Count == retryCount + 1
ExhaustedOneEarly(n) == n >= RetryLimit
ExhaustedNever(n) == n < 0
Exhausted(n) == n > RetryLimit

\* The value returned once the loop is over.
CompleteIfPatient == retryCount <= RetryLimit
Complete == remainLen = 0

\* read() > 0: a part of what has arrived, at most what was asked for.
ReadSome ==
  /\ AtRead
  /\ \E n \in 1 .. Wanted :
       /\ n <= sent - taken
       /\ buf' = Store(n)
       /\ cur' = Advance(n)
       /\ remainLen' = remainLen - n
       /\ taken' = taken + n
  /\ UNCHANGED <<len, retryCount, pc, cause, result, sent, peer>>

\* read() = 0: the peer has shut down and nothing is left to read.
ReadZero ==
  /\ AtRead
  /\ sent = taken /\ peer = "eof"
  /\ pc' = "sleep"
  /\ UNCHANGED <<len, buf, cur, remainLen, retryCount, cause, result, socket>>

\* sleep(100) is over: ++retryCount > 10 breaks out of the loop, otherwise the
\* loop goes on (adding tmpLen = 0 changes nothing).
WakeUp ==
  /\ pc = "sleep"
  /\ retryCount' = Count
  /\ IF Exhausted(retryCount')
       THEN pc' = "broken" /\ cause' = "eof"
       ELSE pc' = "read" /\ UNCHANGED cause
  /\ UNCHANGED <<len, buf, cur, remainLen, result, socket>>

\* read() = -1 with EINTR: a signal hit while the call was blocked. The code
\* logs "try again..." and breaks.
Interrupted ==
  /\ AtRead
  /\ sent = taken /\ peer = "open"
  /\ pc' = "broken" /\ cause' = "EINTR"
  /\ UNCHANGED <<len, buf, cur, remainLen, retryCount, result, socket>>

\* read() = -1 with any other errno: return false at once.
ReadFails ==
  /\ AtRead
  /\ sent = taken /\ peer = "reset"
  /\ pc' = "done" /\ cause' = "error" /\ result' = "false"
  /\ UNCHANGED <<len, buf, cur, remainLen, retryCount, socket>>

\* The loop is over: return remainLen == 0.
Return ==
  /\ \/ pc = "read" /\ remainLen = 0
     \/ pc = "broken"
  /\ pc' = "done" /\ result' = IF Complete THEN "true" ELSE "false"
  /\ UNCHANGED <<len, buf, cur, remainLen, retryCount, cause, socket>>

Reader == ReadSome \/ ReadZero \/ WakeUp \/ Interrupted \/ ReadFails \/ Return

Next == PeerSend \/ PeerLeaves \/ Reader

\* The server thread keeps running; the peer promises nothing.
Spec == Init /\ [][Next]_vars /\ WF_vars(Reader)

-----------------------------------------------------------------------------
TypeOK ==
  /\ len \in 0 .. MaxLen
  /\ buf \in [Cells -> 0 .. StreamLen]
  /\ cur \in 0 .. MaxLen
  /\ remainLen \in 0 .. MaxLen
  /\ retryCount \in 0 .. RetryLimit + 1
  /\ pc \in {"read", "sleep", "broken", "done"}
  /\ cause \in {"none", "eof", "EINTR", "error"}
  /\ result \in {"none", "true", "false"}
  /\ sent \in 0 .. StreamLen
  /\ taken \in 0 .. sent
  /\ peer \in {"open", "eof", "reset"}

\* The cells behind the pointer hold the stream in order, the others are
\* untouched: partial reads neither overwrite, skip nor reorder bytes, and
\* nothing is written at or beyond len (readn, the pointer and the remainder).
StoredInOrder ==
  \A i \in Cells : buf[i] = IF i < taken THEN i + 1 ELSE 0

\* Bytes after the len requested ones stay in the socket for the next call: the
\* header read never eats into the body (read is passed remainLen, not len).
NeverReadsAhead == taken <= len

\* readn answers true exactly when the caller's len bytes are all there.
ResultIsHonest ==
  pc = "done" => (result = "true" <=> \A i \in Cells : i < len => buf[i] = i + 1)

\* readn gives up for one of three reasons only, and at the end of the stream
\* only after RetryLimit + 1 zero reads with every delivered byte consumed.
GivesUpForACause ==
  pc = "done" /\ result = "false" =>
    \/ cause = "eof" /\ peer = "eof" /\ retryCount = RetryLimit + 1 /\ taken = sent
    \/ cause = "EINTR"
    \/ cause = "error" /\ peer = "reset" /\ taken = sent

\* What AbstractSocketServer.cpp:45 logs on EINTR, "internal error, try
\* again...": an interrupted read does not make readn give up.
InterruptIsRetried == pc = "done" /\ result = "false" => cause # "EINTR"

\* readn does not hang on a peer that has delivered enough or is gone.
Terminates == (sent - taken >= remainLen \/ peer # "open") ~> pc = "done"
=============================================================================
