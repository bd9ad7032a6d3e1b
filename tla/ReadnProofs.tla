----------------------------- MODULE ReadnProofs -----------------------------
(***************************************************************************)
(* Safety of readn for every request size, stream length and retry limit,  *)
(* and of the length header for every int and every base of its bytes.     *)
(***************************************************************************)
EXTENDS LengthHeader, TLAPS

\* What the loop maintains: the pointer, the remainder and the bytes taken move
\* together, and a finished call knows why it finished.
Progress ==
  /\ cur = taken
  /\ taken + remainLen = len

Outcome ==
  /\ pc \in {"read", "sleep"} => cause = "none" /\ retryCount <= RetryLimit
  /\ pc = "sleep" => peer = "eof" /\ taken = sent
  /\ pc = "broken" => cause \in {"eof", "EINTR"}
  /\ cause = "eof" => peer = "eof" /\ taken = sent /\ retryCount = RetryLimit + 1
  /\ cause = "error" => peer = "reset" /\ taken = sent
  /\ pc = "done" => (result = IF remainLen = 0 THEN "true" ELSE "false")
  /\ pc = "done" /\ result = "false" => cause # "none"

IInv == TypeOK /\ Progress /\ StoredInOrder /\ Outcome

LEMMA InitInv == Init => IInv
<1> SUFFICES ASSUME Init PROVE IInv
  OBVIOUS
<1> USE ReadnAssumption DEF Init
<1>1. TypeOK
  <2>1. buf \in [Cells -> 0 .. StreamLen]
    OBVIOUS
  <2> QED BY <2>1 DEF TypeOK
<1>2. Progress /\ StoredInOrder /\ Outcome
  BY DEF Progress, StoredInOrder, Outcome, Cells
<1> QED BY <1>1, <1>2 DEF IInv

LEMMA StepInv == IInv /\ [Next]_vars => IInv'
<1> SUFFICES ASSUME IInv, [Next]_vars PROVE IInv'
  OBVIOUS
<1> USE ReadnAssumption DEF IInv, locals, socket
<1>1. CASE PeerSend
  BY <1>1 DEF PeerSend, TypeOK, Progress, StoredInOrder, Outcome
<1>2. CASE PeerLeaves
  BY <1>2 DEF PeerLeaves, TypeOK, Progress, StoredInOrder, Outcome
<1>3. CASE ReadSome
  <2> PICK n \in 1 .. remainLen :
             /\ n <= sent - taken
             /\ buf' = Store(n)
             /\ cur' = cur + n
             /\ remainLen' = remainLen - n
             /\ taken' = taken + n
    BY <1>3 DEF ReadSome, Wanted, Advance
  <2> USE <1>3 DEF ReadSome, AtRead
  <2>1. StoredInOrder'
    BY DEF TypeOK, Progress, StoredInOrder, Store, Cells
  <2>2. TypeOK'
    BY DEF TypeOK, Progress, Store, Cells
  <2>3. Progress' /\ Outcome'
    BY DEF TypeOK, Progress, Outcome
  <2> QED BY <2>1, <2>2, <2>3
<1>4. CASE ReadZero
  BY <1>4 DEF ReadZero, AtRead, TypeOK, Progress, StoredInOrder, Outcome
<1>5. CASE WakeUp
  <2> USE <1>5 DEF WakeUp, Count, Exhausted
  <2>1. CASE Exhausted(retryCount')
    BY <2>1 DEF TypeOK, Progress, StoredInOrder, Outcome
  <2>2. CASE ~Exhausted(retryCount')
    BY <2>2 DEF TypeOK, Progress, StoredInOrder, Outcome
  <2> QED BY <2>1, <2>2
<1>6. CASE Interrupted
  BY <1>6 DEF Interrupted, AtRead, TypeOK, Progress, StoredInOrder, Outcome
<1>7. CASE ReadFails
  BY <1>7 DEF ReadFails, AtRead, TypeOK, Progress, StoredInOrder, Outcome
<1>8. CASE Return
  BY <1>8 DEF Return, Complete, TypeOK, Progress, StoredInOrder, Outcome
<1>9. CASE UNCHANGED vars
  BY <1>9 DEF vars, TypeOK, Progress, StoredInOrder, Outcome
<1> QED
  BY <1>1, <1>2, <1>3, <1>4, <1>5, <1>6, <1>7, <1>8, <1>9 DEF Next, Reader

LEMMA Invariance == Spec => []IInv
  BY InitInv, StepInv, PTL DEF Spec

LEMMA Consequences ==
  IInv => TypeOK /\ StoredInOrder /\ NeverReadsAhead /\ ResultIsHonest /\ GivesUpForACause
<1> SUFFICES ASSUME IInv
             PROVE  NeverReadsAhead /\ ResultIsHonest /\ GivesUpForACause
  BY DEF IInv
<1> USE ReadnAssumption DEF IInv, TypeOK, Progress
<1>1. NeverReadsAhead
  BY DEF NeverReadsAhead
<1>2. ResultIsHonest
  <2> SUFFICES ASSUME pc = "done"
               PROVE  result = "true" <=> \A i \in Cells : i < len => buf[i] = i + 1
    BY DEF ResultIsHonest
  <2>1. result = "true" <=> taken = len
    BY DEF Outcome
  <2>2. taken = len => \A i \in Cells : i < len => buf[i] = i + 1
    BY DEF StoredInOrder, Cells
  <2>3. taken # len => taken \in Cells /\ taken < len /\ buf[taken] = 0
    BY DEF StoredInOrder, Cells
  <2> QED BY <2>1, <2>2, <2>3
<1>3. GivesUpForACause
  BY DEF GivesUpForACause, Outcome
<1> QED BY <1>1, <1>2, <1>3

\* Every variable keeps its type, whatever the peer and the kernel do.
THEOREM TypeCorrect == Spec => []TypeOK
  BY Invariance, Consequences, PTL

\* Partial reads land behind each other, in stream order, inside the request.
THEOREM BufferIsTheStream == Spec => []StoredInOrder
  BY Invariance, Consequences, PTL

\* The bytes of the next message are never consumed.
THEOREM NoReadAhead == Spec => []NeverReadsAhead
  BY Invariance, Consequences, PTL

\* The Boolean answer tells the caller the truth about its buffer.
THEOREM HonestResult == Spec => []ResultIsHonest
  BY Invariance, Consequences, PTL

\* readn fails only at the end of the stream, on a signal or on an error.
THEOREM FailuresHaveACause == Spec => []GivesUpForACause
  BY Invariance, Consequences, PTL

-----------------------------------------------------------------------------
(* The length header. First, what its bytes say of a number.               *)

LEMMA Division ==
  ASSUME NEW B \in Nat \ {0}, NEW n \in Nat
  PROVE  n \div B \in Nat /\ n % B \in 0 .. B - 1 /\ n = B * (n \div B) + (n % B)
<1>1. n \div B \in Nat
  OBVIOUS
<1>2. n % B \in 0 .. B - 1
  OBVIOUS
<1>3. n % B = n - (n \div B) * B
  OBVIOUS
<1>4. PICK q \in Nat, r \in Nat : q = n \div B /\ r = n % B /\ r = n - q * B
  BY <1>1, <1>2, <1>3
<1>5. n = B * q + r
  BY <1>4
<1> QED BY <1>1, <1>2, <1>4, <1>5

LEMMA DivisionTwice ==
  ASSUME NEW B \in Nat \ {0}, NEW D \in Nat \ {0}, NEW n \in Nat
  PROVE  (n \div D) \div B = n \div (D * B)
OBVIOUS

LEMMA Quotient ==
  ASSUME NEW B \in Nat \ {0}, NEW n \in Nat, NEW m \in Nat, n < B * m
  PROVE  \E q \in Nat : q = n \div B /\ n = B * q + (n % B) /\ q < m
<1>1. n \div B < m
  OBVIOUS
<1> QED BY <1>1, Division

\* Four bytes are enough for a number below the fourth power of their base.
LEMMA BytesAddUp ==
  ASSUME NEW B \in Nat \ {0}, NEW n \in Nat, n < B * (B * B * B)
  PROVE  n = (n % B) + B * (((n \div B) % B) +
               B * (((n \div (B * B)) % B) + B * ((n \div (B * B * B)) % B)))
<1>1. PICK q1 \in Nat : q1 = n \div B /\ n = B * q1 + (n % B) /\ q1 < B * B * B
  <2>1. B * B * B \in Nat
    OBVIOUS
  <2> QED BY <2>1, Quotient
<1>2. PICK q2 \in Nat : q2 = q1 \div B /\ q1 = B * q2 + (q1 % B) /\ q2 < B * B
  <2>1. q1 < B * (B * B) /\ B * B \in Nat
    BY <1>1
  <2> QED BY <2>1, Quotient
<1>3. PICK q3 \in Nat : q3 = q2 \div B /\ q2 = B * q3 + (q2 % B) /\ q3 < B
  BY <1>2, Quotient
<1>4. q3 % B = q3
  BY <1>3
<1>5. q2 = n \div (B * B)
  BY <1>1, <1>2, DivisionTwice
<1>6. q3 = n \div (B * B * B)
  <2>1. B * B \in Nat \ {0}
    OBVIOUS
  <2> QED BY <1>3, <1>5, <2>1, DivisionTwice
<1> QED BY <1>1, <1>2, <1>3, <1>4, <1>5, <1>6

\* The bytes turned round so far.
Turned ==
  /\ written \in Lengths
  /\ index \in -1 .. Width - 1
  /\ DOMAIN ret = 0 .. Width - 1
  /\ \A k \in 0 .. Width - 1 : k > index => ret[k] = Byte(Width - k)

LEMMA TurnedAtFirst == HeaderInit => IInv /\ Turned
  BY InitInv DEF HeaderInit, Turned, Width

LEMMA HeaderStep ==
  ASSUME IInv, Turned, [HeaderNext]_<<vars, headerVars>>
  PROVE  IInv' /\ Turned'
<1>1. CASE Next /\ UNCHANGED headerVars
  BY <1>1, StepInv DEF headerVars, Turned, Byte
<1>2. CASE SwapByte
  <2>1. IInv'
    BY <1>2, StepInv DEF SwapByte
  <2>2. index \in 0 .. Width - 1 /\ pc = "done" /\ result = "true" /\ len = Width
    BY <1>2 DEF SwapByte, Turned, Width
  <2>3. In \in Cells /\ In < len /\ In = Width - 1 - index
    BY <2>2, ReadnAssumption DEF In, Cells, Width, IInv, TypeOK
  <2>4. buf[In] = Width - index
    BY <2>2, <2>3, Consequences DEF ResultIsHonest, Width
  <2>5. /\ ret' = [ret EXCEPT ![index] = Byte(Width - index)]
        /\ index' = index - 1 /\ written' = written
    BY <1>2, <2>4 DEF SwapByte
  <2>6. \A k : Byte(k)' = Byte(k)
    BY <2>5 DEF Byte
  <2> QED BY <2>1, <2>2, <2>5, <2>6 DEF Turned, Width
<1>3. CASE UNCHANGED <<vars, headerVars>>
  BY <1>3, StepInv DEF headerVars, Turned, Byte
<1> QED BY <1>1, <1>2, <1>3 DEF HeaderNext

LEMMA TurnedIsWritten == Turned => HeaderIsTheLength
<1> SUFFICES ASSUME Turned, index < 0 PROVE IntIn(ret) = written
  BY DEF HeaderIsTheLength
<1>1. PICK B \in Nat \ {0} : B = ByteBase /\ B % 2 = 0
  BY LengthHeaderAssumption
<1>2. PICK c \in Nat \ {0} : B = 2 * c
  BY <1>1
<1>3. PICK h \in Nat \ {0} : Wrap = B * (B * B * B) /\ Wrap = 2 * h /\ Wrap \div 2 = h
  <2>1. Wrap = B * (B * B * B)
    BY <1>1 DEF Wrap, Place, Width
  <2>2. PICK h \in Nat \ {0} : h = c * (B * B * B)
    OBVIOUS
  <2>3. Wrap = 2 * h
    BY <1>2, <2>1, <2>2
  <2> QED BY <2>1, <2>3
<1>4. PICK w \in Int : w = written /\ -h <= w /\ w < h
  BY <1>3, LengthHeaderAssumption DEF Turned
<1>5. PICK n \in Nat : n = w % Wrap /\ n = IF w < 0 THEN w + 2 * h ELSE w
  BY <1>3, <1>4
<1>6. \A k \in 0 .. 3 : ret[k] = (n \div Place[k + 1]) % B
  <2>1. \A k \in 0 .. 3 : ret[k] = Byte(4 - k) /\ 5 - (4 - k) = k + 1
    BY DEF Turned, Width
  <2> QED BY <1>1, <1>4, <1>5, <2>1 DEF Byte, Width
<1>7. /\ ret[0] = n % B /\ ret[1] = (n \div B) % B
      /\ ret[2] = (n \div (B * B)) % B /\ ret[3] = (n \div (B * B * B)) % B
  <2>1. Place[1] = 1 /\ Place[2] = B /\ Place[3] = B * B /\ Place[4] = B * B * B
    BY <1>1 DEF Place
  <2>2. n \div 1 = n
    OBVIOUS
  <2> QED BY <1>6, <2>1, <2>2
<1>8. n < B * (B * B * B)
  BY <1>3, <1>4, <1>5
<1>9. n = ret[0] + B * (ret[1] + B * (ret[2] + B * ret[3]))
  BY <1>7, <1>8, BytesAddUp
<1>10. IntIn(ret) = IF n < h THEN n ELSE n - 2 * h
  BY <1>1, <1>3, <1>9 DEF IntIn
<1> QED BY <1>4, <1>5, <1>10

\* Whatever int the client writes, in whatever pieces its bytes come, the server
\* takes the header for that int, be a byte of 256 values or of any other even
\* number.
THEOREM HeaderIsTheLengthAlways == HeaderSpec => []HeaderIsTheLength
  BY TurnedAtFirst, HeaderStep, TurnedIsWritten, PTL DEF HeaderSpec
=============================================================================
