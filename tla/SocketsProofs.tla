---------------------------- MODULE SocketsProofs ----------------------------
(***************************************************************************)
(* Lemmas on what the modules over Sockets are built from: lists of        *)
(* descriptors, the kernel's operations, and the pieces a stream of units  *)
(* is read and written in. AbstractSocketServerProofs and EchoProcessProofs*)
(* rest on them.                                                           *)
(***************************************************************************)
EXTENDS Sockets, SequenceTheorems, TLAPS

-----------------------------------------------------------------------------
(* Sequences. *)

LEMMA RemoveAtProperties ==
  ASSUME NEW S, NEW s \in Seq(S), NEW i \in 1 .. Len(s)
  PROVE  /\ RemoveAt(s, i) \in Seq(S)
         /\ Len(RemoveAt(s, i)) = Len(s) - 1
         /\ \A j \in 1 .. Len(s) - 1 :
              RemoveAt(s, i)[j] = IF j < i THEN s[j] ELSE s[j + 1]
<1> DEFINE a == SubSeq(s, 1, i - 1)
           b == SubSeq(s, i + 1, Len(s))
<1>1. Len(s) \in Nat /\ i \in Nat /\ \A j \in 1 .. Len(s) : s[j] \in S
  BY LenProperties, ElementOfSeq
<1>2. a \in Seq(S) /\ Len(a) = i - 1 /\ \A j \in 1 .. i - 1 : a[j] = s[j]
  <2>1. \A j \in 1 .. i - 1 : s[j] \in S
    BY <1>1
  <2>2. /\ a \in Seq(S)
        /\ Len(a) = IF 1 <= i - 1 THEN i - 1 - 1 + 1 ELSE 0
        /\ \A j \in 1 .. i - 1 - 1 + 1 : a[j] = s[1 + j - 1]
    BY <1>1, <2>1, SubSeqProperties
  <2> HIDE DEF a
  <2> QED BY <1>1, <2>2
<1>3. /\ b \in Seq(S) /\ Len(b) = Len(s) - i
      /\ \A j \in 1 .. Len(s) - i : b[j] = s[i + j]
  <2>1. \A j \in i + 1 .. Len(s) : s[j] \in S
    BY <1>1
  <2>2. /\ b \in Seq(S)
        /\ Len(b) = IF i + 1 <= Len(s) THEN Len(s) - (i + 1) + 1 ELSE 0
        /\ \A j \in 1 .. Len(s) - (i + 1) + 1 : b[j] = s[i + 1 + j - 1]
    BY <1>1, <2>1, SubSeqProperties
  <2> HIDE DEF b
  <2> QED BY <1>1, <2>2
<1>4. RemoveAt(s, i) = a \o b
  BY DEF RemoveAt
<1> HIDE DEF a, b
<1>5. /\ a \o b \in Seq(S) /\ Len(a \o b) = Len(a) + Len(b)
      /\ \A j \in 1 .. Len(a) + Len(b) :
           (a \o b)[j] = IF j <= Len(a) THEN a[j] ELSE b[j - Len(a)]
  BY <1>2, <1>3, ConcatProperties
<1>6. ASSUME NEW j \in 1 .. Len(s) - 1
      PROVE  (a \o b)[j] = IF j < i THEN s[j] ELSE s[j + 1]
  <2>1. CASE j < i
    BY <2>1, <1>1, <1>2, <1>3, <1>5
  <2>2. CASE ~(j < i)
    <3>1. (a \o b)[j] = b[j - Len(a)] /\ j - Len(a) \in 1 .. Len(s) - i
      <4>1. /\ Len(a) = i - 1 /\ Len(b) = Len(s) - i /\ i \in Nat /\ j \in Nat
            /\ Len(s) \in Nat /\ i >= 1 /\ j <= Len(s) - 1 /\ j >= i
        BY <2>2, <1>1, <1>2, <1>3
      <4>2. j \in 1 .. Len(a) + Len(b) /\ ~ (j <= Len(a))
        BY <4>1
      <4>3. (a \o b)[j] = b[j - Len(a)]
        BY <1>5, <4>2
      <4> QED BY <4>1, <4>3
    <3>2. b[j - Len(a)] = s[i + (j - Len(a))]
      BY <3>1, <1>3
    <3>3. i + (j - Len(a)) = j + 1
      <4>1. Len(a) = i - 1 /\ i \in Nat /\ j \in Nat
        BY <1>1, <1>2
      <4> QED BY <4>1
    <3> QED BY <2>2, <3>1, <3>2, <3>3
  <2> QED BY <2>1, <2>2
<1> QED BY <1>1, <1>2, <1>3, <1>4, <1>5, <1>6

Distinct(s) == \A i, j \in 1 .. Len(s) : s[i] = s[j] => i = j

\* What a list of distinct elements holds once one of them is erased.
LEMMA RemoveAtElements ==
  ASSUME NEW S, NEW s \in Seq(S), NEW i \in 1 .. Len(s), Distinct(s)
  PROVE  /\ ToSet(RemoveAt(s, i)) = ToSet(s) \ {s[i]}
         /\ Distinct(RemoveAt(s, i))
<1> DEFINE r == RemoveAt(s, i)
<1>1. /\ r \in Seq(S) /\ Len(r) = Len(s) - 1
      /\ \A j \in 1 .. Len(s) - 1 : r[j] = IF j < i THEN s[j] ELSE s[j + 1]
  BY RemoveAtProperties
<1>2. Len(s) \in Nat /\ DOMAIN s = 1 .. Len(s) /\ DOMAIN r = 1 .. Len(s) - 1
  BY <1>1, LenProperties
<1> HIDE DEF r
<1>3. Distinct(r)
  BY <1>1, <1>2 DEF Distinct
<1>4. \A j \in 1 .. Len(s) - 1 : r[j] \in ToSet(s) \ {s[i]}
  BY <1>1, <1>2 DEF ToSet, Distinct
<1>5. ASSUME NEW k \in 1 .. Len(s), k # i
      PROVE  s[k] \in ToSet(r)
  <2>1. CASE k < i
    BY <2>1, <1>1, <1>2 DEF ToSet
  <2>2. CASE k > i
    <3>1. k - 1 \in 1 .. Len(s) - 1 /\ r[k - 1] = s[k]
      BY <2>2, <1>1, <1>2
    <3> QED BY <3>1, <1>2 DEF ToSet
  <2> QED BY <1>2, <1>5, <2>1, <2>2
<1>6. ToSet(r) = ToSet(s) \ {s[i]}
  BY <1>2, <1>4, <1>5 DEF ToSet
<1> QED BY <1>3, <1>6 DEF r

LEMMA AppendElements ==
  ASSUME NEW S, NEW s \in Seq(S), NEW e \in S
  PROVE  /\ ToSet(Append(s, e)) = ToSet(s) \cup {e}
         /\ e \notin ToSet(s) /\ Distinct(s) => Distinct(Append(s, e))
<1> DEFINE r == Append(s, e)
<1>1. /\ r \in Seq(S) /\ Len(r) = Len(s) + 1
      /\ \A j \in 1 .. Len(s) : r[j] = s[j]
      /\ r[Len(s) + 1] = e
  BY AppendProperties
<1>2. Len(s) \in Nat /\ DOMAIN s = 1 .. Len(s) /\ DOMAIN r = 1 .. Len(s) + 1
  BY <1>1, LenProperties
<1> HIDE DEF r
<1>3. ToSet(r) = ToSet(s) \cup {e}
  BY <1>1, <1>2 DEF ToSet
<1>4. e \notin ToSet(s) /\ Distinct(s) => Distinct(r)
  BY <1>1, <1>2 DEF ToSet, Distinct
<1> QED BY <1>3, <1>4 DEF r

LEMMA TailElements ==
  ASSUME NEW S, NEW s \in Seq(S), s # << >>, Distinct(s)
  PROVE  /\ ToSet(Tail(s)) = ToSet(s) \ {Head(s)}
         /\ Distinct(Tail(s))
         /\ Head(s) \in ToSet(s)
<1> DEFINE r == Tail(s)
<1>1. /\ r \in Seq(S) /\ Len(r) = Len(s) - 1
      /\ \A j \in 1 .. Len(r) : r[j] = s[j + 1]
      /\ Head(s) = s[1]
  BY HeadTailProperties
<1>2. /\ Len(s) \in Nat \ {0} /\ DOMAIN s = 1 .. Len(s) /\ DOMAIN r = 1 .. Len(s) - 1
  BY <1>1, LenProperties, EmptySeq
<1> HIDE DEF r
<1>3. Distinct(r)
  BY <1>1, <1>2 DEF Distinct
<1>4. \A j \in 1 .. Len(s) - 1 : r[j] \in ToSet(s) \ {s[1]}
  BY <1>1, <1>2 DEF ToSet, Distinct
<1>5. ASSUME NEW k \in 2 .. Len(s) PROVE s[k] \in ToSet(r)
  <2>1. k - 1 \in 1 .. Len(s) - 1 /\ r[k - 1] = s[k]
    BY <1>1, <1>2
  <2> QED BY <2>1, <1>2 DEF ToSet
<1>6. s[1] \in ToSet(s)
  BY <1>2 DEF ToSet
<1>7. ToSet(r) = ToSet(s) \ {s[1]}
  BY <1>2, <1>4, <1>5 DEF ToSet
<1> QED BY <1>1, <1>3, <1>6, <1>7 DEF r

-----------------------------------------------------------------------------
(* The kernel's operations keep its state well typed. *)

LEMMA NetTypeAtFirst == ASSUME NetInit PROVE NetTypeOK
<1> USE SocketsAssumption DEF NetInit
<1>1. << >> \in Seq(Conns) /\ << >> \in Seq(Nat)
  BY EmptySeq
<1>2. file \in [Fds -> Files]
  BY DEF Free, Files
<1>3. backlog \in [Ports -> Seq(Conns)] /\ inbox \in [Conns -> [Ends -> Seq(Nat)]]
  BY <1>1
<1> QED BY <1>2, <1>3 DEF NetTypeOK

LEMMA CloseType ==
  ASSUME NetTypeOK, NEW f \in Fds, Close(f)
  PROVE  /\ NetTypeOK'
         /\ file' = [file EXCEPT ![f] = Free]
<1> USE DEF NetTypeOK, Close
<1>1. file' \in [Fds -> Files]
  BY DEF Free, Files
<1>2. backlog' \in [Ports -> Seq(Conns)]
  <2>1. << >> \in Seq(Conns)
    BY EmptySeq
  <2> QED BY <2>1
<1>3. end' \in [Conns -> [Ends -> {"none", "queued", "open", "closed"}]]
  OBVIOUS
<1> QED BY <1>1, <1>2, <1>3

LEMMA WriteBackType ==
  ASSUME NetTypeOK, NEW f \in Fds, file[f].kind \in Ends, file[f].id \in Conns,
         NEW n \in Nat, Len(Inbox(f)) >= n, WriteBack(f, n)
  PROVE  NetTypeOK' /\ file' = file
<1> DEFINE c == file[f].id
           e == file[f].kind
           rest == SubSeq(inbox[c][e], n + 1, Len(inbox[c][e]))
           units == SubSeq(inbox[c][e], 1, n)
<1>1. inbox[c] \in [Ends -> Seq(Nat)] /\ inbox[c][e] \in Seq(Nat)
  BY DEF NetTypeOK
<1>2. Len(inbox[c][e]) \in Nat /\ \A j \in 1 .. Len(inbox[c][e]) : inbox[c][e][j] \in Nat
  BY <1>1, LenProperties, ElementOfSeq
<1>3. rest \in Seq(Nat)
  <2>1. \A j \in n + 1 .. Len(inbox[c][e]) : inbox[c][e][j] \in Nat
    BY <1>2
  <2> QED BY <1>2, <2>1, SubSeqProperties
<1>4. units \in Seq(Nat)
  <2>1. \A j \in 1 .. n : inbox[c][e][j] \in Nat
    BY <1>2 DEF Inbox
  <2> QED BY <1>2, <2>1, SubSeqProperties
<1>5. \A x \in Ends : inbox[c][x] \o units \in Seq(Nat)
  BY <1>1, <1>4, ConcatProperties
<1>6. inbox' = [inbox EXCEPT ![c] = [x \in Ends |->
           IF x = e THEN rest
           ELSE IF PeerGone(f) THEN inbox[c][x] ELSE inbox[c][x] \o units]]
  BY DEF WriteBack, FirstUnits, Inbox
<1> HIDE DEF rest, units
<1>7. [x \in Ends |->
           IF x = e THEN rest
           ELSE IF PeerGone(f) THEN inbox[c][x] ELSE inbox[c][x] \o units] \in [Ends -> Seq(Nat)]
  BY <1>1, <1>3, <1>5
<1>8. inbox' \in [Conns -> [Ends -> Seq(Nat)]]
  BY <1>6, <1>7 DEF NetTypeOK
<1> QED BY <1>8 DEF NetTypeOK, WriteBack

LEMMA ClientType ==
  ASSUME NetTypeOK, NEW c \in Conns, NEW p \in Ports, Client(c, p)
  PROVE  NetTypeOK' /\ file' = file
<1> USE DEF NetTypeOK
<1>1. CASE Connect(c, p)
  <2>1. backlog' \in [Ports -> Seq(Conns)]
    <3>1. backlog[p] \in Seq(Conns) /\ Append(backlog[p], c) \in Seq(Conns)
      BY AppendProperties
    <3> QED BY <1>1, <3>1 DEF Connect
  <2>2. end' \in [Conns -> [Ends -> {"none", "queued", "open", "closed"}]]
    BY <1>1 DEF Connect
  <2> QED BY <1>1, <2>1, <2>2 DEF Connect
<1>2. CASE Send(c)
  <2>1. inbox[c]["srv"] \in Seq(Nat) /\ sent[c] + 1 \in Nat
    BY DEF Ends
  <2>2. Append(inbox[c]["srv"], sent[c] + 1) \in Seq(Nat)
    BY <2>1, AppendProperties
  <2>3. inbox' \in [Conns -> [Ends -> Seq(Nat)]]
    BY <1>2, <2>2 DEF Send, Ends
  <2> QED BY <1>2, <2>3 DEF Send
<1>3. CASE Leave(c)
  BY <1>3 DEF Leave
<1> QED BY <1>1, <1>2, <1>3 DEF Client

-----------------------------------------------------------------------------
(* Pieces of a client's stream: the units after the k-th up to the n-th.   *)

Piece(s, k, n) == /\ s \in Seq(Nat) /\ Len(s) = n - k
                  /\ \A i \in 1 .. Len(s) : s[i] = k + i

\* The first n units of a stream, as Message and EchoService write them.
Units(n) == [i \in 1 .. n |-> i]

LEMMA UnitsAreAPiece ==
  ASSUME NEW n \in Nat
  PROVE  Piece(Units(n), 0, n)
<1>1. Units(n) \in Seq(Nat)
  <2>1. \A i \in 1 .. n : i \in Nat
    OBVIOUS
  <2> QED BY <2>1, IsASeq DEF Units
<1>2. Len(Units(n)) = n
  <2>1. DOMAIN Units(n) = 1 .. n
    BY DEF Units
  <2> QED BY <1>1, <2>1, LenProperties
<1>3. \A i \in 1 .. n : Units(n)[i] = 0 + i
  BY DEF Units
<1> QED BY <1>1, <1>2, <1>3 DEF Piece

LEMMA PieceIsUnits ==
  ASSUME NEW n \in Nat, NEW s, Piece(s, 0, n)
  PROVE  s = Units(n)
<1>1. Piece(Units(n), 0, n)
  BY UnitsAreAPiece
<1> HIDE DEF Units
<1>2. /\ s \in Seq(Nat) /\ Units(n) \in Seq(Nat) /\ Len(s) = Len(Units(n)) /\ Len(s) = n
      /\ \A i \in 1 .. Len(s) : s[i] = Units(n)[i]
  BY <1>1 DEF Piece
<1> QED BY <1>2, SeqEqual

LEMMA EmptyPiece == ASSUME NEW n \in Nat PROVE Piece(<< >>, n, n)
BY EmptySeq DEF Piece

LEMMA AppendPiece ==
  ASSUME NEW k \in Nat, NEW n \in Nat, NEW s, Piece(s, k, n)
  PROVE  Piece(Append(s, n + 1), k, n + 1)
<1> DEFINE r == Append(s, n + 1)
<1>1. /\ s \in Seq(Nat) /\ Len(s) = n - k /\ Len(s) \in Nat
      /\ \A i \in 1 .. Len(s) : s[i] = k + i
  BY LenProperties DEF Piece
<1>2. /\ r \in Seq(Nat) /\ Len(r) = Len(s) + 1
      /\ \A i \in 1 .. Len(s) : r[i] = s[i]
      /\ r[Len(s) + 1] = n + 1
  BY <1>1, AppendProperties
<1> HIDE DEF r
<1>3. ASSUME NEW i \in 1 .. Len(r) PROVE r[i] = k + i
  <2>1. CASE i = Len(s) + 1
    BY <1>1, <1>2, <2>1
  <2>2. CASE i # Len(s) + 1
    <3>1. i \in 1 .. Len(s)
      BY <1>1, <1>2, <2>2
    <3> QED BY <1>1, <1>2, <3>1
  <2> QED BY <2>1, <2>2
<1>4. Piece(r, k, n + 1)
  BY <1>1, <1>2, <1>3 DEF Piece
<1> QED BY <1>4 DEF r

\* What readn takes from an inbox, and what it leaves there.
LEMMA FirstPiece ==
  ASSUME NEW k \in Nat, NEW n \in Nat, NEW m \in Nat, NEW s, Piece(s, k, n), m <= Len(s)
  PROVE  Piece(SubSeq(s, 1, m), k, k + m)
<1> DEFINE r == SubSeq(s, 1, m)
<1>1. /\ s \in Seq(Nat) /\ Len(s) \in Nat
      /\ \A i \in 1 .. Len(s) : s[i] = k + i /\ s[i] \in Nat
  BY LenProperties, ElementOfSeq DEF Piece
<1>2. \A i \in 1 .. m : s[i] \in Nat
  BY <1>1
<1>3. /\ r \in Seq(Nat) /\ Len(r) = IF 1 <= m THEN m - 1 + 1 ELSE 0
      /\ \A i \in 1 .. m - 1 + 1 : r[i] = s[1 + i - 1]
  BY <1>2, SubSeqProperties
<1> HIDE DEF r
<1>4. Len(r) = m /\ \A i \in 1 .. m : r[i] = k + i
  BY <1>1, <1>3
<1>5. Piece(r, k, k + m)
  BY <1>3, <1>4 DEF Piece
<1> QED BY <1>5 DEF r

LEMMA RestPiece ==
  ASSUME NEW k \in Nat, NEW n \in Nat, NEW m \in Nat, NEW s, Piece(s, k, n), m <= Len(s)
  PROVE  Piece(SubSeq(s, m + 1, Len(s)), k + m, n)
<1> DEFINE r == SubSeq(s, m + 1, Len(s))
<1>1. /\ s \in Seq(Nat) /\ Len(s) \in Nat /\ Len(s) = n - k
      /\ \A i \in 1 .. Len(s) : s[i] = k + i /\ s[i] \in Nat
  BY LenProperties, ElementOfSeq DEF Piece
<1>2. \A i \in m + 1 .. Len(s) : s[i] \in Nat
  BY <1>1
<1>3. /\ r \in Seq(Nat) /\ Len(r) = IF m + 1 <= Len(s) THEN Len(s) - (m + 1) + 1 ELSE 0
      /\ \A i \in 1 .. Len(s) - (m + 1) + 1 : r[i] = s[m + 1 + i - 1]
  BY <1>1, <1>2, SubSeqProperties
<1> HIDE DEF r
<1>4. Len(r) = n - (k + m) /\ \A i \in 1 .. Len(r) : r[i] = s[m + i]
  BY <1>1, <1>3
<1>5. \A i \in 1 .. Len(r) : r[i] = k + m + i
  BY <1>1, <1>4
<1>6. Piece(r, k + m, n)
  BY <1>3, <1>4, <1>5 DEF Piece
<1> QED BY <1>6 DEF r

LEMMA JoinPieces ==
  ASSUME NEW k \in Nat, NEW m \in Nat, NEW n \in Nat, NEW s, NEW t,
         Piece(s, k, m), Piece(t, m, n)
  PROVE  Piece(s \o t, k, n)
<1>1. /\ s \in Seq(Nat) /\ Len(s) \in Nat /\ Len(s) = m - k
      /\ t \in Seq(Nat) /\ Len(t) \in Nat /\ Len(t) = n - m
      /\ \A i \in 1 .. Len(s) : s[i] = k + i
      /\ \A i \in 1 .. Len(t) : t[i] = m + i
  BY LenProperties DEF Piece
<1> DEFINE r == s \o t
<1>2. /\ r \in Seq(Nat) /\ Len(r) = Len(s) + Len(t)
      /\ \A i \in 1 .. Len(s) + Len(t) : r[i] = IF i <= Len(s) THEN s[i] ELSE t[i - Len(s)]
  BY <1>1, ConcatProperties
<1> HIDE DEF r
<1>3. \A i \in 1 .. Len(r) : r[i] = k + i
  BY <1>1, <1>2
<1>4. Piece(r, k, n)
  BY <1>1, <1>2, <1>3 DEF Piece
<1> QED BY <1>4 DEF r

\* A reader that has the units up to some point takes the next m of those that
\* wait for it, up to the n-th.
LEMMA TakePiece ==
  ASSUME NEW n \in Nat, NEW m \in Nat, NEW a, NEW s,
         Piece(a, 0, Len(a)), Piece(s, Len(a), n), m <= Len(s)
  PROVE  LET b == a \o SubSeq(s, 1, m)
         IN  /\ Len(b) = Len(a) + m /\ Piece(b, 0, Len(b))
             /\ Piece(SubSeq(s, m + 1, Len(s)), Len(b), n)
<1> DEFINE k == Len(a)
           b == a \o SubSeq(s, 1, m)
<1>1. k \in Nat /\ k + m \in Nat /\ 0 \in Nat
  BY LenProperties DEF Piece
<1> HIDE DEF k
<1>2. Piece(SubSeq(s, 1, m), k, k + m) /\ Piece(SubSeq(s, m + 1, Len(s)), k + m, n)
  BY <1>1, FirstPiece, RestPiece DEF k
<1>3. Piece(b, 0, k + m)
  BY <1>1, <1>2, JoinPieces DEF k
<1> HIDE DEF b
<1>4. Len(b) = k + m
  BY <1>1, <1>3 DEF Piece
<1>5. /\ Len(b) = Len(a) + m /\ Piece(b, 0, Len(b))
      /\ Piece(SubSeq(s, m + 1, Len(s)), Len(b), n)
  BY <1>2, <1>3, <1>4 DEF k
<1> QED BY <1>5 DEF b

LEMMA UnitsArePrefix ==
  ASSUME NEW m \in Nat, NEW n \in Nat, m <= n
  PROVE  IsPrefix(Units(m), Units(n))
<1>1. Piece(Units(m), 0, m) /\ Piece(Units(n), 0, n)
  BY UnitsAreAPiece
<1> HIDE DEF Units
<1>2. Len(Units(m)) = m /\ Len(Units(n)) = n
  BY <1>1 DEF Piece
<1>3. Piece(SubSeq(Units(m), 1, m), 0, 0 + m) /\ Piece(SubSeq(Units(n), 1, m), 0, 0 + m)
  BY <1>1, <1>2, FirstPiece
<1>4. SubSeq(Units(m), 1, m) = Units(m) /\ SubSeq(Units(n), 1, m) = Units(m)
  <2>1. 0 + m = m
    OBVIOUS
  <2> QED BY <1>3, <2>1, PieceIsUnits
<1> QED BY <1>2, <1>4 DEF IsPrefix

-----------------------------------------------------------------------------
(* What readn and write move between the two ends of a connection. *)

Gone(c) == end[c]["cli"] = "closed"

LEMMA WriteBackEffect ==
  ASSUME NetTypeOK, NEW c \in Conns, NEW f \in Fds, file[f] = End("srv", c), NEW n,
         WriteBack(f, n)
  PROVE  /\ UNCHANGED <<file, backlog, end, size, sent>>
         /\ inbox'[c]["srv"] = SubSeq(inbox[c]["srv"], n + 1, Len(inbox[c]["srv"]))
         /\ inbox'[c]["cli"] =
              IF Gone(c) THEN inbox[c]["cli"]
              ELSE inbox[c]["cli"] \o SubSeq(inbox[c]["srv"], 1, n)
         /\ \A d \in Conns \ {c} : inbox'[d] = inbox[d]
<1>1. file[f].id = c /\ file[f].kind = "srv" /\ "srv" \in Ends /\ "cli" \in Ends
  BY DEF End, Ends
<1>2. (PeerGone(f) <=> Gone(c)) /\ FirstUnits(f, n) = SubSeq(inbox[c]["srv"], 1, n)
  BY <1>1 DEF PeerGone, Peer, Gone, FirstUnits, Inbox
<1>3. inbox' = [inbox EXCEPT ![c] = [x \in Ends |->
           IF x = "srv" THEN SubSeq(inbox[c][x], n + 1, Len(inbox[c][x]))
           ELSE IF PeerGone(f) THEN inbox[c][x] ELSE inbox[c][x] \o FirstUnits(f, n)]]
  BY <1>1 DEF WriteBack
<1>4. inbox'[c] = [x \in Ends |->
           IF x = "srv" THEN SubSeq(inbox[c][x], n + 1, Len(inbox[c][x]))
           ELSE IF PeerGone(f) THEN inbox[c][x] ELSE inbox[c][x] \o FirstUnits(f, n)]
  BY <1>3 DEF NetTypeOK
<1>5. \A d \in Conns \ {c} : inbox'[d] = inbox[d]
  BY <1>3 DEF NetTypeOK
<1>6. UNCHANGED <<file, backlog, end, size, sent>>
  BY DEF WriteBack
<1>7. /\ inbox'[c]["srv"] = SubSeq(inbox[c]["srv"], n + 1, Len(inbox[c]["srv"]))
      /\ inbox'[c]["cli"] = IF PeerGone(f) THEN inbox[c]["cli"]
                            ELSE inbox[c]["cli"] \o FirstUnits(f, n)
  BY <1>1, <1>4
<1> QED BY <1>2, <1>5, <1>6, <1>7

-----------------------------------------------------------------------------
(* What a close() ends, by the kind of the descriptor. *)

LEMMA CloseFile ==
  ASSUME NetTypeOK, NEW f \in Fds, Close(f)
  PROVE  /\ file'[f] = Free /\ \A g \in Fds \ {f} : file'[g] = file[g]
         /\ UNCHANGED <<inbox, size, sent>>
BY DEF NetTypeOK, Close

LEMMA CloseEnd ==
  ASSUME NetTypeOK, NEW f \in Fds, Close(f), NEW c \in Conns, NEW e \in Ends,
         file[f] = End(e, c)
  PROVE  /\ backlog' = backlog
         /\ end'[c][e] = "closed"
         /\ \A d \in Conns, x \in Ends : d # c \/ x # e => end'[d][x] = end[d][x]
<1>1. file[f].kind # "listen"
  BY DEF End, Ends
<1>2. \A d \in Conns, x \in Ends : Ended(f, d, x) <=> d = c /\ x = e
  BY <1>1 DEF Ended, End
<1>3. backlog' = backlog
  BY <1>1 DEF Close, NetTypeOK
<1> QED BY <1>2, <1>3 DEF Close

LEMMA CloseRaw ==
  ASSUME NetTypeOK, NEW f \in Fds, Close(f), file[f] = RawSocket
  PROVE  backlog' = backlog /\ \A c \in Conns, e \in Ends : end'[c][e] = end[c][e]
<1>1. file[f].kind = "raw"
  BY DEF RawSocket
<1>2. \A c \in Conns, e \in Ends : ~ Ended(f, c, e)
  BY <1>1 DEF Ended, End, Ends
<1> QED BY <1>1, <1>2 DEF Close, NetTypeOK

LEMMA CloseListening ==
  ASSUME NetTypeOK, NEW f \in Fds, Close(f), NEW p \in Ports, file[f] = Listener(p)
  PROVE  /\ backlog'[p] = << >> /\ \A q \in Ports \ {p} : backlog'[q] = backlog[q]
         /\ \A c \in Conns :
              /\ end'[c]["cli"] = end[c]["cli"]
              /\ end'[c]["srv"] = IF c \in ToSet(backlog[p]) THEN "closed" ELSE end[c]["srv"]
<1>1. file[f].kind = "listen" /\ file[f].id = p /\ "cli" \in Ends /\ "srv" \in Ends
  BY DEF Listener, Ends
<1>2. \A c \in Conns, e \in Ends : Ended(f, c, e) <=> e = "srv" /\ c \in ToSet(backlog[p])
  BY <1>1 DEF Ended, End, Ends
<1> QED BY <1>1, <1>2 DEF Close
=============================================================================
