-------------------------- MODULE StratumLine_proof --------------------------
(***************************************************************************)
(* Proofs about StratumLine, for any sizes of the buffer, of lines and of  *)
(* pieces, and any number of connections: the bounds of the buffer (IInv), *)
(* what is received (Flow), and what is sent (Sent), each an inductive     *)
(* invariant with the ones before it.                                      *)
(***************************************************************************)
EXTENDS StratumLine, SequenceTheorems, TLAPS

\* A part of a sequence has elements of the same set, and is no longer.
LEMMA Part ==
  ASSUME NEW S, NEW s \in Seq(S), NEW a \in Nat \ {0}, NEW b \in 0..Len(s)
  PROVE  /\ SubSeq(s, a, b) \in Seq(S)
         /\ Len(SubSeq(s, a, b)) \in Nat /\ Len(SubSeq(s, a, b)) <= Len(s)
<1>1. \A i \in a..b : i \in DOMAIN s /\ s[i] \in S
  BY ElementOfSeq, LenProperties
<1>2. SubSeq(s, a, b) \in Seq(S) /\ Len(SubSeq(s, a, b)) = IF a <= b THEN b - a + 1 ELSE 0
  BY <1>1, SubSeqProperties
<1> QED BY <1>2, LenProperties

\* The lines the miner sends are sequences of bytes.
LEMMA Constants ==
  /\ MaxLen \in Nat /\ MaxLines \in Nat /\ MaxShares \in Nat
  /\ Reply \in Bytes /\ \A k \in Share : ShareByte(k) \in Bytes
  /\ Reply \in Nat /\ NL \in Bytes
  /\ RBufSize \in Nat /\ RecvSize \in Nat /\ 1 < RBufSize
  /\ Line(0) \in Seq(Bytes) /\ Len(Line(0)) = 3 /\ Line(Reply) \in Seq(Bytes)
  /\ Line(0) # <<>> /\ Line(Reply) # <<>>
  /\ \A k \in Share : Line(ShareByte(k)) \in Seq(Bytes) /\ Line(ShareByte(k)) # <<>>
<1>1. MaxLen \in Nat /\ MaxLines \in Nat /\ MaxShares \in Nat
      /\ Reply \in Nat /\ Reply = MaxLines + MaxShares + 1
      /\ RBufSize \in Nat /\ RecvSize \in Nat /\ 1 < RBufSize
  BY BoundsAssumption, SizeAssumption DEF Reply
<1>2. {0, NL, Reply} \subseteq Bytes /\ \A k \in Share : ShareByte(k) \in Bytes
  BY <1>1 DEF Bytes, NL, Share, ShareByte
<1> QED BY <1>1, <1>2 DEF Line

\* The buffer holds the string, its NUL and one byte more.
BufferOK == sockbuf \in Seq(Bytes) /\ down \in Seq(Bytes) /\ size \in Nat /\ CopyInBounds

LEMMA GrownIsEnough ==
  ASSUME NEW n \in Nat, size \in Nat
  PROVE  Grown(n) \in Nat /\ n < Grown(n)
<1>1. (n % RBufSize) \in 0..RBufSize - 1
  BY Constants
<1> QED BY <1>1, Constants DEF Grown

-----------------------------------------------------------------------------

LEMMA PoolLine ==
  ASSUME down \in Seq(Bytes), put \in Seq(0..MaxLen), Len(put) < MaxLines, NEW n \in 0..MaxLen
  PROVE  down \o Body(Len(put) + 1, n) \o <<NL>> \in Seq(Bytes)
<1>1. Len(put) \in Nat
  BY LenProperties
<1>2. Len(put) + 1 \in Bytes
  BY <1>1, Constants, BoundsAssumption DEF Bytes, Reply
<1>3. n \in Nat
  BY Constants
<1>4. Body(Len(put) + 1, n) \in Seq(Bytes)
  BY <1>2, <1>3, SeqDef DEF Body
<1>5. <<NL>> \in Seq(Bytes)
  BY Constants
<1> QED BY <1>4, <1>5, ConcatProperties

LEMMA RestFacts ==
  ASSUME sockbuf \in Seq(Bytes), NEW skip \in 0..Len(sockbuf),
         NEW len \in 0..Len(sockbuf) - skip
  PROVE  /\ Rest(skip, len) \in Seq(Bytes)
         /\ Len(Rest(skip, len)) \in Nat /\ Len(Rest(skip, len)) <= Len(sockbuf)
         /\ SubSeq(sockbuf, skip + 1, skip + len) \in Seq(Bytes)
<1>1. Len(sockbuf) \in Nat
  BY LenProperties
<1>2. skip + 1 \in Nat \ {0} /\ len + 2 \in Nat \ {0} /\ skip + len \in 0..Len(sockbuf)
  BY <1>1
<1> DEFINE last == IF skip = 0 THEN Len(sockbuf) ELSE skip + len
<1>3. last \in 0..Len(sockbuf)
  BY <1>1, <1>2
<1> HIDE DEF last
<1>4. SubSeq(sockbuf, len + 2, last) \in Seq(Bytes)
      /\ Len(SubSeq(sockbuf, len + 2, last)) \in Nat
      /\ Len(SubSeq(sockbuf, len + 2, last)) <= Len(sockbuf)
  BY <1>2, <1>3, Part
<1>5. SubSeq(sockbuf, skip + 1, skip + len) \in Seq(Bytes)
  BY <1>2, Part
<1> QED BY <1>4, <1>5 DEF Rest, last

LEMMA EmptyFits ==
  ASSUME sockbuf \in Seq(Bytes), CopyInBounds, size \in Nat
  PROVE  Len(<<>>) + 1 < size /\ <<>> \in Seq(Bytes)
BY LenProperties, EmptySeq DEF CopyInBounds

\* What is received fits, because the buffer grows first.
LEMMA ChunkFits == BufferOK /\ RecvChunk => BufferOK'
<1> SUFFICES ASSUME BufferOK, RecvChunk PROVE BufferOK'
  OBVIOUS
<1>1. PICK n \in 1..RecvSize :
        /\ n <= Len(down)
        /\ sockbuf' = sockbuf \o SubSeq(down, 1, n)
        /\ down' = SubSeq(down, n + 1, Len(down))
        /\ size' = Grown(Len(sockbuf) + n + 1)
  BY DEF RecvChunk
<1>2. n \in Nat \ {0} /\ Len(sockbuf) \in Nat /\ Len(down) \in Nat
      /\ sockbuf \in Seq(Bytes) /\ down \in Seq(Bytes) /\ size \in Nat
  BY <1>1, Constants, LenProperties DEF BufferOK
<1>3. SubSeq(down, 1, n) \in Seq(Bytes) /\ Len(SubSeq(down, 1, n)) = n
  BY <1>1, <1>2, Part, SubSeqProperties, ElementOfSeq
<1>4. SubSeq(down, n + 1, Len(down)) \in Seq(Bytes)
  BY <1>1, <1>2, Part
<1>5. sockbuf' \in Seq(Bytes) /\ Len(sockbuf') = Len(sockbuf) + n
  BY <1>1, <1>2, <1>3, ConcatProperties
<1>6. size' \in Nat /\ Len(sockbuf) + n + 1 < size'
  BY <1>1, <1>2, GrownIsEnough
<1> QED BY <1>1, <1>2, <1>4, <1>5, <1>6 DEF BufferOK, CopyInBounds

LEMMA BufferStep == TypeOK /\ BufferOK /\ [Next]_vars => BufferOK'
<1> SUFFICES ASSUME TypeOK, BufferOK, [Next]_vars PROVE BufferOK'
  OBVIOUS
<1> USE DEF BufferOK
<1>1. ASSUME UNCHANGED <<sockbuf, down, size>> PROVE BufferOK'
  BY <1>1 DEF CopyInBounds
<1>2. CASE Connect \/ DisconnectFailed \/ DisconnectOther
  <2>1. sockbuf' = <<>> /\ down' \in {down, <<>>} /\ size' = size
    BY <1>2 DEF Connect, DisconnectFailed, DisconnectOther, Disconnect, EmptyBuffer
  <2> QED BY <2>1, EmptyFits DEF CopyInBounds
<1>3. CASE Receive \/ RecvFails \/ UNCHANGED vars
  BY <1>1, <1>3 DEF Receive, RecvFails, ReturnNull, vars, receiving
<1>4. CASE RecvChunk
  BY <1>4, ChunkFits
<1>5. CASE TakeLine
  <2>1. PICK skip \in 0..Len(sockbuf) : \E len \in 0..Len(sockbuf) - skip :
          sockbuf' \in {sockbuf, Rest(skip, len)}
    BY <1>5 DEF TakeLine
  <2>2. down' = down /\ size' = size
    BY <1>5 DEF TakeLine, ReturnNull
  <2>3. sockbuf' \in Seq(Bytes) /\ Len(sockbuf') \in Nat /\ Len(sockbuf') <= Len(sockbuf)
        /\ Len(sockbuf) \in Nat
    <3>1. PICK len \in 0..Len(sockbuf) - skip : sockbuf' \in {sockbuf, Rest(skip, len)}
      BY <2>1
    <3>2. Rest(skip, len) \in Seq(Bytes)
          /\ Len(Rest(skip, len)) \in Nat /\ Len(Rest(skip, len)) <= Len(sockbuf)
      BY RestFacts
    <3>3. Len(sockbuf) \in Nat /\ Len(sockbuf) <= Len(sockbuf)
      BY LenProperties
    <3> QED BY <3>1, <3>2, <3>3
  <2> QED BY <2>2, <2>3 DEF CopyInBounds
<1>6. CASE SendReply \/ SendShare \/ PoolReads
  BY <1>1, <1>6 DEF SendReply, SendShare, Begin, PoolReads, receiving
<1>7. ASSUME NEW s \in Sender, Sends(s) PROVE BufferOK'
  BY <1>1, <1>7 DEF Sends, SendSome, SendFails
<1>8. CASE PoolSends
  <2>1. PICK n \in 0..MaxLen : down' = down \o Body(Len(put) + 1, n) \o <<NL>>
    BY <1>8 DEF PoolSends
  <2>2. UNCHANGED <<sockbuf, size>> /\ Len(put) < MaxLines
    BY <1>8 DEF PoolSends, receiving
  <2>3. down' \in Seq(Bytes)
    BY <2>1, <2>2, PoolLine DEF TypeOK
  <2> QED BY <2>2, <2>3 DEF CopyInBounds
<1> QED BY <1>2, <1>3, <1>4, <1>5, <1>6, <1>7, <1>8 DEF Next, StratumThread

-----------------------------------------------------------------------------

\* What a thread has still to send, and who holds the lock.
LockOK ==
  /\ lock \in Sender \cup {"none"} /\ left \in [Sender -> Seq(Bytes)]
  /\ \A s \in Sender : left[s] # <<>> <=> lock = s

LEMMA BeginLock ==
  ASSUME LockOK, NEW s \in Sender, NEW b, Begin(s, b),
         Line(b) \in Seq(Bytes), Line(b) # <<>>
  PROVE  LockOK'
<1>1. lock = "none" /\ lock' = s /\ left' = [left EXCEPT ![s] = Line(b)]
  BY DEF Begin, TakesLock
<1>2. s # "none"
  BY DEF Sender
<1> QED BY <1>1, <1>2 DEF LockOK, Sender

LEMMA ReturnsLock ==
  ASSUME LockOK, NEW s \in Sender, left[s] # <<>>, NEW ok, Returns(s, ok)
  PROVE  LockOK'
<1>1. lock = s /\ lock' = "none" /\ left' = [left EXCEPT ![s] = <<>>]
  BY DEF Returns, LockOK
<1>2. <<>> \in Seq(Bytes)
  BY EmptySeq
<1> QED BY <1>1, <1>2 DEF LockOK, Sender

\* workio sends a share that there is.
ShareThere == lock = "workio" => share \in Share

\* The other variables that a step may change.
OthersOK ==
  /\ open \in BOOLEAN /\ extra \in BOOLEAN
  /\ at \in {"idle", "recv", "take", "reply", "failed"}
  /\ up \in Seq(Bytes)
  /\ put \in Seq(0..MaxLen) /\ taken \in Seq(Seq(Bytes))
  /\ odd \in BOOLEAN /\ cut \in BOOLEAN
  /\ share \in 1..MaxShares + 1 /\ first \in 1..MaxShares + 1
  /\ got \in [Share -> Nat]
  /\ used \in [conn : 0..MaxConn, replies : 0..MaxReplies, fail : 0..MaxFail]

IInv == OthersOK /\ LockOK /\ ShareThere /\ BufferOK

LEMMA TypeOKParts == IInv => TypeOK /\ CopyInBounds
BY DEF IInv, OthersOK, LockOK, BufferOK, TypeOK

LEMMA UseType ==
  ASSUME used \in [conn : 0..MaxConn, replies : 0..MaxReplies, fail : 0..MaxFail],
         \/ Use("conn", MaxConn) \/ Use("replies", MaxReplies)
         \/ Use("fail", MaxFail) \/ UNCHANGED used
  PROVE  used' \in [conn : 0..MaxConn, replies : 0..MaxReplies, fail : 0..MaxFail]
BY BoundsAssumption DEF Use

LEMMA SendsStep ==
  ASSUME IInv, NEW s \in Sender, Sends(s)
  PROVE  (OthersOK /\ LockOK /\ ShareThere)'
<1> USE DEF IInv
<1>1. left[s] # <<>> /\ left[s] \in Seq(Bytes) /\ Len(left[s]) \in Nat /\ lock = s
  BY LenProperties DEF LockOK, Sends, SendSome, SendFails
<1>2. share + 1 \in 1..MaxShares + 1 \/ s # "workio"
  BY <1>1, Constants DEF ShareThere, Share
<1>3. ASSUME NEW ok, Returns(s, ok)
      PROVE  /\ at' \in {"idle", "recv", "take", "reply", "failed"}
             /\ share' \in 1..MaxShares + 1 /\ LockOK' /\ ShareThere'
  <2>1. LockOK' /\ lock' = "none"
    BY <1>1, <1>3, ReturnsLock DEF Returns
  <2> QED BY <1>2, <1>3, <2>1 DEF Returns, ShareThere, OthersOK
<1>4. CASE SendSome(s)
  <2>1. PICK n \in 1..Len(left[s]) :
          /\ up' = up \o SubSeq(left[s], 1, n)
          /\ IF n = Len(left[s])
             THEN Returns(s, TRUE)
             ELSE /\ left' = [left EXCEPT ![s] = SubSeq(@, n + 1, Len(@))]
                  /\ UNCHANGED <<lock, at, share>>
    BY <1>4 DEF SendSome
  <2>2. n \in Nat \ {0} /\ n <= Len(left[s])
    BY <1>1
  <2>3. up' \in Seq(Bytes)
    BY <1>1, <2>1, <2>2, Part, ConcatProperties DEF OthersOK
  <2>4. UNCHANGED <<open, extra, put, taken, odd, cut, first, got, used>>
    BY <1>4 DEF SendSome, history
  <2>5. CASE n = Len(left[s])
    BY <1>3, <2>1, <2>3, <2>4, <2>5 DEF OthersOK
  <2>6. ASSUME n # Len(left[s])
        PROVE  (OthersOK /\ LockOK /\ ShareThere)'
    <3> DEFINE rest == SubSeq(left[s], n + 1, Len(left[s]))
    <3>1. rest \in Seq(Bytes)
      BY <1>1, <2>2, Part
    <3>2. rest # <<>>
      <4>1. \A i \in n + 1..Len(left[s]) : left[s][i] \in Bytes
        BY <1>1, <2>2, ElementOfSeq
      <4>2. Len(rest) = Len(left[s]) - (n + 1) + 1
        BY <1>1, <2>2, <2>6, <4>1, SubSeqProperties
      <4>3. Len(rest) # 0
        BY <1>1, <2>2, <2>6, <4>2
      <4> HIDE DEF rest
      <4> QED BY <4>3, EmptySeq
    <3>3. left' = [left EXCEPT ![s] = rest] /\ UNCHANGED <<lock, at, share>>
      BY <2>1, <2>6
    <3> HIDE DEF rest
    <3>4. LockOK' /\ ShareThere'
      BY <1>1, <3>1, <3>2, <3>3 DEF LockOK, ShareThere, Sender
    <3> QED BY <2>3, <2>4, <3>3, <3>4 DEF OthersOK
  <2> QED BY <2>5, <2>6
<1>5. CASE SendFails(s)
  <2>1. Returns(s, FailureIsTold) /\ UNCHANGED <<up, open, extra, put, taken, odd, first, got>>
    BY <1>5 DEF SendFails, GivesUp
  <2>2. used' \in [conn : 0..MaxConn, replies : 0..MaxReplies, fail : 0..MaxFail]
    BY <1>5, UseType DEF SendFails, OthersOK
  <2>3. cut' \in BOOLEAN
    BY <1>5 DEF SendFails, OthersOK
  <2> QED BY <1>3, <2>1, <2>2, <2>3 DEF OthersOK
<1> QED BY <1>4, <1>5 DEF Sends

\* The steps of the stratum thread that do not send.
LEMMA ThreadStep ==
  ASSUME IInv, Connect \/ DisconnectFailed \/ DisconnectOther \/ Receive \/ RecvChunk
               \/ RecvFails \/ TakeLine
  PROVE  (OthersOK /\ LockOK /\ ShareThere)'
<1> USE DEF IInv
<1>1. UNCHANGED sending
  BY DEF Connect, DisconnectFailed, DisconnectOther, Disconnect, Receive, RecvChunk,
         RecvFails, TakeLine, ReturnNull
<1>2. LockOK' /\ ShareThere' /\ share' = share
  BY <1>1 DEF sending, LockOK, ShareThere
<1>3. used' \in [conn : 0..MaxConn, replies : 0..MaxReplies, fail : 0..MaxFail]
  BY UseType DEF Connect, DisconnectFailed, DisconnectOther, Disconnect, Receive, RecvChunk,
         RecvFails, TakeLine, ReturnNull, OthersOK
<1>4. up' \in Seq(Bytes) /\ UNCHANGED got
  BY EmptySeq DEF Connect, DisconnectFailed, DisconnectOther, Disconnect, Receive, RecvChunk,
         RecvFails, TakeLine, ReturnNull, OthersOK
<1>5. put' \in Seq(0..MaxLen) /\ odd' \in BOOLEAN /\ cut' \in BOOLEAN
      /\ first' \in 1..MaxShares + 1
  BY EmptySeq DEF Connect, DisconnectFailed, DisconnectOther, Disconnect, Receive, RecvChunk,
         RecvFails, TakeLine, ReturnNull, OthersOK, history
<1>6. open' \in BOOLEAN /\ extra' \in BOOLEAN
      /\ at' \in {"idle", "recv", "take", "reply", "failed"}
  BY DEF Connect, DisconnectFailed, DisconnectOther, Disconnect, Receive, RecvChunk,
         RecvFails, TakeLine, ReturnNull, OthersOK
<1>7. taken' \in Seq(Seq(Bytes))
  <2>1. CASE TakeLine
    <3>1. PICK skip \in 0..Len(sockbuf) : \E len \in 0..Len(sockbuf) - skip :
            \/ taken' = taken
            \/ taken' = Append(taken, SubSeq(sockbuf, skip + 1, skip + len))
      BY <2>1 DEF TakeLine, ReturnNull
    <3>2. \A len \in 0..Len(sockbuf) - skip :
            SubSeq(sockbuf, skip + 1, skip + len) \in Seq(Bytes)
      BY RestFacts DEF BufferOK
    <3>3. PICK len \in 0..Len(sockbuf) - skip :
            \/ taken' = taken
            \/ taken' = Append(taken, SubSeq(sockbuf, skip + 1, skip + len))
      BY <3>1
    <3> DEFINE line == SubSeq(sockbuf, skip + 1, skip + len)
    <3>4. line \in Seq(Bytes)
      BY <3>2
    <3> HIDE DEF line
    <3>5. Append(taken, line) \in Seq(Seq(Bytes)) /\ taken \in Seq(Seq(Bytes))
      BY <3>4, AppendProperties DEF OthersOK
    <3> QED BY <3>3, <3>5 DEF line
  <2>2. CASE ~TakeLine
    BY <2>2, EmptySeq DEF Connect, DisconnectFailed, DisconnectOther, Disconnect, Receive,
           RecvChunk, RecvFails, ReturnNull, OthersOK
  <2> QED BY <2>1, <2>2
<1> QED BY <1>2, <1>3, <1>4, <1>5, <1>6, <1>7 DEF OthersOK

LEMMA InvariantStep == IInv /\ [Next]_vars => IInv'
<1> SUFFICES ASSUME IInv, [Next]_vars PROVE IInv'
  OBVIOUS
<1>1. BufferOK'
  BY TypeOKParts, BufferStep DEF IInv
<1> SUFFICES (OthersOK /\ LockOK /\ ShareThere)'
  BY <1>1 DEF IInv
<1>2. CASE Connect \/ DisconnectFailed \/ DisconnectOther \/ Receive \/ RecvChunk
           \/ RecvFails \/ TakeLine
  BY <1>2, ThreadStep
<1>3. ASSUME NEW s \in Sender, Sends(s) PROVE (OthersOK /\ LockOK /\ ShareThere)'
  BY <1>3, SendsStep
<1>4. CASE SendReply \/ SendShare
  <2>1. PICK s \in Sender, b \in Bytes :
          /\ Begin(s, b) /\ Line(b) \in Seq(Bytes) /\ Line(b) # <<>>
          /\ s = "workio" => share \in Share
    <3>1. CASE SendReply
      BY <3>1, Constants DEF SendReply, Sender
    <3>2. CASE SendShare
      <4>1. share \in Share
        BY <3>2, Constants DEF SendShare, IInv, OthersOK, Share
      <4> QED BY <3>2, <4>1, Constants DEF SendShare, Sender
    <3> QED BY <1>4, <3>1, <3>2
  <2>2. LockOK'
    BY <2>1, BeginLock DEF IInv
  <2>3. UNCHANGED <<open, at, extra, taken, put, up, got, odd, cut, first, share, used>>
        /\ lock' = s
    BY <2>1 DEF Begin, receiving, history, TakesLock
  <2> QED BY <2>1, <2>2, <2>3 DEF IInv, OthersOK, ShareThere
<1>5. CASE PoolSends
  <2>1. UNCHANGED <<open, at, extra, taken, up, got, cut, first, share, lock, left, used>>
    BY <1>5 DEF PoolSends, receiving, sending
  <2>2. PICK n \in 0..MaxLen : put' = Append(put, n) /\ odd' = (odd \/ n = 0)
    BY <1>5 DEF PoolSends
  <2>3. put' \in Seq(0..MaxLen) /\ odd' \in BOOLEAN
    BY <2>2, AppendProperties DEF IInv, OthersOK
  <2> QED BY <2>1, <2>3 DEF IInv, OthersOK, LockOK, ShareThere
<1>6. CASE PoolReads
  <2>1. UNCHANGED <<open, at, extra, taken, put, odd, cut, first, share, lock, left, used>>
    BY <1>6 DEF PoolReads, receiving, sending, history
  <2>2. PICK n \in DOMAIN up :
          /\ up' = SubSeq(up, n + 1, Len(up))
          /\ got' = [k \in Share |-> IF SubSeq(up, 1, n) = Line(ShareByte(k))
                                     THEN got[k] + 1 ELSE got[k]]
    BY <1>6 DEF PoolReads
  <2>3. up' \in Seq(Bytes)
    <3>1. n + 1 \in Nat \ {0} /\ Len(up) \in Nat
      BY <2>2, LenProperties DEF IInv, OthersOK
    <3> QED BY <2>2, <3>1, Part DEF IInv, OthersOK
  <2>4. got' \in [Share -> Nat]
    BY <2>2 DEF IInv, OthersOK
  <2> QED BY <2>1, <2>3, <2>4 DEF IInv, OthersOK, LockOK, ShareThere
<1>7. CASE UNCHANGED vars
  BY <1>7 DEF IInv, OthersOK, LockOK, ShareThere, vars, receiving, sending, history
<1> QED BY <1>2, <1>3, <1>4, <1>5, <1>6, <1>7 DEF Next, StratumThread

LEMMA InvariantInit == Init => IInv
<1> SUFFICES ASSUME Init PROVE IInv
  OBVIOUS
<1>1. OthersOK
  <2>1. used \in [conn : 0..MaxConn, replies : 0..MaxReplies, fail : 0..MaxFail]
    BY BoundsAssumption DEF Init
  <2>2. /\ up \in Seq(Bytes) /\ put \in Seq(0..MaxLen) /\ taken \in Seq(Seq(Bytes))
        /\ 1 \in 1..MaxShares + 1 /\ got \in [Share -> Nat]
    BY EmptySeq, Constants DEF Init
  <2> QED BY <2>1, <2>2 DEF Init, OthersOK
<1>2. LockOK /\ ShareThere
  BY EmptySeq DEF Init, LockOK, ShareThere, Sender
<1>3. BufferOK
  BY EmptySeq, Constants DEF Init, BufferOK, CopyInBounds
<1> QED BY <1>1, <1>2, <1>3 DEF IInv

THEOREM LineInvariant == Spec => []IInv
BY InvariantInit, InvariantStep, PTL DEF Spec

\* The variables of StratumLine keep their types, and a thread has something
\* left to send exactly while it holds sock_lock (TypeOK).
THEOREM LineTypeCorrect == Spec => []TypeOK
BY LineInvariant, TypeOKParts, PTL

\* The buffer always holds one byte more than the string and its NUL, which
\* memmove in stratum_recv_line relies on, for any sizes (CopyInBounds).
THEOREM CopyStaysInBounds == Spec => []CopyInBounds
BY LineInvariant, TypeOKParts, PTL

-----------------------------------------------------------------------------
(***************************************************************************)
(* Sequences, element by element                                           *)
(***************************************************************************)
LEMMA ConcatAt ==
  ASSUME NEW S, NEW s \in Seq(S), NEW t \in Seq(S)
  PROVE  /\ s \o t \in Seq(S) /\ Len(s) \in Nat /\ Len(t) \in Nat
         /\ Len(s \o t) = Len(s) + Len(t)
         /\ \A i \in 1..Len(s) : (s \o t)[i] = s[i]
         /\ \A i \in 1..Len(t) : (s \o t)[Len(s) + i] = t[i]
<1>1. /\ Len(s) \in Nat /\ Len(t) \in Nat /\ s \o t \in Seq(S)
      /\ Len(s \o t) = Len(s) + Len(t)
      /\ \A i \in 1..Len(s) + Len(t) :
           (s \o t)[i] = IF i <= Len(s) THEN s[i] ELSE t[i - Len(s)]
  BY ConcatProperties, LenProperties
<1>2. ASSUME NEW i \in 1..Len(t) PROVE (s \o t)[Len(s) + i] = t[i]
  <2>1. /\ Len(s) + i \in 1..Len(s) + Len(t) /\ ~(Len(s) + i <= Len(s))
        /\ (Len(s) + i) - Len(s) = i
    BY <1>1
  <2> QED BY <1>1, <2>1
<1> QED BY <1>1, <1>2

LEMMA PartAt ==
  ASSUME NEW S, NEW s \in Seq(S), NEW a \in Nat \ {0}, NEW b \in 0..Len(s)
  PROVE  /\ SubSeq(s, a, b) \in Seq(S) /\ Len(s) \in Nat
         /\ Len(SubSeq(s, a, b)) = IF a <= b THEN b - a + 1 ELSE 0
         /\ \A i \in 1..b - a + 1 : SubSeq(s, a, b)[i] = s[a + i - 1]
<1>1. \A i \in a..b : s[i] \in S
  BY ElementOfSeq, LenProperties
<1> QED BY <1>1, SubSeqProperties, LenProperties

\* What is taken from one sequence and put behind another is in neither lost nor moved.
LEMMA Moved ==
  ASSUME NEW S, NEW s \in Seq(S), NEW t \in Seq(S), NEW n \in 0..Len(t)
  PROVE  (s \o SubSeq(t, 1, n)) \o SubSeq(t, n + 1, Len(t)) = s \o t
<1> DEFINE u == SubSeq(t, 1, n)
           v == SubSeq(t, n + 1, Len(t))
<1>1. Len(t) \in Nat /\ Len(s) \in Nat
  BY LenProperties
<1>2. u \in Seq(S) /\ Len(u) = n /\ \A i \in 1..n : u[i] = t[i]
  BY <1>1, PartAt
<1>3. v \in Seq(S) /\ Len(v) = Len(t) - n /\ \A i \in 1..Len(t) - n : v[i] = t[n + i]
  BY <1>1, PartAt
<1> HIDE DEF u, v
<1>4. u \o v = t
  <2>1. /\ u \o v \in Seq(S) /\ Len(u \o v) = Len(t)
        /\ \A i \in 1..n : (u \o v)[i] = t[i]
        /\ \A i \in 1..Len(t) - n : (u \o v)[n + i] = t[n + i]
    <3> u \in Seq(S) /\ v \in Seq(S)
      BY <1>2, <1>3
    <3>1. /\ u \o v \in Seq(S) /\ Len(u \o v) = Len(u) + Len(v)
          /\ \A i \in 1..Len(u) : (u \o v)[i] = u[i]
          /\ \A i \in 1..Len(v) : (u \o v)[Len(u) + i] = v[i]
      BY ConcatAt
    <3>2. Len(u) + Len(v) = Len(t)
      BY <1>1, <1>2, <1>3
    <3> QED BY <1>2, <1>3, <3>1, <3>2
  <2>2. ASSUME NEW i \in 1..Len(t) PROVE (u \o v)[i] = t[i]
    <3>1. CASE i <= n
      BY <2>1, <3>1
    <3>2. CASE ~(i <= n)
      <4>1. i - n \in 1..Len(t) - n /\ n + (i - n) = i
        BY <1>1, <3>2
      <4> QED BY <2>1, <4>1
    <3> QED BY <3>1, <3>2
  <2> QED BY <2>1, <2>2, SeqEqual
<1>5. (s \o u) \o v = s \o t
  <2>1. u \in Seq(S) /\ v \in Seq(S)
    BY <1>2, <1>3
  <2>2. (s \o u) \o v = s \o (u \o v)
    BY <2>1, ConcatAssociative
  <2> QED BY <1>4, <2>2
<1> QED BY <1>5 DEF u, v

(***************************************************************************)
(* What is received                                                        *)
(***************************************************************************)

\* Without a connection the stratum thread is idle and nothing is on its way.
Closed == ~open => at = "idle" /\ sockbuf = <<>> /\ down = <<>> /\ up = <<>>

\* The stream s holds what the pool has sent after its first a lines, if the
\* lines have the lengths p; off[v] is where line v ends, counted from the
\* start of the connection.
Holds(s, p, a, off) ==
  /\ off \in [0..Len(p) -> Nat]
  /\ \A v, w \in 0..Len(p) : v <= w => off[v] <= off[w]
  /\ \A v \in 1..Len(p) : off[v] = off[v - 1] + p[v] + 1
  /\ Len(s) = off[Len(p)] - off[a]
  /\ \A v \in a + 1..Len(p) :
       /\ \A i \in 1..p[v] : s[off[v - 1] - off[a] + i] = v
       /\ s[off[v] - off[a]] = NL

\* What is in sockbuf and on its way is what the pool has sent and
\* stratum_recv_line has not returned.
Stream ==
  /\ ~odd => \A v \in 1..Len(put) : put[v] > 0
  /\ open /\ ~odd => \E off : Holds(sockbuf \o down, put, Len(taken), off)
  /\ at = "take" /\ ~odd => HasLine(sockbuf)

Flow == Closed /\ Stream /\ LinesAreWhole

LEMMA FlowTypes ==
  ASSUME IInv
  PROVE  /\ sockbuf \in Seq(Bytes) /\ down \in Seq(Bytes) /\ up \in Seq(Bytes)
         /\ sockbuf \o down \in Seq(Bytes)
         /\ put \in Seq(0..MaxLen) /\ taken \in Seq(Seq(Bytes))
         /\ Len(put) \in Nat /\ Len(taken) \in Nat
         /\ \A v \in 1..Len(put) : put[v] \in Nat
<1>1. \A v \in 1..Len(put) : put[v] \in 0..MaxLen
  BY ElementOfSeq DEF IInv, OthersOK
<1>2. sockbuf \o down \in Seq(Bytes)
  BY ConcatProperties DEF IInv, BufferOK
<1> QED BY <1>1, <1>2, LenProperties DEF IInv, BufferOK, OthersOK

\* The first line of a stream is the line that comes next.
LEMMA FirstLine ==
  ASSUME NEW p, Len(p) \in Nat, NEW s \in Seq(Bytes), NEW a \in 0..Len(p), NEW off,
         Holds(s, p, a, off), s # <<>>, \A v \in 1..Len(p) : p[v] \in Nat
  PROVE  /\ a + 1 \in 1..Len(p) /\ p[a + 1] + 1 \in 1..Len(s)
         /\ \A i \in 1..p[a + 1] : s[i] = a + 1
         /\ s[p[a + 1] + 1] = NL
<1>1. Len(s) \in Nat \ {0}
  BY EmptySeq
<1>2. \A v \in 0..Len(p) : off[v] \in Nat
  BY DEF Holds
<1>3. a # Len(p)
  BY <1>1, <1>2 DEF Holds
<1>4. a + 1 \in 1..Len(p) /\ a + 1 \in a + 1..Len(p) /\ (a + 1) - 1 = a
  BY <1>3
<1>5. off[a + 1] = off[a] + p[a + 1] + 1 /\ off[a + 1] <= off[Len(p)]
  BY <1>4 DEF Holds
<1>6. \A i \in 1..p[a + 1] : s[off[a] - off[a] + i] = a + 1
  BY <1>4 DEF Holds
<1>7. s[off[a + 1] - off[a]] = NL
  BY <1>4 DEF Holds
<1>8. p[a + 1] \in Nat /\ off[a] \in Nat /\ off[a + 1] \in Nat /\ off[Len(p)] \in Nat
  BY <1>2, <1>4
<1>9. off[a + 1] - off[a] = p[a + 1] + 1 /\ \A i \in 1..p[a + 1] : off[a] - off[a] + i = i
  BY <1>5, <1>8
<1>10. Len(s) = off[Len(p)] - off[a]
  BY DEF Holds
<1>11. p[a + 1] + 1 \in 1..Len(s)
  BY <1>5, <1>8, <1>10
<1>12. \A i \in 1..p[a + 1] : s[i] = a + 1
  BY <1>6, <1>9
<1> QED BY <1>4, <1>7, <1>9, <1>11, <1>12

\* The places of a line that lies between base and end.
LEMMA Places ==
  ASSUME NEW base \in Nat, NEW from \in Nat, NEW to \in Nat, NEW end \in Nat, NEW len \in Nat,
         base <= from, to = from + len + 1, to <= end
  PROVE  /\ to - base \in 1..end - base
         /\ \A i \in 1..len : from - base + i \in 1..end - base
OBVIOUS

\* When the first line is taken from a stream, the others stay.
LEMMA LineGone ==
  ASSUME NEW p, Len(p) \in Nat, NEW s, Len(s) \in Nat, NEW a \in 0..Len(p) - 1, NEW off,
         Holds(s, p, a, off), \A v \in 1..Len(p) : p[v] \in Nat,
         NEW t, Len(t) = Len(s) - (p[a + 1] + 1),
         \A i \in 1..Len(t) : t[i] = s[p[a + 1] + 1 + i]
  PROVE  Holds(t, p, a + 1, off)
<1>1. \A v \in 0..Len(p) : off[v] \in Nat
  BY DEF Holds
<1>2. a + 1 \in 1..Len(p) /\ (a + 1) - 1 = a /\ a \in 0..Len(p)
  OBVIOUS
<1>3. off[a + 1] = off[a] + p[a + 1] + 1
  BY <1>2 DEF Holds
<1> DEFINE k == p[a + 1] + 1
<1>4. k \in Nat /\ off[a] \in Nat /\ off[a + 1] \in Nat /\ off[a + 1] = off[a] + k
      /\ off[Len(p)] \in Nat
  <2>1. p[a + 1] \in Nat
    BY <1>2
  <2>2. off[a] \in Nat /\ off[a + 1] \in Nat /\ off[Len(p)] \in Nat
    BY <1>1, <1>2
  <2>3. k \in Nat
    BY <2>1
  <2>4. off[a + 1] = off[a] + k
    BY <1>3, <2>1, <2>2
  <2> QED BY <2>2, <2>3, <2>4
<1>5. Len(t) = Len(s) - k /\ \A i \in 1..Len(t) : t[i] = s[k + i]
  OBVIOUS
<1> HIDE DEF k
<1>6. Len(s) = off[Len(p)] - off[a]
  BY DEF Holds
<1>7. Len(t) = off[Len(p)] - off[a + 1]
  BY <1>4, <1>5, <1>6
<1>8. ASSUME NEW v \in a + 2..Len(p)
      PROVE  /\ \A i \in 1..p[v] : t[off[v - 1] - off[a + 1] + i] = v
             /\ t[off[v] - off[a + 1]] = NL
  <2>1. /\ v \in a + 1..Len(p) /\ v - 1 \in 0..Len(p) /\ v \in 0..Len(p) /\ v \in 1..Len(p)
        /\ a + 1 <= v - 1 /\ v <= Len(p) /\ a + 1 \in 0..Len(p) /\ Len(p) \in 0..Len(p)
    OBVIOUS
  <2>2. /\ \A i \in 1..p[v] : s[off[v - 1] - off[a] + i] = v
        /\ s[off[v] - off[a]] = NL
    BY <2>1 DEF Holds
  <2>3. /\ off[a + 1] <= off[v - 1] /\ off[v] = off[v - 1] + p[v] + 1 /\ off[v] <= off[Len(p)]
    BY <2>1 DEF Holds
  <2>4. p[v] \in Nat /\ off[v - 1] \in Nat /\ off[v] \in Nat
    BY <1>1, <2>1
  <2> DEFINE from == off[v - 1]
             to == off[v]
             base == off[a + 1]
             end == off[Len(p)]
             len == p[v]
  <2>7. /\ base \in Nat /\ from \in Nat /\ to \in Nat /\ end \in Nat /\ len \in Nat
        /\ base <= from /\ to = from + len + 1 /\ to <= end
    BY <1>4, <2>3, <2>4
  <2> HIDE DEF from, to, base, end, len
  <2>8. /\ to - base \in 1..end - base
        /\ \A i \in 1..len : from - base + i \in 1..end - base
    BY <2>7, Places
  <2>9. /\ off[v] - off[a + 1] \in 1..Len(t)
        /\ \A i \in 1..p[v] : off[v - 1] - off[a + 1] + i \in 1..Len(t)
    BY <1>7, <2>8 DEF from, to, base, end, len
  <2>10. /\ \A i \in 1..p[v] : k + (off[v - 1] - off[a + 1] + i) = off[v - 1] - off[a] + i
         /\ k + (off[v] - off[a + 1]) = off[v] - off[a]
    <3>1. \A x \in Nat, i \in Nat :
            k + (x - off[a + 1] + i) = x - off[a] + i /\ k + (x - off[a + 1]) = x - off[a]
      <4> DEFINE b == off[a]
                 c == off[a + 1]
      <4>1. k \in Nat /\ b \in Nat /\ c \in Nat /\ c = b + k
        BY <1>4
      <4> HIDE DEF b, c
      <4>2. \A x \in Nat, i \in Nat : k + (x - c + i) = x - b + i /\ k + (x - c) = x - b
        BY <4>1
      <4> QED BY <4>2 DEF b, c
    <3>2. (\A i \in 1..p[v] : i \in Nat) /\ 0 \in Nat
      OBVIOUS
    <3> QED BY <2>4, <3>1, <3>2
  <2>5. ASSUME NEW i \in 1..p[v] PROVE t[off[v - 1] - off[a + 1] + i] = v
    <3>1. off[v - 1] - off[a + 1] + i \in 1..Len(t)
      BY <2>9
    <3>2. k + (off[v - 1] - off[a + 1] + i) = off[v - 1] - off[a] + i
      BY <2>10
    <3> QED BY <1>5, <2>2, <3>1, <3>2
  <2>6. t[off[v] - off[a + 1]] = NL
    <3>1. off[v] - off[a + 1] \in 1..Len(t)
      BY <2>9
    <3>2. k + (off[v] - off[a + 1]) = off[v] - off[a]
      BY <2>10
    <3> QED BY <1>5, <2>2, <3>1, <3>2
  <2> QED BY <2>5, <2>6
<1> QED BY <1>7, <1>8 DEF Holds

\* When the pool sends a line, it is put behind the others.
LEMMA LineCome ==
  ASSUME NEW p \in Seq(0..MaxLen), NEW n \in 0..MaxLen, NEW s, Len(s) \in Nat,
         NEW a \in 0..Len(p), NEW off, Holds(s, p, a, off), NEW t,
         Len(t) = Len(s) + n + 1,
         \A i \in 1..Len(s) : t[i] = s[i],
         \A i \in 1..n : t[Len(s) + i] = Len(p) + 1,
         t[Len(s) + n + 1] = NL
  PROVE  \E o : Holds(t, Append(p, n), a, o)
<1> DEFINE l == Len(p)
           q == Append(p, n)
           o == [v \in 0..l + 1 |-> IF v <= l THEN off[v] ELSE off[l] + n + 1]
<1>1. l \in Nat /\ n \in Nat /\ Len(q) = l + 1 /\ q[l + 1] = n
      /\ \A v \in 1..l : q[v] = p[v] /\ p[v] \in Nat
  BY AppendProperties, LenProperties, ElementOfSeq, Constants
<1>2. /\ \A v \in 0..l : off[v] \in Nat
      /\ \A v, w \in 0..l : v <= w => off[v] <= off[w]
      /\ \A v \in 1..l : off[v] = off[v - 1] + p[v] + 1
      /\ Len(s) = off[l] - off[a]
      /\ \A v \in a + 1..l :
           /\ \A i \in 1..p[v] : s[off[v - 1] - off[a] + i] = v
           /\ s[off[v] - off[a]] = NL
  BY DEF Holds
<1>3. /\ \A v \in 0..l : o[v] = off[v] /\ v \in 0..l + 1
      /\ o[l + 1] = off[l] + n + 1
      /\ \A v \in 0..l + 1 : v \in 0..l \/ v = l + 1
      /\ o \in [0..l + 1 -> Nat]
  <2>1. \A v \in 0..l + 1 : v \in 0..l \/ v = l + 1
    BY <1>1
  <2>2. \A v \in 0..l : v \in 0..l + 1 /\ v <= l
    BY <1>1
  <2>3. l + 1 \in 0..l + 1 /\ ~(l + 1 <= l) /\ l \in 0..l
    BY <1>1
  <2>4. off[l] + n + 1 \in Nat
    BY <1>1, <1>2, <2>3
  <2> HIDE DEF l
  <2>5. o \in [0..l + 1 -> Nat]
    BY <1>2, <2>1, <2>4
  <2> QED BY <2>1, <2>2, <2>3, <2>5
<1>4. a \in 0..l /\ l \in 0..l /\ off[l] \in Nat /\ off[a] \in Nat
  BY <1>1, <1>2
<1> HIDE DEF l, q, o
<1>5. \A v, w \in 0..l + 1 : v <= w => o[v] <= o[w]
  <2> SUFFICES ASSUME NEW v \in 0..l + 1, NEW w \in 0..l + 1, v <= w PROVE o[v] <= o[w]
    OBVIOUS
  <2>1. o[v] \in Nat /\ o[w] \in Nat
    BY <1>3
  <2>2. CASE v \in 0..l /\ w \in 0..l
    BY <1>2, <1>3, <2>2
  <2>3. CASE v \in 0..l /\ w = l + 1
    <3>1. off[v] <= off[l] /\ off[v] \in Nat
      BY <1>1, <1>2, <1>4, <2>3
    <3>2. o[v] = off[v] /\ o[w] = off[l] + n + 1
      BY <1>3, <2>3
    <3> QED BY <1>1, <1>4, <3>1, <3>2
  <2>4. CASE v = l + 1 /\ w = l + 1
    BY <2>1, <2>4
  <2>5. ~(v = l + 1 /\ w \in 0..l)
    BY <1>1
  <2> QED BY <1>3, <2>2, <2>3, <2>4, <2>5
<1>6. \A v \in 1..l + 1 : o[v] = o[v - 1] + q[v] + 1
  <2> SUFFICES ASSUME NEW v \in 1..l + 1 PROVE o[v] = o[v - 1] + q[v] + 1
    OBVIOUS
  <2>1. CASE v = l + 1
    <3>1. v - 1 = l
      BY <1>1, <2>1
    <3> QED BY <1>1, <1>3, <1>4, <2>1, <3>1
  <2>2. CASE v # l + 1
    <3>1. v \in 1..l /\ v - 1 \in 0..l /\ v \in 0..l
      BY <1>1, <2>2
    <3> QED BY <1>1, <1>2, <1>3, <3>1
  <2> QED BY <2>1, <2>2
<1>7. Len(t) = o[l + 1] - o[a]
  <2>1. o[l + 1] = off[l] + n + 1 /\ o[a] = off[a]
    BY <1>3, <1>4
  <2> QED BY <1>1, <1>2, <1>4, <2>1
<1>8. ASSUME NEW v \in a + 1..l + 1
      PROVE  /\ \A i \in 1..q[v] : t[o[v - 1] - o[a] + i] = v
             /\ t[o[v] - o[a]] = NL
  <2>1. CASE v = l + 1
    <3>1. v - 1 = l /\ q[v] = n
      BY <1>1, <2>1
    <3>2. o[v - 1] = off[l] /\ o[v] = off[l] + n + 1 /\ o[a] = off[a]
      BY <1>3, <1>4, <2>1, <3>1
    <3>3. o[v - 1] - o[a] = Len(s)
      BY <1>2, <3>2
    <3>4. o[v] - o[a] = Len(s) + n + 1
      BY <1>1, <1>2, <1>4, <3>2
    <3> QED BY <2>1, <3>1, <3>3, <3>4 DEF l
  <2>2. CASE v # l + 1
    <3>1. v \in a + 1..l /\ v \in 1..l /\ v - 1 \in 0..l /\ v \in 0..l /\ a <= v - 1 /\ v <= l
      BY <1>1, <1>4, <2>2
    <3>2. /\ o[v - 1] = off[v - 1] /\ o[v] = off[v] /\ o[a] = off[a] /\ q[v] = p[v]
          /\ off[a] <= off[v - 1] /\ off[v] <= off[l] /\ off[v] = off[v - 1] + p[v] + 1
          /\ off[v - 1] \in Nat /\ off[v] \in Nat /\ p[v] \in Nat
      BY <1>1, <1>2, <1>3, <1>4, <3>1
    <3> DEFINE from == off[v - 1]
               to == off[v]
               base == off[a]
               end == off[l]
               len == p[v]
    <3>4. /\ base \in Nat /\ from \in Nat /\ to \in Nat /\ end \in Nat /\ len \in Nat
          /\ base <= from /\ to = from + len + 1 /\ to <= end
      BY <1>4, <3>2
    <3> HIDE DEF from, to, base, end, len
    <3>5. /\ to - base \in 1..end - base
          /\ \A i \in 1..len : from - base + i \in 1..end - base
      BY <3>4, Places
    <3>3. /\ \A i \in 1..p[v] : off[v - 1] - off[a] + i \in 1..Len(s)
          /\ off[v] - off[a] \in 1..Len(s)
      BY <1>2, <3>5 DEF from, to, base, end, len
    <3> QED BY <1>2, <3>1, <3>2, <3>3
  <2> QED BY <2>1, <2>2
<1>9. Holds(t, q, a, o)
  BY <1>1, <1>3, <1>5, <1>6, <1>7, <1>8 DEF Holds
<1> QED BY <1>9 DEF q

-----------------------------------------------------------------------------

\* The steps that neither receive nor put anything on its way to the miner.
LEMMA FlowQuiet ==
  ASSUME Flow, UNCHANGED <<open, sockbuf, down, put, taken, odd>>,
         \/ at' \in {at, "idle"}
         \/ at' \in {"recv", "failed"} /\ open
         \/ at' = "take" /\ open /\ HasLine(sockbuf),
         (up' = up) \/ open
  PROVE  Flow'
<1>1. Closed'
  BY DEF Flow, Closed
<1>2. Stream'
  BY DEF Flow, Stream, HasLine
<1>3. LinesAreWhole'
  BY DEF Flow, LinesAreWhole
<1> QED BY <1>1, <1>2, <1>3 DEF Flow

LEMMA FlowConnects ==
  ASSUME IInv, Flow, Connect \/ DisconnectFailed \/ DisconnectOther
  PROVE  Flow'
<1>1. CASE Connect
  <2>1. /\ open' /\ at' = "idle" /\ put' = <<>> /\ taken' = <<>> /\ sockbuf' = <<>> /\ down' = <<>>
        /\ up' = <<>>
    BY <1>1 DEF Connect, Flow, Closed, EmptyBuffer
  <2>2. Len(<<>>) = 0 /\ <<>> \in Seq(Bytes)
    BY EmptySeq
  <2>3. sockbuf' \o down' = <<>>
    BY <2>1, <2>2, ConcatEmptySeq
  <2>4. \E off : Holds(<<>>, <<>>, 0, off)
    <3>1. Holds(<<>>, <<>>, 0, [v \in 0..0 |-> 0])
      BY <2>2 DEF Holds
    <3> QED BY <3>1
  <2>5. Stream'
    BY <2>1, <2>2, <2>3, <2>4 DEF Stream
  <2>6. LinesAreWhole'
    BY <2>1, <2>2 DEF LinesAreWhole
  <2>7. Closed'
    BY <2>1 DEF Closed
  <2> QED BY <2>5, <2>6, <2>7 DEF Flow
<1>2. CASE DisconnectFailed \/ DisconnectOther
  <2>1. /\ ~open' /\ at' = "idle" /\ sockbuf' = <<>> /\ down' = <<>> /\ up' = <<>>
        /\ UNCHANGED <<put, taken, odd>>
    BY <1>2 DEF DisconnectFailed, DisconnectOther, Disconnect, EmptyBuffer, history
  <2>2. Closed' /\ Stream' /\ LinesAreWhole'
    BY <2>1 DEF Flow, Closed, Stream, LinesAreWhole
  <2> QED BY <2>2 DEF Flow
<1> QED BY <1>1, <1>2

\* What recv returns is put behind what is in the buffer.
LEMMA FlowReceives ==
  ASSUME IInv, Flow, RecvChunk
  PROVE  Flow'
<1>1. PICK n \in 1..RecvSize, slow \in BOOLEAN :
        /\ n <= Len(down)
        /\ sockbuf' = sockbuf \o SubSeq(down, 1, n)
        /\ down' = SubSeq(down, n + 1, Len(down))
        /\ at' = IF HasLine(sockbuf') \/ slow THEN "take" ELSE "recv"
        /\ IF slow /\ ~HasLine(sockbuf') THEN odd' = TRUE ELSE UNCHANGED odd
  BY DEF RecvChunk
<1>2. open /\ UNCHANGED <<open, put, taken, up>>
  BY DEF RecvChunk, Flow, Closed, sending
<1>3. n \in 0..Len(down)
  BY <1>1, Constants, LenProperties DEF IInv, BufferOK
<1>4. sockbuf' \o down' = sockbuf \o down
  BY <1>1, <1>3, FlowTypes, Moved
<1>5. Closed'
  BY <1>2 DEF Closed
<1>6. ~odd' => ~odd
  BY <1>1
<1>7. LinesAreWhole'
  BY <1>2, <1>6 DEF Flow, LinesAreWhole
<1>8. Stream'
  <2>1. open' /\ ~odd' => \E off : Holds(sockbuf' \o down', put', Len(taken'), off)
    BY <1>2, <1>4, <1>6 DEF Flow, Stream
  <2>2. at' = "take" /\ ~odd' => HasLine(sockbuf')
    BY <1>1
  <2>3. ~odd' => \A v \in 1..Len(put') : put'[v] > 0
    BY <1>2, <1>6 DEF Flow, Stream
  <2> QED BY <2>1, <2>2, <2>3 DEF Stream
<1> QED BY <1>5, <1>7, <1>8 DEF Flow

\* The pool sends a line.
LEMMA FlowSends ==
  ASSUME IInv, Flow, PoolSends
  PROVE  Flow'
<1>1. PICK n \in 0..MaxLen :
        /\ down' = down \o Body(Len(put) + 1, n) \o <<NL>>
        /\ put' = Append(put, n)
        /\ odd' = (odd \/ n = 0)
  BY DEF PoolSends
<1>2. open /\ UNCHANGED <<open, at, sockbuf, taken, up>> /\ Len(put) < MaxLines
  BY DEF PoolSends, receiving
<1>3. n \in Nat /\ Len(put) + 1 \in Bytes /\ Len(put) \in Nat
  BY <1>2, FlowTypes, Constants, BoundsAssumption DEF Bytes, Reply
<1>4. /\ Len(put') = Len(put) + 1 /\ put'[Len(put) + 1] = n
      /\ \A v \in 1..Len(put) : put'[v] = put[v]
      /\ \A v \in 1..Len(put) + 1 : v \in 1..Len(put) \/ v = Len(put) + 1
  BY <1>1, FlowTypes, AppendProperties
<1>5. Closed'
  BY <1>2 DEF Closed
<1>6. LinesAreWhole'
  <2> SUFFICES ASSUME ~odd
               PROVE  /\ Len(taken) <= Len(put')
                      /\ \A i \in DOMAIN taken : taken[i] = Body(i, put'[i])
    BY <1>1, <1>2 DEF LinesAreWhole
  <2>1. Len(taken) <= Len(put) /\ \A i \in DOMAIN taken : taken[i] = Body(i, put[i])
    BY DEF Flow, LinesAreWhole
  <2>2. \A i \in DOMAIN taken : i \in 1..Len(put)
    BY <2>1, FlowTypes, LenProperties
  <2>3. \A i \in DOMAIN taken : put'[i] = put[i]
    BY <1>4, <2>2
  <2>4. Len(taken) <= Len(put')
    BY <1>3, <1>4, <2>1, FlowTypes
  <2> QED BY <2>1, <2>3, <2>4
<1>7. Stream'
  <2> SUFFICES ASSUME ~odd, n # 0
               PROVE  /\ \A v \in 1..Len(put') : put'[v] > 0
                      /\ \E off : Holds(sockbuf \o down', put', Len(taken), off)
                      /\ at = "take" => HasLine(sockbuf)
    BY <1>1, <1>2 DEF Stream, HasLine
  <2>1. \A v \in 1..Len(put') : put'[v] > 0
    BY <1>3, <1>4 DEF Flow, Stream
  <2>2. at = "take" => HasLine(sockbuf)
    BY DEF Flow, Stream
  <2>3. PICK off : Holds(sockbuf \o down, put, Len(taken), off)
    BY <1>2 DEF Flow, Stream
  <2> DEFINE s == sockbuf \o down
             b == Body(Len(put) + 1, n)
             t == sockbuf \o down'
  <2>4. b \in Seq(Bytes) /\ Len(b) = n /\ \A i \in 1..n : b[i] = Len(put) + 1
    <3>1. b \in [1..n -> Bytes]
      BY <1>3 DEF Body
    <3>2. b \in Seq(Bytes)
      BY <1>3, <3>1, SeqDef
    <3>3. Len(b) = n
      BY <1>3, <3>1, <3>2, LenProperties DEF Body
    <3> QED BY <3>2, <3>3 DEF Body
  <2> HIDE DEF b
  <2>5. <<NL>> \in Seq(Bytes) /\ Len(<<NL>>) = 1 /\ <<NL>>[1] = NL
    BY Constants
  <2>6. t = (s \o b) \o <<NL>>
    <3>1. down' = (down \o b) \o <<NL>>
      BY <1>1 DEF b
    <3>2. sockbuf \in Seq(Bytes) /\ down \in Seq(Bytes) /\ down \o b \in Seq(Bytes)
      BY <2>4, FlowTypes, ConcatProperties
    <3>3. t = (sockbuf \o (down \o b)) \o <<NL>>
      BY <2>5, <3>1, <3>2, ConcatAssociative
    <3>4. sockbuf \o (down \o b) = s \o b
      BY <2>4, <3>2, ConcatAssociative
    <3> QED BY <3>3, <3>4
  <2>7. s \in Seq(Bytes) /\ Len(s) \in Nat
    BY FlowTypes, LenProperties
  <2> HIDE DEF s, t
  <2>8. /\ s \o b \in Seq(Bytes) /\ Len(s \o b) = Len(s) + n
        /\ \A i \in 1..Len(s) : (s \o b)[i] = s[i]
        /\ \A i \in 1..n : (s \o b)[Len(s) + i] = Len(put) + 1
    <3> b \in Seq(Bytes) /\ s \in Seq(Bytes)
      BY <2>4, <2>7
    <3>1. /\ s \o b \in Seq(Bytes) /\ Len(s \o b) = Len(s) + Len(b)
          /\ \A i \in 1..Len(s) : (s \o b)[i] = s[i]
          /\ \A i \in 1..Len(b) : (s \o b)[Len(s) + i] = b[i]
      BY ConcatAt
    <3> QED BY <2>4, <3>1
  <2> DEFINE u == s \o b
  <2> HIDE DEF u
  <2>9. /\ u \in Seq(Bytes) /\ Len(u) = Len(s) + n /\ t = u \o <<NL>>
        /\ \A i \in 1..Len(s) : u[i] = s[i]
        /\ \A i \in 1..n : u[Len(s) + i] = Len(put) + 1
    BY <2>6, <2>8 DEF u
  <2>10. /\ Len(t) = Len(u) + 1 /\ t[Len(u) + 1] = NL
         /\ \A i \in 1..Len(u) : t[i] = u[i]
    <3> u \in Seq(Bytes) /\ <<NL>> \in Seq(Bytes)
      BY <2>5, <2>9
    <3>1. /\ Len(u \o <<NL>>) = Len(u) + Len(<<NL>>)
          /\ \A i \in 1..Len(u) : (u \o <<NL>>)[i] = u[i]
          /\ \A i \in 1..Len(<<NL>>) : (u \o <<NL>>)[Len(u) + i] = <<NL>>[i]
      BY ConcatAt
    <3> QED BY <2>5, <2>9, <3>1
  <2>11. /\ Len(t) = Len(s) + n + 1 /\ t[Len(s) + n + 1] = NL
         /\ \A i \in 1..Len(s) : t[i] = s[i]
         /\ \A i \in 1..n : t[Len(s) + i] = Len(put) + 1
    <3>1. Len(u) = Len(s) + n
      BY <2>9
    <3>2. /\ \A i \in 1..Len(s) : i \in 1..Len(u)
          /\ \A i \in 1..n : Len(s) + i \in 1..Len(u)
      BY <1>3, <2>7, <3>1
    <3>3. \A i \in 1..Len(s) : t[i] = s[i]
      BY <2>9, <2>10, <3>2
    <3>4. \A i \in 1..n : t[Len(s) + i] = Len(put) + 1
      BY <2>9, <2>10, <3>2
    <3> QED BY <2>10, <3>1, <3>3, <3>4
  <2>12. Len(taken) \in 0..Len(put)
    BY FlowTypes DEF Flow, LinesAreWhole
  <2>13. \E o : Holds(t, Append(put, n), Len(taken), o)
    BY <2>3, <2>7, <2>11, <2>12, FlowTypes, LineCome DEF s
  <2> QED BY <1>1, <2>1, <2>2, <2>13 DEF t
<1> QED BY <1>5, <1>6, <1>7 DEF Flow

\* strtok finds the first line, whole, because its newline is in the buffer.
LEMMA TokenIsLine ==
  ASSUME IInv, Flow, at = "take", ~odd
  PROVE  /\ Len(taken) + 1 \in 1..Len(put) /\ put[Len(taken) + 1] \in Nat \ {0}
         /\ put[Len(taken) + 1] + 1 \in 1..Len(sockbuf)
         /\ \A i \in 1..put[Len(taken) + 1] : sockbuf[i] = Len(taken) + 1
         /\ sockbuf[put[Len(taken) + 1] + 1] = NL
         /\ Len(taken) + 1 # NL /\ Len(sockbuf) \in Nat
<1> DEFINE s == sockbuf \o down
           a == Len(taken)
<1>1. PICK j \in DOMAIN sockbuf : sockbuf[j] = NL
  BY DEF Flow, Stream, HasLine
<1>2. /\ s \in Seq(Bytes) /\ Len(sockbuf) \in Nat /\ Len(s) = Len(sockbuf) + Len(down)
      /\ \A i \in 1..Len(sockbuf) : s[i] = sockbuf[i]
      /\ Len(down) \in Nat /\ j \in 1..Len(sockbuf)
  BY <1>1, FlowTypes, ConcatAt, LenProperties
<1>3. PICK off : Holds(s, put, a, off)
  BY DEF Flow, Stream, Closed
<1>4. a \in 0..Len(put)
  BY FlowTypes DEF Flow, LinesAreWhole
<1> HIDE DEF s
<1>5. s # <<>>
  <2>1. Len(s) # 0
    BY <1>2
  <2> QED BY <2>1, EmptySeq
<1>6. /\ a + 1 \in 1..Len(put) /\ put[a + 1] + 1 \in 1..Len(s)
      /\ \A i \in 1..put[a + 1] : s[i] = a + 1
      /\ s[put[a + 1] + 1] = NL
  BY <1>2, <1>3, <1>4, <1>5, FlowTypes, FirstLine
<1> DEFINE n == put[a + 1]
<1>7. n \in Nat \ {0} /\ a + 1 # NL
  <2>1. n > 0
    BY <1>6 DEF Flow, Stream
  <2> QED BY <1>4, <1>6, <2>1, FlowTypes DEF NL
<1> HIDE DEF n
<1>8. j = n + 1 \/ j > n + 1
  <2>1. ~(j \in 1..n)
    <3> SUFFICES ASSUME j \in 1..n PROVE FALSE
      OBVIOUS
    <3>1. s[j] = a + 1 /\ s[j] = NL
      BY <1>1, <1>2, <1>6 DEF n
    <3> QED BY <1>7, <3>1
  <2> QED BY <1>2, <1>7, <2>1
<1>9. n + 1 \in 1..Len(sockbuf) /\ \A i \in 1..n : i \in 1..Len(sockbuf)
  BY <1>2, <1>7, <1>8
<1>10. sockbuf[n + 1] = NL /\ \A i \in 1..n : sockbuf[i] = a + 1
  BY <1>2, <1>6, <1>9 DEF n
<1> QED BY <1>2, <1>6, <1>7, <1>9, <1>10 DEF n

\* stratum_recv_line cuts the first line off and keeps the rest.
LEMMA FlowTakes ==
  ASSUME IInv, Flow, TakeLine
  PROVE  Flow'
<1>1. PICK skip \in 0..Len(sockbuf) : \E len \in 0..Len(sockbuf) - skip :
        /\ Token(skip, len)
        /\ IF len = 0
           THEN UNCHANGED sockbuf /\ ReturnNull
           ELSE /\ taken' = Append(taken, SubSeq(sockbuf, skip + 1, skip + len))
                /\ sockbuf' = Rest(skip, len)
                /\ at' \in {"reply", "idle"}
                /\ UNCHANGED <<open, down, up, history>>
  BY DEF TakeLine
<1>2. PICK len \in 0..Len(sockbuf) - skip :
        /\ Token(skip, len)
        /\ IF len = 0
           THEN UNCHANGED sockbuf /\ ReturnNull
           ELSE /\ taken' = Append(taken, SubSeq(sockbuf, skip + 1, skip + len))
                /\ sockbuf' = Rest(skip, len)
                /\ at' \in {"reply", "idle"}
                /\ UNCHANGED <<open, down, up, history>>
  BY <1>1
<1>3. at = "take" /\ open
  BY DEF TakeLine, Flow, Closed
<1>4. CASE len = 0
  <2>1. /\ UNCHANGED <<open, sockbuf, down, put, taken, odd, up>>
        /\ at' \in {"failed", "idle"}
    BY <1>2, <1>4 DEF ReturnNull, history
  <2>2. LinesAreWhole' /\ Closed' /\ Stream'
    BY <1>3, <2>1 DEF Flow, LinesAreWhole, Closed, Stream
  <2> QED BY <2>2 DEF Flow
<1>5. CASE len # 0
  <2>1. /\ taken' = Append(taken, SubSeq(sockbuf, skip + 1, skip + len))
        /\ sockbuf' = Rest(skip, len) /\ at' \in {"reply", "idle"}
        /\ UNCHANGED <<open, down, up, put, odd>>
    BY <1>2, <1>5 DEF history
  <2>2. Closed'
    BY <1>3, <2>1 DEF Closed
  <2>3. CASE odd
    BY <2>1, <2>2, <2>3 DEF Flow, Stream, LinesAreWhole
  <2>4. CASE ~odd
    <3> DEFINE a == Len(taken)
               n == put[a + 1]
    <3>1. /\ a + 1 \in 1..Len(put) /\ n \in Nat \ {0} /\ n + 1 \in 1..Len(sockbuf)
          /\ \A i \in 1..n : sockbuf[i] = a + 1
          /\ sockbuf[n + 1] = NL /\ a + 1 # NL /\ Len(sockbuf) \in Nat
      BY <1>3, <2>4, TokenIsLine
    <3>2. a \in Nat /\ Len(put) \in Nat
      BY FlowTypes
    <3> HIDE DEF a, n
    <3>3. skip = 0
      <4>1. ~(1 \in 1..skip)
        <5> SUFFICES ASSUME 1 \in 1..skip PROVE FALSE
          OBVIOUS
        <5>1. sockbuf[1] = NL
          BY <1>2 DEF Token
        <5>2. sockbuf[1] = a + 1
          BY <3>1
        <5> QED BY <3>1, <5>1, <5>2
      <4> QED BY <3>1, <4>1
    <3>4. len = n
      <4>1. len \in Nat /\ 0 + len = len
        BY <3>1, <3>3
      <4>2. ~(n + 1 \in 1..len)
        <5> SUFFICES ASSUME n + 1 \in 1..len PROVE FALSE
          OBVIOUS
        <5>1. sockbuf[skip + (n + 1)] # NL
          BY <1>2 DEF Token
        <5>2. skip + (n + 1) = n + 1
          BY <3>1, <3>3
        <5> QED BY <3>1, <5>1, <5>2
      <4>3. len < Len(sockbuf)
        BY <3>1, <4>1, <4>2
      <4>4. sockbuf[len + 1] = NL
        <5>1. skip + len < Len(sockbuf) /\ skip + len + 1 = len + 1
          BY <3>3, <4>1, <4>3
        <5> QED BY <1>2, <5>1 DEF Token
      <4>5. ~(len + 1 \in 1..n)
        BY <3>1, <4>4
      <4> QED BY <3>1, <4>1, <4>2, <4>5
    <3> DEFINE line == SubSeq(sockbuf, 1, n)
    <3>5. line = Body(a + 1, n)
      <4>1. n \in Nat /\ n \in 0..Len(sockbuf) /\ 1 \in Nat \ {0} /\ sockbuf \in Seq(Bytes)
        BY <3>1, FlowTypes
      <4>2. /\ line \in Seq(Bytes) /\ Len(line) = n
            /\ \A i \in 1..n : line[i] = sockbuf[i]
        <5>1. /\ line \in Seq(Bytes) /\ Len(line) = IF 1 <= n THEN n - 1 + 1 ELSE 0
              /\ \A i \in 1..n - 1 + 1 : line[i] = sockbuf[1 + i - 1]
          BY <4>1, PartAt
        <5> QED BY <3>1, <5>1
      <4>3. line \in [1..n -> Bytes] /\ \A i \in 1..n : line[i] = a + 1
        BY <3>1, <4>2, LenProperties
      <4> HIDE DEF line
      <4> QED BY <4>3 DEF Body
    <3>6. taken' = Append(taken, Body(a + 1, n))
      <4>1. skip + 1 = 1 /\ skip + len = n
        BY <3>1, <3>3, <3>4
      <4> QED BY <2>1, <3>5, <4>1
    <3>7. sockbuf' = SubSeq(sockbuf, n + 2, Len(sockbuf))
      BY <2>1, <3>3, <3>4 DEF Rest
    <3>8. /\ sockbuf' \in Seq(Bytes) /\ Len(sockbuf') = Len(sockbuf) - (n + 1)
          /\ \A i \in 1..Len(sockbuf') : sockbuf'[i] = sockbuf[n + 1 + i]
      <4>1. n + 2 \in Nat \ {0} /\ Len(sockbuf) \in 0..Len(sockbuf) /\ sockbuf \in Seq(Bytes)
        BY <3>1, FlowTypes
      <4>2. /\ sockbuf' \in Seq(Bytes)
            /\ Len(sockbuf') = IF n + 2 <= Len(sockbuf) THEN Len(sockbuf) - (n + 2) + 1 ELSE 0
            /\ \A i \in 1..Len(sockbuf) - (n + 2) + 1 : sockbuf'[i] = sockbuf[n + 2 + i - 1]
        BY <3>7, <4>1, PartAt
      <4>3. Len(sockbuf') = Len(sockbuf) - (n + 1)
        BY <3>1, <4>2
      <4>4. \A i \in 1..Len(sockbuf') : /\ i \in 1..Len(sockbuf) - (n + 2) + 1
                                        /\ n + 2 + i - 1 = n + 1 + i
        BY <3>1, <4>3
      <4> QED BY <4>2, <4>3, <4>4
    <3>9. Len(taken') = a + 1
      <4>1. Body(a + 1, n) \in Seq(Bytes)
        <5>1. line \in Seq(Bytes)
          BY <3>1, FlowTypes, PartAt
        <5> QED BY <3>5, <5>1
      <4> HIDE DEF line
      <4> QED BY <3>6, <4>1, FlowTypes, AppendProperties DEF a
    <3>10. \E off : Holds(sockbuf' \o down', put', Len(taken'), off)
      <4> DEFINE s == sockbuf \o down
                 t == sockbuf' \o down
      <4>1. /\ s \in Seq(Bytes) /\ Len(s) = Len(sockbuf) + Len(down)
            /\ \A i \in 1..Len(sockbuf) : s[i] = sockbuf[i]
            /\ \A i \in 1..Len(down) : s[Len(sockbuf) + i] = down[i]
            /\ Len(down) \in Nat
        BY FlowTypes, ConcatAt
      <4>2. /\ t \in Seq(Bytes) /\ Len(t) = Len(sockbuf') + Len(down)
            /\ \A i \in 1..Len(sockbuf') : t[i] = sockbuf'[i]
            /\ \A i \in 1..Len(down) : t[Len(sockbuf') + i] = down[i]
            /\ Len(sockbuf') \in Nat
        <5> sockbuf' \in Seq(Bytes) /\ down \in Seq(Bytes)
          BY <3>8, FlowTypes
        <5> QED BY ConcatAt
      <4>3. PICK off : Holds(s, put, a, off)
        BY <1>3, <2>4 DEF Flow, Stream, a
      <4> HIDE DEF s, t
      <4>4. Len(t) = Len(s) - (n + 1)
        BY <3>1, <3>8, <4>1, <4>2
      <4>5. ASSUME NEW i \in 1..Len(t) PROVE t[i] = s[n + 1 + i]
        <5>1. CASE i \in 1..Len(sockbuf')
          <6>1. n + 1 + i \in 1..Len(sockbuf)
            BY <3>1, <3>8, <5>1
          <6> QED BY <3>8, <4>1, <4>2, <5>1, <6>1
        <5>2. CASE ~(i \in 1..Len(sockbuf'))
          <6> DEFINE j == i - Len(sockbuf')
          <6>1. j \in 1..Len(down) /\ Len(sockbuf') + j = i /\ Len(sockbuf) + j = n + 1 + i
            BY <3>1, <3>8, <4>1, <4>2, <5>2
          <6> HIDE DEF j
          <6> QED BY <4>1, <4>2, <6>1
        <5> QED BY <5>1, <5>2
      <4>6. /\ a \in 0..Len(put) - 1 /\ Len(put) \in Nat /\ Len(s) \in Nat
            /\ \A v \in 1..Len(put) : put[v] \in Nat
        BY <3>1, <3>2, <4>1, FlowTypes, LenProperties
      <4>7. Holds(t, put, a + 1, off)
        BY <4>3, <4>4, <4>5, <4>6, LineGone DEF n
      <4> QED BY <2>1, <3>9, <4>7 DEF t
    <3>11. LinesAreWhole'
      <4>1. \A i \in DOMAIN taken : taken[i] = Body(i, put[i])
        BY <2>4 DEF Flow, LinesAreWhole
      <4>2. /\ DOMAIN taken' = 1..a + 1 /\ DOMAIN taken = 1..a
            /\ \A i \in 1..a : taken'[i] = taken[i]
            /\ taken'[a + 1] = Body(a + 1, n)
        <5>1. Body(a + 1, n) \in Seq(Bytes)
          <6>1. line \in Seq(Bytes)
            BY <3>1, FlowTypes, PartAt
          <6> QED BY <3>5, <6>1
        <5> HIDE DEF line
        <5> QED BY <3>6, <3>9, <5>1, FlowTypes, AppendProperties, LenProperties DEF a
      <4>3. \A i \in 1..a + 1 : i \in 1..a \/ i = a + 1
        BY <3>2
      <4>4. \A i \in DOMAIN taken' : taken'[i] = Body(i, put[i])
        BY <4>1, <4>2, <4>3 DEF n
      <4> QED BY <2>1, <3>1, <3>9, <4>4 DEF LinesAreWhole
    <3>12. Stream'
      BY <2>1, <2>4, <3>10 DEF Flow, Stream
    <3> QED BY <2>2, <3>11, <3>12 DEF Flow
  <2> QED BY <2>3, <2>4
<1> QED BY <1>4, <1>5

LEMMA FlowStep == IInv /\ Flow /\ [Next]_vars => Flow'
<1> SUFFICES ASSUME IInv, Flow, [Next]_vars PROVE Flow'
  OBVIOUS
<1>1. CASE Connect \/ DisconnectFailed \/ DisconnectOther
  BY <1>1, FlowConnects
<1>2. CASE Receive
  <2>1. /\ UNCHANGED <<open, sockbuf, down, put, taken, odd>> /\ open /\ up' = up
        /\ at' = "recv" \/ (at' = "take" /\ HasLine(sockbuf))
    BY <1>2 DEF Receive, sending, history
  <2> QED BY <2>1, FlowQuiet
<1>3. CASE RecvFails
  <2>1. open
    BY <1>3 DEF RecvFails, Flow, Closed
  <2>2. /\ UNCHANGED <<open, sockbuf, down, put, taken, odd, up>> /\ at' \in {"failed", "idle"}
    BY <1>3 DEF RecvFails, ReturnNull, sending, history
  <2> QED BY <2>1, <2>2, FlowQuiet
<1>4. CASE SendReply \/ SendShare
  <2>1. UNCHANGED <<open, sockbuf, down, put, taken, odd, at, up>>
    BY <1>4 DEF SendReply, SendShare, Begin, receiving, history
  <2> QED BY <2>1, FlowQuiet
<1>5. ASSUME NEW s \in Sender, Sends(s) PROVE Flow'
  <2>1. CASE SendSome(s)
    <3>1. /\ UNCHANGED <<open, sockbuf, down, put, taken, odd>> /\ open /\ at' \in {at, "idle"}
      BY <2>1 DEF SendSome, Returns, history
    <3> QED BY <3>1, FlowQuiet
  <2>2. CASE SendFails(s)
    <3>1. /\ UNCHANGED <<open, sockbuf, down, put, taken, odd, up>> /\ at' \in {at, "idle"}
      BY <2>2 DEF SendFails, GivesUp, Returns
    <3> QED BY <3>1, FlowQuiet
  <2> QED BY <1>5, <2>1, <2>2 DEF Sends
<1>6. CASE PoolReads
  <2>1. UNCHANGED <<open, sockbuf, down, put, taken, odd, at>> /\ open
    BY <1>6 DEF PoolReads, receiving, history
  <2> QED BY <2>1, FlowQuiet
<1>7. CASE UNCHANGED vars
  <2>1. UNCHANGED <<open, sockbuf, down, put, taken, odd, at, up>>
    BY <1>7 DEF vars, receiving, history
  <2> QED BY <2>1, FlowQuiet
<1> QED BY <1>1, <1>2, <1>3, <1>4, <1>5, <1>6, <1>7, FlowReceives, FlowSends, FlowTakes
        DEF Next, StratumThread

LEMMA FlowInit == Init => Flow
<1> SUFFICES ASSUME Init PROVE Flow
  OBVIOUS
<1>1. LinesAreWhole
  BY EmptySeq DEF Init, LinesAreWhole
<1>2. Stream
  BY EmptySeq DEF Init, Stream
<1> QED BY <1>1, <1>2 DEF Init, Flow, Closed

\* What stratum_recv_line keeps in sockbuf, and what is on its way, is always
\* what the pool sent after the lines that were returned (Flow).
THEOREM FlowInvariant == Spec => []Flow
<1>1. Init => IInv /\ Flow
  BY InvariantInit, FlowInit
<1>2. IInv /\ Flow /\ [Next]_vars => (IInv /\ Flow)'
  BY InvariantStep, FlowStep
<1> QED BY <1>1, <1>2, PTL DEF Spec

\* stratum_recv_line returns the lines of the pool whole and in order, for any
\* sizes of the buffer and of what recv returns (LinesAreWhole).
THEOREM LinesStayWhole == Spec => []LinesAreWhole
<1>1. Flow => LinesAreWhole
  BY DEF Flow
<1> QED BY <1>1, FlowInvariant, PTL

\* strtok always finds a token, and its newline, when stratum_recv_line looks
\* for one, unless the pool sent an empty line or was slow (TokenIsThere).
THEOREM TokenIsFound == Spec => []TokenIsThere
<1>1. IInv /\ Flow => TokenIsThere
  <2> SUFFICES ASSUME IInv, Flow, at = "take", ~odd PROVE sockbuf[1] # NL /\ HasLine(sockbuf)
    BY DEF TokenIsThere
  <2>1. HasLine(sockbuf)
    BY DEF Flow, Stream
  <2>2. /\ put[Len(taken) + 1] \in Nat \ {0} /\ Len(taken) + 1 # NL
        /\ \A i \in 1..put[Len(taken) + 1] : sockbuf[i] = Len(taken) + 1
    BY TokenIsLine
  <2>3. 1 \in 1..put[Len(taken) + 1]
    BY <2>2
  <2> QED BY <2>1, <2>2, <2>3
<1> QED BY <1>1, LineInvariant, FlowInvariant, PTL

-----------------------------------------------------------------------------
(***************************************************************************)
(* What is sent                                                            *)
(***************************************************************************)

\* A line of b, or a piece of one that may be taken for it, ends at p.
EndsAt(u, b, p) == p \in 2..Len(u) /\ u[p - 1] = b /\ u[p] = NL

\* A line of b stands at i.
StandsAt(u, b, i) == /\ i \in 1..Len(u) - 2
                     /\ u[i] = b /\ u[i + 1] = b /\ u[i + 2] = NL

\* l is the rest of a line of b, and u ends with what l lacks.
Continues(u, l, b) ==
  /\ Len(l) \in 1..3 /\ l[Len(l)] = NL /\ \A i \in 1..Len(l) - 1 : l[i] = b
  /\ Len(u) + Len(l) >= 3
  /\ \A i \in Len(u) + Len(l) - 2..Len(u) : u[i] = b

\* The byte of the line that a thread sends.
Byte(s) == IF s = "workio" THEN ShareByte(share) ELSE Reply

\* Nothing comes between the pieces of the line that is being sent.
Begun ==
  \A s \in Sender : lock = s =>
    /\ Len(left[s]) < 3 => open
    /\ Continues(up, left[s], Byte(s))

\* The newline of a share's line is sent once, at most, and read once.
SentOnce ==
  \A k \in Share :
    /\ got[k] <= 1
    /\ k >= share => got[k] = 0
    /\ k >= share \/ got[k] = 1 => \A p \in 2..Len(up) : ~EndsAt(up, ShareByte(k), p)
    /\ \A p, q \in 2..Len(up) :
         EndsAt(up, ShareByte(k), p) /\ EndsAt(up, ShareByte(k), q) => p = q

\* While no line was given up halfway, a line ends at each third byte.
Framed ==
  open /\ ~cut =>
    /\ \A p \in 1..Len(up) : up[p] = NL <=> p % 3 = 0
    /\ Len(up) % 3 = IF lock = "none" THEN 0 ELSE 3 - Len(left[lock])

Sent == Begun /\ SentOnce /\ Framed /\ SentIsUnderWay

\* Lines are told from each other by their bytes.
LEMMA ByteFacts ==
  ASSUME IInv
  PROVE  /\ \A k \in Share : ShareByte(k) \in Bytes \ {NL} /\ ShareByte(k) # Reply
         /\ Reply \in Bytes \ {NL} /\ NL \in Bytes
         /\ \A k, j \in Share : ShareByte(k) = ShareByte(j) => k = j
         /\ \A s \in Sender : lock = s => Byte(s) \in Bytes \ {NL}
         /\ \A s \in Sender, k \in Share :
              lock = s /\ ShareByte(k) = Byte(s) => s = "workio" /\ k = share
<1>1. /\ MaxLines \in Nat /\ MaxShares \in Nat
  BY Constants
<1>2. /\ \A k \in Share : ShareByte(k) \in Bytes \ {NL} /\ ShareByte(k) # Reply
      /\ Reply \in Bytes \ {NL} /\ NL \in Bytes
      /\ \A k, j \in Share : ShareByte(k) = ShareByte(j) => k = j
  BY <1>1 DEF Share, ShareByte, Reply, Bytes, NL
<1>3. lock = "workio" => share \in Share
  BY DEF IInv, ShareThere
<1> QED BY <1>2, <1>3 DEF Byte, Sender

LEMMA WholeLine ==
  ASSUME NEW u \in Seq(Bytes), NEW b \in Bytes
  PROVE  /\ \A i \in 1..Len(u) - 2 : SubSeq(u, i, i + 2) = Line(b) <=> StandsAt(u, b, i)
         /\ \A n \in 1..Len(u) : SubSeq(u, 1, n) = Line(b) <=> n = 3 /\ StandsAt(u, b, 1)
<1>1. Len(u) \in Nat /\ NL \in Bytes
  BY LenProperties, Constants
<1>2. /\ Line(b) \in Seq(Bytes) /\ Len(Line(b)) = 3
      /\ Line(b)[1] = b /\ Line(b)[2] = b /\ Line(b)[3] = NL
  BY <1>1 DEF Line
<1>3. ASSUME NEW i \in 1..Len(u) - 2
      PROVE  SubSeq(u, i, i + 2) = Line(b) <=> StandsAt(u, b, i)
  <2> DEFINE t == SubSeq(u, i, i + 2)
  <2>1. /\ i \in Nat \ {0} /\ i + 2 \in 0..Len(u) /\ i <= i + 2 /\ (i + 2) - i + 1 = 3
        /\ i + 1 - 1 = i /\ i + 2 - 1 = i + 1 /\ i + 3 - 1 = i + 2
    BY <1>1
  <2>6. \A j \in 1..3 : j \in 1..(i + 2) - i + 1
    BY <2>1
  <2>2. /\ t \in Seq(Bytes) /\ Len(t) = IF i <= i + 2 THEN (i + 2) - i + 1 ELSE 0
        /\ \A j \in 1..(i + 2) - i + 1 : t[j] = u[i + j - 1]
    BY <2>1, PartAt
  <2> HIDE DEF t
  <2>3. t \in Seq(Bytes) /\ Len(t) = 3 /\ t[1] = u[i] /\ t[2] = u[i + 1] /\ t[3] = u[i + 2]
    <3>1. \A j \in 1..3 : t[j] = u[i + j - 1]
      BY <2>2, <2>6
    <3>2. 1 \in 1..3 /\ 2 \in 1..3 /\ 3 \in 1..3
      OBVIOUS
    <3>3. t[1] = u[i + 1 - 1] /\ t[2] = u[i + 2 - 1] /\ t[3] = u[i + 3 - 1]
      BY <3>1, <3>2
    <3> QED BY <2>1, <2>2, <3>3
  <2>4. ASSUME StandsAt(u, b, i) PROVE t = Line(b)
    <3>1. \A j \in 1..3 : t[j] = Line(b)[j]
      BY <1>2, <2>3, <2>4 DEF StandsAt
    <3> QED BY <1>2, <2>3, <3>1, SeqEqual
  <2>5. ASSUME t = Line(b) PROVE StandsAt(u, b, i)
    BY <1>2, <2>3, <2>5 DEF StandsAt
  <2> QED BY <2>4, <2>5 DEF t
<1>4. ASSUME NEW n \in 1..Len(u)
      PROVE  SubSeq(u, 1, n) = Line(b) <=> n = 3 /\ StandsAt(u, b, 1)
  <2>1. Len(SubSeq(u, 1, n)) = n
    <3>1. n \in 0..Len(u) /\ 1 <= n /\ n - 1 + 1 = n /\ 1 \in Nat \ {0}
      BY <1>1
    <3>2. Len(SubSeq(u, 1, n)) = IF 1 <= n THEN n - 1 + 1 ELSE 0
      BY <3>1, PartAt
    <3> QED BY <3>1, <3>2
  <2>2. CASE n = 3
    <3>1. 1 \in 1..Len(u) - 2 /\ 1 + 2 = 3
      BY <1>1, <2>2
    <3>2. SubSeq(u, 1, 1 + 2) = Line(b) <=> StandsAt(u, b, 1)
      BY <1>3, <3>1
    <3> QED BY <2>2, <3>1, <3>2
  <2>3. CASE n # 3
    BY <1>2, <2>1, <2>3
  <2> QED BY <2>2, <2>3
<1> QED BY <1>3, <1>4

\* A piece is sent, or all that is left.
LEMMA PieceSent ==
  ASSUME NEW u \in Seq(Bytes), NEW l \in Seq(Bytes), NEW b \in Bytes \ {NL},
         Continues(u, l, b), NEW n \in 1..Len(l)
  PROVE  /\ \A c, i : StandsAt(u, c, i) => StandsAt(u \o SubSeq(l, 1, n), c, i)
         /\ \A c, p : EndsAt(u \o SubSeq(l, 1, n), c, p) =>
              EndsAt(u, c, p) \/ (n = Len(l) /\ c = b /\ p = Len(u \o SubSeq(l, 1, n)))
         /\ n = Len(l) => StandsAt(u \o SubSeq(l, 1, n), b, Len(u \o SubSeq(l, 1, n)) - 2)
         /\ n # Len(l) => Continues(u \o SubSeq(l, 1, n), SubSeq(l, n + 1, Len(l)), b)
                          /\ Len(SubSeq(l, n + 1, Len(l))) = Len(l) - n
         /\ u \o SubSeq(l, 1, n) \in Seq(Bytes) /\ Len(u \o SubSeq(l, 1, n)) = Len(u) + n
         /\ \A p \in 1..Len(u \o SubSeq(l, 1, n)) :
              (u \o SubSeq(l, 1, n))[p] = NL <=> (p \in 1..Len(u) /\ u[p] = NL) \/ (n = Len(l) /\ p = Len(u \o SubSeq(l, 1, n)))
<1> DEFINE v == u \o SubSeq(l, 1, n)
<1>1. /\ v \in Seq(Bytes) /\ Len(u) \in Nat /\ Len(v) = Len(u) + n
      /\ Len(l) \in 1..3 /\ l[Len(l)] = NL /\ \A i \in 1..Len(l) - 1 : l[i] = b
      /\ \A i \in 1..Len(u) : v[i] = u[i]
      /\ \A i \in 1..n : v[Len(u) + i] = l[i]
      /\ \A i \in Len(u) + Len(l) - 2..Len(u) : u[i] = b
      /\ Len(u) + Len(l) >= 3
  <2>1. Len(u) \in Nat /\ Len(l) \in Nat /\ n \in 0..Len(l) /\ 1 <= n /\ n - 1 + 1 = n
    BY LenProperties
  <2> DEFINE t == SubSeq(l, 1, n)
  <2>2. t \in Seq(Bytes) /\ Len(t) = n /\ \A i \in 1..n : t[i] = l[i]
    <3>1. /\ t \in Seq(Bytes) /\ Len(t) = IF 1 <= n THEN n - 1 + 1 ELSE 0
          /\ \A i \in 1..n - 1 + 1 : t[i] = l[1 + i - 1]
      BY <2>1, PartAt
    <3>2. \A i \in 1..n : 1 + i - 1 = i
      OBVIOUS
    <3> QED BY <2>1, <3>1, <3>2
  <2> HIDE DEF t, v
  <2>3. /\ u \o t \in Seq(Bytes) /\ Len(u \o t) = Len(u) + Len(t)
        /\ \A i \in 1..Len(u) : (u \o t)[i] = u[i]
        /\ \A i \in 1..Len(t) : (u \o t)[Len(u) + i] = t[i]
    <3> t \in Seq(Bytes)
      BY <2>2
    <3> QED BY ConcatAt
  <2>4. v = u \o t
    BY DEF t, v
  <2>5. /\ Len(l) \in 1..3 /\ l[Len(l)] = NL /\ \A i \in 1..Len(l) - 1 : l[i] = b
        /\ \A i \in Len(u) + Len(l) - 2..Len(u) : u[i] = b
        /\ Len(u) + Len(l) >= 3
    BY DEF Continues
  <2>6. v \in Seq(Bytes) /\ Len(v) = Len(u) + n /\ \A i \in 1..Len(u) : v[i] = u[i]
    BY <2>2, <2>3, <2>4
  <2>7. \A i \in 1..n : v[Len(u) + i] = l[i]
    BY <2>2, <2>3, <2>4
  <2> QED BY <2>1, <2>5, <2>6, <2>7
<1> HIDE DEF v
<1> DEFINE z == Len(u)
           m == Len(l)
<1>2. z \in Nat /\ m \in 1..3 /\ n \in 1..m /\ Len(v) = z + n /\ z + m >= 3
  BY <1>1
\* The bytes at the end of v, but for the newline, are b.
<1>3. ASSUME NEW i \in z + m - 2..z + n, i # z + m PROVE v[i] = b /\ i \in 1..Len(v)
  <2>1. CASE i <= z
    <3>1. i \in 1..z /\ i \in z + m - 2..z
      BY <1>2, <2>1
    <3> QED BY <1>1, <1>2, <3>1
  <2>2. CASE ~(i <= z)
    <3>1. i - z \in 1..n /\ i - z \in 1..m - 1 /\ z + (i - z) = i /\ i \in 1..z + n
      BY <1>2, <1>3, <2>2
    <3> QED BY <1>1, <1>2, <3>1
  <2> QED BY <2>1, <2>2
<1>4. ASSUME NEW c, NEW i, StandsAt(u, c, i) PROVE StandsAt(v, c, i)
  <2>1. i \in 1..z - 2 /\ i \in 1..z /\ i + 1 \in 1..z /\ i + 2 \in 1..z /\ i \in 1..z + n - 2
    BY <1>2, <1>4 DEF StandsAt
  <2> QED BY <1>1, <1>2, <1>4, <2>1 DEF StandsAt
<1>5. ASSUME NEW c, NEW p, EndsAt(v, c, p), ~EndsAt(u, c, p)
      PROVE  n = m /\ c = b /\ p = Len(v)
  <2>1. p \in 2..z + n /\ v[p - 1] = c /\ v[p] = NL
    BY <1>2, <1>5 DEF EndsAt
  <2>2. ~(p \in 2..z)
    <3> SUFFICES ASSUME p \in 2..z PROVE FALSE
      OBVIOUS
    <3>1. p \in 1..z /\ p - 1 \in 1..z
      BY <1>2
    <3> QED BY <1>1, <1>5, <2>1, <3>1 DEF EndsAt
  <2>3. p = z + m
    <3> SUFFICES ASSUME p # z + m PROVE FALSE
      OBVIOUS
    <3> HIDE DEF z, m
    <3>1. p \in z + m - 2..z + n
      BY <1>2, <2>1, <2>2
    <3> QED BY <1>3, <2>1, <3>1
  <2>4. n = m /\ p = Len(v) /\ p - 1 \in z + m - 2..z + n /\ p - 1 # z + m
    BY <1>2, <2>1, <2>3
  <2> QED BY <1>3, <2>1, <2>4
<1>6. ASSUME n = m PROVE StandsAt(v, b, Len(v) - 2)
  <2> DEFINE i == Len(v) - 2
  <2>1. /\ i \in 1..Len(v) - 2 /\ i \in z + m - 2..z + n /\ i + 1 \in z + m - 2..z + n
        /\ i # z + m /\ i + 1 # z + m /\ i + 2 = z + m /\ m \in 1..n
    BY <1>2, <1>6
  <2>2. v[i] = b /\ v[i + 1] = b
    BY <1>3, <2>1
  <2>3. v[z + m] = NL
    BY <1>1, <2>1
  <2> QED BY <2>1, <2>2, <2>3 DEF StandsAt
<1>7. ASSUME n # m
      PROVE  /\ Continues(v, SubSeq(l, n + 1, m), b)
             /\ Len(SubSeq(l, n + 1, m)) = m - n
  <2> DEFINE r == SubSeq(l, n + 1, m)
  <2>1. n + 1 \in Nat \ {0} /\ m \in 0..Len(l) /\ n + 1 <= m /\ m - (n + 1) + 1 = m - n
    BY <1>2, <1>7
  <2>2. /\ Len(r) = IF n + 1 <= m THEN m - (n + 1) + 1 ELSE 0
        /\ \A i \in 1..m - (n + 1) + 1 : r[i] = l[n + 1 + i - 1]
    BY <2>1, PartAt
  <2> HIDE DEF r, z, m
  <2>3. Len(r) = m - n /\ \A i \in 1..m - n : r[i] = l[n + i]
    <3>1. \A i \in 1..m - n : n + 1 + i - 1 = n + i
      BY <1>2
    <3> QED BY <2>1, <2>2, <3>1
  <2>4. Len(r) \in 1..3 /\ r[Len(r)] = NL
    <3>1. m - n \in 1..m - n /\ m - n \in 1..3 /\ n + (m - n) = m
      BY <1>2, <1>7
    <3> QED BY <1>1, <2>3, <3>1 DEF m
  <2>5. \A i \in 1..Len(r) - 1 : r[i] = b
    <3>1. \A i \in 1..m - n - 1 : i \in 1..m - n /\ n + i \in 1..m - 1
      BY <1>2
    <3> QED BY <1>1, <2>3, <3>1 DEF m
  <2>6. Len(v) + Len(r) = z + m
    BY <1>2, <2>3
  <2>7. \A i \in z + m - 2..Len(v) : v[i] = b
    BY <1>2, <1>3, <1>7
  <2> QED BY <1>2, <2>3, <2>4, <2>5, <2>6, <2>7 DEF Continues, r
<1>8. ASSUME NEW p \in 1..Len(v)
      PROVE  v[p] = NL <=> (p \in 1..z /\ u[p] = NL) \/ (n = m /\ p = Len(v))
  <2>1. CASE p \in 1..z
    <3>1. p # Len(v)
      BY <1>2, <2>1
    <3> QED BY <1>1, <2>1, <3>1
  <2>2. CASE ~(p \in 1..z)
    <3> HIDE DEF z, m
    <3>1. p \in z + m - 2..z + n
      BY <1>2, <2>2
    <3>2. p # z + m => v[p] = b
      BY <1>3, <3>1
    <3>3. p = z + m => n = m /\ p = Len(v) /\ m \in 1..n
      BY <1>2
    <3>4. p = z + m => v[p] = NL
      BY <1>1, <3>3 DEF z, m
    <3>5. n = m /\ p = Len(v) => p = z + m
      BY <1>2
    <3> QED BY <2>2, <3>2, <3>3, <3>4, <3>5
  <2> QED BY <2>1, <2>2
<1>9. v \in Seq(Bytes) /\ Len(v) = Len(u) + n
  BY <1>1
<1> QED BY <1>4, <1>5, <1>6, <1>7, <1>8, <1>9 DEF v

\* A piece behind whole lines and the pieces that belong to it.
LEMMA PieceFramed ==
  ASSUME NEW z \in Nat, NEW m \in 1..3, NEW n \in 1..m, z % 3 = 3 - m \/ (m = 3 /\ z % 3 = 0)
  PROVE  /\ \A p \in z + 1..z + n : p % 3 = 0 <=> p = z + m
         /\ n = m => (z + n) % 3 = 0
         /\ n # m => (z + n) % 3 = 3 - (m - n)
OBVIOUS

\* The pool reads up to the first newline.
LEMMA LineRead ==
  ASSUME NEW u \in Seq(Bytes), NEW n \in 1..Len(u), u[n] = NL, \A i \in 1..n - 1 : u[i] # NL
  PROVE  /\ \A c, p : EndsAt(SubSeq(u, n + 1, Len(u)), c, p) => EndsAt(u, c, p + n)
         /\ \A c \in Bytes \ {NL} : \A i : StandsAt(u, c, i) =>
              \/ i + 2 = n
              \/ i - n \in Nat /\ StandsAt(SubSeq(u, n + 1, Len(u)), c, i - n)
         /\ \A b \in Bytes \ {NL} : \A l :
              Continues(u, l, b) => Continues(SubSeq(u, n + 1, Len(u)), l, b)
         /\ SubSeq(u, n + 1, Len(u)) \in Seq(Bytes)
         /\ Len(SubSeq(u, n + 1, Len(u))) = Len(u) - n
         /\ \A i \in 1..Len(u) - n : SubSeq(u, n + 1, Len(u))[i] = u[n + i]
<1> DEFINE w == SubSeq(u, n + 1, Len(u))
           z == Len(u)
<1>1. z \in Nat /\ n \in Nat \ {0} /\ n <= z
  BY LenProperties
<1>2. w \in Seq(Bytes) /\ Len(w) = z - n /\ \A i \in 1..z - n : w[i] = u[n + i]
  <2>1. n + 1 \in Nat \ {0} /\ z \in 0..Len(u)
    BY <1>1
  <2>2. /\ w \in Seq(Bytes) /\ Len(w) = IF n + 1 <= z THEN z - (n + 1) + 1 ELSE 0
        /\ \A i \in 1..z - (n + 1) + 1 : w[i] = u[n + 1 + i - 1]
    BY <2>1, PartAt
  <2> HIDE DEF w, z
  <2>3. /\ \A i \in 1..z - n : n + 1 + i - 1 = n + i /\ i \in 1..z - (n + 1) + 1
        /\ (IF n + 1 <= z THEN z - (n + 1) + 1 ELSE 0) = z - n
    BY <1>1
  <2> QED BY <2>2, <2>3
<1> HIDE DEF w, z
<1>3. ASSUME NEW c, NEW p, EndsAt(w, c, p) PROVE EndsAt(u, c, p + n)
  <2>1. p \in 2..z - n /\ w[p - 1] = c /\ w[p] = NL
    BY <1>2, <1>3 DEF EndsAt
  <2>2. /\ p \in 1..z - n /\ p - 1 \in 1..z - n /\ n + p = p + n /\ n + (p - 1) = p + n - 1
        /\ p + n \in 2..z
    BY <1>1, <2>1
  <2> QED BY <1>2, <2>1, <2>2 DEF EndsAt, z
<1>4. ASSUME NEW c \in Bytes \ {NL}, NEW i, StandsAt(u, c, i), i + 2 # n
      PROVE  i - n \in Nat /\ StandsAt(w, c, i - n)
  <2>1. i \in 1..z - 2 /\ u[i] = c /\ u[i + 1] = c /\ u[i + 2] = NL
    BY <1>4 DEF StandsAt, z
  <2>2. n # i /\ n # i + 1
    BY <2>1
  <2>3. ~(i + 2 \in 1..n - 1)
    BY <2>1
  <2>4. n < i
    BY <1>1, <1>4, <2>1, <2>2, <2>3
  <2>5. /\ i - n \in 1..(z - n) - 2 /\ i - n \in Nat
        /\ i - n \in 1..z - n /\ i - n + 1 \in 1..z - n /\ i - n + 2 \in 1..z - n
        /\ n + (i - n) = i /\ n + (i - n + 1) = i + 1 /\ n + (i - n + 2) = i + 2
    BY <1>1, <2>1, <2>4
  <2> QED BY <1>2, <2>1, <2>5 DEF StandsAt
<1>5. ASSUME NEW l, NEW b \in Bytes \ {NL}, Continues(u, l, b)
      PROVE  Continues(w, l, b)
  <2>1. /\ Len(l) \in 1..3 /\ l[Len(l)] = NL /\ \A i \in 1..Len(l) - 1 : l[i] = b
        /\ z + Len(l) >= 3 /\ \A i \in z + Len(l) - 2..z : u[i] = b
    BY <1>5 DEF Continues, z
  <2>2. ~(n \in z + Len(l) - 2..z)
    BY <2>1
  <2>3. n <= z + Len(l) - 3
    BY <1>1, <2>1, <2>2
  <2>4. (z - n) + Len(l) >= 3
    BY <1>1, <2>1, <2>3
  <2>5. ASSUME NEW i \in (z - n) + Len(l) - 2..z - n PROVE w[i] = b
    <3>1. i \in 1..z - n /\ n + i \in z + Len(l) - 2..z
      BY <1>1, <2>1, <2>4
    <3> QED BY <1>2, <2>1, <3>1
  <2> QED BY <1>2, <2>1, <2>4, <2>5 DEF Continues
<1> QED BY <1>2, <1>3, <1>4, <1>5 DEF w, z

-----------------------------------------------------------------------------

\* SentIsUnderWay, byte by byte.
LEMMA UnderWay ==
  ASSUME NEW u \in Seq(Bytes), NEW k \in Share, ShareByte(k) \in Bytes
  PROVE  (\E i \in 1..Len(u) - 2 : SubSeq(u, i, i + 2) = Line(ShareByte(k)))
           <=> \E i : StandsAt(u, ShareByte(k), i)
<1>1. \A i \in 1..Len(u) - 2 :
        SubSeq(u, i, i + 2) = Line(ShareByte(k)) <=> StandsAt(u, ShareByte(k), i)
  BY WholeLine
<1> QED BY <1>1 DEF StandsAt

LEMMA UnderWayNow ==
  ASSUME IInv
  PROVE  /\ \A k \in Share :
              (\E i \in 1..Len(up) - 2 : SubSeq(up, i, i + 2) = Line(ShareByte(k)))
                <=> \E i : StandsAt(up, ShareByte(k), i)
         /\ \A k \in first..share - 1 : k \in Share
<1>1. up \in Seq(Bytes) /\ \A k \in Share : ShareByte(k) \in Bytes
  BY FlowTypes, ByteFacts
<1>2. first \in 1..MaxShares + 1 /\ share \in 1..MaxShares + 1 /\ MaxShares \in Nat
  BY Constants DEF IInv, OthersOK
<1>3. \A k \in first..share - 1 : k \in Share
  BY <1>2 DEF Share
<1> QED BY <1>1, <1>3, UnderWay

LEMMA UnderWayThen ==
  ASSUME IInv, IInv'
  PROVE  /\ \A k \in Share :
              (\E i \in 1..Len(up') - 2 : SubSeq(up', i, i + 2) = Line(ShareByte(k)))
                <=> \E i : StandsAt(up', ShareByte(k), i)
         /\ \A k \in first'..share' - 1 : k \in Share
<1> DEFINE u == up'
<1>1. u \in Seq(Bytes) /\ \A k \in Share : ShareByte(k) \in Bytes
  BY ByteFacts DEF IInv, OthersOK
<1> HIDE DEF u
<1>2. \A k \in Share :
        (\E i \in 1..Len(u) - 2 : SubSeq(u, i, i + 2) = Line(ShareByte(k)))
          <=> \E i : StandsAt(u, ShareByte(k), i)
  BY <1>1, UnderWay
<1> DEFINE f == first'
           g == share'
<1>3. f \in 1..MaxShares + 1 /\ g \in 1..MaxShares + 1 /\ MaxShares \in Nat
  BY Constants DEF IInv, OthersOK
<1> HIDE DEF f, g
<1>4. \A k \in f..g - 1 : k \in Share
  BY <1>3 DEF Share
<1>6. \A k \in first'..share' - 1 : k \in Share
  BY <1>4 DEF f, g
<1>5. \A k \in Share :
        (\E i \in 1..Len(up') - 2 : SubSeq(up', i, i + 2) = Line(ShareByte(k)))
          <=> \E i : StandsAt(up', ShareByte(k), i)
  BY <1>2 DEF u
<1> QED BY <1>5, <1>6

\* The steps that do not send, nor read what was sent.
LEMMA SentQuiet ==
  ASSUME Sent, UNCHANGED <<open, up, got, lock, left, share, cut, first>>
  PROVE  Sent'
<1>1. Begun'
  BY DEF Sent, Begun, Byte
<1>2. SentOnce'
  BY DEF Sent, SentOnce
<1>3. Framed'
  BY DEF Sent, Framed
<1>4. SentIsUnderWay'
  BY DEF Sent, SentIsUnderWay
<1> QED BY <1>1, <1>2, <1>3, <1>4 DEF Sent

LEMMA SentConnects ==
  ASSUME IInv, Closed, Sent, IInv', Connect \/ DisconnectFailed \/ DisconnectOther
  PROVE  Sent'
<1>1. /\ lock = "none" /\ up' = <<>> /\ UNCHANGED <<lock, left, share, got>>
      /\ ~open' \/ first' = share
  BY DEF Connect, DisconnectFailed, DisconnectOther, Disconnect, sending, Closed
<1>2. "none" \notin Sender /\ Len(<<>>) = 0
  BY EmptySeq DEF Sender
<1>3. Begun'
  BY <1>1, <1>2 DEF Begun
<1>4. SentOnce'
  <2>1. \A k \in Share : got[k] <= 1 /\ (k >= share => got[k] = 0)
    BY DEF Sent, SentOnce
  <2>2. \A p \in 2..Len(up') : FALSE
    BY <1>1, <1>2
  <2> QED BY <1>1, <2>1, <2>2 DEF SentOnce
<1>5. Framed'
  <2>1. (\A p \in 1..Len(up') : FALSE) /\ Len(up') % 3 = 0
    BY <1>1, <1>2
  <2> QED BY <1>1, <2>1 DEF Framed
<1>6. SentIsUnderWay'
  <2>1. share \in Nat
    BY Constants DEF IInv, OthersOK
  <2>2. open' => \A k \in first'..share' - 1 : FALSE
    BY <1>1, <2>1
  <2> QED BY <2>2 DEF SentIsUnderWay
<1> QED BY <1>3, <1>4, <1>5, <1>6 DEF Sent

\* A thread takes sock_lock, with a whole line to send.
LEMMA SentBegins ==
  ASSUME IInv, Sent, IInv', SendShare \/ SendReply
  PROVE  Sent'
<1>1. PICK s \in Sender :
        /\ lock = "none" /\ lock' = s /\ left' = [left EXCEPT ![s] = Line(Byte(s))]
        /\ UNCHANGED <<open, up, share, got, cut, first>>
  BY DEF SendShare, SendReply, Begin, TakesLock, Byte, Sender, history
<1>2. Line(Byte(s)) \in Seq(Bytes) /\ Len(Line(Byte(s))) = 3
      /\ Line(Byte(s))[1] = Byte(s) /\ Line(Byte(s))[2] = Byte(s) /\ Line(Byte(s))[3] = NL
  <2>1. left'[s] = Line(Byte(s)) /\ left'[s] \in Seq(Bytes)
    BY <1>1 DEF IInv, LockOK
  <2>2. Len(Line(Byte(s))) = 3 /\ Line(Byte(s))[1] = Byte(s) /\ Line(Byte(s))[2] = Byte(s)
        /\ Line(Byte(s))[3] = NL
    BY DEF Line
  <2> QED BY <2>1, <2>2
<1>3. left'[s] = Line(Byte(s)) /\ s # "none" /\ Len(up) \in Nat
  BY <1>1, FlowTypes, LenProperties DEF IInv, LockOK, Sender
<1>4. Begun'
  <2> SUFFICES Continues(up, Line(Byte(s)), Byte(s))
    BY <1>1, <1>2, <1>3 DEF Begun, Byte
  <2> DEFINE l == Line(Byte(s))
             b == Byte(s)
  <2>1. Len(l) = 3 /\ l[1] = b /\ l[2] = b /\ l[3] = NL
    BY <1>2
  <2> HIDE DEF l, b
  <2>2. /\ Len(l) \in 1..3 /\ l[Len(l)] = NL /\ Len(up) + Len(l) >= 3
        /\ \A i \in 1..Len(l) - 1 : i = 1 \/ i = 2
        /\ \A i \in Len(up) + Len(l) - 2..Len(up) : FALSE
    BY <1>3, <2>1
  <2>3. Continues(up, l, b)
    BY <2>1, <2>2 DEF Continues
  <2> QED BY <2>3 DEF l, b
<1>5. SentOnce'
  BY <1>1 DEF Sent, SentOnce
<1>6. Framed'
  <2> SUFFICES ASSUME open, ~cut
               PROVE  /\ \A p \in 1..Len(up) : up[p] = NL <=> p % 3 = 0
                      /\ Len(up) % 3 = 3 - Len(left'[s])
    BY <1>1, <1>3 DEF Framed
  <2>1. Len(up) % 3 = 0 /\ \A p \in 1..Len(up) : up[p] = NL <=> p % 3 = 0
    BY <1>1 DEF Sent, Framed
  <2>2. 3 - Len(left'[s]) = 0
    BY <1>2, <1>3
  <2> QED BY <2>1, <2>2
<1>7. SentIsUnderWay'
  BY <1>1 DEF Sent, SentIsUnderWay
<1> QED BY <1>4, <1>5, <1>6, <1>7 DEF Sent

\* A line is given up where it stands.
LEMMA SentGivesUp ==
  ASSUME IInv, Sent, IInv', NEW s \in Sender, SendFails(s)
  PROVE  Sent'
<1>1. /\ left[s] # <<>> /\ lock' = "none" /\ left' = [left EXCEPT ![s] = <<>>]
      /\ cut' = (cut \/ (open /\ Len(left[s]) < 3))
      /\ UNCHANGED <<open, up, share, got, first>>
  BY Constants DEF SendFails, GivesUp, Returns, FailureIsTold
<1>2. lock = s /\ "none" \notin Sender
  BY <1>1 DEF IInv, LockOK, Sender
<1>3. Begun'
  BY <1>1, <1>2 DEF Begun
<1>4. SentOnce'
  BY <1>1 DEF Sent, SentOnce
<1>5. Framed'
  <2> SUFFICES ASSUME open, ~cut'
               PROVE  /\ \A p \in 1..Len(up) : up[p] = NL <=> p % 3 = 0
                      /\ Len(up) % 3 = 0
    BY <1>1 DEF Framed
  <2>1. Len(left[s]) \in 1..3
    BY <1>2 DEF Sent, Begun, Continues
  <2>2. ~(cut \/ (open /\ Len(left[s]) < 3))
    BY <1>1, Zenon
  <2>3. ~cut
    BY <2>2, Zenon
  <2>4. ~(Len(left[s]) < 3)
    BY <2>2, Zenon
  <2> DEFINE m == Len(left[s])
  <2>5. m \in 1..3 /\ ~(m < 3)
    BY <2>1, <2>4
  <2> HIDE DEF m
  <2>6. 3 - m = 0
    BY <2>5
  <2>7. 3 - Len(left[s]) = 0
    BY <2>6 DEF m
  <2> QED BY <1>2, <2>3, <2>7 DEF Sent, Framed
<1>6. SentIsUnderWay'
  BY <1>1 DEF Sent, SentIsUnderWay
<1> QED BY <1>3, <1>4, <1>5, <1>6 DEF Sent

\* send takes a piece of the line, or all that is left of it.
LEMMA SentPiece ==
  ASSUME IInv, Sent, IInv', NEW s \in Sender, SendSome(s)
  PROVE  Sent'
<1> DEFINE l == left[s]
           b == Byte(s)
           rest(n) == SubSeq(l, n + 1, Len(l))
<1>1. PICK n \in 1..Len(l) :
        /\ up' = up \o SubSeq(l, 1, n)
        /\ IF n = Len(l)
           THEN Returns(s, TRUE)
           ELSE left' = [left EXCEPT ![s] = rest(n)] /\ UNCHANGED <<lock, at, share>>
  BY DEF SendSome
<1>2. /\ open /\ l # <<>> /\ UNCHANGED <<open, got, cut, first>>
  BY DEF SendSome, history
<1>3. /\ lock = s /\ "none" \notin Sender /\ l \in Seq(Bytes) /\ up \in Seq(Bytes)
      /\ b \in Bytes \ {NL} /\ Continues(up, l, b) /\ Len(l) \in 1..3 /\ Len(up) \in Nat
  <2>1. lock = s /\ "none" \notin Sender /\ l \in Seq(Bytes) /\ up \in Seq(Bytes)
    BY <1>2, FlowTypes DEF IInv, LockOK, Sender
  <2>2. Continues(up, l, b)
    BY <2>1 DEF Sent, Begun
  <2> QED BY <2>1, <2>2, ByteFacts, LenProperties DEF Continues
<1>4. /\ \A c, i : StandsAt(up, c, i) => StandsAt(up', c, i)
      /\ \A c, p : EndsAt(up', c, p) =>
           EndsAt(up, c, p) \/ (n = Len(l) /\ c = b /\ p = Len(up'))
      /\ n = Len(l) => StandsAt(up', b, Len(up') - 2)
      /\ n # Len(l) => Continues(up', rest(n), b) /\ Len(rest(n)) = Len(l) - n
      /\ up' \in Seq(Bytes) /\ Len(up') = Len(up) + n
      /\ \A p \in 1..Len(up') :
           up'[p] = NL <=> (p \in 1..Len(up) /\ up[p] = NL) \/ (n = Len(l) /\ p = Len(up'))
  <2> HIDE DEF l, b
  <2>2. /\ \A c, i : StandsAt(up, c, i) => StandsAt(up \o SubSeq(l, 1, n), c, i)
        /\ \A c, p : EndsAt(up \o SubSeq(l, 1, n), c, p) =>
             EndsAt(up, c, p) \/ (n = Len(l) /\ c = b /\ p = Len(up \o SubSeq(l, 1, n)))
        /\ n = Len(l) => StandsAt(up \o SubSeq(l, 1, n), b, Len(up \o SubSeq(l, 1, n)) - 2)
        /\ n # Len(l) => Continues(up \o SubSeq(l, 1, n), rest(n), b) /\ Len(rest(n)) = Len(l) - n
        /\ up \o SubSeq(l, 1, n) \in Seq(Bytes) /\ Len(up \o SubSeq(l, 1, n)) = Len(up) + n
        /\ \A p \in 1..Len(up \o SubSeq(l, 1, n)) :
             (up \o SubSeq(l, 1, n))[p] = NL <=> (p \in 1..Len(up) /\ up[p] = NL) \/ (n = Len(l) /\ p = Len(up \o SubSeq(l, 1, n)))
    BY <1>3, PieceSent
  <2> QED BY <1>1, <2>2
<1> HIDE DEF l, b, rest
<1>5. CASE n # Len(l)
  <2>1. left' = [left EXCEPT ![s] = rest(n)] /\ UNCHANGED <<lock, share>>
    BY <1>1, <1>5
  <2>2. left'[s] = rest(n) /\ lock' = s
    BY <1>3, <2>1 DEF IInv, LockOK
  <2>3. Begun'
    <3>1. Byte(s)' = b
      BY <2>1 DEF Byte, b
    <3> QED BY <1>2, <1>4, <1>5, <2>2, <3>1 DEF Begun
  <2>4. \A c, p : EndsAt(up', c, p) => EndsAt(up, c, p) /\ p \in 2..Len(up)
    BY <1>4, <1>5 DEF EndsAt
  <2>5. SentOnce'
    BY <1>2, <2>1, <2>4 DEF Sent, SentOnce
  <2>6. Framed'
    <3> SUFFICES ASSUME ~cut
                 PROVE  /\ \A p \in 1..Len(up') : up'[p] = NL <=> p % 3 = 0
                        /\ Len(up') % 3 = 3 - (Len(l) - n)
      BY <1>2, <1>3, <1>4, <1>5, <2>1, <2>2 DEF Framed
    <3>1. /\ \A p \in 1..Len(up) : up[p] = NL <=> p % 3 = 0
          /\ Len(up) % 3 = 3 - Len(l)
      BY <1>2, <1>3 DEF Sent, Framed, l
    <3>2. /\ \A p \in Len(up) + 1..Len(up) + n : p % 3 = 0 <=> p = Len(up) + Len(l)
          /\ (Len(up) + n) % 3 = 3 - (Len(l) - n)
      BY <1>3, <1>5, <3>1, PieceFramed
    <3>3. \A p \in 1..Len(up') :
            p \in 1..Len(up) \/ (p \in Len(up) + 1..Len(up) + n /\ p # Len(up) + Len(l)
                                 /\ p \notin 1..Len(up))
      BY <1>3, <1>4, <1>5
    <3> QED BY <1>4, <1>5, <3>1, <3>2, <3>3
  <2>7. SentIsUnderWay'
    <3>1. UNCHANGED <<open, cut, first, share, got>>
      BY <1>2, <2>1
    <3> SUFFICES ASSUME open, ~cut, NEW k \in first..share - 1
                 PROVE  got[k] = 1 \/ \E i : StandsAt(up', ShareByte(k), i)
      BY <3>1, UnderWayThen DEF SentIsUnderWay
    <3> QED BY <1>4, UnderWayNow DEF Sent, SentIsUnderWay
  <2> QED BY <2>3, <2>5, <2>6, <2>7 DEF Sent
<1>6. CASE n = Len(l)
  <2>1. /\ lock' = "none" /\ left' = [left EXCEPT ![s] = <<>>]
        /\ share' = IF s = "workio" THEN share + 1 ELSE share
    BY <1>1, <1>6 DEF Returns
  <2>2. Begun'
    BY <1>3, <2>1 DEF Begun
  <2>3. share \in Nat /\ (s = "workio" => share \in Share /\ b = ShareByte(share))
    BY <1>3, Constants DEF IInv, OthersOK, ShareThere, Byte, b
  <2>4. SentOnce'
    <3> SUFFICES ASSUME NEW k \in Share
                 PROVE  /\ got[k] <= 1
                        /\ k >= share' => got[k] = 0
                        /\ k >= share' \/ got[k] = 1 =>
                             \A p \in 2..Len(up') : ~EndsAt(up', ShareByte(k), p)
                        /\ \A p, q \in 2..Len(up') :
                             EndsAt(up', ShareByte(k), p) /\ EndsAt(up', ShareByte(k), q) => p = q
      BY <1>2 DEF SentOnce
    <3>1. /\ got[k] <= 1 /\ (k >= share => got[k] = 0)
          /\ k >= share \/ got[k] = 1 => \A p \in 2..Len(up) : ~EndsAt(up, ShareByte(k), p)
          /\ \A p, q \in 2..Len(up) :
               EndsAt(up, ShareByte(k), p) /\ EndsAt(up, ShareByte(k), q) => p = q
      BY DEF Sent, SentOnce
    <3>2. \A p : EndsAt(up', ShareByte(k), p) =>
            \/ EndsAt(up, ShareByte(k), p) /\ p \in 2..Len(up)
            \/ s = "workio" /\ k = share /\ p = Len(up')
      BY <1>3, <1>4, ByteFacts DEF EndsAt, b
    <3>3. k \in Nat /\ got[k] \in Nat
      <4>1. k \in Nat
        BY Constants DEF Share
      <4>2. got \in [Share -> Nat]
        BY DEF IInv, OthersOK
      <4> QED BY <4>1, <4>2
    <3>4. CASE s = "workio" /\ k = share
      <4>1. ~(k >= share') /\ got[k] = 0
        BY <2>1, <2>3, <3>1, <3>3, <3>4
      <4>2. \A p \in 2..Len(up) : ~EndsAt(up, ShareByte(k), p)
        BY <2>3, <3>1, <3>4
      <4>3. \A p \in 2..Len(up') : EndsAt(up', ShareByte(k), p) => p = Len(up')
        BY <3>2, <4>2
      <4> QED BY <4>1, <4>3
    <3>5. CASE ~(s = "workio" /\ k = share)
      <4>1. k >= share' => k >= share
        BY <2>1, <2>3, <3>3
      <4>2. \A p : EndsAt(up', ShareByte(k), p) => EndsAt(up, ShareByte(k), p) /\ p \in 2..Len(up)
        BY <3>2, <3>5
      <4> QED BY <3>1, <4>1, <4>2
    <3> QED BY <3>4, <3>5
  <2>5. Framed'
    <3> SUFFICES ASSUME ~cut
                 PROVE  /\ \A p \in 1..Len(up') : up'[p] = NL <=> p % 3 = 0
                        /\ Len(up') % 3 = 0
      BY <1>2, <2>1 DEF Framed
    <3>1. /\ \A p \in 1..Len(up) : up[p] = NL <=> p % 3 = 0
          /\ Len(up) % 3 = 3 - Len(l)
      BY <1>2, <1>3 DEF Sent, Framed, l
    <3>2. /\ \A p \in Len(up) + 1..Len(up) + n : p % 3 = 0 <=> p = Len(up) + Len(l)
          /\ (Len(up) + n) % 3 = 0
      BY <1>3, <1>6, <3>1, PieceFramed
    <3>3. \A p \in 1..Len(up') :
            \/ p \in 1..Len(up) /\ p # Len(up')
            \/ p \in Len(up) + 1..Len(up) + n /\ p \notin 1..Len(up)
      BY <1>3, <1>4, <1>6
    <3>4. Len(up') = Len(up) + Len(l)
      BY <1>4, <1>6
    <3> QED BY <1>4, <1>6, <3>1, <3>2, <3>3, <3>4
  <2>6. SentIsUnderWay'
    <3> SUFFICES ASSUME ~cut, NEW k \in first..share' - 1
                 PROVE  got[k] = 1 \/ \E i : StandsAt(up', ShareByte(k), i)
      BY <1>2, UnderWayThen DEF SentIsUnderWay
    <3>1. k \in first..share - 1 \/ (s = "workio" /\ k = share)
      <4>1. first \in Nat
        BY Constants DEF IInv, OthersOK
      <4> QED BY <2>1, <2>3, <4>1
    <3>2. CASE k \in first..share - 1
      BY <1>2, <1>4, <3>2, UnderWayNow DEF Sent, SentIsUnderWay
    <3>3. CASE s = "workio" /\ k = share
      BY <1>4, <1>6, <2>3, <3>3
    <3> QED BY <3>1, <3>2, <3>3
  <2> QED BY <2>2, <2>4, <2>5, <2>6 DEF Sent
<1> QED BY <1>5, <1>6

\* The pool reads a line, or what it takes for one.
LEMMA SentReads ==
  ASSUME IInv, Sent, IInv', PoolReads
  PROVE  Sent'
<1> DEFINE z == Len(up)
<1>1. /\ up \in Seq(Bytes) /\ z \in Nat /\ DOMAIN up = 1..z
      /\ got \in [Share -> Nat]
  BY FlowTypes, LenProperties DEF IInv, OthersOK
<1>2. PICK n \in 1..Len(up) :
        /\ up[n] = NL /\ \A i \in 1..n - 1 : up[i] # NL
        /\ up' = SubSeq(up, n + 1, Len(up))
        /\ got' = [k \in Share |-> IF SubSeq(up, 1, n) = Line(ShareByte(k))
                                   THEN got[k] + 1 ELSE got[k]]
  BY <1>1 DEF PoolReads
<1>3. open /\ UNCHANGED <<open, lock, left, share, cut, first>>
  BY DEF PoolReads, sending, history
<1> DEFINE w == SubSeq(up, n + 1, Len(up))
<1>4. /\ \A c, p : EndsAt(w, c, p) => EndsAt(up, c, p + n)
      /\ \A c \in Bytes \ {NL} : \A i : StandsAt(up, c, i) =>
           i + 2 = n \/ (i - n \in Nat /\ StandsAt(w, c, i - n))
      /\ \A b \in Bytes \ {NL} : \A l : Continues(up, l, b) => Continues(w, l, b)
      /\ Len(w) = z - n
      /\ \A i \in 1..z - n : w[i] = up[n + i]
  BY <1>1, <1>2, LineRead
<1>5. up' = w /\ n \in 1..z
  BY <1>2
<1> HIDE DEF w
\* A share is counted if its line is the first.
<1>6. \A k \in Share :
        got'[k] = IF n = 3 /\ StandsAt(up, ShareByte(k), 1) THEN got[k] + 1 ELSE got[k]
  <2>1. \A k \in Share :
          SubSeq(up, 1, n) = Line(ShareByte(k)) <=> n = 3 /\ StandsAt(up, ShareByte(k), 1)
    BY <1>1, WholeLine, ByteFacts
  <2> QED BY <1>2, <2>1
<1>7. ASSUME NEW k \in Share, n = 3, StandsAt(up, ShareByte(k), 1)
      PROVE  EndsAt(up, ShareByte(k), 3) /\ got[k] = 0
  <2>1. EndsAt(up, ShareByte(k), 3) /\ 3 \in 2..Len(up)
    BY <1>1, <1>7 DEF StandsAt, EndsAt
  <2>2. got[k] # 1 /\ got[k] <= 1 /\ got[k] \in Nat
    BY <1>1, <2>1 DEF Sent, SentOnce
  <2> QED BY <2>1, <2>2
<1>8. Begun'
  <2> SUFFICES ASSUME NEW s \in Sender, lock = s PROVE Continues(w, left[s], Byte(s))
    BY <1>3, <1>5 DEF Begun, Byte
  <2> QED BY <1>4, ByteFacts DEF Sent, Begun
<1>9. SentOnce'
  <2> SUFFICES ASSUME NEW k \in Share
               PROVE  /\ got'[k] <= 1
                      /\ k >= share => got'[k] = 0
                      /\ k >= share \/ got'[k] = 1 =>
                           \A p \in 2..Len(w) : ~EndsAt(w, ShareByte(k), p)
                      /\ \A p, q \in 2..Len(w) :
                           EndsAt(w, ShareByte(k), p) /\ EndsAt(w, ShareByte(k), q) => p = q
    BY <1>3, <1>5 DEF SentOnce
  <2>1. /\ got[k] <= 1 /\ (k >= share => got[k] = 0)
        /\ k >= share \/ got[k] = 1 => \A p \in 2..Len(up) : ~EndsAt(up, ShareByte(k), p)
        /\ \A p, q \in 2..Len(up) :
             EndsAt(up, ShareByte(k), p) /\ EndsAt(up, ShareByte(k), q) => p = q
    BY DEF Sent, SentOnce
  <2>2. \A p \in 2..Len(w) : EndsAt(w, ShareByte(k), p) =>
          EndsAt(up, ShareByte(k), p + n) /\ p + n \in 2..Len(up)
    BY <1>4 DEF EndsAt
  <2>3. \A p, q \in 2..Len(w) : p + n = q + n => p = q
    BY <1>1, <1>5
  <2>4. \A p \in 2..Len(w) : p + n # 3 \/ n # 3
    BY <1>1, <1>5
  <2>5. \A p, q \in 2..Len(w) :
          EndsAt(w, ShareByte(k), p) /\ EndsAt(w, ShareByte(k), q) => p = q
    BY <2>1, <2>2, <2>3
  <2>6. CASE n = 3 /\ StandsAt(up, ShareByte(k), 1)
    <3>1. EndsAt(up, ShareByte(k), 3) /\ got[k] = 0 /\ 3 \in 2..Len(up)
      BY <1>7, <2>6 DEF EndsAt
    <3>2. got'[k] = 1 /\ ~(k >= share)
      BY <1>6, <2>1, <2>6, <3>1
    <3>3. \A p \in 2..Len(w) : ~EndsAt(w, ShareByte(k), p)
      BY <2>1, <2>2, <2>4, <2>6, <3>1
    <3> QED BY <2>5, <3>2, <3>3
  <2>7. CASE ~(n = 3 /\ StandsAt(up, ShareByte(k), 1))
    <3>1. got'[k] = got[k]
      BY <1>6, <2>7
    <3> QED BY <2>1, <2>2, <2>5, <3>1
  <2> QED BY <2>6, <2>7
\* While no line was given up, the first newline is the third byte.
<1>10. ASSUME ~cut PROVE n = 3
  <2>1. n % 3 = 0 /\ (3 \in 1..z => up[3] = NL)
    BY <1>2, <1>3, <1>10 DEF Sent, Framed
  <2>2. 3 \notin 1..n - 1
    <3>1. 3 \in 1..n - 1 => up[3] # NL /\ 3 \in 1..z
      BY <1>1, <1>2, <1>5
    <3> QED BY <2>1, <3>1
  <2> QED BY <1>1, <1>5, <2>1, <2>2
<1>11. Framed'
  <2> SUFFICES ASSUME ~cut
               PROVE  /\ \A p \in 1..Len(w) : w[p] = NL <=> p % 3 = 0
                      /\ Len(w) % 3 = IF lock = "none" THEN 0 ELSE 3 - Len(left[lock])
    BY <1>3, <1>5 DEF Framed
  <2>1. /\ \A p \in 1..z : up[p] = NL <=> p % 3 = 0
        /\ z % 3 = IF lock = "none" THEN 0 ELSE 3 - Len(left[lock])
    BY <1>3 DEF Sent, Framed
  <2>2. n = 3 /\ Len(w) = z - 3 /\ \A p \in 1..z - 3 : w[p] = up[3 + p]
    BY <1>4, <1>10
  <2>3. \A p \in 1..z - 3 : 3 + p \in 1..z /\ ((3 + p) % 3 = 0 <=> p % 3 = 0)
    BY <1>1
  <2>4. (z - 3) % 3 = z % 3
    BY <1>1
  <2> QED BY <2>1, <2>2, <2>3, <2>4
<1>12. SentIsUnderWay'
  <2> SUFFICES ASSUME ~cut, NEW k \in first..share - 1
               PROVE  got'[k] = 1 \/ \E i : StandsAt(w, ShareByte(k), i)
    BY <1>3, <1>5, UnderWayThen DEF SentIsUnderWay
  <2>1. k \in Share /\ (got[k] = 1 \/ \E i : StandsAt(up, ShareByte(k), i))
    BY <1>3, UnderWayNow DEF Sent, SentIsUnderWay
  <2>2. CASE n = 3 /\ StandsAt(up, ShareByte(k), 1)
    BY <1>6, <1>7, <2>1, <2>2
  <2>3. CASE got[k] = 1
    BY <1>6, <1>7, <2>1, <2>2, <2>3
  <2>4. CASE \E i : StandsAt(up, ShareByte(k), i)
    <3>1. PICK i : StandsAt(up, ShareByte(k), i)
      BY <2>4
    <3>2. i + 2 = n \/ StandsAt(w, ShareByte(k), i - n)
      BY <1>4, <2>1, <3>1, ByteFacts
    <3>3. i + 2 = n => i = 1
      BY <1>10, <3>1 DEF StandsAt
    <3>4. i + 2 = n => n = 3 /\ StandsAt(up, ShareByte(k), 1)
      BY <1>10, <3>1, <3>3
    <3> QED BY <2>2, <3>2, <3>4
  <2> QED BY <2>1, <2>3, <2>4
<1> QED BY <1>8, <1>9, <1>11, <1>12 DEF Sent

LEMMA SentStep == IInv /\ Closed /\ Sent /\ [Next]_vars /\ IInv' => Sent'
<1> SUFFICES ASSUME IInv, Closed, Sent, [Next]_vars, IInv' PROVE Sent'
  OBVIOUS
<1>1. CASE Receive \/ RecvChunk \/ RecvFails \/ PoolSends \/ UNCHANGED vars
  <2>1. UNCHANGED <<open, up, got, lock, left, share, cut, first>>
    BY <1>1 DEF Receive, RecvChunk, RecvFails, ReturnNull, PoolSends, vars, sending, history
  <2> QED BY <2>1, SentQuiet
<1>2. CASE TakeLine
  <2>1. UNCHANGED <<open, up, got, lock, left, share, cut, first>>
    BY <1>2 DEF TakeLine, ReturnNull, sending, history
  <2> QED BY <2>1, SentQuiet
<1>3. CASE Connect \/ DisconnectFailed \/ DisconnectOther
  BY <1>3, SentConnects
<1>4. CASE SendReply \/ SendShare
  BY <1>4, SentBegins
<1>5. ASSUME NEW s \in Sender, Sends(s) PROVE Sent'
  BY <1>5, SentPiece, SentGivesUp DEF Sends
<1>6. CASE PoolReads
  BY <1>6, SentReads
<1> QED BY <1>1, <1>2, <1>3, <1>4, <1>5, <1>6 DEF Next, StratumThread

LEMMA SentInit == Init => Sent
<1> SUFFICES ASSUME Init PROVE Sent
  OBVIOUS
<1>1. /\ lock = "none" /\ ~open /\ up = <<>> /\ "none" \notin Sender
      /\ \A k \in Share : got[k] = 0
      /\ \A p \in 2..Len(up) : FALSE
  BY EmptySeq DEF Init, Sender
<1> QED BY <1>1 DEF Sent, Begun, SentOnce, Framed, SentIsUnderWay

\* What the miner sends arrives line after line: the pieces of a line follow
\* each other, and the newline of a share's line is sent once (Sent).
THEOREM SentInvariant == Spec => []Sent
<1>1. Init => IInv /\ Flow /\ Sent
  BY InvariantInit, FlowInit, SentInit
<1>2. IInv /\ Flow /\ Sent /\ [Next]_vars => (IInv /\ Flow /\ Sent)'
  BY InvariantStep, FlowStep, SentStep DEF Flow
<1> QED BY <1>1, <1>2, PTL DEF Spec

\* workio sends a share again until stratum_send_line succeeds, and the pool
\* still reads it once at most, over all connections (ReadOnce).
THEOREM ShareIsReadOnce == Spec => []ReadOnce
<1>1. Sent => ReadOnce
  BY DEF Sent, SentOnce, ReadOnce
<1> QED BY <1>1, SentInvariant, PTL

\* A share for which stratum_send_line has returned true has reached the pool or
\* is whole on its way, on a connection where no line was given up halfway.
THEOREM SharesAreUnderWay == Spec => []SentIsUnderWay
<1>1. Sent => SentIsUnderWay
  BY DEF Sent
<1> QED BY <1>1, SentInvariant, PTL
=============================================================================
