----------------------------- MODULE StratumLine -----------------------------
(***************************************************************************)
(* Lines on the connection to a stratum pool (stratum_recv_line and        *)
(* stratum_send_line in util.c, and what their callers do with a failure). *)
(*                                                                         *)
(* The stratum thread collects what recv returns in sockbuf and cuts lines *)
(* from it; what the handler of a line answers, and the shares of workio,  *)
(* go out under sock_lock, as much at a time as the socket takes.  A line  *)
(* that cannot be sent at once is given up where it stands.                *)
(*                                                                         *)
(* Abstractions.  A line of the pool has its number for each of its bytes, *)
(* one of the miner two bytes: a line is told from a piece of it, or from  *)
(* pieces of two.  Bytes in flight may be late: a wait may end in vain     *)
(* although there are some.  The pool sends no NUL.                        *)
(***************************************************************************)
EXTENDS Integers, Sequences

CONSTANTS
  RBufSize,   \* RBUFSIZE
  RecvSize,   \* RECVSIZE
  MaxLen,     \* bound: bytes of a line of the pool
  MaxLines,   \* bound: lines it sends on a connection
  MaxShares,  \* bound: shares found
  MaxReplies, \* bound: lines the handlers answer with
  MaxConn,    \* bound: connections
  MaxFail     \* bound: waits and sends that fail, lines that are slow

ASSUME SizeAssumption == RecvSize \in Nat \ {0} /\ RBufSize \in Nat /\ RecvSize < RBufSize
ASSUME BoundsAssumption == {MaxLen, MaxLines, MaxShares, MaxReplies, MaxConn, MaxFail} \subseteq Nat

NL == 0
Reply == MaxLines + MaxShares + 1  \* the byte of a handler's answer

VARIABLES
  open,     \* sctx->curl # NULL
  at,       \* the stratum thread: "idle", in stratum_recv_line at "recv" or
            \* "take", in a handler at "reply", or with NULL returned, "failed"
  extra,    \* stratum_extranonce_subscribe, which lives with NULL, is not over
  sockbuf, size,   \* sctx->sockbuf and sockbuf_size
  down,     \* bytes on their way from the pool
  put,      \* history: the lengths of the lines the pool has sent on this connection
  taken,    \* history: the lines stratum_recv_line has returned
  odd,      \* history: an empty line was sent, or one was slow, on this connection
  lock,     \* sctx->sock_lock: who holds it
  left,     \* what each thread in send_line has still to send
  share,    \* the share workio sends, or has to find
  up,       \* bytes on their way to the pool, and in its buffer
  cut,      \* history: a line was given up halfway on this connection
  got,      \* history: how often the pool has read each share
  first,    \* history: the first share sent on this connection
  used      \* what the bounds have used up

receiving == <<at, extra, sockbuf, size, taken>>
sending == <<lock, left, share>>
history == <<put, odd, cut, first>>
vars == <<open, receiving, down, sending, up, got, history, used>>

Share == 1..MaxShares
Sender == {"stratum", "workio"}
Bytes == 0..Reply
Body(b, n) == [i \in 1..n |-> b]

\* What a thread sends; shares are numbered after the pool's lines.
Line(b) == <<b, b, NL>>
ShareByte(k) == MaxLines + k

TypeOK ==
  /\ open \in BOOLEAN
  /\ at \in {"idle", "recv", "take", "reply", "failed"} /\ extra \in BOOLEAN
  /\ {sockbuf, down, up} \subseteq Seq(Bytes) /\ size \in Nat
  /\ put \in Seq(0..MaxLen) /\ taken \in Seq(Seq(Bytes))
  /\ {odd, cut} \subseteq BOOLEAN
  /\ lock \in Sender \cup {"none"} /\ left \in [Sender -> Seq(Bytes)]
  /\ \A s \in Sender : left[s] # <<>> <=> lock = s
  /\ {share, first} \subseteq 1..MaxShares + 1 /\ got \in [Share -> Nat]
  /\ used \in [conn : 0..MaxConn, replies : 0..MaxReplies, fail : 0..MaxFail]

Init ==
  /\ open = FALSE /\ at = "idle" /\ extra = TRUE
  /\ sockbuf = <<>> /\ size = RBufSize /\ down = <<>> /\ put = <<>> /\ taken = <<>>
  /\ odd = FALSE
  /\ lock = "none" /\ left = [s \in Sender |-> <<>>] /\ share = 1 /\ first = 1
  /\ up = <<>> /\ cut = FALSE /\ got = [k \in Share |-> 0]
  /\ used = [conn |-> 0, replies |-> 0, fail |-> 0]

Use(bound, max) == used[bound] < max /\ used' = [used EXCEPT ![bound] = @ + 1]

HasLine(bytes) == \E i \in DOMAIN bytes : bytes[i] = NL

-----------------------------------------------------------------------------
(***************************************************************************)
(* The connection                                                          *)
(***************************************************************************)

\* A fault for the checks: what is left of the last connection stays.
Kept == sockbuf

EmptyBuffer == <<>>

\* stratum_connect; a new connection, so far with nothing on its way.
Connect ==
  /\ ~open /\ at = "idle" /\ lock = "none"
  /\ Use("conn", MaxConn)
  /\ open' = TRUE /\ extra' = TRUE
  /\ sockbuf' = EmptyBuffer /\ put' = <<>> /\ taken' = <<>> /\ odd' = FALSE
  /\ cut' = FALSE /\ first' = share
  /\ UNCHANGED <<at, size, down, sending, up, got>>

\* stratum_disconnect; what is on its way is lost.
Disconnect ==
  /\ open /\ lock = "none"
  /\ open' = FALSE /\ at' = "idle"
  /\ sockbuf' = EmptyBuffer /\ down' = <<>> /\ up' = <<>>
  /\ UNCHANGED <<extra, size, taken, sending, got, history>>

\* It is called when stratum_recv_line has failed, and otherwise after a
\* timeout or by client.reconnect.
DisconnectFailed == at = "failed" /\ Disconnect /\ UNCHANGED used
DisconnectOther == at \in {"idle", "reply"} /\ Disconnect /\ Use("fail", MaxFail)

(***************************************************************************)
(* Receiving, on the stratum thread                                        *)
(***************************************************************************)

\* A fault for the checks: the buffer is not looked at.
DataArrived == down # <<>>

\* stratum_socket_full
SocketFull == sockbuf # <<>> \/ down # <<>>

\* A call of stratum_recv_line in the main loop.  stratum_subscribe and the wait for
\* the answer to mining.extranonce.subscribe ask socket_full alone, which does not
\* see a line in the buffer: they may give up waiting, which is no step here, or the
\* connection with it, which is a Disconnect.
Receive ==
  /\ open /\ at = "idle" /\ SocketFull
  /\ at' = IF HasLine(sockbuf) THEN "take" ELSE "recv"
  /\ UNCHANGED <<open, extra, sockbuf, size, taken, down, sending, up, got, history, used>>

\* A fault for the checks: a buffer that is just filled does not grow.
GrownLate(n) == IF n > size THEN n + (RBufSize - (n % RBufSize)) ELSE size

\* stratum_buffer_append, n bytes with the NUL.
Grown(n) == IF n >= size THEN n + (RBufSize - (n % RBufSize)) ELSE size

\* A chunk is received.  The loop goes on while there is no newline and the
\* minute is not over.
RecvChunk ==
  /\ at = "recv"
  /\ \E n \in 1..RecvSize, slow \in BOOLEAN :
       /\ n <= Len(down)
       /\ sockbuf' = sockbuf \o SubSeq(down, 1, n)
       /\ down' = SubSeq(down, n + 1, Len(down))
       /\ size' = Grown(Len(sockbuf) + n + 1)
       /\ at' = IF HasLine(sockbuf') \/ slow THEN "take" ELSE "recv"
       /\ IF slow /\ ~HasLine(sockbuf')
          THEN Use("fail", MaxFail) /\ odd' = TRUE
          ELSE UNCHANGED <<used, odd>>
  /\ UNCHANGED <<open, extra, taken, sending, up, got, put, cut, first>>

\* NULL is returned: to stratum_extranonce_subscribe, or to a caller that
\* disconnects.
ReturnNull ==
  /\ \/ at' = "failed" /\ UNCHANGED extra
     \/ at' = "idle" /\ extra /\ extra' = FALSE
  /\ UNCHANGED <<open, size, taken, down, sending, up, got, history>>

\* Nothing comes in time, the pool has closed the connection, or an error.
RecvFails ==
  /\ at = "recv"
  /\ Use("fail", MaxFail)
  /\ UNCHANGED sockbuf
  /\ ReturnNull

\* What strtok finds: it skips newlines, and cuts off what stands before the
\* next one or the end.
Token(skip, len) ==
  /\ \A i \in 1..skip : sockbuf[i] = NL
  /\ \A i \in 1..len : sockbuf[skip + i] # NL
  /\ skip + len < Len(sockbuf) => len > 0 /\ sockbuf[skip + len + 1] = NL

\* A fault for the checks: the newline stays.
RestWithNewline(skip, len) == SubSeq(sockbuf, len + 1, Len(sockbuf))

\* memmove from len + 1 on.  Behind skipped newlines that is too early: what is
\* left ends at the NUL strtok has set behind the token.
Rest(skip, len) ==
  SubSeq(sockbuf, len + 2, IF skip = 0 THEN Len(sockbuf) ELSE skip + len)

\* The end of stratum_recv_line; the handler of the line may answer.
TakeLine ==
  /\ at = "take"
  /\ \E skip \in 0..Len(sockbuf) : \E len \in 0..Len(sockbuf) - skip :
       /\ Token(skip, len)
       /\ IF len = 0
          THEN UNCHANGED <<sockbuf, used>> /\ ReturnNull
          ELSE /\ taken' = Append(taken, SubSeq(sockbuf, skip + 1, skip + len))
               /\ sockbuf' = Rest(skip, len)
               /\ \/ at' = "reply" /\ Use("replies", MaxReplies)
                  \/ at' = "idle" /\ UNCHANGED used
               /\ UNCHANGED <<open, extra, size, down, sending, up, got, history>>

-----------------------------------------------------------------------------
(***************************************************************************)
(* Sending: stratum_send_line, by workio and by handlers.                  *)
(***************************************************************************)

\* A fault for the checks: sock_lock is not taken.
NoLock(s) == lock' = s

TakesLock(s) == lock = "none" /\ lock' = s

Begin(s, b) ==
  /\ left[s] = <<>>
  /\ TakesLock(s)
  /\ left' = [left EXCEPT ![s] = Line(b)]
  /\ UNCHANGED <<open, receiving, down, share, up, got, history, used>>

SendShare == share <= MaxShares /\ Begin("workio", ShareByte(share))
SendReply == at = "reply" /\ Begin("stratum", Reply)

\* The caller goes on: a share that was not sent is sent again.
Returns(s, ok) ==
  /\ lock' = "none" /\ left' = [left EXCEPT ![s] = <<>>]
  /\ at' = IF s = "stratum" THEN "idle" ELSE at
  /\ share' = IF s = "workio" /\ ok THEN share + 1 ELSE share

\* send takes some bytes; with the last one send_line returns true.
SendSome(s) ==
  /\ left[s] # <<>> /\ open
  /\ \E n \in 1..Len(left[s]) :
       /\ up' = up \o SubSeq(left[s], 1, n)
       /\ IF n = Len(left[s])
          THEN Returns(s, TRUE)
          ELSE /\ left' = [left EXCEPT ![s] = SubSeq(@, n + 1, Len(@))]
               /\ UNCHANGED <<lock, at, share>>
  /\ UNCHANGED <<open, extra, sockbuf, size, taken, down, got, history, used>>

\* A fault for the checks: the socket is looked at once more at the end.
FailsAtEnd(s) == up' = up \o left[s]

\* select or send fails with bytes left; those sent before are on their way.
GivesUp(s) == UNCHANGED up

\* A fault for the checks: an error of send is not told from success.
FailureIsLost == TRUE

FailureIsTold == FALSE

\* The socket takes no more at this moment, or it is closed.
SendFails(s) ==
  /\ left[s] # <<>>
  /\ GivesUp(s)
  /\ IF open THEN Use("fail", MaxFail) ELSE UNCHANGED used
  /\ cut' = (cut \/ (open /\ Len(left[s]) < Len(Line(0))))
  /\ Returns(s, FailureIsTold)
  /\ UNCHANGED <<open, extra, sockbuf, size, taken, down, got, put, odd, first>>

-----------------------------------------------------------------------------
(***************************************************************************)
(* The pool                                                                *)
(***************************************************************************)
PoolSends ==
  /\ open /\ Len(put) < MaxLines
  /\ \E n \in 0..MaxLen :
       /\ down' = down \o Body(Len(put) + 1, n) \o <<NL>>
       /\ put' = Append(put, n)
       /\ odd' = (odd \/ n = 0)
  /\ UNCHANGED <<open, receiving, sending, up, got, cut, first, used>>

\* It reads a line.
PoolReads ==
  /\ open /\ HasLine(up)
  /\ \E n \in DOMAIN up :
       /\ up[n] = NL /\ \A i \in 1..n - 1 : up[i] # NL
       /\ up' = SubSeq(up, n + 1, Len(up))
       /\ got' = [k \in Share |-> IF SubSeq(up, 1, n) = Line(ShareByte(k))
                                  THEN got[k] + 1 ELSE got[k]]
  /\ UNCHANGED <<open, receiving, down, sending, history, used>>

-----------------------------------------------------------------------------

StratumThread == Connect \/ DisconnectFailed \/ DisconnectOther \/ Receive \/ RecvChunk \/ RecvFails \/ TakeLine
                 \/ SendReply
Sends(s) == SendSome(s) \/ SendFails(s)
Next == StratumThread \/ SendShare \/ (\E s \in Sender : Sends(s)) \/ PoolSends \/ PoolReads

\* The threads run, the pool reads, and the bytes arrive.
Fairness == WF_vars(Connect \/ DisconnectFailed) /\ WF_vars(Receive \/ RecvChunk \/ TakeLine \/ SendReply)
            /\ (\A s \in Sender : WF_vars(Sends(s))) /\ WF_vars(PoolReads)
Spec == Init /\ [][Next]_vars /\ Fairness

-----------------------------------------------------------------------------

\* The lines that are returned are those the pool sent, whole and in order,
\* however recv cuts them and whatever NULLs came between.
LinesAreWhole ==
  ~odd => /\ Len(taken) <= Len(put)
          /\ \A i \in DOMAIN taken : taken[i] = Body(i, put[i])

\* "failed to parse a newline-terminated string" is the fault of a pool that
\* sends an empty line or sends one for longer than a minute.
TokenIsThere == at = "take" /\ ~odd => sockbuf[1] # NL /\ HasLine(sockbuf)

\* memmove copies one byte too many, beyond the NUL: it is inside the buffer.
CopyInBounds == Len(sockbuf) + 1 < size

\* A share that is sent again after a failure is read once only, over any
\* number of connections: what was given up had no newline.
ReadOnce == \A k \in Share : got[k] <= 1

\* A share that workio takes for sent on this connection has been read or is
\* on its way as a whole, not mixed with the line of the other thread, unless it
\* follows a line that was given up.
SentIsUnderWay ==
  open /\ ~cut =>
    \A k \in first..share - 1 :
      got[k] = 1 \/ \E i \in 1..Len(up) - 2 : SubSeq(up, i, i + 2) = Line(ShareByte(k))

\* Every line of the pool is returned while the connection lasts, also when
\* several came at once and no more data follow.
LineArrives ==
  \A n \in 1..MaxLines :
    open /\ Len(put) >= n ~> Len(taken) >= n \/ odd \/ ~open
=============================================================================
