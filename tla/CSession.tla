------------------------------ MODULE CSession ------------------------------
(***************************************************************************)
(* CSession (asio/CSession.h, asio/CSession.cpp): one connection of the    *)
(* echo server.  It cuts the byte stream of its peer into messages and     *)
(* sends each of them back.  main runs one io_context in one thread, so a  *)
(* handler runs to its end before the next one starts; the loop of         *)
(* HandleRead is modelled one round per step, and no other handler starts  *)
(* while handling names a session.  ioc tells how the io_context is:        *)
(* "running", "thrown" when an exception left a handler, so that run()     *)
(* and with it the program ended, "undefined" once a handler has written   *)
(* outside a buffer; the model stops there and claims nothing beyond.      *)
(*                                                                         *)
(* The sockets are external: an asynchronous read completes with any       *)
(* nonempty prefix of the bytes that have arrived, of at most MAX_LENGTH   *)
(* bytes, or fails; an asynchronous write completes as a whole or fails;   *)
(* close() makes the operations that have not completed fail.              *)
(***************************************************************************)
EXTENDS Integers, Sequences

CONSTANTS
  Sessions,      \* the CSession objects the server ever creates
  MAX_LENGTH,    \* size of a session's receive buffer, and the longest body
  MAX_SENDQUE,   \* the limit Send compares the queue with
  Scripts,       \* what each session's peer may send: sets of sequences of bytes
  NoSession

HEAD_LENGTH == 2

ASSUME LengthAssumption ==
  /\ MAX_LENGTH \in Nat \ {0} /\ MAX_LENGTH + HEAD_LENGTH < 32768   \* MsgNode's shorts
  /\ MAX_SENDQUE \in Nat
  /\ NoSession \notin Sessions

VARIABLES
  _sessions,         \* CServer's map: the sessions in it
  handling,          \* the session whose HandleRead is in its loop, or NoSession
  _b_close,          \* Close() was called: the socket is closed
  stream,            \* external: bytes that the peer sent and nobody has read
  reading,           \* the asynchronous read: "none", "pending", "done" or "failed"
  _data,             \* _data[copy_len ..]: received bytes not yet looked at
  _b_head_parse,     \* the header of the current message is complete
  _recv_head_node,   \* the bytes of the header received so far
  _recv_msg_node,    \* the body being received: its length and its bytes so far
  _send_que,         \* the framed messages to send, the first one being sent
  writing,           \* the buffers given to async_write that have not completed
  written,           \* the completed write: "none", "done" or "failed"
  ioc,               \* how the io_context is: "running", "thrown" or "undefined"
  script,            \* history: the bytes the peer sends
  parsed,            \* history: the bodies handed to Send
  accepted,          \* history: the framed messages Send put in the queue
  echoed             \* history: the framed messages that reached the peer

recvVars    == <<_data, _b_head_parse, _recv_head_node, _recv_msg_node>>
sendVars    == <<_send_que, writing, accepted>>
sessionVars == <<_sessions, handling, _b_close, stream, reading, recvVars, sendVars,
                 written, script, parsed, echoed>>

NoMsg == [total |-> 0, data |-> << >>]

(***************************************************************************)
(* MsgNode(msg, max_len): the body behind a header of two bytes that hold  *)
(* its length in network order.  DataLen is HandleRead's data_len: the     *)
(* header read into a signed short, negative from 16#8000# on.  LessSize   *)
(* is `<` of a size_t and a signed number: a negative one counts as huge.  *)
(***************************************************************************)
Header(n)     == <<(n \div 256) % 256, n % 256>>
Frame(body)   == Header(Len(body)) \o body
DataLen(head) == LET n == head[1] * 256 + head[2] IN IF n < 32768 THEN n ELSE n - 65536

LessSize(size, n) == n < 0 \/ size < n

First(seq, n)   == SubSeq(seq, 1, n)
Without(seq, n) == SubSeq(seq, n + 1, Len(seq))

-----------------------------------------------------------------------------
(* external: the sockets *)

ReadCompletes(s) ==
  /\ reading[s] = "pending"
  /\ ~_b_close[s]
  /\ \E n \in 1..MAX_LENGTH :
       /\ n <= Len(stream[s])
       /\ _data' = [_data EXCEPT ![s] = First(stream[s], n)]
       /\ stream' = [stream EXCEPT ![s] = Without(@, n)]
  /\ reading' = [reading EXCEPT ![s] = "done"]
  /\ UNCHANGED <<_sessions, handling, _b_close, _b_head_parse, _recv_head_node, _recv_msg_node,
                 sendVars, written, script, parsed, echoed>>

\* the peer is gone, or the session has closed its socket
ReadFails(s) ==
  /\ reading[s] = "pending"
  /\ reading' = [reading EXCEPT ![s] = "failed"]
  /\ UNCHANGED <<_sessions, handling, _b_close, stream, recvVars, sendVars, written, script,
                 parsed, echoed>>

WriteCompletes(s) ==
  /\ writing[s] # << >>
  /\ written[s] = "none"
  /\ ~_b_close[s]
  /\ echoed' = [echoed EXCEPT ![s] = Append(@, Head(writing[s]))]
  /\ writing' = [writing EXCEPT ![s] = Tail(@)]
  /\ written' = [written EXCEPT ![s] = "done"]
  /\ UNCHANGED <<_sessions, handling, _b_close, stream, reading, recvVars, _send_que, accepted,
                 script, parsed>>

WriteFails(s) ==
  /\ writing[s] # << >>
  /\ written[s] = "none"
  /\ writing' = [writing EXCEPT ![s] = Tail(@)]
  /\ written' = [written EXCEPT ![s] = "failed"]
  /\ UNCHANGED <<_sessions, handling, _b_close, stream, reading, recvVars, _send_que, accepted,
                 script, parsed, echoed>>

-----------------------------------------------------------------------------
(* Start, Send, Close and CServer::ClearSession, as parts of the handlers *)

AsyncRead(s) == reading' = [reading EXCEPT ![s] = "pending"]

\* mutant: async_write for every message, also while one is being written
SendAtOnce(s, body) ==
  /\ parsed' = [parsed EXCEPT ![s] = Append(@, body)]
  /\ IF Len(_send_que[s]) > MAX_SENDQUE
     THEN UNCHANGED sendVars
     ELSE /\ _send_que' = [_send_que EXCEPT ![s] = Append(@, Frame(body))]
          /\ accepted' = [accepted EXCEPT ![s] = Append(@, Frame(body))]
          /\ writing' = [writing EXCEPT ![s] = Append(@, Frame(body))]

Send(s, body) ==
  /\ parsed' = [parsed EXCEPT ![s] = Append(@, body)]
  /\ IF Len(_send_que[s]) > MAX_SENDQUE
     THEN UNCHANGED sendVars
     ELSE /\ _send_que' = [_send_que EXCEPT ![s] = Append(@, Frame(body))]
          /\ accepted' = [accepted EXCEPT ![s] = Append(@, Frame(body))]
          /\ writing' = IF Len(_send_que[s]) > 0 THEN writing
                        ELSE [writing EXCEPT ![s] = Append(@, Frame(body))]

Close(s) == _b_close' = [_b_close EXCEPT ![s] = TRUE]

ClearSession(s) == _sessions' = _sessions \ {s}

-----------------------------------------------------------------------------
(* HandleWrite *)

\* mutant: the next message is taken from the queue before pop()
HandleWriteAgain(s) ==
  /\ handling = NoSession
  /\ written[s] = "done"
  /\ written' = [written EXCEPT ![s] = "none"]
  /\ _send_que' = [_send_que EXCEPT ![s] = Tail(@)]
  /\ writing' = IF Tail(_send_que[s]) = << >> THEN writing
                ELSE [writing EXCEPT ![s] = Append(@, Head(_send_que[s]))]
  /\ UNCHANGED <<_sessions, handling, _b_close, stream, reading, recvVars, accepted, script,
                 parsed, echoed>>

\* mutant: pop() alone, the rest of the queue is not written
HandleWritePopOnly(s) ==
  /\ handling = NoSession
  /\ written[s] = "done"
  /\ written' = [written EXCEPT ![s] = "none"]
  /\ _send_que' = [_send_que EXCEPT ![s] = Tail(@)]
  /\ UNCHANGED <<_sessions, handling, _b_close, stream, reading, recvVars, accepted, script,
                 parsed, echoed, writing>>

HandleWrite(s) ==
  /\ handling = NoSession
  /\ written[s] = "done"
  /\ written' = [written EXCEPT ![s] = "none"]
  /\ _send_que' = [_send_que EXCEPT ![s] = Tail(@)]
  /\ writing' = IF Tail(_send_que[s]) = << >> THEN writing
                ELSE [writing EXCEPT ![s] = Append(@, Head(Tail(_send_que[s])))]
  /\ UNCHANGED <<_sessions, handling, _b_close, stream, reading, recvVars, accepted, script,
                 parsed, echoed>>

\* mutant: ClearSession without Close
HandleWriteErrorOpen(s) ==
  /\ handling = NoSession
  /\ written[s] = "failed"
  /\ written' = [written EXCEPT ![s] = "none"]
  /\ ClearSession(s)
  /\ UNCHANGED <<handling, _b_close, stream, reading, recvVars, sendVars, script, parsed, echoed>>

HandleWriteError(s) ==
  /\ handling = NoSession
  /\ written[s] = "failed"
  /\ written' = [written EXCEPT ![s] = "none"]
  /\ Close(s)
  /\ ClearSession(s)
  /\ UNCHANGED <<handling, stream, reading, recvVars, sendVars, script, parsed, echoed>>

-----------------------------------------------------------------------------
(* HandleRead *)

HandleReadError(s) ==
  /\ handling = NoSession
  /\ reading[s] = "failed"
  /\ reading' = [reading EXCEPT ![s] = "none"]
  /\ Close(s)
  /\ ClearSession(s)
  /\ UNCHANGED <<handling, stream, recvVars, sendVars, written, script, parsed, echoed>>

HandleRead(s) ==
  /\ handling = NoSession
  /\ reading[s] = "done"
  /\ reading' = [reading EXCEPT ![s] = "none"]
  /\ handling' = s
  /\ UNCHANGED <<_sessions, _b_close, stream, recvVars, sendVars, written, script, parsed, echoed>>

\* Every received byte has been copied: read again and return from the handler.
ReadMore(s) ==
  /\ _data' = [_data EXCEPT ![s] = << >>]
  /\ AsyncRead(s)
  /\ handling' = NoSession

\* mutant: no _recv_head_node->Clear()
MessageCompleteUncleared(s, total, body, rest) ==
  /\ _recv_msg_node' = [_recv_msg_node EXCEPT ![s] = [total |-> total, data |-> body]]
  /\ Send(s, body)
  /\ _b_head_parse' = [_b_head_parse EXCEPT ![s] = FALSE]
  /\ IF rest = << >>
     THEN ReadMore(s)
     ELSE _data' = [_data EXCEPT ![s] = rest] /\ UNCHANGED <<reading, handling>>
  /\ UNCHANGED <<_sessions, _b_close, stream, _recv_head_node, written, script, echoed>>

\* Send the body; then go round the loop with the bytes that are left, if any.
MessageComplete(s, total, body, rest) ==
  /\ _recv_msg_node' = [_recv_msg_node EXCEPT ![s] = [total |-> total, data |-> body]]
  /\ Send(s, body)
  /\ _b_head_parse' = [_b_head_parse EXCEPT ![s] = FALSE]
  /\ _recv_head_node' = [_recv_head_node EXCEPT ![s] = << >>]
  /\ IF rest = << >>
     THEN ReadMore(s)
     ELSE _data' = [_data EXCEPT ![s] = rest] /\ UNCHANGED <<reading, handling>>
  /\ UNCHANGED <<_sessions, _b_close, stream, written, script, echoed>>

\* mutant: `<= HEAD_LENGTH`
HeadShortOrExact(s) ==
  /\ handling = s
  /\ ~_b_head_parse[s]
  /\ Len(_data[s]) + Len(_recv_head_node[s]) <= HEAD_LENGTH
  /\ _recv_head_node' = [_recv_head_node EXCEPT ![s] = @ \o _data[s]]
  /\ ReadMore(s)
  /\ UNCHANGED <<_sessions, _b_close, stream, _b_head_parse, _recv_msg_node, sendVars, written,
                 script, parsed, echoed>>

HeadShort(s) ==
  /\ handling = s
  /\ ~_b_head_parse[s]
  /\ Len(_data[s]) + Len(_recv_head_node[s]) < HEAD_LENGTH
  /\ _recv_head_node' = [_recv_head_node EXCEPT ![s] = @ \o _data[s]]
  /\ ReadMore(s)
  /\ UNCHANGED <<_sessions, _b_close, stream, _b_head_parse, _recv_msg_node, sendVars, written,
                 script, parsed, echoed>>

\* The header as it is once its missing bytes have been copied, and what follows it.
HeadRemain(s) == HEAD_LENGTH - Len(_recv_head_node[s])
WholeHead(s)  == _recv_head_node[s] \o First(_data[s], HeadRemain(s))
AfterHead(s)  == Without(_data[s], HeadRemain(s))

HeadComplete(s) ==
  /\ handling = s
  /\ ~_b_head_parse[s]
  /\ Len(_data[s]) + Len(_recv_head_node[s]) >= HEAD_LENGTH

\* mutant: return without ClearSession
HeadInvalidKept(s) ==
  /\ HeadComplete(s)
  /\ DataLen(WholeHead(s)) > MAX_LENGTH
  /\ handling' = NoSession
  /\ UNCHANGED <<_sessions, _b_close, stream, reading, recvVars, sendVars, written, script,
                 parsed, echoed>>

\* A body longer than MAX_LENGTH: forget the session and read no more of it.
HeadInvalid(s) ==
  /\ HeadComplete(s)
  /\ DataLen(WholeHead(s)) > MAX_LENGTH
  /\ ClearSession(s)
  /\ handling' = NoSession
  /\ UNCHANGED <<_b_close, stream, reading, recvVars, sendVars, written, script, parsed, echoed>>

(***************************************************************************)
(* A negative length passes that test.  `new char[data_len + 1]` refuses   *)
(* one below -1 by an exception that nothing catches before main; -1 makes *)
(* a node of no bytes, with no limit on what is then copied into it.       *)
(***************************************************************************)
HeadThrows(s) ==
  /\ HeadComplete(s)
  /\ DataLen(WholeHead(s)) < -1
  /\ ioc' = "thrown"
  /\ UNCHANGED sessionVars

HeadOverruns(s) ==
  /\ HeadComplete(s)
  /\ DataLen(WholeHead(s)) = -1
  /\ AfterHead(s) # << >>
  /\ ioc' = "undefined"
  /\ UNCHANGED sessionVars

HeadThenPart(s) ==
  /\ HeadComplete(s)
  /\ DataLen(WholeHead(s)) \in -1..MAX_LENGTH
  /\ LessSize(Len(AfterHead(s)), DataLen(WholeHead(s)))
  /\ DataLen(WholeHead(s)) < 0 => AfterHead(s) = << >>
  /\ _recv_msg_node' = [_recv_msg_node EXCEPT
                          ![s] = [total |-> DataLen(WholeHead(s)), data |-> AfterHead(s)]]
  /\ _b_head_parse' = [_b_head_parse EXCEPT ![s] = TRUE]
  /\ ReadMore(s)
  /\ UNCHANGED <<_sessions, _b_close, stream, _recv_head_node, sendVars, written, script, parsed,
                 echoed>>

HeadThenWhole(s) ==
  /\ HeadComplete(s)
  /\ DataLen(WholeHead(s)) <= MAX_LENGTH
  /\ ~LessSize(Len(AfterHead(s)), DataLen(WholeHead(s)))
  /\ LET total == DataLen(WholeHead(s))
     IN  MessageComplete(s, total, First(AfterHead(s), total), Without(AfterHead(s), total))

RemainMsg(s) == _recv_msg_node[s].total - Len(_recv_msg_node[s].data)

\* The bytes go behind a node of no bytes.
BodyOverruns(s) ==
  /\ handling = s
  /\ _b_head_parse[s]
  /\ RemainMsg(s) < 0
  /\ ioc' = "undefined"
  /\ UNCHANGED sessionVars

BodyPart(s) ==
  /\ handling = s
  /\ _b_head_parse[s]
  /\ RemainMsg(s) >= 0
  /\ LessSize(Len(_data[s]), RemainMsg(s))
  /\ _recv_msg_node' = [_recv_msg_node EXCEPT ![s].data = @ \o _data[s]]
  /\ ReadMore(s)
  /\ UNCHANGED <<_sessions, _b_close, stream, _b_head_parse, _recv_head_node, sendVars, written,
                 script, parsed, echoed>>

BodyWhole(s) ==
  /\ handling = s
  /\ _b_head_parse[s]
  /\ ~LessSize(Len(_data[s]), RemainMsg(s))
  /\ MessageComplete(s, _recv_msg_node[s].total,
                     _recv_msg_node[s].data \o First(_data[s], RemainMsg(s)),
                     Without(_data[s], RemainMsg(s)))

\* One round of the loop; the last three are the last thing the io_context does.
HandleReadLoop(s) ==
  \/ /\ \/ HeadShort(s)
        \/ HeadInvalid(s)
        \/ HeadThenPart(s)
        \/ HeadThenWhole(s)
        \/ BodyPart(s)
        \/ BodyWhole(s)
     /\ UNCHANGED ioc
  \/ HeadThrows(s)
  \/ HeadOverruns(s)
  \/ BodyOverruns(s)
=============================================================================
