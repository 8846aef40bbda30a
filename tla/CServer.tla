------------------------------ MODULE CServer -------------------------------
(***************************************************************************)
(* The echo server of main.cpp: CServer (asio/CServer.h, asio/CServer.cpp) *)
(* accepts connections, keeps the sessions in _sessions, and runs them on  *)
(* one io_context.                                                         *)
(***************************************************************************)
EXTENDS CSession, SequencesExt

VARIABLES
  accepting,    \* the session that the pending async_accept is to connect
  acceptState,  \* the asynchronous accept: "pending", "done" or "failed"
  started       \* the sessions that were accepted

acceptVars == <<accepting, acceptState, started>>
vars       == <<sessionVars, acceptVars, ioc>>

\* A session's object exists as long as the map or a handler to come refers to it.
Referenced(s) ==
  \/ s \in _sessions
  \/ reading[s] # "none"
  \/ writing[s] # << >>
  \/ written[s] # "none"
  \/ handling = s

\* make_shared<CSession>; bound: only the objects of Sessions are ever made.
NewSession(used) == IF used = Sessions THEN NoSession ELSE CHOOSE s \in Sessions : s \notin used

Init ==
  /\ _sessions = {}
  /\ handling = NoSession
  /\ _b_close = [s \in Sessions |-> FALSE]
  /\ stream = [s \in Sessions |-> << >>]
  /\ reading = [s \in Sessions |-> "none"]
  /\ _data = [s \in Sessions |-> << >>]
  /\ _b_head_parse = [s \in Sessions |-> FALSE]
  /\ _recv_head_node = [s \in Sessions |-> << >>]
  /\ _recv_msg_node = [s \in Sessions |-> NoMsg]
  /\ _send_que = [s \in Sessions |-> << >>]
  /\ writing = [s \in Sessions |-> << >>]
  /\ written = [s \in Sessions |-> "none"]
  /\ script = [s \in Sessions |-> << >>]
  /\ parsed = [s \in Sessions |-> << >>]
  /\ accepted = [s \in Sessions |-> << >>]
  /\ echoed = [s \in Sessions |-> << >>]
  /\ accepting = NewSession({})
  /\ acceptState = "pending"
  /\ started = {}
  /\ ioc = "running"

StartAccept ==
  /\ acceptState' = "pending"
  /\ accepting' = NewSession(started')

(* external: the acceptor.  A peer connects and sends its bytes. *)

Bytes == 0..255

\* What a peer sends is its own affair: any bytes, whole messages or not.
ASSUME ScriptAssumption == \A s \in Sessions : Scripts[s] \subseteq Seq(Bytes)

AcceptCompletes ==
  /\ accepting # NoSession
  /\ acceptState = "pending"
  /\ acceptState' = "done"
  /\ \E bytes \in Scripts[accepting] :
       /\ script' = [script EXCEPT ![accepting] = bytes]
       /\ stream' = [stream EXCEPT ![accepting] = bytes]
  /\ UNCHANGED <<_sessions, handling, _b_close, reading, recvVars, sendVars, written, parsed,
                 echoed, accepting, started>>

AcceptFails ==
  /\ accepting # NoSession
  /\ acceptState = "pending"
  /\ acceptState' = "failed"
  /\ UNCHANGED <<sessionVars, accepting, started>>

HandleAccept ==
  /\ handling = NoSession
  /\ acceptState = "done"
  /\ AsyncRead(accepting)
  /\ _sessions' = _sessions \cup {accepting}
  /\ started' = started \cup {accepting}
  /\ StartAccept
  /\ UNCHANGED <<handling, _b_close, stream, recvVars, sendVars, written, script, parsed, echoed>>

HandleAcceptError ==
  /\ handling = NoSession
  /\ acceptState = "failed"
  /\ started' = started
  /\ StartAccept
  /\ UNCHANGED sessionVars

Socket(s)  == ReadCompletes(s) \/ ReadFails(s) \/ WriteCompletes(s) \/ WriteFails(s)
Handler(s) == HandleRead(s) \/ HandleReadError(s) \/ HandleWrite(s) \/ HandleWriteError(s)

Accept     == AcceptCompletes \/ AcceptFails \/ HandleAccept \/ HandleAcceptError

\* A step of session s alone, while the io_context runs.
Session(A) == ioc = "running" /\ A /\ UNCHANGED acceptVars

Next ==
  \/ ioc = "running" /\ Accept /\ UNCHANGED ioc
  \/ \E s \in Sessions :
       \/ Session((Socket(s) \/ Handler(s)) /\ UNCHANGED ioc)
       \/ Session(HandleReadLoop(s))

(***************************************************************************)
(* The io_context's thread runs every handler that is ready.  A write to   *)
(* a peer that reads completes, and so do the operations of a closed       *)
(* socket.  A peer has to send nothing, and need not disconnect.           *)
(***************************************************************************)
Fairness ==
  \A s \in Sessions :
    /\ WF_vars(Session(Handler(s) /\ UNCHANGED ioc))
    /\ WF_vars(Session(HandleReadLoop(s)))
    /\ WF_vars(Session((WriteCompletes(s) \/ WriteFails(s)) /\ UNCHANGED ioc))
    /\ WF_vars(Session(_b_close[s] /\ ReadFails(s) /\ UNCHANGED ioc))

Spec     == Init /\ [][Next]_vars
FairSpec == Spec /\ Fairness

-----------------------------------------------------------------------------
(* Properties *)

TypeOK ==
  /\ _sessions \subseteq started /\ started \subseteq Sessions
  /\ handling \in Sessions \cup {NoSession}
  /\ accepting \in Sessions \cup {NoSession}
  /\ acceptState \in {"pending", "done", "failed"}
  /\ ioc \in {"running", "thrown", "undefined"}
  /\ _b_close \in [Sessions -> BOOLEAN]
  /\ reading \in [Sessions -> {"none", "pending", "done", "failed"}]
  /\ written \in [Sessions -> {"none", "done", "failed"}]
  /\ _b_head_parse \in [Sessions -> BOOLEAN]
  /\ \A s \in Sessions :
       /\ {script[s], stream[s], _data[s]} \subseteq Seq(Bytes)
       /\ Len(_data[s]) <= MAX_LENGTH
       /\ _recv_head_node[s] \in Seq(Bytes) /\ Len(_recv_head_node[s]) < HEAD_LENGTH
       /\ _recv_msg_node[s].total \in -1..MAX_LENGTH
       /\ _recv_msg_node[s].data \in Seq(Bytes)
       /\ {_send_que[s], writing[s], accepted[s], echoed[s], parsed[s]} \subseteq Seq(Seq(Bytes))

(***************************************************************************)
(* However the peer's bytes are cut into reads, HandleRead hands to Send   *)
(* the peer's own messages, in their order: what has been handed over,     *)
(* framed again, followed by the message being received, the buffer and    *)
(* what is still to be read, is what the peer sent.  No frame begins       *)
(* another, so this fixes every message; none is longer than MAX_LENGTH.   *)
(***************************************************************************)
Wire(bodies) == FlattenSeq([i \in DOMAIN bodies |-> Frame(bodies[i])])

InProgress(s) ==
  IF _b_head_parse[s]
  THEN Header(_recv_msg_node[s].total) \o _recv_msg_node[s].data
  ELSE _recv_head_node[s]

Reassembly ==
  \A s \in Sessions :
    /\ \A i \in DOMAIN parsed[s] : Len(parsed[s][i]) <= MAX_LENGTH
    /\ Wire(parsed[s]) \o InProgress(s) \o _data[s] \o stream[s] = script[s]

(***************************************************************************)
(* The peer gets back what Send accepted, once each and in order: what has *)
(* been written followed by what is queued is what was accepted (between a *)
(* write and its handler the first of the queue has been written).         *)
(***************************************************************************)
EchoInOrder ==
  \A s \in Sessions :
    accepted[s] = echoed[s] \o (IF written[s] = "done" THEN Tail(_send_que[s]) ELSE _send_que[s])

(***************************************************************************)
(* async_write is never called while another write of the session is under *)
(* way, and a queue that is not empty is being written, so that nothing    *)
(* stays in it for want of a write; only a closed socket leaves a rest.    *)
(***************************************************************************)
OneWriteAtATime ==
  \A s \in Sessions :
    /\ writing[s] # << >> => written[s] = "none" /\ writing[s] = <<Head(_send_que[s])>>
    /\ _send_que[s] = << >> => written[s] = "none"
    /\ _send_que[s] # << >> /\ ~_b_close[s] => writing[s] # << >> \/ written[s] # "none"

(***************************************************************************)
(* A session in the map always has a read under way (or is in HandleRead): *)
(* on no path through the loop is it left there with nothing that could    *)
(* ever serve or remove it.                                                *)
(***************************************************************************)
NoZombie == \A s \in _sessions : reading[s] # "none" \/ handling = s

(***************************************************************************)
(* Every accepted message is written back in the end, unless the           *)
(* connection fails or the io_context ends: also when its peer has since   *)
(* sent a message that is too long and the session is not in the map.      *)
(***************************************************************************)
EchoReturns ==
  \A s \in Sessions : \A n \in 1..3 :
    Len(accepted[s]) >= n ~> Len(echoed[s]) >= n \/ _b_close[s] \/ ioc # "running"

(***************************************************************************)
(* A session that was removed from the map is released: no operation under *)
(* way and no handler keeps a reference to it while the io_context runs.   *)
(***************************************************************************)
ClearedIsReleased ==
  \A s \in Sessions : s \in started /\ s \notin _sessions ~> ~Referenced(s) \/ ioc # "running"
=============================================================================
