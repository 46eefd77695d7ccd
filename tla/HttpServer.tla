----------------------------- MODULE HttpServer -----------------------------
(***************************************************************************)
(* The HTTP server: listener, detect_session, http_session in its plain and*)
(* its SSL form, and websocket_session.  A connection is one chain of      *)
(* asynchronous operations: each handler starts the next operation or      *)
(* starts none, and then the session, held only by its handlers, is gone   *)
(* and its socket closed.  A request that is no WebSocket upgrade is sent  *)
(* to the one upstream server, over the session's own TLS connection.      *)
(*                                                                         *)
(* expires_after gives the stream a deadline that all later operations on  *)
(* it share; an operation that waits when the deadline passes fails and    *)
(* its socket is closed.  The handlers of a connection run on its strand,  *)
(* so each is one step; those of different connections interleave.         *)
(***************************************************************************)
EXTENDS Naturals, Sequences

CONSTANTS
    Conns,        \* connections the listener accepts
    MaxRequests,  \* bound: requests read from a connection
    MaxMessages   \* bound: WebSocket messages read from a connection

ASSUME MaxRequestsAssumption == MaxRequests \in Nat
ASSUME MaxMessagesAssumption == MaxMessages \in Nat

VARIABLES
    acceptor_,         \* whether listener's constructor got the port
    crashed,           \* the process has ended
    state,             \* connection -> the operation whose handler is awaited
    deadline,          \* connection -> the deadline of the client's stream
    csstream_,         \* connection -> the stream to the upstream server
    secure,            \* connection -> csstream_ has done its TLS handshake
    upDeadline,        \* connection -> the deadline of csstream_
    client_send_msg_,  \* connection -> the request to forward
    msg_,              \* connection -> the response to write: 0 is the empty one
    buffer_,           \* connection -> the messages in websocket_session::buffer_
    text_,             \* connection -> the kind of the message being echoed
    requests,          \* history: number of requests read
    forwarded,         \* history: the requests written to the upstream server
    answered,          \* history: number of responses read from it
    replies,           \* history: the responses written to the client
    received,          \* history: the kinds of the WebSocket messages read
    echoed             \* history: the WebSocket messages written, with their kind

upVars == <<csstream_, secure, upDeadline>>
httpVars == <<client_send_msg_, msg_, requests, forwarded, answered, replies>>
wsVars == <<buffer_, text_, received, echoed>>
vars == <<acceptor_, crashed, state, deadline, csstream_, secure, upDeadline,
          client_send_msg_, msg_, buffer_, text_, requests, forwarded, answered,
          replies, received, echoed>>

-----------------------------------------------------------------------------
Deadline == {"never", "set", "passed"}

\* Operations on the client's stream before and between the requests.
ClientStates == {"detecting", "handshaking", "reading", "writing", "shutting"}

\* Operations on the stream to the upstream server.
UpStates == {"connecting", "upHandshaking", "upWriting", "upReading"}

WsStates == {"wsAccepting", "wsReading", "wsWriting"}

Init ==
    /\ acceptor_ \in {"listening", "failed"}
    /\ crashed = FALSE
    /\ state = [c \in Conns |-> "none"]
    /\ deadline = [c \in Conns |-> "never"]
    /\ csstream_ = [c \in Conns |-> "null"]
    /\ secure = [c \in Conns |-> FALSE]
    /\ upDeadline = [c \in Conns |-> "never"]
    /\ client_send_msg_ = [c \in Conns |-> 0]
    /\ msg_ = [c \in Conns |-> 0]
    /\ buffer_ = [c \in Conns |-> <<>>]
    /\ text_ = [c \in Conns |-> TRUE]
    /\ requests = [c \in Conns |-> 0]
    /\ forwarded = [c \in Conns |-> <<>>]
    /\ answered = [c \in Conns |-> 0]
    /\ replies = [c \in Conns |-> <<>>]
    /\ received = [c \in Conns |-> <<>>]
    /\ echoed = [c \in Conns |-> <<>>]

-----------------------------------------------------------------------------
(* Steps of several handlers.                                              *)

\* The next operation of connection c starts.
Start(c, operation) == state' = [state EXCEPT ![c] = operation]

\* The client's stream gets a new deadline; the upstream's stream does.
Expires(c, d) == deadline' = [deadline EXCEPT ![c] = d]
UpExpires(c, d) == upDeadline' = [upDeadline EXCEPT ![c] = d]

\* http_session::do_read: an async_read with a new deadline.
DoRead(c) == Start(c, "reading") /\ Expires(c, "set")

-----------------------------------------------------------------------------
(* Faulty variants of definitions below: plausible bugs, each of which some *)
(* property must detect.                                                    *)

\* client_send_msg keeps the request of an earlier call.
OnReadKeepsMessage(c) ==
    /\ state[c] = "reading" /\ requests[c] < MaxRequests
    /\ requests' = [requests EXCEPT ![c] = @ + 1]
    /\ client_send_msg_' = [client_send_msg_ EXCEPT ![c] = IF @ = 0 THEN 1 ELSE @]
    /\ IF csstream_[c] = "null"
       THEN crashed' = TRUE /\ Start(c, "gone") /\ UNCHANGED upDeadline
       ELSE Start(c, "connecting") /\ UpExpires(c, "set") /\ UNCHANGED crashed
    /\ UNCHANGED <<acceptor_, deadline, csstream_, secure, msg_, forwarded, answered, replies,
                   wsVars>>

\* The upgrade forgets expires_never.
UpgradeTimed(c) ==
    /\ state[c] = "reading" /\ requests[c] < MaxRequests
    /\ Start(c, "wsAccepting")
    /\ UNCHANGED <<acceptor_, crashed, deadline, upVars, httpVars, wsVars>>

\* client_on_connect gives the handshake no deadline of its own.
OnConnectUntimed(c) ==
    /\ state[c] = "connecting"
    /\ \/ csstream_[c] = "open" /\ csstream_' = [csstream_ EXCEPT ![c] = "connected"]
       \/ csstream_[c] \in {"open", "connected"} /\ UNCHANGED csstream_
       \/ upDeadline[c] = "passed" /\ csstream_' = [csstream_ EXCEPT ![c] = "closed"]
    /\ Start(c, "upHandshaking") /\ UpExpires(c, "never")
    /\ UNCHANGED <<acceptor_, crashed, deadline, secure, httpVars, wsVars>>

\* The handshake's error is ignored as the connection's is.
OnHandshakeUnchecked(c) ==
    /\ state[c] = "upHandshaking"
    /\ secure' = [secure EXCEPT ![c] = csstream_[c] = "connected" \/ secure[c]]
    /\ Start(c, "upWriting") /\ UpExpires(c, "never")
    /\ UNCHANGED <<acceptor_, crashed, deadline, csstream_, httpVars, wsVars>>

\* A failed read of the response is answered too.
UpReadUnchecked(c) ==
    /\ state[c] = "upReading"
    /\ answered' \in {answered, [answered EXCEPT ![c] = @ + 1]}
    /\ Start(c, "writing")
    /\ UNCHANGED <<acceptor_, crashed, deadline, upVars, client_send_msg_, msg_, requests,
                   forwarded, replies, wsVars>>

\* The echo is not removed from the buffer.
WsWrittenKeeps(c) ==
    /\ state[c] = "wsWriting"
    /\ echoed' = [echoed EXCEPT ![c] = Append(@, <<text_[c], buffer_[c]>>)]
    /\ Start(c, "wsReading")
    /\ UNCHANGED <<acceptor_, crashed, deadline, upVars, httpVars, buffer_, text_, received>>

\* msg_ is cleared to no response at all.
UpReadNoMessage(c) ==
    /\ state[c] = "upReading"
    /\ answered' = [answered EXCEPT ![c] = @ + 1]
    /\ msg_' = [msg_ EXCEPT ![c] = MaxRequests + 1]
    /\ Start(c, "writing")
    /\ UNCHANGED <<acceptor_, crashed, deadline, upVars, client_send_msg_, requests,
                   forwarded, replies, wsVars>>

-----------------------------------------------------------------------------
(* listener and detect_session.                                            *)

\* on_accept: the connection is given to a detector, which sets the deadline.
OnAccept(c) ==
    /\ acceptor_ = "listening" /\ state[c] = "none"
    /\ Start(c, "detecting") /\ Expires(c, "set")
    /\ UNCHANGED <<acceptor_, crashed, upVars, httpVars, wsVars>>

\* on_accept with an error: it is logged, and the next accept is started, with an
\* acceptor that has no port as well.
OnAcceptFails == UNCHANGED vars

\* on_detect finds a TLS hello: the SSL session makes its upstream stream, and
\* starts the handshake.
OnDetectSsl(c) ==
    /\ state[c] = "detecting"
    /\ csstream_' = [csstream_ EXCEPT ![c] = "open"]
    /\ Start(c, "handshaking") /\ Expires(c, "set")
    /\ UNCHANGED <<acceptor_, crashed, secure, upDeadline, httpVars, wsVars>>

\* on_detect finds none: the plain session, which makes no upstream stream.
OnDetectPlain(c) ==
    /\ state[c] = "detecting"
    /\ DoRead(c)
    /\ UNCHANGED <<acceptor_, crashed, upVars, httpVars, wsVars>>

\* ssl_http_session::on_handshake
OnHandshake(c) ==
    /\ state[c] = "handshaking"
    /\ DoRead(c)
    /\ UNCHANGED <<acceptor_, crashed, upVars, httpVars, wsVars>>

-----------------------------------------------------------------------------
(* http_session: the client's requests.                                    *)

\* on_read of a request, client_send_msg, client_run and client_connect.  is_connect_
\* is never set, so that every request connects; without a stream to the upstream
\* server the process ends on the null pointer.
OnRead(c) ==
    /\ state[c] = "reading" /\ requests[c] < MaxRequests
    /\ requests' = [requests EXCEPT ![c] = @ + 1]
    /\ client_send_msg_' = [client_send_msg_ EXCEPT ![c] = requests[c] + 1]
    /\ IF csstream_[c] = "null"
       THEN crashed' = TRUE /\ Start(c, "gone") /\ UNCHANGED upDeadline
       ELSE Start(c, "connecting") /\ UpExpires(c, "set") /\ UNCHANGED crashed
    /\ UNCHANGED <<acceptor_, deadline, csstream_, secure, msg_, forwarded, answered, replies,
                   wsVars>>

\* on_read of a WebSocket upgrade: the websocket_session times itself.
OnReadUpgrade(c) ==
    /\ state[c] = "reading" /\ requests[c] < MaxRequests
    /\ Start(c, "wsAccepting") /\ Expires(c, "never")
    /\ UNCHANGED <<acceptor_, crashed, upVars, httpVars, wsVars>>

\* on_read of the end of the stream, and do_eof: the plain session is done, the
\* SSL session shuts down.
OnReadEof(c) ==
    /\ state[c] = "reading"
    /\ IF csstream_[c] = "null"
       THEN Start(c, "gone") /\ UNCHANGED deadline
       ELSE Start(c, "shutting") /\ Expires(c, "set")
    /\ UNCHANGED <<acceptor_, crashed, upVars, httpVars, wsVars>>

\* on_shutdown
OnShutdown(c) ==
    /\ state[c] = "shutting"
    /\ Start(c, "gone")
    /\ UNCHANGED <<acceptor_, crashed, deadline, upVars, httpVars, wsVars>>

\* The handler of server_send_msg reads the next request.
OnReplied(c) ==
    /\ state[c] = "writing"
    /\ replies' = [replies EXCEPT ![c] = Append(@, msg_[c])]
    /\ DoRead(c)
    /\ UNCHANGED <<acceptor_, crashed, upVars, client_send_msg_, msg_, requests, forwarded,
                   answered, wsVars>>

\* Any of these operations fails, because of the client, the network or, once the
\* deadline has passed, the time: the handler returns.
ClientFails(c) ==
    /\ state[c] \in ClientStates
    /\ Start(c, "gone")
    /\ UNCHANGED <<acceptor_, crashed, deadline, upVars, httpVars, wsVars>>

-----------------------------------------------------------------------------
(* http_session: the upstream server.                                      *)

\* client_on_connect, which does not look at its error: a stream that was connected
\* for an earlier request stays so, one that could not connect stays open, and one
\* whose deadline passed was closed.
OnConnect(c) ==
    /\ state[c] = "connecting"
    /\ \/ csstream_[c] = "open" /\ csstream_' = [csstream_ EXCEPT ![c] = "connected"]
       \/ csstream_[c] \in {"open", "connected"} /\ UNCHANGED csstream_
       \/ upDeadline[c] = "passed" /\ csstream_' = [csstream_ EXCEPT ![c] = "closed"]
    /\ Start(c, "upHandshaking") /\ UpExpires(c, "set")
    /\ UNCHANGED <<acceptor_, crashed, deadline, secure, httpVars, wsVars>>

\* The handler of the handshake writes the request.  A stream that has done its
\* handshake has nothing to do.
OnUpHandshake(c) ==
    /\ state[c] = "upHandshaking"
    /\ csstream_[c] = "connected" \/ secure[c]
    /\ secure' = [secure EXCEPT ![c] = TRUE]
    /\ Start(c, "upWriting") /\ UpExpires(c, "never")
    /\ UNCHANGED <<acceptor_, crashed, deadline, csstream_, httpVars, wsVars>>

\* The handler of client_send_write_https_msg, and client_read_https_msg.
OnUpWritten(c) ==
    /\ state[c] = "upWriting" /\ csstream_[c] = "connected"
    /\ forwarded' = [forwarded EXCEPT ![c] = Append(@, client_send_msg_[c])]
    /\ Start(c, "upReading")
    /\ UNCHANGED <<acceptor_, crashed, deadline, upVars, client_send_msg_, msg_, requests,
                   answered, replies, wsVars>>

\* The handler of client_read_https_msg, and server_send_msg, which moves the
\* response to itself, not to msg_, and writes msg_.
OnUpRead(c) ==
    /\ state[c] = "upReading"
    /\ answered' = [answered EXCEPT ![c] = @ + 1]
    /\ Start(c, "writing")
    /\ UNCHANGED <<acceptor_, crashed, deadline, upVars, client_send_msg_, msg_, requests,
                   forwarded, replies, wsVars>>

\* The upstream's handshake, write or read fails, and its handler returns.
UpFails(c) ==
    /\ state[c] \in {"upHandshaking", "upWriting", "upReading"}
    /\ ~(state[c] = "upHandshaking" /\ secure[c])
    /\ Start(c, "gone")
    /\ UNCHANGED <<acceptor_, crashed, deadline, upVars, httpVars, wsVars>>

-----------------------------------------------------------------------------
(* websocket_session.                                                      *)

\* on_accept
OnWsAccept(c) ==
    /\ state[c] = "wsAccepting"
    /\ Start(c, "wsReading")
    /\ UNCHANGED <<acceptor_, crashed, deadline, upVars, httpVars, wsVars>>

\* on_read: the message was appended to the buffer, all of which is echoed.
OnWsRead(c) ==
    /\ state[c] = "wsReading" /\ Len(received[c]) < MaxMessages
    /\ \E kind \in BOOLEAN :
        /\ received' = [received EXCEPT ![c] = Append(@, kind)]
        /\ text_' = [text_ EXCEPT ![c] = kind]
    /\ buffer_' = [buffer_ EXCEPT ![c] = Append(@, Len(received[c]) + 1)]
    /\ Start(c, "wsWriting")
    /\ UNCHANGED <<acceptor_, crashed, deadline, upVars, httpVars, echoed>>

\* on_write
OnWsWritten(c) ==
    /\ state[c] = "wsWriting"
    /\ echoed' = [echoed EXCEPT ![c] = Append(@, <<text_[c], buffer_[c]>>)]
    /\ buffer_' = [buffer_ EXCEPT ![c] = <<>>]
    /\ Start(c, "wsReading")
    /\ UNCHANGED <<acceptor_, crashed, deadline, upVars, httpVars, text_, received>>

\* The client closes, an operation fails or the stream's own timer ends it.
WsFails(c) ==
    /\ state[c] \in WsStates
    /\ Start(c, "gone")
    /\ UNCHANGED <<acceptor_, crashed, deadline, upVars, httpVars, wsVars>>

-----------------------------------------------------------------------------
(* Time.                                                                   *)

DeadlinePasses(c) ==
    /\ deadline[c] = "set" /\ state[c] # "gone"
    /\ Expires(c, "passed")
    /\ UNCHANGED <<acceptor_, crashed, state, upVars, httpVars, wsVars>>

UpDeadlinePasses(c) ==
    /\ upDeadline[c] = "set" /\ state[c] # "gone"
    /\ UpExpires(c, "passed")
    /\ UNCHANGED <<acceptor_, crashed, state, deadline, csstream_, secure, httpVars, wsVars>>

-----------------------------------------------------------------------------
ClientSteps(c) ==
    \/ OnAccept(c) \/ OnDetectSsl(c) \/ OnDetectPlain(c) \/ OnHandshake(c)
    \/ OnRead(c) \/ OnReadUpgrade(c) \/ OnReadEof(c) \/ OnShutdown(c)
    \/ OnReplied(c) \/ ClientFails(c)

UpSteps(c) == OnConnect(c) \/ OnUpHandshake(c) \/ OnUpWritten(c) \/ OnUpRead(c) \/ UpFails(c)

WsSteps(c) == OnWsAccept(c) \/ OnWsRead(c) \/ OnWsWritten(c) \/ WsFails(c)

Time(c) == DeadlinePasses(c) \/ UpDeadlinePasses(c)

Next ==
    \/ /\ ~crashed
       /\ \E c \in Conns : ClientSteps(c) \/ UpSteps(c) \/ WsSteps(c) \/ Time(c)
    \/ OnAcceptFails

Spec == Init /\ [][Next]_vars

\* The clock runs, and a handler that can run does: the one of an operation whose
\* deadline has passed, and the one of a handshake that was done before.  Nothing
\* is assumed of clients or of the upstream server.
Fairness ==
    \A c \in Conns :
        /\ WF_vars(~crashed /\ DeadlinePasses(c))
        /\ WF_vars(~crashed /\ UpDeadlinePasses(c))
        /\ WF_vars(~crashed /\ deadline[c] = "passed" /\ ClientFails(c))
        /\ WF_vars(~crashed /\ upDeadline[c] = "passed" /\ OnConnect(c))
        /\ WF_vars(~crashed /\ upDeadline[c] = "passed" /\ state[c] = "upHandshaking" /\ UpFails(c))
        /\ WF_vars(~crashed /\ secure[c] /\ OnUpHandshake(c))

FairSpec == Spec /\ Fairness

-----------------------------------------------------------------------------
(* Properties.                                                             *)

TypeOK ==
    /\ acceptor_ \in {"listening", "failed"}
    /\ crashed \in BOOLEAN
    /\ state \in [Conns -> {"none", "gone"} \cup ClientStates \cup UpStates \cup WsStates]
    /\ deadline \in [Conns -> Deadline]
    /\ csstream_ \in [Conns -> {"null", "open", "connected", "closed"}]
    /\ secure \in [Conns -> BOOLEAN]
    /\ upDeadline \in [Conns -> Deadline]
    /\ client_send_msg_ \in [Conns -> 0..MaxRequests]
    /\ msg_ \in [Conns -> 0..MaxRequests]
    /\ buffer_ \in [Conns -> Seq(1..MaxMessages)]
    /\ text_ \in [Conns -> BOOLEAN]
    /\ requests \in [Conns -> 0..MaxRequests]
    /\ forwarded \in [Conns -> Seq(1..MaxRequests)]
    /\ answered \in [Conns -> 0..MaxRequests]
    /\ replies \in [Conns -> Seq(0..MaxRequests)]
    /\ received \in [Conns -> Seq(BOOLEAN)]
    /\ echoed \in [Conns -> Seq(BOOLEAN \X Seq(1..MaxMessages))]

\* A request is written upstream, and an answer awaited, only on a stream that has
\* done its TLS handshake, although client_on_connect goes on when it could not
\* connect and every further request connects the connected stream again.
RequestOnlyOverTls == \A c \in Conns : state[c] \in {"upWriting", "upReading"} => secure[c]

\* The single client_send_msg_ suffices: the requests of a connection are forwarded
\* in order, each once, and none is overtaken by the next one.
ForwardedInOrder ==
    \A c \in Conns :
        /\ \A i \in DOMAIN forwarded[c] : forwarded[c][i] = i
        /\ requests[c] <= Len(forwarded[c]) + 1
        /\ state[c] = "reading" => requests[c] = Len(forwarded[c])

\* The client gets one response for each request, and none before the upstream
\* server has answered that request.
RepliesFollowAnswers ==
    \A c \in Conns :
        /\ Len(replies[c]) <= answered[c] /\ answered[c] <= Len(forwarded[c])
        /\ state[c] = "reading" => Len(replies[c]) = requests[c]

\* An operation that waits for the client has a deadline, so that no client can
\* hold a session for ever; a WebSocket's stream, which times itself, has none; and a
\* connect to or a handshake with the upstream server has a deadline.
Deadlines ==
    \A c \in Conns :
        /\ state[c] \in ClientStates => deadline[c] # "never"
        /\ state[c] \in WsStates => deadline[c] = "never"
        /\ state[c] \in {"connecting", "upHandshaking"} => upDeadline[c] # "never"

\* Each message is echoed once, alone and as the kind it came as.
EchoesWhatItRead ==
    \A c \in Conns :
        /\ \A i \in DOMAIN echoed[c] : echoed[c][i] = <<received[c][i], <<i>>>>
        /\ state[c] = "wsReading" => Len(echoed[c]) = Len(received[c])

\* Whatever its client does, a session ends, or serves a WebSocket, or comes to wait
\* for an answer of the upstream server, which alone has no deadline.
EndsOrAwaitsUpstream ==
    \A c \in Conns :
        (state[c] \in ClientStates \cup {"connecting", "upHandshaking"}) ~>
            (crashed \/ state[c] \in {"gone", "upWriting", "upReading"} \cup WsStates)

\* "Send the response" (http_session.hpp:103): the client gets what the upstream
\* server answered.
ReplyIsTheAnswer == \A c \in Conns : \A i \in DOMAIN replies[c] : replies[c][i] = i

\* "the same code works with both SSL streams and regular sockets"
\* (http_session.hpp:7): a request on either is served.
PlainIsServed == ~crashed
=============================================================================
