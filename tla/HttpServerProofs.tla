-------------------------- MODULE HttpServerProofs --------------------------
(***************************************************************************)
(* Proofs about HttpServer for every number of connections, requests and   *)
(* messages.  The invariant is one of each connection: what its session has*)
(* read, forwarded and answered follows from the operation it waits for.   *)
(***************************************************************************)
EXTENDS HttpServer, SequenceTheorems, TLAPS

-----------------------------------------------------------------------------
(* The inductive invariant.                                                *)

\* No request is being served.
Between(c) == state[c] \in {"none", "detecting", "handshaking", "reading", "shutting"} \cup WsStates

\* A request was read and not forwarded yet.
Forwarding(c) == state[c] \in {"connecting", "upHandshaking", "upWriting"}

\* How far the requests of a connection have come.
CountInv(c) ==
    /\ Len(replies[c]) <= answered[c] /\ answered[c] <= Len(forwarded[c])
    /\ Len(forwarded[c]) <= requests[c] /\ requests[c] <= Len(forwarded[c]) + 1
    /\ Between(c) => Len(replies[c]) = requests[c]
    /\ Forwarding(c) => /\ Len(replies[c]) + 1 = requests[c]
                        /\ Len(forwarded[c]) + 1 = requests[c]
                        /\ client_send_msg_[c] = requests[c]
    /\ state[c] = "upReading" => /\ Len(replies[c]) + 1 = requests[c]
                                 /\ Len(forwarded[c]) = requests[c]
                                 /\ answered[c] + 1 = requests[c]
    /\ state[c] = "writing" => Len(replies[c]) + 1 = requests[c] /\ answered[c] = requests[c]

OrderInv(c) == \A i \in 1..Len(forwarded[c]) : forwarded[c][i] = i

SecureInv(c) == state[c] \in {"upWriting", "upReading"} => secure[c]

DeadlineInv(c) ==
    /\ state[c] \in ClientStates \cup UpStates => deadline[c] # "never"
    /\ state[c] \in WsStates => deadline[c] = "never"
    /\ state[c] \in {"connecting", "upHandshaking"} => upDeadline[c] # "never"

\* The buffer holds the message being echoed, and nothing otherwise.
EchoInv(c) ==
    /\ \A i \in 1..Len(echoed[c]) : echoed[c][i] = <<received[c][i], <<i>>>>
    /\ Len(echoed[c]) <= Len(received[c]) /\ Len(received[c]) <= MaxMessages
    /\ state[c] \notin {"wsWriting", "gone"} => Len(echoed[c]) = Len(received[c]) /\ buffer_[c] = <<>>
    /\ state[c] = "wsWriting" => /\ Len(received[c]) = Len(echoed[c]) + 1
                                 /\ text_[c] = received[c][Len(received[c])]
                                 /\ buffer_[c] = <<Len(received[c])>>

ConnInv(c) == CountInv(c) /\ OrderInv(c) /\ SecureInv(c) /\ DeadlineInv(c) /\ EchoInv(c)

IInv == TypeOK /\ \A c \in Conns : ConnInv(c)

-----------------------------------------------------------------------------
(* The invariant holds initially, and every step preserves it.             *)

\* No connection has been accepted.
LEMMA InitInv == Init => IInv
<1> SUFFICES ASSUME Init PROVE IInv
  OBVIOUS
<1>1. TypeOK
  <2>1. 0 \in 0..MaxRequests
    BY MaxRequestsAssumption
  <2>2. <<>> \in Seq(1..MaxMessages) /\ <<>> \in Seq(1..MaxRequests) /\ <<>> \in Seq(0..MaxRequests)
        /\ <<>> \in Seq(BOOLEAN) /\ <<>> \in Seq(BOOLEAN \X Seq(1..MaxMessages))
    BY EmptySeq
  <2> QED
    BY <2>1, <2>2 DEF Init, TypeOK, Deadline
<1>2. ASSUME NEW c \in Conns PROVE ConnInv(c)
  BY MaxMessagesAssumption DEF Init, ConnInv, CountInv, OrderInv, SecureInv, DeadlineInv, EchoInv, Between,
     Forwarding, ClientStates, UpStates, WsStates
<1> QED
  BY <1>1, <1>2 DEF IInv

\* What a connection's invariant depends on.
ConnView(c) == <<state[c], deadline[c], secure[c], upDeadline[c], client_send_msg_[c],
                 buffer_[c], text_[c], requests[c], forwarded[c], answered[c], replies[c],
                 received[c], echoed[c]>>

\* A connection whose variables do not change keeps its invariant.
LEMMA SameView ==
    ASSUME NEW c, ConnInv(c), UNCHANGED ConnView(c)
    PROVE  ConnInv(c)'
<1>1. UNCHANGED <<state[c], deadline[c], secure[c], upDeadline[c], client_send_msg_[c],
                 buffer_[c], text_[c], requests[c], forwarded[c], answered[c], replies[c],
                 received[c], echoed[c]>>
  BY DEF ConnView
<1> QED
  BY <1>1 DEF ConnInv, CountInv, OrderInv, SecureInv, DeadlineInv, EchoInv, Between, Forwarding

\* The steps that touch neither the requests nor the messages.
Quiet(c) ==
    \/ OnAccept(c) \/ OnDetectSsl(c) \/ OnDetectPlain(c) \/ OnHandshake(c)
    \/ OnReadUpgrade(c) \/ OnReadEof(c) \/ OnShutdown(c) \/ ClientFails(c)
    \/ OnConnect(c) \/ OnUpHandshake(c) \/ UpFails(c) \/ OnWsAccept(c) \/ WsFails(c) \/ Time(c)

\* A quiet step stays between the requests, stays before the forwarding of one, or ends.
LEMMA QuietStep ==
    ASSUME IInv, NEW c \in Conns, Quiet(c)
    PROVE  IInv'
<1> USE DEF Start, Expires, UpExpires, DoRead, ClientStates, UpStates, WsStates
<1>1. UNCHANGED <<httpVars, wsVars, acceptor_, crashed>>
  BY DEF Quiet, OnAccept, OnDetectSsl, OnDetectPlain, OnHandshake, OnReadUpgrade, OnReadEof,
     OnShutdown, ClientFails, OnConnect, OnUpHandshake, UpFails, OnWsAccept, WsFails, Time,
     DeadlinePasses, UpDeadlinePasses
<1>2. /\ state' \in [Conns -> {"none", "gone"} \cup ClientStates \cup UpStates \cup WsStates]
      /\ deadline' \in [Conns -> Deadline]
      /\ upDeadline' \in [Conns -> Deadline]
      /\ csstream_' \in [Conns -> {"null", "open", "connected", "closed"}]
      /\ secure' \in [Conns -> BOOLEAN]
  BY DEF IInv, TypeOK, Deadline, Quiet, OnAccept, OnDetectSsl, OnDetectPlain, OnHandshake,
     OnReadUpgrade, OnReadEof, OnShutdown, ClientFails, OnConnect, OnUpHandshake, UpFails,
     OnWsAccept, WsFails, Time, DeadlinePasses, UpDeadlinePasses, upVars
<1>3. TypeOK'
  BY <1>1, <1>2 DEF IInv, TypeOK, httpVars, wsVars
<1>4. ASSUME NEW d \in Conns, d # c PROVE UNCHANGED <<state[d], deadline[d], secure[d], upDeadline[d]>>
  BY <1>4 DEF IInv, TypeOK, Quiet, OnAccept, OnDetectSsl, OnDetectPlain, OnHandshake,
     OnReadUpgrade, OnReadEof, OnShutdown, ClientFails, OnConnect, OnUpHandshake, UpFails,
     OnWsAccept, WsFails, Time, DeadlinePasses, UpDeadlinePasses, upVars
<1>5. ASSUME NEW d \in Conns, d # c PROVE ConnInv(d)'
  BY <1>1, <1>4, <1>5, SameView DEF IInv, ConnView, httpVars, wsVars
<1>6. ConnInv(c)'
  <2>1. \/ Between(c) /\ Between(c)' /\ state'[c] # "wsWriting" /\ state[c] # "wsWriting"
        \/ Forwarding(c) /\ Forwarding(c)'
        \/ state'[c] = "gone"
        \/ state'[c] = state[c]
    BY DEF IInv, TypeOK, Quiet, OnAccept, OnDetectSsl, OnDetectPlain, OnHandshake,
     OnReadUpgrade, OnReadEof, OnShutdown, ClientFails, OnConnect, OnUpHandshake, UpFails,
     OnWsAccept, WsFails, Time, DeadlinePasses, UpDeadlinePasses, Between, Forwarding
  <2>2. UNCHANGED <<requests, forwarded, answered, replies, client_send_msg_, buffer_, text_,
                    received, echoed>>
    BY <1>1 DEF httpVars, wsVars
  <2>3. CountInv(c)'
    BY <2>1, <2>2 DEF IInv, ConnInv, CountInv, Between, Forwarding
  <2>4. OrderInv(c)' /\ EchoInv(c)'
    BY <2>1, <2>2 DEF IInv, ConnInv, OrderInv, EchoInv, Between, Forwarding
  <2>5. SecureInv(c)'
    BY DEF IInv, TypeOK, ConnInv, SecureInv, Quiet, OnAccept, OnDetectSsl, OnDetectPlain, OnHandshake,
     OnReadUpgrade, OnReadEof, OnShutdown, ClientFails, OnConnect, OnUpHandshake, UpFails,
     OnWsAccept, WsFails, Time, DeadlinePasses, UpDeadlinePasses, upVars
  <2>6. DeadlineInv(c)'
    BY DEF IInv, TypeOK, ConnInv, DeadlineInv, Quiet, OnAccept, OnDetectSsl, OnDetectPlain, OnHandshake,
     OnReadUpgrade, OnReadEof, OnShutdown, ClientFails, OnConnect, OnUpHandshake, UpFails,
     OnWsAccept, WsFails, Time, DeadlinePasses, UpDeadlinePasses, upVars
  <2> QED
    BY <2>3, <2>4, <2>5, <2>6 DEF ConnInv
<1> QED
  BY <1>3, <1>5, <1>6 DEF IInv

\* Every other connection keeps its invariant in a step of connection c.
LEMMA OthersKeep ==
    ASSUME IInv, NEW c \in Conns,
           \A d \in Conns : d # c => UNCHANGED ConnView(d)
    PROVE  \A d \in Conns : d # c => ConnInv(d)'
BY SameView DEF IInv

\* The lengths are numbers.
LEMMA Lengths ==
    ASSUME IInv, NEW c \in Conns
    PROVE  /\ Len(forwarded[c]) \in Nat /\ Len(replies[c]) \in Nat
           /\ Len(received[c]) \in Nat /\ Len(echoed[c]) \in Nat
           /\ answered[c] \in Nat /\ requests[c] \in Nat
BY LenProperties DEF IInv, TypeOK

\* OnRead begins a request: it is the one client_send_msg_ holds.
LEMMA ReadStep ==
    ASSUME IInv, NEW c \in Conns, OnRead(c)
    PROVE  IInv'
<1> USE DEF Start, UpExpires, ClientStates, UpStates, WsStates
<1>0. /\ \/ state' = [state EXCEPT ![c] = "gone"] /\ upDeadline' = upDeadline
         \/ /\ state' = [state EXCEPT ![c] = "connecting"]
            /\ upDeadline' = [upDeadline EXCEPT ![c] = "set"]
      /\ crashed' \in {TRUE, crashed}
      /\ state[c] = "reading" /\ requests[c] < MaxRequests
      /\ requests' = [requests EXCEPT ![c] = requests[c] + 1]
      /\ client_send_msg_' = [client_send_msg_ EXCEPT ![c] = requests[c] + 1]
      /\ UNCHANGED <<acceptor_, deadline, csstream_, secure, msg_, forwarded, answered, replies,
                     buffer_, text_, received, echoed>>
  BY DEF OnRead, wsVars
<1>1. TypeOK'
  <2>1. requests[c] + 1 \in 0..MaxRequests
    BY <1>0, MaxRequestsAssumption DEF IInv, TypeOK
  <2>2. /\ state' \in [Conns -> {"none", "gone"} \cup ClientStates \cup UpStates \cup WsStates]
        /\ upDeadline' \in [Conns -> Deadline] /\ crashed' \in BOOLEAN
    BY <1>0 DEF IInv, TypeOK, Deadline
  <2>3. requests' \in [Conns -> 0..MaxRequests] /\ client_send_msg_' \in [Conns -> 0..MaxRequests]
    BY <1>0, <2>1 DEF IInv, TypeOK
  <2> QED
    BY <1>0, <2>2, <2>3 DEF IInv, TypeOK
<1>2. \A d \in Conns : d # c => UNCHANGED ConnView(d)
  BY <1>0 DEF IInv, TypeOK, ConnView
<1>3. /\ state[c] = "reading" /\ requests'[c] = requests[c] + 1 /\ requests[c] \in Nat
      /\ client_send_msg_'[c] = requests[c] + 1
      /\ state'[c] = "gone" \/ (state'[c] = "connecting" /\ upDeadline'[c] = "set")
      /\ UNCHANGED <<deadline, secure, forwarded, answered, replies, buffer_, text_, received, echoed>>
  <2>1. state'[c] = "gone" \/ (state'[c] = "connecting" /\ upDeadline'[c] = "set")
    BY <1>0 DEF IInv, TypeOK
  <2>2. requests'[c] = requests[c] + 1 /\ client_send_msg_'[c] = requests[c] + 1
    BY <1>0 DEF IInv, TypeOK
  <2> QED
    BY <1>0, <2>1, <2>2, Lengths
<1>4. CountInv(c)'
  <2>1. /\ Len(replies[c]) = requests[c] /\ Len(forwarded[c]) = requests[c]
        /\ answered[c] = requests[c]
    <3>1. Between(c)
      BY <1>3 DEF Between
    <3> QED
      BY <3>1, Lengths DEF IInv, ConnInv, CountInv
  <2>2. state'[c] \in {"gone", "connecting"} /\ ~Between(c)'
    BY <1>3 DEF Between
  <2> QED
    BY <1>3, <2>1, <2>2 DEF CountInv, Forwarding
<1>5. OrderInv(c)' /\ SecureInv(c)' /\ EchoInv(c)'
  BY <1>3 DEF IInv, ConnInv, OrderInv, SecureInv, EchoInv
<1>6. DeadlineInv(c)'
  BY <1>3 DEF IInv, ConnInv, DeadlineInv
<1> QED
  BY <1>1, <1>2, <1>4, <1>5, <1>6, OthersKeep DEF IInv, ConnInv

\* OnUpWritten forwards the request client_send_msg_ holds, which is the next one in order.
LEMMA UpWrittenStep ==
    ASSUME IInv, NEW c \in Conns, OnUpWritten(c)
    PROVE  IInv'
<1> USE DEF Start, ClientStates, UpStates, WsStates
<1>1. /\ state[c] = "upWriting" /\ state'[c] = "upReading"
      /\ forwarded'[c] = Append(forwarded[c], client_send_msg_[c])
      /\ client_send_msg_[c] = Len(forwarded[c]) + 1 /\ client_send_msg_[c] \in 1..MaxRequests
      /\ UNCHANGED <<deadline, upDeadline, secure, client_send_msg_, requests, answered, replies,
                     buffer_, text_, received, echoed>>
  BY DEF IInv, TypeOK, OnUpWritten, wsVars, upVars, ConnInv, CountInv, Forwarding
<1>2. /\ forwarded'[c] \in Seq(1..MaxRequests) /\ Len(forwarded'[c]) = Len(forwarded[c]) + 1
      /\ Len(forwarded[c]) \in Nat
      /\ forwarded'[c][Len(forwarded[c]) + 1] = client_send_msg_[c]
      /\ \A i \in 1..Len(forwarded[c]) : forwarded'[c][i] = forwarded[c][i]
  BY <1>1, AppendProperties, LenProperties DEF IInv, TypeOK
<1>3. TypeOK'
  BY <1>1, <1>2 DEF IInv, TypeOK, OnUpWritten, wsVars, upVars
<1>4. \A d \in Conns : d # c => UNCHANGED ConnView(d)
  BY DEF IInv, TypeOK, OnUpWritten, ConnView, wsVars, upVars
<1>5. CountInv(c)'
  BY <1>1, <1>2, Lengths DEF IInv, ConnInv, CountInv, Between, Forwarding
<1>6. OrderInv(c)'
  BY <1>1, <1>2 DEF IInv, ConnInv, OrderInv
<1>7. SecureInv(c)' /\ EchoInv(c)' /\ DeadlineInv(c)'
  BY <1>1 DEF IInv, ConnInv, SecureInv, EchoInv, DeadlineInv
<1> QED
  BY <1>3, <1>4, <1>5, <1>6, <1>7, OthersKeep DEF IInv, ConnInv

\* OnUpRead is the answer to the last request that was forwarded.
LEMMA UpReadStep ==
    ASSUME IInv, NEW c \in Conns, OnUpRead(c)
    PROVE  IInv'
<1> USE DEF Start, ClientStates, UpStates, WsStates
<1>1. /\ state[c] = "upReading" /\ state'[c] = "writing" /\ answered'[c] = answered[c] + 1
      /\ answered[c] + 1 = requests[c]
      /\ UNCHANGED <<deadline, upDeadline, secure, client_send_msg_, requests, forwarded, replies,
                     buffer_, text_, received, echoed>>
  BY DEF IInv, TypeOK, OnUpRead, wsVars, upVars, ConnInv, CountInv
<1>2. TypeOK'
  BY <1>1 DEF IInv, TypeOK, OnUpRead, wsVars, upVars
<1>3. \A d \in Conns : d # c => UNCHANGED ConnView(d)
  BY DEF IInv, TypeOK, OnUpRead, ConnView, wsVars, upVars
<1>4. CountInv(c)'
  BY <1>1 DEF IInv, ConnInv, CountInv, Between, Forwarding
<1>5. OrderInv(c)' /\ SecureInv(c)' /\ EchoInv(c)' /\ DeadlineInv(c)'
  BY <1>1 DEF IInv, ConnInv, OrderInv, SecureInv, EchoInv, DeadlineInv
<1> QED
  BY <1>2, <1>3, <1>4, <1>5, OthersKeep DEF IInv, ConnInv

\* OnReplied completes the request, and the next one may be read.
LEMMA RepliedStep ==
    ASSUME IInv, NEW c \in Conns, OnReplied(c)
    PROVE  IInv'
<1> USE DEF Start, Expires, DoRead, ClientStates, UpStates, WsStates
<1>1. /\ state[c] = "writing" /\ state'[c] = "reading" /\ deadline'[c] = "set"
      /\ replies'[c] = Append(replies[c], msg_[c])
      /\ UNCHANGED <<upDeadline, secure, client_send_msg_, requests, forwarded, answered,
                     buffer_, text_, received, echoed>>
  BY DEF IInv, TypeOK, OnReplied, wsVars, upVars
<1>2. replies'[c] \in Seq(0..MaxRequests) /\ Len(replies'[c]) = Len(replies[c]) + 1
  BY <1>1, AppendProperties DEF IInv, TypeOK
<1>3. TypeOK'
  BY <1>1, <1>2 DEF IInv, TypeOK, OnReplied, wsVars, upVars, Deadline
<1>4. \A d \in Conns : d # c => UNCHANGED ConnView(d)
  BY DEF IInv, TypeOK, OnReplied, ConnView, wsVars, upVars
<1>5. CountInv(c)'
  BY <1>1, <1>2 DEF IInv, ConnInv, CountInv, Between, Forwarding
<1>6. OrderInv(c)' /\ SecureInv(c)' /\ EchoInv(c)' /\ DeadlineInv(c)'
  BY <1>1 DEF IInv, ConnInv, OrderInv, SecureInv, EchoInv, DeadlineInv
<1> QED
  BY <1>3, <1>4, <1>5, <1>6, OthersKeep DEF IInv, ConnInv

\* OnWsRead finds the buffer empty: it holds nothing but the message then.
LEMMA WsReadStep ==
    ASSUME IInv, NEW c \in Conns, OnWsRead(c)
    PROVE  IInv'
<1> USE DEF Start, ClientStates, UpStates, WsStates
<1>1. PICK kind \in BOOLEAN :
        /\ received' = [received EXCEPT ![c] = Append(received[c], kind)]
        /\ text_' = [text_ EXCEPT ![c] = kind]
  BY DEF OnWsRead
<1>2. /\ state[c] = "wsReading" /\ state'[c] = "wsWriting" /\ Len(received[c]) < MaxMessages
      /\ buffer_[c] = <<>> /\ Len(echoed[c]) = Len(received[c])
      /\ buffer_'[c] = Append(buffer_[c], Len(received[c]) + 1)
      /\ UNCHANGED <<deadline, upDeadline, secure, client_send_msg_, requests, forwarded, answered,
                     replies, echoed>>
  BY DEF IInv, TypeOK, OnWsRead, httpVars, upVars, ConnInv, EchoInv
<1>3. /\ received'[c] \in Seq(BOOLEAN) /\ Len(received'[c]) = Len(received[c]) + 1
      /\ Len(received[c]) \in Nat
      /\ received'[c][Len(received[c]) + 1] = kind
      /\ \A i \in 1..Len(received[c]) : received'[c][i] = received[c][i]
  BY <1>1, AppendProperties, LenProperties DEF IInv, TypeOK
<1>4. buffer_'[c] = <<Len(received[c]) + 1>> /\ buffer_'[c] \in Seq(1..MaxMessages)
  BY <1>2, <1>3, MaxMessagesAssumption
<1>5. TypeOK'
  <2>1. received' \in [Conns -> Seq(BOOLEAN)] /\ text_' \in [Conns -> BOOLEAN]
    BY <1>1, <1>3 DEF IInv, TypeOK
  <2>2. buffer_' \in [Conns -> Seq(1..MaxMessages)]
    BY <1>4 DEF IInv, TypeOK, OnWsRead
  <2> QED
    BY <2>1, <2>2 DEF IInv, TypeOK, OnWsRead, httpVars, upVars
<1>6. \A d \in Conns : d # c => UNCHANGED ConnView(d)
  BY <1>1 DEF IInv, TypeOK, OnWsRead, ConnView, httpVars, upVars
<1>7. CountInv(c)'
  BY <1>2 DEF IInv, ConnInv, CountInv, Between, Forwarding
<1>8. OrderInv(c)' /\ SecureInv(c)' /\ DeadlineInv(c)'
  BY <1>2 DEF IInv, ConnInv, OrderInv, SecureInv, DeadlineInv
<1>9. EchoInv(c)'
  <2>1. text_'[c] = kind
    BY <1>1 DEF IInv, TypeOK
  <2>2. \A i \in 1..Len(echoed[c]) : echoed[c][i] = <<received'[c][i], <<i>>>>
    BY <1>2, <1>3 DEF IInv, ConnInv, EchoInv
  <2>3. /\ Len(received'[c]) <= MaxMessages /\ echoed'[c] = echoed[c]
        /\ Len(received'[c]) = Len(echoed[c]) + 1 /\ Len(echoed[c]) <= Len(received'[c])
        /\ received'[c][Len(received'[c])] = kind
        /\ buffer_'[c] = <<Len(received'[c])>>
    BY <1>2, <1>3, <1>4, MaxMessagesAssumption
  <2> QED
    BY <1>2, <2>1, <2>2, <2>3 DEF EchoInv
<1> QED
  BY <1>5, <1>6, <1>7, <1>8, <1>9, OthersKeep DEF IInv, ConnInv

\* OnWsWritten echoes the message in the buffer and empties it.
LEMMA WsWrittenStep ==
    ASSUME IInv, NEW c \in Conns, OnWsWritten(c)
    PROVE  IInv'
<1> USE DEF Start, ClientStates, UpStates, WsStates
<1> DEFINE e == <<text_[c], buffer_[c]>>
<1>1. /\ state[c] = "wsWriting" /\ state'[c] = "wsReading"
      /\ buffer_'[c] = <<>> /\ echoed'[c] = Append(echoed[c], e)
      /\ UNCHANGED <<deadline, upDeadline, secure, client_send_msg_, requests, forwarded, answered,
                     replies, text_, received>>
  BY DEF IInv, TypeOK, OnWsWritten, httpVars, upVars
<1>2. /\ Len(received[c]) = Len(echoed[c]) + 1 /\ Len(echoed[c]) \in Nat
      /\ e = <<received[c][Len(echoed[c]) + 1], <<Len(echoed[c]) + 1>>>>
  BY <1>1, LenProperties DEF IInv, TypeOK, ConnInv, EchoInv
<1>3. e \in BOOLEAN \X Seq(1..MaxMessages)
  BY DEF IInv, TypeOK
<1> HIDE DEF e
<1>4. /\ echoed'[c] \in Seq(BOOLEAN \X Seq(1..MaxMessages))
      /\ Len(echoed'[c]) = Len(echoed[c]) + 1
      /\ echoed'[c][Len(echoed[c]) + 1] = e
      /\ \A i \in 1..Len(echoed[c]) : echoed'[c][i] = echoed[c][i]
  BY <1>1, <1>3, AppendProperties DEF IInv, TypeOK
<1>5. TypeOK'
  <2>1. echoed' \in [Conns -> Seq(BOOLEAN \X Seq(1..MaxMessages))]
    BY <1>1, <1>4 DEF IInv, TypeOK, OnWsWritten, e
  <2>2. buffer_' \in [Conns -> Seq(1..MaxMessages)]
    BY EmptySeq DEF IInv, TypeOK, OnWsWritten
  <2> QED
    BY <2>1, <2>2 DEF IInv, TypeOK, OnWsWritten, httpVars, upVars
<1>6. \A d \in Conns : d # c => UNCHANGED ConnView(d)
  BY DEF IInv, TypeOK, OnWsWritten, ConnView, httpVars, upVars
<1>7. CountInv(c)'
  BY <1>1 DEF IInv, ConnInv, CountInv, Between, Forwarding
<1>8. OrderInv(c)' /\ SecureInv(c)' /\ DeadlineInv(c)'
  BY <1>1 DEF IInv, ConnInv, OrderInv, SecureInv, DeadlineInv
<1>9. EchoInv(c)'
  <2>1. \A i \in 1..Len(echoed'[c]) : echoed'[c][i] = <<received[c][i], <<i>>>>
    BY <1>1, <1>2, <1>4 DEF IInv, ConnInv, EchoInv
  <2> QED
    BY <1>1, <1>2, <1>4, <2>1 DEF IInv, ConnInv, EchoInv
<1> QED
  BY <1>5, <1>6, <1>7, <1>8, <1>9, OthersKeep DEF IInv, ConnInv

\* Every step is quiet, is one of the six others or changes nothing of a connection.
LEMMA NextInv == IInv /\ [Next]_vars => IInv'
<1> SUFFICES ASSUME IInv, [Next]_vars PROVE IInv'
  OBVIOUS
<1>1. CASE UNCHANGED vars
  <2>1. TypeOK'
    BY <1>1 DEF vars, IInv, TypeOK
  <2>2. ASSUME NEW c \in Conns PROVE ConnInv(c)'
    BY <1>1, SameView DEF vars, ConnView, IInv
  <2> QED
    BY <2>1, <2>2 DEF IInv
<1>2. ASSUME NEW c \in Conns, ClientSteps(c) \/ UpSteps(c) \/ WsSteps(c) \/ Time(c) PROVE IInv'
  BY <1>2, QuietStep, ReadStep, UpWrittenStep, UpReadStep, RepliedStep, WsReadStep, WsWrittenStep
     DEF ClientSteps, UpSteps, WsSteps, Quiet
<1> QED
  BY <1>1, <1>2 DEF Next, OnAcceptFails

\* The invariant holds in every reachable state.
LEMMA Invariance == Spec => []IInv
BY InitInv, NextInv, PTL DEF Spec

-----------------------------------------------------------------------------
(* The theorems.                                                           *)

\* Every variable keeps its type.
THEOREM TypeCorrect == Spec => []TypeOK
<1>1. IInv => TypeOK
  BY DEF IInv
<1> QED
  BY <1>1, Invariance, PTL

\* No request is written upstream in the clear, although the error of the connection
\* is ignored: the handshake fails in its place.
THEOREM NothingInTheClear == Spec => []RequestOnlyOverTls
<1>1. IInv => RequestOnlyOverTls
  BY DEF IInv, ConnInv, SecureInv, RequestOnlyOverTls
<1> QED
  BY <1>1, Invariance, PTL

\* The requests of a connection are forwarded in order, each once.
THEOREM Forwarded == Spec => []ForwardedInOrder
<1>1. ASSUME IInv, NEW c \in Conns
      PROVE  /\ \A i \in DOMAIN forwarded[c] : forwarded[c][i] = i
             /\ requests[c] <= Len(forwarded[c]) + 1
             /\ state[c] = "reading" => requests[c] = Len(forwarded[c])
  <2>1. /\ DOMAIN forwarded[c] = 1..Len(forwarded[c]) /\ Len(forwarded[c]) \in Nat
        /\ Len(replies[c]) \in Nat /\ answered[c] \in Nat /\ requests[c] \in Nat
    BY <1>1, LenProperties DEF IInv, TypeOK
  <2> QED
    BY <1>1, <2>1 DEF IInv, ConnInv, OrderInv, CountInv, Between
<1>2. IInv => ForwardedInOrder
  BY <1>1 DEF ForwardedInOrder
<1> QED
  BY <1>2, Invariance, PTL

\* The client gets a response for each of its requests, after the upstream server
\* gave one.
THEOREM Replied == Spec => []RepliesFollowAnswers
<1>1. IInv => RepliesFollowAnswers
  BY DEF IInv, ConnInv, CountInv, Between, RepliesFollowAnswers
<1> QED
  BY <1>1, Invariance, PTL

\* No client holds a session for ever: every operation that waits for it is timed, a
\* WebSocket excepted, and so are connect and handshake with the upstream server.
THEOREM Timed == Spec => []Deadlines
<1>1. IInv => Deadlines
  BY DEF IInv, ConnInv, DeadlineInv, Deadlines
<1> QED
  BY <1>1, Invariance, PTL

\* websocket_session echoes each message once, alone and as its kind.
THEOREM Echoed == Spec => []EchoesWhatItRead
<1>1. ASSUME IInv, NEW c \in Conns
      PROVE  /\ \A i \in DOMAIN echoed[c] : echoed[c][i] = <<received[c][i], <<i>>>>
             /\ state[c] = "wsReading" => Len(echoed[c]) = Len(received[c])
  <2>1. DOMAIN echoed[c] = 1..Len(echoed[c])
    BY <1>1, LenProperties DEF IInv, TypeOK
  <2> QED
    BY <1>1, <2>1 DEF IInv, ConnInv, EchoInv
<1>2. IInv => EchoesWhatItRead
  BY <1>1 DEF EchoesWhatItRead
<1> QED
  BY <1>2, Invariance, PTL
=============================================================================
