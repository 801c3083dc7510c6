----------------------------- MODULE ProxyClients -----------------------------
(***************************************************************************)
(* The programs ConsumeClient, ProduceClient, php/Consumer.php and         *)
(* php/Producer.php, each a process with one RPC at a time, with their     *)
(* stubs and the server of ServerImpl.tla: what happens from the setters   *)
(* of a request to the getters of its reply.                               *)
(*                                                                         *)
(* A client may be killed at any time.  One that is built from a newer     *)
(* Proxy.proto may send fields that the server does not know.              *)
(***************************************************************************)
EXTENDS ServerImpl

CONSTANTS
  Programs,            \* what the clients may be, together (bound)
  Num,                 \* how many messages a ProduceClient sends
  AckStatus,           \* statuses that a ConsumeClient acknowledges with
  Delay,               \* delay levels and
  ProduceBody,         \* bodies that producers send
  Newer                \* the unknown fields of requests

\* none: there is no such client.
Program == {"ConsumeClient", "ProduceClient", "Consumer.php", "Producer.php", "none"}

ASSUME ClientAssumption == Programs \subseteq [Client -> Program] /\ Num \in Nat

ASSUME NewerAssumption ==
  \A extra \in Newer :
    /\ extra \in Seq({extra[i] : i \in DOMAIN extra})
    /\ \A T \in {ProduceRequest, ConsumeRequest, ConsumeAckRequest} :
         \A i \in DOMAIN extra : ~Known(T, extra[i])

VARIABLE client   \* program, pc, the msgId of a consumer, messages left, the last request

vars == <<serverVars, client>>

ClientPC == {"run", "produce", "consume", "ack", "exited"}

CallOf(o) == [status |-> call[o].status, type |-> call[o].type, client |-> call[o].client,
              msgId |-> call[o].msgId]

TypeOK ==
  /\ \A o \in Object :
       CallOf(o) \in [status : CallStatus, type : RequestType \cup {""},
                      client : Client \cup {NoClient}, msgId : MsgId \cup {""}]
  /\ requested \subseteq Object /\ finishing \subseteq Object
  /\ producing \subseteq Object /\ matching \subseteq Object
  /\ queue \subseteq [tag : Object, ok : BOOLEAN]
  /\ \A c \in Client : rpc[c].pc \in RpcPC /\ rpc[c].away \in BOOLEAN
  /\ retryCount \in [Object -> 0..MaxRetry + 1]
  /\ store \in [MsgId -> Place]
  /\ \A c \in Client : /\ client[c].program \in Program
                       /\ client[c].pc \in ClientPC /\ client[c].left \in 0..Num
                       /\ client[c].msgId \in MsgId \cup {""}

Start(program) ==
  [program |-> program, pc |-> "run", msgId |-> "", left |-> Num, request |-> <<>>]

Init ==
  /\ ServerInit
  /\ \E program \in Programs : client = [c \in Client |-> Start(program[c])]

-----------------------------------------------------------------------------
(* The stub.                                                                *)

BlockingUnaryCall(c, i, wire) ==
  rpc' = [rpc EXCEPT ![c].pc = "sent", ![c].method = MethodName[i], ![c].wire = wire]

\* Mutant: the number of another method.
StubConsumeAckMixed(c, m) == BlockingUnaryCall(c, 1, SerializeConsumeAckRequest(m))

StubProduce(c, m)    == BlockingUnaryCall(c, 0, SerializeProduceRequest(m))
StubConsume(c, m)    == BlockingUnaryCall(c, 1, SerializeConsumeRequest(m))
StubConsumeAck(c, m) == BlockingUnaryCall(c, 2, SerializeConsumeAckRequest(m))

\* The client waits with its request m, which the stub has sent.
Wait(c, pc, m) == client' = [client EXCEPT ![c].pc = pc, ![c].request = m]

Exited(c) == [Start(client[c].program) EXCEPT !.pc = "exited", !.left = 0]

Running(c, program) == client[c].pc = "run" /\ client[c].program = program

ServerUnchanged ==
  UNCHANGED <<call, requested, finishing, queue, workVars, retryCount, store>>

-----------------------------------------------------------------------------
(* The C++ clients' loops.                                                  *)

Produce(c) ==
  /\ Running(c, "ProduceClient") /\ client[c].left > 0
  /\ \E body \in ProduceBody, extra \in Newer :
       LET m == SetProduceRequest([NewProduceRequest EXCEPT !.unknown = extra],
                                  "topic", "topic", "*", body, 0)
       IN StubProduce(c, m) /\ Wait(c, "produce", m)
  /\ ServerUnchanged

Consume(c) ==
  /\ Running(c, "ConsumeClient") /\ client[c].msgId = ""
  /\ \E extra \in Newer :
       LET m == SetConsumeRequest([NewConsumeRequest EXCEPT !.unknown = extra],
                                  "topic", "topic")
       IN StubConsume(c, m) /\ Wait(c, "consume", m)
  /\ ServerUnchanged

ConsumeAck(c) ==
  /\ Running(c, "ConsumeClient") /\ client[c].msgId # ""
  /\ \E status \in AckStatus, extra \in Newer :
       LET m == SetConsumeAckRequest([NewConsumeAckRequest EXCEPT !.unknown = extra],
                                     "topic", client[c].msgId, "topic", status)
       IN StubConsumeAck(c, m) /\ Wait(c, "ack", m)
  /\ ServerUnchanged

\* The RPC of c returned: p is what its reply was parsed to.
Returned(c, program, pc, p) ==
  /\ client[c].program = program /\ client[c].pc = pc
  /\ rpc[c].pc = "ok" /\ p.ok
  /\ rpc' = [rpc EXCEPT ![c].pc = "idle", ![c].method = "", ![c].wire = <<>>]
  /\ ServerUnchanged

\* With a code, Produce ends without a return: the caller goes on with any string, or
\* does not go on.
ProduceReturned(c) ==
  LET p == ParseProduceReply(rpc[c].wire)
  IN /\ Returned(c, "ProduceClient", "produce", p)
     /\ \E pc \in (IF p.msg.code = 0 THEN {"run"} ELSE {"run", "exited"}) :
          client' = [client EXCEPT ![c] =
                       IF pc = "exited" THEN Exited(c)
                       ELSE [client[c] EXCEPT !.pc = pc, !.left = @ - 1, !.request = <<>>]]

ConsumeReturned(c) ==
  LET p == ParseConsumeReply(rpc[c].wire)
  IN /\ Returned(c, "ConsumeClient", "consume", p)
     /\ client' = [client EXCEPT ![c].pc = "run", ![c].request = <<>>,
                     ![c].msgId = IF p.msg.code = 0 THEN p.msg.msg_id ELSE @]

\* Whatever the code is, the loop goes on with emptyMsgId.
AckReturned(c) ==
  /\ Returned(c, "ConsumeClient", "ack", ParseConsumeAckReply(rpc[c].wire))
  /\ client' = [client EXCEPT ![c].pc = "run", ![c].request = <<>>, ![c].msgId = ""]

-----------------------------------------------------------------------------
(* The PHP clients: one message each, and an exception ends the script.     *)

PhpProduce(c) ==
  /\ Running(c, "Producer.php")
  /\ \E body \in ProduceBody, delay \in Delay :
       LET set == PhpSetProduceRequest(NewProduceRequest, "topic", "topic", "*", body, delay)
       IN IF set.ok
          THEN StubProduce(c, set.msg) /\ Wait(c, "produce", set.msg)
          ELSE client' = [client EXCEPT ![c] = Exited(c)] /\ UNCHANGED rpc
  /\ ServerUnchanged

PhpConsume(c) ==
  /\ Running(c, "Consumer.php") /\ client[c].msgId = ""
  /\ LET set == PhpSetConsumeRequest(NewConsumeRequest, "topic", "topic")
     IN set.ok /\ StubConsume(c, set.msg) /\ Wait(c, "consume", set.msg)
  /\ ServerUnchanged

PhpConsumeAck(c) ==
  /\ Running(c, "Consumer.php") /\ client[c].msgId # ""
  /\ LET set == PhpSetConsumeAckRequest(NewConsumeAckRequest, "topic", client[c].msgId, "topic")
     IN set.ok /\ StubConsumeAck(c, set.msg) /\ Wait(c, "ack", set.msg)
  /\ ServerUnchanged

PhpConsumeReturned(c) ==
  LET p == ParseConsumeReply(rpc[c].wire)
  IN /\ Returned(c, "Consumer.php", "consume", p)
     /\ client' = [client EXCEPT ![c] =
                     IF p.msg.code = 0
                     THEN [@ EXCEPT !.pc = "run", !.request = <<>>, !.msgId = p.msg.msg_id]
                     ELSE Exited(c)]

\* The last reply: it is shown, or thrown as an exception.
PhpReturned(c) ==
  /\ \/ Returned(c, "Producer.php", "produce", ParseProduceReply(rpc[c].wire))
     \/ Returned(c, "Consumer.php", "ack", ParseConsumeAckReply(rpc[c].wire))
  /\ client' = [client EXCEPT ![c] = Exited(c)]

-----------------------------------------------------------------------------
(* The end of a client.                                                     *)

Unreadable(c) ==
  LET wire == rpc[c].wire
  IN \/ client[c].pc = "produce" /\ ~ParseProduceReply(wire).ok
     \/ client[c].pc = "consume" /\ ~ParseConsumeReply(wire).ok
     \/ client[c].pc = "ack" /\ ~ParseConsumeAckReply(wire).ok

\* A status that is not OK, as the request or the reply was not parsed: exit(1), or an
\* error, as PHP has no reply then.
Exit(c) ==
  /\ rpc[c].pc = "failed" \/ (rpc[c].pc = "ok" /\ Unreadable(c))
  /\ client' = [client EXCEPT ![c] = Exited(c)]
  /\ rpc' = [rpc EXCEPT ![c].pc = "idle", ![c].wire = <<>>, ![c].away = TRUE]
  /\ ServerUnchanged

\* The process is killed; a request that it sent may arrive all the same.
Kill(c) ==
  /\ client[c].pc # "exited"
  /\ client' = [client EXCEPT ![c] = Exited(c)]
  /\ rpc' = [rpc EXCEPT ![c].away = TRUE]
  /\ ServerUnchanged

Send(c) ==
  \/ Produce(c) \/ Consume(c) \/ ConsumeAck(c)
  \/ PhpProduce(c) \/ PhpConsume(c) \/ PhpConsumeAck(c)

Return(c) ==
  \/ ProduceReturned(c) \/ ConsumeReturned(c) \/ AckReturned(c)
  \/ PhpConsumeReturned(c) \/ PhpReturned(c) \/ Exit(c)

Next ==
  \/ ServerNext /\ UNCHANGED client
  \/ (\E m \in MsgId : AckTimeOut(m) \/ UnlockAll(m)) /\ UNCHANGED client
  \/ \E c \in Client : Send(c) \/ Return(c) \/ Kill(c)

Spec == Init /\ [][Next]_vars

FairSpec == Spec /\ ServerFairness /\ \A c \in Client : WF_client(Return(c))

-----------------------------------------------------------------------------
\* What process() reads from its request_ is what the client has set, for each method,
\* with the fields that are left at their defaults and those the server does not know.
RequestIntact ==
  \A o \in Object :
    call[o].status = "PROCESS" /\ call[o].client # NoClient
      /\ ~rpc[call[o].client].away => call[o].request = client[call[o].client].request

\* A message whose body no client can parse is acknowledged by none of them: it goes
\* back to the broker however often it is delivered, until a shutdown of the consumer
\* reports it as consumed (UnlockAll).
UnreadableNotAcked == \A m \in MsgId : Body[m] \in NotUtf8 => store[m] # "acked"

\* Every RPC ends, whatever the other clients do.
RpcEnds == \A c \in Client : client[c].pc \in {"produce", "consume", "ack"} ~>
                             client[c].pc \in {"run", "exited"}
=============================================================================
