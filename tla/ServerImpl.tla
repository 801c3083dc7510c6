------------------------------ MODULE ServerImpl ------------------------------
(***************************************************************************)
(* ServerImpl::HandleRpcs: call objects of three classes, which register   *)
(* for a request, and the completion queue, whose events HandleRpcs gives  *)
(* to the object they are tagged with.  One thread handles the events; the *)
(* producer's callbacks and the matcher answer calls on theirs.            *)
(*                                                                         *)
(* What the worker does with a message is reduced here to where it is:     *)
(* with the broker, held for a client, or gone, and why.  MsgWorker.tla    *)
(* has the batches, ProduceCallData.tla the threads of the retries.  gRPC  *)
(* is external: a request that does not parse fails without an event, and  *)
(* Finish is reported not ok if the client is away.  Next fails, and a     *)
(* request is reported not ok, when the server is shut down only, which    *)
(* nothing does.                                                           *)
(***************************************************************************)
EXTENDS ProxyMessages

CONSTANTS
  Copies,     \* call objects of each class that exist at a time (bound)
  MaxRetry,   \* ROCKETMQ_PROXY_PRODUCE_MAX_RETRY_COUNT
  Client,     \* clients, with one RPC at a time
  NoClient,
  MsgId,      \* messages the broker has for a consumer: their ids, strings
  Body        \* and the body of each

RequestType == {"REQUEST_PRODUCE", "REQUEST_CONSUME", "REQUEST_CONSUME_ACK"}

ASSUME CopiesAssumption == Copies \in [RequestType -> Nat \ {0, 1}]

ASSUME MaxRetryAssumption == MaxRetry \in Nat

ASSUME MsgIdAssumption ==
  "" \notin MsgId /\ NoClient \notin Client /\ DOMAIN Body = MsgId

VARIABLES
  call,       \* CallDataBase and its subclasses
  requested,  \* objects whose tag waits for a request
  finishing,  \* objects whose tag waits for the end of Finish
  queue,      \* events the completion queue has: a tag, and ok
  producing,  \* objects that a ProducerCallback refers to
  matching,   \* objects that a ConsumeMsgUnit refers to
  retryCount, \* CallDataBase::retryCount, of each object
  rpc,        \* each client's RPC; away if the client is gone
  store       \* where each message is

workVars   == <<producing, matching>>
serverVars == <<call, requested, finishing, queue, producing, matching, retryCount, rpc, store>>

Object == UNION {{type} \X (1..Copies[type]) : type \in RequestType}

\* NONE: not allocated.
CallStatus == {"NONE", "CREATE", "PROCESS", "FINISH"}

RESPONSE_SUCCESS == 0
RESPONSE_ERROR   == 1
RESPONSE_TIMEOUT == 1000

CONSUME_SUCCESS == 0
RECONSUME_LATER == 1

RpcPC == {"idle", "sent", "arrived", "ok", "failed"}

\* acked: a client's verdict made it a consumed one.  unlocked: the shutdown of the
\* consumer did, without a client.
Place == {"broker", "held", "acked", "unlocked"}

\* RMQProxy_method_names; the stub and the service use the same numbers.
MethodName == [i \in 0..2 |-> <<"Produce", "Consume", "ConsumeAck">>[i + 1]]

\* The classes' requests and replies.
NewRequest(type) ==
  CASE type = "REQUEST_PRODUCE"     -> NewProduceRequest
    [] type = "REQUEST_CONSUME"     -> NewConsumeRequest
    [] type = "REQUEST_CONSUME_ACK" -> NewConsumeAckRequest

ParseRequest(type, wire) ==
  CASE type = "REQUEST_PRODUCE"     -> ParseProduceRequest(wire)
    [] type = "REQUEST_CONSUME"     -> ParseConsumeRequest(wire)
    [] type = "REQUEST_CONSUME_ACK" -> ParseConsumeAckRequest(wire)

NewReply(type) ==
  CASE type = "REQUEST_PRODUCE"     -> NewProduceReply
    [] type = "REQUEST_CONSUME"     -> NewConsumeReply
    [] type = "REQUEST_CONSUME_ACK" -> NewConsumeAckReply

SerializeReply(type, m) ==
  CASE type = "REQUEST_PRODUCE"     -> SerializeProduceReply(m)
    [] type = "REQUEST_CONSUME"     -> SerializeConsumeReply(m)
    [] type = "REQUEST_CONSUME_ACK" -> SerializeConsumeAckReply(m)

-----------------------------------------------------------------------------
(* The constructors.                                                        *)

Unused == [status |-> "NONE", type |-> "", method |-> "", request |-> <<>>, reply |-> <<>>,
           client |-> NoClient, msgId |-> ""]

\* RequestProduce, RequestConsume and RequestConsumeAck register for their method.
Method(type) ==
  CASE type = "REQUEST_PRODUCE"     -> MethodName[0]
    [] type = "REQUEST_CONSUME"     -> MethodName[1]
    [] type = "REQUEST_CONSUME_ACK" -> MethodName[2]

\* Mutant: create is dispatched to the subclass, and process() comes second.
BaseCreateVirtual(x) == [x EXCEPT !.status = "PROCESS"]

\* CallDataBase's constructor calls Proceed, and so CallDataBase::create, as the
\* object is not one of the subclass yet: nothing happens.
BaseCreate(x) == x

\* The subclass's constructor calls Proceed again, and with CREATE this is create.
Create(x) ==
  IF x.status = "CREATE"
  THEN [x EXCEPT !.status = "PROCESS", !.method = Method(x.type)] ELSE x

New(type) ==
  Create(BaseCreate([Unused EXCEPT !.status = "CREATE", !.type = type,
                                   !.request = NewRequest(type), !.reply = NewReply(type)]))

Free(type)   == {i \in 1..Copies[type] : call[<<type, i>>].status = "NONE"}
NewObj(type) == <<type, CHOOSE i \in Free(type) : TRUE>>

\* HandleRpcs makes one object of each class before it waits for events.
ServerInit ==
  /\ call = [o \in Object |-> IF o[2] = 1 THEN New(o[1]) ELSE Unused]
  /\ requested = {o \in Object : call[o].method # ""}
  /\ finishing = {} /\ queue = {} /\ producing = {} /\ matching = {}
  /\ retryCount = [o \in Object |-> 0]
  /\ rpc = [c \in Client |-> [pc |-> "idle", method |-> "", wire |-> <<>>, away |-> FALSE]]
  /\ store = [m \in MsgId |-> "broker"]

-----------------------------------------------------------------------------
(* gRPC.                                                                    *)

\* A request arrives for an object that waits for one of its method.
Arrive(c, o) ==
  /\ rpc[c].pc = "sent" /\ o \in requested /\ call[o].method = rpc[c].method
  /\ LET p == ParseRequest(call[o].type, rpc[c].wire)
     IN IF p.ok
        THEN /\ call' = [call EXCEPT ![o].request = p.msg, ![o].client = c]
             /\ requested' = requested \ {o}
             /\ queue' = queue \cup {[tag |-> o, ok |-> TRUE]}
             /\ rpc' = [rpc EXCEPT ![c].pc = "arrived", ![c].wire = <<>>]
        ELSE /\ rpc' = [rpc EXCEPT ![c].pc = "failed", ![c].wire = <<>>]
             /\ UNCHANGED <<call, requested, queue>>
  /\ UNCHANGED <<finishing, workVars, retryCount, store>>

\* Finish sends the reply; the client may be away, and gRPC may know or not.  The
\* messages of the call are not read again.
SendReply(o) ==
  LET c == call[o].client
  IN /\ o \in finishing
     /\ finishing' = finishing \ {o}
     /\ \E ok \in (IF rpc[c].away THEN BOOLEAN ELSE {TRUE}) :
          queue' = queue \cup {[tag |-> o, ok |-> ok]}
     /\ rpc' = [rpc EXCEPT ![c].pc = "ok",
                           ![c].wire = SerializeReply(call[o].type, call[o].reply)]
     /\ call' = [call EXCEPT ![o].request = <<>>, ![o].reply = <<>>]
     /\ UNCHANGED <<requested, workVars, retryCount, store>>

-----------------------------------------------------------------------------
(* HandleRpcs: the event e for the object it is tagged with.                *)

\* Proceed with an event that is ok, in the given status.
Proceed(e, type, status) ==
  /\ e \in queue /\ e.ok
  /\ call[e.tag].type = type /\ call[e.tag].status = status
  /\ queue' = queue \ {e}

\* process() makes the next object of its class, and answers or hands over this one.
WithNext(calls, type) == [calls EXCEPT ![NewObj(type)] = New(type)]

Finished(o, reply) == [call EXCEPT ![o].reply = reply, ![o].status = "FINISH"]

RegisterNext(type) ==
  requested' = IF New(type).method # "" THEN requested \cup {NewObj(type)} ELSE requested

\* ProduceCallData::process, for a request and for each retry of it: the message is
\* sent, or the call is finished with an error, as a parameter is missing or produce
\* throws.  The next object is made first.
TryProduce(o) ==
  LET r == call[o].request
      missing == "" \in {r.topic, r.group, r.tag, r.body}
      text == IF missing THEN "params error!" ELSE "failed"
  IN /\ Free("REQUEST_PRODUCE") # {}
     /\ RegisterNext("REQUEST_PRODUCE")
     /\ \/ /\ ~missing
           /\ call' = WithNext(call, "REQUEST_PRODUCE")
           /\ producing' = producing \cup {o}
           /\ UNCHANGED finishing
        \/ /\ call' = WithNext(Finished(o, SetProduceReply(call[o].reply, RESPONSE_ERROR, "",
                                                          text)), "REQUEST_PRODUCE")
           /\ producing' = producing \ {o}
           /\ finishing' = finishing \cup {o}

\* Mutant: a call with an error makes no next object.
ProcessProduceNoNext(e) ==
  /\ Proceed(e, "REQUEST_PRODUCE", "PROCESS")
  /\ \/ TryProduce(e.tag) /\ producing' # producing
     \/ /\ call' = Finished(e.tag, SetProduceReply(call[e.tag].reply, RESPONSE_ERROR, "",
                                                   "params error!"))
        /\ finishing' = finishing \cup {e.tag}
        /\ UNCHANGED <<producing, requested>>
  /\ UNCHANGED <<matching, retryCount, rpc, store>>

ProcessProduce(e) ==
  /\ Proceed(e, "REQUEST_PRODUCE", "PROCESS")
  /\ TryProduce(e.tag)
  /\ UNCHANGED <<matching, retryCount, rpc, store>>

ProcessConsume(e) ==
  /\ Proceed(e, "REQUEST_CONSUME", "PROCESS") /\ Free("REQUEST_CONSUME") # {}
  /\ RegisterNext("REQUEST_CONSUME")
  /\ call' = WithNext(call, "REQUEST_CONSUME")
  /\ matching' = matching \cup {e.tag}
  /\ UNCHANGED <<finishing, producing, retryCount, rpc, store>>

\* setMsgAck finds a message that is held; every status but RECONSUME_LATER makes
\* it a consumed one, and a request without a status has CONSUME_SUCCESS.
ProcessAck(e) ==
  LET o == e.tag
      r == call[o].request
      found == r.msg_id \in MsgId /\ store[r.msg_id] = "held"
  IN /\ Proceed(e, "REQUEST_CONSUME_ACK", "PROCESS") /\ Free("REQUEST_CONSUME_ACK") # {}
     /\ RegisterNext("REQUEST_CONSUME_ACK")
     /\ store' = [m \in MsgId |-> IF ~found \/ m # r.msg_id THEN store[m]
                                  ELSE IF r.status = RECONSUME_LATER THEN "broker" ELSE "acked"]
     /\ call' = WithNext(Finished(o, IF found
                    THEN SetConsumeAckReply(call[o].reply, RESPONSE_SUCCESS, "", "msg ack succ!")
                    ELSE SetConsumeAckReply(call[o].reply, RESPONSE_ERROR, "", "cannot be found!")),
                  "REQUEST_CONSUME_ACK")
     /\ finishing' = finishing \cup {o}
     /\ UNCHANGED <<workVars, retryCount, rpc>>

Del(e) ==
  /\ \E type \in RequestType : Proceed(e, type, "FINISH")
  /\ call' = [call EXCEPT ![e.tag] = Unused]
  /\ retryCount' = [retryCount EXCEPT ![e.tag] = 0]
  /\ UNCHANGED <<requested, finishing, workVars, rpc, store>>

\* The event is not ok: FINISH, and then del, by Proceed or at once; the message that
\* a ConsumeCallData had for the client is given back.
Cancel(e) ==
  /\ e \in queue /\ ~e.ok
  /\ queue' = queue \ {e}
  /\ call' = [call EXCEPT ![e.tag] = Unused]
  /\ retryCount' = [retryCount EXCEPT ![e.tag] = 0]
  /\ store' = [m \in MsgId |-> IF m = call[e.tag].msgId /\ store[m] = "held"
                               THEN "broker" ELSE store[m]]
  /\ UNCHANGED <<requested, finishing, workVars, rpc>>

Handle(o) ==
  \E ok \in BOOLEAN :
    LET e == [tag |-> o, ok |-> ok]
    IN ProcessProduce(e) \/ ProcessConsume(e) \/ ProcessAck(e) \/ Del(e) \/ Cancel(e)

-----------------------------------------------------------------------------
(* The other threads.                                                       *)

Answer(o, reply) ==
  /\ call' = Finished(o, reply)
  /\ finishing' = finishing \cup {o}
  /\ UNCHANGED <<requested, queue, rpc>>

\* successFunc, with the id that the broker gave the message.
SuccessFunc(o) ==
  /\ o \in producing
  /\ producing' = producing \ {o}
  /\ Answer(o, SetProduceReply(call[o].reply, RESPONSE_SUCCESS, "produced", ""))
  /\ UNCHANGED <<matching, retryCount, store>>

\* failureFunc: process() again, until the retries are used up.
FailureFunc(o) ==
  /\ o \in producing
  /\ retryCount' = [retryCount EXCEPT ![o] = @ + 1]
  /\ IF retryCount[o] + 1 > MaxRetry
     THEN /\ producing' = producing \ {o}
          /\ Answer(o, SetProduceReply(call[o].reply, RESPONSE_ERROR, "", "failed"))
     ELSE TryProduce(o) /\ UNCHANGED <<queue, rpc>>
  /\ UNCHANGED <<matching, store>>

\* The matcher's responseMsg for a message of the broker.
ResponseMsg(o, m) ==
  /\ o \in matching /\ store[m] = "broker"
  /\ matching' = matching \ {o}
  /\ store' = [store EXCEPT ![m] = "held"]
  /\ call' = [Finished(o, SetConsumeReply(call[o].reply, RESPONSE_SUCCESS, m, Body[m], ""))
                EXCEPT ![o].msgId = m]
  /\ finishing' = finishing \cup {o}
  /\ UNCHANGED <<requested, queue, producing, retryCount, rpc>>

\* Mutant: the request is dropped from the pool, and not answered.
ResponseTimeOutSilent(o) ==
  /\ o \in matching
  /\ matching' = matching \ {o}
  /\ UNCHANGED <<call, requested, finishing, queue, producing, retryCount, rpc, store>>

\* responseTimeOut.
ResponseTimeOut(o) ==
  /\ o \in matching
  /\ matching' = matching \ {o}
  /\ Answer(o, SetConsumeReply(call[o].reply, RESPONSE_TIMEOUT, "", "", "get msg timeout"))
  /\ UNCHANGED <<producing, retryCount, store>>

OnlyStore == UNCHANGED <<call, requested, finishing, queue, workVars, retryCount, rpc>>

\* The ack timeout: setMsgReconsume.
AckTimeOut(m) ==
  /\ store[m] = "held"
  /\ store' = [store EXCEPT ![m] = "broker"]
  /\ OnlyStore

\* The consumer is shut down with m in a batch, handed out or not: unlockAll ends the
\* wait of its callback, which finds no message to reconsume and returns it as a
\* consumed one.
UnlockAll(m) ==
  /\ store[m] \in {"broker", "held"}
  /\ store' = [store EXCEPT ![m] = "unlocked"]
  /\ OnlyStore

Respond(o) == SuccessFunc(o) \/ FailureFunc(o) \/ ResponseTimeOut(o)

ServerNext ==
  \E o \in Object :
    \/ (\E c \in Client : Arrive(c, o)) \/ SendReply(o) \/ Handle(o)
    \/ Respond(o) \/ \E m \in MsgId : ResponseMsg(o, m)

\* The threads go on with what they have for each client: its request waits until an
\* object of its class waits for it, and the matcher answers it if it has no message.
ForClient(c) ==
  \E o \in Object :
    call[o].client = c /\ (SendReply(o) \/ Respond(o))

\* Each action changes the variable it is subscripted with.
ServerFairness ==
  \A c \in Client :
    /\ SF_rpc(\E o \in Object : Arrive(c, o))
    /\ SF_queue(\E o \in Object : call[o].client = c /\ Handle(o))
    /\ WF_finishing(ForClient(c))

-----------------------------------------------------------------------------
\* An object has as many tags and references out as its status says: one in
\* PROCESS, which a request, an event, the producer or the matcher has; one in
\* FINISH, which Finish or an event has; and none that is deleted.
References(o) ==
  Cardinality({e \in queue : e.tag = o})
    + Cardinality({s \in {1, 2, 3, 4} : o \in <<requested, finishing, producing, matching>>[s]})

ReferencedOnce ==
  \A o \in Object :
    /\ References(o) = IF call[o].status = "NONE" THEN 0 ELSE 1
    /\ o \in requested \cup producing \cup matching => call[o].status = "PROCESS"
    /\ o \in finishing => call[o].status = "FINISH"

\* The objects of a class that wait for a request or have one not processed yet.
Unprocessed(type) ==
  {o \in Object : /\ call[o].type = type /\ call[o].status = "PROCESS"
                  /\ o \notin producing \cup matching}

\* Every class has an object for the next request, whatever the requests before it
\* came to.  Consume and ConsumeAck have one; Produce has one at least, as failureFunc
\* calls process() again, which makes another one with each retry.
NextWaits ==
  \A type \in RequestType :
    IF type = "REQUEST_PRODUCE" THEN Unprocessed(type) # {} ELSE Cardinality(Unprocessed(type)) = 1
=============================================================================
