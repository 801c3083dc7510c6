---------------------------- MODULE ProxyMessages ----------------------------
(***************************************************************************)
(* The messages of protos/Proxy.proto as the generated classes handle      *)
(* them.  A message is a record with its fields and the unknown ones; what *)
(* goes over the wire is a sequence of fields, each with its number, its   *)
(* wire type and its value, in the place of their bytes.                   *)
(*                                                                         *)
(* The generic operators hold what the generated code of the six classes   *)
(* has in common; each class is its list of fields and five operators.     *)
(* ByteSizeLong, MergeFrom, CopyFrom and Swap, which the proxy and its     *)
(* clients do not call, are left out.                                      *)
(***************************************************************************)
EXTENDS Integers, Sequences, FiniteSetsExt

CONSTANT NotUtf8   \* the strings that occur and are not valid UTF-8

ASSUME Utf8Assumption == "" \notin NotUtf8

Varint == 0
Bytes  == 2

Int32(n, name) == [num |-> n, name |-> name, wire |-> Varint, default |-> 0]
Str(n, name)   == [num |-> n, name |-> name, wire |-> Bytes, default |-> ""]

-----------------------------------------------------------------------------
\* A message with value[i] in the field T[i].
Message(T, value, unknown) ==
  [name \in {T[i].name : i \in DOMAIN T} \cup {"unknown"} |->
     IF name = "unknown" THEN unknown
     ELSE value[CHOOSE i \in DOMAIN T : T[i].name = name]]

\* The default constructors, and Clear.
Clear(T) == Message(T, [i \in DOMAIN T |-> T[i].default], <<>>)

\* What s has at the positions in I, in their order.
Selected(s, I) ==
  [k \in 1..Cardinality(I) |-> s[CHOOSE i \in I : Cardinality({j \in I : j <= i}) = k]]

\* A field that has its default value is not written.  VerifyUtf8String(SERIALIZE)
\* only logs.
Emitted(T, m) == Selected(T, {i \in DOMAIN T : m[T[i].name] # T[i].default})
Token(m, f)   == [num |-> f.num, wire |-> f.wire, val |-> m[f.name]]

Serialize(T, m) ==
  LET fields == Emitted(T, m)
  IN [i \in DOMAIN fields |-> Token(m, fields[i])] \o m.unknown

\* The field that a token is for: its number must have that wire type.
IsFor(t, f)  == t.num = f.num /\ t.wire = f.wire
Known(T, t)  == \E i \in DOMAIN T : IsFor(t, T[i])

\* Mutant: strings are not verified.
ValidUnchecked(T, wire) == \A i \in DOMAIN wire : wire[i].wire \in {Varint, Bytes}

\* Strings must be UTF-8, or the message is not parsed.
Valid(T, wire) ==
  \A i \in DOMAIN wire :
    Known(T, wire[i]) /\ wire[i].wire = Bytes => wire[i].val \notin NotUtf8

\* The last token for a field counts; one that is for none is kept as unknown.
Parse(T, wire) ==
  LET For(i) == {k \in DOMAIN wire : IsFor(wire[k], T[i])}
  IN [ok  |-> Valid(T, wire),
      msg |-> Message(T, [i \in DOMAIN T |-> IF For(i) = {} THEN T[i].default
                                             ELSE wire[Max(For(i))].val],
                      Selected(wire, {k \in DOMAIN wire : ~Known(T, wire[k])}))]

-----------------------------------------------------------------------------
ProduceRequest ==
  <<Str(1, "topic"), Str(2, "group"), Str(3, "tag"), Str(4, "body"), Int32(5, "delayLevel")>>

NewProduceRequest          == Clear(ProduceRequest)
ParseProduceRequest(wire)  == Parse(ProduceRequest, wire)
SerializeProduceRequest(m) == Serialize(ProduceRequest, m)
SetProduceRequest(m, topic, group, tag, body, delayLevel) ==
  [m EXCEPT !.topic = topic, !.group = group, !.tag = tag, !.body = body,
            !.delayLevel = delayLevel]

-----------------------------------------------------------------------------
ProduceReply == <<Int32(1, "code"), Str(2, "msg_id"), Str(3, "err_msg")>>

NewProduceReply          == Clear(ProduceReply)
ParseProduceReply(wire)  == Parse(ProduceReply, wire)
SerializeProduceReply(m) == Serialize(ProduceReply, m)
SetProduceReply(m, code, msgId, errMsg) ==
  [m EXCEPT !.code = code, !.msg_id = msgId, !.err_msg = errMsg]

-----------------------------------------------------------------------------
ConsumeRequest == <<Str(1, "topic"), Str(2, "consumer_group")>>

NewConsumeRequest          == Clear(ConsumeRequest)
ParseConsumeRequest(wire)  == Parse(ConsumeRequest, wire)
SerializeConsumeRequest(m) == Serialize(ConsumeRequest, m)
SetConsumeRequest(m, topic, group) ==
  [m EXCEPT !.topic = topic, !.consumer_group = group]

-----------------------------------------------------------------------------
ConsumeReply ==
  <<Int32(1, "code"), Str(2, "msg_id"), Str(3, "body"), Str(4, "error_msg")>>

NewConsumeReply          == Clear(ConsumeReply)
ParseConsumeReply(wire)  == Parse(ConsumeReply, wire)
SerializeConsumeReply(m) == Serialize(ConsumeReply, m)
\* Mutant: the arguments in the order of responseMsg's.
SetConsumeReplySwapped(m, code, msgId, body, errorMsg) ==
  [m EXCEPT !.code = code, !.msg_id = body, !.body = errorMsg, !.error_msg = msgId]

SetConsumeReply(m, code, msgId, body, errorMsg) ==
  [m EXCEPT !.code = code, !.msg_id = msgId, !.body = body, !.error_msg = errorMsg]

-----------------------------------------------------------------------------
ConsumeAckRequest ==
  <<Str(1, "topic"), Str(2, "msg_id"), Str(3, "consumer_group"), Int32(4, "status")>>

NewConsumeAckRequest          == Clear(ConsumeAckRequest)
ParseConsumeAckRequest(wire)  == Parse(ConsumeAckRequest, wire)
SerializeConsumeAckRequest(m) == Serialize(ConsumeAckRequest, m)
SetConsumeAckRequest(m, topic, msgId, group, status) ==
  [m EXCEPT !.topic = topic, !.msg_id = msgId, !.consumer_group = group, !.status = status]

-----------------------------------------------------------------------------
ConsumeAckReply == <<Int32(1, "code"), Str(2, "msg_id"), Str(4, "error_msg")>>

NewConsumeAckReply          == Clear(ConsumeAckReply)
ParseConsumeAckReply(wire)  == Parse(ConsumeAckReply, wire)
SerializeConsumeAckReply(m) == Serialize(ConsumeAckReply, m)
SetConsumeAckReply(m, code, msgId, errorMsg) ==
  [m EXCEPT !.code = code, !.msg_id = msgId, !.error_msg = errorMsg]

-----------------------------------------------------------------------------
(* The classes that protoc generates for PHP differ in their setters:       *)
(* GPBUtil::checkString throws for a string that is not UTF-8.              *)

Checked(strings, m) == [ok |-> strings \cap NotUtf8 = {}, msg |-> m]

PhpSetProduceRequest(m, topic, group, tag, body, delayLevel) ==
  Checked({topic, group, tag, body}, SetProduceRequest(m, topic, group, tag, body, delayLevel))

PhpSetConsumeRequest(m, topic, group) ==
  Checked({topic, group}, SetConsumeRequest(m, topic, group))

\* Common.php does not call setStatus.
PhpSetConsumeAckRequest(m, topic, msgId, group) ==
  Checked({topic, msgId, group}, SetConsumeAckRequest(m, topic, msgId, group, m.status))
=============================================================================
