----------------------------------- MODULE Framing -----------------------------------
(***************************************************************************)
(* Messages on a connection: Message::encode and decode (rpc_protocol.h),  *)
(* Socket::receive (socket.cpp) and what the receiver reads of the content *)
(* (rpc_server.h, rpc_client.h), over Serializer.                          *)
(*                                                                         *)
(* A connection is a stream of bytes. recv gives any part of what has come *)
(* and Socket::receive goes on until it has a message, 20 bytes of header  *)
(* and then as many as the header says. One direction of one connection is *)
(* modelled: requests, from a client to a server, or answers from a server *)
(* to a client. The peer may end at any moment and takes with it what has  *)
(* not left it.                                                            *)
(*                                                                         *)
(* Nothing in the source catches what checkRead throws: an exception ends  *)
(* the process of the receiver. That the function a request names is       *)
(* registered is a matter of Registry.                                     *)
(***************************************************************************)
EXTENDS Serializer, FiniteSets

CONSTANTS Requests,     \* [name, types, values], the calls a client makes
          Answers,      \* [types, values], with one value
          MaxSent       \* bound: messages sent

IsMessage(m, content) ==
    /\ m.types \in Seq(Type)
    /\ m.values = [k \in 1..Len(m.types) |-> m.values[k]]
    /\ \A k \in 1..Len(m.types) : m.values[k] \in ValuesOf(m.types[k])
    /\ Len(content) < SizeBound

VARIABLES
    way,        \* "request" or "answer": what this direction carries
    sent,       \* the messages sent so far
    wire,       \* the bytes not yet received
    alive,      \* the peer has not closed the connection
    lost,       \* bytes of messages that never left the peer
    data,       \* the Serializer of the message that is being received
    part,       \* the receive call it is at, 1 to 6 the header and 7 the content
    left,       \* the bytes this call still waits for
    arrived,    \* the values the receiver has read
    state       \* of the receiver: "open", "closed" or "terminated"

vars == <<way, sent, wire, alive, lost, data, part, left, arrived, state>>

\* A message whose result is what was left in an uninitialised variable.
Undefined == <<>>

-----------------------------------------------------------------------------
(* The message                                                             *)

HeaderSize == 20

\* Wrong: the size is that of the message.
encodeWhole(type, seq, content) ==
    WriteNum("uint8", 102) \o WriteNum("uint8", 1) \o WriteNum("uint8", type)
        \o WriteNum("uint8", 0) \o Size(seq) \o Size(HeaderSize + Len(content)) \o content

\* Message::encode: magic, version, type, errCode, seq and the content as a string.
encode(type, seq, content) ==
    WriteNum("uint8", 102) \o WriteNum("uint8", 1) \o WriteNum("uint8", type)
        \o WriteNum("uint8", 0) \o Size(seq) \o WriteStr(content)

\* RpcClient::call, RpcServer::callFunc: the arguments are a tuple, the result a variable.
RequestContent(m) == WriteStr(m.name) \o WriteTuple(m.types, m.values)
AnswerContent(m) == Write(m.types[1], m.values[1])

Content(m) == IF way = "request" THEN RequestContent(m) ELSE AnswerContent(m)

\* handleCLientRequest, unpack: the name, then the arguments.
ReadRequest(m, pos) ==
    LET name == ReadStr(data, pos)
    IN  IF name.ok THEN ReadTuple(m.types, data, name.pos) ELSE Thrown

\* RpcCLient::call: nothing is read of an empty content. The code reads on while the
\* content has not ended, which one value does unless it has lost strings.
ReadAnswer(m, pos) ==
    IF pos >= Len(data) THEN Got(Undefined, pos) ELSE ReadTuple(m.types, data, pos)

ReadContent(m) ==
    IF way = "request" THEN ReadRequest(m, HeaderSize) ELSE ReadAnswer(m, HeaderSize)

\* The message that is being received. Requests of another peer are another stream.
Current == sent[Len(arrived) + 1]

\* Every call is made with values of the types the function has, an answer has one value.
ASSUME MessageAssumption ==
    /\ \A m \in Requests : m.name \in Seq(Byte) /\ IsMessage(m, RequestContent(m))
    /\ \A m \in Answers : Len(m.types) = 1 /\ IsMessage(m, AnswerContent(m))

-----------------------------------------------------------------------------
(* The peer                                                                *)

Messages == IF way = "request" THEN Requests ELSE Answers

Send(m) ==
    /\ alive
    /\ Len(sent) < MaxSent
    /\ sent' = Append(sent, m)
    /\ wire' = wire \o encode(IF way = "request" THEN 0 ELSE 4, Len(sent) + 1, Content(m))
    /\ UNCHANGED <<way, alive, lost, data, part, left, arrived, state>>

\* The connection ends behind the first n of the bytes on their way.
End(n) ==
    /\ alive
    /\ alive' = FALSE
    /\ wire' = SubSeq(wire, 1, n)
    /\ lost' = Len(wire) - n
    /\ UNCHANGED <<way, sent, data, part, left, arrived, state>>

-----------------------------------------------------------------------------
(* Socket::receive                                                         *)

\* recv gives n bytes. Before there are any, the coroutine yields.
Recv(n) ==
    /\ state = "open" /\ left > 0
    /\ wire' = SubSeq(wire, n + 1, Len(wire))
    /\ data' = data \o SubSeq(wire, 1, n)
    /\ left' = left - n
    /\ UNCHANGED <<way, sent, alive, lost, part, arrived, state>>

\* The sizes of the parts of the header, and where each part begins.
Header == <<1, 1, 1, 1, 8, 8>>
Offset == <<0, 1, 2, 3, 4, 12, HeaderSize>>

LowerOf(m, n) == IF m < n THEN m ELSE n

\* Wrong: nothing to receive is taken for the end.
RecvEndEarly ==
    /\ state = "open" /\ left > 0
    /\ wire = <<>>
    /\ left' = 0
    /\ UNCHANGED <<way, sent, wire, alive, lost, data, part, arrived, state>>

\* recv gives 0: the part stays as short as it is.
RecvEnd ==
    /\ state = "open" /\ left > 0
    /\ wire = <<>> /\ ~alive
    /\ left' = 0
    /\ UNCHANGED <<way, sent, wire, alive, lost, data, part, arrived, state>>

\* recv fails, as after a reset by the peer: nothing of the part is kept.
RecvFails ==
    /\ state = "open" /\ left > 0
    /\ wire = <<>> /\ ~alive
    /\ left' = 0
    /\ data' = SubSeq(data, 1, LowerOf(Len(data), Offset[part]))
    /\ UNCHANGED <<way, sent, wire, alive, lost, part, arrived, state>>

NextPart ==
    /\ state = "open" /\ left = 0
    /\ part < Len(Header)
    /\ part' = part + 1
    /\ left' = Header[part + 1]
    /\ UNCHANGED <<way, sent, wire, alive, lost, data, arrived, state>>

\* The last eight bytes of the header are the size of the content.
ContentSize == ReadNum("uint64", data, HeaderSize - 8)

\* The header is there, or what has come of it: nothing at all if the peer has closed.
HeaderRead ==
    /\ state = "open" /\ left = 0
    /\ part = Len(Header)
    /\ IF data = <<>>
       THEN state' = "closed" /\ UNCHANGED <<part, left>>
       ELSE IF ContentSize.ok
       THEN part' = part + 1 /\ left' = ContentSize.val /\ UNCHANGED state
       ELSE state' = "terminated" /\ UNCHANGED <<part, left>>
    /\ UNCHANGED <<way, sent, wire, alive, lost, data, arrived>>

\* Wrong: the message is used again as it is.
HandleAgain ==
    /\ state = "open" /\ left = 0
    /\ part > Len(Header)
    /\ LET values == ReadContent(Current) IN
       IF values.ok
       THEN arrived' = Append(arrived, values.val) /\ part' = 1 /\ left' = Header[1]
            /\ UNCHANGED state
       ELSE state' = "terminated" /\ UNCHANGED <<arrived, part, left>>
    /\ UNCHANGED <<way, sent, wire, alive, lost, data>>

\* The content is there, or what has come of it. The receiver decodes and reads it.
Handle ==
    /\ state = "open" /\ left = 0
    /\ part > Len(Header)
    /\ LET values == ReadContent(Current) IN
       IF values.ok
       THEN /\ arrived' = Append(arrived, values.val)
            /\ data' = <<>> /\ part' = 1 /\ left' = Header[1]
            /\ UNCHANGED state
       ELSE state' = "terminated" /\ UNCHANGED <<arrived, data, part, left>>
    /\ UNCHANGED <<way, sent, wire, alive, lost>>

-----------------------------------------------------------------------------
Init ==
    /\ way \in {"request", "answer"}
    /\ sent = <<>> /\ wire = <<>> /\ arrived = <<>> /\ data = <<>>
    /\ alive = TRUE
    /\ lost = 0
    /\ part = 1 /\ left = Header[1]
    /\ state = "open"

\* What recv gives in one piece comes one by one as well: one byte or all are enough.
\* What has left the peer at its end may have been received before: all or nothing too.
Receive ==
    \/ \E n \in {1, LowerOf(left, Len(wire))} : wire # <<>> /\ Recv(n)
    \/ RecvEnd
    \/ RecvFails
    \/ NextPart
    \/ HeaderRead
    \/ Handle

Next ==
    \/ \E m \in Messages : Send(m)
    \/ \E n \in {0, Len(wire)} : End(n)
    \/ Receive

Spec == Init /\ [][Next]_vars

-----------------------------------------------------------------------------
(* Properties                                                              *)

\* A string that is an element of a container is lost, and an argument as well.
LosesString(type) ==
    CASE type.kind = "vector" -> type.of = Str
      [] type.kind = "map" -> Str \in {type.key, type.of}
      [] OTHER -> way = "request" /\ type = Str

HasLostString(m) == \E k \in 1..Len(m.types) : LosesString(m.types[k])

\* The receive calls stay within a message: no part is longer than its message, and
\* the receiver has read no more messages than were sent.
TypeOK ==
    /\ way \in {"request", "answer"}
    /\ alive \in BOOLEAN
    /\ lost \in Nat
    /\ part \in 1..Len(Header) + 1
    /\ left \in Nat
    /\ state \in {"open", "closed", "terminated"}
    /\ part <= Len(Header) => Len(data) + left <= HeaderSize
    /\ Len(arrived) <= Len(sent)

\* However the stream is cut into pieces, every call reaches the function with the values
\* it was made with, and every answer its call, in the order of sending. Only strings may
\* get lost, and an answer of which only the header has left the peer becomes whatever
\* the variable of the result held (rpc_client.h:138).
ValuesArrive ==
    \A k \in 1..Len(arrived) :
        \/ arrived[k] = sent[k].values
        \/ HasLostString(sent[k])
        \/ arrived[k] = Undefined /\ way = "answer" /\ lost > 0

\* A receiver ends by an exception only if its peer ended in the middle of a message, or
\* a string was lost; and it takes the connection for closed only when it has read all
\* messages that have left the peer.
EndsAtMessage ==
    /\ state = "terminated" => lost > 0 \/ \E k \in 1..Len(sent) : HasLostString(sent[k])
    /\ state = "closed" /\ lost = 0 => Len(arrived) = Len(sent)

\* A receiver that waits for bytes while none are on their way has read every message that
\* was sent: no message is taken for longer or shorter than it is, nobody waits for the rest
\* of a message that is complete, and no remainder is left for the next one to begin with.
DrainedIsRead ==
    state = "open" /\ wire = <<>> /\ alive /\ left > 0 =>
        data = <<>> /\ Len(arrived) = Len(sent)

=============================================================================
