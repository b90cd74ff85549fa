------------------------------- MODULE Codecs -------------------------------
(***************************************************************************)
(* The two byte formats: node information (src/src/pyzlc/utils/node_info.py*)
(* with BinWriter and BinReader) and heartbeats (HeartbeatMessage and      *)
(* decode_heartbeat_message in src/src/pyzlc/utils/msg.py).  A message is  *)
(* encoded, may be cut short on its way, and is decoded.  The calls of     *)
(* BinWriter are the steps of encode_node_info, those of BinReader the     *)
(* steps of decode_node_info; both go through the fields in one order.     *)
(*                                                                         *)
(* Strings are sequences of bytes: that a cut character does not decode    *)
(* only makes more decodings fail.  Numbers have 2 bytes (H) or 4 (I, i)   *)
(* as in the code; how many values a byte has is a parameter.              *)
(***************************************************************************)
EXTENDS Integers, Sequences

CONSTANTS
  Base,          \* values of a byte: 256 in the code
  IdLength,      \* bytes of a node ID: 36
  Infos,         \* node informations
  Heartbeats     \* heartbeat messages

Byte == 0 .. Base - 1
Ids == [1 .. IdLength -> Byte]
Sockets == [name : Seq(Byte), ip : Seq(Byte), port : Int]

(* A node's sockets have its ip (nodes_info_manager.py:93, 100); IDs are uuids. *)
IsNodeInfo(m) ==
  /\ m \in [nodeID : Ids, infoID : Int, name : Seq(Byte), ip : Seq(Byte),
            topics : Seq(Sockets), services : Seq(Sockets)]
  /\ \A i \in DOMAIN m.topics : m.topics[i].ip = m.ip
  /\ \A i \in DOMAIN m.services : m.services[i].ip = m.ip

ASSUME CodecsAssumption ==
  /\ Base \in Nat \ {0, 1}
  /\ IdLength \in Nat
  /\ \A m \in Infos : IsNodeInfo(m)
  /\ Heartbeats \subseteq [zlc_version : [1 .. 3 -> Int], node_id : Ids, info_id : Int,
                           service_port : Int, group_name : Seq(Byte)]

VARIABLES
  message,   \* what is sent
  sent,      \* its bytes
  data,      \* those that have arrived
  phase,     \* of the message
  field,     \* what is written or read next
  left,      \* sockets that are left of a list
  pos,       \* BinReader.pos: bytes read
  decoded,   \* what has been decoded
  marks      \* history: where the writer was when it came to a field

vars == <<message, sent, data, phase, field, left, pos, decoded, marks>>

Phases == {"encode", "decode", "done", "error", "unsendable"}
Fields ==
  {"nodeID", "infoID", "name", "ip", "topics", "topic", "services", "service", "end"}

IsInfo(m) == m \notin Heartbeats

(* The fields that are a count, and the list of the sockets that follow it. *)
Lists == {"topics", "services"}
ListOf(f) == IF f \in {"topics", "topic"} THEN "topics" ELSE "services"
SocketOf(l) == IF l = "topics" THEN "topic" ELSE "service"
AfterList(l) == IF l = "topics" THEN "services" ELSE "end"
AfterString(f) == IF f = "name" THEN "ip" ELSE "topics"

-----------------------------------------------------------------------------
(* The numbers of struct, big endian; a negative one is packed as its complement. *)

Word == Base * Base

PackShort(v) == <<v \div Base, v % Base>>
PackLong(v) == PackShort(v \div Word) \o PackShort(v % Word)
PackSigned(v) == PackLong(v % (Word * Word))

(* struct.pack raises on anything else. *)
Short == 0 .. Word - 1
Long == 0 .. Word * Word - 1
Signed == -((Word * Word) \div 2) .. (Word * Word) \div 2 - 1

ShortAt(p) == data[p + 1] * Base + data[p + 2]
LongAt(p) == ShortAt(p) * Word + ShortAt(p + 2)
(* Not the code: the number is unpacked as an unsigned one. *)
SignedAtAsLong(p) == LongAt(p)

SignedAt(p) ==
  IF LongAt(p) < (Word * Word) \div 2 THEN LongAt(p) ELSE LongAt(p) - Word * Word

-----------------------------------------------------------------------------

Empty ==
  [nodeID |-> << >>, infoID |-> 0, name |-> << >>, ip |-> << >>,
   topics |-> << >>, services |-> << >>]

Init ==
  /\ message \in Infos \cup Heartbeats
  /\ sent = << >>
  /\ data = << >>
  /\ phase = "encode"
  /\ field = IF IsInfo(message) THEN "nodeID" ELSE "end"
  /\ left = 0
  /\ pos = 0
  /\ decoded = Empty
  /\ marks = {<<field, 0, 0>>}

(* encode_node_info. *)

Writes(bytes, next, n) ==
  /\ sent' = sent \o bytes
  /\ field' = next
  /\ left' = n
  /\ marks' = marks \cup {<<next, n, Len(sent')>>}
  /\ UNCHANGED <<message, data, phase, pos, decoded>>

Encoding(f) == phase = "encode" /\ IsInfo(message) /\ field = f

WriteId ==
  /\ Encoding("nodeID")
  /\ Writes(message.nodeID, "infoID", 0)

WriteInfoId ==
  /\ Encoding("infoID")
  /\ message.infoID \in Long
  /\ Writes(PackLong(message.infoID), "name", 0)

WriteString(f) ==
  /\ Encoding(f)
  /\ Len(message[f]) \in Short
  /\ Writes(PackShort(Len(message[f])) \o message[f], AfterString(f), 0)

(* Not the code: an empty list is left out. *)
WriteCountIfAny(l) ==
  /\ Encoding(l)
  /\ Len(message[l]) \in Short
  /\ Writes(IF message[l] = << >> THEN << >> ELSE PackShort(Len(message[l])),
            SocketOf(l), Len(message[l]))

WriteCount(l) ==
  /\ Encoding(l)
  /\ Len(message[l]) \in Short
  /\ Writes(PackShort(Len(message[l])), SocketOf(l), Len(message[l]))

(* The socket the loop over a list has come to. *)
Current(l) == message[l][Len(message[l]) - left + 1]

SocketFits(s) == Len(s.name) \in Short /\ s.port \in Short

WriteSocket(l) ==
  /\ Encoding(SocketOf(l))
  /\ left > 0
  /\ SocketFits(Current(l))
  /\ Writes(PackShort(Len(Current(l).name)) \o Current(l).name \o PackShort(Current(l).port),
            field, left - 1)

WriteListEnds(l) ==
  /\ Encoding(SocketOf(l))
  /\ left = 0
  /\ Writes(<< >>, AfterList(l), 0)

PackRaises ==
  /\ phase = "encode" /\ IsInfo(message)
  /\ \/ field = "infoID" /\ message.infoID \notin Long
     \/ field \in {"name", "ip"} \cup Lists /\ Len(message[field]) \notin Short
     \/ field \in {"topic", "service"} /\ left > 0 /\ ~ SocketFits(Current(ListOf(field)))
  /\ phase' = "unsendable"
  /\ UNCHANGED <<message, sent, data, field, left, pos, decoded, marks>>

(* to_bytes: one struct.pack; then the group's name, without its length. *)
HeartbeatFits(m) ==
  /\ \A i \in 1 .. 3 : m.zlc_version[i] \in Signed
  /\ m.info_id \in Signed
  /\ m.service_port \in Signed

to_bytes(m) ==
  PackSigned(m.zlc_version[1]) \o PackSigned(m.zlc_version[2]) \o PackSigned(m.zlc_version[3])
    \o m.node_id \o PackSigned(m.info_id) \o PackSigned(m.service_port) \o m.group_name

WriteHeartbeat ==
  /\ phase = "encode" /\ ~ IsInfo(message) /\ sent = << >>
  /\ IF HeartbeatFits(message)
     THEN sent' = to_bytes(message) /\ UNCHANGED phase
     ELSE phase' = "unsendable" /\ UNCHANGED sent
  /\ UNCHANGED <<message, data, field, left, pos, decoded, marks>>

-----------------------------------------------------------------------------
(* The data arrive, or the first n bytes of them: recvfrom cuts a datagram. *)
Arrive ==
  /\ phase = "encode" /\ field = "end" /\ sent # << >>
  /\ phase' = "decode"
  /\ field' = IF IsInfo(message) THEN "nodeID" ELSE "end"
  /\ \E n \in 0 .. Len(sent) : data' = SubSeq(sent, 1, n)
  /\ UNCHANGED <<message, sent, left, pos, decoded, marks>>

cut == data # sent

-----------------------------------------------------------------------------
(* decode_node_info. *)

(* unpack_from raises beyond the end of the data, ... *)
CanUnpack(p, w) == p + w <= Len(data)

(* ... but a slice is only shorter, while pos moves on by the whole length. *)
Slice(p, w) == SubSeq(data, p + 1, IF p + w < Len(data) THEN p + w ELSE Len(data))
StringAt(p) == Slice(p + 2, ShortAt(p))
EndOfString(p) == p + 2 + ShortAt(p)

Decoding(f) == phase = "decode" /\ IsInfo(message) /\ field = f

Reads(f, value, next, p) ==
  /\ decoded' = [decoded EXCEPT ![f] = value]
  /\ field' = next
  /\ pos' = p
  /\ UNCHANGED <<message, sent, data, phase, marks>>

ReadId ==
  /\ Decoding("nodeID")
  /\ Reads("nodeID", Slice(pos, IdLength), "infoID", pos + IdLength)
  /\ UNCHANGED left

ReadInfoId ==
  /\ Decoding("infoID")
  /\ CanUnpack(pos, 4)
  /\ Reads("infoID", LongAt(pos), "name", pos + 4)
  /\ UNCHANGED left

ReadString(f) ==
  /\ Decoding(f)
  /\ CanUnpack(pos, 2)
  /\ Reads(f, StringAt(pos), AfterString(f), EndOfString(pos))
  /\ UNCHANGED left

(* Not the code: at the end of the data a list is taken for empty. *)
ReadCountIfAny(l) ==
  /\ Decoding(l)
  /\ pos >= Len(data) \/ CanUnpack(pos, 2)
  /\ field' = SocketOf(l)
  /\ left' = IF pos >= Len(data) THEN 0 ELSE ShortAt(pos)
  /\ pos' = pos + 2
  /\ UNCHANGED <<message, sent, data, phase, decoded, marks>>

ReadCount(l) ==
  /\ Decoding(l)
  /\ CanUnpack(pos, 2)
  /\ field' = SocketOf(l)
  /\ left' = ShortAt(pos)
  /\ pos' = pos + 2
  /\ UNCHANGED <<message, sent, data, phase, decoded, marks>>

CanReadSocket == CanUnpack(pos, 2) /\ CanUnpack(EndOfString(pos), 2)

(* Not the code: one socket too many is read. *)
ReadSocketOnceMore(l) ==
  /\ Decoding(SocketOf(l))
  /\ left >= 0
  /\ CanReadSocket
  /\ Reads(l, Append(decoded[l], [name |-> StringAt(pos), ip |-> decoded.ip,
                                  port |-> ShortAt(EndOfString(pos))]),
           field, EndOfString(pos) + 2)
  /\ left' = left - 1

(* A name, then a port; the ip is the node's. *)
ReadSocket(l) ==
  /\ Decoding(SocketOf(l))
  /\ left > 0
  /\ CanReadSocket
  /\ Reads(l, Append(decoded[l], [name |-> StringAt(pos), ip |-> decoded.ip,
                                  port |-> ShortAt(EndOfString(pos))]),
           field, EndOfString(pos) + 2)
  /\ left' = left - 1

ReadListEnds(l) ==
  /\ Decoding(SocketOf(l))
  /\ left = 0
  /\ field' = AfterList(l)
  /\ phase' = IF l = "topics" THEN "decode" ELSE "done"
  /\ UNCHANGED <<message, sent, data, left, pos, decoded, marks>>

(* struct.error: a number is not complete.  Bytes that are left are ignored. *)
UnpackRaises ==
  /\ phase = "decode" /\ IsInfo(message)
  /\ \/ field = "infoID" /\ ~ CanUnpack(pos, 4)
     \/ field \in {"name", "ip"} \cup Lists /\ ~ CanUnpack(pos, 2)
     \/ field \in {"topic", "service"} /\ left > 0 /\ ~ CanReadSocket
  /\ phase' = "error"
  /\ UNCHANGED <<message, sent, data, field, left, pos, decoded, marks>>

-----------------------------------------------------------------------------
(* decode_heartbeat_message.  A uuid has no zero bytes to strip. *)

(* Version, node ID, infoID, port; then the group up to the end. *)
HeaderLength == 20 + IdLength

Header ==
  [zlc_version |-> [i \in 1 .. 3 |-> SignedAt(4 * (i - 1))],
   node_id |-> Slice(12, IdLength),
   info_id |-> SignedAt(12 + IdLength),
   service_port |-> SignedAt(16 + IdLength),
   group_name |-> Slice(HeaderLength, Len(data))]

DecodeHeartbeat ==
  /\ phase = "decode" /\ ~ IsInfo(message)
  /\ phase' = IF Len(data) >= HeaderLength THEN "done" ELSE "error"
  /\ decoded' = IF Len(data) >= HeaderLength THEN Header ELSE decoded
  /\ UNCHANGED <<message, sent, data, field, left, pos, marks>>

-----------------------------------------------------------------------------

WritesNext ==
  \/ WriteId \/ WriteInfoId \/ PackRaises \/ WriteHeartbeat
  \/ \E f \in {"name", "ip"} : WriteString(f)
  \/ \E l \in Lists : WriteCount(l) \/ WriteSocket(l) \/ WriteListEnds(l)

ReadsNext ==
  \/ ReadId \/ ReadInfoId \/ UnpackRaises \/ DecodeHeartbeat
  \/ \E f \in {"name", "ip"} : ReadString(f)
  \/ \E l \in Lists : ReadCount(l) \/ ReadSocket(l) \/ ReadListEnds(l)

Next == WritesNext \/ Arrive \/ ReadsNext

Spec == Init /\ [][Next]_vars

-----------------------------------------------------------------------------

Decodeds ==
  [nodeID : Seq(Byte), infoID : Nat, name : Seq(Byte), ip : Seq(Byte),
   topics : Seq([name : Seq(Byte), ip : Seq(Byte), port : Nat]),
   services : Seq([name : Seq(Byte), ip : Seq(Byte), port : Nat])]

TypeOK ==
  /\ message \in Infos \cup Heartbeats
  /\ sent \in Seq(Byte)
  /\ data \in Seq(Byte)
  /\ phase \in Phases
  /\ field \in Fields
  /\ left \in Nat
  /\ pos \in Nat
  /\ IsInfo(message) => decoded \in Decodeds
  /\ marks \subseteq Fields \X Nat \X Nat

(***************************************************************************)
(* What is encoded and arrives whole is decoded to itself: topics and      *)
(* services, which are sent without their ip, get that of their node.      *)
(***************************************************************************)
RoundTrip ==
  /\ phase = "done" /\ ~ cut => decoded = message
  /\ phase = "error" => cut

(***************************************************************************)
(* Cut node information is never taken for a node with fewer topics or     *)
(* services, or for one with shortened names: although a cut string does   *)
(* not raise, a number always follows it.                                  *)
(***************************************************************************)
TruncationIsNoticed == IsInfo(message) /\ phase = "done" => ~ cut

(***************************************************************************)
(* A cut heartbeat is not accepted by the group it was sent to: either it  *)
(* is too short, or it is complete but for the end of its group's name.    *)
(***************************************************************************)
CutHeartbeatIsForeign ==
  ~ IsInfo(message) /\ phase = "done" /\ cut =>
    /\ decoded.group_name # message.group_name
    /\ [decoded EXCEPT !.group_name = message.group_name] = message
=============================================================================
