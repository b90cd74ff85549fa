---------------------------- MODULE CodecsProofs -----------------------------
(***************************************************************************)
(* Proofs about Codecs, for every base, every ID length, and all messages. *)
(* No induction over the length of a message is needed: the writer leaves  *)
(* a mark at each field, a mark is followed by the bytes of its field and  *)
(* by the next mark, and the reader goes from mark to mark.                *)
(***************************************************************************)
EXTENDS Codecs, SequenceTheorems, TLAPS

(* The bytes of w that follow the first p begin with s. *)
Holds(w, p, s) == p + Len(s) <= Len(w) /\ \A i \in 1 .. Len(s) : w[p + i] = s[i]

(* What the writer has left at, and after, the mark <<f, k, p>>. *)
SocketWritten(l, k, p) ==
  LET s == message[l][Len(message[l]) - k + 1] IN
  /\ SocketFits(s)
  /\ Holds(sent, p, PackShort(Len(s.name)))
  /\ Holds(sent, p + 2, s.name)
  /\ Holds(sent, p + 2 + Len(s.name), PackShort(s.port))
  /\ <<SocketOf(l), k - 1, p + 4 + Len(s.name)>> \in marks

Written(f, k, p) ==
  /\ f = "nodeID" =>
       Holds(sent, p, message.nodeID) /\ <<"infoID", k, p + IdLength>> \in marks
  /\ f = "infoID" =>
       /\ message.infoID \in Long
       /\ Holds(sent, p, PackLong(message.infoID))
       /\ <<"name", k, p + 4>> \in marks
  /\ f \in {"name", "ip"} =>
       /\ Len(message[f]) \in Short
       /\ Holds(sent, p, PackShort(Len(message[f])))
       /\ Holds(sent, p + 2, message[f])
       /\ <<AfterString(f), k, p + 2 + Len(message[f])>> \in marks
  /\ f \in Lists =>
       /\ Len(message[f]) \in Short
       /\ Holds(sent, p, PackShort(Len(message[f])))
       /\ <<SocketOf(f), Len(message[f]), p + 2>> \in marks
  /\ \A l \in Lists : f = SocketOf(l) =>
       IF k = 0 THEN <<AfterList(l), 0, p>> \in marks ELSE SocketWritten(l, k, p)
  /\ f = "end" => p = Len(sent)

(* Of a list no more sockets are left than it has; outside of lists none are. *)
Counted(f, k) ==
  /\ \A l \in Lists : f = SocketOf(l) => k <= Len(message[l])
  /\ f \notin {"topic", "service"} => k = 0

MarksInv ==
  /\ <<"nodeID", 0, 0>> \in marks
  /\ \A m \in marks : Counted(m[1], m[2]) /\ m[3] <= Len(sent)
  /\ phase = "encode" => <<field, left, Len(sent)>> \in marks
  /\ phase = "encode" /\ field # "end" => \A m \in marks : m[1] # "end"
  /\ \A m \in marks :
       \/ phase = "encode" /\ m = <<field, left, Len(sent)>>
       \/ Written(m[1], m[2], m[3])

(* What the reader has so far of the list l. *)
ReadOf(l) ==
  CASE field = SocketOf(l) -> SubSeq(message[l], 1, Len(message[l]) - left)
    [] l = "topics" /\ field \in {"services", "service"} -> message[l]
    [] OTHER -> << >>

Agrees ==
  /\ field # "nodeID" => decoded.nodeID = message.nodeID
  /\ field \notin {"nodeID", "infoID"} => decoded.infoID = message.infoID
  /\ field \notin {"nodeID", "infoID", "name"} => decoded.name = message.name
  /\ field \notin {"nodeID", "infoID", "name", "ip"} => decoded.ip = message.ip
  /\ \A l \in Lists : decoded[l] = ReadOf(l)

ReaderInv ==
  /\ phase = "encode" => pos = 0 /\ decoded = Empty
  /\ phase = "decode" /\ pos <= Len(data) =>
       field # "end" /\ <<field, left, pos>> \in marks /\ Agrees
  /\ phase = "decode" /\ pos > Len(data) => cut /\ field \in {"infoID", "ip", "topics"}
  /\ phase = "done" => ~ cut /\ decoded = message
  /\ phase = "error" => cut

PrefixInv ==
  phase \notin {"encode", "unsendable"} =>
    /\ Len(data) <= Len(sent)
    /\ \A i \in 1 .. Len(data) : data[i] = sent[i]

InfoInv == IsInfo(message) /\ phase # "unsendable" => MarksInv /\ ReaderInv

HeartbeatInv ==
  ~ IsInfo(message) =>
    /\ sent # << >> => HeartbeatFits(message) /\ sent = to_bytes(message)
    /\ phase \notin {"encode", "unsendable"} => sent # << >>
    /\ phase = "done" =>
         /\ Len(data) >= HeaderLength
         /\ decoded = [message EXCEPT !.group_name =
                         SubSeq(message.group_name, 1, Len(data) - HeaderLength)]
    /\ phase = "error" => cut

IInv == TypeOK /\ PrefixInv /\ InfoInv /\ HeartbeatInv

-----------------------------------------------------------------------------
(* Numbers. *)

LEMMA WordType == Base \in Nat /\ Base > 1 /\ Word \in Nat /\ Word > 0
<1>1. Base \in Nat /\ Base > 1
  BY CodecsAssumption
<1>2. \A b \in Nat : b > 1 => b * b \in Nat /\ b * b > 0
  OBVIOUS
<1>3. QED
  BY <1>1, <1>2 DEF Word

(* A number below n * n has two digits below n, which give it back. *)
LEMMA Digits ==
  ASSUME NEW n \in Nat, n > 0, NEW v \in 0 .. n * n - 1
  PROVE  /\ v \div n \in 0 .. n - 1
         /\ v % n \in 0 .. n - 1
         /\ (v \div n) * n + (v % n) = v
<1>1. v \in Int /\ v >= 0 /\ v < n * n
  OBVIOUS
<1>2. v \div n \in Int /\ v % n \in 0 .. n - 1 /\ v = n * (v \div n) + (v % n)
  BY <1>1
<1>3. v \div n >= 0
  BY <1>1, <1>2
<1>4. v \div n < n
  BY <1>1, <1>2
<1>5. QED
  BY <1>2, <1>3, <1>4

LEMMA ShortDigits ==
  ASSUME NEW v \in Short
  PROVE  /\ PackShort(v) \in Seq(Byte)
         /\ Len(PackShort(v)) = 2
         /\ PackShort(v)[1] * Base + PackShort(v)[2] = v
<1>1. v \div Base \in Byte /\ v % Base \in Byte /\ (v \div Base) * Base + (v % Base) = v
  BY WordType, Digits DEF Short, Word, Byte
<1>2. QED
  BY <1>1 DEF PackShort

LEMMA LongDigits ==
  ASSUME NEW v \in Long
  PROVE  /\ v \div Word \in Short
         /\ v % Word \in Short
         /\ (v \div Word) * Word + (v % Word) = v
         /\ PackLong(v) \in Seq(Byte)
         /\ Len(PackLong(v)) = 4
<1>1. /\ v \div Word \in Short
      /\ v % Word \in Short
      /\ (v \div Word) * Word + (v % Word) = v
  BY WordType, Digits DEF Short, Long
<1>2. \A a, b \in Short :
        PackShort(a) \o PackShort(b) \in Seq(Byte) /\ Len(PackShort(a) \o PackShort(b)) = 4
  BY ShortDigits, ConcatProperties
<1>3. QED
  BY <1>1, <1>2 DEF PackLong

(* What SignedAt makes of the bytes of PackSigned. *)
LEMMA Complement ==
  ASSUME NEW v \in Signed
  PROVE  LET u == v % (Word * Word) IN
         u \in Long /\ v = IF u < (Word * Word) \div 2 THEN u ELSE u - Word * Word
<1>1. \A n \in Nat, x \in Int :
        n > 0 /\ - (n \div 2) <= x /\ x <= n \div 2 - 1 =>
          x % n = IF x >= 0 THEN x ELSE x + n
  OBVIOUS
<1>2. Word * Word \in Nat /\ Word * Word > 0
  BY WordType
<1>3. QED
  BY <1>1, <1>2 DEF Signed, Long

-----------------------------------------------------------------------------
(* Sequences. *)

(* What is there stays there when more is written, ... *)
LEMMA HoldsExtend ==
  ASSUME NEW w \in Seq(Byte), NEW t \in Seq(Byte), NEW s \in Seq(Byte), NEW p \in Nat,
         Holds(w, p, s)
  PROVE  Holds(w \o t, p, s)
<1>1. Len(w \o t) = Len(w) + Len(t) /\ Len(s) \in Nat /\ Len(w) \in Nat /\ Len(t) \in Nat
  BY ConcatProperties, LenProperties
<1>2. \A i \in 1 .. Len(s) : (w \o t)[p + i] = w[p + i]
  BY <1>1, ConcatProperties DEF Holds
<1>3. QED
  BY <1>1, <1>2 DEF Holds

(* ... what is written is at the end, ... *)
LEMMA HoldsAppended ==
  ASSUME NEW w \in Seq(Byte), NEW s \in Seq(Byte)
  PROVE  Holds(w \o s, Len(w), s)
<1>1. Len(w \o s) = Len(w) + Len(s) /\ Len(s) \in Nat /\ Len(w) \in Nat
  BY ConcatProperties, LenProperties
<1>2. \A i \in 1 .. Len(s) : (w \o s)[Len(w) + i] = s[i]
  BY <1>1, ConcatProperties
<1>3. QED
  BY <1>1, <1>2 DEF Holds

(* ... and two things that were written at once stand one behind the other. *)
LEMMA HoldsSplit ==
  ASSUME NEW w \in Seq(Byte), NEW s \in Seq(Byte), NEW t \in Seq(Byte), NEW p \in Nat,
         Holds(w, p, s \o t)
  PROVE  Holds(w, p, s) /\ Holds(w, p + Len(s), t)
<1>1. /\ Len(s \o t) = Len(s) + Len(t)
      /\ Len(s) \in Nat /\ Len(t) \in Nat /\ Len(w) \in Nat
  BY ConcatProperties, LenProperties
<1>2. \A i \in 1 .. Len(s) : w[p + i] = s[i]
  BY <1>1, ConcatProperties DEF Holds
<1>3. \A i \in 1 .. Len(t) : w[p + Len(s) + i] = t[i]
  <2> SUFFICES ASSUME NEW i \in 1 .. Len(t)
               PROVE  w[p + Len(s) + i] = t[i]
    OBVIOUS
  <2>1. Len(s) + i \in 1 .. Len(s \o t)
    BY <1>1
  <2>2. w[p + (Len(s) + i)] = (s \o t)[Len(s) + i]
    BY <2>1 DEF Holds
  <2>3. (s \o t)[Len(s) + i] = t[i]
    BY <1>1, ConcatProperties
  <2>4. p + (Len(s) + i) = p + Len(s) + i
    BY <1>1
  <2>5. QED
    BY <2>2, <2>3, <2>4
<1>4. QED
  BY <1>1, <1>2, <1>3 DEF Holds

-----------------------------------------------------------------------------
(* Reading.  Prefix says that the bytes that have arrived are the first of those sent. *)

Prefix ==
  /\ data \in Seq(Byte) /\ sent \in Seq(Byte)
  /\ Len(data) <= Len(sent)
  /\ \A i \in 1 .. Len(data) : data[i] = sent[i]

LEMMA ReadsShort ==
  ASSUME Prefix, NEW p \in Nat, NEW v \in Short, Holds(sent, p, PackShort(v)), CanUnpack(p, 2)
  PROVE  ShortAt(p) = v
<1>1. Len(PackShort(v)) = 2 /\ PackShort(v)[1] * Base + PackShort(v)[2] = v
  BY ShortDigits
<1>2. sent[p + 1] = PackShort(v)[1] /\ sent[p + 2] = PackShort(v)[2]
  BY <1>1 DEF Holds
<1>3. data[p + 1] = sent[p + 1] /\ data[p + 2] = sent[p + 2]
  BY DEF Prefix, CanUnpack
<1>4. QED
  BY <1>1, <1>2, <1>3 DEF ShortAt

LEMMA ReadsLong ==
  ASSUME Prefix, NEW p \in Nat, NEW v \in Long, Holds(sent, p, PackLong(v)), CanUnpack(p, 4)
  PROVE  LongAt(p) = v
<1>1. v \div Word \in Short /\ v % Word \in Short /\ (v \div Word) * Word + (v % Word) = v
  BY LongDigits
<1>2. /\ PackShort(v \div Word) \in Seq(Byte) /\ Len(PackShort(v \div Word)) = 2
      /\ PackShort(v % Word) \in Seq(Byte)
  BY <1>1, ShortDigits
<1>3. Holds(sent, p, PackShort(v \div Word)) /\ Holds(sent, p + 2, PackShort(v % Word))
  BY <1>2, HoldsSplit DEF PackLong, Prefix
<1>4. CanUnpack(p, 2) /\ CanUnpack(p + 2, 2) /\ p + 2 \in Nat
  BY DEF CanUnpack, Prefix
<1>5. ShortAt(p) = v \div Word /\ ShortAt(p + 2) = v % Word
  BY <1>1, <1>3, <1>4, ReadsShort
<1>6. QED
  BY <1>1, <1>5 DEF LongAt

LEMMA ReadsSigned ==
  ASSUME Prefix, NEW p \in Nat, NEW v \in Signed, Holds(sent, p, PackSigned(v)), CanUnpack(p, 4)
  PROVE  SignedAt(p) = v
<1> DEFINE u == v % (Word * Word)
<1>1. u \in Long /\ v = IF u < (Word * Word) \div 2 THEN u ELSE u - Word * Word
  BY Complement
<1>2. LongAt(p) = u
  BY <1>1, ReadsLong DEF PackSigned
<1>3. QED
  BY <1>1, <1>2 DEF SignedAt

LEMMA SliceTyped ==
  ASSUME data \in Seq(Byte), NEW p \in Nat, NEW n \in Nat
  PROVE  /\ Slice(p, n) \in Seq(Byte)
         /\ Len(Slice(p, n)) =
              IF p >= Len(data) THEN 0 ELSE IF p + n < Len(data) THEN n ELSE Len(data) - p
         /\ \A i \in 1 .. Len(Slice(p, n)) : Slice(p, n)[i] = data[p + i]
<1> DEFINE q == IF p + n < Len(data) THEN p + n ELSE Len(data)
<1>1. Len(data) \in Nat /\ \A i \in 1 .. Len(data) : data[i] \in Byte
  BY LenProperties, ElementOfSeq
<1>2. p + 1 \in Int /\ q \in Int /\ \A i \in p + 1 .. q : data[i] \in Byte
  BY <1>1
<1>3. /\ SubSeq(data, p + 1, q) \in Seq(Byte)
      /\ Len(SubSeq(data, p + 1, q)) = IF p + 1 <= q THEN q - (p + 1) + 1 ELSE 0
      /\ \A i \in 1 .. q - (p + 1) + 1 : SubSeq(data, p + 1, q)[i] = data[p + 1 + i - 1]
  BY <1>2, SubSeqProperties
<1>4. QED
  BY <1>1, <1>3 DEF Slice

LEMMA ReadsBytes ==
  ASSUME Prefix, NEW p \in Nat, NEW s \in Seq(Byte), Holds(sent, p, s), CanUnpack(p, Len(s))
  PROVE  Slice(p, Len(s)) = s
<1>1. Len(s) \in Nat /\ Len(data) \in Nat
  BY LenProperties DEF Prefix
<1>2. /\ Slice(p, Len(s)) \in Seq(Byte) /\ Len(Slice(p, Len(s))) = Len(s)
      /\ \A i \in 1 .. Len(s) : Slice(p, Len(s))[i] = data[p + i]
  <2>1. data \in Seq(Byte) /\ p + Len(s) <= Len(data)
    BY DEF CanUnpack, Prefix
  <2>2. \A n \in Nat :
          /\ Slice(p, n) \in Seq(Byte)
          /\ Len(Slice(p, n)) =
               IF p >= Len(data) THEN 0 ELSE IF p + n < Len(data) THEN n ELSE Len(data) - p
          /\ \A i \in 1 .. Len(Slice(p, n)) : Slice(p, n)[i] = data[p + i]
    BY <2>1, SliceTyped
  <2>3. ASSUME NEW n \in Nat, p + n <= Len(data) PROVE Len(Slice(p, n)) = n
    <3>1. /\ p >= Len(data) => n = 0
          /\ ~ (p + n < Len(data)) => Len(data) - p = n
      BY <1>1, <2>3
    <3>2. QED
      BY <2>2, <3>1, <1>1, <2>3
  <2>4. QED
    BY <1>1, <2>1, <2>2, <2>3
<1>3. \A i \in 1 .. Len(s) : data[p + i] = s[i]
  BY <1>1 DEF Holds, CanUnpack, Prefix
<1>4. QED
  BY <1>2, <1>3, SeqEqual

-----------------------------------------------------------------------------
(* Types. *)

(* The fields of a message have their types, and none is both of the two kinds. *)
LEMMA InfoType ==
  ASSUME message \in Infos \cup Heartbeats, IsInfo(message)
  PROVE  /\ message = [nodeID |-> message.nodeID, infoID |-> message.infoID,
                       name |-> message.name, ip |-> message.ip,
                       topics |-> message.topics, services |-> message.services]
         /\ message.nodeID \in Seq(Byte) /\ Len(message.nodeID) = IdLength
         /\ message.infoID \in Int
         /\ \A f \in {"name", "ip"} : message[f] \in Seq(Byte)
         /\ \A l \in Lists :
              /\ message[l] \in Seq(Sockets)
              /\ \A i \in 1 .. Len(message[l]) : message[l][i].ip = message.ip
<1>1. IsNodeInfo(message) /\ IdLength \in Nat
  BY CodecsAssumption DEF IsInfo
<1>2. \A id \in Ids : id \in Seq(Byte) /\ Len(id) = IdLength
  BY <1>1 DEF Ids
<1>3. QED
  BY <1>1, <1>2 DEF IsNodeInfo, Lists

LEMMA HeartbeatType ==
  ASSUME message \in Infos \cup Heartbeats, ~ IsInfo(message)
  PROVE  /\ message \in [zlc_version : [1 .. 3 -> Int], node_id : Ids, info_id : Int,
                         service_port : Int, group_name : Seq(Byte)]
         /\ message.node_id \in Seq(Byte) /\ Len(message.node_id) = IdLength
<1>1. /\ IdLength \in Nat
      /\ message \in [zlc_version : [1 .. 3 -> Int], node_id : Ids, info_id : Int,
                      service_port : Int, group_name : Seq(Byte)]
  BY CodecsAssumption DEF IsInfo
<1>2. \A id \in Ids : id \in Seq(Byte) /\ Len(id) = IdLength
  BY <1>1 DEF Ids
<1>3. QED
  BY <1>1, <1>2

LEMMA SocketType ==
  ASSUME message \in Infos \cup Heartbeats, IsInfo(message), NEW l \in Lists,
         NEW k \in 1 .. Len(message[l])
  PROVE  LET s == message[l][Len(message[l]) - k + 1] IN
         s \in Sockets /\ s.name \in Seq(Byte) /\ s.port \in Int /\ s.ip = message.ip
<1>1. message[l] \in Seq(Sockets) /\ \A i \in 1 .. Len(message[l]) : message[l][i].ip = message.ip
  BY InfoType
<1>2. \A i \in 1 .. Len(message[l]) : message[l][i] \in Sockets
  BY <1>1, ElementOfSeq
<1>3. Len(message[l]) - k + 1 \in 1 .. Len(message[l])
  BY <1>1, LenProperties
<1>4. \A s \in Sockets : s.name \in Seq(Byte) /\ s.port \in Int
  BY DEF Sockets
<1>5. QED
  BY <1>1, <1>2, <1>3, <1>4

LEMMA NumbersType ==
  ASSUME data \in Seq(Byte), NEW p \in Nat
  PROVE  /\ CanUnpack(p, 2) => ShortAt(p) \in Nat
         /\ CanUnpack(p, 4) => LongAt(p) \in Nat
<1>1. \A i \in 1 .. Len(data) : data[i] \in Nat
  BY WordType, ElementOfSeq DEF Byte
<1>2. \A a, b, c \in Nat : a * c + b \in Nat
  OBVIOUS
<1>3. ASSUME NEW q \in Nat, CanUnpack(q, 2) PROVE ShortAt(q) \in Nat
  <2>1. data[q + 1] \in Nat /\ data[q + 2] \in Nat
    BY <1>1, <1>3, LenProperties DEF CanUnpack
  <2>2. QED
    BY <1>2, <2>1, WordType DEF ShortAt
<1>4. ASSUME CanUnpack(p, 4) PROVE LongAt(p) \in Nat
  <2>1. CanUnpack(p, 2) /\ CanUnpack(p + 2, 2) /\ p + 2 \in Nat
    BY <1>4, LenProperties DEF CanUnpack
  <2>2. QED
    BY <1>2, <1>3, <2>1, WordType DEF LongAt
<1>5. QED
  BY <1>3, <1>4

-----------------------------------------------------------------------------
(* Writing. *)

(* What stands behind a mark stays there when more is written. *)
LEMMA WrittenKept ==
  ASSUME TypeOK, IsInfo(message), NEW bytes \in Seq(Byte), sent' = sent \o bytes,
         message' = message, marks \subseteq marks',
         NEW f \in Fields, NEW k \in Nat, NEW p \in Nat, f # "end",
         Counted(f, k), Written(f, k, p)
  PROVE  Written(f, k, p)'
<1>1. \A s \in Seq(Byte), q \in Nat : Holds(sent, q, s) => Holds(sent', q, s)
  BY HoldsExtend DEF TypeOK
<1>2. \A v \in Short : PackShort(v) \in Seq(Byte)
  BY ShortDigits
<1>3. f = "nodeID" =>
        Holds(sent', p, message.nodeID) /\ <<"infoID", k, p + IdLength>> \in marks'
  BY <1>1, InfoType DEF Written, TypeOK
<1>4. f = "infoID" => Holds(sent', p, PackLong(message.infoID)) /\ <<"name", k, p + 4>> \in marks'
  BY <1>1, LongDigits DEF Written
<1>5. ASSUME f \in {"name", "ip"}
      PROVE  /\ Holds(sent', p, PackShort(Len(message[f])))
             /\ Holds(sent', p + 2, message[f])
             /\ <<AfterString(f), k, p + 2 + Len(message[f])>> \in marks'
  <2>1. message[f] \in Seq(Byte) /\ Len(message[f]) \in Short /\ p + 2 \in Nat
    <3>1. message[f] \in Seq(Byte)
      BY <1>5, InfoType DEF TypeOK
    <3>2. Len(message[f]) \in Short
      BY <1>5 DEF Written
    <3>3. QED
      BY <3>1, <3>2
  <2>2. /\ Holds(sent, p, PackShort(Len(message[f])))
        /\ Holds(sent, p + 2, message[f])
        /\ <<AfterString(f), k, p + 2 + Len(message[f])>> \in marks
    BY <1>5 DEF Written
  <2>3. Holds(sent', p, PackShort(Len(message[f])))
    BY <1>1, <1>2, <2>1, <2>2
  <2>4. Holds(sent', p + 2, message[f])
    BY <1>1, <2>1, <2>2
  <2>5. QED
    BY <2>2, <2>3, <2>4
<1>6. f \in Lists => /\ Holds(sent', p, PackShort(Len(message[f])))
                     /\ <<SocketOf(f), Len(message[f]), p + 2>> \in marks'
  BY <1>1, <1>2 DEF Written
<1>7. ASSUME NEW l \in Lists, f = SocketOf(l), k # 0
      PROVE  SocketWritten(l, k, p)'
  <2> DEFINE s == message[l][Len(message[l]) - k + 1]
  <2>1. k \in 1 .. Len(message[l])
    BY <1>7, InfoType, LenProperties DEF Counted, TypeOK
  <2>2. s.name \in Seq(Byte) /\ SocketWritten(l, k, p)
    BY <1>7, <2>1, SocketType DEF Written, TypeOK
  <2>3. Len(s.name) \in Short /\ s.port \in Short
    BY <2>2 DEF SocketWritten, SocketFits
  <2>4. Len(s.name) \in Nat /\ p + 2 \in Nat /\ p + 2 + Len(s.name) \in Nat
    <3>1. Len(s.name) \in Nat
      BY <2>2, LenProperties
    <3>2. \A n \in Nat : p + 2 \in Nat /\ p + 2 + n \in Nat
      OBVIOUS
    <3>3. QED
      BY <3>1, <3>2
  <2>5. /\ Holds(sent, p, PackShort(Len(s.name)))
        /\ Holds(sent, p + 2, s.name)
        /\ Holds(sent, p + 2 + Len(s.name), PackShort(s.port))
    BY <2>2 DEF SocketWritten
  <2>6. /\ Holds(sent', p, PackShort(Len(s.name)))
        /\ Holds(sent', p + 2, s.name)
        /\ Holds(sent', p + 2 + Len(s.name), PackShort(s.port))
    BY <1>1, <1>2, <2>2, <2>3, <2>4, <2>5
  <2>7. QED
    BY <2>2, <2>6 DEF SocketWritten, SocketFits
<1>8. \A l \in Lists : f = SocketOf(l) /\ k = 0 => <<AfterList(l), 0, p>> \in marks'
  BY DEF Written
<1>9. QED
  BY <1>3, <1>4, <1>5, <1>6, <1>7, <1>8 DEF Written

(* A step of the writer leaves the next mark behind the bytes that it writes. *)
LEMMA MarksStep ==
  ASSUME TypeOK, IsInfo(message), phase = "encode", field # "end", MarksInv,
         NEW bytes \in Seq(Byte), NEW next \in Fields, NEW n \in Nat,
         Writes(bytes, next, n), Counted(next, n),
         NEW f, f = field, NEW k, k = left, NEW p, p = Len(sent), Written(f, k, p)'
  PROVE  TypeOK' /\ MarksInv'
<1>1. /\ sent' = sent \o bytes /\ field' = next /\ left' = n
      /\ marks' = marks \cup {<<next, n, Len(sent')>>}
      /\ UNCHANGED <<message, data, phase, pos, decoded>>
  BY DEF Writes
<1>2. /\ sent' \in Seq(Byte) /\ Len(sent') = Len(sent) + Len(bytes)
      /\ Len(sent) \in Nat /\ Len(bytes) \in Nat /\ Len(sent') \in Nat
  BY <1>1, ConcatProperties, LenProperties DEF TypeOK
<1>3. TypeOK'
  BY <1>1, <1>2 DEF TypeOK
<1>4. \A m \in marks : m = <<m[1], m[2], m[3]>> /\ m[1] \in Fields /\ m[2] \in Nat /\ m[3] \in Nat
  BY DEF TypeOK
<1>5. \A m \in marks : Counted(m[1], m[2])' /\ m[3] <= Len(sent') /\ m[1] # "end"
  BY <1>1, <1>2, <1>4 DEF MarksInv, Counted
<1>6. ASSUME NEW m \in marks
      PROVE  Written(m[1], m[2], m[3])'
  <2>1. CASE m = <<field, left, Len(sent)>>
    BY <2>1
  <2>2. CASE m # <<field, left, Len(sent)>>
    <3>1. Written(m[1], m[2], m[3]) /\ Counted(m[1], m[2])
      BY <2>2, <1>6 DEF MarksInv
    <3>2. QED
      BY <1>1, <1>4, <1>5, <1>6, <3>1, WrittenKept
  <2>3. QED
    BY <2>1, <2>2
<1>7. <<next, n, Len(sent')>> \in marks' /\ Counted(next, n)'
  BY <1>1 DEF Counted
<1>8. <<"nodeID", 0, 0>> \in marks'
  BY <1>1 DEF MarksInv
<1>9. QED
  BY <1>1, <1>2, <1>3, <1>5, <1>6, <1>7, <1>8 DEF MarksInv

LEMMA Appended ==
  ASSUME TypeOK, NEW a \in Seq(Byte), NEW b \in Seq(Byte), NEW c \in Seq(Byte)
  PROVE  /\ Holds(sent \o a, Len(sent), a)
         /\ Holds(sent \o (a \o b), Len(sent), a)
         /\ Holds(sent \o (a \o b), Len(sent) + Len(a), b)
         /\ Holds(sent \o (a \o b \o c), Len(sent), a)
         /\ Holds(sent \o (a \o b \o c), Len(sent) + Len(a), b)
         /\ Holds(sent \o (a \o b \o c), Len(sent) + Len(a) + Len(b), c)
         /\ a \o b \in Seq(Byte) /\ a \o b \o c \in Seq(Byte)
         /\ Len(a \o b) = Len(a) + Len(b)
         /\ Len(a \o b \o c) = Len(a) + Len(b) + Len(c)
<1>1. /\ a \o b \in Seq(Byte) /\ a \o b \o c \in Seq(Byte)
      /\ Len(a \o b) = Len(a) + Len(b)
      /\ Len(a \o b \o c) = Len(a) + Len(b) + Len(c)
      /\ Len(sent) \in Nat /\ Len(a) \in Nat /\ Len(b) \in Nat /\ Len(c) \in Nat
      /\ sent \in Seq(Byte)
  BY ConcatProperties, LenProperties DEF TypeOK
<1>2. \A s \in Seq(Byte) : sent \o s \in Seq(Byte) /\ Holds(sent \o s, Len(sent), s)
  BY <1>1, HoldsAppended, ConcatProperties
<1>3. Holds(sent \o (a \o b), Len(sent), a) /\ Holds(sent \o (a \o b), Len(sent) + Len(a), b)
  BY <1>1, <1>2, HoldsSplit
<1>4. /\ Holds(sent \o (a \o b \o c), Len(sent), a \o b)
      /\ Holds(sent \o (a \o b \o c), Len(sent) + Len(a \o b), c)
  BY <1>1, <1>2, HoldsSplit
<1>5. /\ Holds(sent \o (a \o b \o c), Len(sent), a)
      /\ Holds(sent \o (a \o b \o c), Len(sent) + Len(a), b)
  BY <1>1, <1>2, <1>4, HoldsSplit
<1>6. Len(sent) + Len(a \o b) = Len(sent) + Len(a) + Len(b)
  BY <1>1
<1>7. QED
  BY <1>1, <1>2, <1>3, <1>4, <1>5, <1>6

LEMMA WriteSteps ==
  ASSUME TypeOK, IsInfo(message), phase = "encode", MarksInv, WritesNext, ~ PackRaises
  PROVE  TypeOK' /\ MarksInv'
<1>1. \A v \in Short : PackShort(v) \in Seq(Byte) /\ Len(PackShort(v)) = 2
  BY ShortDigits
<1>2. PICK p \in Nat : p = Len(sent)
  BY LenProperties DEF TypeOK
<1>3. field \notin {"topic", "service"} => left = 0
  BY DEF MarksInv, Counted
<1>4. \A a \in Seq(Byte) : Holds(sent \o a, p, a) /\ Len(sent \o a) = p + Len(a)
  BY <1>2, HoldsAppended, ConcatProperties DEF TypeOK
<1>5. ASSUME NEW a \in Seq(Byte), NEW b \in Seq(Byte), Len(a) = 2
       PROVE  /\ a \o b \in Seq(Byte) /\ Len(a \o b) = 2 + Len(b)
              /\ Holds(sent \o (a \o b), p, a) /\ Holds(sent \o (a \o b), p + 2, b)
  BY <1>2, <1>5, Appended
<1>6. ASSUME NEW a \in Seq(Byte), NEW b \in Seq(Byte), NEW c \in Seq(Byte),
              Len(a) = 2, Len(c) = 2
       PROVE  /\ a \o b \o c \in Seq(Byte) /\ Len(a \o b \o c) = 4 + Len(b)
              /\ Holds(sent \o (a \o b \o c), p, a)
              /\ Holds(sent \o (a \o b \o c), p + 2, b)
              /\ Holds(sent \o (a \o b \o c), p + 2 + Len(b), c)
  <2>1. Len(b) \in Nat /\ 2 + Len(b) + 2 = 4 + Len(b)
    BY LenProperties
  <2>2. /\ a \o b \o c \in Seq(Byte) /\ Len(a \o b \o c) = Len(a) + Len(b) + Len(c)
        /\ Holds(sent \o (a \o b \o c), Len(sent), a)
        /\ Holds(sent \o (a \o b \o c), Len(sent) + Len(a), b)
        /\ Holds(sent \o (a \o b \o c), Len(sent) + Len(a) + Len(b), c)
    BY Appended
  <2>3. Len(a \o b \o c) = 4 + Len(b)
    BY <1>6, <2>1, <2>2
  <2>4. QED
    BY <1>2, <1>6, <2>2, <2>3
<1>7. CASE WriteId
  <2>1. message.nodeID \in Seq(Byte) /\ Len(message.nodeID) = IdLength
    BY InfoType DEF TypeOK
  <2>2. /\ Writes(message.nodeID, "infoID", 0) /\ field = "nodeID" /\ left = 0
        /\ Holds(sent \o message.nodeID, p, message.nodeID)
    BY <1>3, <1>7, <1>4, <2>1 DEF WriteId, Encoding
  <2>3. <<"infoID", 0, p + IdLength>> \in marks'
    BY <1>4, <2>1, <2>2 DEF Writes
  <2>4. Written("nodeID", 0, p)'
    BY <2>2, <2>3 DEF Written, Writes, Lists, SocketOf
  <2>5. "infoID" \in Fields /\ Counted("infoID", 0)
    BY DEF Fields, Counted, Lists, SocketOf
  <2>6. QED
    BY <1>2, <2>1, <2>2, <2>4, <2>5, MarksStep
<1>8. CASE WriteInfoId
  <2>1. /\ message.infoID \in Long
        /\ PackLong(message.infoID) \in Seq(Byte) /\ Len(PackLong(message.infoID)) = 4
    BY <1>8, LongDigits DEF WriteInfoId
  <2>2. /\ Writes(PackLong(message.infoID), "name", 0) /\ field = "infoID" /\ left = 0
        /\ Holds(sent \o PackLong(message.infoID), p, PackLong(message.infoID))
    BY <1>3, <1>8, <1>4, <2>1 DEF WriteInfoId, Encoding
  <2>3. <<"name", 0, p + 4>> \in marks'
    BY <1>4, <2>1, <2>2 DEF Writes
  <2>4. Written("infoID", 0, p)'
    BY <2>1, <2>2, <2>3 DEF Written, Writes, Lists, SocketOf
  <2>5. "name" \in Fields /\ Counted("name", 0)
    BY DEF Fields, Counted, Lists, SocketOf
  <2>6. QED
    BY <1>2, <2>1, <2>2, <2>4, <2>5, MarksStep
<1>9. ASSUME NEW f \in {"name", "ip"}, WriteString(f)
      PROVE  TypeOK' /\ MarksInv'
  <2> DEFINE size == PackShort(Len(message[f]))
  <2>1. /\ message[f] \in Seq(Byte) /\ Len(message[f]) \in Nat
        /\ Len(message[f]) \in Short
        /\ size \in Seq(Byte) /\ Len(size) = 2
    BY <1>1, <1>9, InfoType, LenProperties DEF WriteString, TypeOK
  <2> HIDE DEF size
  <2>2. /\ Writes(size \o message[f], AfterString(f), 0) /\ field = f /\ left = 0
        /\ size \o message[f] \in Seq(Byte) /\ Len(size \o message[f]) = 2 + Len(message[f])
        /\ Holds(sent \o (size \o message[f]), p, size)
        /\ Holds(sent \o (size \o message[f]), p + 2, message[f])
    <3>1. Writes(size \o message[f], AfterString(f), 0) /\ field = f /\ left = 0
      BY <1>3, <1>9 DEF WriteString, Encoding, size
    <3>2. QED
      BY <1>5, <2>1, <3>1
  <2>3. Len(sent \o (size \o message[f])) = p + 2 + Len(message[f])
    <3>1. Len(sent \o (size \o message[f])) = p + Len(size \o message[f])
      BY <1>4, <2>2
    <3>2. \A n \in Nat : p + (2 + n) = p + 2 + n
      OBVIOUS
    <3>3. QED
      BY <2>1, <2>2, <3>1, <3>2
  <2>4. <<AfterString(f), 0, p + 2 + Len(message[f])>> \in marks'
    BY <2>2, <2>3 DEF Writes
  <2>5. Written(f, 0, p)'
    BY <2>1, <2>2, <2>4 DEF Written, Writes, Lists, SocketOf, size
  <2>6. AfterString(f) \in Fields /\ Counted(AfterString(f), 0)
    BY DEF Fields, Counted, Lists, SocketOf, AfterString
  <2>7. QED
    BY <1>2, <2>1, <2>2, <2>5, <2>6, MarksStep
<1>10. ASSUME NEW l \in Lists, WriteCount(l)
      PROVE  TypeOK' /\ MarksInv'
  <2> DEFINE size == PackShort(Len(message[l]))
  <2>1. /\ Len(message[l]) \in Nat /\ Len(message[l]) \in Short
        /\ size \in Seq(Byte) /\ Len(size) = 2
    BY <1>1, <1>10, InfoType, LenProperties DEF WriteCount, TypeOK
  <2>2. /\ Writes(size, SocketOf(l), Len(message[l])) /\ field = l /\ left = 0
        /\ Holds(sent \o size, p, size)
    BY <1>3, <1>10, <1>4, <2>1 DEF WriteCount, Encoding, Lists
  <2>3. <<SocketOf(l), Len(message[l]), p + 2>> \in marks'
    BY <1>4, <2>1, <2>2 DEF Writes
  <2>4. Written(l, 0, p)'
    BY <2>1, <2>2, <2>3 DEF Written, Writes, Lists, SocketOf
  <2>5. SocketOf(l) \in Fields /\ Counted(SocketOf(l), Len(message[l]))
    BY <2>1 DEF Fields, Counted, Lists, SocketOf
  <2>6. QED
    BY <1>2, <2>1, <2>2, <2>4, <2>5, MarksStep DEF Lists
<1>11. ASSUME NEW l \in Lists, WriteSocket(l)
      PROVE  TypeOK' /\ MarksInv'
  <2> DEFINE s == Current(l)
             size == PackShort(Len(s.name))
             port == PackShort(s.port)
  <2>1. field = SocketOf(l) /\ left \in 1 .. Len(message[l])
    <3>1. field = SocketOf(l) /\ left \in Nat /\ left > 0
      BY <1>11 DEF WriteSocket, Encoding, TypeOK
    <3>2. left <= Len(message[l])
      BY <3>1 DEF MarksInv, Counted
    <3>3. Len(message[l]) \in Nat
      BY InfoType, LenProperties DEF TypeOK
    <3>4. QED
      BY <3>1, <3>2, <3>3
  <2>2. s.name \in Seq(Byte) /\ Len(s.name) \in Nat
    BY <2>1, SocketType, LenProperties DEF Current, TypeOK
  <2>3. /\ SocketFits(s)
        /\ size \in Seq(Byte) /\ Len(size) = 2 /\ port \in Seq(Byte) /\ Len(port) = 2
    BY <1>1, <1>11 DEF WriteSocket, SocketFits
  <2> HIDE DEF s, size, port
  <2>4. /\ Writes(size \o s.name \o port, SocketOf(l), left - 1)
        /\ size \o s.name \o port \in Seq(Byte)
        /\ Len(size \o s.name \o port) = 4 + Len(s.name)
        /\ Holds(sent \o (size \o s.name \o port), p, size)
        /\ Holds(sent \o (size \o s.name \o port), p + 2, s.name)
        /\ Holds(sent \o (size \o s.name \o port), p + 2 + Len(s.name), port)
    <3>1. Writes(size \o s.name \o port, SocketOf(l), left - 1)
      BY <1>11, <2>1 DEF WriteSocket, s, size, port
    <3>2. QED
      BY <1>6, <2>2, <2>3, <3>1
  <2>5. Len(sent \o (size \o s.name \o port)) = p + 4 + Len(s.name)
    <3>1. Len(sent \o (size \o s.name \o port)) = p + Len(size \o s.name \o port)
      BY <1>4, <2>4
    <3>2. \A n \in Nat : p + (4 + n) = p + 4 + n
      OBVIOUS
    <3>3. QED
      BY <2>2, <2>4, <3>1, <3>2
  <2>6. PICK k \in 1 .. Len(message[l]) : k = left
    BY <2>1
  <2>7. s = message[l][Len(message[l]) - k + 1]
    BY <2>6 DEF Current, s
  <2>8. /\ UNCHANGED message /\ sent' = sent \o (size \o s.name \o port)
        /\ <<SocketOf(l), k - 1, p + 4 + Len(s.name)>> \in marks'
    BY <2>4, <2>5, <2>6 DEF Writes
  <2>9. SocketWritten(l, k, p)'
    BY <2>3, <2>4, <2>7, <2>8 DEF SocketWritten, size, port
  <2>10. Written(SocketOf(l), k, p)'
    BY <2>6, <2>9 DEF Written, Lists, SocketOf
  <2>11. SocketOf(l) \in Fields /\ left - 1 \in Nat /\ Counted(SocketOf(l), left - 1)
    BY <2>1, InfoType, LenProperties DEF Fields, Counted, Lists, SocketOf, TypeOK
  <2>12. SocketOf(l) # "end"
    BY DEF SocketOf
  <2>13. QED
    BY <1>2, <2>1, <2>4, <2>6, <2>10, <2>11, <2>12, MarksStep
<1>12. ASSUME NEW l \in Lists, WriteListEnds(l)
      PROVE  TypeOK' /\ MarksInv'
  <2>1. /\ << >> \in Seq(Byte) /\ sent \o << >> = sent
        /\ Writes(<< >>, AfterList(l), 0) /\ field = SocketOf(l) /\ left = 0
    BY <1>12, EmptySeq, ConcatEmptySeq DEF WriteListEnds, Encoding, TypeOK
  <2>2. <<AfterList(l), 0, p>> \in marks'
    BY <1>2, <2>1 DEF Writes
  <2>3. Written(SocketOf(l), 0, p)'
    BY <2>2 DEF Written, Lists, SocketOf, AfterList
  <2>4. /\ AfterList(l) \in Fields /\ Counted(AfterList(l), 0)
        /\ SocketOf(l) # "end"
    BY DEF Fields, Counted, Lists, SocketOf, AfterList
  <2>5. QED
    BY <1>2, <2>1, <2>3, <2>4, MarksStep
<1>13. QED
  BY <1>7, <1>8, <1>9, <1>10, <1>11, <1>12 DEF WritesNext, WriteHeartbeat

-----------------------------------------------------------------------------
(* Reading from mark to mark. *)

(* The marks do not change any more once the writer is through. *)
LEMMA MarksStay ==
  ASSUME MarksInv, phase # "encode", phase' # "encode", UNCHANGED <<message, sent, marks>>
  PROVE  MarksInv'
BY DEF MarksInv, Written, SocketWritten, Counted

LEMMA AtMark ==
  ASSUME IInv, IsInfo(message), phase = "decode", pos <= Len(data)
  PROVE  /\ <<field, left, pos>> \in marks
         /\ Written(field, left, pos)
         /\ Counted(field, left)
         /\ Agrees
         /\ field # "end"
BY DEF IInv, InfoInv, MarksInv, ReaderInv

LEMMA Decode ==
  ASSUME IInv, IsInfo(message), phase = "decode"
  PROVE  /\ TypeOK /\ Prefix /\ MarksInv /\ ReaderInv
         /\ Len(data) \in Nat /\ Len(sent) \in Nat
         /\ Len(data) < Len(sent) => cut
         /\ \A f \in Fields, k \in Nat, q \in Nat :
              <<f, k, q>> \in marks => q <= Len(sent)
         /\ \A f \in Fields, k \in Nat, q \in Nat :
              <<f, k, q>> \in marks /\ q > Len(data) => cut
<1>1. TypeOK /\ MarksInv /\ ReaderInv
  BY DEF IInv, InfoInv
<1>2. Len(data) \in Nat /\ Len(sent) \in Nat
  BY <1>1, LenProperties DEF TypeOK
<1>3. Prefix
  BY <1>1 DEF IInv, PrefixInv, Prefix, TypeOK
<1>4. Len(data) < Len(sent) => cut
  BY <1>2 DEF cut
<1>5. \A f \in Fields, k \in Nat, q \in Nat : <<f, k, q>> \in marks => q <= Len(sent)
  BY <1>1 DEF MarksInv
<1>6. QED
  BY <1>1, <1>2, <1>3, <1>4, <1>5

(* Whoever has read the field at a mark right is at the next mark. *)
LEMMA ReaderStep ==
  ASSUME IInv, IsInfo(message), phase = "decode", UNCHANGED <<message, sent, data, marks>>,
         phase' = "decode",
         TypeOK', field' # "end", <<field', left', pos'>> \in marks,
         pos' <= Len(data) => Agrees',
         pos' > Len(data) => field' \in {"infoID", "ip", "topics"}
  PROVE  IInv'
<1>1. /\ TypeOK /\ MarksInv
      /\ \A f \in Fields, k \in Nat, q \in Nat :
           <<f, k, q>> \in marks /\ q > Len(data) => cut
  BY Decode
<1>2. MarksInv'
  BY <1>1, MarksStay
<1>3. pos' > Len(data) => cut'
  BY <1>1 DEF TypeOK, cut
<1>4. ReaderInv'
  BY <1>3 DEF ReaderInv
<1>5. PrefixInv'
  BY DEF IInv, PrefixInv
<1>6. IsInfo(message)'
  BY DEF IsInfo
<1>7. QED
  BY <1>2, <1>4, <1>5, <1>6 DEF IInv, InfoInv, HeartbeatInv

LEMMA FirstReads ==
  ASSUME IInv, IsInfo(message), ReadId \/ ReadInfoId
  PROVE  IInv'
<1>1. phase = "decode"
  BY DEF ReadId, ReadInfoId, Decoding
<1>2. /\ TypeOK /\ Prefix /\ ReaderInv /\ pos \in Nat /\ Len(data) \in Nat
      /\ decoded \in Decodeds
  BY <1>1, Decode DEF TypeOK
<1>3. CASE ReadId
  <2>1. /\ field = "nodeID" /\ field' = "infoID" /\ pos' = pos + IdLength
        /\ decoded' = [decoded EXCEPT !.nodeID = Slice(pos, IdLength)]
        /\ UNCHANGED <<message, sent, data, phase, left, marks>>
    BY <1>3 DEF ReadId, Decoding, Reads
  <2>2. pos <= Len(data)
    BY <1>1, <1>2, <2>1 DEF ReaderInv
  <2>3. IdLength \in Nat /\ message.nodeID \in Seq(Byte) /\ Len(message.nodeID) = IdLength
    BY <1>2, InfoType, CodecsAssumption DEF TypeOK
  <2>4. Holds(sent, pos, message.nodeID) /\ <<"infoID", left, pos + IdLength>> \in marks
    BY <1>1, <2>1, <2>2, AtMark DEF Written
  <2>5. pos' <= Len(data) => Slice(pos, IdLength) = message.nodeID
    BY <1>2, <2>1, <2>3, <2>4, ReadsBytes DEF CanUnpack
  <2>6. \A l \in Lists : decoded'[l] = << >> /\ ReadOf(l)' = << >>
    <3>1. \A l \in Lists : decoded[l] = << >>
      BY <1>1, <2>1, <2>2, AtMark DEF Agrees, ReadOf, Lists, SocketOf
    <3>2. QED
      BY <1>2, <2>1, <3>1 DEF ReadOf, Lists, SocketOf, Decodeds
  <2>7. pos' <= Len(data) => Agrees'
    BY <1>2, <2>1, <2>5, <2>6 DEF Agrees, Decodeds
  <2>8. TypeOK'
    <3>1. Slice(pos, IdLength) \in Seq(Byte)
      BY <1>2, <2>3, SliceTyped DEF Prefix
    <3>2. decoded' \in Decodeds
      BY <1>2, <2>1, <3>1 DEF Decodeds
    <3>3. pos' \in Nat
      BY <1>2, <2>1, <2>3
    <3>4. QED
      BY <1>2, <2>1, <3>2, <3>3 DEF TypeOK, Fields
  <2>9. QED
    BY <1>1, <2>1, <2>4, <2>7, <2>8, ReaderStep
<1>4. CASE ReadInfoId
  <2>1. /\ field = "infoID" /\ field' = "name" /\ pos' = pos + 4
        /\ CanUnpack(pos, 4)
        /\ decoded' = [decoded EXCEPT !.infoID = LongAt(pos)]
        /\ UNCHANGED <<message, sent, data, phase, left, marks>>
    BY <1>4 DEF ReadInfoId, Decoding, Reads
  <2>2. pos <= Len(data) /\ pos' <= Len(data)
    BY <1>2, <2>1 DEF CanUnpack
  <2>3. /\ message.infoID \in Long
        /\ Holds(sent, pos, PackLong(message.infoID))
        /\ <<"name", left, pos + 4>> \in marks
    BY <1>1, <2>1, <2>2, AtMark DEF Written
  <2>4. LongAt(pos) = message.infoID /\ LongAt(pos) \in Nat
    BY <1>2, <2>1, <2>3, ReadsLong, NumbersType DEF Prefix
  <2>5. \A l \in Lists : decoded'[l] = << >> /\ ReadOf(l)' = << >>
    <3>1. \A l \in Lists : decoded[l] = << >>
      BY <1>1, <2>1, <2>2, AtMark DEF Agrees, ReadOf, Lists, SocketOf
    <3>2. QED
      BY <1>2, <2>1, <3>1 DEF ReadOf, Lists, SocketOf, Decodeds
  <2>6. Agrees'
    <3>1. decoded.nodeID = message.nodeID
      BY <1>1, <2>1, <2>2, AtMark DEF Agrees
    <3>2. QED
      BY <1>2, <2>1, <2>4, <2>5, <3>1 DEF Agrees, Decodeds
  <2>7. TypeOK'
    <3>1. decoded' \in Decodeds
      BY <1>2, <2>1, <2>4 DEF Decodeds
    <3>2. QED
      BY <1>2, <2>1, <3>1 DEF TypeOK, Fields
  <2>8. ~ (pos' > Len(data)) /\ field' # "end" /\ <<field', left', pos'>> \in marks
    BY <1>2, <2>1, <2>2, <2>3
  <2>9. QED
    BY <1>1, <2>1, <2>6, <2>7, <2>8, ReaderStep
<1>5. QED
  BY <1>3, <1>4

LEMMA StringReads ==
  ASSUME IInv, IsInfo(message), NEW f \in {"name", "ip"}, ReadString(f)
  PROVE  IInv'
<1> DEFINE n == ShortAt(pos)
<1>1. /\ field = f /\ field' = AfterString(f) /\ phase = "decode"
      /\ pos' = pos + 2 + n
      /\ CanUnpack(pos, 2)
      /\ decoded' = [decoded EXCEPT ![f] = Slice(pos + 2, n)]
      /\ UNCHANGED <<message, sent, data, phase, left, marks>>
  BY DEF ReadString, Decoding, Reads, StringAt, EndOfString
<1>2. /\ TypeOK /\ Prefix /\ pos \in Nat /\ Len(data) \in Nat /\ data \in Seq(Byte)
      /\ decoded \in Decodeds /\ field \in Fields
  BY <1>1, Decode DEF TypeOK
<1>3. pos <= Len(data) /\ pos + 2 <= Len(data)
  BY <1>1, <1>2 DEF CanUnpack
<1>4. message[f] \in Seq(Byte)
  BY <1>2, InfoType DEF TypeOK
<1>5. /\ Len(message[f]) \in Short
      /\ Holds(sent, pos, PackShort(Len(message[f])))
      /\ Holds(sent, pos + 2, message[f])
      /\ <<AfterString(f), left, pos + 2 + Len(message[f])>> \in marks
  BY <1>1, <1>3, AtMark DEF Written
<1>6. n = Len(message[f])
  BY <1>1, <1>2, <1>5, ReadsShort
<1>7. n \in Nat
  BY <1>1, <1>2, NumbersType
<1> HIDE DEF n
<1>8. pos + 2 \in Nat /\ pos' \in Nat /\ (pos' <= Len(data) => CanUnpack(pos + 2, n))
  BY <1>1, <1>2, <1>7 DEF CanUnpack
<1>9. pos' <= Len(data) => Slice(pos + 2, n) = message[f]
  BY <1>2, <1>4, <1>5, <1>6, <1>8, ReadsBytes
<1>10. \A l \in Lists : decoded'[l] = << >> /\ ReadOf(l)' = << >>
  <2>1. \A l \in Lists : decoded[l] = << >>
    BY <1>1, <1>3, AtMark DEF Agrees, ReadOf, Lists, SocketOf
  <2>2. QED
    BY <1>1, <1>2, <2>1 DEF ReadOf, Lists, SocketOf, Decodeds, AfterString
<1>11. pos' <= Len(data) => Agrees'
  <2>1. /\ decoded.nodeID = message.nodeID /\ decoded.infoID = message.infoID
        /\ f = "ip" => decoded.name = message.name
    BY <1>1, <1>3, AtMark DEF Agrees
  <2>2. QED
    BY <1>1, <1>2, <1>9, <1>10, <2>1 DEF Agrees, Decodeds, AfterString
<1>12. TypeOK'
  <2>1. Slice(pos + 2, n) \in Seq(Byte)
    BY <1>2, <1>7, <1>8, SliceTyped
  <2>2. decoded' \in Decodeds
    BY <1>1, <1>2, <2>1 DEF Decodeds
  <2>3. pos' \in Nat /\ field' \in Fields
    BY <1>1, <1>8 DEF Fields, AfterString
  <2>4. QED
    BY <1>1, <1>2, <2>2, <2>3 DEF TypeOK
<1>13. <<field', left', pos'>> \in marks /\ field' \in {"ip", "topics"}
  BY <1>1, <1>5, <1>6 DEF AfterString
<1>14. QED
  BY <1>1, <1>11, <1>12, <1>13, ReaderStep

LEMMA CountReads ==
  ASSUME IInv, IsInfo(message), NEW l \in Lists, ReadCount(l)
  PROVE  IInv'
<1>1. /\ field = l /\ field' = SocketOf(l) /\ phase = "decode"
      /\ left' = ShortAt(pos) /\ pos' = pos + 2
      /\ CanUnpack(pos, 2)
      /\ UNCHANGED <<message, sent, data, phase, decoded, marks>>
  BY DEF ReadCount, Decoding
<1>2. /\ TypeOK /\ Prefix /\ pos \in Nat /\ Len(data) \in Nat /\ data \in Seq(Byte)
  BY <1>1, Decode DEF TypeOK
<1>3. pos <= Len(data) /\ pos' <= Len(data) /\ ~ (pos' > Len(data))
  BY <1>1, <1>2 DEF CanUnpack
<1>4. /\ Len(message[l]) \in Short
      /\ Holds(sent, pos, PackShort(Len(message[l])))
      /\ <<SocketOf(l), Len(message[l]), pos + 2>> \in marks
  BY <1>1, <1>3, AtMark DEF Written
<1>5. left' = Len(message[l])
  BY <1>1, <1>2, <1>4, ReadsShort
<1>6. message[l] \in Seq(Sockets) /\ Len(message[l]) \in Nat
  BY <1>2, InfoType, LenProperties DEF TypeOK
<1>7. SubSeq(message[l], 1, Len(message[l]) - left') = << >>
  BY <1>5, <1>6, SubSeqEmpty
<1>8. Agrees'
  <2>1. Agrees
    BY <1>1, <1>3, AtMark
  <2>2. \A k \in Lists : ReadOf(k)' = ReadOf(k)
    BY <1>1, <1>7 DEF ReadOf, Lists, SocketOf
  <2>3. QED
    BY <1>1, <2>1, <2>2 DEF Agrees, Lists, SocketOf
<1>9. TypeOK'
  BY <1>1, <1>2, <1>5, <1>6 DEF TypeOK, Fields, Lists, SocketOf
<1>10. <<field', left', pos'>> \in marks /\ field' # "end"
  BY <1>1, <1>4, <1>5 DEF SocketOf
<1>11. QED
  BY <1>1, <1>3, <1>8, <1>9, <1>10, ReaderStep

LEMMA SocketReads ==
  ASSUME IInv, IsInfo(message), NEW l \in Lists, ReadSocket(l)
  PROVE  IInv'
<1> DEFINE n == ShortAt(pos)
           q == pos + 2 + n
           read == [name |-> Slice(pos + 2, n), ip |-> decoded.ip, port |-> ShortAt(q)]
           k == Len(message[l]) - left
<1>1. /\ field = SocketOf(l) /\ phase = "decode" /\ left > 0 /\ left' = left - 1
      /\ CanUnpack(pos, 2) /\ CanUnpack(q, 2)
      /\ field' = field /\ pos' = q + 2
      /\ decoded' = [decoded EXCEPT ![l] = Append(decoded[l], read)]
      /\ UNCHANGED <<message, sent, data, phase, marks>>
  BY DEF ReadSocket, Decoding, CanReadSocket, Reads, StringAt, EndOfString
<1>2. /\ TypeOK /\ Prefix /\ pos \in Nat /\ Len(data) \in Nat /\ data \in Seq(Byte)
      /\ decoded \in Decodeds /\ left \in Nat
  BY <1>1, Decode DEF TypeOK
<1>3. pos <= Len(data)
  BY <1>1, <1>2 DEF CanUnpack
<1>4. Written(field, left, pos) /\ Counted(field, left) /\ Agrees
  BY <1>1, <1>3, AtMark
<1>5. message[l] \in Seq(Sockets) /\ Len(message[l]) \in Nat
  BY <1>2, InfoType, LenProperties DEF TypeOK
<1>6. left \in 1 .. Len(message[l]) /\ left' \in Nat
  BY <1>1, <1>2, <1>4, <1>5 DEF Counted
<1> DEFINE s == message[l][Len(message[l]) - left + 1]
<1>7. /\ s \in Sockets /\ s.name \in Seq(Byte) /\ s.port \in Int /\ s.ip = message.ip
      /\ s = message[l][k + 1] /\ k \in 0 .. Len(message[l]) - 1
      /\ Len(message[l]) - left' = k + 1
  BY <1>1, <1>2, <1>5, <1>6, SocketType DEF TypeOK
<1>8. SocketWritten(l, left, pos)
  <2>1. left # 0
    BY <1>1, <1>2
  <2>2. IF left = 0 THEN <<AfterList(l), 0, pos>> \in marks ELSE SocketWritten(l, left, pos)
    BY <1>1, <1>4 DEF Written
  <2>3. QED
    BY <2>1, <2>2
<1>9. /\ Len(s.name) \in Short /\ s.port \in Short
      /\ Holds(sent, pos, PackShort(Len(s.name)))
      /\ Holds(sent, pos + 2, s.name)
      /\ Holds(sent, pos + 2 + Len(s.name), PackShort(s.port))
      /\ <<SocketOf(l), left', pos + 4 + Len(s.name)>> \in marks
  BY <1>1, <1>8 DEF SocketWritten, SocketFits
<1> HIDE DEF s, k
<1>10. n = Len(s.name)
  BY <1>1, <1>2, <1>9, ReadsShort
<1>11. n \in Nat
  BY <1>1, <1>2, NumbersType
<1> HIDE DEF n
<1>12. q \in Nat /\ pos + 2 \in Nat /\ pos' \in Nat /\ pos' = pos + 4 + n
  BY <1>1, <1>2, <1>11
<1>13. pos' <= Len(data) /\ ~ (pos' > Len(data)) /\ CanUnpack(pos + 2, n)
  BY <1>1, <1>2, <1>11, <1>12 DEF CanUnpack
<1>14. ShortAt(q) = s.port
  BY <1>1, <1>2, <1>9, <1>10, <1>12, ReadsShort
<1>15. ShortAt(q) \in Nat
  BY <1>1, <1>2, <1>12, NumbersType
<1>16. Slice(pos + 2, n) = s.name
  BY <1>2, <1>7, <1>9, <1>10, <1>12, <1>13, ReadsBytes
<1>17. decoded.ip = message.ip /\ decoded[l] = SubSeq(message[l], 1, k)
  BY <1>1, <1>4 DEF Agrees, ReadOf, Lists, SocketOf, k
<1> HIDE DEF q
<1>18. read = s
  BY <1>7, <1>14, <1>16, <1>17 DEF Sockets
<1> HIDE DEF read
<1>19. Append(decoded[l], read) = SubSeq(message[l], 1, k + 1)
  BY <1>5, <1>7, <1>17, <1>18
<1>20. decoded'[l] = ReadOf(l)'
  BY <1>1, <1>2, <1>7, <1>19 DEF ReadOf, Lists, SocketOf, Decodeds
<1>21. \A m \in Lists \ {l} : decoded'[m] = ReadOf(m)'
  BY <1>1, <1>2, <1>4 DEF Agrees, ReadOf, Lists, SocketOf, Decodeds
<1>22. Agrees'
  BY <1>1, <1>2, <1>4, <1>20, <1>21 DEF Agrees, Lists, SocketOf, Decodeds
<1>23. TypeOK'
  <2>1. read \in [name : Seq(Byte), ip : Seq(Byte), port : Nat]
    BY <1>2, <1>7, <1>14, <1>15, <1>16 DEF Decodeds, read
  <2>2. Append(decoded[l], read) \in Seq([name : Seq(Byte), ip : Seq(Byte), port : Nat])
    BY <1>2, <2>1, AppendProperties DEF Decodeds, Lists
  <2>3. decoded' \in Decodeds
    BY <1>1, <1>2, <2>2 DEF Decodeds, Lists
  <2>4. QED
    BY <1>1, <1>2, <1>6, <1>12, <2>3 DEF TypeOK
<1>24. <<field', left', pos'>> \in marks /\ field' # "end"
  BY <1>1, <1>9, <1>10, <1>12 DEF SocketOf
<1>25. QED
  BY <1>1, <1>13, <1>22, <1>23, <1>24, ReaderStep

(* At the end of the services everything that was sent has arrived and been read. *)
LEMMA ListEndReads ==
  ASSUME IInv, IsInfo(message), NEW l \in Lists, ReadListEnds(l)
  PROVE  IInv'
<1>1. /\ field = SocketOf(l) /\ phase = "decode" /\ left = 0 /\ field' = AfterList(l)
      /\ phase' = IF l = "topics" THEN "decode" ELSE "done"
      /\ UNCHANGED <<message, sent, data, left, pos, decoded, marks>>
  BY DEF ReadListEnds, Decoding
<1>2. /\ TypeOK /\ Prefix /\ MarksInv /\ ReaderInv
      /\ pos \in Nat /\ Len(data) \in Nat /\ Len(sent) \in Nat /\ decoded \in Decodeds
  BY <1>1, Decode DEF TypeOK
<1>3. pos <= Len(data)
  BY <1>1, <1>2 DEF ReaderInv, SocketOf
<1>4. Written(field, left, pos) /\ Agrees
  BY <1>1, <1>3, AtMark
<1>5. <<AfterList(l), 0, pos>> \in marks
  BY <1>1, <1>4 DEF Written
<1>6. \A k \in Lists : message[k] \in Seq(Sockets) /\ Len(message[k]) \in Nat
  BY <1>2, InfoType, LenProperties DEF TypeOK
<1>7. decoded[l] = message[l]
  <2>1. decoded[l] = SubSeq(message[l], 1, Len(message[l]) - left)
    <3>1. decoded[l] = ReadOf(l)
      BY <1>4 DEF Agrees
    <3>2. ReadOf(l) = SubSeq(message[l], 1, Len(message[l]) - left)
      BY <1>1 DEF ReadOf, Lists, SocketOf
    <3>3. QED
      BY <3>1, <3>2
  <2>2. Len(message[l]) - left = Len(message[l])
    BY <1>1, <1>6
  <2>3. QED
    BY <1>6, <2>1, <2>2, SubSeqFull
<1>8. TypeOK'
  BY <1>1, <1>2 DEF TypeOK, Fields, Phases, AfterList
<1>9. CASE l = "topics"
  <2>1. Agrees'
    BY <1>1, <1>4, <1>7, <1>9 DEF Agrees, ReadOf, Lists, SocketOf, AfterList
  <2>2. <<field', left', pos'>> \in marks /\ field' # "end" /\ ~ (pos' > Len(data))
    BY <1>1, <1>2, <1>3, <1>5, <1>9 DEF AfterList
  <2>3. QED
    BY <1>1, <1>8, <1>9, <2>1, <2>2, ReaderStep
<1>10. CASE l = "services"
  <2>1. Written("end", 0, pos)
    BY <1>1, <1>2, <1>5, <1>10 DEF MarksInv, AfterList
  <2>2. pos = Len(sent) /\ Len(data) = Len(sent)
    BY <1>2, <1>3, <2>1 DEF Written, Prefix
  <2>3. ~ cut
    BY <1>2, <2>2, SeqEqual DEF cut, Prefix
  <2>4. decoded["topics"] = message["topics"]
    BY <1>1, <1>4, <1>10 DEF Agrees, ReadOf, Lists, SocketOf
  <2>5. /\ decoded.nodeID = message.nodeID /\ decoded.infoID = message.infoID
        /\ decoded.name = message.name /\ decoded.ip = message.ip
    BY <1>1, <1>4, <1>10 DEF Agrees, SocketOf
  <2>6. decoded = [nodeID |-> message.nodeID, infoID |-> message.infoID,
                   name |-> message.name, ip |-> message.ip,
                   topics |-> message.topics, services |-> message.services]
    BY <1>2, <1>7, <1>10, <2>4, <2>5 DEF Decodeds
  <2>7. decoded = message
    BY <1>2, <2>6, InfoType DEF TypeOK
  <2>8. phase' = "done"
    BY <1>1, <1>10
  <2>9. ReaderInv' /\ PrefixInv' /\ MarksInv'
    BY <1>1, <1>2, <2>3, <2>7, <2>8, MarksStay DEF ReaderInv, PrefixInv, Prefix, cut
  <2>10. QED
    BY <1>1, <1>8, <2>9 DEF IInv, InfoInv, HeartbeatInv, IsInfo
<1>11. QED
  BY <1>9, <1>10 DEF Lists

(* Where a number is not complete, something has been cut off. *)
LEMMA RaiseReads ==
  ASSUME IInv, IsInfo(message), UnpackRaises
  PROVE  IInv'
<1>1. phase = "decode" /\ phase' = "error"
      /\ UNCHANGED <<message, sent, data, field, left, pos, decoded, marks>>
  BY DEF UnpackRaises
<1>2. /\ TypeOK /\ Prefix /\ MarksInv /\ ReaderInv
      /\ pos \in Nat /\ Len(data) \in Nat /\ left \in Nat /\ field \in Fields
  BY <1>1, Decode DEF TypeOK
<1>3. ASSUME pos <= Len(data), field = "infoID", ~ CanUnpack(pos, 4)
      PROVE  cut
  <2>1. <<"name", left, pos + 4>> \in marks
    BY <1>1, <1>3, AtMark DEF Written
  <2>2. pos + 4 \in Nat /\ pos + 4 > Len(data) /\ "name" \in Fields
    BY <1>2, <1>3 DEF CanUnpack, Fields
  <2>3. QED
    BY <1>1, <1>2, <2>1, <2>2, Decode
<1>4. ASSUME pos <= Len(data), field \in {"name", "ip"}, ~ CanUnpack(pos, 2)
      PROVE  cut
  <2>1. message[field] \in Seq(Byte)
    BY <1>2, <1>4, InfoType DEF TypeOK
  <2>2. <<AfterString(field), left, pos + 2 + Len(message[field])>> \in marks
    BY <1>1, <1>4, AtMark DEF Written
  <2>3. PICK n \in Nat : n = Len(message[field])
    BY <2>1, LenProperties
  <2>4. <<AfterString(field), left, pos + 2 + n>> \in marks
    BY <2>2, <2>3
  <2>5. pos + 2 + n \in Nat /\ pos + 2 + n > Len(data) /\ AfterString(field) \in Fields
    BY <1>2, <1>4 DEF CanUnpack, Fields, AfterString
  <2>6. QED
    BY <1>1, <1>2, <2>4, <2>5, Decode
<1>5. ASSUME pos <= Len(data), field \in Lists, ~ CanUnpack(pos, 2)
      PROVE  cut
  <2>1. <<SocketOf(field), Len(message[field]), pos + 2>> \in marks
    BY <1>1, <1>5, AtMark DEF Written
  <2>2. Len(message[field]) \in Nat
    BY <1>2, <1>5, InfoType, LenProperties DEF TypeOK
  <2>3. pos + 2 \in Nat /\ pos + 2 > Len(data) /\ SocketOf(field) \in Fields
    BY <1>2, <1>5 DEF CanUnpack, Fields, SocketOf
  <2>4. QED
    BY <1>1, <1>2, <2>1, <2>2, <2>3, Decode
<1>6. ASSUME pos <= Len(data), NEW l \in Lists, field = SocketOf(l), left > 0,
             ~ CanReadSocket
      PROVE  cut
  <2>1. left # 0 /\ left - 1 \in Nat /\ left \in 1 .. Len(message[l])
    <3>1. left <= Len(message[l])
      BY <1>1, <1>6, AtMark DEF Counted
    <3>2. Len(message[l]) \in Nat
      BY <1>2, InfoType, LenProperties DEF TypeOK
    <3>3. QED
      BY <1>2, <1>6, <3>1, <3>2
  <2> DEFINE s == message[l][Len(message[l]) - left + 1]
  <2>2. s.name \in Seq(Byte)
    BY <1>2, <2>1, SocketType DEF TypeOK
  <2>3. IF left = 0 THEN <<AfterList(l), 0, pos>> \in marks ELSE SocketWritten(l, left, pos)
    BY <1>1, <1>6, AtMark DEF Written
  <2>4. /\ Len(s.name) \in Short
        /\ Holds(sent, pos, PackShort(Len(s.name)))
        /\ <<SocketOf(l), left - 1, pos + 4 + Len(s.name)>> \in marks
    BY <2>1, <2>3 DEF SocketWritten, SocketFits
  <2> HIDE DEF s
  <2>5. PICK n \in Nat : n = Len(s.name)
    BY <2>2, LenProperties
  <2>6. <<SocketOf(l), left - 1, pos + 4 + n>> \in marks
    BY <2>4, <2>5
  <2>7. CanUnpack(pos, 2) => ShortAt(pos) = n
    BY <1>2, <2>4, <2>5, ReadsShort
  <2>8. pos + 4 + n > Len(data)
    <3>1. CASE ~ CanUnpack(pos, 2)
      BY <1>2, <3>1 DEF CanUnpack
    <3>2. CASE CanUnpack(pos, 2)
      <4>1. ~ (pos + 2 + n + 2 <= Len(data))
        BY <1>6, <2>7, <3>2 DEF CanReadSocket, CanUnpack, EndOfString
      <4>2. QED
        BY <1>2, <4>1
    <3>3. QED
      BY <3>1, <3>2
  <2>9. pos + 4 + n \in Nat /\ SocketOf(l) \in Fields
    BY <1>2 DEF Fields, SocketOf
  <2>10. QED
    BY <1>1, <1>2, <2>1, <2>6, <2>8, <2>9, Decode
<1>7. cut
  <2>1. CASE pos > Len(data)
    BY <1>1, <1>2, <2>1 DEF ReaderInv
  <2>2. CASE pos <= Len(data)
    <3>1. field \in {"topic", "service"} => \E l \in Lists : field = SocketOf(l)
      BY DEF Lists, SocketOf
    <3>2. QED
      BY <1>3, <1>4, <1>5, <1>6, <2>2, <3>1 DEF UnpackRaises
  <2>3. QED
    BY <1>2, <2>1, <2>2
<1>8. ReaderInv' /\ PrefixInv' /\ MarksInv'
  BY <1>1, <1>2, <1>7, MarksStay DEF ReaderInv, PrefixInv, Prefix, cut
<1>9. TypeOK'
  BY <1>1, <1>2 DEF TypeOK, Phases
<1>10. QED
  BY <1>1, <1>8, <1>9 DEF IInv, InfoInv, HeartbeatInv, IsInfo

-----------------------------------------------------------------------------
(* Node information, from the first byte to the last field. *)

LEMMA InitInv == Init => IInv
<1> SUFFICES ASSUME Init
             PROVE  IInv
  OBVIOUS
<1>1. << >> \in Seq(Byte) /\ Len(<< >>) = 0
  BY EmptySeq
<1>2. Empty \in Decodeds
  BY EmptySeq DEF Empty, Decodeds
<1>3. field \in Fields
  BY DEF Init, Fields
<1>4. TypeOK
  BY <1>1, <1>2, <1>3 DEF Init, TypeOK, Phases
<1>5. ASSUME IsInfo(message)
      PROVE  MarksInv
  <2>1. marks = {<<"nodeID", 0, 0>>} /\ field = "nodeID" /\ left = 0 /\ Len(sent) = 0
    BY <1>1, <1>5 DEF Init
  <2>2. Counted("nodeID", 0)
    BY DEF Counted, Lists, SocketOf
  <2>3. QED
    BY <2>1, <2>2 DEF MarksInv, Init
<1>6. ReaderInv /\ PrefixInv
  BY DEF Init, ReaderInv, PrefixInv
<1>7. HeartbeatInv
  BY DEF Init, HeartbeatInv
<1>8. QED
  BY <1>4, <1>5, <1>6, <1>7 DEF IInv, InfoInv

LEMMA InfoWrites ==
  ASSUME IInv, IsInfo(message), WritesNext
  PROVE  IInv'
<1>1. TypeOK /\ phase = "encode" /\ MarksInv /\ ReaderInv
  <2>1. phase = "encode"
    BY DEF WritesNext, WriteId, WriteInfoId, PackRaises, WriteHeartbeat, WriteString,
           WriteCount, WriteSocket, WriteListEnds, Encoding
  <2>2. QED
    BY <2>1 DEF IInv, InfoInv
<1>2. CASE PackRaises
  <2>1. /\ phase' = "unsendable"
        /\ UNCHANGED <<message, sent, data, field, left, pos, decoded, marks>>
    BY <1>2 DEF PackRaises
  <2>2. TypeOK'
    BY <1>1, <2>1 DEF TypeOK, Phases
  <2>3. QED
    BY <2>1, <2>2 DEF IInv, InfoInv, PrefixInv, HeartbeatInv, IsInfo
<1>3. CASE ~ PackRaises
  <2>1. TypeOK' /\ MarksInv'
    BY <1>1, <1>3, WriteSteps
  <2>2. UNCHANGED <<message, data, phase, pos, decoded>>
    BY <1>3 DEF WritesNext, WriteId, WriteInfoId, WriteHeartbeat, WriteString, WriteCount,
                WriteSocket, WriteListEnds, Writes
  <2>3. ReaderInv' /\ PrefixInv'
    BY <1>1, <2>2 DEF ReaderInv, PrefixInv
  <2>4. QED
    BY <2>1, <2>2, <2>3 DEF IInv, InfoInv, HeartbeatInv, IsInfo
<1>4. QED
  BY <1>2, <1>3

(* What arrives is the beginning of what was sent. *)
LEMMA ArrivesPrefix ==
  ASSUME TypeOK, Arrive
  PROVE  data' \in Seq(Byte) /\ PrefixInv'
<1>1. PICK n \in 0 .. Len(sent) : data' = SubSeq(sent, 1, n)
  BY DEF Arrive
<1>2. sent \in Seq(Byte) /\ sent' = sent /\ Len(sent) \in Nat
  BY LenProperties DEF TypeOK, Arrive
<1>3. \A i \in 1 .. n : sent[i] \in Byte
  BY <1>2, ElementOfSeq
<1>4. /\ SubSeq(sent, 1, n) \in Seq(Byte)
      /\ Len(SubSeq(sent, 1, n)) = n
      /\ \A i \in 1 .. n : SubSeq(sent, 1, n)[i] = sent[i]
  BY <1>2, <1>3, SubSeqProperties
<1>5. QED
  BY <1>1, <1>2, <1>4 DEF PrefixInv

LEMMA InfoArrives ==
  ASSUME IInv, IsInfo(message), Arrive
  PROVE  IInv'
<1>1. /\ phase = "encode" /\ field = "end" /\ phase' = "decode" /\ field' = "nodeID"
      /\ UNCHANGED <<message, sent, left, pos, decoded, marks>>
  BY DEF Arrive
<1>2. TypeOK /\ MarksInv /\ ReaderInv
  BY <1>1 DEF IInv, InfoInv
<1>3. data' \in Seq(Byte) /\ PrefixInv'
  BY <1>2, ArrivesPrefix
<1>4. TypeOK'
  BY <1>1, <1>2, <1>3 DEF TypeOK, Phases, Fields
<1>5. <<"end", left, Len(sent)>> \in marks
  BY <1>1, <1>2 DEF MarksInv
<1>6. left = 0
  BY <1>2, <1>5 DEF MarksInv, Counted
<1>7. Written("end", left, Len(sent))
  BY DEF Written, Lists, SocketOf
<1>8. \A m \in marks : Written(m[1], m[2], m[3])
  <2>1. \A m \in marks : m = <<field, left, Len(sent)>> \/ Written(m[1], m[2], m[3])
    BY <1>2 DEF MarksInv
  <2>2. QED
    BY <1>1, <1>7, <2>1
<1>9. MarksInv'
  BY <1>1, <1>2, <1>8 DEF MarksInv, Written, SocketWritten, Counted
<1>10. /\ decoded' = Empty /\ pos' = 0 /\ left' = 0
       /\ <<"nodeID", 0, 0>> \in marks'
  BY <1>1, <1>2, <1>6 DEF ReaderInv, MarksInv
<1>11. Agrees'
  BY <1>1, <1>10 DEF Agrees, ReadOf, Lists, SocketOf, Empty
<1>12. ReaderInv'
  <2>1. Len(data') \in Nat
    BY <1>3, LenProperties
  <2>2. QED
    BY <1>1, <1>10, <1>11, <2>1 DEF ReaderInv
<1>13. QED
  BY <1>1, <1>3, <1>4, <1>9, <1>12 DEF IInv, InfoInv, HeartbeatInv, IsInfo

-----------------------------------------------------------------------------
(* Heartbeats. *)

LEMMA SignedDigits ==
  ASSUME NEW v \in Signed
  PROVE  PackSigned(v) \in Seq(Byte) /\ Len(PackSigned(v)) = 4
BY Complement, LongDigits DEF PackSigned

(* The seven parts of a heartbeat, and where they are if five of them have four bytes. *)
Joined(a, b, c, d, e, f, g) == a \o b \o c \o d \o e \o f \o g

HoldsParts(w, a, b, c, d, e, f, g, n) ==
  /\ w \in Seq(Byte) /\ Len(w) = 20 + n + Len(g)
  /\ Holds(w, 0, a) /\ Holds(w, 4, b) /\ Holds(w, 8, c) /\ Holds(w, 12, d)
  /\ Holds(w, 12 + n, e) /\ Holds(w, 16 + n, f) /\ Holds(w, 20 + n, g)

LEMMA HoldsJoined ==
  ASSUME NEW n \in Nat,
         NEW a \in Seq(Byte), NEW b \in Seq(Byte), NEW c \in Seq(Byte), NEW d \in Seq(Byte),
         NEW e \in Seq(Byte), NEW f \in Seq(Byte), NEW g \in Seq(Byte)
  PROVE  /\ Len(a) = 4 /\ Len(b) = 4 /\ Len(c) = 4 /\ Len(d) = n /\ Len(e) = 4 /\ Len(f) = 4
         => HoldsParts(Joined(a, b, c, d, e, f, g), a, b, c, d, e, f, g, n)
<1> DEFINE ab == a \o b
           abc == ab \o c
           abcd == abc \o d
           abcde == abcd \o e
           abcdef == abcde \o f
           w == abcdef \o g
<1>1. SUFFICES ASSUME Len(a) = 4, Len(b) = 4, Len(c) = 4, Len(d) = n, Len(e) = 4, Len(f) = 4
               PROVE  HoldsParts(w, a, b, c, d, e, f, g, n)
  BY DEF Joined
<1>2. \A s, t \in Seq(Byte) : s \o t \in Seq(Byte) /\ Len(s \o t) = Len(s) + Len(t)
  BY ConcatProperties
<1>3. /\ ab \in Seq(Byte) /\ abc \in Seq(Byte) /\ abcd \in Seq(Byte)
      /\ abcde \in Seq(Byte) /\ abcdef \in Seq(Byte) /\ w \in Seq(Byte)
      /\ Len(ab) = Len(a) + Len(b) /\ Len(abc) = Len(ab) + Len(c)
      /\ Len(abcd) = Len(abc) + Len(d) /\ Len(abcde) = Len(abcd) + Len(e)
      /\ Len(abcdef) = Len(abcde) + Len(f) /\ Len(w) = Len(abcdef) + Len(g)
  BY <1>2
<1> HIDE DEF ab, abc, abcd, abcde, abcdef
<1>4. /\ Len(ab) = 8 /\ Len(abc) = 12 /\ Len(abcd) = 12 + n
      /\ Len(abcde) = 16 + n /\ Len(abcdef) = 20 + n /\ Len(w) = 20 + n + Len(g)
  BY <1>1, <1>3
<1> HIDE DEF w
<1>5. ASSUME NEW s \in Seq(Byte), NEW t \in Seq(Byte), Holds(w, 0, s \o t)
      PROVE  Holds(w, 0, s) /\ Holds(w, Len(s), t)
  <2>1. Holds(w, 0, s) /\ Holds(w, 0 + Len(s), t)
    BY <1>3, <1>5, HoldsSplit
  <2>2. 0 + Len(s) = Len(s)
    BY LenProperties
  <2>3. QED
    BY <2>1, <2>2
<1>6. Holds(w, 0, w)
  BY <1>3, LenProperties DEF Holds
<1>7. Holds(w, 0, abcdef) /\ Holds(w, 20 + n, g)
  BY <1>3, <1>4, <1>5, <1>6 DEF w
<1>8. Holds(w, 0, abcde) /\ Holds(w, 16 + n, f)
  BY <1>3, <1>4, <1>5, <1>7 DEF abcdef
<1>9. Holds(w, 0, abcd) /\ Holds(w, 12 + n, e)
  BY <1>3, <1>4, <1>5, <1>8 DEF abcde
<1>10. Holds(w, 0, abc) /\ Holds(w, 12, d)
  BY <1>3, <1>4, <1>5, <1>9 DEF abcd
<1>11. Holds(w, 0, ab) /\ Holds(w, 8, c)
  BY <1>3, <1>4, <1>5, <1>10 DEF abc
<1>12. Holds(w, 0, a) /\ Holds(w, 4, b)
  <2>1. Holds(w, 0, a) /\ Holds(w, Len(a), b)
    BY <1>5, <1>11 DEF ab
  <2>2. QED
    BY <1>1, <2>1
<1>13. QED
  BY <1>3, <1>4, <1>7, <1>8, <1>9, <1>10, <1>11, <1>12 DEF HoldsParts

LEMMA HeartbeatBytes ==
  ASSUME message \in Infos \cup Heartbeats, ~ IsInfo(message), HeartbeatFits(message)
  PROVE  LET w == to_bytes(message) IN
         /\ w \in Seq(Byte)
         /\ Len(w) = HeaderLength + Len(message.group_name)
         /\ Holds(w, 0, PackSigned(message.zlc_version[1]))
         /\ Holds(w, 4, PackSigned(message.zlc_version[2]))
         /\ Holds(w, 8, PackSigned(message.zlc_version[3]))
         /\ Holds(w, 12, message.node_id)
         /\ Holds(w, 12 + IdLength, PackSigned(message.info_id))
         /\ Holds(w, 16 + IdLength, PackSigned(message.service_port))
         /\ Holds(w, HeaderLength, message.group_name)
<1>1. \A v \in Signed : PackSigned(v) \in Seq(Byte) /\ Len(PackSigned(v)) = 4
  BY SignedDigits
<1>2. /\ \A i \in 1 .. 3 : message.zlc_version[i] \in Signed
      /\ message.info_id \in Signed /\ message.service_port \in Signed
  BY DEF HeartbeatFits
<1> DEFINE a == PackSigned(message.zlc_version[1])
           b == PackSigned(message.zlc_version[2])
           c == PackSigned(message.zlc_version[3])
           d == message.node_id
           e == PackSigned(message.info_id)
           f == PackSigned(message.service_port)
           g == message.group_name
<1>3. /\ a \in Seq(Byte) /\ b \in Seq(Byte) /\ c \in Seq(Byte) /\ d \in Seq(Byte)
      /\ e \in Seq(Byte) /\ f \in Seq(Byte) /\ g \in Seq(Byte)
  BY <1>1, <1>2, HeartbeatType
<1>4. Len(a) = 4 /\ Len(b) = 4 /\ Len(c) = 4 /\ Len(d) = IdLength /\ Len(e) = 4 /\ Len(f) = 4
  BY <1>1, <1>2, HeartbeatType
<1>5. to_bytes(message) = Joined(a, b, c, d, e, f, g)
  BY DEF to_bytes, Joined
<1>6. IdLength \in Nat
  BY CodecsAssumption
<1> HIDE DEF a, b, c, d, e, f, g
<1>7. HoldsParts(Joined(a, b, c, d, e, f, g), a, b, c, d, e, f, g, IdLength)
  BY <1>3, <1>4, <1>6, HoldsJoined, Zenon
<1>8. HoldsParts(to_bytes(message), a, b, c, d, e, f, g, IdLength)
  BY <1>5, <1>7
<1>9. QED
  BY <1>8 DEF HoldsParts, HeaderLength, a, b, c, d, e, f, g

LEMMA HeartbeatWrites ==
  ASSUME IInv, ~ IsInfo(message), WritesNext
  PROVE  IInv'
<1>1. WriteHeartbeat
  BY DEF WritesNext, WriteId, WriteInfoId, PackRaises, WriteString, WriteCount, WriteSocket,
         WriteListEnds, Encoding
<1>2. /\ phase = "encode" /\ sent = << >>
      /\ UNCHANGED <<message, data, field, left, pos, decoded, marks>>
      /\ IF HeartbeatFits(message)
         THEN sent' = to_bytes(message) /\ UNCHANGED phase
         ELSE phase' = "unsendable" /\ UNCHANGED sent
  BY <1>1 DEF WriteHeartbeat
<1>3. TypeOK
  BY DEF IInv
<1>4. sent' \in Seq(Byte)
  BY <1>2, <1>3, HeartbeatBytes DEF TypeOK
<1>5. TypeOK'
  BY <1>2, <1>3, <1>4 DEF TypeOK, Phases
<1>6. HeartbeatInv'
  BY <1>2 DEF HeartbeatInv, to_bytes, HeartbeatFits
<1>7. QED
  BY <1>2, <1>5, <1>6 DEF IInv, InfoInv, PrefixInv, IsInfo

LEMMA HeartbeatArrives ==
  ASSUME IInv, ~ IsInfo(message), Arrive
  PROVE  IInv'
<1>1. /\ phase = "encode" /\ phase' = "decode" /\ field' = "end" /\ sent # << >>
      /\ UNCHANGED <<message, sent, left, pos, decoded, marks>>
  BY DEF Arrive
<1>2. TypeOK /\ HeartbeatInv
  BY DEF IInv
<1>3. data' \in Seq(Byte) /\ PrefixInv'
  BY <1>2, ArrivesPrefix
<1>4. TypeOK'
  BY <1>1, <1>2, <1>3 DEF TypeOK, Phases, Fields
<1>5. HeartbeatInv'
  BY <1>1, <1>2 DEF HeartbeatInv, to_bytes, HeartbeatFits, IsInfo
<1>6. QED
  BY <1>1, <1>3, <1>4, <1>5 DEF IInv, InfoInv, IsInfo

(* Of a heartbeat that is long enough all but the end of the group's name is read right. *)
LEMMA HeartbeatReads ==
  ASSUME IInv, ~ IsInfo(message), phase = "decode", Len(data) >= HeaderLength
  PROVE  Header = [message EXCEPT !.group_name =
                     SubSeq(message.group_name, 1, Len(data) - HeaderLength)]
<1>1. /\ TypeOK /\ Prefix /\ sent = to_bytes(message) /\ HeartbeatFits(message)
      /\ message \in Infos \cup Heartbeats /\ data \in Seq(Byte)
  BY DEF IInv, PrefixInv, HeartbeatInv, TypeOK, Prefix
<1>2. IdLength \in Nat /\ HeaderLength \in Nat /\ HeaderLength = 20 + IdLength
  BY CodecsAssumption DEF HeaderLength
<1>3. Len(data) \in Nat
  BY <1>1, LenProperties
<1> DEFINE g == message.group_name
           n == Len(data) - HeaderLength
<1>4. /\ Len(sent) = HeaderLength + Len(g)
      /\ Holds(sent, 0, PackSigned(message.zlc_version[1]))
      /\ Holds(sent, 4, PackSigned(message.zlc_version[2]))
      /\ Holds(sent, 8, PackSigned(message.zlc_version[3]))
      /\ Holds(sent, 12, message.node_id)
      /\ Holds(sent, 12 + IdLength, PackSigned(message.info_id))
      /\ Holds(sent, 16 + IdLength, PackSigned(message.service_port))
      /\ Holds(sent, HeaderLength, g)
  BY <1>1, HeartbeatBytes
<1>5. /\ \A i \in 1 .. 3 : message.zlc_version[i] \in Signed
      /\ message.info_id \in Signed /\ message.service_port \in Signed
  BY <1>1 DEF HeartbeatFits
<1>6. /\ CanUnpack(0, 4) /\ CanUnpack(4, 4) /\ CanUnpack(8, 4) /\ CanUnpack(12, IdLength)
      /\ CanUnpack(12 + IdLength, 4) /\ CanUnpack(16 + IdLength, 4)
      /\ 12 + IdLength \in Nat /\ 16 + IdLength \in Nat
  BY <1>2, <1>3 DEF CanUnpack
<1>7. /\ SignedAt(0) = message.zlc_version[1]
      /\ SignedAt(4) = message.zlc_version[2]
      /\ SignedAt(8) = message.zlc_version[3]
      /\ SignedAt(12 + IdLength) = message.info_id
      /\ SignedAt(16 + IdLength) = message.service_port
  BY <1>1, <1>4, <1>5, <1>6, ReadsSigned
<1>8. Slice(12, IdLength) = message.node_id
  BY <1>1, <1>4, <1>6, HeartbeatType, ReadsBytes
<1>9. g \in Seq(Byte)
  BY <1>1, HeartbeatType
<1>10. Slice(HeaderLength, Len(data)) = SubSeq(g, 1, n)
  <2>1. PICK m \in Nat, h \in Nat, d \in Nat : m = Len(g) /\ h = HeaderLength /\ d = Len(data)
    BY <1>2, <1>3, <1>9, LenProperties
  <2>2. n \in 0 .. m
    <3>1. Len(sent) = h + m /\ d <= Len(sent) /\ d >= h /\ n = d - h
      BY <1>1, <1>4, <2>1 DEF Prefix
    <3>2. QED
      BY <2>1, <3>1
  <2>3. /\ Slice(HeaderLength, Len(data)) \in Seq(Byte)
        /\ Len(Slice(HeaderLength, Len(data))) = n
        /\ \A i \in 1 .. n : Slice(HeaderLength, Len(data))[i] = data[HeaderLength + i]
    <3>1. /\ Slice(h, d) \in Seq(Byte)
          /\ Len(Slice(h, d)) = IF h >= d THEN 0 ELSE IF h + d < d THEN d ELSE d - h
          /\ \A i \in 1 .. Len(Slice(h, d)) : Slice(h, d)[i] = data[h + i]
      BY <1>1, <2>1, SliceTyped
    <3>2. d >= h /\ n = d - h /\ (h >= d => d - h = 0)
      BY <2>1
    <3>3. Len(Slice(h, d)) = n
      BY <2>1, <3>1, <3>2
    <3>4. QED
      BY <2>1, <3>1, <3>3
  <2>4. \A i \in 1 .. n : data[HeaderLength + i] = g[i]
    <3>1. \A i \in 1 .. n : HeaderLength + i \in 1 .. Len(data) /\ i \in 1 .. Len(g)
      BY <1>2, <1>3, <2>1, <2>2
    <3>2. QED
      BY <1>1, <1>4, <3>1 DEF Prefix, Holds
  <2>5. /\ SubSeq(g, 1, n) \in Seq(Byte)
        /\ Len(SubSeq(g, 1, n)) = n
        /\ \A i \in 1 .. n : SubSeq(g, 1, n)[i] = g[i]
    <3>1. \A i \in 1 .. n : g[i] \in Byte
      BY <1>9, <2>1, <2>2, ElementOfSeq
    <3>2. QED
      BY <1>9, <2>2, <3>1, SubSeqProperties
  <2>6. QED
    BY <2>3, <2>4, <2>5, SeqEqual
<1>11. [i \in 1 .. 3 |-> SignedAt(4 * (i - 1))] = message.zlc_version
  <2>1. message.zlc_version \in [1 .. 3 -> Int]
    BY <1>1, HeartbeatType
  <2>2. \A i \in 1 .. 3 : SignedAt(4 * (i - 1)) = message.zlc_version[i]
    <3>1. 4 * (1 - 1) = 0 /\ 4 * (2 - 1) = 4 /\ 4 * (3 - 1) = 8
      OBVIOUS
    <3>2. \A i \in 1 .. 3 : i = 1 \/ i = 2 \/ i = 3
      OBVIOUS
    <3>3. QED
      BY <1>7, <3>1, <3>2
  <2>3. QED
    BY <2>1, <2>2
<1> DEFINE s == SubSeq(g, 1, n)
<1>12. Header = [zlc_version |-> message.zlc_version, node_id |-> message.node_id,
                 info_id |-> message.info_id, service_port |-> message.service_port,
                 group_name |-> s]
  BY <1>7, <1>8, <1>10, <1>11 DEF Header
<1> HIDE DEF s
<1>13. [message EXCEPT !.group_name = s] =
         [zlc_version |-> message.zlc_version, node_id |-> message.node_id,
          info_id |-> message.info_id, service_port |-> message.service_port,
          group_name |-> s]
  BY <1>1, HeartbeatType
<1>14. QED
  BY <1>12, <1>13 DEF s

LEMMA DecodeHeartbeatStep ==
  ASSUME IInv, ~ IsInfo(message), DecodeHeartbeat
  PROVE  IInv'
<1>1. /\ phase = "decode"
      /\ phase' = IF Len(data) >= HeaderLength THEN "done" ELSE "error"
      /\ decoded' = IF Len(data) >= HeaderLength THEN Header ELSE decoded
      /\ UNCHANGED <<message, sent, data, field, left, pos, marks>>
  BY DEF DecodeHeartbeat
<1>2. TypeOK /\ PrefixInv /\ HeartbeatInv
  BY DEF IInv
<1>3. /\ sent # << >> /\ HeartbeatFits(message) /\ sent = to_bytes(message)
      /\ message \in Infos \cup Heartbeats
  BY <1>1, <1>2 DEF HeartbeatInv, TypeOK
<1>4. TypeOK'
  BY <1>1, <1>2 DEF TypeOK, Phases, IsInfo
<1>5. PrefixInv'
  BY <1>1, <1>2 DEF PrefixInv
<1>6. CASE Len(data) >= HeaderLength
  <2>1. decoded' = [message EXCEPT !.group_name =
                      SubSeq(message.group_name, 1, Len(data) - HeaderLength)]
    BY <1>1, <1>6, HeartbeatReads
  <2>2. HeartbeatInv'
    BY <1>1, <1>3, <1>6, <2>1 DEF HeartbeatInv, to_bytes, HeartbeatFits
  <2>3. QED
    BY <1>1, <1>4, <1>5, <2>2 DEF IInv, InfoInv, IsInfo
<1>7. CASE ~ (Len(data) >= HeaderLength)
  <2>1. Len(sent) = HeaderLength + Len(message.group_name)
    BY <1>3, HeartbeatBytes
  <2>2. message.group_name \in Seq(Byte) /\ IdLength \in Nat
    BY <1>3, HeartbeatType, CodecsAssumption
  <2>3. Len(message.group_name) \in Nat /\ HeaderLength \in Nat
    BY <2>2, LenProperties DEF HeaderLength
  <2>4. Len(data) # Len(sent)
    BY <1>7, <2>1, <2>3
  <2>5. cut'
    BY <1>1, <2>4 DEF cut
  <2>6. HeartbeatInv'
    BY <1>1, <1>3, <1>7, <2>5 DEF HeartbeatInv, to_bytes, HeartbeatFits
  <2>7. QED
    BY <1>1, <1>4, <1>5, <2>6 DEF IInv, InfoInv, IsInfo
<1>8. QED
  BY <1>6, <1>7

-----------------------------------------------------------------------------

LEMMA Inductive == IInv /\ [Next]_vars => IInv'
<1> SUFFICES ASSUME IInv, [Next]_vars
             PROVE  IInv'
  OBVIOUS
<1>1. CASE WritesNext
  BY <1>1, InfoWrites, HeartbeatWrites
<1>2. CASE Arrive
  BY <1>2, InfoArrives, HeartbeatArrives
<1>3. CASE ReadsNext
  <2>1. CASE DecodeHeartbeat
    BY <2>1, DecodeHeartbeatStep DEF DecodeHeartbeat
  <2>2. CASE ~ DecodeHeartbeat
    <3>1. IsInfo(message)
      BY <1>3, <2>2 DEF ReadsNext, ReadId, ReadInfoId, UnpackRaises, ReadString, ReadCount,
                        ReadSocket, ReadListEnds, Decoding
    <3>2. QED
      BY <1>3, <2>2, <3>1, FirstReads, StringReads, CountReads, SocketReads, ListEndReads,
         RaiseReads DEF ReadsNext
  <2>3. QED
    BY <2>1, <2>2
<1>4. CASE UNCHANGED vars
  <2>1. TypeOK' /\ PrefixInv'
    BY <1>4 DEF IInv, TypeOK, PrefixInv, vars
  <2>2. MarksInv => MarksInv'
    BY <1>4 DEF MarksInv, Written, SocketWritten, Counted, vars
  <2>3. ReaderInv => ReaderInv'
    BY <1>4 DEF ReaderInv, Agrees, ReadOf, cut, vars
  <2>4. HeartbeatInv'
    BY <1>4 DEF IInv, HeartbeatInv, to_bytes, HeartbeatFits, cut, vars
  <2>5. QED
    BY <1>4, <2>1, <2>2, <2>3, <2>4 DEF IInv, InfoInv, IsInfo, vars
<1>5. QED
  BY <1>1, <1>2, <1>3, <1>4 DEF Next

LEMMA Invariance == Spec => []IInv
BY InitInv, Inductive, PTL DEF Spec

(* Every field has its type, in what has arrived and in what is decoded from it. *)
THEOREM TypeCorrect == Spec => []TypeOK
<1>1. IInv => TypeOK
  BY DEF IInv
<1>2. QED
  BY <1>1, Invariance, PTL

(* A heartbeat that was accepted is the one that was sent, but for the end of its group. *)
LEMMA HeartbeatDone ==
  ASSUME IInv, ~ IsInfo(message), phase = "done"
  PROVE  /\ ~ cut => decoded = message
         /\ cut => /\ decoded.group_name # message.group_name
                   /\ [decoded EXCEPT !.group_name = message.group_name] = message
<1> DEFINE g == message.group_name
           n == Len(data) - HeaderLength
<1>1. /\ TypeOK /\ Prefix /\ sent = to_bytes(message) /\ HeartbeatFits(message)
      /\ message \in Infos \cup Heartbeats
      /\ Len(data) >= HeaderLength
      /\ decoded = [message EXCEPT !.group_name = SubSeq(g, 1, n)]
  BY DEF IInv, PrefixInv, HeartbeatInv, TypeOK, Prefix
<1>2. /\ message \in [zlc_version : [1 .. 3 -> Int], node_id : Ids, info_id : Int,
                      service_port : Int, group_name : Seq(Byte)]
      /\ g \in Seq(Byte)
  BY <1>1, HeartbeatType
<1>3. Len(sent) = HeaderLength + Len(g)
  BY <1>1, HeartbeatBytes
<1>4. HeaderLength \in Nat /\ Len(data) \in Nat /\ Len(sent) \in Nat /\ n \in Nat
  BY <1>1, CodecsAssumption, LenProperties DEF Prefix, HeaderLength
<1>5. ASSUME ~ cut
      PROVE  decoded = message
  <2>1. n = Len(g)
    <3>1. PICK m \in Nat : m = Len(g)
      BY <1>2, LenProperties
    <3>2. QED
      BY <1>3, <1>4, <1>5, <3>1 DEF cut
  <2>2. SubSeq(g, 1, n) = g
    BY <1>2, <2>1, SubSeqFull
  <2>3. QED
    BY <1>1, <1>2, <2>2
<1>6. ASSUME cut
      PROVE  SubSeq(g, 1, n) # g
  <2>1. PICK m \in Nat : m = Len(g)
    BY <1>2, LenProperties
  <2>2. Len(data) # Len(sent)
    BY <1>1, <1>6, SeqEqual DEF cut, Prefix
  <2>3. n < m
    BY <1>1, <1>3, <1>4, <2>1, <2>2 DEF Prefix
  <2>4. \A i \in 1 .. n : g[i] \in Byte
    BY <1>2, <1>4, <2>1, <2>3, ElementOfSeq
  <2>5. Len(SubSeq(g, 1, n)) = n
    BY <1>2, <1>4, <2>4, SubSeqProperties
  <2>6. QED
    BY <1>4, <2>1, <2>3, <2>5
<1>7. QED
  BY <1>1, <1>2, <1>5, <1>6

(***************************************************************************)
(* Node information and heartbeats that arrive whole are decoded to what   *)
(* was encoded, whatever their strings, numbers and lists: what BinWriter  *)
(* and struct.pack have written, BinReader and struct.unpack read back.    *)
(***************************************************************************)
THEOREM DecodesWhatWasEncoded == Spec => []RoundTrip
<1>1. ASSUME IInv
      PROVE  RoundTrip
  <2>1. CASE IsInfo(message)
    BY <1>1, <2>1 DEF IInv, InfoInv, ReaderInv, RoundTrip
  <2>2. CASE ~ IsInfo(message)
    BY <1>1, <2>2, HeartbeatDone DEF IInv, HeartbeatInv, RoundTrip
  <2>3. QED
    BY <2>1, <2>2
<1>2. QED
  BY <1>1, Invariance, PTL

(***************************************************************************)
(* decode_node_info accepts no node information of which bytes are missing,*)
(* although read_string does not notice where a string is cut: the reader  *)
(* is then behind the data, and a number comes next.                       *)
(***************************************************************************)
THEOREM NoTruncatedNode == Spec => []TruncationIsNoticed
<1>1. IInv => TruncationIsNoticed
  BY DEF IInv, InfoInv, ReaderInv, TruncationIsNoticed
<1>2. QED
  BY <1>1, Invariance, PTL

(***************************************************************************)
(* decode_heartbeat_message accepts a cut heartbeat only with a group name *)
(* other than the sender's: everything before the name is right.           *)
(***************************************************************************)
THEOREM CutHeartbeat == Spec => []CutHeartbeatIsForeign
<1>1. ASSUME IInv
      PROVE  CutHeartbeatIsForeign
  BY <1>1, HeartbeatDone DEF CutHeartbeatIsForeign
<1>2. QED
  BY <1>1, Invariance, PTL
=============================================================================
