----------------------------- MODULE Bytestream ----------------------------
(***************************************************************************)
(* parameter_bytestream_t: how parameters become bytes, and bytes become   *)
(* parameters, wherever the host and a plugin meet.                        *)
(*                                                                         *)
(* A byte holds Base values and the widest integer has Width of them (256   *)
(* and 8 in the code); tags, digits and characters are all bytes, so that   *)
(* what is read at a wrong place is not refused for its kind.  The 8 bytes  *)
(* of the length and the 4 of the checksum are a cell each.                *)
(*                                                                         *)
(* A buffer is the sequence of the bytes written; NoBytes stands for the    *)
(* error side of store().                                                  *)
(***************************************************************************)
EXTENDS Integers, FiniteSets, SequencesExt

CONSTANTS
    Base, Width,
    Nesting,     \* bound: how deep lists and maps are nested in each other
    Names        \* the keys that maps have

-----------------------------------------------------------------------------
(* parameter_t                                                             *)

Text(s) == [type |-> "string", value |-> s]
Int64(n) == [type |-> "int64", value |-> n]
UInt64(n) == [type |-> "uint64", value |-> n]
Bool(b) == [type |-> "bool", value |-> b]
List(items) == [type |-> "list", value |-> items]
None == [type |-> "none"]
Map(f) == [type |-> "map",
           value |-> [k \in Names |-> IF k \in DOMAIN f THEN f[k] ELSE None]]
Keys(m) == {k \in Names : m[k] # None}

(* The powers of Base, and the numbers of the widest integer.               *)
Pow[n \in 0..Width] == IF n = 0 THEN 1 ELSE Base * Pow[n - 1]

Half == Pow[Width] \div 2

UInt64s == 0..(Pow[Width] - 1)
Int64s == (Half - Pow[Width])..(Half - 1)

(* static_cast<int64_t> of an unsigned number.                             *)
AsInt64(n) == IF n >= Half THEN n - Pow[Width] ELSE n

(* Whatever is counted is counted by an int64_t.                            *)
Strings == {s \in Seq(0..(Base - 1)) : Len(s) < Half}

Flat == [type : {"string"}, value : Strings] \cup [type : {"int64"}, value : Int64s]
            \cup [type : {"uint64"}, value : UInt64s] \cup [type : {"bool"}, value : BOOLEAN]

Nested(items) == [type : {"list"}, value : {list \in Seq(items) : Len(list) < Half}]
                    \cup [type : {"map"}, value : [Names -> items \cup {None}]]

(* The parameters with at most d lists and maps around each other.          *)
Params[d \in 0..Nesting] == IF d = 0 THEN Flat ELSE Flat \cup Nested(Params[d - 1])

ASSUME WireAssumption ==
    /\ Base \in Nat /\ Base >= 2 /\ Width \in Nat \ {0} /\ Nesting \in Nat
    /\ Names \subseteq Strings /\ IsFiniteSet(Names) /\ Cardinality(Names) < Half

-----------------------------------------------------------------------------
(* Writing                                                                 *)

StringTag(n) == n
NumberTag(n) == Width + n
NegNumberTag(n) == 2 * Width + n
BooleanTag == 3 * Width + 1
VectorTag == 3 * Width + 2
MapTag == 3 * Width + 3

(* Mutant: a power of Base is given as few bytes as the number below it.    *)
BytesNeededBelow(v) ==
    CHOOSE n \in 1..Width : v <= Pow[n] /\ \A k \in 1..(n - 1) : v > Pow[k]

BytesNeeded(v) ==
    CHOOSE n \in 1..Width : v < Pow[n] /\ \A k \in 1..(n - 1) : v >= Pow[k]

Digits(v, n) == [i \in 1..n |-> (v \div Pow[i - 1]) % Base]

(* Mutant: the sign is lost.                                               *)
WriteIntegerUnsigned(val) ==
    LET v == IF val >= 0 THEN val ELSE -val IN
    <<NumberTag(BytesNeeded(v))>> \o Digits(v, BytesNeeded(v))

WriteInteger(val) ==
    LET v == IF val >= 0 THEN val ELSE -val
        n == BytesNeeded(v)
    IN  <<IF val >= 0 THEN NumberTag(n) ELSE NegNumberTag(n)>> \o Digits(v, n)

WriteString(s) ==
    LET n == BytesNeeded(Len(s)) IN
    <<StringTag(n)>> \o Digits(Len(s), n) \o s

(* One parameter; "write" does it for those inside.  The order of an         *)
(* unordered_map is any; here, one that SetToSeq chooses.                   *)
Serialize(write, p) ==
    CASE p.type = "string" -> WriteString(p.value)
      [] p.type = "int64"  -> WriteInteger(p.value)
      [] p.type = "uint64" -> WriteInteger(AsInt64(p.value))
      [] p.type = "bool"   -> <<BooleanTag, IF p.value THEN 1 ELSE 0>>
      [] p.type = "list"   ->
            <<VectorTag>> \o WriteInteger(Len(p.value))
                \o FlattenSeq([i \in DOMAIN p.value |-> write[p.value[i]]])
      [] p.type = "map"    ->
            LET keys == SetToSeq(Keys(p.value)) IN
            <<MapTag>> \o WriteInteger(Len(keys))
                \o FlattenSeq([i \in DOMAIN keys |->
                                  WriteString(keys[i]) \o write[p.value[keys[i]]]])

Writer[d \in 0..Nesting] ==
    [p \in Params[d] |-> Serialize(IF d = 0 THEN <<>> ELSE Writer[d - 1], p)]

Bytes(p) == Writer[Nesting][p]

WireVersion == 2
HeaderSize == 3

(* A checksum without collisions: nothing changes the bytes on their way.   *)
Crc(payload) == payload

NoBytes == <<>>

(* Every write asks for the room it takes: all of them get it if the whole  *)
(* does.                                                                   *)
Store(p, capacity) ==
    LET payload == Bytes(p)
        bytes == <<WireVersion, Len(payload), Crc(payload)>> \o payload
    IN  IF Len(bytes) <= capacity THEN bytes ELSE NoBytes

-----------------------------------------------------------------------------
(* Reading: what was read and where the next byte is                       *)

Read(v, next) == [ok |-> TRUE, value |-> v, next |-> next]
Unreadable == [ok |-> FALSE]

(* n bytes from at on.                                                      *)
Unsigned(buf, at, n) ==
    LET first[k \in 0..n] == IF k = 0 THEN 0 ELSE first[k - 1] + Pow[k - 1] * buf[at + k - 1]
    IN  first[n]

ReadInteger(buf, at, n) ==
    IF at + n - 1 <= Len(buf) THEN Read(AsInt64(Unsigned(buf, at, n)), at + n) ELSE Unreadable

(* The least int64_t has no positive counterpart: the widest form is         *)
(* negated as an unsigned number.                                          *)
Negated(n, v) == IF n < Width THEN -v ELSE AsInt64((Pow[Width] - v) % Pow[Width])

ReadLen(buf, at) ==
    IF at <= Len(buf) /\ buf[at] \in NumberTag(1)..NumberTag(Width)
    THEN ReadInteger(buf, at + 1, buf[at] - Width)
    ELSE Unreadable

ReadString(buf, at) ==
    IF at > Len(buf) \/ buf[at] \notin StringTag(1)..StringTag(Width) THEN Unreadable
    ELSE LET size == ReadInteger(buf, at + 1, buf[at]) IN
         IF size.ok /\ size.value >= 0 /\ size.next + size.value - 1 <= Len(buf)
         THEN Read(SubSeq(buf, size.next, size.next + size.value - 1), size.next + size.value)
         ELSE Unreadable

(* n values one after another, of which "read" reads one at each place.     *)
ReadMany(read, at, n) ==
    LET first[k \in 0..n] ==
            IF k = 0 THEN Read(<<>>, at)
            ELSE LET before == first[k - 1]
                     one == read[before.next]
                 IN  IF before.ok /\ one.ok
                     THEN Read(Append(before.value, one.value), one.next)
                     ELSE Unreadable
    IN  first[n]

(* A negative length is a large unsigned one: more than there are bytes.    *)
ReadVector(read, buf, at) ==
    LET size == ReadLen(buf, at)
        items == ReadMany(read, size.next, size.value)
    IN  IF size.ok /\ size.value >= 0 /\ items.ok
        THEN Read(List(items.value), items.next)
        ELSE Unreadable

ReadEntry(read, buf, at) ==
    LET key == ReadString(buf, at)
        item == read[key.next]
    IN  IF key.ok /\ item.ok
        THEN Read([key |-> key.value, item |-> item.value], item.next)
        ELSE Unreadable

(* emplace() keeps the first of two equal keys.                            *)
Emplaced(entries) ==
    [k \in {entries[i].key : i \in DOMAIN entries} |->
        entries[CHOOSE i \in DOMAIN entries :
                    /\ entries[i].key = k
                    /\ \A j \in 1..(i - 1) : entries[j].key # k].item]

ReadMap(read, buf, at) ==
    LET size == ReadLen(buf, at)
        entries == ReadMany([next \in Nat |-> ReadEntry(read, buf, next)], size.next, size.value)
    IN  IF size.ok /\ size.value >= 0 /\ entries.ok
        THEN Read(Map(Emplaced(entries.value)), entries.next)
        ELSE Unreadable

(* One parameter; "read" reads those inside.                                *)
Deserialize(read, buf, at) ==
    IF at > Len(buf) THEN Unreadable
    ELSE LET tag == buf[at] IN
         CASE tag = 0 -> Read(Text(<<>>), at + 1)
           [] tag \in StringTag(1)..StringTag(Width) ->
                  LET s == ReadString(buf, at) IN
                  IF s.ok THEN Read(Text(s.value), s.next) ELSE Unreadable
           [] tag \in NumberTag(1)..NumberTag(Width) ->
                  LET v == ReadInteger(buf, at + 1, tag - Width) IN
                  IF v.ok THEN Read(Int64(v.value), v.next) ELSE Unreadable
           [] tag \in NegNumberTag(1)..NegNumberTag(Width) ->
                  LET n == tag - 2 * Width
                      v == ReadInteger(buf, at + 1, n)
                  IN  IF v.ok THEN Read(Int64(Negated(n, v.value)), v.next) ELSE Unreadable
           [] tag = BooleanTag ->
                  IF at < Len(buf) THEN Read(Bool(buf[at + 1] = 1), at + 2) ELSE Unreadable
           [] tag = VectorTag -> ReadVector(read, buf, at + 1)
           [] tag = MapTag -> ReadMap(read, buf, at + 1)
           [] OTHER -> Unreadable

(* The reader of a buffer: level d reads what Writer[d - 1] writes.         *)
Reader(buf) ==
    LET level[d \in 0..(Nesting + 1)] ==
            [at \in Nat |-> IF d = 0 THEN Unreadable ELSE Deserialize(level[d - 1], buf, at)]
    IN  level[Nesting + 1]

(* What is left over after a well-formed payload is an error too.          *)
NothingLeft(result, size) ==
    IF result.ok /\ result.next = size + 1 THEN result ELSE Unreadable

Load(bytes) ==
    IF Len(bytes) < HeaderSize \/ bytes[1] # WireVersion \/ HeaderSize + bytes[2] > Len(bytes)
    THEN Unreadable
    ELSE LET payload == SubSeq(bytes, HeaderSize + 1, HeaderSize + bytes[2]) IN
         IF Crc(payload) = bytes[3] THEN NothingLeft(Reader(payload)[1], Len(payload)) ELSE Unreadable
=============================================================================
