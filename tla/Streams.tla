------------------------------ MODULE Streams -------------------------------
(***************************************************************************)
(* How the game server reads and writes what the layouts describe          *)
(* (src/nagus/structs.py, game_server.py and pl_messages.py).              *)
(*                                                                         *)
(* A reader at a position of a stream returns the value of what is there,  *)
(* the tokens that its write method writes and the next position, or       *)
(* raises an exception.  The value of a layout is a record of its fields;  *)
(* a field that isn't there is <<>>.                                       *)
(***************************************************************************)
EXTENDS NetMessages, PlMessages

CONSTANTS
    Second,         \* 1000000, the microseconds of a second
    Eternity,       \* 2^32, the seconds that a time can count
    Replaced,       \* whether structs.py replaces enum.IntFlag (SdlBlob)
    Nesting,        \* how deep calls of readers can be, Python's recursion limit
    NetItems,       \* the items that net messages consist of, and those of the
    EngineItems,    \* messages of the engine: what readers are called for
    Rank            \* how deep the calls for an item are, if it contains no object

MaxRank == 7

StreamsAssumption ==
    /\ Second \in Nat \ {0} /\ Eternity \in Nat \ {0} /\ Replaced \in BOOLEAN
    /\ Nesting \in Nat /\ Nesting >= MaxRank

ASSUME StreamsAssumption

Items == NetItems \cup EngineItems

\* The formats of which struct makes integers.
Integers_ == {"u8", "u16", "u32", "i16", "i32"}

Raises(error) == [error |-> error]
Got(value, wire, next) == [error |-> "none", value |-> value, wire |-> wire, next |-> next]

Then(r, F(_)) == IF r.error # "none" THEN r ELSE F(r)

\* What is written if struct.pack raises an error, or a write method does.
Failures == {"struct.error", "AttributeError"}
Failure(error) == << <<error, 0>> >>

Wrote(tokens) == \A k \in DOMAIN tokens : tokens[k][1] \notin Failures

-----------------------------------------------------------------------------
(* Layouts.                                                                *)

ItemsOf(layout) == [k \in DOMAIN layout |-> layout[k][2]]

Place(layout, name) == CHOOSE k \in DOMAIN layout : layout[k][1] = name

\* What is known of the fields by name, if it is known of them in their order.
ByName(layout, known) ==
    [name \in {layout[k][1] : k \in DOMAIN layout} |-> known[Place(layout, name)]]

FlagsOf(fields) == {fields[k][1] : k \in DOMAIN fields} \ {Always}

\* The fields of which the flags say that they are there.
Present(fields, flags) ==
    [k \in DOMAIN fields |->
       <<fields[k][2],
         IF fields[k][1] = Always \/ fields[k][1] \in flags THEN fields[k][3] ELSE Nothing>>]

\* The layouts and the items that an item consists of.
LayoutsOf(item) ==
    CASE item.kind = "choice" -> {item.yes, item.no}
      [] item.kind = "group" -> {item.layout}
      [] item.kind = "flagged" ->
           {[k \in DOMAIN item.fields |-> <<item.fields[k][2], item.fields[k][3]>>]}
      [] item.kind = "creatable" ->
           {Classes[item.family][class] : class \in DOMAIN Classes[item.family]}
      [] OTHER -> {}

Fields(layout) == {layout[k][2] : k \in DOMAIN layout}

Parts(item) ==
    (UNION {Fields(layout) : layout \in LayoutsOf(item)})
      \cup (IF item.kind = "many" THEN {item.item} ELSE {})
      \cup (IF item.kind = "flagged" THEN {Nothing} ELSE {})
      \cup (IF item.kind = "variable" THEN {Key} ELSE {})

\* Items that start with the index of a class.
IsObject(item) == item.kind = "creatable" /\ item.code = "class"

LeafKinds ==
    {"number", "legal", "except", "bool", "true", "safe", "bits", "time", "delivery",
     "stream", "rest"}

IsLayout(layout, items) == layout \in Seq(STRING \X items)

\* What the items are: those of net messages contain no objects, no other stream and
\* no time but that of the header.
ItemsAssumption ==
    /\ {Nothing, NetMessageHeader} \subseteq NetItems
    /\ \A class \in DOMAIN NetMessages : IsLayout(NetMessages[class], NetItems)
    /\ IsLayout(UnknownNetMessage, NetItems) /\ IsLayout(UnknownMessage, EngineItems)
    /\ \A family \in DOMAIN Classes : \A class \in DOMAIN Classes[family] :
         IsLayout(Classes[family][class], EngineItems)
    /\ \A item \in Items :
         /\ \/ item.kind \in LeafKinds /\ Parts(item) = {}
            \/ item.kind \in {"choice", "many", "group", "flagged", "creatable", "variable"}
         /\ item.kind \in {"number", "legal", "except", "many", "flagged"} =>
              item.code \notin Failures \cup {"event", "class"}
         /\ item.kind = "creatable" =>
              /\ item.family \in DOMAIN Classes /\ item.code \in {"event", "class"}
              /\ item.code = "event" <=> item.family = "NotifyEvent"
         /\ item.kind = "many" => item.code \in Integers_
         /\ item.kind = "flagged" => item.fields \in Seq(STRING \X STRING \X Items)
         /\ \A layout \in LayoutsOf(item) : IsLayout(layout, Items)
         /\ Parts(item) \subseteq Items
         /\ Rank[item] \in 1..MaxRank
         /\ \A part \in Parts(item) : IsObject(item) \/ Rank[part] < Rank[item]
    /\ \A item \in NetItems :
         /\ item.kind \notin {"choice", "creatable", "variable"}
         /\ \A part \in Parts(item) :
              /\ part \in NetItems /\ part.kind \notin {"rest", "delivery", "stream"}
              /\ part.kind = "time" => item = NetMessageHeader
              /\ part # NetMessageHeader

ASSUME ItemsAssumption

\* The fields of net messages have different names.  Streams and delivery times are
\* called that, and what is left of a message is its last field.
FieldsAssumption ==
    \A class \in DOMAIN NetMessages : \A k \in DOMAIN NetMessages[class] :
      LET layout == NetMessages[class]
          item == layout[k][2]
      IN  /\ \A l \in DOMAIN layout : layout[l][1] = layout[k][1] => l = k
          /\ item.kind \notin {"time", "rest"} /\ item # NetMessageHeader
          /\ item.kind = "stream" <=> layout[k][1] = "stream"
          /\ item.kind = "delivery" <=> layout[k][1] = "delivery_time"

ASSUME FieldsAssumption

\* What struct makes of bytes.
IsToken(token) ==
    LET v == token[2]
    IN  /\ token = <<token[1], v>> /\ token[1] \notin Failures
        /\ token[1] \in Integers_ => v \in Int
        /\ token[1] = "safe" =>
             v \in [marked : BOOLEAN, string : {<<>>} \cup (BOOLEAN \X BOOLEAN)]
        /\ token[1] = "bits" => v \in Seq(Nat)
        /\ token[1] = "time" => v \in Nat \X Nat

IsStream(s) == s \in Seq({s[k] : k \in DOMAIN s}) /\ \A k \in DOMAIN s : IsToken(s[k])

-----------------------------------------------------------------------------
(* Reading what isn't made of anything else.                               *)

\* read_exact and stream_unpack.  Layouts that don't fit are misread.
Take(code, s, i) ==
    IF i > Len(s) THEN Raises("EOFError")
    ELSE IF s[i][1] # code THEN Raises("Misread")
    ELSE Got(s[i][2], << <<code, s[i][2]>> >>, i + 1)

Only(r, S) == Then(r, LAMBDA v : IF v.value \in S THEN v ELSE Raises("ValueError"))

Without(r, S) == Then(r, LAMBDA v : IF v.value \in S THEN Raises("ValueError") ELSE v)

WriteBool(yes) == << <<"u8", IF yes THEN 1 ELSE 0>> >>

ReadBool(s, i) ==
    Then(Take("u8", s, i), LAMBDA v : Got(v.value # 0, WriteBool(v.value # 0), v.next))

\* A string is whether its first byte has the high bit, and whether it is the
\* other way round; <<>> is the empty one.  On the wire it is flipped.
Flip(string) == IF string = <<>> THEN <<>> ELSE <<~string[1], ~string[2]>>

WriteSafe(string) == << <<"safe", [marked |-> TRUE, string |-> Flip(string)]>> >>

Unflipped(string) == IF string # <<>> /\ string[1] THEN Flip(string) ELSE string

read_safe_string(s, i) ==
    Then(Take("safe", s, i), LAMBDA v :
      IF ~v.value.marked THEN Raises("ValueError")
      ELSE Got(Unflipped(v.value.string), WriteSafe(Unflipped(v.value.string)), v.next))

\* Bit vectors are words, the last of which isn't zero.
Significant(words) ==
    LET zeros == {n \in 0..Len(words) : \A k \in (n + 1)..Len(words) : words[k] = 0}
    IN  SubSeq(words, 1, CHOOSE n \in zeros : \A k \in zeros : n <= k)

read_bit_vector(s, i) ==
    Then(Take("bits", s, i), LAMBDA v :
      Got(Significant(v.value), << <<"bits", Significant(v.value)>> >>, v.next))

Normalised(time) == <<time[1] + time[2] \div Second, time[2] % Second>>

\* pack_unified_time
WriteTime(time) ==
    IF time[1] < Eternity THEN << <<"time", time>> >> ELSE Failure("struct.error")

read_unified_time(s, i) ==
    Then(Take("time", s, i), LAMBDA v :
      Got(Normalised(v.value), WriteTime(Normalised(v.value)), v.next))

Start == <<0, 0>>    \* ZERO_DATETIME

\* A mutant: a delivery time is always there.
WriteDeliveryAlways(time) == << <<"u8", 0>> >> \o WriteTime(time)

\* NetMessageGameMessage.write and read
WriteDelivery(time) ==
    IF time = Start THEN << <<"u8", 0>> >> ELSE << <<"u8", 1>> >> \o WriteTime(time)

ReadDelivery(s, i) ==
    Then(ReadBool(s, i), LAMBDA there :
      IF ~there.value THEN Got(Start, WriteDelivery(Start), there.next)
      ELSE Then(read_unified_time(s, there.next), LAMBDA v :
             Got(v.value, WriteDelivery(v.value), v.next)))

\* NetMessageStream.write and read; compression can't have failed.
WriteStream(stream) ==
    << <<"u32", stream.length>>, <<"u8", stream.type>>, <<"data", stream.data>> >>

ReadStream(s, i) ==
    Then(Take("u32", s, i), LAMBDA length :
      Then(Only(Take("u8", s, length.next), {0, 2, 3}), LAMBDA type :
        Then(Take("data", s, type.next), LAMBDA data :
          LET stream == [length |-> length.value, type |-> type.value, data |-> data.value]
          IN  Got(stream, WriteStream(stream), data.next))))

\* Which flags are kept of those that were read.
ReadFlags(item, s, i) ==
    Then(Take(item.code, s, i), LAMBDA v :
      LET known == FlagsOf(item.fields)
          strict == item.others = "error" \/ (item.others = "unsupported" /\ ~Replaced)
          flags == IF item.others = "kept" THEN v.value ELSE v.value \cap known
      IN  IF strict /\ ~(v.value \subseteq known) THEN Raises("ValueError")
          ELSE Got(flags, << <<item.code, flags>> >>, v.next))

-----------------------------------------------------------------------------
(* Reading everything else, with what reads the parts: a function of what  *)
(* to read and where.                                                      *)

\* One after another; the value are the results.
ReadAll(read, items, i) ==
    LET first[k \in Nat] ==
          IF k = 0 THEN Got(<<>>, <<>>, i)
          ELSE Then(first[k - 1], LAMBDA done :
                 Then(read[<<items[k], done.next>>], LAMBDA r :
                   Got(Append(done.value, r), done.wire \o r.wire, r.next)))
    IN  first[Len(items)]

Values(results) == [k \in DOMAIN results |-> results[k].value]
Wires(results) == [k \in DOMAIN results |-> results[k].wire]

ReadLayout(read, layout, i) ==
    Then(ReadAll(read, ItemsOf(layout), i), LAMBDA all :
      Got(ByName(layout, Values(all.value)), all.wire, all.next))

ReadMany(read, item, s, i) ==
    Then(Take(item.code, s, i), LAMBDA count :
      Then(ReadAll(read, [k \in 1..count.value |-> item.item], count.next), LAMBDA all :
        Got(Values(all.value), << <<item.code, Len(all.value)>> >> \o all.wire, all.next)))

ReadChoice(read, item, s, i) ==
    Then(ReadBool(s, i), LAMBDA there :
      Then(ReadLayout(read, IF there.value THEN item.yes ELSE item.no, there.next), LAMBDA v :
        Got([there |-> there.value, value |-> v.value], there.wire \o v.wire, v.next)))

ReadFlagged(read, item, s, i) ==
    Then(ReadFlags(item, s, i), LAMBDA flags :
      Then(ReadLayout(read, Present(item.fields, flags.value), flags.next), LAMBDA v :
        Got([flags |-> flags.value, fields |-> v.value], flags.wire \o v.wire, v.next)))

\* creatable_from_stream and from_stream_with_type
ReadCreatable(read, item, s, i) ==
    Then(Take(item.code, s, i), LAMBDA class :
      IF class.value = "null" /\ item.family = "Message"
      THEN IF item.nullable THEN Got(<<>>, class.wire, class.next) ELSE Raises("ValueError")
      ELSE IF class.value \notin DOMAIN Classes[item.family]
      THEN Raises(UnknownClass(item.family))
      ELSE IF Unreadable(item.family, class.value) THEN Raises("AttributeError")
      ELSE Then(ReadLayout(read, Classes[item.family][class.value], class.next), LAMBDA v :
             Got([class |-> class.value, fields |-> v.value], class.wire \o v.wire, v.next)))

\* VariableEvent; its write method asks for an attribute that nothing sets.
ReadVariable(read, s, i) ==
    Then(Only(Take("i32", s, i), 1..4), LAMBDA type :
      Then(Take(IF type.value = 1 THEN "f32" ELSE "i32", s, type.next), LAMBDA number :
        Then(read[<<Key, number.next>>], LAMBDA key :
          IF \/ type.value \in {2, 4} /\ number.value # 0
             \/ type.value # 2 /\ key.value.there
          THEN Raises("ValueError")
          ELSE Got([type |-> type.value, number |-> number.value, key |-> key.value],
                   Failure("AttributeError"), key.next))))

ReadItem(read, item, s, i) ==
    CASE item.kind = "number" -> Take(item.code, s, i)
      [] item.kind = "legal" -> Only(Take(item.code, s, i), item.legal)
      [] item.kind = "except" -> Without(Take(item.code, s, i), {item.illegal})
      [] item.kind = "bool" -> ReadBool(s, i)
      [] item.kind = "true" -> Without(ReadBool(s, i), {FALSE})
      [] item.kind = "safe" -> read_safe_string(s, i)
      [] item.kind = "bits" -> read_bit_vector(s, i)
      [] item.kind = "time" -> read_unified_time(s, i)
      [] item.kind = "delivery" -> ReadDelivery(s, i)
      [] item.kind = "stream" -> ReadStream(s, i)
      [] item.kind = "rest" -> Got(SubSeq(s, i, Len(s)), SubSeq(s, i, Len(s)), Len(s) + 1)
      [] item.kind = "choice" -> ReadChoice(read, item, s, i)
      [] item.kind = "many" -> ReadMany(read, item, s, i)
      [] item.kind = "group" -> ReadLayout(read, item.layout, i)
      [] item.kind = "flagged" -> ReadFlagged(read, item, s, i)
      [] item.kind = "creatable" -> ReadCreatable(read, item, s, i)
      [] item.kind = "variable" -> ReadVariable(read, s, i)

\* What reads the items in a stream, and how deep it may be nested.
Readers(s) ==
    LET within[n \in Nat] ==
          [at \in Items \X (1..(Len(s) + 1)) |->
             IF n = 0 THEN Raises("RecursionError")
             ELSE ReadItem(within[n - 1], at[1], s, at[2])]
    IN  within

Reader(s) == Readers(s)[Nesting]

-----------------------------------------------------------------------------
(* The data of a stream message (NetMessageStream).                        *)

\* Which bytes, whether they are compressed and whether that can be undone, and
\* what they are.  A length is 0, or 1 if it is what it must be.
Packings == {"plain", "zlib", "broken", "short"}

decompress_data(stream) ==
    IF stream.type = 2
    THEN CASE stream.data.packing = "short" -> Raises("ValueError")
           [] stream.data.packing \in {"plain", "broken"} -> Raises("zlib.error")
           [] stream.data.packing = "zlib" ->
                IF stream.length = 1 THEN Got(stream.data.content, <<>>, 1)
                ELSE Raises("ValueError")
    ELSE IF stream.length # 0 THEN Raises("ValueError")
    ELSE IF stream.data.packing = "plain" THEN Got(stream.data.content, <<>>, 1)
    ELSE Got(<<>>, <<>>, 1)

\* By default long data are compressed.
compress_and_set_data(content, long) ==
    [length |-> IF long THEN 1 ELSE 0, type |-> IF long THEN 2 ELSE 0,
     data |-> [packing |-> IF long THEN "zlib" ELSE "plain", content |-> content]]
=============================================================================
