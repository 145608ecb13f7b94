------------------------------ MODULE SdlBlob ------------------------------
(***************************************************************************)
(* SDL records as the server reads and writes them without their state     *)
(* descriptors (src/nagus/sdl.py).  Where a variable's data ends is not in *)
(* a blob; GuessedSDLRecord looks for what looks like the start of the     *)
(* next variable or record.  So bytes are numbers here, a blob is a        *)
(* sequence of them and positions count from 1.                            *)
(*                                                                         *)
(* A reader returns what it has read and the position after it, or the     *)
(* class of the exception that it raises.  Dictionaries are sequences of   *)
(* entries in the order of insertion.                                      *)
(***************************************************************************)
EXTENDS Integers, Sequences, SequencesExt

CONSTANTS
    LookAhead,  \* 128, how far the end of a variable's data is looked for
    Replaced    \* whether structs.py replaces enum.IntFlag, as it does from
                \* Python 3.11 on; the complement of flags then lacks the bits
                \* above all that are defined, and no check for unsupported
                \* flags finds those

Raises(error) == [error |-> error, value |-> <<>>, next |-> 0]
Reads(value, next) == [error |-> "", value |-> value, next |-> next]

Then(r, F(_, _)) == IF r.error # "" THEN r ELSE F(r.value, r.next)

\* structs.read_exact and stream.read.
Take(b, i, n) ==
    IF i + n - 1 > Len(b) THEN Raises("EOFError") ELSE Reads(SubSeq(b, i, i + n - 1), i + n)
TakeByte(b, i) == IF i > Len(b) THEN Raises("EOFError") ELSE Reads(b[i], i + 1)
Peek(b, i, n) == SubSeq(b, i, IF i + n - 1 > Len(b) THEN Len(b) ELSE i + n - 1)

\* dict.__setitem__
Put(entries, i, v) ==
    IF \E k \in DOMAIN entries : entries[k].index = i
    THEN [k \in DOMAIN entries |-> IF entries[k].index = i THEN [index |-> i, value |-> v]
                                   ELSE entries[k]]
    ELSE Append(entries, [index |-> i, value |-> v])

Flipped(s) == [k \in DOMAIN s |-> 255 - s[k]]

\* At least one of the count's high four bits is set.
read_safe_string(b, i) ==
    Then(Take(b, i, 2), LAMBDA count, start :
      IF count[2] < 16 THEN Raises("ValueError")
      ELSE Then(Take(b, start, count[1] + 256 * (count[2] % 16)), LAMBDA string, next :
             Reads(IF string # <<>> /\ string[1] >= 128 THEN Flipped(string) ELSE string, next)))

write_safe_string(s) == <<Len(s) % 256, 240 + Len(s) \div 256>> \o Flipped(s)

Bit(flags, bit) == (flags \div bit) % 2 = 1

\* A flag from that bit on is set, and found to be unsupported.
Unknown(flags, bit) == flags >= bit /\ ~Replaced

NoHint == [present |-> FALSE, string |-> <<>>]

\* The notification info that starts every variable.
VariableValueBase(b, i) ==
    Then(TakeByte(b, i), LAMBDA flags, next :
      IF Bit(flags, 1) \/ Unknown(flags, 4) THEN Raises("ValueError")
      ELSE IF ~Bit(flags, 2) THEN Reads(NoHint, next)
      ELSE Then(TakeByte(b, next), LAMBDA save, start :
             IF save # 0 THEN Raises("ValueError")
             ELSE Then(read_safe_string(b, start), LAMBDA string, end :
                    Reads([present |-> TRUE, string |-> string], end))))

WriteBase(hint) ==
    IF hint.present THEN <<2, 0>> \o write_safe_string(hint.string) ELSE <<0>>

\* The flags of a simple variable are has_timestamp, same_as_default, dirty and
\* want_timestamp, 4 to 32; a timestamp has eight bytes.
SimpleHeader(b, i) ==
    Then(VariableValueBase(b, i), LAMBDA hint, next :
      Then(TakeByte(b, next), LAMBDA flags, after :
        IF flags % 4 # 0 \/ Unknown(flags, 64) THEN Raises("ValueError")
        ELSE Then(Take(b, after, IF Bit(flags, 4) THEN 8 ELSE 0), LAMBDA time, end :
               Reads([hint |-> hint, flags |-> flags, time |-> time], end))))

\* A bug: one byte too many is asked for.
LooksLikeVariableLong(d) == Len(d) > 4 /\ d[1] = 2 /\ d[2] = 0 /\ d[3] < 128 /\ d[4] = 240

LooksLikeVariable(d) == Len(d) >= 4 /\ d[1] = 2 /\ d[2] = 0 /\ d[3] < 128 /\ d[4] = 240
LooksLikeBody(d) == Len(d) >= 3 /\ d[1] \in {0, 1} /\ d[2] = 0 /\ d[3] = 6

\* The offset at which d first looks like that, or None.
None == -1
FirstOffset(d, Looks(_)) ==
    LET hits == {k \in 1..Len(d) : Looks(SubSeq(d, k, Len(d)))}
    IN  IF hits = {} THEN None ELSE (CHOOSE k \in hits : \A j \in hits : k <= j) - 1

\* How many of the bytes after a simple variable's header are its data, and
\* whether the nested variables have indices if it is the last: by the first
\* offsets of what looks like a variable and like a record.
ExtentBefore(var, body, look, last, indexed) ==
    LET Is(size, nestedIndexed) == Reads([size |-> size, nestedIndexed |-> nestedIndexed], 0)
    IN  IF var = None /\ body = None
        THEN IF last /\ Len(look) < LookAhead /\ look # <<>> /\ look[Len(look)] = 0
             THEN Is(Len(look) - 1, TRUE)
             ELSE Raises("ValueError")
        ELSE IF last /\ body # None /\ (var = None \/ body < var)
        THEN IF body = 0 \/ look[body] # 0 THEN Raises("AssertionError")
             ELSE Is(body - 1, TRUE)
        ELSE IF last
        THEN IF var = 0 THEN Raises("AssertionError") ELSE Is(var - 1, FALSE)
        ELSE IF var = None THEN Raises("ValueError")
        ELSE IF indexed /\ var = 0 THEN Raises("AssertionError")
        ELSE Is(IF indexed THEN var - 1 ELSE var, FALSE)

Extent(look, last, indexed) ==
    ExtentBefore(FirstOffset(look, LooksLikeVariable), FirstOffset(look, LooksLikeBody),
                 look, last, indexed)

\* An entry's index, which is its number unless it is in the blob.
ReadIndex(b, i, n, indexed) == IF indexed THEN TakeByte(b, i) ELSE Reads(n, i)

\* The remaining simple variables, of which c are to be read in all.
RECURSIVE SimpleValues(_, _, _, _, _, _)
SimpleValues(b, i, n, c, indexed, values) ==
    Then(ReadIndex(b, i, n, indexed), LAMBDA index, start :
      Then(SimpleHeader(b, start), LAMBDA head, next :
        Then(Extent(Peek(b, next, LookAhead), n = c - 1, indexed), LAMBDA extent, unused :
          LET end == next + extent.size
              all == Put(values, index, [hint |-> head.hint, flags |-> head.flags,
                                         time |-> head.time, data |-> Peek(b, next, extent.size)])
          IN  IF n = c - 1
              THEN Reads([values |-> all, nestedIndexed |-> extent.nestedIndexed], end)
              ELSE SimpleValues(b, end, n + 1, c, indexed, all))))

\* Whether the values of a nested variable have indices, and a length before.
NestedLayout(look) ==
    LET Is(length, indexed) == Reads([length |-> length, indexed |-> indexed], 0)
        At(k) == LooksLikeBody(SubSeq(look, k + 1, Len(look)))
    IN  IF Len(look) >= 5 /\ \A k \in 1..5 : look[k] = 0 THEN Is(TRUE, TRUE)
        ELSE IF At(6) THEN Is(TRUE, TRUE)
        ELSE IF At(5) THEN Is(TRUE, FALSE)
        ELSE IF At(2) THEN Is(FALSE, TRUE)
        ELSE IF At(1) THEN Is(FALSE, FALSE)
        ELSE Raises("ValueError")

RECURSIVE Record(_, _), NestedVariable(_, _), NestedValues(_, _, _, _, _, _),
          NestedVariables(_, _, _, _, _, _)

\* The simple variables with their indices or without, or what follows none.
ReadSimple(b, i, c) ==
    LET none(nestedIndexed) == Reads([values |-> <<>>, nestedIndexed |-> nestedIndexed], i)
        Looks(k, n) == LooksLikeVariable(Peek(b, i + k, n))
    IN  IF c = 0
        THEN IF Looks(1, 5) THEN none(FALSE)
             ELSE IF Looks(2, 4) THEN none(TRUE)
             ELSE Raises("ValueError")
        ELSE IF Looks(0, 5) THEN SimpleValues(b, i, 0, c, FALSE, <<>>)
        ELSE IF Looks(1, 4) THEN SimpleValues(b, i, 0, c, TRUE, <<>>)
        ELSE Raises("ValueError")

\* SDLRecordBase.base_read: flags and version.
RecordBase(b, i) ==
    Then(Take(b, i, 2), LAMBDA flags, start :
      IF Unknown(flags[1] + 256 * flags[2], 2) THEN Raises("ValueError")
      ELSE Then(TakeByte(b, start), LAMBDA version, next :
             IF version # 6 THEN Raises("ValueError") ELSE Reads(flags, next)))

\* GuessedSDLRecord.read
Record(b, i) ==
    Then(RecordBase(b, i), LAMBDA flags, start :
      Then(TakeByte(b, start), LAMBDA c, at :
        Then(ReadSimple(b, at, c), LAMBDA simple, next :
          Then(TakeByte(b, next), LAMBDA d, first :
            Then(NestedVariables(b, first, 0, d, simple.nestedIndexed, <<>>), LAMBDA nested, end :
              Reads([flags |-> flags,
                     indexed |-> c = 0 \/ ~LooksLikeVariable(Peek(b, at, 5)),
                     simple |-> simple.values, nestedIndexed |-> simple.nestedIndexed,
                     nested |-> nested],
                    end))))))

NestedVariables(b, i, n, c, indexed, values) ==
    IF n = c THEN Reads(values, i)
    ELSE Then(ReadIndex(b, i, n, indexed), LAMBDA index, start :
           Then(NestedVariable(b, start), LAMBDA value, next :
             NestedVariables(b, next, n + 1, c, indexed, Put(values, index, value))))

\* GuessedNestedSDLVariableValue.read; the flags must be 0.
NestedVariable(b, i) ==
    Then(VariableValueBase(b, i), LAMBDA hint, start :
      Then(TakeByte(b, start), LAMBDA flags, next :
        IF flags # 0 THEN Raises("ValueError")
        ELSE Then(NestedLayout(Peek(b, next, 9)), LAMBDA layout, unused :
               Then(Take(b, next, IF layout.length THEN 4 ELSE 0), LAMBDA length, at :
                 Then(TakeByte(b, at), LAMBDA c, first :
                   Then(NestedValues(b, first, 0, c, layout.indexed, <<>>), LAMBDA values, end :
                     Reads([hint |-> hint, length |-> length, indexed |-> layout.indexed,
                            values |-> values], end)))))))

NestedValues(b, i, n, c, indexed, values) ==
    IF n = c THEN Reads(values, i)
    ELSE Then(ReadIndex(b, i, n, indexed), LAMBDA index, start :
           Then(Record(b, start), LAMBDA value, next :
             NestedValues(b, next, n + 1, c, indexed, Put(values, index, value))))

\* A blob's record must be all of it.
guess_parse_sdl_blob(b) ==
    Then(Record(b, 1), LAMBDA record, next :
      IF next <= Len(b) THEN Raises("ValueError") ELSE Reads(record, next))

-----------------------------------------------------------------------------
(* Writing.                                                                *)

\* Counts and indices are one byte each, bytes() refuses larger ones.
WriteEntries(entries, indexed, Write(_)) ==
    <<Len(entries)>>
      \o FlattenSeq([k \in DOMAIN entries |->
           (IF indexed THEN <<entries[k].index>> ELSE <<>>) \o Write(entries[k].value)])

WriteSimple(v) == WriteBase(v.hint) \o <<v.flags>> \o v.time \o v.data

RECURSIVE WriteRecord(_)
WriteNested(v) ==
    WriteBase(v.hint) \o <<0>> \o v.length \o WriteEntries(v.values, v.indexed, WriteRecord)

WriteRecord(r) ==
    r.flags \o <<6>>
      \o WriteEntries(r.simple, r.indexed, WriteSimple)
      \o WriteEntries(r.nested, r.nestedIndexed, WriteNested)

RECURSIVE PutAll(_, _)
PutAll(entries, changes) ==
    IF changes = <<>> THEN entries
    ELSE PutAll(Put(entries, Head(changes).index, Head(changes).value), Tail(changes))

\* GuessedSDLRecord.with_change: nested variables are replaced as a whole.
with_change(r, change) ==
    [r EXCEPT !.simple = PutAll(r.simple, change.simple),
              !.nested = PutAll(r.nested, change.nested)]

\* Hints do not count in comparisons, and neither does the order of a dictionary.
Same(v, w) == v.flags = w.flags /\ v.time = w.time /\ v.data = w.data
SameEntries(d, e, Equal(_, _)) ==
    /\ Len(d) = Len(e)
    /\ \A k \in DOMAIN d : \E j \in DOMAIN e :
         d[k].index = e[j].index /\ Equal(d[k].value, e[j].value)

RECURSIVE SameRecord(_, _)
SameNested(v, w) ==
    /\ v.length = w.length /\ v.indexed = w.indexed
    /\ SameEntries(v.values, w.values, SameRecord)

SameRecord(r, s) ==
    /\ r.flags = s.flags /\ r.indexed = s.indexed /\ r.nestedIndexed = s.nestedIndexed
    /\ SameEntries(r.simple, s.simple, Same)
    /\ SameEntries(r.nested, s.nested, SameNested)
=============================================================================
