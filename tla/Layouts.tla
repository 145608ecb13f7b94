------------------------------ MODULE Layouts -------------------------------
(***************************************************************************)
(* What a binary structure of the game server consists of                  *)
(* (src/nagus/structs.py).  The read and the write method of a class go    *)
(* through the same fields in the same order, so that one layout, a        *)
(* sequence of named items, stands for both; how an item is read and how   *)
(* it is written are separate (Streams).                                   *)
(*                                                                         *)
(* A stream is a sequence of tokens, which are pairs of a format and a     *)
(* value: a number that struct packs, or a string, a bit vector or a time  *)
(* as a whole.  Only the values that reading tells apart matter.           *)
(***************************************************************************)
EXTENDS Integers, Sequences

\* A number, one of which only some are legal, one of which only that is illegal,
\* a number taken for a truth value, and one that must be true.
Number(code) == [kind |-> "number", code |-> code]
Legal(code, S) == [kind |-> "legal", code |-> code, legal |-> S]
Except(code, illegal) == [kind |-> "except", code |-> code, illegal |-> illegal]
Bool == [kind |-> "bool"]
True == [kind |-> "true"]

U8 == Number("u8")
U16 == Number("u16")
U32 == Number("u32")
I32 == Number("i32")
F32 == Number("f32")
F64 == Number("f64")

\* Safe strings, whose bytes are flipped; safe wide strings, whose terminator
\* must be there; bit vectors; and times.
SafeString == [kind |-> "safe"]
WideString == Legal("wide", {0})
BitVector == [kind |-> "bits"]
UnifiedTime == [kind |-> "time"]

\* A byte, and one layout or the other; a count and that many items; the items
\* of a layout, of which there may be none; what is left of the stream.
Choice(yes, no) == [kind |-> "choice", yes |-> yes, no |-> no]
Maybe(layout) == Choice(layout, <<>>)
Many(code, item) == [kind |-> "many", code |-> code, item |-> item]
Group(layout) == [kind |-> "group", layout |-> layout]
Nothing == Group(<<>>)
Rest == [kind |-> "rest"]

\* Flags, and for every field the flag that says that it is there.  Other flags
\* are "kept", are an "error", or are "unsupported", which is not noticed if
\* structs.py replaces enum.IntFlag (Streams).
Flagged(code, fields, others) ==
    [kind |-> "flagged", code |-> code, fields |-> fields, others |-> others]
Always == "always"

\* The index of a class, or the type of an event, and its layout; no class only if
\* that is possible.
Creatable(family, nullable) ==
    [kind |-> "creatable", family |-> family, nullable |-> nullable,
     code |-> IF family = "NotifyEvent" THEN "event" ELSE "class"]

Location == Group(<< <<"sequence_number", Number("sequence")>>,
                     <<"flags", Number("location_flags")>> >>)

\* The explicit load mask isn't the default one, 0xff.
LoadMask == Except("u8", 255)

CloneIds ==
    Group(<< <<"clone_id", Except("u16", 0)>>, <<"ignored", Legal("u16", {0})>>,
             <<"cloner_ki_number", Except("u32", 0)>> >>)

Uoid ==
    Flagged("flags8", << <<Always, "location", Location>>,
                     <<"has_load_mask", "load_mask", LoadMask>>,
                     <<Always, "class_index", U16>>, <<Always, "id", U32>>,
                     <<Always, "name", SafeString>>,
                     <<"has_clone_ids", "clone_ids", CloneIds>> >>, "unsupported")

Key == Maybe(<< <<"uoid", Uoid>> >>)

\* The layout of a class in a table, or the one for classes that aren't there.
LayoutIn(classes, class, other) ==
    IF class \in DOMAIN classes THEN classes[class] ELSE other
=============================================================================
