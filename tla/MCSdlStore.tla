----------------------------- MODULE MCSdlStore -----------------------------
(* Instances of SdlStore for TLC.                                          *)
EXTENDS SdlStore

\* The default, <<>>; plain data; data that looks like the start of a record or of a
\* variable, and data that is too long.
PlainData == {<<>>, <<2, 0>>}
AnyData == {<<2, 0>>, <<0, 0, 6, 0>>, <<2, 0, 0, 240>>, [k \in 1..16 |-> 7]}

\* One or two values of an array.
PlainElements == {<< <<2, 0>> >>, << <<5, 5>>, <<>> >>}
AnyElements == {<< <<2, 0>> >>, << <<>>, <<1, 0, 6>> >>}

Changes(Data, Elements) ==
    {m \in [simple : UNION {[S -> Data] : S \in SUBSET Simple},
            nested : UNION {[S -> Elements] : S \in SUBSET Nested}] :
       m.simple # <<>> \/ m.nested # <<>>}

\* What GuessedSDLRecord.read assumes (sdl.py, FIXME): nested variables after
\* simple ones never have indices.
Guessable(m) == m.simple = <<>> \/ DOMAIN m.nested \in {{}, Nested}

GuessableChanges == {m \in Changes(AnyData, AnyElements) : Guessable(m)}
PlainChanges == {m \in Changes(PlainData, PlainElements) : Guessable(m)}
=============================================================================
