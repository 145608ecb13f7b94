------------------------------ MODULE SdlStore ------------------------------
(***************************************************************************)
(* The SDL blob of one object, and the changes that game clients send of   *)
(* it (NetMessageSDLState.handle in src/nagus/game_server.py), one after   *)
(* another; AgeState has what happens when they overlap.                   *)
(***************************************************************************)
EXTENDS SdlBlob, FiniteSets

CONSTANTS
    Simple,     \* the descriptor's simple variables and nested variables,
    Nested,     \* numbered from 0
    Change,     \* what clients may send
    MaxChanges

\* What a record says: the data of simple variables, <<>> the default value, and
\* for each nested variable the data of the only variable in each of its values.
ChangesAssumption ==
    /\ Simple \subseteq 0..255 /\ Nested \subseteq 0..255
    /\ MaxChanges \in Nat
    /\ \A m \in Change :
         /\ DOMAIN m.simple \subseteq Simple /\ DOMAIN m.nested \subseteq Nested
         /\ m.simple # <<>> \/ m.nested # <<>>

ASSUME ChangesAssumption

-----------------------------------------------------------------------------
(* What clients write: variables with an empty hint, with indices unless   *)
(* they are all there.                                                     *)

ClientSimple(d) == <<2, 0, 0, 240>> \o <<IF d = <<>> THEN 8 ELSE 0>> \o d

ClientElement(d) == <<0, 0, 6, 1>> \o ClientSimple(d) \o <<0>>

ClientNested(ds) ==
    <<2, 0, 0, 240, 0, Len(ds)>> \o FlattenSeq([k \in DOMAIN ds |-> ClientElement(ds[k])])

Blob(m, simpleOrder, indexed, nestedOrder, nestedIndexed) ==
    LET Index(yes, i) == IF yes THEN <<i>> ELSE <<>>
    IN  <<0, 0, 6, Len(simpleOrder)>>
          \o FlattenSeq([k \in DOMAIN simpleOrder |->
               Index(indexed, simpleOrder[k]) \o ClientSimple(m.simple[simpleOrder[k]])])
          \o <<Len(nestedOrder)>>
          \o FlattenSeq([k \in DOMAIN nestedOrder |->
               Index(nestedIndexed, nestedOrder[k]) \o ClientNested(m.nested[nestedOrder[k]])])

Ascending(S) == SetToSortSeq(S, <)

ClientBlob(m) ==
    Blob(m, Ascending(DOMAIN m.simple), DOMAIN m.simple # Simple,
         Ascending(DOMAIN m.nested), DOMAIN m.nested # Nested)

\* Every blob that says m, the variables in any order if they have indices.
BlobsOf(m) ==
    LET Orders(S, All) == {<<o, TRUE>> : o \in SetToSeqs(S)}
                            \cup IF S = All \/ S = {} THEN {<<Ascending(S), FALSE>>} ELSE {}
    IN  {Blob(m, s[1], s[2], n[1], n[2]) :
           s \in Orders(DOMAIN m.simple, Simple), n \in Orders(DOMAIN m.nested, Nested)}

-----------------------------------------------------------------------------
VARIABLES
    saved,      \* the blob in the database, <<>> if there is none
    told,       \* what the changes say that were saved
    outcome,    \* the last change and what became of it
    changes     \* how many there were

vars == <<saved, told, outcome, changes>>

NoMeaning == [simple |-> <<>>, nested |-> <<>>]

Init ==
    /\ saved = <<>>
    /\ told = NoMeaning
    /\ outcome = [result |-> "none", change |-> NoMeaning]
    /\ changes = 0

Override(f, g) == [i \in DOMAIN f \cup DOMAIN g |-> IF i \in DOMAIN g THEN g[i] ELSE f[i]]

With(m, change) ==
    [simple |-> Override(m.simple, change.simple), nested |-> Override(m.nested, change.nested)]

\* Bugs: the result is not parsed again, or not compared.
AppliedUnchecked(b, change) ==
    Then(guess_parse_sdl_blob(b), LAMBDA current, end :
      Reads(WriteRecord(with_change(current, change)), 0))

AppliedUncompared(b, change) ==
    Then(guess_parse_sdl_blob(b), LAMBDA current, end :
      Then(guess_parse_sdl_blob(WriteRecord(with_change(current, change))),
           LAMBDA reparsed, after : Reads(WriteRecord(with_change(current, change)), 0)))

\* What was written must say the same when it is parsed again.
Checked(changed) ==
    Then(guess_parse_sdl_blob(WriteRecord(changed)), LAMBDA reparsed, end :
      IF SameRecord(reparsed, changed) THEN Reads(WriteRecord(changed), 0)
      ELSE Raises("ValueError"))

\* _apply_parsed_change_to_blob
Applied(b, change) ==
    Then(guess_parse_sdl_blob(b), LAMBDA current, end : Checked(with_change(current, change)))

\* The first change is saved as it came.
Handled(b) ==
    Then(guess_parse_sdl_blob(b), LAMBDA change, end :
      IF saved = <<>> THEN Reads(b, 0) ELSE Applied(saved, change))

Save(m, handled) ==
    /\ handled.error = ""
    /\ saved' = handled.value
    /\ told' = With(told, m)
    /\ outcome' = [result |-> "saved", change |-> m]

\* A ValueError is logged.
Ignore(m, handled) ==
    /\ handled.error = "ValueError"
    /\ outcome' = [result |-> "ignored", change |-> m]
    /\ UNCHANGED <<saved, told>>

\* Other exceptions end the connection of the client.
Disconnect(m, handled) ==
    /\ handled.error \in {"EOFError", "AssertionError"}
    /\ outcome' = [result |-> "disconnected", change |-> m]
    /\ UNCHANGED <<saved, told>>

Next ==
    \E m \in Change : \E handled \in {Handled(ClientBlob(m))} :
        /\ changes < MaxChanges
        /\ changes' = changes + 1
        /\ Save(m, handled) \/ Ignore(m, handled) \/ Disconnect(m, handled)

Spec == Init /\ [][Next]_vars

-----------------------------------------------------------------------------
Meaning ==
    [simple : UNION {[S -> Seq(0..255)] : S \in SUBSET Simple},
     nested : UNION {[S -> Seq(Seq(0..255))] : S \in SUBSET Nested}]

\* Types; and what is saved can be parsed, so that later changes can be applied.
TypeOK ==
    /\ saved \in Seq(0..255)
    /\ saved # <<>> => guess_parse_sdl_blob(saved).error = ""
    /\ outcome.result \in {"none", "saved", "ignored", "disconnected"}
    /\ outcome.change \in Change \cup {NoMeaning}
    /\ changes \in 0..MaxChanges

\* A client that knows the descriptor reads in the saved blob what the changes
\* that were saved say: no variable has got another's value or a part of it, even
\* where data of the Guessable changes looks like structure and is guessed wrong.
SavedMeansTold == saved # <<>> => saved \in BlobsOf(told)

\* Data in which the parser sees the start of something, or that it gives up on.
Misleading(d) ==
    \/ \E k \in DOMAIN d :
         LET rest == SubSeq(d, k, Len(d)) IN LooksLikeVariable(rest) \/ LooksLikeBody(rest)
    \/ Len(d) + 1 >= LookAhead

\* In the change, or in what it would make of the saved blob, a nested variable
\* with an index comes after another variable.
Unguessable(m) ==
    LET made == With(told, m)
        indexed == \/ m.nested # <<>> /\ DOMAIN m.nested # Nested
                   \/ saved # <<>> /\ guess_parse_sdl_blob(saved).value.nestedIndexed
    IN  /\ indexed /\ made.nested # <<>>
        /\ made.simple # <<>> \/ Cardinality(DOMAIN made.nested) > 1

Unlucky(m) ==
    \/ Unguessable(m)
    \/ \E n \in {m, told} :
         \/ \E i \in DOMAIN n.simple : Misleading(n.simple[i])
         \/ \E i \in DOMAIN n.nested : \E k \in DOMAIN n.nested[i] :
              Misleading(n.nested[i][k])

\* The combinations of variables for which saving can break (docs/nagus/about.rst)
\* are those in which data looks like structure, or nested variables with
\* indices come after others; every other change is saved.
LostNeedsBadLuck == outcome.result \in {"ignored", "disconnected"} => Unlucky(outcome.change)
=============================================================================
