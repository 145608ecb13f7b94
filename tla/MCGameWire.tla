----------------------------- MODULE MCGameWire -----------------------------
(***************************************************************************)
(* Buffers for GameWire: for every class a message of default values, and  *)
(* others in each of which one thing is different: another legal value, an *)
(* illegal one, a missing or an empty part, a part too many, or the end.   *)
(***************************************************************************)
EXTENDS GameWire

SE == INSTANCE SequencesExt

Illegal(legal) == IF 0 \in legal THEN 255 ELSE 0

\* Numbers around every boundary of FindsPrefix; the default one is in the age 1.
Sequences_ ==
    {0, Locals - 1, Locals, Safe * Pages + Locals,
     (Safe + 1) * Pages - 1, (Safe + 1) * Pages, Server + 2 * Pages}

Default(code) == IF code = "sequence" THEN Pages + Locals ELSE 1

OtherNumbers(code) ==
    CASE code = "sequence" -> Sequences_
      [] code = "location_flags" -> {ReservedLocation}
      [] OTHER -> {0}

TimeSamples == {Start, <<1, Second>>, <<Eternity - 1, Second - 1>>, <<Eternity - 1, Second>>}

String(first, second, marked) ==
    << <<"safe", [marked |-> marked, string |-> <<first, second>>]>> >>

AsTokens(code, S) == {<< <<code, v>> >> : v \in S}

-----------------------------------------------------------------------------
RECURSIVE DefaultOf(_), OthersOf(_, _)

DefaultLayout(layout) ==
    SE!FlattenSeq([k \in DOMAIN layout |-> DefaultOf(layout[k][2])])

\* One item is different.
OtherLayouts(layout, depth) ==
    UNION {{DefaultLayout(SubSeq(layout, 1, k - 1)) \o o
              \o DefaultLayout(SubSeq(layout, k + 1, Len(layout))) :
              o \in OthersOf(layout[k][2], depth)} : k \in DOMAIN layout}

FieldsOf(item, flags) == Present(item.fields, flags)

DefaultFlags(item) ==
    IF item.code = "flags32" THEN {"echo_back_to_sender", "has_player_id"} ELSE {}

Content == << <<"class", "UnknownClass">> >>

Simplest(family) ==
    CASE family = "AnimationStage" -> "AnimationStage"
      [] family = "ArmatureBrain" -> "AvatarBrainGeneric"
      [] family = "AvatarTask" -> "AvatarOneShotLinkTask"
      [] family = "NotifyEvent" -> "CallbackEvent"
      [] family = "Message" -> "Message"

\* The default for each kind.
DefaultOf(item) ==
    CASE item.kind = "number" -> << <<item.code, Default(item.code)>> >>
      [] item.kind = "legal" -> << <<item.code, CHOOSE v \in item.legal : TRUE>> >>
      [] item.kind = "except" -> << <<item.code, 1>> >>
      [] item.kind \in {"bool", "true"} -> << <<"u8", 1>> >>
      [] item.kind = "safe" -> String(TRUE, FALSE, TRUE)
      [] item.kind = "bits" -> << <<"bits", <<1>> >> >>
      [] item.kind = "time" -> << <<"time", <<1, 1>> >> >>
      [] item.kind = "delivery" -> << <<"u8", 0>> >>
      [] item.kind = "choice" -> << <<"u8", 1>> >> \o DefaultLayout(item.yes)
      [] item.kind = "many" -> << <<item.code, 1>> >> \o DefaultOf(item.item)
      [] item.kind = "group" -> DefaultLayout(item.layout)
      [] item.kind = "rest" -> << <<"any", 1>> >>
      [] item.kind = "flagged" ->
           << <<item.code, DefaultFlags(item)>> >>
             \o DefaultLayout(FieldsOf(item, DefaultFlags(item)))
      [] item.kind = "stream" ->
           << <<"u32", 0>>, <<"u8", 0>>, <<"data", [packing |-> "plain", content |-> Content]>> >>
      [] item.kind = "variable" -> << <<"i32", 3>>, <<"i32", 1>>, <<"u8", 0>> >>
      [] item.kind = "creatable" ->
           << <<item.code, Simplest(item.family)>> >>
             \o DefaultLayout(Classes[item.family][Simplest(item.family)])

Variables ==
    {<< <<"i32", type>>, <<IF type = 1 THEN "f32" ELSE "i32", n>> >> \o key :
       type \in 0..5, n \in {0, 1},
       key \in {<< <<"u8", 0>> >>, DefaultLayout(<< <<"key", Key>> >>)}}

Unlisted(family) == IF family = "NotifyEvent" THEN "UnknownEvent" ELSE "UnknownClass"

\* A message in another one is only of some classes.
Inner(family) ==
    IF family = "Message" THEN {"Message", "LoadAvatarMessage", "ServerReplyMessage"}
    ELSE DOMAIN Classes[family]

OthersOf(item, depth) ==
    CASE item.kind = "number" -> AsTokens(item.code, OtherNumbers(item.code))
      [] item.kind = "legal" -> AsTokens(item.code, item.legal \cup {Illegal(item.legal)})
      [] item.kind = "except" -> AsTokens(item.code, {item.illegal, 2})
      [] item.kind \in {"bool", "true"} -> AsTokens("u8", {0, 2})
      [] item.kind = "safe" ->
           {String(FALSE, TRUE, TRUE), String(FALSE, FALSE, FALSE),
            << <<"safe", [marked |-> TRUE, string |-> <<>>]>> >>}
      [] item.kind = "bits" -> AsTokens("bits", {<<>>, <<0>>, <<1, 0>>, <<0, 1, 0, 0>>})
      [] item.kind = "time" -> AsTokens("time", TimeSamples)
      [] item.kind = "delivery" -> {<< <<"u8", 1>>, <<"time", t>> >> : t \in TimeSamples}
      [] item.kind = "choice" ->
           {<< <<"u8", 0>> >> \o DefaultLayout(item.no)}
             \cup {<< <<"u8", 1>> >> \o o : o \in OtherLayouts(item.yes, depth)}
      [] item.kind = "many" ->
           {<< <<item.code, 0>> >>,
            << <<item.code, 2>> >> \o DefaultOf(item.item) \o DefaultOf(item.item)}
             \cup (IF item.code \in {"i32", "i16"} THEN {<< <<item.code, -1>> >>} ELSE {})
             \cup {<< <<item.code, 1>> >> \o o : o \in OthersOf(item.item, depth)}
      [] item.kind = "group" -> OtherLayouts(item.layout, depth)
      [] item.kind = "rest" -> {<<>>}
      [] item.kind = "flagged" ->
           LET all == FlagsOf(item.fields) \cup DefaultFlags(item)
           IN  {<< <<item.code, flags>> >> \o DefaultLayout(FieldsOf(item, flags)) :
                  flags \in {{}, all, all \cup {"other"}, {"other"}}}
                 \cup {<< <<item.code, all>> >> \o o :
                         o \in OtherLayouts(FieldsOf(item, all), depth)}
      [] item.kind = "stream" ->
           {<< <<"u32", length>>, <<"u8", type>>,
               <<"data", [packing |-> packing, content |-> Content]>> >> :
              length \in {0, 1}, type \in 0..3, packing \in Packings}
      [] item.kind = "variable" -> Variables
      [] item.kind = "creatable" ->
           {<< <<item.code, class>> >> :
              class \in {Unlisted(item.family)}
                         \cup IF item.family = "Message" THEN {"null"} ELSE {}}
             \cup IF depth = 0 THEN {}
                  ELSE UNION {{<< <<item.code, class>> >> \o DefaultLayout(Classes[item.family][class])}
                                \cup IF item.family = "Message" THEN {}
                                     ELSE {<< <<item.code, class>> >> \o o :
                                             o \in OtherLayouts(Classes[item.family][class],
                                                                depth - 1)} :
                              class \in Inner(item.family)}

-----------------------------------------------------------------------------
Prefixes_(s) == {SubSeq(s, 1, n) : n \in 0..(Len(s) - 1)}

Depth == 2

WithHeader(layout) == << <<"header", NetMessageHeader>> >> \o layout

Wrap(class, layout, depth) ==
    {<< <<"class", class>> >> \o o :
       o \in {DefaultLayout(layout)} \cup OtherLayouts(layout, depth)}

Wraps(classes, other) ==
    UNION {Wrap(class, LayoutIn(classes, class, other), Depth) :
             class \in DOMAIN classes \cup {"UnknownClass"}}

NetWraps ==
    UNION {Wrap(class, WithHeader(NetMessageLayout(class)), Depth) :
             class \in DOMAIN NetMessages \cup {"UnknownClass"}}

\* Messages in messages; as deep as they can be, and deeper.
RECURSIVE Nested(_)

Nested(n) ==
    IF n = 0 THEN << <<"class", "Message">> >> \o DefaultLayout(Message)
    ELSE << <<"class", "MessageWithCallbacks">> >> \o DefaultLayout(Message)
           \o << <<"u32", 1>> >> \o Nested(n - 1)

Deepest == (Nesting - 6) \div 2

\* An event that isn't known, in a message that another one triggers.
Triggering(trigger) ==
    << <<"class", "LoadAvatarMessage">> >> \o DefaultLayout(SubSeq(LoadCloneMessage, 1, 10))
      \o trigger \o DefaultLayout(SubSeq(LoadAvatarMessage, 12, Len(LoadAvatarMessage)))

UnknownEvent ==
    << <<"class", "NotifyMessage">> >> \o DefaultLayout(SubSeq(NotifyMessage, 1, 7))
      \o << <<"u32", 1>>, <<"event", "UnknownEvent">> >>

\* The messages of the engine.
Contents ==
    Wraps(Classes.Message, UnknownMessage)
      \cup {<<>>, << <<"class", "null">> >>, Nested(Deepest), Nested(Deepest + 1),
            Triggering(UnknownEvent)}
      \cup Prefixes_(<< <<"class", "LoadAvatarMessage">> >> \o DefaultLayout(LoadAvatarMessage))
      \cup {<< <<"class", "Message">> >> \o DefaultLayout(Message) \o << <<"u8", 1>> >>}

Fill(tokens, content) ==
    [k \in DOMAIN tokens |->
       IF tokens[k][1] = "data" THEN <<"data", [packing |-> "plain", content |-> content]>>
       ELSE tokens[k]]

\* What load clone messages wrap, in every one of them if it is an avatar.
IsCarried(c) ==
    c # <<>> /\ c[1][2] \in {"Message", "LoadCloneMessage", "LoadAvatarMessage", "UnknownClass"}

AvatarContent == << <<"class", "LoadAvatarMessage">> >> \o DefaultLayout(LoadAvatarMessage)

DefaultBuffer(class) ==
    << <<"class", class>> >> \o DefaultLayout(WithHeader(NetMessageLayout(class)))

\* The buffers of the protocol; those of game messages with everything in them.
TokensOf(plain, contents, game, clone) ==
    plain
      \cup {Fill(game, c) : c \in contents}
      \cup {Fill(clone, c) : c \in {d \in contents : IsCarried(d)}}
      \cup {Fill(t, AvatarContent) : t \in {p \in plain : p[1][2] = "NetMessageLoadClone"}}
      \cup Prefixes_(clone)
      \cup {DefaultBuffer("NetMessageVoice") \o << <<"u8", 1>> >>}

AllTokens ==
    TokensOf(NetWraps, Contents,
             DefaultBuffer("NetMessageGameMessage"), DefaultBuffer("NetMessageLoadClone"))

AllBuffers ==
    {[type |-> IF t = <<>> THEN "NetMessageVoice" ELSE t[1][2], tokens |-> t] : t \in AllTokens}
      \cup {[type |-> "NetMessageVoice", tokens |-> DefaultBuffer("NetMessageGameMessage")]}

DefaultBuffers ==
    {[type |-> class, tokens |-> DefaultBuffer(class)] : class \in DOMAIN NetMessages}

\* Both parsing modes, encryption or not, and the client that has to be believed
\* get all buffers; the other setups a message of every class.
MCBuffers(c, kind) ==
    IF <<c.encryption, kind>> \in {<<"default", "plain">>, <<"default", "crypt">>,
                                  <<"none", "nocrypt">>}
    THEN AllBuffers ELSE DefaultBuffers

MCNow == <<2, 0>>

-----------------------------------------------------------------------------
(* The items, and how deep what is in them is nested if it is no message   *)
(* of its own.                                                             *)

\* What consists of what is no deeper than this, and objects are among the first.
MaxParts == 7

\* Layouts, the items of them and what those consist of.
Closed(layouts) ==
    LET within[n \in 0..MaxParts] ==
          IF n = 0 THEN UNION {Fields(layout) : layout \in layouts}
          ELSE UNION {items \cup UNION {Parts(item) : item \in items} : items \in {within[n - 1]}}
    IN  within[MaxParts]

LayoutsIn(classes) == {classes[class] : class \in DOMAIN classes}

MCNetItems ==
    Closed(LayoutsIn(NetMessages)
             \cup {UnknownNetMessage, << <<"header", NetMessageHeader>> >>})

MCEngineItems == Closed(LayoutsIn(Classes.Message) \cup {UnknownMessage})

RECURSIVE RankOf(_)

RankOf(item) ==
    IF IsObject(item) \/ Parts(item) = {} THEN 1
    ELSE LET ranks == {RankOf(part) : part \in Parts(item)}
         IN  1 + CHOOSE r \in ranks : \A other \in ranks : other <= r

MCRank == [item \in MCNetItems \cup MCEngineItems |-> RankOf(item)]
=============================================================================
