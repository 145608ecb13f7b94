------------------------------ MODULE GameWire ------------------------------
(***************************************************************************)
(* The connection of one client to the game server, from the first byte to *)
(* the last: the setup (src/nagus/__main__.py and base.py), then messages, *)
(* among them the propagate buffers with what the engine of one client has *)
(* to tell the engines of others (src/nagus/game_server.py).               *)
(*                                                                         *)
(* What the messages do to the age is in AgeState; this module is about    *)
(* whether they are understood, what goes back over the wire and what ends *)
(* a connection: no handler knows how to skip a message, so that whatever  *)
(* it raises reaches client_connected.                                     *)
(***************************************************************************)
EXTENDS Streams, SequenceNumbers, FiniteSets

CONSTANTS
    Buffers(_, _),  \* what a client may send: a type and tokens
    Now             \* when the server sends something

VARIABLES
    config,     \* server_encryption and server_game_parse_pl_messages
    client,     \* how the client deals with encryption
    stage,      \* what the server reads next
    ended,      \* the exception that ended the connection
    cipher,     \* encryption_state_read and encryption_state_write are there
    hook,       \* client_state.age_sequence_prefix and age_sdl_hook_uoid
    message,    \* the last message that could be read
    replies     \* what was sent since then

vars == <<config, client, stage, ended, cipher, hook, message, replies>>

Configs == [encryption : {"force", "default", "none"}, parse : {"known", "necessary"}]

\* Clients that send an empty y, that encrypt, that were built with
\* NO_ENCRYPTION and send a y all the same, and whose y has the wrong length.
Clients == {"plain", "crypt", "nocrypt", "short"}

\* There are keys unless encryption is off.
HasKeys == config.encryption # "none"

Init ==
    /\ config \in Configs
    /\ client \in Clients
    /\ stage = "type" /\ ended = "none" /\ cipher = FALSE
    /\ hook = <<>> /\ message = <<>> /\ replies = <<>>

End(error) == stage' = "closed" /\ ended' = error

Goes(next, error) == IF error = "none" THEN stage' = next /\ UNCHANGED ended ELSE End(error)

-----------------------------------------------------------------------------
(* The setup.                                                              *)

\* Connections to the other servers are not followed.
ConnectionType ==
    /\ stage = "type"
    /\ \E error \in {"none", "ProtocolError"} : Goes("header", error)
    /\ UNCHANGED <<config, client, cipher, hook, message, replies>>

\* The length is wrong, or the build type.
read_connect_packet_header ==
    /\ stage = "header"
    /\ \E error \in {"none", "ProtocolError", "ValueError"} : Goes("data", error)
    /\ UNCHANGED <<config, client, cipher, hook, message, replies>>

read_connect_packet_data ==
    /\ stage = "data"
    /\ \E error \in {"none", "ProtocolError"} : Goes("setup", error)
    /\ UNCHANGED <<config, client, cipher, hook, message, replies>>

\* The type of the setup message is wrong or unknown.
NotSetup ==
    /\ stage = "setup"
    /\ \E error \in {"ProtocolError", "ValueError"} : End(error)
    /\ UNCHANGED <<config, client, cipher, hook, message, replies>>

\* A mutant: the keys don't matter.
AgreeAlways == [error |-> "none", on |-> client # "plain"]

\* What becomes of a y: the exception, and whether there is a cipher then.
Agree ==
    IF client = "plain"
    THEN [error |-> IF config.encryption = "force" THEN "ProtocolError" ELSE "none", on |-> FALSE]
    ELSE IF ~HasKeys THEN [error |-> "none", on |-> FALSE]
    ELSE [error |-> IF client = "short" THEN "ProtocolError" ELSE "none", on |-> client # "short"]

setup_encryption ==
    /\ stage = "setup"
    /\ Goes("messages", Agree.error)
    /\ cipher' = Agree.on
    /\ UNCHANGED <<config, client, hook, message, replies>>

-----------------------------------------------------------------------------
(* Messages.  The join is in AgeState: everything below is after it.       *)

Reply(tokens) == [cipher |-> cipher, tokens |-> tokens]

HeaderFields == {"protocol_version", "time_sent", "context", "trans_id", "ki_number",
                 "account_uuid"}

Header == [flags |-> {"needs_reliable_send"}, fields |-> [name \in HeaderFields |-> <<>>]]

SystemHeader == [Header EXCEPT !.flags = @ \cup {"is_system_message"}]

\* send_propagate_buffer
Stamped(header) ==
    [flags |-> header.flags \cup {"has_time_sent"},
     fields |-> [header.fields EXCEPT !.time_sent = Now]]

WriteHeader(h) ==
    LET If(flag, code, name) ==
          IF flag \in h.flags THEN << <<code, h.fields[name]>> >> ELSE <<>>
    IN  << <<"flags32", h.flags>> >>
          \o If("has_version", "u16", "protocol_version")
          \o (IF "has_time_sent" \in h.flags THEN WriteTime(h.fields.time_sent) ELSE <<>>)
          \o If("has_context", "u32", "context")
          \o If("has_transaction_id", "u32", "trans_id")
          \o If("has_player_id", "u32", "ki_number")
          \o If("has_account_uuid", "uuid", "account_uuid")

\* NetMessage.write: the class, the header and what comes after it.
Written(class, header, rest) ==
    << <<"class", class>> >> \o WriteHeader(Stamped(header)) \o rest

\* The message in a buffer of which nothing may be left: the values of its fields,
\* what is written of each of them and of them all.
ReadBuffer(buffer) ==
    LET s == buffer.tokens
    IN  Then(Take("class", s, 1), LAMBDA class :
          IF buffer.type # class.value THEN Raises("ProtocolError")
          ELSE Then(Reader(s)[<<NetMessageHeader, class.next>>], LAMBDA header :
            LET layout == NetMessageLayout(class.value)
            IN  Then(ReadAll(Reader(s), ItemsOf(layout), header.next), LAMBDA all :
                  IF all.next <= Len(s) THEN Raises("ProtocolError")
                  ELSE Got([class |-> class.value, header |-> header.value,
                            fields |-> ByName(layout, Values(all.value)),
                            wires |-> ByName(layout, Wires(all.value)),
                            wire |-> all.wire],
                           <<>>, all.next))))

Echoes(m) == "echo_back_to_sender" \in m.header.flags

GameMessages ==
    {"NetMessageGameMessage", "NetMessageGameMessageDirected", "NetMessageLoadClone"}

SDLStates == {"NetMessageSDLState", "NetMessageSDLStateBroadcast"}

-----------------------------------------------------------------------------
(* The message of the engine that a game message wraps.                    *)

\* A mutant: the error for an index that isn't known isn't caught.
CaughtOnly == {"EOFError", "ValueError"}

Caught == {"EOFError", "ValueError", "UnknownClassIndexError"}

\* One that is known or not, and one that must be that of an avatar.
ReadWrapped(m) ==
    Then(decompress_data(m.fields.stream), LAMBDA data :
      Then(Take("class", data.value, 1), LAMBDA class :
        IF class.value = "null" THEN Raises("ValueError")
        ELSE Then(ReadLayout(Reader(data.value),
                             LayoutIn(Classes.Message, class.value, UnknownMessage),
                             class.next), LAMBDA v :
               Got([class |-> class.value, fields |-> v.value], <<>>, v.next))))

ReadPlayer(m) ==
    Then(decompress_data(m.fields.stream), LAMBDA data :
      Then(Take("class", data.value, 1), LAMBDA class :
        IF class.value # "LoadAvatarMessage" THEN Got([class |-> class.value], <<>>, class.next)
        ELSE Then(ReadLayout(Reader(data.value), LoadAvatarMessage, class.next), LAMBDA v :
               Got([class |-> class.value, fields |-> v.value], <<>>, v.next))))

\* The location of the spawn point in what was read.
SpawnPoints(r) ==
    IF r.error = "none" /\ r.value.class = "LoadAvatarMessage" /\ r.value.fields.spawn_point.there
    THEN {r.value.fields.spawn_point.value.uoid.fields.location} ELSE {}

ReservedLocation == 4

\* try_find_age_sequence_prefix for those
Found(r) ==
    {loc.sequence_number : loc \in {l \in SpawnPoints(r) :
       FindsPrefix(l.sequence_number) /\ l.flags # ReservedLocation}}

\* What was found, and the exception that isn't caught.
InspectionOf(r, found) ==
    [error |-> IF \E n \in found : HookFails(n) THEN "ValueError"
               ELSE IF r.error \in Caught THEN "none" ELSE r.error,
     found |-> {n \in found : ~HookFails(n)}]

InspectedAs(m, r) == InspectionOf(r, IF m.class = "NetMessageLoadClone" THEN Found(r) ELSE {})

\* inspect_wrapped_message and inspect_player_load_avatar_message
Inspect(m) ==
    IF config.parse = "known" THEN InspectedAs(m, ReadWrapped(m))
    ELSE IF m.class = "NetMessageLoadClone" /\ m.fields.is_player /\ hook = <<>>
    THEN InspectedAs(m, ReadPlayer(m))
    ELSE [error |-> "none", found |-> {}]

\* All that is sent: tokens that fit the layouts, none of them misread for another.
Sent == UNION {Buffers(c, kind) : c \in Configs, kind \in Clients}

Fits(m) ==
    m.class \in GameMessages => ReadWrapped(m).error # "Misread" /\ ReadPlayer(m).error # "Misread"

BuffersAssumption ==
    /\ Now \in (0..(Eternity - 1)) \X (0..(Second - 1))
    /\ \A buffer \in Sent :
         /\ IsStream(buffer.tokens)
         /\ \A k \in DOMAIN buffer.tokens : buffer.tokens[k][1] = "data" =>
              /\ buffer.tokens[k][2].packing \in Packings
              /\ IsStream(buffer.tokens[k][2].content)
         /\ \E r \in {ReadBuffer(buffer)} :
              r.error # "Misread" /\ (r.error = "none" => Fits(r.value))

ASSUME BuffersAssumption

-----------------------------------------------------------------------------
(* The handlers.                                                           *)

\* What is sent and what is raised then.
Handles(error, sent) ==
    /\ replies' = sent
    /\ Goes("answered", error)

\* The echo, if it can be written, and then what comes after it.
Echo(m, error) ==
    \/ ~Echoes(m) /\ Handles(error, <<>>)
    \/ /\ Echoes(m)
       /\ \E tokens \in {Written(m.class, m.header, m.wire)} :
            \/ Wrote(tokens) /\ Handles(error, <<Reply(tokens)>>)
            \/ ~Wrote(tokens) /\ Handles("struct.error", <<>>)

\* NetMessageGameMessage.handle and what its subclasses do before it.
HandleGameMessage(m) ==
    \E inspected \in {Inspect(m)} :
        /\ \/ inspected.found = {} /\ UNCHANGED hook
           \/ \E n \in inspected.found :
                hook' = [spawn |-> n, prefix |-> AgePrefix(n), number |-> HookNumber(n)]
        /\ \/ inspected.error # "none" /\ Handles(inspected.error, <<>>)
           \/ inspected.error = "none" /\ Echo(m, "none")

\* The state is applied to that of the age (AgeState, SdlStore).
HandleSDLState(m) == Echo(m, decompress_data(m.fields.stream).error)

\* What the answer to a TestAndSet wraps: no sender, one receiver, the timestamp 0
\* and the flags 1 (local_propagate), and whether the lock was affirmed or denied.
WriteServerReply(uoid, type) ==
    << <<"class", "ServerReplyMessage">> >>
      \o WriteBool(FALSE) \o << <<"i32", 1>> >> \o WriteBool(TRUE) \o uoid
      \o << <<"f64", 0>>, <<"u32", 1>>, <<"i32", type>> >>

\* The lock is in AgeState; the answer is compressed if it is long.
HandleTestAndSet(m) ==
    LET error == decompress_data(m.fields.stream).error
    IN  IF error # "none" \/ ~m.fields.lock_request THEN Handles(error, <<>>)
        ELSE \E type \in {0, 1}, long \in BOOLEAN :
               LET content == WriteServerReply(m.wires.uoid, type)
                   rest == WriteStream(compress_and_set_data(content, long))
                             \o WriteDelivery(Start)
               IN  Handles("none", <<Reply(Written("NetMessageGameMessage", Header, rest))>>)

\* Nobody else is there.
HandleMembersListRequest ==
    Handles("none", <<Reply(Written("NetMessageMembersList", SystemHeader, << <<"i16", 0>> >>))>>)

\* Messages that only servers send are an error; the others change nothing
\* here (paging and regions), are the business of AgeState or aren't handled.
Handle(m) ==
    /\ \/ m.class \in GameMessages /\ HandleGameMessage(m)
       \/ /\ m.class \notin GameMessages
          /\ UNCHANGED hook
          /\ \/ m.class \in SDLStates /\ HandleSDLState(m)
             \/ m.class = "NetMessageTestAndSet" /\ HandleTestAndSet(m)
             \/ m.class = "NetMessageVoice" /\ Echo(m, "none")
             \/ m.class = "NetMessageMembersListRequest" /\ HandleMembersListRequest
             \/ m.class \in ServerToClient /\ Handles("ProtocolError", <<>>)
             \/ /\ m.class \notin SDLStates \cup ServerToClient
                                    \cup {"NetMessageTestAndSet", "NetMessageVoice",
                                          "NetMessageMembersListRequest"}
                /\ Handles("none", <<>>)

receive_propagate_buffer(buffer) ==
    /\ stage = "messages"
    /\ \E r \in {ReadBuffer(buffer)} :
         \/ r.error # "none" /\ End(r.error) /\ UNCHANGED <<hook, message, replies>>
         \/ r.error = "none" /\ message' = <<r.value>> /\ Handle(r.value)
    /\ UNCHANGED <<config, client, cipher>>

\* The next iteration of handle.
Next_message ==
    /\ stage = "answered"
    /\ stage' = "messages" /\ message' = <<>> /\ replies' = <<>>
    /\ UNCHANGED <<config, client, ended, cipher, hook>>

ping_request ==
    /\ stage = "messages"
    /\ Handles("none", <<Reply(<< <<"ping", 0>> >>)>>)
    /\ UNCHANGED <<config, client, cipher, hook, message>>

handle_unknown_message ==
    /\ stage = "messages"
    /\ End("ProtocolError")
    /\ UNCHANGED <<config, client, cipher, hook, message, replies>>

\* The client is gone, which is noticed when something is read.
Gone ==
    /\ stage \notin {"closed", "answered"}
    /\ End("IncompleteReadError")
    /\ UNCHANGED <<config, client, cipher, hook, message, replies>>

Next ==
    \/ ConnectionType \/ read_connect_packet_header \/ read_connect_packet_data
    \/ NotSetup \/ setup_encryption
    \/ \E buffer \in Buffers(config, client) : receive_propagate_buffer(buffer)
    \/ Next_message \/ ping_request \/ handle_unknown_message \/ Gone

Spec == Init /\ [][Next]_vars

-----------------------------------------------------------------------------
Errors ==
    {"none", "ProtocolError", "ValueError", "EOFError", "IncompleteReadError", "zlib.error",
     "struct.error", "AttributeError", "NotImplementedError", "RecursionError"}

\* Everything is of its type, there is no cipher without keys, and no reader is out
\* of step with the layout of a message (it would find a token of another format,
\* "Misread").
TypeOK ==
    /\ stage \in {"type", "header", "data", "setup", "messages", "answered", "closed"}
    /\ ended \in Errors /\ (stage = "closed" <=> ended # "none")
    /\ cipher \in BOOLEAN /\ (cipher => HasKeys) /\ Len(message) <= 1 /\ Len(replies) <= 1

\* The combinations that nagus_config.defaults.ini promises to serve.
Promised ==
    \/ client = "plain" /\ config.encryption # "force"
    \/ client = "crypt" /\ config.encryption # "none"
    \/ client = "nocrypt" /\ config.encryption = "none"

ClientReads(reply) == ReadBuffer([type |-> reply.tokens[1][2], tokens |-> reply.tokens])

\* An echo has the fields of the message; the receiver of the answer to a
\* TestAndSet is the object.
Answers(reply, m) ==
    IF m.class = "NetMessageTestAndSet"
    THEN ReadWrapped(reply).value.fields.receivers[1].value.uoid = m.fields.uoid
    ELSE m.class # "NetMessageMembersListRequest" =>
           /\ reply.class = m.class
           /\ reply.header = Stamped(m.header)
           /\ reply.fields = m.fields

Understood(r, m) == r.error = "none" /\ Answers(r.value, m)

\* A message that comes back is the one that was sent, except for the time: it is
\* encrypted if and only if the client expects that, the client reads all of it,
\* and has every field that the server read, whatever was not normalised in what
\* the client sent.  (send_propagate_buffer, the read and write methods)
EchoFaithful ==
    (Promised /\ replies # <<>> /\ message # <<>>) =>
      /\ replies[1].cipher = (client = "crypt")
      /\ Understood(ClientReads(replies[1]), message[1])

Tokens(m) == m.fields.stream.data.content

Of(m, format) == {k \in DOMAIN Tokens(m) : Tokens(m)[k][1] = format}

Token(m, k) == Tokens(m)[k][2]

\* What in a message can end the connection although the message as such was read:
\* data that can't be decompressed, times that can't be written, a class that only
\* servers send, two kinds of events, a prefix without an AgeSDLHook, and messages
\* in messages in messages.
Culprit(m) ==
    \/ m.class \in ServerToClient
    \/ /\ "stream" \in DOMAIN m.fields
       /\ decompress_data(m.fields.stream).error
            \in {"zlib.error"} \cup (IF m.class \in GameMessages THEN {} ELSE {"ValueError"})
    \/ /\ Echoes(m)
       /\ "delivery_time" \in DOMAIN m.fields /\ m.fields.delivery_time[1] >= Eternity
    \/ /\ m.class \in GameMessages
       /\ \/ /\ config.parse = "known" \/ m.class = "NetMessageLoadClone"
             /\ \E k \in Of(m, "event") :
                  Token(m, k) \notin DOMAIN Classes.NotifyEvent \ {"OfferLinkingBookEvent"}
          \/ \E k \in Of(m, "sequence") :
               Token(m, k) \in Numbers /\ FindsPrefix(Token(m, k)) /\ HookFails(Token(m, k))
          \/ Cardinality(Of(m, "class")) * MaxRank > Nesting

\* Once a message was read, nothing but a culprit in it ends the connection: errors
\* in the message of the engine that it wraps don't, in either parsing mode.
\* (NetMessageGameMessage.inspect_wrapped_message and the handlers)
OnlyCulpritsEndIt ==
    (stage = "closed" /\ message # <<>>) => Culprit(message[1])

\* The location that the server gives the AgeSDLHook is on the page of built-in
\* objects of the very age whose spawn point the client told, and no global one.
\* (GameClientState.try_find_age_sequence_prefix)
HookInAge ==
    hook # <<>> =>
      /\ hook.prefix >= 0
      /\ Splits(hook.number)
      /\ split_sequence_number(hook.number) = <<AgePrefix(hook.spawn), Pages - 2>>
=============================================================================
