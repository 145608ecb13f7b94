----------------------------- MODULE PlMessages -----------------------------
(***************************************************************************)
(* The messages of the engine that game messages wrap, and what they are   *)
(* made of (src/nagus/pl_messages.py).  The server reads them to look for  *)
(* the spawn point of an avatar, or all of them if it is told to.          *)
(***************************************************************************)
EXTENDS Layouts

\* All the floats and numbers that struct unpacks in one go.
Named(names, item) == [k \in DOMAIN names |-> <<names[k], item>>]

AnimationStage ==
    << <<"animation_name", SafeString>>, <<"notify_flags", U8>>,
       <<"forward_type", Legal("u32", 0..2)>>, <<"backward_type", Legal("u32", 0..2)>>,
       <<"advance_type", Legal("u32", 0..3)>>, <<"regress_type", Legal("u32", 0..3)>>,
       <<"loop_count", I32>>, <<"do_advance_to", Bool>>, <<"advance_to", U32>>,
       <<"do_regress_to", Bool>>, <<"regress_to", U32>>,
       <<"local_time", F32>>, <<"length", F32>>, <<"current_loop", I32>>,
       <<"attached", Bool>> >>

\* 21 bytes are reserved.
ArmatureBrain == << <<"reserved", Legal("b21", {0})>> >>

AvatarBrainGeneric ==
    ArmatureBrain \o
    << <<"stages", Many("u32", Creatable("AnimationStage", FALSE))>>,
       <<"current_stage", I32>>, <<"type", Legal("u32", 0..5)>>, <<"exit_flags", U32>>,
       <<"mode", Legal("u8", 1..6)>>, <<"forward", Bool>>,
       <<"start_message", Maybe(<< <<"message", Creatable("Message", FALSE)>> >>)>>,
       <<"end_message", Maybe(<< <<"message", Creatable("Message", FALSE)>> >>)>>,
       <<"fade_in", F32>>, <<"fade_out", F32>>,
       <<"move_mode", Legal("u8", 0..3)>>, <<"body_usage", Legal("u8", 0..3)>>,
       <<"recipient", Key>> >>

AvatarAnimationTask ==
    << <<"animation_name", SafeString>> >>
      \o Named(<<"initial_blend", "target_blend", "fade_speed", "time">>, F32)
      \o Named(<<"start", "loop", "attach">>, Bool)

AvatarOneShotLinkTask == Named(<<"animation_name", "marker_name">>, SafeString)

AvatarTaskBrain == << <<"brain", Creatable("ArmatureBrain", FALSE)>> >>

Task == Maybe(<< <<"task", Creatable("AvatarTask", FALSE)>> >>)

-----------------------------------------------------------------------------
(* The events of a notify message.                                         *)

Point3 == Group(Named(<<"x", "y", "z">>, F32))

CollisionEvent == << <<"enter", Bool>>, <<"hitter", Key>>, <<"hittee", Key>> >>

PickedEvent ==
    << <<"picker", Key>>, <<"picked", Key>>, <<"enabled", Bool>>, <<"hit_point", Point3>> >>

\* The type says which of number and key is the value; the other one is zero or
\* null, or else there is an error.
VariableEvent == << <<"name", SafeString>>, <<"value", [kind |-> "variable"]>> >>

FacingEvent ==
    << <<"facer", Key>>, <<"facee", Key>>, <<"dot_product", F32>>, <<"enabled", Bool>> >>

ContainedEvent == << <<"contained", Key>>, <<"container", Key>>, <<"entering", Bool>> >>

ActivateEvent == << <<"active", True>>, <<"activate", Bool>> >>

CallbackEvent == << <<"callback_type", I32>> >>

ResponderStateEvent == << <<"state", I32>> >>

MultiStageEvent == << <<"stage", I32>>, <<"event", Legal("i32", 1..4)>>, <<"avatar", Key>> >>

SpawnedEvent == << <<"spawner", Key>>, <<"spawnee", Key>> >>

CoopEvent == << <<"initiator_ki_number", U32>>, <<"serial_number", U16>> >>

OfferLinkingBookEvent ==
    << <<"offerer", Key>>, <<"event", Legal("i32", {0, 999, -999})>>,
       <<"offeree_ki_number", U32>> >>

-----------------------------------------------------------------------------
(* The messages.                                                           *)

Message ==
    << <<"sender", Key>>, <<"receivers", Many("i32", Key)>>, <<"timestamp", F64>>,
       <<"flags", U32>> >>

UnknownMessage == Message \o << <<"data", Rest>> >>

LoadCloneMessage ==
    Message \o
    << <<"clone", Key>>, <<"requestor", Key>>, <<"originating_ki_number", U32>>,
       <<"user_data", U32>>, <<"is_valid", True>>, <<"is_loading", Bool>>,
       <<"trigger_message", Creatable("Message", TRUE)>> >>

LoadAvatarMessage ==
    LoadCloneMessage \o
    << <<"is_player", Bool>>, <<"spawn_point", Key>>, <<"initial_task", Task>>,
       <<"user_string", SafeString>> >>

EnableMessage == Message \o Named(<<"commands", "types">>, BitVector)

ServerReplyMessage == Message \o << <<"type", Legal("i32", {-1, 0, 1})>> >>

MessageWithCallbacks ==
    Message \o << <<"callbacks", Many("u32", Creatable("Message", TRUE))>> >>

AnimationCommandMessage ==
    MessageWithCallbacks \o << <<"commands", BitVector>> >>
      \o Named(<<"begin", "end", "loop_begin", "loop_end", "speed", "speed_change_rate",
                 "time">>, F32)
      \o Named(<<"animation_name", "loop_name">>, SafeString)

AvatarMessage == Message

AvatarTaskMessage == AvatarMessage \o << <<"task", Task>> >>

AvatarSeekMessage ==
    AvatarTaskMessage \o
    << <<"seek_point", Choice(<< <<"uoid", Uoid>> >>,
                              << <<"position", Point3>>, <<"look_at", Point3>> >>)>>,
       <<"duration", F32>>, <<"smart_seek", Bool>>, <<"animation_name", SafeString>>,
       <<"alignment_type", Legal("u16", 0..4)>>, <<"no_seek", Bool>>, <<"seek_flags", U8>>,
       <<"finish_key", Key>> >>

AvatarBrainGenericMessage ==
    AvatarMessage \o
    << <<"type", Legal("u32", 0..3)>>, <<"stage", I32>>, <<"set_time", Bool>>,
       <<"time", F32>>, <<"set_direction", Bool>>, <<"direction", Bool>>,
       <<"transition_time", F32>> >>

NotifyMessage ==
    Message \o
    << <<"type", Legal("i32", 0..4)>>, <<"state", F32>>, <<"id", I32>>,
       <<"events", Many("u32", Creatable("NotifyEvent", FALSE))>> >>

LinkEffectsTriggerMessage ==
    Message \o
    << <<"ccr_level", I32>>, <<"linking_out", Bool>>, <<"linker", Key>>,
       <<"link_effects_flags", U32>>, <<"link_in_animation", Key>> >>

ParticleTransferMessage ==
    Message \o << <<"particle_system", Key>>, <<"transfer_count", U16>> >>

ParticleKillMessage ==
    Message \o << <<"amount", F32>>, <<"time_left", F32>>, <<"kill_flags", U8>> >>

AvatarInputStateMessage == Message \o << <<"state", U16>> >>

InputInterfaceManagerMessage ==
    Message \o << <<"command", Legal("u8", 0..14)>>, <<"offeree_ki_number", U32>> >>
      \o Named(<<"age_name", "age_file_name", "spawn_point">>, SafeString)
      \o << <<"avatar", Key>> >>

\* Only chat messages are sent over the network.
KIMessage ==
    Message \o
    << <<"command", Legal("u8", {0})>>, <<"sender_name", SafeString>>,
       <<"sender_ki_number", U32>>, <<"text", WideString>>, <<"chat_flags", U8>>,
       <<"channel", Legal("u8", 0..7)>>, <<"reserved_flags", U16>>, <<"delay", F32>>,
       <<"value", I32>> >>

-----------------------------------------------------------------------------
(* What the index or the type number of a class stands for.                *)

Classes ==
    [AnimationStage |-> [AnimationStage |-> AnimationStage],
     ArmatureBrain |-> [AvatarBrainGeneric |-> AvatarBrainGeneric],
     AvatarTask |->
       [AvatarAnimationTask |-> AvatarAnimationTask,
        AvatarOneShotLinkTask |-> AvatarOneShotLinkTask, AvatarTaskBrain |-> AvatarTaskBrain],
     NotifyEvent |->
       [CollisionEvent |-> CollisionEvent, PickedEvent |-> PickedEvent,
        VariableEvent |-> VariableEvent, FacingEvent |-> FacingEvent,
        ContainedEvent |-> ContainedEvent, ActivateEvent |-> ActivateEvent,
        CallbackEvent |-> CallbackEvent, ResponderStateEvent |-> ResponderStateEvent,
        MultiStageEvent |-> MultiStageEvent, SpawnedEvent |-> SpawnedEvent,
        CoopEvent |-> CoopEvent, OfferLinkingBookEvent |-> OfferLinkingBookEvent],
     Message |->
       [Message |-> Message, LoadCloneMessage |-> LoadCloneMessage,
        LoadAvatarMessage |-> LoadAvatarMessage, EnableMessage |-> EnableMessage,
        ServerReplyMessage |-> ServerReplyMessage,
        MessageWithCallbacks |-> MessageWithCallbacks,
        AnimationCommandMessage |-> AnimationCommandMessage, AvatarMessage |-> AvatarMessage,
        AvatarTaskMessage |-> AvatarTaskMessage, AvatarSeekMessage |-> AvatarSeekMessage,
        AvatarBrainGenericMessage |-> AvatarBrainGenericMessage,
        NotifyMessage |-> NotifyMessage,
        LinkEffectsTriggerMessage |-> LinkEffectsTriggerMessage,
        ParticleTransferMessage |-> ParticleTransferMessage,
        ParticleKillMessage |-> ParticleKillMessage,
        AvatarInputStateMessage |-> AvatarInputStateMessage,
        InputInterfaceManagerMessage |-> InputInterfaceManagerMessage,
        KIMessage |-> KIMessage]]

\* The exception for a class that isn't listed; and what becomes of the one
\* event whose from_stream is called with the type number for the stream.
UnknownClass(family) ==
    IF family = "NotifyEvent" THEN "NotImplementedError" ELSE "UnknownClassIndexError"

Unreadable(family, class) == family = "NotifyEvent" /\ class = "OfferLinkingBookEvent"
=============================================================================
