---------------------------- MODULE NetMessages -----------------------------
(***************************************************************************)
(* The messages of the game protocol that clients and server send each     *)
(* other in propagate buffers (src/nagus/game_server.py).                  *)
(***************************************************************************)
EXTENDS Layouts

\* Every message starts with this; the layouts below are of what comes after it.
NetMessageHeader ==
    Flagged("flags32", << <<"has_version", "protocol_version", U16>>,
                          <<"has_time_sent", "time_sent", UnifiedTime>>,
                          <<"has_context", "context", U32>>,
                          <<"has_transaction_id", "trans_id", U32>>,
                          <<"has_player_id", "ki_number", U32>>,
                          <<"has_account_uuid", "account_uuid", Number("uuid")>> >>, "kept")

UnknownNetMessage == << <<"data", Rest>> >>

NetMessageRoomsList ==
    << <<"rooms", Many("u32", Group(<< <<"location", Location>>,
                                       <<"name", Number("bytes")>> >>))>> >>

NetMessagePagingRoom == NetMessageRoomsList \o << <<"page_flags", U8>> >>

NetMessageGameStateRequest == NetMessageRoomsList

NetMessageObject == << <<"uoid", Uoid>> >>

\* The length that the data has when it is decompressed, how it is compressed,
\* and the data.
StreamFields == << <<"stream", [kind |-> "stream"]>> >>

NetMessageStream == StreamFields

NetMessageStreamedObject == NetMessageObject \o StreamFields

NetMessageTestAndSet == NetMessageStreamedObject \o << <<"lock_request", Bool>> >>

NetMessageSDLState ==
    NetMessageStreamedObject \o
    << <<"is_initial_state", Bool>>, <<"persist_on_server", Bool>>,
       <<"is_avatar_state", Bool>> >>

\* A zero must end the name.
NetMessageGetSharedState == NetMessageObject \o << <<"shared_state_name", Legal("b32", {0})>> >>

NetMessageObjectStateRequest == NetMessageObject

NetMessageGameMessage ==
    NetMessageStream \o << <<"delivery_time", [kind |-> "delivery"]>> >>

NetMessageGameMessageDirected ==
    NetMessageGameMessage \o << <<"receivers", Many("u8", U32)>> >>

NetMessageLoadClone ==
    NetMessageGameMessage \o
    << <<"uoid", Uoid>>, <<"is_player", Bool>>, <<"is_loading", Bool>>,
       <<"is_initial_state", Bool>> >>

NetMessageVoice ==
    << <<"voice_flags", U8>>, <<"frame_count", U8>>, <<"voice_data", Number("bytes")>>,
       <<"receivers", Many("u8", U32)>> >>

NetMessageMembersListRequest == <<>>

NetMessageRelevanceRegions ==
    << <<"regions_i_care_about", BitVector>>, <<"regions_im_in", BitVector>> >>

NetMessagePlayerPage == << <<"unload", Bool>>, <<"uoid", Uoid>> >>

-----------------------------------------------------------------------------
(* Messages that only servers send; their handlers raise an error.         *)

GroupId == Group(<< <<"location", Location>>, <<"flags", U8>> >>)

ClientInfo ==
    Flagged("flags16", << <<"account_uuid", "account_uuid", Number("uuid")>>,
                        <<"ki_number", "ki_number", U32>>,
                        <<"temp_ki_number", "temp_ki_number", U32>>,
                        <<"avatar_name", "avatar_name", Number("bytes")>>,
                        <<"ccr_level", "ccr_level", U8>>,
                        <<"protected_login", "protected_login", Bool>>,
                        <<"build_type", "build_type", U8>>,
                        <<"source_ip_address", "source_ip_address", U32>>,
                        <<"source_port", "source_port", U16>>,
                        <<"reserved", "reserved", Bool>>,
                        <<"client_key", "client_key", Number("bytes")>> >>, "error")

MemberInfo ==
    Group(<< <<"flags", U32>>, <<"client_info", ClientInfo>>, <<"avatar_uoid", Uoid>> >>)

NetMessageGroupOwner ==
    << <<"groups", Many("i32", Group(<< <<"group_id", GroupId>>, <<"owned", Bool>> >>))>> >>

NetMessageMembersList == << <<"members", Many("i16", MemberInfo)>> >>

NetMessageMemberUpdate ==
    << <<"member", MemberInfo>>, <<"was_added", Bool>> >>

NetMessageInitialAgeStateSent ==
    << <<"initial_sdl_state_count", U32>> >>

ServerToClient ==
    {"NetMessageGroupOwner", "NetMessageMembersList", "NetMessageMemberUpdate",
     "NetMessageInitialAgeStateSent"}

\* What from_class_index makes; other classes aren't taken apart.
NetMessages ==
    [NetMessagePagingRoom |-> NetMessagePagingRoom,
     NetMessageGameStateRequest |-> NetMessageGameStateRequest,
     NetMessageTestAndSet |-> NetMessageTestAndSet,
     NetMessageSDLState |-> NetMessageSDLState,
     NetMessageSDLStateBroadcast |-> NetMessageSDLState,
     NetMessageGetSharedState |-> NetMessageGetSharedState,
     NetMessageObjectStateRequest |-> NetMessageObjectStateRequest,
     NetMessageGameMessage |-> NetMessageGameMessage,
     NetMessageGameMessageDirected |-> NetMessageGameMessageDirected,
     NetMessageLoadClone |-> NetMessageLoadClone,
     NetMessageVoice |-> NetMessageVoice,
     NetMessageMembersListRequest |-> NetMessageMembersListRequest,
     NetMessageGroupOwner |-> NetMessageGroupOwner,
     NetMessageMembersList |-> NetMessageMembersList,
     NetMessageMemberUpdate |-> NetMessageMemberUpdate,
     NetMessageInitialAgeStateSent |-> NetMessageInitialAgeStateSent,
     NetMessageRelevanceRegions |-> NetMessageRelevanceRegions,
     NetMessagePlayerPage |-> NetMessagePlayerPage]

NetMessageLayout(class) == LayoutIn(NetMessages, class, UnknownNetMessage)
=============================================================================
