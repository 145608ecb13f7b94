-------------------------------- MODULE Replay --------------------------------
(***************************************************************************)
(* What the auth server does with messages for a client that is away:      *)
(* AuthConnection.write remembers them in the session and                  *)
(* read_connect_packet_data sends them when the client is back             *)
(* (src/nagus/auth_server.py).  One session, as its connections come and   *)
(* go, with a time limit for a client that is away: without one nobody     *)
(* comes back.  AuthSessions says which session a connection gets and when *)
(* it is discarded.                                                        *)
(*                                                                         *)
(* A write hands its data to the transport and awaits drain.  Unless the   *)
(* transport is closing, that await does not give the event loop a chance  *)
(* to run anything else (messages are small, the transport's buffer never  *)
(* fills up), so the loop that replays messages runs on: turn is the       *)
(* connection whose handler has not yielded yet.                           *)
(***************************************************************************)
EXTENDS Naturals, FiniteSets, SequencesExt

CONSTANTS
    Conn,      \* the session's connections
    None,
    MaxSent,   \* bound on the messages sent to the client, numbered in order
    Errors     \* how broken sockets fail: ConnectionResetError, or another error

ReplayAssumption ==
    /\ None \notin Conn \cup Nat
    /\ MaxSent \in Nat
    /\ Errors \subseteq {"reset", "pipe"}

ASSUME ReplayAssumption

VARIABLES
    messages,   \* messages_while_disconnected
    phase,      \* where the handler of a connection is
    link,       \* what the connection's transport and reader know
    current,    \* the session's connection in auth_connections
    handle,     \* whether cleanup_handle exists
    turn,       \* the handler that has the event loop, or None
    replaying,  \* the message a suspended replay is writing
    writing,    \* the connection a suspended write of a message is on
    sent,       \* number of messages sent to the client
    received,   \* what arrived at the client
    gone,       \* messages handed to a dead socket, or failed to the sender
    overlapped  \* history: a replay has begun while another one was suspended

session == <<current, handle, overlapped>>
transfers == <<sent, received, gone>>
vars == <<messages, phase, link, session, turn, replaying, writing, transfers>>

Message == 1..MaxSent

\* A client that left may be unnoticed; a failed send makes the transport
\* close, which tells the reader one turn of the event loop later.
Link == {"none", "up", "left", "closing", "closed", "reset", "pipe"}

TypeOK ==
    /\ messages \in Seq(Message) /\ received \in Seq(Message)
    /\ phase \in [Conn -> {"new", "replay", "serving", "ended"}]
    /\ link \in [Conn -> Link]
    /\ current \in Conn \cup {None} /\ turn \in Conn \cup {None}
    /\ replaying \in [Conn -> Message \cup {None}]
    /\ writing \in [Message -> Conn \cup {None}]
    /\ sent \in 0..MaxSent
    /\ gone \in Seq(Message)
    /\ handle \in BOOLEAN /\ overlapped \in BOOLEAN

Init ==
    /\ messages = <<>>
    /\ phase = [c \in Conn |-> "new"]
    /\ link = [c \in Conn |-> "none"]
    /\ current = None
    /\ turn = None
    /\ replaying = [c \in Conn |-> None]
    /\ writing = [m \in Message |-> None]
    /\ sent = 0
    /\ received = <<>>
    /\ gone = <<>>
    /\ handle = FALSE
    /\ overlapped = FALSE

-----------------------------------------------------------------------------
\* read_connect_packet_data up to the replay.  cleanup_handle is never unset: from
\* the first disconnect on, a client that returns takes the session over whatever
\* its older connections are doing.
Connect(c) ==
    /\ turn = None
    /\ phase[c] = "new"
    /\ current = None \/ handle
    /\ phase' = [phase EXCEPT ![c] = IF messages = <<>> THEN "serving" ELSE "replay"]
    /\ link' = [link EXCEPT ![c] = "up"]
    /\ current' = c
    /\ turn' = IF messages = <<>> THEN None ELSE c
    /\ overlapped' = (overlapped \/ \E d \in Conn : replaying[d] # None)
    /\ UNCHANGED <<messages, handle, replaying, writing, transfers>>

\* Before, there is no handle to cancel: the handler fails, and its own
\* handle_disconnect makes one, in the session it has just taken from current.
ConnectTooEarly(c) ==
    /\ turn = None
    /\ phase[c] = "new"
    /\ current # None /\ ~handle
    /\ phase' = [phase EXCEPT ![c] = "ended"]
    /\ link' = [link EXCEPT ![c] = "closed"]
    /\ handle' = TRUE
    /\ UNCHANGED <<messages, current, turn, replaying, writing, transfers, overlapped>>

\* The client closes its socket or loses its network.
Leave(c) ==
    /\ link[c] = "up"
    /\ link' = [link EXCEPT ![c] = "left"]
    /\ UNCHANGED <<messages, phase, session, turn, replaying, writing, transfers>>

\* A mutant: any error of a write is caught.
CaughtAll == Errors

\* The errors that AuthConnection.write catches.
Caught == {"reset"}

\* Mutants: a failed write remembers nothing, or not the data.
RotatedAway(m) == Tail(messages)
RotatedEmpty(m) == Tail(Append(messages, None))

\* The message that could not be written is remembered again, at the end, and
\* the loop pops the first one, which is that very message if no other is left.
Rotated(m) == Tail(Append(messages, m))

\* A mutant: the replay sends the first message but leaves it in the list.
DeliversWithoutPop(c) ==
    /\ turn = c /\ messages # <<>> /\ link[c] = "up"
    /\ received' = Append(received, Head(messages))
    /\ UNCHANGED <<messages, phase, link, session, turn, replaying, writing, sent, gone>>

\* Once round the replay's loop: "message = messages[0]; await write(message);
\* messages.pop(0)".  A write that fails with ConnectionResetError remembers the
\* message again, at the end.
ReplayDelivers(c) ==
    /\ turn = c /\ messages # <<>> /\ link[c] = "up"
    /\ received' = Append(received, Head(messages))
    /\ messages' = Tail(messages)
    /\ UNCHANGED <<phase, link, session, turn, replaying, writing, sent, gone>>

ReplaySwallowed(c) ==
    /\ turn = c /\ messages # <<>> /\ link[c] = "left"
    /\ gone' = Append(gone, Head(messages))
    /\ messages' = Tail(messages)
    /\ UNCHANGED <<phase, link, session, turn, replaying, writing, sent, received>>

\* With one message left such a round changes nothing at all: the loop spins.
ReplayRotates(c) ==
    /\ turn = c /\ messages # <<>> /\ link[c] \in Caught
    /\ messages' = Rotated(Head(messages))
    /\ UNCHANGED <<phase, link, session, turn, replaying, writing, transfers>>

ReplaySuspends(c) ==
    /\ turn = c /\ messages # <<>> /\ link[c] \in {"left", "closing", "closed"}
    /\ link' = [link EXCEPT ![c] = IF @ = "left" THEN "closing" ELSE @]
    /\ replaying' = [replaying EXCEPT ![c] = Head(messages)]
    /\ turn' = None
    /\ UNCHANGED <<messages, phase, session, writing, transfers>>

ReplayResumes(c) ==
    /\ turn = None /\ replaying[c] # None /\ link[c] # "closing"
    /\ messages' = Rotated(replaying[c])
    /\ replaying' = [replaying EXCEPT ![c] = None]
    /\ turn' = c
    /\ UNCHANGED <<phase, link, session, writing, transfers>>

ReplayFails(c) ==
    /\ turn = c /\ messages # <<>> /\ link[c] \in Errors \ Caught
    /\ phase' = [phase EXCEPT ![c] = "ended"]
    /\ turn' = None
    /\ handle' = TRUE
    /\ UNCHANGED <<messages, link, current, replaying, writing, transfers, overlapped>>

ReplayDone(c) ==
    /\ turn = c /\ messages = <<>>
    /\ phase' = [phase EXCEPT ![c] = "serving"]
    /\ turn' = None
    /\ UNCHANGED <<messages, link, session, replaying, writing, transfers>>

\* connection_lost, scheduled by the send that failed.
ConnectionLost(c) ==
    /\ turn = None /\ link[c] = "closing"
    /\ \E how \in Errors : link' = [link EXCEPT ![c] = how]
    /\ UNCHANGED <<messages, phase, session, turn, replaying, writing, transfers>>

\* The handler's read fails or finds the end of the stream; handle_disconnect
\* and writer.close() follow.
HandlerEnds(c) ==
    /\ turn = None /\ phase[c] = "serving" /\ link[c] \notin {"up", "closing"}
    /\ phase' = [phase EXCEPT ![c] = "ended"]
    /\ \E how \in Errors \cup {"closed"} :
          link' = [link EXCEPT ![c] = IF @ = "left" THEN how ELSE @]
    /\ handle' = TRUE
    /\ UNCHANGED <<messages, current, turn, replaying, writing, transfers, overlapped>>

\* AuthConnection.write by the handler of c in reply, or by anybody who finds c
\* in auth_connections.
Send(c) ==
    /\ turn = None
    /\ c = current \/ phase[c] = "serving"
    /\ sent < MaxSent
    /\ sent' = sent + 1
    /\ \/ /\ link[c] = "up"
          /\ received' = Append(received, sent')
          /\ UNCHANGED <<messages, link, writing, gone>>
       \/ /\ link[c] \in {"left"} \cup (Errors \ Caught)
          /\ gone' = Append(gone, sent')
          /\ UNCHANGED <<messages, link, writing, received>>
       \/ /\ link[c] \in Caught
          /\ messages' = Append(messages, sent')
          /\ UNCHANGED <<link, writing, received, gone>>
       \/ /\ link[c] \in {"left", "closing", "closed"}
          /\ link' = [link EXCEPT ![c] = IF @ = "left" THEN "closing" ELSE @]
          /\ writing' = [writing EXCEPT ![sent'] = c]
          /\ UNCHANGED <<messages, received, gone>>
    /\ UNCHANGED <<phase, session, turn, replaying>>

WriteResumes(m) ==
    /\ turn = None /\ writing[m] # None /\ link[writing[m]] # "closing"
    /\ messages' = Append(messages, m)
    /\ writing' = [writing EXCEPT ![m] = None]
    /\ UNCHANGED <<phase, link, session, turn, replaying, transfers>>

ServerStep(c) ==
    \/ ReplayDelivers(c) \/ ReplaySwallowed(c) \/ ReplayRotates(c) \/ ReplaySuspends(c)
    \/ ReplayResumes(c) \/ ReplayFails(c) \/ ReplayDone(c) \/ ConnectionLost(c)

Next ==
    \/ \E c \in Conn : \/ Connect(c) \/ ConnectTooEarly(c) \/ Leave(c)
                       \/ Send(c) \/ ServerStep(c) \/ HandlerEnds(c)
    \/ \E m \in Message : WriteResumes(m)

Spec == Init /\ [][Next]_vars

FairSpec ==
    /\ Spec
    /\ \A c \in Conn : WF_vars(ServerStep(c))
    /\ \A m \in Message : WF_vars(WriteResumes(m))
-----------------------------------------------------------------------------
Times(m, list) == Cardinality({i \in DOMAIN list : list[i] = m})

\* Each message that was sent either has arrived, or was given to a dead socket, or
\* waits in messages_while_disconnected, or in a write that is about to put it
\* there, and is in one of these places only.
Accounted ==
    \A m \in Message :
        Times(m, received) + Times(m, messages) + Times(m, gone)
            + (IF writing[m] = None THEN 0 ELSE 1)
          = IF m <= sent THEN 1 ELSE 0

\* A message is lost or doubled only if a client came back while the replay to an
\* older connection of it was suspended: both write messages[0], and each pops
\* whatever is the first message by then.  Writes of other tasks during a replay,
\* replies through an older connection and failures between write and pop(0) do
\* no harm.  (append in AuthConnection.write against [0] and pop(0) in
\* read_connect_packet_data.)
LossNeedsOverlap == overlapped \/ Accounted

\* The number of messages is right even then: a failed write of a replay puts one
\* message into the list for the one that is popped, so a message is lost for
\* each one that is doubled, and no round of any replay shortens the list without
\* having given a message to a socket.
Conserved ==
    sent = Len(received) + Len(messages) + Len(gone)
             + Cardinality({m \in Message : writing[m] # None})

\* The replay gives the event loop back, unless the client's connection is
\* reset: nothing else of the server runs as long as it does not.
ReplayYields == \A c \in Conn : turn = c ~> (turn # c \/ link[c] = "reset")

\* auth_server.py:278 describes the replay as "Send any messages that we tried to
\* send during the disconnect": a finite number of sends, whatever becomes of the
\* connection.
ReplayEnds == \A c \in Conn : turn = c ~> turn # c
=============================================================================
