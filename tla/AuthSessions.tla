---------------------------- MODULE AuthSessions ----------------------------
(***************************************************************************)
(* The connections of the auth server and the two dictionaries in which    *)
(* the server finds them: auth_connections, by token, and                  *)
(* auth_connections_by_ki_number, by the avatar a client plays             *)
(* (src/nagus/auth_server.py, src/nagus/state.py).                         *)
(*                                                                         *)
(* Everything runs on one asyncio event loop, so a step of the model is    *)
(* what the code does between two awaits.  A step that the code composes   *)
(* of several calls (a message handler that kicks somebody, raises and is  *)
(* torn down by handle_disconnect) composes functions on the record srv.   *)
(***************************************************************************)
EXTENDS Naturals

CONSTANTS
    Conn,          \* connection objects, in other words TCP connections
    KI,            \* KI numbers a client may ask for
    Avatar,        \* those of them that an existing avatar has
    None,          \* "no connection", "no KI number" (the code's KI number 0)
    KeepState,     \* disconnected_client_timeout is not 0
    Disturbances   \* what the environment may do, see below

(***************************************************************************)
(* The token and the AuthClientState that a connection without a token     *)
(* gets are named after that connection: session s is the state created    *)
(* for connection s.  A connection that reconnects leaves its own unused   *)
(* and carries the session of the connection it replaces.                  *)
(*                                                                         *)
(* halfOpen: a client notices the loss of a connection, and reconnects,    *)
(*     before the server has noticed it.                                   *)
(* kickedTalks: a kicked client's messages are still handled.              *)
(* kickMidMessage: the console kicks a connection whose handler is waiting *)
(*     for the vault.                                                      *)
(* reset: a client's socket breaks with an error while it is kicked.       *)
(***************************************************************************)
ConstantsAssumption ==
    /\ None \notin Conn \cup KI
    /\ Avatar \subseteq KI
    /\ KeepState \in BOOLEAN
    /\ Disturbances \subseteq {"halfOpen", "kickedTalks", "kickMidMessage", "reset"}

ASSUME ConstantsAssumption

VARIABLES
    srv,      \* the ServerState, the AuthClientStates, the event loop's timers and tasks
    phase,    \* where the handler of a connection is
    up,       \* connections whose socket is open
    switch,   \* the AccountSetPlayerRequest that waits for the vault, if any
    online    \* avatars whose PlayerInfo node says online

vars == <<srv, phase, up, switch, online>>

Server ==
    [client  : [Conn -> Conn],                   \* AuthConnection.client_state
     usable  : SUBSET Conn,                      \* sessions by their usable flag
     ki      : [Conn -> KI \cup {None}],         \* sessions' ki_number
     handle  : [Conn -> Conn \cup {None}],       \* sessions' cleanup_handle, by whose callback it is
     timers  : SUBSET Conn,                      \* callbacks scheduled with call_later
     auth    : [Conn -> Conn \cup {None}],       \* auth_connections
     byKI    : [KI -> Conn \cup {None}],         \* auth_connections_by_ki_number
     closing : SUBSET (Conn \X (KI \cup {None})),          \* _get_kicked tasks
     offline : SUBSET (Conn \X KI \X {"cleanup", "kick"})] \* set_avatar_offline tasks

TypeOK ==
    /\ srv \in Server
    /\ phase \in [Conn -> {"new", "running", "ended"}]
    /\ up \subseteq Conn
    /\ switch \in [Conn -> [stage : {"idle", "vault", "resume"},
                            from : KI \cup {None}, to : KI \cup {None}]]
    /\ online \subseteq Avatar

Idle == [stage |-> "idle", from |-> None, to |-> None]

Init ==
    /\ srv = [client  |-> [c \in Conn |-> c],
              usable  |-> {},
              ki      |-> [c \in Conn |-> None],
              handle  |-> [c \in Conn |-> None],
              timers  |-> {},
              auth    |-> [c \in Conn |-> None],
              byKI    |-> [k \in KI |-> None],
              closing |-> {},
              offline |-> {}]
    /\ phase = [c \in Conn |-> "new"]
    /\ up = {}
    /\ switch = [c \in Conn |-> Idle]
    /\ online = {}

-----------------------------------------------------------------------------
(* What the methods do to the server's state.                              *)

\* Mutants: the check for an avatar is dropped; nobody sets it offline.
OfflineTaskUnchecked(c, k, why) == {<<c, k, why>>}
OfflineTaskNever(c, k, why) == {}

\* The update is always requested by a connection's clean-up or kick.
OfflineTask(c, k, why) == IF k = None THEN {} ELSE {<<c, k, why>>}

\* _clean_up_now.  Its assertions stop it half way: the task that sets the
\* avatar offline exists by then.
CleanUpNow(r, c) ==
    LET s == r.client[c]
        k == r.ki[s]
        told == [r EXCEPT !.offline = @ \cup OfflineTask(c, k, "cleanup")]
        unbound == IF k = None THEN told ELSE [told EXCEPT !.byKI[k] = None]
    IN  IF s \notin r.usable THEN r
        ELSE IF k # None /\ r.byKI[k] # c THEN told
        ELSE IF r.auth[s] # c THEN unbound
        ELSE [unbound EXCEPT !.auth[s] = None]

\* A mutant: only the connections that play an avatar are cleaned up.
HandleDisconnectIfPlaying(r, c) ==
    IF r.client[c] \notin r.usable \/ r.ki[r.client[c]] = None THEN r
    ELSE [r EXCEPT !.timers = @ \cup {c}, !.handle[r.client[c]] = c]

\* handle_disconnect, which the handler's end always runs.
HandleDisconnect(r, c) ==
    IF r.client[c] \notin r.usable THEN r
    ELSE IF KeepState THEN [r EXCEPT !.timers = @ \cup {c}, !.handle[r.client[c]] = c]
    ELSE CleanUpNow(r, c)

\* Both dictionary entries are deleted without a check; either may be missing.
KickRaises(r, v) ==
    LET s == r.client[v]
    IN  /\ s \in r.usable
        /\ \/ r.auth[s] = None
           \/ r.ki[s] # None /\ r.byKI[r.ki[s]] = None

\* A mutant: the token is not forgotten.
ForgetKIOnly(r, s) ==
    [r EXCEPT !.byKI = IF r.ki[s] = None THEN @ ELSE [@ EXCEPT ![r.ki[s]] = None]]

\* The session leaves both dictionaries.
Forget(r, s) ==
    [r EXCEPT !.auth[s] = None,
              !.byKI = IF r.ki[s] = None THEN @ ELSE [@ EXCEPT ![r.ki[s]] = None]]

\* A mutant: the clean-up of the previous connection is left to run.
CancelNothing(r, s) == r

CancelCleanUp(r, s) == [r EXCEPT !.timers = @ \ {r.handle[s]}]

\* kick_async.  Whether the client counts as connected is decided by whether
\* its session ever had a cleanup_handle.
Kick(r, v, setOffline) ==
    LET s == r.client[v]
        toSet == IF setOffline THEN r.ki[s] ELSE None
        unusable == [Forget(r, s) EXCEPT !.usable = @ \ {s}]
    IN  IF s \notin r.usable \/ r.auth[s] = None THEN r
        ELSE IF KickRaises(r, v) THEN Forget(r, s)
        ELSE IF r.handle[s] = None
          THEN [unusable EXCEPT !.closing = @ \cup {<<v, toSet>>}]
        ELSE [CancelCleanUp(unusable, s)
                EXCEPT !.offline = @ \cup OfflineTask(v, toSet, "kick")]

\* The rest of account_set_player_request once the previous avatar is dropped:
\* another user of the avatar is kicked, the avatar becomes this connection's.
ClaimRaises(r, k) == k # None /\ r.byKI[k] # None /\ KickRaises(r, r.byKI[k])

\* Mutants: the previous user keeps the avatar too; the connection enters
\* itself into auth_connections as well.
ClaimWithoutKick(r, c, k) ==
    IF k = None THEN r ELSE [r EXCEPT !.ki[r.client[c]] = k, !.byKI[k] = c]
ClaimRegistersToken(r, c, k) ==
    IF k = None THEN r
    ELSE [r EXCEPT !.ki[r.client[c]] = k, !.byKI[k] = c, !.auth[r.client[c]] = c]

Claim(r, c, k) ==
    LET kicked == IF r.byKI[k] = None THEN r ELSE Kick(r, r.byKI[k], FALSE)
    IN  IF k = None THEN r
        ELSE IF ClaimRaises(r, k) THEN kicked
        ELSE [kicked EXCEPT !.ki[r.client[c]] = k, !.byKI[k] = c]

-----------------------------------------------------------------------------
(* Steps of the event loop.                                                *)

MayTalk(c) == srv.client[c] \in srv.usable \/ "kickedTalks" \in Disturbances

\* The handler of c is over, by the end of its stream or by an exception.
End(c, r) ==
    /\ srv' = HandleDisconnect(r, c)
    /\ phase' = [phase EXCEPT ![c] = "ended"]
    /\ up' = up \ {c}
    /\ switch' = [switch EXCEPT ![c] = Idle]

\* read_connect_packet_data, no token yet.
Connect(c) ==
    /\ phase[c] = "new"
    /\ srv' = [srv EXCEPT !.usable = @ \cup {c}, !.auth[c] = c]
    /\ phase' = [phase EXCEPT ![c] = "running"]
    /\ up' = up \cup {c}
    /\ UNCHANGED <<switch, online>>

\* A client has one connection at a time.
ClientReconnects(t) ==
    \A x \in Conn : srv.client[x] = t =>
        /\ x \notin up
        /\ "halfOpen" \in Disturbances \/ phase[x] # "running"

\* read_connect_packet_data with token t: an unknown token and a session that
\* was never disconnected both raise, the latter with the session taken over.
Reconnect(c, t) ==
    LET s == srv.client[srv.auth[t]]
        joined == [srv EXCEPT !.client[c] = s]
    IN  /\ phase[c] = "new" /\ c # t
        /\ ClientReconnects(t)
        /\ IF srv.auth[t] = None \/ s \notin srv.usable THEN End(c, srv)
           ELSE IF srv.handle[s] = None THEN End(c, joined)
           ELSE /\ srv' = [CancelCleanUp(joined, s)
                             EXCEPT !.auth[t] = c,
                                    !.byKI = IF srv.ki[s] = None THEN @
                                             ELSE [@ EXCEPT ![srv.ki[s]] = c]]
                /\ phase' = [phase EXCEPT ![c] = "running"]
                /\ up' = up \cup {c}
                /\ UNCHANGED switch
        /\ UNCHANGED online

\* The network or the client closes the socket; the server will notice.
Lose(c) ==
    /\ c \in up
    /\ up' = up \ {c}
    /\ UNCHANGED <<srv, phase, switch, online>>

\* A read fails, or a message is malformed or its handler raises.
HandlerEnds(c) ==
    /\ phase[c] = "running" /\ switch[c] = Idle
    /\ End(c, srv)
    /\ UNCHANGED online

\* account_set_player_request, up to its first await.
SetPlayer(c, k) ==
    LET s == srv.client[c]
        p == srv.ki[s]
    IN  /\ phase[c] = "running" /\ switch[c] = Idle
        /\ MayTalk(c)
        /\ IF p = None
             THEN IF ClaimRaises(srv, k) THEN End(c, Claim(srv, c, k))
                  ELSE srv' = Claim(srv, c, k) /\ UNCHANGED <<phase, up, switch>>
           ELSE IF srv.byKI[p] = None THEN End(c, srv)
           ELSE /\ srv' = [srv EXCEPT !.byKI[p] = None, !.ki[s] = None]
                /\ switch' = [switch EXCEPT ![c] = [stage |-> "vault", from |-> p, to |-> k]]
                /\ UNCHANGED <<phase, up>>
        /\ UNCHANGED online

\* The vault update of the previous avatar: it raises when there is no such avatar.
SwitchVault(c) ==
    /\ switch[c].stage = "vault"
    /\ IF switch[c].from \in Avatar
         THEN /\ switch' = [switch EXCEPT ![c].stage = "resume"]
              /\ online' = online \ {switch[c].from}
              /\ UNCHANGED <<srv, phase, up>>
         ELSE End(c, srv) /\ UNCHANGED online

\* The handler goes on after that await, whatever happened to its connection.
SwitchResume(c) ==
    /\ switch[c].stage = "resume"
    /\ IF ClaimRaises(srv, switch[c].to) THEN End(c, Claim(srv, c, switch[c].to))
       ELSE /\ srv' = Claim(srv, c, switch[c].to)
            /\ switch' = [switch EXCEPT ![c] = Idle]
            /\ UNCHANGED <<phase, up>>
    /\ UNCHANGED online

\* vault_node_save of the client's own PlayerInfo node, when it links to an age.
GoOnline(c) ==
    /\ phase[c] = "running" /\ switch[c] = Idle
    /\ MayTalk(c)
    /\ srv.ki[srv.client[c]] \in Avatar
    /\ online' = online \cup {srv.ki[srv.client[c]]}
    /\ UNCHANGED <<srv, phase, up, switch>>

\* The console's kick command.
ConsoleKick(c) ==
    /\ \E t \in Conn : srv.auth[t] = c
    /\ "kickMidMessage" \in Disturbances \/ switch[c] = Idle
    /\ srv' = Kick(srv, c, TRUE)
    /\ UNCHANGED <<phase, up, switch, online>>

\* _get_kicked: the reason is sent, the socket closed, the avatar set offline.
KickCloses(c) ==
    \E k \in KI \cup {None} :
        /\ <<c, k>> \in srv.closing
        /\ srv' = [srv EXCEPT !.closing = @ \ {<<c, k>>},
                              !.offline = @ \cup OfflineTask(c, k, "kick")]
        /\ up' = up \ {c}
        /\ UNCHANGED <<phase, switch, online>>

\* wait_closed raises the error that broke the socket, and the rest is skipped.
KickFails(c) ==
    /\ c \notin up /\ "reset" \in Disturbances
    /\ \E k \in KI \cup {None} :
        /\ <<c, k>> \in srv.closing
        /\ srv' = [srv EXCEPT !.closing = @ \ {<<c, k>>}]
    /\ UNCHANGED <<phase, up, switch, online>>

\* The callback that handle_disconnect scheduled.
TimerFires(c) ==
    /\ c \in srv.timers
    /\ srv' = CleanUpNow([srv EXCEPT !.timers = @ \ {c}], c)
    /\ UNCHANGED <<phase, up, switch, online>>

\* set_avatar_offline, run by a task.
SetOffline(c) ==
    \E k \in KI, why \in {"cleanup", "kick"} :
        /\ <<c, k, why>> \in srv.offline
        /\ srv' = [srv EXCEPT !.offline = @ \ {<<c, k, why>>}]
        /\ online' = online \ {k}
        /\ UNCHANGED <<phase, up, switch>>

ServerStep(c) ==
    \/ SwitchVault(c) \/ SwitchResume(c)
    \/ KickCloses(c) \/ KickFails(c)
    \/ TimerFires(c) \/ SetOffline(c)

Next ==
    \E c \in Conn :
        \/ Connect(c)
        \/ \E t \in Conn : Reconnect(c, t)
        \/ Lose(c)
        \/ HandlerEnds(c)
        \/ \E k \in KI \cup {None} : SetPlayer(c, k)
        \/ GoOnline(c)
        \/ ConsoleKick(c)
        \/ ServerStep(c)

Spec == Init /\ [][Next]_vars

(***************************************************************************)
(* The event loop runs every ready task and every due timer, the vault     *)
(* answers, and the handler of a closed socket notices.  Nothing is        *)
(* assumed of the clients or the network.                                  *)
(***************************************************************************)
Fairness ==
    \A c \in Conn :
        /\ WF_vars(SwitchVault(c))
        /\ WF_vars(SwitchResume(c))
        /\ WF_vars(KickCloses(c))
        /\ WF_vars(TimerFires(c))
        /\ WF_vars(SetOffline(c))
        /\ WF_vars(c \notin up /\ HandlerEnds(c))

FairSpec == Spec /\ Fairness
-----------------------------------------------------------------------------
(* Properties.                                                             *)

\* The dictionaries agree with each other and with the sessions: a token leads
\* to a connection that carries the usable session of that token, an avatar to
\* the connection of the session that plays it, and a session that plays an
\* avatar is found under it.  In particular no two sessions play one avatar.
TokensLeadToSessions(r) ==
    \A t \in Conn : r.auth[t] # None => r.client[r.auth[t]] = t /\ t \in r.usable

AvatarsLeadToSessions(r) ==
    \A k \in KI : r.byKI[k] # None =>
        LET s == r.client[r.byKI[k]]
        IN  r.auth[s] = r.byKI[k] /\ r.ki[s] = k

SessionsFoundByAvatar(r) ==
    \A t \in Conn : r.auth[t] # None /\ r.ki[t] # None => r.byKI[r.ki[t]] = r.auth[t]

RegistryConsistent ==
    /\ TokensLeadToSessions(srv)
    /\ AvatarsLeadToSessions(srv)
    /\ SessionsFoundByAvatar(srv)

\* What _clean_up_now asserts and what kick_async relies on when it cancels: a
\* scheduled clean-up is the session's latest, and the session is still that
\* connection's.
TimersSound ==
    \A c \in srv.timers :
        LET s == srv.client[c]
        IN  /\ phase[c] = "ended"
            /\ s \in srv.usable /\ srv.auth[s] = c /\ srv.handle[s] = c
            /\ srv.ki[s] # None => srv.byKI[srv.ki[s]] = c

\* No state is kept for ever: a registered session has a handler that will end
\* or a clean-up that will run.  And no client is served without one: a running
\* connection that was not kicked is the one its token leads to.
NoSessionLeaks ==
    /\ \A t \in Conn : srv.auth[t] # None =>
           phase[srv.auth[t]] = "running" \/ srv.auth[t] \in srv.timers
    /\ \A c \in Conn : phase[c] = "running" /\ srv.client[c] \in srv.usable =>
           srv.auth[srv.client[c]] = c

\* The session of a connection is what owns an avatar; a token that was used to
\* reconnect never becomes a session of its own.
Ownership ==
    INSTANCE AvatarOwnership WITH
        Session <- Conn,
        owner <- [k \in KI |-> IF srv.byKI[k] = None THEN None
                               ELSE srv.client[srv.byKI[k]]],
        life <- [t \in Conn |-> IF phase[t] = "new" THEN "fresh"
                                ELSE IF srv.auth[t] = None THEN "dead" ELSE "live"]

ImplementsOwnership == Ownership!Spec

\* The assertion of read_connect_packet_data, whatever the environment does.
TokenResolvesUsable == TokensLeadToSessions(srv)

\* A session that was kicked or timed out cannot be got back with its token.
Discarded(t) == phase[t] # "new" /\ srv.auth[t] = None

DiscardedForGood == [][\A t \in Conn : Discarded(t) => Discarded(t)']_vars

\* changelog: avatars do not stay online when a client goes away.
AvatarsGoOffline ==
    \A k \in Avatar :
        (k \in online /\ srv.byKI[k] = None) ~> (k \notin online \/ srv.byKI[k] # None)

\* A client was kicked, and its handler does not know yet.
Kicked(c) == phase[c] = "running" /\ srv.client[c] \notin srv.usable

\* Docstring of kick_async: in the end the client is actually disconnected.
KickedGetDisconnected == \A c \in Conn : Kicked(c) ~> phase[c] = "ended"
=============================================================================
