------------------------------ MODULE AgeState ------------------------------
(***************************************************************************)
(* The game server (src/nagus/game_server.py): connections that join one   *)
(* age instance, change the SDL state of its objects and ask for all of    *)
(* it, over the state that the database keeps (src/nagus/state.py).        *)
(*                                                                         *)
(* A connection handles one message at a time, but every database method   *)
(* is awaited, so the handlers of several connections interleave between   *)
(* their calls; each call is one step here (VaultDb takes them apart).     *)
(* Replies go to the handler's own client and are sent in the step after   *)
(* which they are awaited.                                                 *)
(*                                                                         *)
(* The state of the object named AgeSDLHook is in a vault node below the   *)
(* Age Info node: the auth server links one when it sets the age up, a     *)
(* change that comes before makes one of its own.  The others are in a     *)
(* table by object.  A blob is a descriptor's version and the values of    *)
(* variables, a value is the connection that set it.                       *)
(***************************************************************************)
EXTENDS Integers, Sequences, FiniteSets, FiniteSetsExt

CONSTANTS
    Conn,           \* connections, at most one client each at a time
    Object,         \* objects with persistent state, in the order of their keys
    Hook,           \* the AgeSDLHook
    Var,            \* variables of the descriptors
    Message,        \* what clients may send
    None,
    MaxMessages,    \* bound on the messages of a connection
    MaxCrashes      \* bound on the crashes of the server

Target == Object \cup {Hook}

\* do_persist is whether the state is flagged as persistent and is neither an
\* avatar's nor a clone's.  A blob is parsed by guessing, refused with a
\* ValueError, or raises another exception.  The plMessage that a load clone message wraps may
\* not parse, or not even decompress; its spawn point is in the age, or global
\* or reserved, or there is none.  Illegal is a message with trailing data, one
\* announced as of another class, or of a class only servers send; other, one
\* whose handler changes nothing.
Messages ==
    [kind : {"join", "request", "other", "illegal"}]
    \cup [kind : {"change"}, obj : Target, version : Nat \ {0}, vars : SUBSET Var,
          blob : {"parsed", "refused", "raises"}, do_persist : BOOLEAN]
    \cup [kind : {"load"}, is_player : BOOLEAN, data : {"good", "unparsable", "corrupt"},
          spawn : {"age", "global", "none"}]
    \cup [kind : {"lock", "unlock"}, obj : Object]

NamesAssumption ==
    /\ Object \subseteq Nat \ {0} /\ IsFiniteSet(Object)
    /\ Hook \notin Object
    /\ None \notin Conn \cup Target
    /\ Message \subseteq Messages
    /\ MaxMessages \in Nat /\ MaxCrashes \in Nat

ASSUME NamesAssumption

VARIABLES
    age,        \* the vault's nodes of the age instance, see Ages
    building,   \* whether the auth server is setting the age up
    own,        \* the SDL node that it has made, or 0
    nodes,      \* the SDL nodes of the age, by creation
    refs,       \* those with a reference from the Age Info node
    objs,       \* AgeInstanceObjectStates
    mode,       \* server.game.parse_pl_messages
    client,     \* client_state, and what the client has done
    handler,    \* where a connection's handler is, and its local variables
    crashes

setup == <<age, building, own>>
vars == <<setup, nodes, refs, objs, mode, client, handler, crashes>>

\* The age node may be missing, or lack a fitting Age Info node.
Ages == {"absent", "unfit", "whole"}

\* How many saves a blob is the result of is not in the code.
Blob == [version : Nat, vars : [Var -> Conn \cup {None}], saves : Nat]

NoBlob == [version |-> 0, vars |-> [v \in Var |-> None], saves |-> 0]

Stage == {"closed", "idle", "joinAge", "joinInfo",
          "findNode", "createNode", "refNode", "fetchNode", "updateNode",
          "fetchState", "saveState",
          "requestFind", "requestFetch", "requestExecute", "requestRows"}

\* The change's target and content, the node found, what was fetched, and which
\* other handlers of the same target it overlapped with; the rows of a request
\* and the states saved when it came.
NoWork == [obj |-> None, version |-> 0, vars |-> {}, node |-> 0, fetched |-> NoBlob,
           company |-> {}, row |-> None, blob |-> NoBlob, count |-> 0, sent |-> {},
           owed |-> {}]

\* left: the client has gone without the server having noticed.
\* loaded: it has loaded its avatar at a spawn point of the age.
NoClient == [joined |-> FALSE, prefix |-> FALSE, locks |-> {}, left |-> FALSE,
             loaded |-> FALSE, orderly |-> TRUE, end |-> "none", messages |-> 0]

TypeOK ==
    /\ age \in Ages
    /\ building \in BOOLEAN
    /\ nodes \in Seq(Blob)
    /\ own \in 0..Len(nodes)
    /\ refs \subseteq DOMAIN nodes
    /\ objs \in [Object -> Blob]
    /\ mode \in {"necessary", "known"}
    /\ client \in [Conn -> [joined : BOOLEAN, prefix : BOOLEAN, locks : SUBSET Object,
                            left : BOOLEAN, loaded : BOOLEAN, orderly : BOOLEAN,
                            end : {"none", "left", "crash", "blob", "protocol", "uncaught"},
                            messages : 0..MaxMessages]]
    /\ handler \in [Conn -> [stage : Stage,
                             work : [obj : Target \cup {None}, version : Nat,
                                     vars : SUBSET Var, node : Nat, fetched : Blob,
                                     company : SUBSET Conn, row : Object \cup {None},
                                     blob : Blob, count : Nat,
                                     sent : SUBSET (Target \X Nat),
                                     owed : SUBSET (Target \X Nat)]]]
    /\ crashes \in 0..MaxCrashes

Init ==
    /\ age = "absent"
    /\ building = FALSE
    /\ own = 0
    /\ nodes = <<>>
    /\ refs = {}
    /\ objs = [o \in Object |-> NoBlob]
    /\ mode \in {"necessary", "known"}
    /\ client = [c \in Conn |-> NoClient]
    /\ handler = [c \in Conn |-> [stage |-> "closed", work |-> NoWork]]
    /\ crashes = 0

-----------------------------------------------------------------------------
(* What is saved.                                                          *)

\* A mutant: the last of the rows.
FoundLast == IF refs = {} THEN 0 ELSE Max(refs)

\* The rows come in the order of the primary key of VaultNodeRefs, and more
\* than one is only logged.
Found == IF refs = {} THEN 0 ELSE Min(refs)

Saved(o) ==
    IF o \in Object THEN objs[o] ELSE IF Found = 0 THEN NoBlob ELSE nodes[Found]

IsBlob(blob) == blob.saves > 0

\* The change laid over the record that was fetched, or the first blob as sent.
Applied(w, c) ==
    [version |-> w.version,
     vars |-> [v \in Var |-> IF v \in w.vars THEN c ELSE w.fetched.vars[v]]]

Stored(old, new) ==
    [version |-> new.version, vars |-> new.vars, saves |-> old.saves + 1]

\* The headers must agree.
Applies(blob, w) == IsBlob(blob) => blob.version = w.version

-----------------------------------------------------------------------------
(* Connections.                                                            *)

UnderWayOn(o) ==
    {d \in Conn : handler[d].stage \notin {"closed", "idle"} /\ handler[d].work.obj = o}

Goes(c, stage, w) == handler' = [handler EXCEPT ![c] = [stage |-> stage, work |-> w]]

Finishes(c) == Goes(c, "idle", NoWork)

\* client_connected closes the writer, and client_state goes with the connection.
Ended(c, end) ==
    [NoClient EXCEPT !.orderly = client[c].orderly, !.end = end,
                     !.messages = client[c].messages]

Fails(c, end) ==
    /\ client' = [client EXCEPT ![c] = Ended(c, end)]
    /\ Goes(c, "closed", NoWork)
    /\ UNCHANGED <<setup, nodes, refs, objs, mode, crashes>>

\* A new client, on a connection that nobody uses.
Connect(c) ==
    /\ handler[c].stage = "closed"
    /\ client[c].messages < MaxMessages
    /\ client' = [client EXCEPT ![c] = [NoClient EXCEPT !.messages = client[c].messages]]
    /\ Goes(c, "idle", NoWork)
    /\ UNCHANGED <<setup, nodes, refs, objs, mode, crashes>>

\* The client goes away; a handler that is under way goes on.
Leave(c) ==
    /\ handler[c].stage # "closed"
    /\ ~client[c].left
    /\ client' = [client EXCEPT ![c].left = TRUE]
    /\ UNCHANGED <<setup, nodes, refs, objs, mode, handler, crashes>>

\* Reading the next message fails, or sending the next state does.
NoticeLeave(c) ==
    /\ handler[c].stage \in {"idle", "requestFetch", "requestRows"}
    /\ client[c].left
    /\ Fails(c, "left")

-----------------------------------------------------------------------------
(* Messages.                                                               *)

\* What a game client keeps to: it joins an age that exists, once, before it
\* does anything else, and loads its avatar at a spawn point of the age before
\* it asks for the state or the AgeSDLHook changes.
Proper(c, m) ==
    CASE m.kind = "join" -> age = "whole" /\ ~client[c].joined
      [] m.kind = "illegal" -> FALSE
      [] m.kind = "request" -> client[c].joined /\ client[c].loaded
      [] m.kind = "change" -> client[c].joined /\ (m.obj = Hook => client[c].loaded)
      [] m.kind = "load" -> client[c].joined /\ m.data # "corrupt"
      [] OTHER -> client[c].joined

\* The avatar is loaded in the age.
Introduces(m) ==
    m.kind = "load" /\ m.is_player /\ m.data = "good" /\ m.spawn = "age"

\* A mutant: the message is inspected only if every message is.
LearnsIfKnown(c, m) ==
    m.kind = "load" /\ m.data = "good" /\ m.spawn = "age" /\ mode = "known"

\* try_find_age_sequence_prefix is reached and the location is of the age.
Learns(c, m) ==
    /\ m.kind = "load"
    /\ m.data = "good" /\ m.spawn = "age"
    /\ mode = "known" \/ m.is_player

Locks(c, m) ==
    CASE m.kind = "lock" -> client[c].locks \cup {m.obj}
      [] m.kind = "unlock" -> client[c].locks \ {m.obj}
      [] OTHER -> client[c].locks

\* zlib.error is none of the exceptions that the parsing of a wrapped message
\* expects, and of those of the SDL parser only ValueError is caught; client_state
\* lacks attributes until the client has joined and the prefix is known.
Raises(c, m) ==
    CASE m.kind = "load" -> /\ m.data = "corrupt"
                            /\ mode = "known" \/ (m.is_player /\ ~client[c].prefix)
      [] m.kind = "change" -> \/ m.blob = "raises"
                              \/ /\ m.blob = "parsed"
                                 /\ \/ m.obj = Hook /\ ~client[c].prefix
                                    \/ (m.obj = Hook \/ m.do_persist) /\ ~client[c].joined
      [] m.kind \in {"lock", "unlock", "request"} -> ~client[c].joined
      [] OTHER -> FALSE

\* The message ends the connection at once.
Rejected(c, m) ==
    \/ m.kind = "illegal"
    \/ m.kind = "join" /\ client[c].joined

\* What ends the connection, and what the handler of a message starts with.
EndBy(c, m) ==
    CASE Rejected(c, m) -> "protocol"
      [] m.kind = "change" /\ m.blob = "raises" -> "blob"
      [] OTHER -> "uncaught"

Working(c, m) ==
    CASE m.kind = "change" -> [NoWork EXCEPT !.obj = m.obj, !.version = m.version,
                                             !.vars = m.vars,
                                             !.company = UnderWayOn(m.obj)]
      [] m.kind = "request" -> [NoWork EXCEPT !.owed =
                                   {<<o, Saved(o).saves>> : o \in {p \in Target : IsBlob(Saved(p))}}]
      [] OTHER -> NoWork

\* The stage in which the handler first awaits the database, if it does.
Begins(m) ==
    CASE m.kind = "join" -> "joinAge"
      [] m.kind = "request" -> "requestFind"
      [] m.kind = "change" /\ m.blob = "parsed" /\ m.obj = Hook -> "findNode"
      [] m.kind = "change" /\ m.blob = "parsed" /\ m.obj # Hook /\ m.do_persist -> "fetchState"
      [] OTHER -> "idle"

\* A message is received and handled up to the first await.
Receive(c, m) ==
    LET heard == [client[c] EXCEPT !.messages = @ + 1, !.orderly = @ /\ Proper(c, m),
                                   !.loaded = @ \/ Introduces(m)]
        w == IF Begins(m) = "idle" THEN NoWork ELSE Working(c, m)
    IN  /\ handler[c].stage = "idle"
        /\ ~client[c].left
        /\ client[c].messages < MaxMessages
        /\ UNCHANGED <<setup, nodes, refs, objs, mode, crashes>>
        /\ \/ /\ Rejected(c, m) \/ Raises(c, m)
              /\ client' = [client EXCEPT ![c] =
                              [NoClient EXCEPT !.messages = heard.messages,
                                               !.orderly = heard.orderly,
                                               !.end = EndBy(c, m)]]
              /\ Goes(c, "closed", NoWork)
           \/ /\ ~Rejected(c, m) /\ ~Raises(c, m)
              /\ client' = [client EXCEPT ![c] =
                              [heard EXCEPT !.prefix = @ \/ Learns(c, m),
                                            !.locks = Locks(c, m)]]
              /\ handler' = [d \in Conn |->
                   IF d = c THEN [stage |-> Begins(m), work |-> w]
                   ELSE IF w.obj # None /\ d \in UnderWayOn(w.obj)
                        THEN [handler[d] EXCEPT !.work.company = @ \cup {c}]
                        ELSE handler[d]]

\* The age node is fetched.
JoinAge(c) ==
    /\ handler[c].stage = "joinAge"
    /\ \/ age = "absent" /\ Fails(c, "protocol")
       \/ /\ age # "absent"
          /\ Goes(c, "joinInfo", handler[c].work)
          /\ UNCHANGED <<setup, nodes, refs, objs, mode, client, crashes>>

\* The Age Info node is found, fetched and compared with the age node.
JoinInfo(c) ==
    /\ handler[c].stage = "joinInfo"
    /\ \/ age # "whole" /\ Fails(c, "protocol")
       \/ /\ age = "whole"
          /\ client' = [client EXCEPT ![c].joined = TRUE]
          /\ Finishes(c)
          /\ UNCHANGED <<setup, nodes, refs, objs, mode, crashes>>

-----------------------------------------------------------------------------
(* A change of the state of the AgeSDLHook, and of another object.         *)

FindNode(c) ==
    /\ handler[c].stage = "findNode"
    /\ IF Found = 0 THEN Goes(c, "createNode", handler[c].work)
                    ELSE Goes(c, "fetchNode", [handler[c].work EXCEPT !.node = Found])
    /\ UNCHANGED <<setup, nodes, refs, objs, mode, client, crashes>>

\* A mutant: the number of nodes before the creation.
NewNodeStale == Len(nodes)

NewNode == Len(nodes) + 1

CreateNode(c) ==
    /\ handler[c].stage = "createNode"
    /\ nodes' = Append(nodes, NoBlob)
    /\ Goes(c, "refNode", [handler[c].work EXCEPT !.node = NewNode])
    /\ UNCHANGED <<setup, refs, objs, mode, client, crashes>>

RefNode(c) ==
    /\ handler[c].stage = "refNode"
    /\ refs' = refs \cup {handler[c].work.node}
    /\ Goes(c, "fetchNode", handler[c].work)
    /\ UNCHANGED <<setup, nodes, objs, mode, client, crashes>>

\* What was saved is fetched and the change laid over it, if the headers agree.
\* Both are guesses at a structure: the result may not be parsed again as it was
\* written, which drops the change, or raise another exception than a ValueError,
\* which nobody catches (SdlStore models the guesses).
Fetched(c, blob, stage) ==
    \/ /\ Applies(blob, handler[c].work)
       /\ Goes(c, stage, [handler[c].work EXCEPT !.fetched = blob])
       /\ UNCHANGED <<setup, nodes, refs, objs, mode, client, crashes>>
    \/ /\ IsBlob(blob)
       /\ Finishes(c)
       /\ UNCHANGED <<setup, nodes, refs, objs, mode, client, crashes>>
    \/ IsBlob(blob) /\ Fails(c, "blob")

FetchNode(c) ==
    handler[c].stage = "fetchNode" /\ Fetched(c, nodes[handler[c].work.node], "updateNode")

FetchState(c) ==
    handler[c].stage = "fetchState" /\ Fetched(c, objs[handler[c].work.obj], "saveState")

UpdateNode(c) ==
    LET w == handler[c].work
    IN  /\ handler[c].stage = "updateNode"
        /\ nodes' = [nodes EXCEPT ![w.node] = Stored(@, Applied(w, c))]
        /\ Finishes(c)
        /\ UNCHANGED <<setup, refs, objs, mode, client, crashes>>

SaveState(c) ==
    LET w == handler[c].work
    IN  /\ handler[c].stage = "saveState"
        /\ objs' = [objs EXCEPT ![w.obj] = Stored(@, Applied(w, c))]
        /\ Finishes(c)
        /\ UNCHANGED <<setup, nodes, refs, mode, client, crashes>>

-----------------------------------------------------------------------------
(* A request for the state.                                                *)

RequestFind(c) ==
    /\ handler[c].stage = "requestFind"
    /\ IF Found = 0 THEN Goes(c, "requestExecute", handler[c].work)
                    ELSE Goes(c, "requestFetch", [handler[c].work EXCEPT !.node = Found])
    /\ UNCHANGED <<setup, nodes, refs, objs, mode, client, crashes>>

Sending(w, o, blob) ==
    [w EXCEPT !.count = @ + 1, !.sent = @ \cup {<<o, blob.saves>>}]

\* The node's blob is sent, if it has one, as the state of age_sdl_hook_uoid.
RequestFetch(c) ==
    LET w == handler[c].work
        blob == nodes[w.node]
    IN  /\ handler[c].stage = "requestFetch"
        /\ \/ IsBlob(blob) /\ ~client[c].prefix /\ Fails(c, "uncaught")
           \/ /\ IsBlob(blob) => client[c].prefix
              /\ Goes(c, "requestExecute", IF IsBlob(blob) THEN Sending(w, Hook, blob) ELSE w)
              /\ UNCHANGED <<setup, nodes, refs, objs, mode, client, crashes>>

\* A mutant: a row is passed over.
NextRowButOne(o) ==
    LET rest == {p \in Object : p > o + 1 /\ IsBlob(objs[p])}
    IN  IF rest = {} THEN None ELSE Min(rest)

\* The next row in the order of the table's primary key.
NextRow(o) ==
    LET rest == {p \in Object : p > o /\ IsBlob(objs[p])}
    IN  IF rest = {} THEN None ELSE Min(rest)

Reading(w, row) ==
    [w EXCEPT !.row = row, !.blob = IF row = None THEN NoBlob ELSE objs[row]]

\* execute and fetchone read a row ahead of the one that is returned.
RequestExecute(c) ==
    /\ handler[c].stage = "requestExecute"
    /\ Goes(c, "requestRows", Reading(handler[c].work, NextRow(0)))
    /\ UNCHANGED <<setup, nodes, refs, objs, mode, client, crashes>>

RequestRow(c) ==
    LET w == handler[c].work
    IN  /\ handler[c].stage = "requestRows" /\ w.row # None
        /\ Goes(c, "requestRows", Reading(Sending(w, w.row, w.blob), NextRow(w.row)))
        /\ UNCHANGED <<setup, nodes, refs, objs, mode, client, crashes>>

\* The number of states is reported.
RequestDone(c) ==
    /\ handler[c].stage = "requestRows" /\ handler[c].work.row = None
    /\ Finishes(c)
    /\ UNCHANGED <<setup, nodes, refs, objs, mode, client, crashes>>

-----------------------------------------------------------------------------
Handle(c) ==
    \/ JoinAge(c) \/ JoinInfo(c)
    \/ FindNode(c) \/ CreateNode(c) \/ RefNode(c) \/ FetchNode(c) \/ UpdateNode(c)
    \/ FetchState(c) \/ SaveState(c)
    \/ RequestFind(c) \/ RequestFetch(c) \/ RequestExecute(c)
    \/ RequestRow(c) \/ RequestDone(c)

\* create_age_instance goes on until the age can be joined, when the Age Info node
\* is linked.  A call that a crash has stopped is not continued by a later one, which
\* sets up another instance or finds this one.
SetUpAge ==
    /\ age = "absent" \/ (age = "unfit" /\ building)
    /\ age' = IF age = "absent" THEN "unfit" ELSE "whole"
    /\ building' = TRUE
    /\ UNCHANGED <<own, nodes, refs, objs, mode, client, handler, crashes>>

\* Then it makes an SDL node of its own, and links it, whether or not there is
\* another one by then.
CreateOwnNode ==
    /\ building /\ age = "whole" /\ own = 0
    /\ nodes' = Append(nodes, NoBlob)
    /\ own' = NewNode
    /\ UNCHANGED <<age, building, refs, objs, mode, client, handler, crashes>>

RefOwnNode ==
    /\ building /\ own # 0 /\ own \notin refs
    /\ refs' = refs \cup {own}
    /\ building' = FALSE
    /\ UNCHANGED <<age, own, nodes, objs, mode, client, handler, crashes>>

Crash ==
    /\ crashes < MaxCrashes
    /\ crashes' = crashes + 1
    /\ client' = [c \in Conn |-> Ended(c, "crash")]
    /\ handler' = [c \in Conn |-> [stage |-> "closed", work |-> NoWork]]
    /\ building' = FALSE
    /\ UNCHANGED <<age, own, nodes, refs, objs, mode>>

Next ==
    \/ \E c \in Conn : \/ Connect(c) \/ Leave(c) \/ NoticeLeave(c) \/ Handle(c)
                       \/ \E m \in Message : Receive(c, m)
    \/ SetUpAge \/ CreateOwnNode \/ RefOwnNode
    \/ Crash

Spec == Init /\ [][Next]_vars

-----------------------------------------------------------------------------
(* What must hold.                                                         *)

\* A variable of a saved state changes only when a change is saved that names
\* it, or the change saved has overlapped with another one of the same object:
\* the blob is fetched, changed and saved (or the SDL node looked for, created
\* and referenced) in calls between which others can do the same
\* (NetMessageSDLState.handle).  The one exception needs no other client: the
\* auth server links the SDL node it made while it set the age up, and hides the
\* node, made later, that a change was saved in meanwhile (create_age_instance).
ChangesNeedCompany ==
    [][\A o \in Target, v \in Var :
          \/ /\ Saved(o)'.vars[v] = Saved(o).vars[v]
             /\ IsBlob(Saved(o)) => IsBlob(Saved(o)')
          \/ o = Hook /\ own \in refs' \ refs /\ own < Found
          \/ \E c \in Conn : /\ handler[c].work.obj = o
                            /\ handler'[c] # handler[c]
                            /\ \/ v \in handler[c].work.vars
                               \/ handler[c].work.company # {}]_vars

\* When the number of states is reported, every state that was saved when the
\* request came has been sent, as it was then or later, each once, and the
\* number is that of the states sent.  Others save while the rows are read, and
\* add nodes while the node is looked for (NetMessageGameStateRequest.handle).
RequestComplete ==
    \A c \in Conn :
        LET w == handler[c].work
        IN  handler[c].stage = "requestRows" /\ w.row = None =>
              /\ w.count = Cardinality({s[1] : s \in w.sent})
              /\ \A state \in w.owed :
                    \/ state[1] = Hook /\ Cardinality(refs) > 1
                    \/ \E s \in w.sent : s[1] = state[1] /\ s[2] >= state[2]

\* A client that joins the age and loads its avatar in it first is not cut off,
\* whatever else it sends and whichever messages are parsed, but by the guesses at
\* SDL blobs, at the one it sends or at its change laid over what is saved: the
\* prefix that a request or the AgeSDLHook needs is known by then, and a wrapped
\* message that cannot be parsed does no harm.
OrderlyClientsSurvive ==
    \A c \in Conn : client[c].orderly => client[c].end \in {"none", "left", "crash", "blob"}
=============================================================================
