---------------------------- MODULE VaultNotify ----------------------------
(***************************************************************************)
(* Which clients are told about a change of the vault: the loops over      *)
(* auth_connections that end update_vault_node, delete_vault_node,         *)
(* add_vault_node_ref and remove_vault_node_ref (src/nagus/state.py), and  *)
(* the requests that make a client care about a node                       *)
(* (src/nagus/auth_server.py).                                             *)
(*                                                                         *)
(* Such a loop awaits every message.  The await only gives up the event    *)
(* loop if the client's transport is closing or closed, as it is while a   *)
(* disconnected session is kept, so turn is the call whose loop has not    *)
(* yielded; when it does, sessions come and go and the dictionary that is  *)
(* being iterated over changes.  See Replay for the transport.             *)
(***************************************************************************)
EXTENDS Naturals, Sequences, FiniteSets

CONSTANTS
    Session,    \* sessions, by their tokens
    Call,       \* calls of the four methods
    Node,
    None

NamesAssumption == None \notin Session \cup Call \cup Node

ASSUME NamesAssumption

VARIABLES
    slots,      \* auth_connections in the order of insertion, deleted keys as None
    link,       \* what the transport and reader of a session's connection know
    care,       \* cares_about_vault_nodes, and what it followed, see below
    reading,    \* the request of a session's handler that waits for the vault
    exists,     \* nodes that are in the vault
    view,       \* what was read for a client last: the node as it is, or older,
                \* of which the client was told or not
    call,
    turn        \* the call whose loop has the event loop, or None

vars == <<slots, link, care, reading, exists, view, call, turn>>

\* A client may care because it asked for a node (or changed it), or because
\* references to it were read: it was entered before, or after, the read.
Care == {"no", "before", "after"}

Registered(s) == \E i \in DOMAIN slots : slots[i] = s

Size == Cardinality({i \in DOMAIN slots : slots[i] # None})

NoCall == [kind |-> "none", node |-> None, stage |-> "idle", pos |-> 1, size |-> 0,
           to |-> None, missed |-> {}, lost |-> FALSE]

CallState == [kind : {"none", "change", "delete"}, node : Node \cup {None},
              stage : {"idle", "vault", "committed", "loop", "writing",
                       "answered", "refused", "cut"},
              pos : Nat, size : Nat, to : Session \cup {None},
              missed : SUBSET Session, lost : BOOLEAN]

TypeOK ==
    /\ slots \in Seq(Session \cup {None})
    /\ link \in [Session -> {"none", "up", "left", "closed", "pipe"}]
    /\ care \in [Session -> [Node -> Care]]
    /\ reading \in [Session -> Node \cup {None}]
    /\ exists \subseteq Node
    /\ view \in [Session -> [Node -> {"none", "latest", "old", "told"}]]
    /\ call \in [Call -> CallState]
    /\ \A t \in Call : ~call[t].lost => call[t].pos \in 1..Len(slots) + 1
    /\ turn \in Call \cup {None}

Init ==
    /\ slots = <<>>
    /\ link = [s \in Session |-> "none"]
    /\ care = [s \in Session |-> [n \in Node |-> "no"]]
    /\ reading = [s \in Session |-> None]
    /\ exists = Node
    /\ view = [s \in Session |-> [n \in Node |-> "none"]]
    /\ call = [t \in Call |-> NoCall]
    /\ turn = None

clientVars == <<care, reading, view>>

-----------------------------------------------------------------------------
(* Sessions come and go, as AuthSessions has it in detail.                 *)

\* A dictionary that is full is rebuilt by the next insertion, without the keys
\* that were deleted; an iterator that is under way does not notice.
Rebuilt(q) ==
    /\ \A i \in DOMAIN q : Registered(q[i])
    /\ \A i, j \in DOMAIN q : i < j =>
           \E k, l \in DOMAIN slots : k < l /\ slots[k] = q[i] /\ slots[l] = q[j]

Suspended(t) == call[t].stage = "writing"

Connect(s) ==
    /\ turn = None /\ link[s] = "none"
    /\ link' = [link EXCEPT ![s] = "up"]
    /\ \/ slots' = Append(slots, s) /\ UNCHANGED call
       \/ \E q \in [1..Size -> Session] :
             /\ q # slots /\ Rebuilt(q)
             /\ slots' = Append(q, s)
             /\ call' = [t \in Call |->
                    IF Suspended(t) THEN [call[t] EXCEPT !.lost = TRUE] ELSE call[t]]
    /\ UNCHANGED <<clientVars, exists, turn>>

Leave(s) ==
    /\ link[s] = "up"
    /\ link' = [link EXCEPT ![s] = "left"]
    /\ UNCHANGED <<slots, clientVars, exists, call, turn>>

\* The handler ends; its state is kept for the timeout.  (A connection that was
\* reset takes a message at once, like one that was left.)
Notice(s) ==
    /\ turn = None /\ link[s] = "left"
    /\ \E how \in {"closed", "pipe"} : link' = [link EXCEPT ![s] = how]
    /\ reading' = [reading EXCEPT ![s] = None]
    /\ UNCHANGED <<slots, care, view, exists, call, turn>>

\* The client is back with its token: the key stays, the value is another one.
Return(s) ==
    /\ turn = None /\ Registered(s) /\ link[s] \in {"closed", "pipe"}
    /\ link' = [link EXCEPT ![s] = "up"]
    /\ UNCHANGED <<slots, clientVars, exists, call, turn>>

\* _clean_up_now after the timeout, or a kick.  Nobody looks at the state that
\* the session's handler and a suspended loop may still have.
Discard(s) ==
    /\ turn = None /\ Registered(s)
    /\ slots' = [i \in DOMAIN slots |-> IF slots[i] = s THEN None ELSE slots[i]]
    /\ link' = [link EXCEPT ![s] = "closed"]
    /\ reading' = [reading EXCEPT ![s] = None]
    /\ care' = [care EXCEPT ![s] = [n \in Node |-> "no"]]
    /\ view' = [view EXCEPT ![s] = [n \in Node |-> "none"]]
    /\ UNCHANGED <<exists, call, turn>>

-----------------------------------------------------------------------------
(* Requests that read.                                                     *)

\* vault_node_fetch, up to its await.
Fetch(s, n) ==
    /\ turn = None /\ link[s] = "up" /\ Registered(s) /\ reading[s] = None
    /\ care' = [care EXCEPT ![s][n] = "before"]
    /\ reading' = [reading EXCEPT ![s] = n]
    /\ UNCHANGED <<slots, link, view, exists, call, turn>>

\* The vault's thread reads the node.
FetchReads(s) ==
    /\ reading[s] # None
    /\ reading' = [reading EXCEPT ![s] = None]
    /\ view' = [view EXCEPT ![s][reading[s]] = "latest"]
    /\ UNCHANGED <<slots, link, care, exists, call, turn>>

\* vault_fetch_node_refs, which cares when it has read all; its awaits change
\* nothing.
FetchRefs(s, n) ==
    /\ turn = None /\ link[s] = "up" /\ Registered(s) /\ reading[s] = None
    /\ care' = [care EXCEPT ![s][n] = IF @ = "no" THEN "after" ELSE @]
    /\ UNCHANGED <<slots, link, reading, view, exists, call, turn>>

-----------------------------------------------------------------------------
(* Calls that write, made by the handler of a session, which cares about    *)
(* the node then, or by a task or for another purpose.                     *)

Ask(t, kind, n) ==
    /\ turn = None /\ call[t] = NoCall
    /\ call' = [call EXCEPT ![t] = [@ EXCEPT !.kind = kind, !.node = n, !.stage = "vault"]]
    /\ \/ UNCHANGED care
       \/ \E s \in Session :
             /\ kind = "change" /\ link[s] = "up" /\ Registered(s) /\ reading[s] = None
             /\ care' = [care EXCEPT ![s][n] = "before"]
    /\ UNCHANGED <<slots, link, reading, view, exists, turn>>

\* VaultDb has the jobs of which this is the last one.
Write(t) ==
    LET n == call[t].node
    IN  /\ call[t].stage = "vault"
        /\ IF n \in exists
             THEN /\ view' = [s \in Session |->
                        [view[s] EXCEPT ![n] = IF @ = "none" THEN @ ELSE "old"]]
                  /\ exists' = IF call[t].kind = "delete" THEN exists \ {n} ELSE exists
                  /\ call' = [call EXCEPT
                        ![t].stage = "committed",
                        ![t].missed = {s \in Session : Registered(s) /\ care[s][n] # "no"}]
             ELSE /\ call' = [call EXCEPT ![t] = [@ EXCEPT !.stage = "refused"]]
                  /\ UNCHANGED <<exists, view>>
        /\ UNCHANGED <<slots, link, care, reading, turn>>

\* "for conn in self.auth_connections.values()" begins.
StartLoop(t) ==
    /\ turn = None /\ call[t].stage = "committed"
    /\ call' = [call EXCEPT ![t] = [@ EXCEPT !.stage = "loop", !.size = Size]]
    /\ turn' = t
    /\ UNCHANGED <<slots, link, clientVars, exists>>

\* What is left of the dictionary at or after the iterator's position.
Rest(t) == {i \in DOMAIN slots : i >= call[t].pos /\ slots[i] # None}

\* A dictionary's iterator raises when the dictionary has changed its size.
Changed(t) == Size # call[t].size

\* The loop is at slot i.
At(t, i) == turn = t /\ ~Changed(t) /\ i \in Rest(t) /\ \A j \in Rest(t) : i <= j

\* A mutant: one client is left out.
AfterSkipping(i) == i + 2

After(i) == i + 1

\* A mutant: who is away is not told.
CaresIfConnected(t, s) == care[s][call[t].node] # "no" /\ link[s] \in {"up", "left"}

Cares(t, s) == care[s][call[t].node] # "no"

\* s was told; delete_vault_node forgets the node at once.
Told(t, s) ==
    LET n == call[t].node
    IN  /\ view' = [view EXCEPT ![s][n] = IF @ = "old" THEN "told" ELSE @]
        /\ care' = IF call[t].kind = "delete" THEN [care EXCEPT ![s][n] = "no"] ELSE care

Passes(t, i) ==
    /\ At(t, i) /\ ~Cares(t, slots[i])
    /\ call' = [call EXCEPT ![t] = [@ EXCEPT !.pos = After(i)]]
    /\ UNCHANGED <<slots, link, clientVars, exists, turn>>

\* The message is written, or remembered, or given to a socket that is dead.
Tells(t, i) ==
    /\ At(t, i) /\ Cares(t, slots[i])
    /\ link[slots[i]] \in {"up", "left"}
    /\ Told(t, slots[i])
    /\ call' = [call EXCEPT ![t] = [@ EXCEPT !.missed = call[t].missed \ {slots[i]}, !.pos = After(i)]]
    /\ UNCHANGED <<slots, link, reading, exists, turn>>

\* drain yields, since the transport is closing.
Suspends(t, i) ==
    /\ At(t, i) /\ Cares(t, slots[i])
    /\ link[slots[i]] \in {"left", "closed"}
    /\ call' = [call EXCEPT ![t] = [@ EXCEPT !.stage = "writing", !.to = slots[i], !.pos = After(i)]]
    /\ turn' = None
    /\ UNCHANGED <<slots, link, clientVars, exists>>

\* The message is remembered in the session, whatever became of it meanwhile.
Resumes(t) ==
    /\ turn = None /\ call[t].stage = "writing"
    /\ Told(t, call[t].to)
    /\ call' = [call EXCEPT ![t] = [@ EXCEPT !.missed = call[t].missed \ {call[t].to}, !.to = None, !.stage = "loop"]]
    /\ turn' = t
    /\ UNCHANGED <<slots, link, reading, exists>>

Over(t, how) == [call EXCEPT ![t] = [@ EXCEPT !.stage = how, !.pos = 1, !.size = 0]]

\* The iterator raises, or a socket's error that is not ConnectionResetError
\* does: the change is written, but the call fails.
CutShort(t) ==
    /\ turn = t
    /\ \/ Changed(t)
       \/ \E i \in DOMAIN slots : At(t, i) /\ Cares(t, slots[i]) /\ link[slots[i]] = "pipe"
    /\ call' = Over(t, "cut")
    /\ turn' = None
    /\ UNCHANGED <<slots, link, clientVars, exists>>

EndLoop(t) ==
    /\ turn = t /\ ~Changed(t) /\ Rest(t) = {}
    /\ call' = Over(t, "answered")
    /\ turn' = None
    /\ UNCHANGED <<slots, link, clientVars, exists>>

LoopStep(t) ==
    \/ \E i \in DOMAIN slots : Passes(t, i) \/ Tells(t, i) \/ Suspends(t, i)
    \/ Resumes(t) \/ CutShort(t) \/ EndLoop(t)

Next ==
    \/ \E s \in Session :
          \/ Connect(s) \/ Leave(s) \/ Notice(s) \/ Return(s) \/ Discard(s)
          \/ \E n \in Node : Fetch(s, n) \/ FetchRefs(s, n)
          \/ FetchReads(s)
    \/ \E t \in Call :
          \/ \E kind \in {"change", "delete"}, n \in Node : Ask(t, kind, n)
          \/ Write(t) \/ StartLoop(t) \/ LoopStep(t)

Spec == Init /\ [][Next]_vars
-----------------------------------------------------------------------------
(* Properties.                                                             *)

\* A change that was reported as done was announced to every client that cared
\* about the node when it was committed and that the server still knows, or the
\* node was deleted meanwhile: connections that come, go, return or are
\* replaced while the loop over auth_connections waits hide nobody, as long as
\* the dictionary is not rebuilt under the loop.
AnsweredMeansTold ==
    \A t \in Call : call[t].stage = "answered" /\ ~call[t].lost =>
        \A s \in call[t].missed :
            Registered(s) => call[t].kind = "change" /\ call[t].node \notin exists

\* A loop over the clients is yet to come, under way, failed or gone astray.
Unannounced(n) ==
    \E t \in Call :
        /\ call[t].node = n
        /\ call[t].stage \in {"committed", "loop", "writing", "cut"} \/ call[t].lost

\* What was read for a client that cared about the node before the read is the
\* node as it is, or the client was told since: vault_node_fetch cares first and
\* reads then, and no change falls between the two.  (vault_fetch_node_refs has
\* it the other way round.)
KnowsOrTold ==
    \A s \in Session, n \in Node :
        Registered(s) /\ care[s][n] = "before" /\ ~Unannounced(n) => view[s][n] # "old"
=============================================================================
