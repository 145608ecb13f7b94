-------------------------- MODULE VaultNotify_proofs --------------------------
(* A change that was answered was announced to everybody who cared, for any *)
(* number of sessions, calls and nodes.                                     *)
EXTENDS VaultNotify, FiniteSetTheorems, SequenceTheorems, TLAPS

(***************************************************************************)
(* The inductive invariant.  What a loop has not told yet is still ahead   *)
(* of it in the dictionary, or is the client it is writing to.  A client   *)
(* that was to be told and no longer cares had the node deleted under it.  *)
(***************************************************************************)
Past(t) == call[t].stage \in {"committed", "loop", "writing", "answered", "cut"}

Excused(t) == call[t].kind = "change" /\ call[t].node \notin exists

\* Whose loop runs, and where the others are.
Iterators ==
    /\ \A t \in Call : call[t].stage = "loop" <=> turn = t
    /\ \A t \in Call : call[t].stage \notin {"loop", "writing"} => call[t].pos = 1
    /\ \A t \in Call : call[t].stage = "writing" => call[t].to \in Session
    /\ \A t \in Call : call[t].stage # "idle" =>
           call[t].node \in Node /\ call[t].kind \in {"change", "delete"}

\* A node is deleted once.
Deletions ==
    /\ \A t \in Call : Past(t) /\ call[t].kind = "delete" => call[t].node \notin exists
    /\ \A t, u \in Call :
           /\ Past(t) /\ call[t].kind = "delete"
           /\ Past(u) /\ call[u].kind = "delete"
           /\ call[t].node = call[u].node
           => t = u

\* A token is used once.
Tokens == \A s \in Session : Registered(s) => link[s] # "none"

Ahead(t, s) == \E i \in DOMAIN slots : i >= call[t].pos /\ slots[i] = s

\* What is known of those whom the call of t did not tell yet.
Untold(t) ==
    /\ \A s \in call[t].missed : link[s] # "none"
    /\ call[t].stage \in {"committed", "loop", "writing"} =>
           \A s \in call[t].missed :
               Registered(s) => care[s][call[t].node] # "no" \/ Excused(t)
    /\ call[t].stage \in {"loop", "writing"} /\ ~call[t].lost =>
           \A s \in call[t].missed :
               Registered(s) =>
                   \/ Ahead(t, s)
                   \/ call[t].stage = "writing" /\ call[t].to = s
                   \/ Excused(t)
    /\ call[t].stage = "answered" /\ ~call[t].lost =>
           \A s \in call[t].missed : Registered(s) => Excused(t)

NotifyInv ==
    /\ TypeOK /\ Iterators /\ Deletions /\ Tokens
    /\ \A t \in Call : Untold(t)

-----------------------------------------------------------------------------
\* The number of keys of the dictionary.
LEMMA SizeType == slots \in Seq(Session \cup {None}) => Size \in Nat
<1> SUFFICES ASSUME slots \in Seq(Session \cup {None})
             PROVE  Size \in Nat
  OBVIOUS
<1> DEFINE Keys == {i \in DOMAIN slots : slots[i] # None}
<1>1. DOMAIN slots = 1..Len(slots) /\ Len(slots) \in Nat
  OBVIOUS
<1>2. IsFiniteSet(1..Len(slots))
  BY <1>1, FS_Interval
<1>3. IsFiniteSet(Keys)
  BY <1>1, <1>2, FS_Subset
<1> QED
  BY <1>3, FS_CardinalityType DEF Size

\* Rebuilding the dictionary and inserting a key makes a dictionary.
LEMMA RebuiltType ==
    ASSUME slots \in Seq(Session \cup {None}),
           NEW q \in [1..Size -> Session], NEW s \in Session
    PROVE  /\ Append(q, s) \in Seq(Session \cup {None})
           /\ Len(Append(q, s)) = Size + 1
           /\ \A i \in 1..Size : Append(q, s)[i] = q[i]
           /\ Append(q, s)[Size + 1] = s
<1>1. Size \in Nat
  BY SizeType
<1>2. q \in Seq(Session)
  BY <1>1, SeqDef
<1>3. Len(q) = Size
  BY <1>1, <1>2, LenProperties
<1> QED
  BY <1>1, <1>2, <1>3, AppendProperties

\* What is looked at in the dictionary is a session.
LEMMA SlotIsSession ==
    ASSUME TypeOK, NEW i \in DOMAIN slots, slots[i] # None
    PROVE  slots[i] \in Session /\ i \in 1..Len(slots)
BY DEF TypeOK

\* What a loop does to its client keeps the types.
LEMMA ToldType ==
    ASSUME TypeOK, NEW t \in Call, NEW s \in Session, call[t].node \in Node, Told(t, s)
    PROVE  /\ view' \in [Session -> [Node -> {"none", "latest", "old", "told"}]]
           /\ care' \in [Session -> [Node -> Care]]
BY DEF TypeOK, Told, Care

\* A step of a session keeps the types and does not move an iterator.
LEMMA SessionTypes ==
    ASSUME NamesAssumption, TypeOK, Iterators, NEW s \in Session,
           \/ Leave(s) \/ Notice(s) \/ Return(s) \/ Discard(s) \/ FetchReads(s)
           \/ \E n \in Node : Fetch(s, n) \/ FetchRefs(s, n)
    PROVE  TypeOK' /\ Iterators'
<1>1. CASE Leave(s)
  BY <1>1 DEF Leave, clientVars, TypeOK, Iterators
<1>2. CASE Notice(s)
  BY <1>2 DEF Notice, TypeOK, Iterators
<1>3. CASE Return(s)
  BY <1>3 DEF Return, clientVars, TypeOK, Iterators
<1>4. CASE Discard(s)
  <2>1. slots' \in Seq(Session \cup {None}) /\ Len(slots') = Len(slots)
    BY <1>4 DEF Discard, TypeOK
  <2>2. care' \in [Session -> [Node -> Care]]
    BY <1>4 DEF Discard, TypeOK, Care
  <2>3. view' \in [Session -> [Node -> {"none", "latest", "old", "told"}]]
    BY <1>4 DEF Discard, TypeOK
  <2>4. /\ link' \in [Session -> {"none", "up", "left", "closed", "pipe"}]
        /\ reading' \in [Session -> Node \cup {None}]
    BY <1>4 DEF Discard, TypeOK
  <2> QED
    BY <1>4, <2>1, <2>2, <2>3, <2>4 DEF Discard, TypeOK, Iterators
<1>5. CASE FetchReads(s)
  BY <1>5 DEF FetchReads, TypeOK, Iterators
<1>6. CASE \E n \in Node : Fetch(s, n) \/ FetchRefs(s, n)
  <2>1. PICK n \in Node : Fetch(s, n) \/ FetchRefs(s, n)
    BY <1>6
  <2>2. care' \in [Session -> [Node -> Care]]
    <3>1. CASE Fetch(s, n)
      BY <3>1 DEF Fetch, TypeOK, Care
    <3>2. CASE FetchRefs(s, n)
      <4> DEFINE c == IF care[s][n] = "no" THEN "after" ELSE care[s][n]
      <4>1. c \in Care
        BY DEF TypeOK, Care
      <4>2. care' = [care EXCEPT ![s][n] = c]
        BY <3>2 DEF FetchRefs
      <4> HIDE DEF c
      <4> QED
        BY <4>1, <4>2 DEF TypeOK
    <3> QED
      BY <2>1, <3>1, <3>2
  <2>3. reading' \in [Session -> Node \cup {None}]
    BY <2>1 DEF Fetch, FetchRefs, TypeOK
  <2>4. UNCHANGED <<slots, link, view, exists, call, turn>>
    BY <2>1 DEF Fetch, FetchRefs
  <2> QED
    BY <2>2, <2>3, <2>4 DEF TypeOK, Iterators
<1> QED
  BY <1>1, <1>2, <1>3, <1>4, <1>5, <1>6

\* A new session, with the dictionary rebuilt or not.
LEMMA ConnectTypes ==
    ASSUME NamesAssumption, TypeOK, Iterators, NEW s \in Session, Connect(s)
    PROVE  TypeOK' /\ Iterators'
<1>1. /\ link' \in [Session -> {"none", "up", "left", "closed", "pipe"}]
      /\ UNCHANGED <<care, reading, view, exists, turn>> /\ turn = None
  BY DEF Connect, clientVars, TypeOK
<1>2. CASE slots' = Append(slots, s) /\ UNCHANGED call
  <2>1. slots' \in Seq(Session \cup {None}) /\ Len(slots') = Len(slots) + 1
    BY <1>2 DEF TypeOK
  <2> QED
    BY <1>1, <1>2, <2>1 DEF TypeOK, Iterators
<1>3. CASE \E q \in [1..Size -> Session] :
             /\ q # slots /\ Rebuilt(q)
             /\ slots' = Append(q, s)
             /\ call' = [t \in Call |-> IF Suspended(t) THEN [call[t] EXCEPT !.lost = TRUE] ELSE call[t]]
  <2>0. PICK q \in [1..Size -> Session] : slots' = Append(q, s)
    BY <1>3
  <2>1. slots' \in Seq(Session \cup {None}) /\ Len(slots') = Size + 1 /\ Size \in Nat
    <3>1. slots \in Seq(Session \cup {None})
      BY DEF TypeOK
    <3> QED
      BY <2>0, <3>1, RebuiltType, SizeType
  <2>2. call' = [t \in Call |-> IF Suspended(t) THEN [call[t] EXCEPT !.lost = TRUE] ELSE call[t]]
    BY <1>3
  <2>4. call' \in [Call -> CallState]
    <3>1. ASSUME NEW t \in Call
          PROVE  (IF Suspended(t) THEN [call[t] EXCEPT !.lost = TRUE] ELSE call[t]) \in CallState
      BY ZenonT(30) DEF TypeOK, CallState
    <3> QED
      BY <2>2, <3>1
  <2>5. ASSUME NEW t \in Call
        PROVE  /\ call'[t].kind = call[t].kind /\ call'[t].node = call[t].node
               /\ call'[t].stage = call[t].stage /\ call'[t].pos = call[t].pos
               /\ call'[t].to = call[t].to
               /\ ~call'[t].lost => call[t].stage # "writing"
    <3>1. call'[t] = IF Suspended(t) THEN [call[t] EXCEPT !.lost = TRUE] ELSE call[t]
      BY <2>2
    <3>2. CASE Suspended(t)
      BY <3>1, <3>2 DEF TypeOK, CallState
    <3> QED
      BY <3>1, <3>2 DEF Suspended
  <2>6. \A t \in Call : ~call'[t].lost => call'[t].pos = 1
    BY <1>1, <2>5 DEF Iterators, NamesAssumption
  <2>7. \A t \in Call : ~call'[t].lost => call'[t].pos \in 1..Len(slots') + 1
    BY <2>1, <2>6
  <2>8. Iterators'
    BY <1>1, <2>5 DEF Iterators
  <2> QED
    BY <1>1, <2>1, <2>4, <2>7, <2>8 DEF TypeOK
<1> QED
  BY <1>2, <1>3 DEF Connect

\* A step of one call that takes the event loop from nobody.
Moves(t, c) ==
    /\ call' = [call EXCEPT ![t] = c] /\ UNCHANGED slots
    /\ turn' \in Call \cup {None} /\ \A u \in Call : u # t => (turn' = u <=> turn = u)
    /\ c.stage = "loop" <=> turn' = t
    /\ c.stage \notin {"loop", "writing"} => c.pos = 1
    /\ c.stage = "writing" => c.to \in Session
    /\ c.stage # "idle" => c.node \in Node /\ c.kind \in {"change", "delete"}
    /\ ~c.lost => c.pos \in 1..Len(slots) + 1

LEMMA OneCall ==
    ASSUME NamesAssumption, TypeOK, Iterators,
           NEW t \in Call, NEW c \in CallState, Moves(t, c)
    PROVE  /\ call' \in [Call -> CallState] /\ turn' \in Call \cup {None}
           /\ \A u \in Call : ~call'[u].lost => call'[u].pos \in 1..Len(slots') + 1
           /\ Iterators'
<1>1. call \in [Call -> CallState]
  BY DEF TypeOK
<1>2. \A u \in Call : call'[u] = IF u = t THEN c ELSE call[u]
  BY <1>1 DEF Moves
<1>3. call' \in [Call -> CallState]
  BY <1>1 DEF Moves
<1>4. \A u \in Call : ~call'[u].lost => call'[u].pos \in 1..Len(slots') + 1
  BY <1>2 DEF TypeOK, Moves
<1>5. \A u \in Call : call'[u].stage = "loop" <=> turn' = u
  BY <1>2 DEF Iterators, Moves
<1> QED
  BY <1>2, <1>3, <1>4, <1>5 DEF Iterators, Moves

\* Asking and writing keep the types.
LEMMA AskTypes ==
    ASSUME NamesAssumption, TypeOK, Iterators, NEW t \in Call,
           NEW kind \in {"change", "delete"}, NEW n \in Node, Ask(t, kind, n)
    PROVE  TypeOK' /\ Iterators'
<1>1. NoCall \in CallState /\ call[t] = NoCall /\ turn = None /\ None \notin Call
  BY DEF Ask, NoCall, CallState, NamesAssumption
<1>2. UNCHANGED <<slots, link, reading, view, exists, turn>>
  BY DEF Ask
<1>3. PICK c \in CallState : /\ c = [NoCall EXCEPT !.kind = kind, !.node = n, !.stage = "vault"]
                             /\ call' = [call EXCEPT ![t] = c]
  <2>1. [NoCall EXCEPT !.kind = kind, !.node = n, !.stage = "vault"] \in CallState
    BY DEF NoCall, CallState
  <2> QED
    BY <1>1, <2>1 DEF Ask
<1>4. c.kind = kind /\ c.node = n /\ c.stage = "vault" /\ c.pos = 1
  BY <1>3 DEF NoCall
<1>5. /\ call' \in [Call -> CallState] /\ turn' \in Call \cup {None}
      /\ \A u \in Call : ~call'[u].lost => call'[u].pos \in 1..Len(slots') + 1
      /\ Iterators'
  <2>1. slots \in Seq(Session \cup {None})
    BY DEF TypeOK
  <2> QED
    <3>1. Moves(t, c)
      BY <1>1, <1>2, <1>3, <1>4, <2>1 DEF Moves
    <3> QED
      BY <3>1, OneCall
<1>6. care' \in [Session -> [Node -> Care]]
  <2>1. CASE \E s \in Session : care' = [care EXCEPT ![s][n] = "before"]
    BY <2>1 DEF TypeOK, Care
  <2> QED
    BY <2>1 DEF Ask, TypeOK
<1> QED
  BY <1>2, <1>5, <1>6 DEF TypeOK

LEMMA WriteTypes ==
    ASSUME NamesAssumption, TypeOK, Iterators, NEW t \in Call, Write(t)
    PROVE  TypeOK' /\ Iterators'
<1> DEFINE n == call[t].node
           Listeners == {s \in Session : Registered(s) /\ care[s][n] # "no"}
           Aged == [s \in Session |->
                        [view[s] EXCEPT ![n] = IF @ = "none" THEN @ ELSE "old"]]
<1>1. /\ call[t] \in CallState /\ slots \in Seq(Session \cup {None})
      /\ view \in [Session -> [Node -> {"none", "latest", "old", "told"}]]
  BY DEF TypeOK
<1>2. /\ UNCHANGED <<slots, link, care, reading, turn>> /\ turn # t
      /\ turn \in Call \cup {None}
      /\ call[t].stage = "vault" /\ call[t].pos = 1 /\ n \in Node
      /\ call[t].kind \in {"change", "delete"}
  BY DEF Write, Iterators, TypeOK
<1>3. CASE n \in exists
  <2>1. PICK c \in CallState : c = [call[t] EXCEPT !.stage = "committed", !.missed = Listeners] /\ call' = [call EXCEPT ![t] = c]
    <3>1. [call[t] EXCEPT !.stage = "committed", !.missed = Listeners] \in CallState
      BY <1>1 DEF CallState
    <3> QED
      BY <3>1, <1>3, ZenonT(30) DEF Write
  <2>2. /\ c.kind = call[t].kind /\ c.node = n /\ c.stage = "committed" /\ c.pos = 1
        /\ c.lost = call[t].lost
    BY <1>1, <1>2, <2>1 DEF CallState
  <2>3. view' = Aged /\ exists' \subseteq exists
    BY <1>3 DEF Write
  <2>4. /\ call' \in [Call -> CallState] /\ turn' \in Call \cup {None}
        /\ \A u \in Call : ~call'[u].lost => call'[u].pos \in 1..Len(slots') + 1
        /\ Iterators'
    <3>1. Moves(t, c)
      BY <1>1, <1>2, <2>1, <2>2 DEF Moves
    <3> QED
      BY <3>1, OneCall
  <2>5. Aged \in [Session -> [Node -> {"none", "latest", "old", "told"}]]
    <3>1. ASSUME NEW s \in Session
          PROVE  [view[s] EXCEPT ![n] = IF @ = "none" THEN @ ELSE "old"]
                    \in [Node -> {"none", "latest", "old", "told"}]
      BY <1>1
    <3> QED
      BY <3>1
  <2> QED
    BY <1>2, <2>3, <2>4, <2>5 DEF TypeOK
<1>4. CASE n \notin exists
  <2>1. PICK c \in CallState : c = [call[t] EXCEPT !.stage = "refused"] /\ call' = [call EXCEPT ![t] = c]
    <3>1. [call[t] EXCEPT !.stage = "refused"] \in CallState
      BY <1>1 DEF CallState
    <3> QED
      BY <3>1, <1>4 DEF Write
  <2>2. c.kind = call[t].kind /\ c.node = n /\ c.stage = "refused" /\ c.pos = 1
    BY <1>1, <1>2, <2>1 DEF CallState
  <2>3. UNCHANGED <<exists, view>>
    BY <1>4 DEF Write
  <2>4. /\ call' \in [Call -> CallState] /\ turn' \in Call \cup {None}
        /\ \A u \in Call : ~call'[u].lost => call'[u].pos \in 1..Len(slots') + 1
        /\ Iterators'
    <3>1. Moves(t, c)
      BY <1>1, <1>2, <2>1, <2>2 DEF Moves
    <3> QED
      BY <3>1, OneCall
  <2> QED
    BY <1>2, <2>3, <2>4 DEF TypeOK
<1> QED
  BY <1>3, <1>4

\* The steps of a loop, each with what it does to its own call.
LEMMA LoopTypes ==
    ASSUME NamesAssumption, TypeOK, Iterators, NEW t \in Call,
           StartLoop(t) \/ LoopStep(t)
    PROVE  TypeOK' /\ Iterators'
<1>1. call[t] \in CallState /\ slots \in Seq(Session \cup {None}) /\ Len(slots) \in Nat
  BY DEF TypeOK
<1>2. /\ None \notin Call /\ t # None
      /\ turn = t => call[t].stage = "loop"
      /\ call[t].stage \in {"loop", "committed", "writing"} =>
            call[t].node \in Node /\ call[t].kind \in {"change", "delete"}
      /\ ~call[t].lost => call[t].pos \in 1..Len(slots) + 1
  BY DEF Iterators, TypeOK, NamesAssumption
<1>3. CASE StartLoop(t)
  <2>1. PICK c \in CallState : c = [call[t] EXCEPT !.stage = "loop", !.size = Size] /\ call' = [call EXCEPT ![t] = c]
    <3>1. [call[t] EXCEPT !.stage = "loop", !.size = Size] \in CallState
      BY <1>1, SizeType DEF CallState
    <3> QED
      BY <3>1, <1>3 DEF StartLoop
  <2>2. /\ c.kind = call[t].kind /\ c.node = call[t].node /\ c.stage = "loop"
        /\ c.pos = call[t].pos /\ c.lost = call[t].lost
    BY <1>1, <2>1 DEF CallState
  <2>3. /\ turn = None /\ turn' = t /\ call[t].stage = "committed"
        /\ UNCHANGED <<slots, link, care, reading, view, exists>>
    BY <1>3 DEF StartLoop, clientVars
  <2>4. /\ call' \in [Call -> CallState] /\ turn' \in Call \cup {None}
        /\ \A u \in Call : ~call'[u].lost => call'[u].pos \in 1..Len(slots') + 1
        /\ Iterators'
    <3>1. Moves(t, c)
      BY <1>1, <1>2, <2>1, <2>2, <2>3 DEF Moves
    <3> QED
      BY <3>1, OneCall
  <2> QED
    BY <2>3, <2>4 DEF TypeOK
<1>4. ASSUME NEW i \in DOMAIN slots, Passes(t, i)
      PROVE  TypeOK' /\ Iterators'
  <2>0. i \in 1..Len(slots) /\ i + 1 \in Nat
    BY <1>1
  <2>1. PICK c \in CallState : c = [call[t] EXCEPT !.pos = i + 1] /\ call' = [call EXCEPT ![t] = c]
    <3>1. [call[t] EXCEPT !.pos = i + 1] \in CallState
      BY <1>1, <2>0 DEF CallState
    <3> QED
      BY <3>1, <1>4 DEF Passes, After
  <2>2. /\ c.kind = call[t].kind /\ c.node = call[t].node /\ c.stage = call[t].stage
        /\ c.pos = i + 1
    BY <1>1, <2>1 DEF CallState
  <2>3. turn = t /\ UNCHANGED <<slots, link, care, reading, view, exists, turn>>
    BY <1>4 DEF Passes, At, clientVars
  <2>4. /\ call' \in [Call -> CallState] /\ turn' \in Call \cup {None}
        /\ \A u \in Call : ~call'[u].lost => call'[u].pos \in 1..Len(slots') + 1
        /\ Iterators'
    <3>1. Moves(t, c)
      BY <1>1, <1>2, <2>0, <2>1, <2>2, <2>3 DEF Moves
    <3> QED
      BY <3>1, OneCall
  <2> QED
    BY <2>3, <2>4 DEF TypeOK
<1>5. ASSUME NEW i \in DOMAIN slots, Tells(t, i)
      PROVE  TypeOK' /\ Iterators'
  <2>0. i \in 1..Len(slots) /\ i + 1 \in Nat
    BY <1>1
  <2>1. PICK c \in CallState : c = [call[t] EXCEPT !.missed = call[t].missed \ {slots[i]}, !.pos = i + 1] /\ call' = [call EXCEPT ![t] = c]
    <3>1. [call[t] EXCEPT !.missed = call[t].missed \ {slots[i]}, !.pos = i + 1] \in CallState
      BY <1>1, <2>0 DEF CallState
    <3> QED
      BY <3>1, <1>5 DEF Tells, After
  <2>2. /\ c.kind = call[t].kind /\ c.node = call[t].node /\ c.stage = call[t].stage
        /\ c.pos = i + 1
    BY <1>1, <2>1 DEF CallState
  <2>3. /\ turn = t /\ UNCHANGED <<slots, link, reading, exists, turn>>
        /\ slots[i] \in Session /\ Told(t, slots[i])
    BY <1>5, SlotIsSession DEF Tells, At, Rest
  <2>4. /\ call' \in [Call -> CallState] /\ turn' \in Call \cup {None}
        /\ \A u \in Call : ~call'[u].lost => call'[u].pos \in 1..Len(slots') + 1
        /\ Iterators'
    <3>1. Moves(t, c)
      BY <1>1, <1>2, <2>0, <2>1, <2>2, <2>3 DEF Moves
    <3> QED
      BY <3>1, OneCall
  <2>5. PICK s \in Session : s = slots[i] /\ Told(t, s)
    BY <2>3
  <2>6. /\ view' \in [Session -> [Node -> {"none", "latest", "old", "told"}]]
        /\ care' \in [Session -> [Node -> Care]]
    BY <1>2, <2>3, <2>5, ToldType
  <2> QED
    BY <2>3, <2>4, <2>6 DEF TypeOK
<1>6. ASSUME NEW i \in DOMAIN slots, Suspends(t, i)
      PROVE  TypeOK' /\ Iterators'
  <2>0. i \in 1..Len(slots) /\ i + 1 \in Nat
    BY <1>1
  <2>3. /\ turn = t /\ turn' = None
        /\ UNCHANGED <<slots, link, care, reading, view, exists>>
        /\ slots[i] \in Session
    BY <1>6, SlotIsSession DEF Suspends, At, Rest, clientVars
  <2>1. PICK c \in CallState : c = [call[t] EXCEPT !.stage = "writing", !.to = slots[i], !.pos = i + 1] /\ call' = [call EXCEPT ![t] = c]
    <3>1. [call[t] EXCEPT !.stage = "writing", !.to = slots[i], !.pos = i + 1] \in CallState
      BY <1>1, <2>0, <2>3 DEF CallState
    <3> QED
      BY <3>1, <1>6 DEF Suspends, After
  <2>2. /\ c.kind = call[t].kind /\ c.node = call[t].node /\ c.stage = "writing"
        /\ c.to = slots[i] /\ c.pos = i + 1
    BY <1>1, <2>1 DEF CallState
  <2>4. /\ call' \in [Call -> CallState] /\ turn' \in Call \cup {None}
        /\ \A u \in Call : ~call'[u].lost => call'[u].pos \in 1..Len(slots') + 1
        /\ Iterators'
    <3>1. Moves(t, c)
      BY <1>1, <1>2, <2>0, <2>1, <2>2, <2>3 DEF Moves
    <3> QED
      BY <3>1, OneCall
  <2> QED
    BY <2>3, <2>4 DEF TypeOK
<1>7. CASE Resumes(t)
  <2>1. PICK c \in CallState : c = [call[t] EXCEPT !.missed = call[t].missed \ {call[t].to}, !.to = None, !.stage = "loop"] /\ call' = [call EXCEPT ![t] = c]
    <3>1. [call[t] EXCEPT !.missed = call[t].missed \ {call[t].to}, !.to = None, !.stage = "loop"] \in CallState
      BY <1>1 DEF CallState
    <3> QED
      BY <3>1, <1>7 DEF Resumes
  <2>2. /\ c.kind = call[t].kind /\ c.node = call[t].node /\ c.stage = "loop"
        /\ c.pos = call[t].pos /\ c.lost = call[t].lost
    BY <1>1, <2>1 DEF CallState
  <2>3. /\ turn = None /\ turn' = t /\ UNCHANGED <<slots, link, reading, exists>>
        /\ call[t].stage = "writing" /\ call[t].to \in Session /\ Told(t, call[t].to)
    BY <1>7 DEF Resumes, Iterators
  <2>4. /\ call' \in [Call -> CallState] /\ turn' \in Call \cup {None}
        /\ \A u \in Call : ~call'[u].lost => call'[u].pos \in 1..Len(slots') + 1
        /\ Iterators'
    <3>1. Moves(t, c)
      BY <1>1, <1>2, <2>1, <2>2, <2>3 DEF Moves
    <3> QED
      BY <3>1, OneCall
  <2>5. PICK s \in Session : s = call[t].to /\ Told(t, s)
    BY <2>3
  <2>6. /\ view' \in [Session -> [Node -> {"none", "latest", "old", "told"}]]
        /\ care' \in [Session -> [Node -> Care]]
    BY <1>2, <2>3, <2>5, ToldType
  <2> QED
    BY <2>3, <2>4, <2>6 DEF TypeOK
<1>8. ASSUME NEW how \in {"cut", "answered"}, turn = t, call' = Over(t, how), turn' = None,
             UNCHANGED <<slots, link, clientVars, exists>>
      PROVE  TypeOK' /\ Iterators'
  <2>1. PICK c \in CallState : c = [call[t] EXCEPT !.stage = how, !.pos = 1, !.size = 0] /\ call' = [call EXCEPT ![t] = c]
    <3>1. [call[t] EXCEPT !.stage = how, !.pos = 1, !.size = 0] \in CallState
      BY <1>1 DEF CallState
    <3> QED
      BY <3>1, <1>8 DEF Over
  <2>2. c.kind = call[t].kind /\ c.node = call[t].node /\ c.stage = how /\ c.pos = 1
    BY <1>1, <2>1 DEF CallState
  <2>3. UNCHANGED <<slots, link, care, reading, view, exists>>
    BY <1>8 DEF clientVars
  <2>4. /\ call' \in [Call -> CallState] /\ turn' \in Call \cup {None}
        /\ \A u \in Call : ~call'[u].lost => call'[u].pos \in 1..Len(slots') + 1
        /\ Iterators'
    <3>1. Moves(t, c)
      BY <1>1, <1>2, <1>8, <2>1, <2>2, <2>3 DEF Moves
    <3> QED
      BY <3>1, OneCall
  <2> QED
    BY <1>8, <2>3, <2>4 DEF TypeOK
<1>9. CASE CutShort(t)
  BY <1>8, <1>9 DEF CutShort
<1>10. CASE EndLoop(t)
  BY <1>8, <1>10 DEF EndLoop
<1> QED
  BY <1>3, <1>4, <1>5, <1>6, <1>7, <1>9, <1>10 DEF LoopStep

\* The types, and where the loops are.
LEMMA Types ==
    ASSUME NamesAssumption, TypeOK, Iterators, [Next]_vars
    PROVE  TypeOK' /\ Iterators'
<1>1. CASE UNCHANGED vars
  BY <1>1 DEF vars, TypeOK, Iterators
<1> QED
  BY <1>1, SessionTypes, ConnectTypes, AskTypes, WriteTypes, LoopTypes DEF Next

-----------------------------------------------------------------------------
\* A call that does nothing but, perhaps, go astray.
Rests(t) ==
    /\ call'[t].kind = call[t].kind /\ call'[t].node = call[t].node
    /\ call'[t].stage = call[t].stage /\ call'[t].pos = call[t].pos
    /\ call'[t].to = call[t].to /\ call'[t].missed = call[t].missed
    /\ call[t].lost => call'[t].lost

\* Nobody is registered anew with a used token, and nothing is created.
Shrinks ==
    /\ exists' \subseteq exists
    /\ \A s \in Session : Registered(s)' /\ link[s] # "none" => Registered(s)
    /\ \A s \in Session : link[s] # "none" => link'[s] # "none"
    /\ \A s \in Session : Registered(s)' => link'[s] # "none"

LEMMA Resting ==
    ASSUME Shrinks, NEW t \in Call, Rests(t), Untold(t),
           \A s \in call[t].missed : s \in Session,
           call[t].stage \in {"committed", "loop", "writing"} =>
               \A s \in call[t].missed :
                   Registered(s)' /\ care[s][call[t].node] # "no" =>
                       care'[s][call[t].node] # "no" \/ Excused(t)',
           \/ call'[t].lost \/ call[t].stage \notin {"loop", "writing"}
           \/ \A s \in call[t].missed : Registered(s)' /\ Ahead(t, s) => Ahead(t, s)'
    PROVE  Untold(t)'
<1>1. Excused(t) => Excused(t)'
  BY DEF Shrinks, Rests, Excused
<1>2. \A s \in call[t].missed : Registered(s)' => Registered(s)
  BY DEF Shrinks, Untold
<1>3. \A s \in call'[t].missed : link'[s] # "none"
  BY DEF Shrinks, Untold, Rests
<1>4. call'[t].stage \in {"committed", "loop", "writing"} =>
           \A s \in call'[t].missed :
               Registered(s)' => care'[s][call'[t].node] # "no" \/ Excused(t)'
  BY <1>1, <1>2 DEF Untold, Rests
<1>5. call'[t].stage \in {"loop", "writing"} /\ ~call'[t].lost =>
           \A s \in call'[t].missed :
               Registered(s)' =>
                   \/ Ahead(t, s)'
                   \/ call'[t].stage = "writing" /\ call'[t].to = s
                   \/ Excused(t)'
  BY <1>1, <1>2 DEF Untold, Rests
<1>6. call'[t].stage = "answered" /\ ~call'[t].lost =>
           \A s \in call'[t].missed : Registered(s)' => Excused(t)'
  BY <1>1, <1>2 DEF Untold, Rests
<1> QED
  BY <1>3, <1>4, <1>5, <1>6 DEF Untold

\* Calls that rest delete nothing.
LEMMA RestingDeletions ==
    ASSUME Deletions, exists' \subseteq exists, \A t \in Call : Rests(t)
    PROVE  Deletions'
BY DEF Deletions, Rests, Past

\* Sessions that come, go and ask.
LEMMA SessionStep ==
    ASSUME NamesAssumption, NotifyInv, NEW s \in Session,
           \/ Leave(s) \/ Notice(s) \/ Return(s) \/ FetchReads(s)
           \/ \E n \in Node : Fetch(s, n) \/ FetchRefs(s, n)
    PROVE  Deletions' /\ Tokens' /\ \A t \in Call : Untold(t)'
<1>1. UNCHANGED <<slots, exists, call>>
  BY DEF Leave, Notice, Return, FetchReads, Fetch, FetchRefs
<1>2. \A x \in Session : link[x] # "none" => link'[x] # "none"
  BY DEF Leave, Notice, Return, FetchReads, Fetch, FetchRefs, NotifyInv, TypeOK
<1>3. \A x \in Session, n \in Node : care[x][n] # "no" => care'[x][n] # "no"
  <2>1. CASE UNCHANGED care
    BY <2>1
  <2>2. ASSUME NEW n \in Node, Fetch(s, n) \/ FetchRefs(s, n)
        PROVE  \A x \in Session, m \in Node : care[x][m] # "no" => care'[x][m] # "no"
    BY <2>2 DEF Fetch, FetchRefs, NotifyInv, TypeOK
  <2> QED
    BY <2>1, <2>2 DEF Leave, Notice, Return, FetchReads, clientVars
<1>4. Shrinks
  BY <1>1, <1>2 DEF Shrinks, Registered, NotifyInv, Tokens
<1>5. \A t \in Call : Rests(t)
  BY <1>1 DEF Rests
<1>6. ASSUME NEW t \in Call
      PROVE  Untold(t)'
  <2>1. \A x \in call[t].missed : x \in Session
    BY DEF NotifyInv, TypeOK, CallState
  <2>2. Untold(t)
    BY DEF NotifyInv
  <2>3. call[t].stage # "idle" =>
           \A x \in call[t].missed :
               care[x][call[t].node] # "no" => care'[x][call[t].node] # "no"
    BY <1>3, <2>1 DEF NotifyInv, Iterators
  <2> QED
    BY <1>1, <1>4, <1>5, <2>1, <2>2, <2>3, Resting DEF Ahead
<1> QED
  BY <1>1, <1>4, <1>5, <1>6, RestingDeletions DEF Shrinks, Tokens, NotifyInv

\* Who is discarded need not be told.
LEMMA DiscardStep ==
    ASSUME NamesAssumption, NotifyInv, NEW s \in Session, Discard(s)
    PROVE  Deletions' /\ Tokens' /\ \A t \in Call : Untold(t)'
<1>1. /\ UNCHANGED <<exists, call>>
      /\ slots' = [i \in DOMAIN slots |-> IF slots[i] = s THEN None ELSE slots[i]]
      /\ link' = [link EXCEPT ![s] = "closed"]
      /\ care' = [care EXCEPT ![s] = [n \in Node |-> "no"]]
  BY DEF Discard
<1>2. \A x \in Session : link[x] # "none" => link'[x] # "none"
  BY <1>1 DEF NotifyInv, TypeOK
<1>3. \A x \in Session : Registered(x)' => Registered(x) /\ x # s
  BY <1>1 DEF Registered, NamesAssumption
<1>4. Shrinks
  BY <1>1, <1>2, <1>3 DEF Shrinks, NotifyInv, Tokens
<1>5. \A t \in Call : Rests(t)
  BY <1>1 DEF Rests
<1>6. ASSUME NEW t \in Call
      PROVE  Untold(t)'
  <2>1. \A x \in call[t].missed : x \in Session
    BY DEF NotifyInv, TypeOK, CallState
  <2>2. Untold(t)
    BY DEF NotifyInv
  <2>3. \A x \in call[t].missed : Registered(x)' => care'[x] = care[x]
    BY <1>1, <1>3, <2>1 DEF NotifyInv, TypeOK
  <2>4. \A x \in call[t].missed : Registered(x)' /\ Ahead(t, x) => Ahead(t, x)'
    BY <1>1, <1>3, <2>1 DEF Ahead
  <2> QED
    BY <1>1, <1>4, <1>5, <2>1, <2>2, <2>3, <2>4, Resting
<1> QED
  BY <1>1, <1>4, <1>5, <1>6, RestingDeletions DEF Shrinks, Tokens, NotifyInv

\* Who connects has not been listening; a loop that is suspended while the
\* dictionary is rebuilt goes astray.
LEMMA ConnectStep ==
    ASSUME NamesAssumption, NotifyInv, NEW s \in Session, Connect(s)
    PROVE  Deletions' /\ Tokens' /\ \A t \in Call : Untold(t)'
<1>1. /\ turn = None /\ UNCHANGED <<care, exists>> /\ link[s] = "none"
      /\ link' = [link EXCEPT ![s] = "up"]
  BY DEF Connect, clientVars
<1>2. \A x \in Session : link[x] # "none" => link'[x] # "none" /\ x # s
  BY <1>1 DEF NotifyInv, TypeOK
<1>3. CASE slots' = Append(slots, s) /\ UNCHANGED call
  <2>1. /\ \A i \in DOMAIN slots : i \in DOMAIN slots' /\ slots'[i] = slots[i]
        /\ \A i \in DOMAIN slots' : i \in DOMAIN slots \/ slots'[i] = s
    BY <1>3 DEF NotifyInv, TypeOK
  <2>2. \A x \in Session : Registered(x)' => Registered(x) \/ x = s
    BY <2>1 DEF Registered
  <2>3. Shrinks
    BY <1>1, <1>2, <2>2 DEF Shrinks, NotifyInv, Tokens, TypeOK
  <2>4. \A t \in Call : Rests(t)
    BY <1>3 DEF Rests
  <2>5. ASSUME NEW t \in Call
        PROVE  Untold(t)'
    <3>1. \A x \in call[t].missed : x \in Session
      BY DEF NotifyInv, TypeOK, CallState
    <3>2. Untold(t)
      BY DEF NotifyInv
    <3>3. \A x \in call[t].missed : Ahead(t, x) => Ahead(t, x)'
      BY <1>3, <2>1 DEF Ahead
    <3> QED
      BY <1>1, <2>3, <2>4, <3>1, <3>2, <3>3, Resting
  <2> QED
    BY <1>1, <2>3, <2>4, <2>5, RestingDeletions DEF Shrinks, Tokens, NotifyInv
<1>4. CASE \E q \in [1..Size -> Session] :
             /\ q # slots /\ Rebuilt(q)
             /\ slots' = Append(q, s)
             /\ call' = [t \in Call |->
                    IF Suspended(t) THEN [call[t] EXCEPT !.lost = TRUE] ELSE call[t]]
  <2>1. PICK q \in [1..Size -> Session] :
             /\ Rebuilt(q) /\ slots' = Append(q, s)
             /\ call' = [t \in Call |->
                    IF Suspended(t) THEN [call[t] EXCEPT !.lost = TRUE] ELSE call[t]]
    BY <1>4
  <2>2. slots \in Seq(Session \cup {None})
    BY DEF NotifyInv, TypeOK
  <2>3. \A i \in DOMAIN slots' : slots'[i] = s \/ \E j \in DOMAIN q : slots'[i] = q[j]
    <3>1. Size \in Nat
      BY <2>2, SizeType
    <3>2. /\ slots' \in Seq(Session \cup {None}) /\ Len(slots') = Size + 1
          /\ \A i \in 1..Size : slots'[i] = q[i]
          /\ slots'[Size + 1] = s
      BY <2>1, <2>2, RebuiltType
    <3>3. DOMAIN slots' = 1..Size + 1 /\ DOMAIN q = 1..Size
      BY <3>2
    <3> HIDE DEF Size
    <3> QED
      BY <3>1, <3>2, <3>3
  <2>4. \A x \in Session : Registered(x)' => Registered(x) \/ x = s
    BY <2>1, <2>3 DEF Registered, Rebuilt
  <2>5. Shrinks
    BY <1>1, <1>2, <2>4 DEF Shrinks, NotifyInv, Tokens, TypeOK
  <2>6. ASSUME NEW t \in Call
        PROVE  Rests(t) /\ (call'[t].lost \/ call[t].stage \notin {"loop", "writing"})
    <3>1. call[t] \in CallState
      BY DEF NotifyInv, TypeOK
    <3>2. call'[t] = IF Suspended(t) THEN [call[t] EXCEPT !.lost = TRUE] ELSE call[t]
      BY <2>1
    <3>3. CASE Suspended(t)
      BY <3>1, <3>2, <3>3 DEF CallState, Rests
    <3>4. CASE ~Suspended(t)
      BY <1>1, <3>2, <3>4 DEF Suspended, Rests, NotifyInv, Iterators, NamesAssumption
    <3> QED
      BY <3>3, <3>4
  <2>7. ASSUME NEW t \in Call
        PROVE  Untold(t)'
    <3>1. \A x \in call[t].missed : x \in Session
      BY DEF NotifyInv, TypeOK, CallState
    <3>2. Untold(t)
      BY DEF NotifyInv
    <3> QED
      BY <1>1, <2>5, <2>6, <3>1, <3>2, Resting
  <2> QED
    BY <1>1, <2>5, <2>6, <2>7, RestingDeletions DEF Shrinks, Tokens, NotifyInv
<1> QED
  BY <1>3, <1>4 DEF Connect

\* Who asks to change a node cares about it.
LEMMA AskStep ==
    ASSUME NamesAssumption, NotifyInv, NEW t \in Call,
           NEW kind \in {"change", "delete"}, NEW n \in Node, Ask(t, kind, n)
    PROVE  Deletions' /\ Tokens' /\ \A u \in Call : Untold(u)'
<1>1. /\ UNCHANGED <<slots, link, exists>> /\ call[t] = NoCall
      /\ call' = [call EXCEPT ![t] = [@ EXCEPT !.kind = kind, !.node = n, !.stage = "vault"]]
  BY DEF Ask
<1>2. call \in [Call -> CallState]
  BY DEF NotifyInv, TypeOK
<1>3. /\ call'[t].stage = "vault" /\ call'[t].missed = {}
      /\ \A u \in Call : u # t => call'[u] = call[u]
  BY <1>1, <1>2 DEF NoCall
<1>4. \A x \in Session, m \in Node : care[x][m] # "no" => care'[x][m] # "no"
  BY DEF Ask, NotifyInv, TypeOK
<1>5. Shrinks
  BY <1>1 DEF Shrinks, Registered, NotifyInv, Tokens
<1>6. ASSUME NEW u \in Call
      PROVE  Untold(u)'
  <2>1. CASE u = t
    BY <1>3, <2>1 DEF Untold
  <2>2. CASE u # t
    <3>1. Rests(u) /\ Untold(u) /\ \A x \in call[u].missed : x \in Session
      BY <1>2, <1>3, <2>2 DEF Rests, NotifyInv, CallState
    <3>2. call[u].stage # "idle" =>
             \A x \in call[u].missed :
                 care[x][call[u].node] # "no" => care'[x][call[u].node] # "no"
      BY <1>4, <3>1 DEF NotifyInv, Iterators
    <3>3. \A x \in call[u].missed : Ahead(u, x) => Ahead(u, x)'
      BY <1>1, <1>3, <2>2 DEF Ahead
    <3> QED
      BY <1>5, <3>1, <3>2, <3>3, Resting
  <2> QED
    BY <2>1, <2>2
<1>7. \A u \in Call : Past(u)' => Past(u) /\ call'[u] = call[u]
  BY <1>3 DEF Past
<1>8. Deletions'
  BY <1>1, <1>7 DEF Deletions, NotifyInv, Past
<1> QED
  BY <1>5, <1>6, <1>8 DEF Shrinks, Tokens

\* When a change is committed, everybody who cares is to be told.
LEMMA WriteStep ==
    ASSUME NamesAssumption, NotifyInv, NEW t \in Call, Write(t)
    PROVE  Deletions' /\ Tokens' /\ \A u \in Call : Untold(u)'
<1> DEFINE n == call[t].node
           Listeners == {s \in Session : Registered(s) /\ care[s][n] # "no"}
<1>1. /\ UNCHANGED <<slots, link, care>> /\ exists' \subseteq exists
      /\ call[t].stage = "vault"
  BY DEF Write
<1>2. call \in [Call -> CallState]
  BY DEF NotifyInv, TypeOK
<1>3. Shrinks
  BY <1>1 DEF Shrinks, Registered, NotifyInv, Tokens
<1>4. \A u \in Call : u # t => call'[u] = call[u]
  BY <1>2 DEF Write
<1>5. ASSUME NEW u \in Call, u # t
      PROVE  Untold(u)'
  <2>1. Rests(u) /\ Untold(u) /\ \A x \in call[u].missed : x \in Session
    BY <1>2, <1>4, <1>5 DEF Rests, NotifyInv, CallState
  <2>2. \A x \in call[u].missed : Ahead(u, x) => Ahead(u, x)'
    BY <1>1, <1>4, <1>5 DEF Ahead
  <2> QED
    BY <1>1, <1>3, <2>1, <2>2, Resting
<1>6. CASE n \in exists
  <2>1. /\ call'[t] = [call[t] EXCEPT !.stage = "committed", !.missed = Listeners]
        /\ exists' = IF call[t].kind = "delete" THEN exists \ {n} ELSE exists
    BY <1>2, <1>6 DEF Write
  <2>2. /\ call'[t].stage = "committed" /\ call'[t].missed = Listeners
        /\ call'[t].node = n /\ call'[t].kind = call[t].kind
    BY <1>2, <2>1 DEF CallState
  <2>3. Untold(t)'
    BY <1>1, <2>2 DEF Untold, NotifyInv, Tokens, Registered
  <2>4. \A u \in Call : u # t /\ Past(u)' => Past(u)
    BY <1>4 DEF Past
  <2>5. \A u \in Call : u # t /\ Past(u)' /\ call'[u].kind = "delete" =>
           call'[u].node \notin exists /\ call'[u].node # n
    BY <1>4, <1>6, <2>4 DEF Deletions, NotifyInv
  <2>6. \A u \in Call : Past(u)' /\ call'[u].kind = "delete" => call'[u].node \notin exists'
    BY <1>1, <2>1, <2>2, <2>5
  <2>7. ASSUME NEW u \in Call, NEW v \in Call,
               Past(u)', call'[u].kind = "delete", Past(v)', call'[v].kind = "delete",
               call'[u].node = call'[v].node
        PROVE  u = v
    <3>1. CASE u # t /\ v # t
      BY <1>4, <2>4, <2>7, <3>1 DEF Deletions, NotifyInv
    <3>2. CASE u = t \/ v = t
      BY <2>2, <2>5, <2>7, <3>2
    <3> QED
      BY <3>1, <3>2
  <2>8. Deletions'
    BY <2>6, <2>7 DEF Deletions
  <2> QED
    BY <1>3, <1>5, <2>3, <2>8 DEF Shrinks, Tokens
<1>7. CASE n \notin exists
  <2>1. call'[t] = [call[t] EXCEPT !.stage = "refused"] /\ exists' = exists
    BY <1>2, <1>7 DEF Write
  <2>2. call'[t].stage = "refused" /\ call'[t].missed = call[t].missed
    BY <1>2, <2>1 DEF CallState
  <2>3. Untold(t)'
    BY <1>1, <2>2 DEF Untold, NotifyInv
  <2>4. \A u \in Call : Past(u)' => Past(u) /\ call'[u] = call[u]
    BY <1>4, <2>2 DEF Past
  <2>5. Deletions'
    BY <2>1, <2>4 DEF Deletions, NotifyInv
  <2> QED
    BY <1>3, <1>5, <2>3, <2>5 DEF Shrinks, Tokens
<1> QED
  BY <1>6, <1>7

\* What a loop changes of its call and of the rest.
LoopFrame(t) ==
    /\ call[t].stage \in {"committed", "loop", "writing"}
    /\ call'[t].stage \in {"loop", "writing", "answered", "cut"}
    /\ UNCHANGED <<slots, link, exists>>
    /\ call'[t].kind = call[t].kind /\ call'[t].node = call[t].node
    /\ call'[t].lost = call[t].lost /\ call'[t].missed \subseteq call[t].missed
    /\ \A u \in Call : u # t => call'[u] = call[u]
    /\ \A s \in Session, n \in Node :
           care[s][n] # "no" =>
               \/ care'[s][n] # "no"
               \/ call[t].kind = "delete" /\ call[t].node = n /\ s \notin call'[t].missed

\* Those who no longer care because a loop told them of a deletion.
LEMMA LoopOthers ==
    ASSUME NotifyInv, NEW t \in Call, LoopFrame(t)
    PROVE  /\ Deletions' /\ Tokens' /\ \A u \in Call : u # t => Untold(u)'
           /\ \A s \in call'[t].missed : link'[s] # "none"
           /\ \A s \in call'[t].missed :
                  Registered(s)' => care'[s][call'[t].node] # "no" \/ Excused(t)'
<1>1. Shrinks
  BY DEF LoopFrame, Shrinks, Registered, NotifyInv, Tokens
<1>2. \A u \in Call : Past(u)' = Past(u) /\ call'[u].kind = call[u].kind
                                    /\ call'[u].node = call[u].node
  BY DEF LoopFrame, Past
<1>3. Deletions'
  BY <1>2 DEF LoopFrame, Deletions, NotifyInv, Past
<1>4. Past(t) /\ call[t].node \in Node /\ call[t].kind \in {"change", "delete"}
  BY DEF LoopFrame, Past, NotifyInv, Iterators
<1>5. \A u \in Call : call[u].missed \subseteq Session
  BY DEF NotifyInv, TypeOK, CallState
<1>6. ASSUME NEW u \in Call, u # t
      PROVE  Untold(u)'
  <2>1. Rests(u) /\ Untold(u)
    BY <1>6 DEF LoopFrame, Rests, NotifyInv
  <2>2. ASSUME call[u].stage \in {"committed", "loop", "writing"},
               NEW s \in call[u].missed, care[s][call[u].node] # "no",
               care'[s][call[u].node] = "no"
        PROVE  Excused(u)'
    <3>1. call[u].node \in Node /\ call[u].kind \in {"change", "delete"} /\ Past(u)
      BY <2>2 DEF Past, NotifyInv, Iterators
    <3>2. call[t].kind = "delete" /\ call[t].node = call[u].node
      BY <1>5, <2>2, <3>1 DEF LoopFrame
    <3>3. call[u].kind # "delete" /\ call[u].node \notin exists
      BY <1>4, <1>6, <3>1, <3>2 DEF NotifyInv, Deletions
    <3> QED
      BY <1>6, <3>1, <3>3 DEF LoopFrame, Excused
  <2>3. \A s \in call[u].missed : Ahead(u, s) => Ahead(u, s)'
    BY <1>6 DEF LoopFrame, Ahead
  <2> QED
    BY <1>1, <1>5, <2>1, <2>2, <2>3, Resting
<1>7. \A s \in call'[t].missed : link'[s] # "none"
  BY DEF LoopFrame, NotifyInv, Untold
<1>8. ASSUME NEW s \in call'[t].missed, Registered(s)'
      PROVE  care'[s][call'[t].node] # "no" \/ Excused(t)'
  <2>1. s \in call[t].missed /\ Registered(s) /\ s \in Session
    BY <1>5, <1>8 DEF LoopFrame, Registered
  <2>2. care[s][call[t].node] # "no" \/ Excused(t)
    BY <2>1 DEF LoopFrame, NotifyInv, Untold
  <2>3. Excused(t) => Excused(t)'
    BY DEF LoopFrame, Excused
  <2> QED
    BY <1>4, <1>8, <2>1, <2>2, <2>3 DEF LoopFrame
<1> QED
  BY <1>1, <1>3, <1>6, <1>7, <1>8 DEF Shrinks, Tokens

\* Who is told no longer cares about a node that was deleted.
LEMMA ToldCare ==
    ASSUME NotifyInv, NEW t \in Call, NEW s \in Session, Told(t, s), call[t].node \in Node,
           NEW x \in Session, NEW n \in Node, care[x][n] # "no"
    PROVE  \/ care'[x][n] # "no"
           \/ call[t].kind = "delete" /\ call[t].node = n /\ x = s
BY DEF Told, NotifyInv, TypeOK

\* A step of a loop: whom it passes by does not care, and it ends when nobody
\* is left.
LEMMA LoopUntold ==
    ASSUME NamesAssumption, NotifyInv, NEW t \in Call, StartLoop(t) \/ LoopStep(t)
    PROVE  LoopFrame(t) /\ Untold(t)'
<1>1. /\ call[t] \in CallState /\ call \in [Call -> CallState]
      /\ call[t].missed \subseteq Session
      /\ slots \in Seq(Session \cup {None}) /\ None \notin Session
  BY DEF NotifyInv, TypeOK, CallState, NamesAssumption
<1>2. /\ turn = t => call[t].stage = "loop"
      /\ call[t].stage \notin {"loop", "writing"} => call[t].pos = 1
      /\ call[t].stage # "idle" => call[t].node \in Node
  BY DEF NotifyInv, Iterators
<1>3. /\ LoopFrame(t) =>
            /\ \A s \in call'[t].missed : link'[s] # "none"
            /\ \A s \in call'[t].missed :
                   Registered(s)' => care'[s][call'[t].node] # "no" \/ Excused(t)'
      /\ LoopFrame(t) => (Excused(t) => Excused(t)')
      /\ LoopFrame(t) => \A s : Registered(s)' => Registered(s)
  BY LoopOthers DEF LoopFrame, Excused, Registered
<1>4. Untold(t)
  BY DEF NotifyInv
<1>5. CASE StartLoop(t)
  <2>1. call' = [call EXCEPT ![t] = [@ EXCEPT !.stage = "loop", !.size = Size]]
    BY <1>5 DEF StartLoop
  <2>2. /\ call'[t].kind = call[t].kind /\ call'[t].node = call[t].node
        /\ call'[t].stage = "loop" /\ call'[t].pos = call[t].pos
        /\ call'[t].missed = call[t].missed /\ call'[t].lost = call[t].lost
        /\ \A u \in Call : u # t => call'[u] = call[u]
    BY <1>1, <2>1 DEF CallState
  <2>3. call[t].stage = "committed" /\ UNCHANGED <<slots, link, exists, care>>
    BY <1>5 DEF StartLoop, clientVars
  <2>4. LoopFrame(t)
    BY <2>2, <2>3 DEF LoopFrame
  <2>5. \A s \in Session : Registered(s) => Ahead(t, s)'
    BY <1>1, <1>2, <2>2, <2>3 DEF Registered, Ahead
  <2> QED
    BY <1>1, <1>3, <2>2, <2>4, <2>5 DEF Untold
<1>6. ASSUME NEW i \in DOMAIN slots, Passes(t, i)
      PROVE  LoopFrame(t) /\ Untold(t)'
  <2>1. call' = [call EXCEPT ![t] = [@ EXCEPT !.pos = i + 1]]
    BY <1>6 DEF Passes, After
  <2>2. /\ call'[t].kind = call[t].kind /\ call'[t].node = call[t].node
        /\ call'[t].stage = call[t].stage /\ call'[t].pos = i + 1
        /\ call'[t].missed = call[t].missed /\ call'[t].lost = call[t].lost
        /\ \A u \in Call : u # t => call'[u] = call[u]
    BY <1>1, <2>1 DEF CallState
  <2>3. call[t].stage = "loop" /\ UNCHANGED <<slots, link, exists, care>>
    BY <1>2, <1>6 DEF Passes, At, clientVars
  <2>4. LoopFrame(t)
    BY <2>2, <2>3 DEF LoopFrame
  <2>5. ASSUME NEW s \in call[t].missed, Registered(s), Ahead(t, s)
        PROVE  Ahead(t, s)' \/ Excused(t)
    <3>1. PICK j \in DOMAIN slots : j >= call[t].pos /\ slots[j] = s
      BY <2>5 DEF Ahead
    <3>2. s # None /\ j \in Rest(t)
      BY <1>1, <3>1 DEF Rest
    <3>3. i <= j /\ i \in Nat /\ j \in Nat
      BY <1>1, <1>6, <3>2 DEF Passes, At
    <3>4. CASE i = j
      BY <1>4, <1>6, <2>3, <2>5, <3>1, <3>4 DEF Passes, Cares, Untold
    <3>5. CASE i # j
      BY <2>2, <2>3, <3>1, <3>3, <3>5 DEF Ahead
    <3> QED
      BY <3>4, <3>5
  <2> QED
    BY <1>1, <1>3, <1>4, <2>2, <2>3, <2>4, <2>5 DEF Untold
<1>7. ASSUME NEW i \in DOMAIN slots, Tells(t, i)
      PROVE  LoopFrame(t) /\ Untold(t)'
  <2>1. call' = [call EXCEPT ![t] = [@ EXCEPT !.missed = call[t].missed \ {slots[i]},
                                             !.pos = i + 1]]
    BY <1>7 DEF Tells, After
  <2>2. /\ call'[t].kind = call[t].kind /\ call'[t].node = call[t].node
        /\ call'[t].stage = call[t].stage /\ call'[t].pos = i + 1
        /\ call'[t].missed = call[t].missed \ {slots[i]} /\ call'[t].lost = call[t].lost
        /\ \A u \in Call : u # t => call'[u] = call[u]
    BY <1>1, <2>1 DEF CallState
  <2>3. /\ call[t].stage = "loop" /\ UNCHANGED <<slots, link, exists>>
        /\ slots[i] \in Session /\ Told(t, slots[i])
    BY <1>2, <1>7, SlotIsSession DEF Tells, At, Rest, NotifyInv
  <2>4. LoopFrame(t)
    <3>1. PICK x \in Session : x = slots[i] /\ Told(t, x)
      BY <2>3
    <3>2. \A s \in Session, n \in Node :
             care[s][n] # "no" =>
                 \/ care'[s][n] # "no"
                 \/ call[t].kind = "delete" /\ call[t].node = n /\ s = slots[i]
      BY <1>2, <2>3, <3>1, ToldCare
    <3> QED
      BY <2>2, <2>3, <3>2 DEF LoopFrame
  <2>5. ASSUME NEW s \in call'[t].missed, Ahead(t, s)
        PROVE  Ahead(t, s)'
    <3>1. PICK j \in DOMAIN slots : j >= call[t].pos /\ slots[j] = s
      BY <2>5 DEF Ahead
    <3>2. s # None /\ s # slots[i] /\ j \in Rest(t)
      BY <1>1, <2>2, <3>1 DEF Rest
    <3>3. i <= j /\ i \in Nat /\ j \in Nat
      BY <1>1, <1>7, <3>2 DEF Tells, At
    <3> QED
      BY <2>2, <2>3, <3>1, <3>2, <3>3 DEF Ahead
  <2> QED
    BY <1>1, <1>3, <1>4, <2>2, <2>3, <2>4, <2>5 DEF Untold
<1>8. ASSUME NEW i \in DOMAIN slots, Suspends(t, i)
      PROVE  LoopFrame(t) /\ Untold(t)'
  <2>1. call' = [call EXCEPT ![t] = [@ EXCEPT !.stage = "writing", !.to = slots[i],
                                             !.pos = i + 1]]
    BY <1>8 DEF Suspends, After
  <2>2. /\ call'[t].kind = call[t].kind /\ call'[t].node = call[t].node
        /\ call'[t].stage = "writing" /\ call'[t].pos = i + 1 /\ call'[t].to = slots[i]
        /\ call'[t].missed = call[t].missed /\ call'[t].lost = call[t].lost
        /\ \A u \in Call : u # t => call'[u] = call[u]
    BY <1>1, <2>1 DEF CallState
  <2>3. call[t].stage = "loop" /\ UNCHANGED <<slots, link, exists, care>>
    BY <1>2, <1>8 DEF Suspends, At, clientVars
  <2>4. LoopFrame(t)
    BY <2>2, <2>3 DEF LoopFrame
  <2>5. ASSUME NEW s \in call[t].missed, Ahead(t, s)
        PROVE  Ahead(t, s)' \/ s = slots[i]
    <3>1. PICK j \in DOMAIN slots : j >= call[t].pos /\ slots[j] = s
      BY <2>5 DEF Ahead
    <3>2. s # None /\ j \in Rest(t)
      BY <1>1, <3>1 DEF Rest
    <3>3. i <= j /\ i \in Nat /\ j \in Nat
      BY <1>1, <1>8, <3>2 DEF Suspends, At
    <3>4. CASE i # j
      BY <2>2, <2>3, <3>1, <3>3, <3>4 DEF Ahead
    <3> QED
      BY <3>1, <3>4
  <2> QED
    BY <1>1, <1>3, <1>4, <2>2, <2>3, <2>4, <2>5 DEF Untold
<1>9. CASE Resumes(t)
  <2>1. call' = [call EXCEPT ![t] = [@ EXCEPT !.missed = call[t].missed \ {call[t].to},
                                             !.to = None, !.stage = "loop"]]
    BY <1>9 DEF Resumes
  <2>2. /\ call'[t].kind = call[t].kind /\ call'[t].node = call[t].node
        /\ call'[t].stage = "loop" /\ call'[t].pos = call[t].pos
        /\ call'[t].missed = call[t].missed \ {call[t].to} /\ call'[t].lost = call[t].lost
        /\ \A u \in Call : u # t => call'[u] = call[u]
    BY <1>1, <2>1 DEF CallState
  <2>3. /\ call[t].stage = "writing" /\ UNCHANGED <<slots, link, exists>>
        /\ call[t].to \in Session /\ Told(t, call[t].to)
    BY <1>9 DEF Resumes, NotifyInv, Iterators
  <2>4. LoopFrame(t)
    <3>1. PICK x \in Session : x = call[t].to /\ Told(t, x)
      BY <2>3
    <3>2. \A s \in Session, n \in Node :
             care[s][n] # "no" =>
                 \/ care'[s][n] # "no"
                 \/ call[t].kind = "delete" /\ call[t].node = n /\ s = call[t].to
      BY <1>2, <2>3, <3>1, ToldCare
    <3> QED
      BY <2>2, <2>3, <3>2 DEF LoopFrame
  <2>5. \A s \in call'[t].missed : s # call[t].to /\ (Ahead(t, s) => Ahead(t, s)')
    BY <2>2, <2>3 DEF Ahead
  <2> QED
    BY <1>1, <1>3, <1>4, <2>2, <2>3, <2>4, <2>5 DEF Untold
<1>10. ASSUME NEW how \in {"cut", "answered"}, turn = t, call' = Over(t, how),
              UNCHANGED <<slots, link, clientVars, exists>>,
              how = "answered" => Rest(t) = {}
       PROVE  LoopFrame(t) /\ Untold(t)'
  <2>1. call' = [call EXCEPT ![t] = [@ EXCEPT !.stage = how, !.pos = 1, !.size = 0]]
    BY <1>10 DEF Over
  <2>2. /\ call'[t].kind = call[t].kind /\ call'[t].node = call[t].node
        /\ call'[t].stage = how
        /\ call'[t].missed = call[t].missed /\ call'[t].lost = call[t].lost
        /\ \A u \in Call : u # t => call'[u] = call[u]
    BY <1>1, <2>1 DEF CallState
  <2>3. call[t].stage = "loop" /\ UNCHANGED <<slots, link, exists, care>>
    BY <1>2, <1>10 DEF clientVars
  <2>4. LoopFrame(t)
    BY <2>2, <2>3 DEF LoopFrame
  <2>5. how = "answered" => \A s \in call[t].missed : ~Ahead(t, s)
    BY <1>1, <1>10 DEF Ahead, Rest
  <2> QED
    BY <1>1, <1>3, <1>4, <2>2, <2>3, <2>4, <2>5 DEF Untold
<1>11. CASE CutShort(t)
  BY <1>10, <1>11 DEF CutShort
<1>12. CASE EndLoop(t)
  BY <1>10, <1>12 DEF EndLoop
<1> QED
  BY <1>5, <1>6, <1>7, <1>8, <1>9, <1>11, <1>12 DEF LoopStep

\* The invariant holds at first, is kept by every step, and is enough.
LEMMA NotifyInit == NamesAssumption /\ Init => NotifyInv
<1> SUFFICES ASSUME NamesAssumption, Init
             PROVE  NotifyInv
  OBVIOUS
<1>1. NoCall \in CallState /\ NoCall.stage = "idle" /\ NoCall.pos = 1 /\ NoCall.missed = {}
  BY DEF NoCall, CallState
<1>2. slots \in Seq(Session \cup {None}) /\ Len(slots) = 0 /\ \A s \in Session : ~Registered(s)
  BY DEF Init, Registered
<1>3. \A t \in Call : call[t] = NoCall
  BY DEF Init
<1>4. TypeOK
  BY <1>1, <1>2, <1>3 DEF Init, TypeOK, Care
<1>5. Iterators
  BY <1>1, <1>3 DEF Init, Iterators, NamesAssumption
<1>6. Deletions
  BY <1>1, <1>3 DEF Deletions, Past
<1>7. \A t \in Call : Untold(t)
  BY <1>1, <1>3 DEF Untold
<1> QED
  BY <1>2, <1>4, <1>5, <1>6, <1>7 DEF NotifyInv, Tokens

LEMMA NotifyStep == NamesAssumption /\ NotifyInv /\ [Next]_vars => NotifyInv'
<1> SUFFICES ASSUME NamesAssumption, NotifyInv, [Next]_vars
             PROVE  NotifyInv'
  OBVIOUS
<1>1. TypeOK' /\ Iterators'
  BY Types DEF NotifyInv
<1>2. Deletions' /\ Tokens' /\ \A t \in Call : Untold(t)'
  <2>1. CASE UNCHANGED vars
    BY <2>1 DEF vars, NotifyInv, Deletions, Tokens, Untold, Past, Excused, Ahead, Registered
  <2>2. ASSUME NEW t \in Call, StartLoop(t) \/ LoopStep(t)
        PROVE  Deletions' /\ Tokens' /\ \A u \in Call : Untold(u)'
    BY <2>2, LoopUntold, LoopOthers
  <2> QED
    BY <2>1, <2>2, SessionStep, DiscardStep, ConnectStep, AskStep, WriteStep DEF Next
<1> QED
  BY <1>1, <1>2 DEF NotifyInv

\* The types of the state, for any sessions, calls and nodes.
THEOREM NotifyTypes == Spec => []TypeOK
<1>1. NotifyInv => TypeOK
  BY DEF NotifyInv
<1> QED
  BY <1>1, NotifyInit, NotifyStep, NamesAssumption, PTL DEF Spec

\* Whoever cared when a change was committed, and is still known when the change
\* is reported as done, was told, or the node is gone.
THEOREM EveryoneIsTold == Spec => []AnsweredMeansTold
<1>1. NotifyInv => AnsweredMeansTold
  BY DEF NotifyInv, Untold, Excused, AnsweredMeansTold
<1> QED
  BY <1>1, NotifyInit, NotifyStep, NamesAssumption, PTL DEF Spec

-----------------------------------------------------------------------------
(***************************************************************************)
(* What clients know.  Whoever was sent a node cares about it, unless the  *)
(* node was deleted.  So when the node changes, a loop that has still to   *)
(* come to the client follows; and it finds that the client cares, since   *)
(* a client only ceases to care by being told.                             *)
(***************************************************************************)
ReadersCare ==
    \A s \in Session, n \in Node :
        view[s][n] # "none" \/ reading[s] = n => care[s][n] = "before" \/ n \notin exists

NewKnowNothing ==
    \A s \in Session :
        link[s] = "none" => reading[s] = None /\ \A n \in Node : view[s][n] = "none"

OldMeansCare == \A s \in Session, n \in Node : view[s][n] = "old" => care[s][n] # "no"

\* The loop of t has still to come to s, or has failed or gone astray.
Reaches(t, s) ==
    \/ call[t].lost \/ call[t].stage \in {"committed", "cut"}
    \/ call[t].stage \in {"loop", "writing"} /\ Ahead(t, s)
    \/ call[t].stage = "writing" /\ call[t].to = s

OldIsAnnounced ==
    \A s \in Session, n \in Node :
        Registered(s) /\ view[s][n] = "old" =>
            \E t \in Call : call[t].node = n /\ Reaches(t, s)

KnowInv == NotifyInv /\ ReadersCare /\ NewKnowNothing /\ OldMeansCare /\ OldIsAnnounced

\* A step after which nobody's view is older than before: who cared about what
\* it was sent still does, and loops that have still to come still have.
Learns ==
    /\ exists' \subseteq exists
    /\ \A s \in Session : Registered(s)' => Registered(s) \/ \A n \in Node : view'[s][n] = "none"
    /\ \A s \in Session : link'[s] = "none" =>
           link[s] = "none" /\ reading'[s] = reading[s] /\ view'[s] = view[s]
    /\ \A s \in Session, n \in Node :
           /\ view'[s][n] = "old" => view[s][n] = "old"
           /\ view'[s][n] = "old" /\ care[s][n] # "no" => care'[s][n] # "no"
           /\ view'[s][n] # "none" \/ reading'[s] = n =>
                  \/ care'[s][n] = "before"
                  \/ n \notin exists
                  \/ care[s][n] # "before" /\ (view[s][n] # "none" \/ reading[s] = n)
    /\ \A s \in Session : \A t \in Call :
           Registered(s)' /\ Reaches(t, s) /\ view'[s][call[t].node] = "old" =>
               Reaches(t, s)' /\ call'[t].node = call[t].node

LEMMA Learning ==
    ASSUME KnowInv, Learns
    PROVE  ReadersCare' /\ NewKnowNothing' /\ OldMeansCare' /\ OldIsAnnounced'
<1>1. ReadersCare'
  BY DEF KnowInv, Learns, ReadersCare
<1>2. NewKnowNothing'
  BY DEF KnowInv, Learns, NewKnowNothing
<1>3. OldMeansCare'
  BY DEF KnowInv, Learns, OldMeansCare
<1>4. ASSUME NEW s \in Session, NEW n \in Node, Registered(s)', view'[s][n] = "old"
      PROVE  \E t \in Call : call'[t].node = n /\ Reaches(t, s)'
  <2>1. Registered(s) /\ view[s][n] = "old"
    BY <1>4 DEF Learns
  <2>2. PICK t \in Call : call[t].node = n /\ Reaches(t, s)
    BY <2>1 DEF KnowInv, OldIsAnnounced
  <2> QED
    BY <1>4, <2>2 DEF Learns
<1>5. OldIsAnnounced'
  BY <1>4 DEF OldIsAnnounced
<1> QED
  BY <1>1, <1>2, <1>3, <1>5

\* The loops do not notice what a session does.
LEMMA ReachesUnchanged ==
    ASSUME UNCHANGED <<slots, call>>
    PROVE  \A t \in Call, s \in Session : Reaches(t, s)' <=> Reaches(t, s)
BY DEF Reaches, Ahead

\* A client that asks cares first; one whose references were read had not been
\* sent the node, or cares already.
LEMMA SessionLearns ==
    ASSUME NamesAssumption, KnowInv, NEW s \in Session,
           \/ Leave(s) \/ Notice(s) \/ Return(s) \/ FetchReads(s)
           \/ \E n \in Node : Fetch(s, n) \/ FetchRefs(s, n)
    PROVE  Learns
<1>1. UNCHANGED <<slots, exists, call>>
  BY DEF Leave, Notice, Return, FetchReads, Fetch, FetchRefs
<1>2. /\ link \in [Session -> {"none", "up", "left", "closed", "pipe"}]
      /\ care \in [Session -> [Node -> Care]]
      /\ reading \in [Session -> Node \cup {None}] /\ None \notin Node
      /\ view \in [Session -> [Node -> {"none", "latest", "old", "told"}]]
  BY DEF KnowInv, NotifyInv, TypeOK, NamesAssumption
<1>3. \A x \in Session : Registered(x)' => Registered(x)
  BY <1>1 DEF Registered
<1>4. \A t \in Call : \A x \in Session :
          Reaches(t, x) => Reaches(t, x)' /\ call'[t].node = call[t].node
  BY <1>1, ReachesUnchanged
<1>5. CASE Leave(s) \/ Notice(s) \/ Return(s)
  <2>1. UNCHANGED <<care, view>>
    BY <1>5 DEF Leave, Notice, Return, clientVars
  <2>2. \A x \in Session : reading'[x] \in {reading[x], None}
    BY <1>2, <1>5 DEF Leave, Notice, Return, clientVars
  <2>3. \A x \in Session :
            link'[x] = "none" => link[x] = "none" /\ reading'[x] = reading[x]
    BY <1>2, <1>5 DEF Leave, Notice, Return, clientVars
  <2> QED
    BY <1>1, <1>2, <1>3, <1>4, <2>1, <2>2, <2>3 DEF Learns
<1>6. CASE FetchReads(s)
  <2>1. PICK n \in Node : n = reading[s]
    BY <1>2, <1>6 DEF FetchReads
  <2>2. /\ reading' = [reading EXCEPT ![s] = None]
        /\ view' = [view EXCEPT ![s][n] = "latest"]
        /\ UNCHANGED <<link, care>>
    BY <1>6, <2>1 DEF FetchReads
  <2>3. \A x \in Session, m \in Node :
            /\ view'[x][m] = IF x = s /\ m = n THEN "latest" ELSE view[x][m]
            /\ reading'[x] = IF x = s THEN None ELSE reading[x]
    BY <1>2, <2>2
  <2>4. link[s] # "none"
    BY <1>2, <2>1 DEF KnowInv, NewKnowNothing
  <2>5. \A x \in Session : x # s => view'[x] = view[x]
    BY <1>2, <2>2
  <2>6. \A x \in Session : link'[x] = "none" =>
            link[x] = "none" /\ reading'[x] = reading[x] /\ view'[x] = view[x]
    BY <2>2, <2>3, <2>4, <2>5
  <2>7. ASSUME NEW x \in Session, NEW m \in Node
        PROVE  /\ view'[x][m] = "old" => view[x][m] = "old"
               /\ view'[x][m] # "none" \/ reading'[x] = m =>
                      view[x][m] # "none" \/ reading[x] = m
    BY <1>2, <2>1, <2>3
  <2> QED
    BY <1>1, <1>3, <1>4, <2>2, <2>6, <2>7 DEF Learns
<1>7. ASSUME NEW n \in Node, Fetch(s, n)
      PROVE  Learns
  <2>1. /\ care' = [care EXCEPT ![s][n] = "before"]
        /\ reading' = [reading EXCEPT ![s] = n]
        /\ UNCHANGED <<link, view>> /\ link[s] = "up"
    BY <1>7 DEF Fetch
  <2>2. \A x \in Session, m \in Node :
            /\ care'[x][m] = IF x = s /\ m = n THEN "before" ELSE care[x][m]
            /\ reading'[x] = IF x = s THEN n ELSE reading[x]
    BY <1>2, <2>1
  <2> QED
    BY <1>1, <1>2, <1>3, <1>4, <2>1, <2>2 DEF Learns
<1>8. ASSUME NEW n \in Node, FetchRefs(s, n)
      PROVE  Learns
  <2>1. PICK c \in Care : /\ c = IF care[s][n] = "no" THEN "after" ELSE care[s][n]
                          /\ care' = [care EXCEPT ![s][n] = c]
    <3>1. (IF care[s][n] = "no" THEN "after" ELSE care[s][n]) \in Care
      BY <1>2 DEF Care
    <3> QED
      BY <1>8, <3>1 DEF FetchRefs
  <2>2. \A x \in Session, m \in Node :
            /\ care[x][m] # "no" => care'[x][m] = care[x][m]
            /\ care'[x][m] = care[x][m] \/ care[x][m] = "no"
    BY <1>2, <2>1
  <2>3. UNCHANGED <<link, reading, view>>
    BY <1>8 DEF FetchRefs
  <2> QED
    BY <1>1, <1>2, <1>3, <1>4, <2>2, <2>3 DEF Learns
<1> QED
  BY <1>5, <1>6, <1>7, <1>8

\* Nothing is known of a session that was discarded.
LEMMA DiscardLearns ==
    ASSUME NamesAssumption, KnowInv, NEW s \in Session, Discard(s)
    PROVE  Learns
<1>1. /\ UNCHANGED <<exists, call>>
      /\ slots' = [i \in DOMAIN slots |-> IF slots[i] = s THEN None ELSE slots[i]]
      /\ link' = [link EXCEPT ![s] = "closed"]
      /\ reading' = [reading EXCEPT ![s] = None]
      /\ care' = [care EXCEPT ![s] = [n \in Node |-> "no"]]
      /\ view' = [view EXCEPT ![s] = [n \in Node |-> "none"]]
  BY DEF Discard
<1>2. /\ link \in [Session -> {"none", "up", "left", "closed", "pipe"}]
      /\ care \in [Session -> [Node -> Care]]
      /\ reading \in [Session -> Node \cup {None}]
      /\ view \in [Session -> [Node -> {"none", "latest", "old", "told"}]]
      /\ None \notin Session /\ None \notin Node
  BY DEF KnowInv, NotifyInv, TypeOK, NamesAssumption
<1>3. \A x \in Session : Registered(x)' => Registered(x) /\ x # s
  BY <1>1, <1>2 DEF Registered
<1>4. \A x \in Session : x # s =>
          view'[x] = view[x] /\ care'[x] = care[x] /\ reading'[x] = reading[x] /\ link'[x] = link[x]
  BY <1>1, <1>2
<1>5. /\ link'[s] = "closed" /\ reading'[s] = None
      /\ \A n \in Node : view'[s][n] = "none" /\ care'[s][n] = "no"
  BY <1>1, <1>2
<1>6. ASSUME NEW t \in Call, NEW x \in Session, x # s, Reaches(t, x)
      PROVE  Reaches(t, x)' /\ call'[t].node = call[t].node
  <2>1. Ahead(t, x) => Ahead(t, x)'
    BY <1>1, <1>6 DEF Ahead
  <2> QED
    BY <1>1, <1>6, <2>1 DEF Reaches
<1>7. ASSUME NEW x \in Session, NEW n \in Node
      PROVE  /\ view'[x][n] = "old" => view[x][n] = "old"
             /\ view'[x][n] = "old" /\ care[x][n] # "no" => care'[x][n] # "no"
             /\ view'[x][n] # "none" \/ reading'[x] = n =>
                  \/ care'[x][n] = "before"
                  \/ n \notin exists
                  \/ care[x][n] # "before" /\ (view[x][n] # "none" \/ reading[x] = n)
  <2>1. CASE x = s
    BY <1>2, <1>5, <2>1
  <2>2. CASE x # s
    BY <1>4, <2>2 DEF KnowInv, ReadersCare
  <2> QED
    BY <2>1, <2>2
<1>8. \A x \in Session : link'[x] = "none" =>
          link[x] = "none" /\ reading'[x] = reading[x] /\ view'[x] = view[x]
  BY <1>4, <1>5
<1> QED
  BY <1>1, <1>3, <1>6, <1>7, <1>8 DEF Learns

\* A new session knows nothing; when the dictionary is rebuilt for it, the loops
\* that are under way have gone astray.
LEMMA ConnectLearns ==
    ASSUME NamesAssumption, KnowInv, NEW s \in Session, Connect(s)
    PROVE  Learns
<1>1. /\ turn = None /\ UNCHANGED <<care, reading, view, exists>> /\ link[s] = "none"
      /\ link' = [link EXCEPT ![s] = "up"]
  BY DEF Connect, clientVars
<1>2. /\ \A x \in Session : link'[x] = "none" => link[x] = "none"
      /\ \A n \in Node : view'[s][n] = "none"
  BY <1>1 DEF KnowInv, NotifyInv, TypeOK, NewKnowNothing
<1>3. CASE slots' = Append(slots, s) /\ UNCHANGED call
  <2>1. /\ \A i \in DOMAIN slots : i \in DOMAIN slots' /\ slots'[i] = slots[i]
        /\ \A i \in DOMAIN slots' : i \in DOMAIN slots \/ slots'[i] = s
    BY <1>3 DEF KnowInv, NotifyInv, TypeOK
  <2>2. \A x \in Session : Registered(x)' => Registered(x) \/ x = s
    BY <2>1 DEF Registered
  <2>3. ASSUME NEW t \in Call, NEW x \in Session, Reaches(t, x)
        PROVE  Reaches(t, x)' /\ call'[t].node = call[t].node
    <3>1. Ahead(t, x) => Ahead(t, x)'
      BY <1>3, <2>1 DEF Ahead
    <3> QED
      BY <1>3, <2>3, <3>1 DEF Reaches
  <2> QED
    BY <1>1, <1>2, <2>2, <2>3 DEF Learns, KnowInv, ReadersCare
<1>4. CASE \E q \in [1..Size -> Session] :
             /\ q # slots /\ Rebuilt(q)
             /\ slots' = Append(q, s)
             /\ call' = [t \in Call |->
                    IF Suspended(t) THEN [call[t] EXCEPT !.lost = TRUE] ELSE call[t]]
  <2>1. PICK q \in [1..Size -> Session] :
             /\ Rebuilt(q) /\ slots' = Append(q, s)
             /\ call' = [t \in Call |->
                    IF Suspended(t) THEN [call[t] EXCEPT !.lost = TRUE] ELSE call[t]]
    BY <1>4
  <2>2. slots \in Seq(Session \cup {None})
    BY DEF KnowInv, NotifyInv, TypeOK
  <2>3. \A i \in DOMAIN slots' : slots'[i] = s \/ \E j \in DOMAIN q : slots'[i] = q[j]
    <3>1. Size \in Nat
      BY <2>2, SizeType
    <3>2. /\ slots' \in Seq(Session \cup {None}) /\ Len(slots') = Size + 1
          /\ \A i \in 1..Size : slots'[i] = q[i]
          /\ slots'[Size + 1] = s
      BY <2>1, <2>2, RebuiltType
    <3>3. DOMAIN slots' = 1..Size + 1 /\ DOMAIN q = 1..Size
      BY <3>2
    <3> HIDE DEF Size
    <3> QED
      BY <3>1, <3>2, <3>3
  <2>4. \A x \in Session : Registered(x)' => Registered(x) \/ x = s
    BY <2>1, <2>3 DEF Registered, Rebuilt
  <2>5. ASSUME NEW t \in Call, NEW x \in Session, Reaches(t, x)
        PROVE  Reaches(t, x)' /\ call'[t].node = call[t].node
    <3>1. call[t] \in CallState
      BY DEF KnowInv, NotifyInv, TypeOK
    <3>2. call'[t] = IF Suspended(t) THEN [call[t] EXCEPT !.lost = TRUE] ELSE call[t]
      BY <2>1
    <3>3. CASE Suspended(t)
      BY <3>1, <3>2, <3>3 DEF CallState, Reaches
    <3>4. CASE ~Suspended(t)
      <4>1. call'[t] = call[t] /\ call[t].stage \notin {"loop", "writing"}
        BY <1>1, <3>2, <3>4 DEF Suspended, KnowInv, NotifyInv, Iterators, NamesAssumption
      <4> QED
        BY <2>5, <4>1 DEF Reaches
    <3> QED
      BY <3>3, <3>4
  <2> QED
    BY <1>1, <1>2, <2>4, <2>5 DEF Learns, KnowInv, ReadersCare
<1> QED
  BY <1>3, <1>4 DEF Connect

\* Whoever asks for a change cares; a call that was not made yet told nobody.
LEMMA AskLearns ==
    ASSUME NamesAssumption, KnowInv, NEW t \in Call,
           NEW kind \in {"change", "delete"}, NEW n \in Node, Ask(t, kind, n)
    PROVE  Learns
<1>1. /\ UNCHANGED <<slots, link, reading, view, exists>> /\ call[t] = NoCall
      /\ call' = [call EXCEPT ![t] = [@ EXCEPT !.kind = kind, !.node = n, !.stage = "vault"]]
  BY DEF Ask
<1>2. call \in [Call -> CallState] /\ care \in [Session -> [Node -> Care]]
  BY DEF KnowInv, NotifyInv, TypeOK
<1>3. \A u \in Call : u # t => call'[u] = call[u]
  BY <1>1, <1>2
<1>4. \A x \in Session : ~Reaches(t, x)
  BY <1>1 DEF NoCall, Reaches
<1>5. ASSUME NEW u \in Call, NEW x \in Session, Reaches(u, x)
      PROVE  Reaches(u, x)' /\ call'[u].node = call[u].node
  BY <1>1, <1>3, <1>4, <1>5 DEF Reaches, Ahead
<1>6. \A x \in Session, m \in Node :
          (care[x][m] # "no" => care'[x][m] # "no")
          /\ (care[x][m] = "before" => care'[x][m] = "before")
  <2>1. CASE UNCHANGED care
    BY <2>1
  <2>2. CASE \E s \in Session : care' = [care EXCEPT ![s][n] = "before"]
    BY <1>2, <2>2
  <2> QED
    BY <2>1, <2>2 DEF Ask
<1>7. \A x \in Session : Registered(x)' => Registered(x)
  BY <1>1 DEF Registered
<1> QED
  BY <1>1, <1>5, <1>6, <1>7 DEF Learns

\* When a node changes, whoever has it cares about it and will be told.
LEMMA WriteAnnounces ==
    ASSUME NamesAssumption, KnowInv, NEW t \in Call, Write(t)
    PROVE  ReadersCare' /\ NewKnowNothing' /\ OldMeansCare' /\ OldIsAnnounced'
<1>1. PICK n \in Node : n = call[t].node
  BY DEF Write, KnowInv, NotifyInv, Iterators
<1>2. /\ call \in [Call -> CallState] /\ call[t] \in CallState
      /\ view \in [Session -> [Node -> {"none", "latest", "old", "told"}]]
  BY DEF KnowInv, NotifyInv, TypeOK
<1>3. /\ UNCHANGED <<slots, link, care, reading>> /\ exists' \subseteq exists
      /\ call[t].stage = "vault"
  BY DEF Write
<1>4. \A u \in Call : u # t => call'[u] = call[u]
  BY <1>2 DEF Write
<1>5. /\ call'[t].node = n /\ call'[t].lost = call[t].lost
      /\ n \in exists => call'[t].stage = "committed"
  <2>1. CASE n \in exists
    <3>1. \E missed : call'[t] = [call[t] EXCEPT !.stage = "committed", !.missed = missed]
      BY <1>1, <1>2, <2>1 DEF Write
    <3> QED
      BY <1>1, <1>2, <3>1 DEF CallState
  <2>2. CASE n \notin exists
    <3>1. call'[t] = [call[t] EXCEPT !.stage = "refused"]
      BY <1>1, <1>2, <2>2 DEF Write
    <3> QED
      BY <1>1, <1>2, <2>2, <3>1 DEF CallState
  <2> QED
    BY <2>1, <2>2
<1>6. ASSUME NEW u \in Call, NEW s \in Session, Reaches(u, s)
      PROVE  Reaches(u, s)' /\ call'[u].node = call[u].node
  <2>1. CASE u = t
    <3>1. call[t].lost
      BY <1>3, <1>6, <2>1 DEF Reaches
    <3> QED
      BY <1>1, <1>5, <2>1, <3>1 DEF Reaches
  <2>2. CASE u # t
    BY <1>3, <1>4, <1>6, <2>2 DEF Reaches, Ahead
  <2> QED
    BY <2>1, <2>2
<1>7. ASSUME NEW s \in Session, NEW m \in Node
      PROVE  /\ view'[s][m] = "none" <=> view[s][m] = "none"
             /\ view'[s][m] = "old" =>
                   view[s][m] = "old" \/ (m = n /\ n \in exists /\ view[s][m] # "none")
  <2>1. CASE n \in exists
    <3>1. view'[s] = [view[s] EXCEPT ![n] = IF view[s][n] = "none" THEN view[s][n] ELSE "old"]
      BY <1>1, <2>1 DEF Write
    <3>2. view'[s][m] = IF m = n /\ view[s][n] # "none" THEN "old" ELSE view[s][m]
      BY <1>2, <3>1
    <3> QED
      BY <2>1, <3>2
  <2>2. CASE n \notin exists
    BY <1>1, <2>2 DEF Write
  <2> QED
    BY <2>1, <2>2
<1>8. ReadersCare'
  BY <1>3, <1>7 DEF KnowInv, ReadersCare
<1>9. NewKnowNothing'
  BY <1>3, <1>7 DEF KnowInv, NewKnowNothing
<1>10. OldMeansCare'
  BY <1>3, <1>7 DEF KnowInv, OldMeansCare, ReadersCare
<1>11. ASSUME NEW s \in Session, NEW m \in Node, Registered(s)', view'[s][m] = "old"
       PROVE  \E u \in Call : call'[u].node = m /\ Reaches(u, s)'
  <2>1. CASE view[s][m] = "old"
    <3>1. Registered(s)
      BY <1>3, <1>11 DEF Registered
    <3>2. PICK u \in Call : call[u].node = m /\ Reaches(u, s)
      BY <2>1, <3>1 DEF KnowInv, OldIsAnnounced
    <3> QED
      BY <1>6, <3>2
  <2>2. CASE m = n /\ n \in exists
    BY <1>5, <2>2 DEF Reaches
  <2> QED
    BY <1>7, <1>11, <2>1, <2>2
<1>12. OldIsAnnounced'
  BY <1>11 DEF OldIsAnnounced
<1> QED
  BY <1>8, <1>9, <1>10, <1>12

\* A loop tells whom it comes to, and passes by only who does not care and so
\* has nothing old.
LEMMA LoopReaches ==
    ASSUME NamesAssumption, KnowInv, NEW t \in Call, StartLoop(t) \/ LoopStep(t),
           NEW s \in Session, Registered(s), Reaches(t, s),
           view[s][call[t].node] = "old", view'[s][call[t].node] = "old"
    PROVE  Reaches(t, s)'
<1>1. /\ call[t] \in CallState /\ call \in [Call -> CallState]
      /\ slots \in Seq(Session \cup {None}) /\ None \notin Session
      /\ view \in [Session -> [Node -> {"none", "latest", "old", "told"}]]
  BY DEF KnowInv, NotifyInv, TypeOK, NamesAssumption
<1>2. LoopFrame(t)
  BY LoopUntold DEF KnowInv
<1>3. PICK n \in Node : n = call[t].node
  BY <1>2 DEF LoopFrame, KnowInv, NotifyInv, Iterators
<1>4. /\ slots' = slots /\ call'[t].lost = call[t].lost
      /\ turn = t => call[t].stage = "loop"
      /\ call[t].stage \notin {"loop", "writing"} => call[t].pos = 1
      /\ care[s][n] # "no"
  BY <1>2, <1>3 DEF LoopFrame, KnowInv, NotifyInv, Iterators, OldMeansCare
<1>5. ASSUME Told(t, s) PROVE FALSE
  BY <1>1, <1>3, <1>5 DEF Told
<1>6. ASSUME call[t].lost PROVE Reaches(t, s)'
  BY <1>4, <1>6 DEF Reaches
<1>7. CASE StartLoop(t)
  <2>1. call'[t].stage = "loop" /\ call'[t].pos = call[t].pos /\ call[t].pos = 1
    BY <1>1, <1>4, <1>7 DEF StartLoop, CallState
  <2> QED
    BY <1>1, <1>4, <2>1 DEF Registered, Reaches, Ahead
<1>8. ASSUME NEW i \in DOMAIN slots, At(t, i), ~call[t].lost
      PROVE  /\ i \in Nat
             /\ \E j \in DOMAIN slots : j \in Nat /\ slots[j] = s /\ i <= j
  <2>1. call[t].stage = "loop"
    BY <1>4, <1>8 DEF At
  <2>2. PICK j \in DOMAIN slots : j >= call[t].pos /\ slots[j] = s
    BY <1>8, <2>1 DEF Reaches, Ahead
  <2>3. j \in Rest(t)
    BY <1>1, <2>2 DEF Rest
  <2> QED
    BY <1>1, <1>8, <2>2, <2>3 DEF At
<1>9. ASSUME NEW i \in DOMAIN slots, ~call[t].lost, At(t, i), slots[i] # s,
             call'[t].stage \in {"loop", "writing"}, call'[t].pos = i + 1
      PROVE  Reaches(t, s)'
  <2>1. PICK j \in DOMAIN slots : i \in Nat /\ j \in Nat /\ slots[j] = s /\ i <= j
    BY <1>8, <1>9
  <2>2. j >= i + 1
    BY <1>9, <2>1
  <2>3. Ahead(t, s)'
    BY <1>4, <1>9, <2>1, <2>2 DEF Ahead
  <2> QED
    BY <1>9, <2>3 DEF Reaches
<1>10. ASSUME NEW i \in DOMAIN slots, ~call[t].lost, Passes(t, i)
       PROVE  Reaches(t, s)'
  <2>1. At(t, i) /\ slots[i] # s
    BY <1>3, <1>4, <1>10 DEF Passes, Cares
  <2>2. call'[t].stage = "loop" /\ call'[t].pos = i + 1
    BY <1>1, <1>4, <1>10, <2>1 DEF Passes, At, After, CallState
  <2> QED
    BY <1>9, <1>10, <2>1, <2>2
<1>11. ASSUME NEW i \in DOMAIN slots, ~call[t].lost, Tells(t, i)
       PROVE  Reaches(t, s)'
  <2>1. At(t, i) /\ slots[i] # s
    BY <1>5, <1>11 DEF Tells
  <2>2. call'[t].stage = "loop" /\ call'[t].pos = i + 1
    BY <1>1, <1>4, <1>11, <2>1 DEF Tells, At, After, CallState
  <2> QED
    BY <1>9, <1>11, <2>1, <2>2
<1>12. ASSUME NEW i \in DOMAIN slots, ~call[t].lost, Suspends(t, i)
       PROVE  Reaches(t, s)'
  <2>1. /\ At(t, i) /\ call'[t].stage = "writing" /\ call'[t].pos = i + 1
        /\ call'[t].to = slots[i]
    BY <1>1, <1>12 DEF Suspends, After, CallState
  <2>2. CASE slots[i] = s
    BY <2>1, <2>2 DEF Reaches
  <2>3. CASE slots[i] # s
    BY <1>9, <1>12, <2>1, <2>3
  <2> QED
    BY <2>2, <2>3
<1>13. ASSUME Resumes(t), ~call[t].lost
       PROVE  Reaches(t, s)'
  <2>1. call[t].to # s /\ call[t].stage = "writing"
    BY <1>5, <1>13 DEF Resumes
  <2>2. call'[t].stage = "loop" /\ call'[t].pos = call[t].pos
    BY <1>1, <1>13 DEF Resumes, CallState
  <2>3. Ahead(t, s)
    BY <1>13, <2>1 DEF Reaches
  <2> QED
    BY <1>4, <2>2, <2>3 DEF Reaches, Ahead
<1>14. CASE CutShort(t)
  <2>1. call'[t].stage = "cut"
    BY <1>1, <1>14 DEF CutShort, Over, CallState
  <2> QED
    BY <2>1 DEF Reaches
<1>15. ASSUME EndLoop(t), ~call[t].lost
       PROVE  FALSE
  <2>1. call[t].stage = "loop" /\ Rest(t) = {}
    BY <1>4, <1>15 DEF EndLoop
  <2>2. PICK j \in DOMAIN slots : j >= call[t].pos /\ slots[j] = s
    BY <1>15, <2>1 DEF Reaches, Ahead
  <2> QED
    BY <1>1, <2>1, <2>2 DEF Rest
<1> QED
  BY <1>6, <1>7, <1>10, <1>11, <1>12, <1>13, <1>14, <1>15 DEF LoopStep

\* What a loop does to clients is to tell them.
LEMMA LoopLearns ==
    ASSUME NamesAssumption, KnowInv, NEW t \in Call, StartLoop(t) \/ LoopStep(t)
    PROVE  Learns
<1>1. LoopFrame(t)
  BY LoopUntold DEF KnowInv
<1>2. /\ UNCHANGED <<slots, link, exists>> /\ call'[t].node = call[t].node
      /\ \A u \in Call : u # t => call'[u] = call[u]
      /\ call[t].node \in Node /\ call[t].stage \in {"committed", "loop", "writing"}
  BY <1>1 DEF LoopFrame, KnowInv, NotifyInv, Iterators
<1>3. /\ care \in [Session -> [Node -> Care]]
      /\ view \in [Session -> [Node -> {"none", "latest", "old", "told"}]]
  BY DEF KnowInv, NotifyInv, TypeOK
<1>4. reading' = reading
  BY DEF StartLoop, LoopStep, Passes, Tells, Suspends, Resumes, CutShort, EndLoop, clientVars
<1>5. \/ UNCHANGED <<care, view>>
      \/ \E s \in Session : Told(t, s)
  <2>1. ASSUME NEW i \in DOMAIN slots, Tells(t, i)
        PROVE  \E s \in Session : Told(t, s)
    BY <2>1, SlotIsSession DEF Tells, At, Rest, KnowInv, NotifyInv
  <2>2. ASSUME Resumes(t)
        PROVE  \E s \in Session : Told(t, s)
    BY <2>2 DEF Resumes, KnowInv, NotifyInv, Iterators
  <2> QED
    BY <2>1, <2>2 DEF StartLoop, LoopStep, Passes, Suspends, CutShort, EndLoop, clientVars
<1>6. call[t].kind = "delete" => call[t].node \notin exists
  BY <1>2 DEF KnowInv, NotifyInv, Deletions, Past
<1>7. ASSUME NEW x \in Session, NEW m \in Node
      PROVE  /\ view'[x][m] = "old" => view[x][m] = "old"
             /\ view'[x][m] = "old" => care'[x][m] = care[x][m]
             /\ view'[x][m] = "none" <=> view[x][m] = "none"
             /\ care'[x][m] = care[x][m] \/ m \notin exists
  <2>1. CASE UNCHANGED <<care, view>>
    BY <2>1
  <2>2. ASSUME NEW s \in Session, Told(t, s)
        PROVE  /\ view'[x][m] = "old" => view[x][m] = "old"
               /\ view'[x][m] = "old" => care'[x][m] = care[x][m]
               /\ view'[x][m] = "none" <=> view[x][m] = "none"
               /\ care'[x][m] = care[x][m] \/ m \notin exists
    <3>1. PICK n \in Node : n = call[t].node
      BY <1>2
    <3>2. view'[x][m] = IF x = s /\ m = n /\ view[s][n] = "old" THEN "told" ELSE view[x][m]
      BY <1>3, <2>2, <3>1 DEF Told
    <3>3. care'[x][m] = care[x][m] \/ (call[t].kind = "delete" /\ x = s /\ m = n)
      BY <1>3, <2>2, <3>1 DEF Told
    <3> QED
      BY <1>6, <3>1, <3>2, <3>3
  <2> QED
    BY <1>5, <2>1, <2>2
<1>8. \A x \in Session : Registered(x)' => Registered(x)
  BY <1>2 DEF Registered
<1>9. ASSUME NEW x \in Session, link'[x] = "none" PROVE link[x] = "none" /\ view'[x] = view[x]
  <2>1. link[x] = "none" /\ \A m \in Node : view[x][m] = "none"
    BY <1>2, <1>9 DEF KnowInv, NewKnowNothing
  <2>2. \A m \in Node : view'[x][m] = view[x][m]
    BY <1>7, <2>1
  <2>3. view'[x] \in [Node -> {"none", "latest", "old", "told"}]
    BY NotifyStep DEF KnowInv, NotifyInv, TypeOK, Next
  <2> QED
    BY <1>3, <2>1, <2>2, <2>3
<1>10. ASSUME NEW u \in Call, NEW x \in Session, Registered(x)', Reaches(u, x),
              view'[x][call[u].node] = "old"
       PROVE  Reaches(u, x)' /\ call'[u].node = call[u].node
  <2>1. CASE u # t
    BY <1>2, <1>10, <2>1 DEF Reaches, Ahead
  <2>2. CASE u = t
    <3>1. Registered(x) /\ view[x][call[t].node] = "old"
      BY <1>2, <1>7, <1>8, <1>10, <2>2
    <3> QED
      BY <1>2, <1>10, <2>2, <3>1, LoopReaches
  <2> QED
    BY <2>1, <2>2
<1>11. ASSUME NEW x \in Session, NEW m \in Node, view'[x][m] # "none" \/ reading'[x] = m
       PROVE  \/ care'[x][m] = "before"
              \/ m \notin exists
              \/ care[x][m] # "before" /\ (view[x][m] # "none" \/ reading[x] = m)
  BY <1>4, <1>7, <1>11 DEF KnowInv, ReadersCare
<1> QED
  BY <1>2, <1>4, <1>7, <1>8, <1>9, <1>10, <1>11 DEF Learns

LEMMA KnowInit == NamesAssumption /\ Init => KnowInv
<1> SUFFICES ASSUME NamesAssumption, Init
             PROVE  KnowInv
  OBVIOUS
<1>1. NotifyInv
  BY NotifyInit
<1>2. \A s \in Session :
          reading[s] = None /\ \A n \in Node : view[s][n] = "none" /\ reading[s] # n
  BY DEF Init, NamesAssumption
<1> QED
  BY <1>1, <1>2 DEF KnowInv, ReadersCare, NewKnowNothing, OldMeansCare, OldIsAnnounced

LEMMA KnowStep == NamesAssumption /\ KnowInv /\ [Next]_vars => KnowInv'
<1> SUFFICES ASSUME NamesAssumption, KnowInv, [Next]_vars
             PROVE  KnowInv'
  OBVIOUS
<1>1. NotifyInv'
  BY NotifyStep DEF KnowInv
<1>2. CASE UNCHANGED vars
  <2>1. /\ ReadersCare' /\ NewKnowNothing' /\ OldMeansCare'
        /\ \A s \in Session : Registered(s)' <=> Registered(s)
        /\ call' = call /\ view' = view
    BY <1>2 DEF vars, KnowInv, ReadersCare, NewKnowNothing, OldMeansCare, Registered
  <2>2. \A t \in Call, s \in Session : Reaches(t, s)' <=> Reaches(t, s)
    BY <1>2, ReachesUnchanged DEF vars
  <2>3. OldIsAnnounced'
    BY <2>1, <2>2 DEF KnowInv, OldIsAnnounced
  <2> QED
    BY <1>1, <2>1, <2>3 DEF KnowInv
<1>3. CASE Learns
  BY <1>1, <1>3, Learning DEF KnowInv
<1>4. ASSUME NEW t \in Call, Write(t)
      PROVE  KnowInv'
  BY <1>1, <1>4, WriteAnnounces DEF KnowInv
<1> QED
  BY <1>2, <1>3, <1>4, SessionLearns, DiscardLearns, ConnectLearns, AskLearns, LoopLearns DEF Next

\* What was read for a client that cared first is the node as it is, or a loop
\* told the client since, or one has still to come or failed.
THEOREM ReadersAreTold == Spec => []KnowsOrTold
<1>1. KnowInv => KnowsOrTold
  <2> SUFFICES ASSUME KnowInv, NEW s \in Session, NEW n \in Node, Registered(s),
                      view[s][n] = "old"
               PROVE  Unannounced(n)
    BY DEF KnowsOrTold
  <2>1. PICK t \in Call : call[t].node = n /\ Reaches(t, s)
    BY DEF KnowInv, OldIsAnnounced
  <2> QED
    BY <2>1 DEF Reaches, Unannounced
<1> QED
  BY <1>1, KnowInit, KnowStep, NamesAssumption, PTL DEF Spec
=============================================================================
