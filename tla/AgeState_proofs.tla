--------------------------- MODULE AgeState_proofs ---------------------------
(* A change of the state of an age or of one of its objects is only ever   *)
(* undone by one that overlapped with it, or hidden by the SDL node of the *)
(* age's set-up; a client that keeps to the order of requests is only cut  *)
(* off by a blob; and what a request is answered with is complete: for any *)
(* number of clients, objects and messages.                                *)
EXTENDS AgeState, FiniteSetTheorems, TLAPS

USE DEF setup

-----------------------------------------------------------------------------
(* The first element of a set of keys: the shortest of the intervals that  *)
(* end in one of them.                                                     *)

LEMMA MinIsFirst ==
    ASSUME NEW S \in SUBSET Nat, S # {}
    PROVE  Min(S) \in S /\ \A n \in S : Min(S) <= n
  <1> DEFINE T == {0..n : n \in S}
  <1>1. T \subseteq FiniteSubsetsOf(Nat) /\ T # {}
    <2>1. ASSUME NEW n \in S PROVE 0..n \in SUBSET Nat /\ IsFiniteSet(0..n)
      BY FS_Interval
    <2> QED BY <2>1 DEF FiniteSubsetsOf
  <1> HIDE DEF T
  <1>2. PICK x \in T : \A y \in T : ~(<<y, x>> \in StrictSubsetOrdering(Nat))
    BY <1>1, FS_StrictSubsetOrderingWellFounded, WFMin
  <1>3. PICK m \in S : x = 0..m
    BY DEF T
  <1>4. ASSUME NEW n \in S PROVE m <= n
    <2> SUFFICES ASSUME n < m PROVE FALSE
      OBVIOUS
    <2>1. 0..n \in T /\ 0..n \in SUBSET Nat /\ 0..m \in SUBSET Nat
      BY DEF T
    <2>2. 0..n \subseteq 0..m /\ m \in 0..m /\ m \notin 0..n
      OBVIOUS
    <2>3. <<0..n, 0..m>> \in StrictSubsetOrdering(Nat)
      BY <2>1, <2>2 DEF StrictSubsetOrdering
    <2> QED BY <1>2, <1>3, <2>1, <2>3
  <1> QED BY <1>4 DEF Min

-----------------------------------------------------------------------------
(* Types, and which work belongs to which stage.                           *)

HookStages == {"findNode", "createNode", "refNode", "fetchNode", "updateNode"}
ObjectStages == {"fetchState", "saveState"}
WithNode == {"refNode", "fetchNode", "updateNode", "requestFetch"}

Work == [obj : Target \cup {None}, version : Nat, vars : SUBSET Var, node : Nat,
         fetched : Blob, company : SUBSET Conn, row : Object \cup {None},
         blob : Blob, count : Nat, sent : SUBSET (Target \X Nat),
         owed : SUBSET (Target \X Nat)]

Client == [joined : BOOLEAN, prefix : BOOLEAN, locks : SUBSET Object,
           left : BOOLEAN, loaded : BOOLEAN, orderly : BOOLEAN,
           end : {"none", "left", "crash", "blob", "protocol", "uncaught"},
           messages : 0..MaxMessages]

\* A change's handler is in a stage for its target, and all stages but the
\* first ones know the node.
FitsOf(c) ==
    /\ handler[c].stage \in HookStages <=> handler[c].work.obj = Hook
    /\ handler[c].stage \in ObjectStages <=> handler[c].work.obj \in Object
    /\ handler[c].stage \in WithNode => handler[c].work.node \in DOMAIN nodes

Fits == \A c \in Conn : FitsOf(c)

Sound == TypeOK /\ Fits

LEMMA Kinds ==
    /\ NoBlob \in Blob /\ NoWork \in Work
    /\ None \notin Target /\ Hook \in Target /\ Object \subseteq Target /\ Hook \notin Object
    /\ Object \subseteq Nat /\ 0 \notin Object
    /\ \A c \in Conn : c # None
    /\ \A m \in Message : m \in Messages
    /\ MaxMessages \in Nat /\ MaxCrashes \in Nat
  <1>1. NoBlob \in Blob
    BY DEF NoBlob, Blob
  <1>2. NoWork \in Work
    BY <1>1 DEF NoWork, Work
  <1> QED BY <1>1, <1>2, NamesAssumption DEF NamesAssumption, Target

LEMMA FoundIsFirst ==
    ASSUME TypeOK
    PROVE  /\ Found \in Nat
           /\ Found = 0 <=> refs = {}
           /\ Found # 0 => Found \in refs /\ Found \in DOMAIN nodes
           /\ \A r \in refs : Found <= r
  <1>1. refs \in SUBSET Nat /\ refs \subseteq DOMAIN nodes /\ 0 \notin refs
    BY DEF TypeOK
  <1> QED BY <1>1, MinIsFirst DEF Found

LEMMA FirstRow ==
    ASSUME NEW o \in Nat
    PROVE  /\ NextRow(o) \in Object \cup {None}
           /\ NextRow(o) # None =>
                /\ NextRow(o) > o /\ IsBlob(objs[NextRow(o)])
                /\ \A p \in Object : p > o /\ IsBlob(objs[p]) => NextRow(o) <= p
           /\ NextRow(o) = None => \A p \in Object : p > o => ~IsBlob(objs[p])
  <1> DEFINE rest == {p \in Object : p > o /\ IsBlob(objs[p])}
  <1>1. rest \in SUBSET Nat /\ rest \subseteq Object
    BY Kinds
  <1>2. rest # {} => Min(rest) \in rest /\ \A p \in rest : Min(rest) <= p
    BY <1>1, MinIsFirst
  <1>3. NextRow(o) = IF rest = {} THEN None ELSE Min(rest)
    BY DEF NextRow
  <1>4. None \notin Object
    BY Kinds
  <1> QED BY <1>2, <1>3, <1>4

\* What a message's handler starts with.
LEMMA WorkBegins ==
    ASSUME TypeOK, NEW c \in Conn, NEW m \in Message
    PROVE  /\ Working(c, m) \in Work
           /\ Begins(m) \in Stage
           /\ Begins(m) \in HookStages <=> (Begins(m) # "idle" /\ Working(c, m).obj = Hook)
           /\ Begins(m) \in ObjectStages <=> (Begins(m) # "idle" /\ Working(c, m).obj \in Object)
           /\ Begins(m) \notin WithNode
  <1> USE Kinds
  <1>1. m \in Messages
    OBVIOUS
  <1>2. \A o \in Target : Saved(o) \in Blob
    BY FoundIsFirst DEF Saved, TypeOK, Target
  <1>3. {<<o, Saved(o).saves>> : o \in {p \in Target : IsBlob(Saved(p))}} \in SUBSET (Target \X Nat)
    BY <1>2 DEF Blob
  <1>4. UnderWayOn(m.obj) \in SUBSET Conn
    BY DEF UnderWayOn
  <1>5. m.kind = "change" =>
            m.obj \in Target /\ m.version \in Nat /\ m.vars \in SUBSET Var
            /\ (m.obj = Hook \/ m.obj \in Object)
    BY <1>1 DEF Messages, Target
  <1>6. Working(c, m) \in Work
    BY <1>3, <1>4, <1>5 DEF Working, NoWork, Work
  <1>7. NoWork.obj = None
    BY DEF NoWork
  <1>8. m.kind = "change" => Working(c, m).obj = m.obj
    BY DEF Working, NoWork
  <1>9. m.kind # "change" => Working(c, m).obj = None
    BY DEF Working, NoWork
  <1>10. Begins(m) \in Stage /\ Begins(m) \notin WithNode
    BY DEF Begins, Stage, WithNode
  <1>11. /\ Begins(m) \in HookStages <=> (Begins(m) # "idle" /\ m.kind = "change" /\ m.obj = Hook)
         /\ Begins(m) \in ObjectStages <=>
                (Begins(m) # "idle" /\ m.kind = "change" /\ m.obj \in Object)
    BY <1>5 DEF Begins, HookStages, ObjectStages
  <1> QED BY <1>6, <1>8, <1>9, <1>10, <1>11

LEMMA Going ==
    TypeOK => \A c \in Conn : \A stage \in Stage : \A w \in Work :
        Goes(c, stage, w) =>
            /\ handler' \in [Conn -> [stage : Stage, work : Work]]
            /\ handler'[c] = [stage |-> stage, work |-> w]
            /\ \A d \in Conn \ {c} : handler'[d] = handler[d]
  BY DEF Goes, TypeOK, Work

LEMMA Finishing ==
    TypeOK => \A c \in Conn : Finishes(c) =>
        /\ handler' \in [Conn -> [stage : Stage, work : Work]]
        /\ handler'[c] = [stage |-> "idle", work |-> NoWork]
        /\ \A d \in Conn \ {c} : handler'[d] = handler[d]
  BY Going, Kinds DEF Finishes, Stage

LEMMA Ending ==
    TypeOK => \A c \in Conn : Finishes(c) \/ (\E end : Fails(c, end)) =>
        /\ handler' \in [Conn -> [stage : Stage, work : Work]]
        /\ handler'[c].stage \in {"idle", "closed"} /\ handler'[c].work = NoWork
        /\ \A d \in Conn \ {c} : handler'[d] = handler[d]
  <1> SUFFICES ASSUME TypeOK, NEW c \in Conn,
                      Goes(c, "idle", NoWork) \/ Goes(c, "closed", NoWork)
               PROVE  /\ handler' \in [Conn -> [stage : Stage, work : Work]]
                      /\ handler'[c].stage \in {"idle", "closed"}
                      /\ handler'[c].work = NoWork
                      /\ \A d \in Conn \ {c} : handler'[d] = handler[d]
    BY Zenon DEF Fails, Finishes
  <1>1. "idle" \in Stage /\ "closed" \in Stage /\ NoWork \in Work
    BY Kinds DEF Stage
  <1>2. PICK stage \in Stage : stage \in {"idle", "closed"} /\ Goes(c, stage, NoWork)
    BY <1>1
  <1>3. /\ handler' \in [Conn -> [stage : Stage, work : Work]]
        /\ handler'[c] = [stage |-> stage, work |-> NoWork]
        /\ \A d \in Conn \ {c} : handler'[d] = handler[d]
    BY <1>1, <1>2, Going
  <1> QED BY <1>2, <1>3

LEMMA HandlerTypes ==
    ASSUME TypeOK, NEW c \in Conn
    PROVE  /\ handler[c] \in [stage : Stage, work : Work]
           /\ handler[c].stage \in Stage /\ handler[c].work \in Work
           /\ handler[c] = [stage |-> handler[c].stage, work |-> handler[c].work]
           /\ handler[c].work.obj \in Target \cup {None} /\ handler[c].work.vars \in SUBSET Var
           /\ handler[c].work.version \in Nat /\ handler[c].work.node \in Nat
           /\ handler[c].work.fetched \in Blob /\ handler[c].work.blob \in Blob
           /\ handler[c].work.company \in SUBSET Conn
           /\ handler[c].work.row \in Object \cup {None}
           /\ handler[c].work.count \in Nat
           /\ handler[c].work.sent \in SUBSET (Target \X Nat)
           /\ handler[c].work.owed \in SUBSET (Target \X Nat)
  <1>1. handler[c] \in [stage : Stage, work : Work]
    BY DEF TypeOK, Work
  <1>2. handler[c].work \in Work
    BY <1>1
  <1> QED BY <1>1, <1>2 DEF Work

\* What is saved by a change is a blob.
LEMMA BlobsAreSaved ==
    ASSUME TypeOK, NEW c \in Conn, NEW old \in Blob
    PROVE  /\ Stored(old, Applied(handler[c].work, c)) \in Blob
           /\ IsBlob(Stored(old, Applied(handler[c].work, c)))
           /\ \A v \in Var : Stored(old, Applied(handler[c].work, c)).vars[v] =
                IF v \in handler[c].work.vars THEN c ELSE handler[c].work.fetched.vars[v]
  <1>1. Applied(handler[c].work, c).version \in Nat
    BY HandlerTypes DEF Applied
  <1>2. Applied(handler[c].work, c).vars =
            [v \in Var |-> IF v \in handler[c].work.vars THEN c
                           ELSE handler[c].work.fetched.vars[v]]
    BY DEF Applied
  <1>3. Applied(handler[c].work, c).vars \in [Var -> Conn \cup {None}]
    <2>1. handler[c].work.fetched.vars \in [Var -> Conn \cup {None}]
      BY HandlerTypes DEF Blob
    <2> QED BY <1>2, <2>1
  <1>4. old.saves \in Nat
    BY DEF Blob
  <1> QED BY <1>1, <1>2, <1>3, <1>4 DEF Stored, Blob, IsBlob

\* A new value for a member of a handler's work leaves the others as they are.
LEMMA WorkChanges ==
    ASSUME NEW w \in Work
    PROVE  /\ \A n \in Nat : /\ [w EXCEPT !.node = n] \in Work
                             /\ [w EXCEPT !.node = n].node = n
                             /\ [w EXCEPT !.node = n].obj = w.obj
                             /\ [w EXCEPT !.node = n].vars = w.vars
                             /\ [w EXCEPT !.node = n].company = w.company
                             /\ [w EXCEPT !.node = n].owed = w.owed
                             /\ [w EXCEPT !.node = n].sent = w.sent
                             /\ [w EXCEPT !.node = n].count = w.count
           /\ \A b \in Blob : /\ [w EXCEPT !.fetched = b] \in Work
                              /\ [w EXCEPT !.fetched = b].fetched = b
                              /\ [w EXCEPT !.fetched = b].obj = w.obj
                              /\ [w EXCEPT !.fetched = b].node = w.node
                              /\ [w EXCEPT !.fetched = b].vars = w.vars
                              /\ [w EXCEPT !.fetched = b].company = w.company
  BY DEF Work

LEMMA CompanyChanges ==
    ASSUME NEW w \in Work, NEW cs \in SUBSET Conn
    PROVE  /\ [w EXCEPT !.company = cs] \in Work
           /\ [w EXCEPT !.company = cs].company = cs
           /\ [w EXCEPT !.company = cs].obj = w.obj
           /\ [w EXCEPT !.company = cs].vars = w.vars
           /\ [w EXCEPT !.company = cs].node = w.node
           /\ [w EXCEPT !.company = cs].fetched = w.fetched
           /\ [w EXCEPT !.company = cs].owed = w.owed
           /\ [w EXCEPT !.company = cs].sent = w.sent
           /\ [w EXCEPT !.company = cs].count = w.count
           /\ [w EXCEPT !.company = cs].row = w.row
           /\ [w EXCEPT !.company = cs].blob = w.blob
  BY DEF Work

LEMMA Reads ==
    ASSUME TypeOK, NEW w \in Work, NEW o \in Object \cup {None}
    PROVE  /\ Reading(w, o) \in Work /\ Reading(w, o).obj = w.obj /\ Reading(w, o).row = o
           /\ Reading(w, o).sent = w.sent /\ Reading(w, o).count = w.count
           /\ Reading(w, o).owed = w.owed /\ Reading(w, o).company = w.company
           /\ o # None => Reading(w, o).blob = objs[o]
  <1>1. Reading(w, o) = [w EXCEPT !.row = o, !.blob = IF o = None THEN NoBlob ELSE objs[o]]
    BY DEF Reading
  <1>2. (IF o = None THEN NoBlob ELSE objs[o]) \in Blob
    BY Kinds DEF TypeOK
  <1> QED BY <1>1, <1>2, Kinds DEF Work

LEMMA Sends ==
    ASSUME NEW w \in Work, NEW o \in Target, NEW blob \in Blob
    PROVE  /\ Sending(w, o, blob) \in Work /\ Sending(w, o, blob).obj = w.obj
           /\ Sending(w, o, blob).node = w.node
           /\ Sending(w, o, blob).count = w.count + 1
           /\ Sending(w, o, blob).sent = w.sent \cup {<<o, blob.saves>>}
           /\ Sending(w, o, blob).owed = w.owed /\ Sending(w, o, blob).row = w.row
           /\ Sending(w, o, blob).blob = w.blob /\ Sending(w, o, blob).company = w.company
  <1>1. <<o, blob.saves>> \in Target \X Nat
    BY DEF Blob
  <1>2. Sending(w, o, blob) =
            [w EXCEPT !.count = w.count + 1, !.sent = w.sent \cup {<<o, blob.saves>>}]
    BY DEF Sending, Work
  <1>3. w.count + 1 \in Nat /\ w.sent \cup {<<o, blob.saves>>} \in SUBSET (Target \X Nat)
    BY <1>1 DEF Work
  <1> QED BY <1>2, <1>3 DEF Work

\* A step that changes nothing but what one handler does.
Alone(c) ==
    /\ UNCHANGED <<setup, nodes, refs, objs, mode, client, crashes>>
    /\ \A d \in Conn \ {c} : handler'[d] = handler[d]

LEMMA SoundAlone ==
    Sound => \A c \in Conn : \A stage \in Stage : \A w \in Work :
        /\ Goes(c, stage, w)
        /\ UNCHANGED <<setup, nodes, refs, objs, mode, client, crashes>>
        /\ stage \in HookStages <=> w.obj = Hook
        /\ stage \in ObjectStages <=> w.obj \in Object
        /\ stage \in WithNode => w.node \in DOMAIN nodes
        => Sound' /\ Alone(c)
  <1> SUFFICES ASSUME Sound, NEW c \in Conn, NEW stage \in Stage, NEW w \in Work,
                      Goes(c, stage, w),
                      UNCHANGED <<setup, nodes, refs, objs, mode, client, crashes>>,
                      stage \in HookStages <=> w.obj = Hook,
                      stage \in ObjectStages <=> w.obj \in Object,
                      stage \in WithNode => w.node \in DOMAIN nodes
               PROVE  Sound' /\ Alone(c)
    OBVIOUS
  <1>1. /\ handler' \in [Conn -> [stage : Stage, work : Work]]
        /\ handler'[c] = [stage |-> stage, work |-> w]
        /\ \A d \in Conn \ {c} : handler'[d] = handler[d]
    BY Going DEF Sound
  <1>2. TypeOK'
    BY <1>1 DEF Sound, TypeOK, Work
  <1>3. FitsOf(c)'
    BY <1>1 DEF FitsOf
  <1>4. ASSUME NEW d \in Conn, d # c PROVE FitsOf(d)'
    BY <1>1, <1>4 DEF Sound, Fits, FitsOf
  <1> QED BY <1>1, <1>2, <1>3, <1>4 DEF Sound, Fits, Alone

LEMMA SoundEnd ==
    Sound => \A c \in Conn :
        Finishes(c) /\ UNCHANGED <<setup, nodes, refs, objs, mode, client, crashes>>
        => Sound' /\ Alone(c)
  <1>1. "idle" \in Stage /\ "idle" \notin HookStages /\ "idle" \notin ObjectStages
        /\ "idle" \notin WithNode /\ NoWork \in Work /\ NoWork.obj = None
    BY Kinds DEF Stage, HookStages, ObjectStages, WithNode, NoWork
  <1> QED BY <1>1, SoundAlone, Kinds DEF Finishes

\* Steps that end a handler's work, and may change the client and its state.
LEMMA SoundEnding ==
    Sound => \A c \in Conn :
        /\ Finishes(c) \/ (\E end : Fails(c, end))
        /\ TypeOK' /\ DOMAIN nodes \subseteq DOMAIN nodes'
        => Sound'
  <1> SUFFICES ASSUME Sound, NEW c \in Conn,
                      Finishes(c) \/ (\E end : Fails(c, end)),
                      TypeOK', DOMAIN nodes \subseteq DOMAIN nodes'
               PROVE  Sound'
    OBVIOUS
  <1>1. /\ handler'[c].stage \in {"idle", "closed"} /\ handler'[c].work = NoWork
        /\ \A d \in Conn \ {c} : handler'[d] = handler[d]
    BY Ending DEF Sound
  <1>2. NoWork.obj = None
    BY DEF NoWork
  <1>3. FitsOf(c)'
    BY <1>1, <1>2, Kinds DEF FitsOf, HookStages, ObjectStages, WithNode
  <1>4. ASSUME NEW d \in Conn, d # c PROVE FitsOf(d)'
    BY <1>1, <1>4 DEF Sound, Fits, FitsOf
  <1> QED BY <1>3, <1>4 DEF Sound, Fits

LEMMA SoundFailing ==
    Sound => \A c \in Conn : \A end \in {"left", "blob", "protocol", "uncaught"} :
        Fails(c, end) => Sound'
  <1> SUFFICES ASSUME Sound, NEW c \in Conn, NEW end \in {"left", "blob", "protocol", "uncaught"},
                      Fails(c, end)
               PROVE  Sound'
    OBVIOUS
  <1>1. handler' \in [Conn -> [stage : Stage, work : Work]]
    BY Ending DEF Sound
  <1>2. UNCHANGED <<setup, nodes, refs, objs, mode, crashes>>
        /\ client' = [client EXCEPT ![c] = Ended(c, end)]
    BY DEF Fails
  <1>3. TypeOK'
    BY <1>1, <1>2 DEF Sound, TypeOK, Work, Ended, NoClient
  <1> QED BY <1>2, <1>3, SoundEnding

LEMMA SoundReceive ==
    Sound => \A c \in Conn : \A m \in Message : Receive(c, m) => Sound'
  <1> SUFFICES ASSUME Sound, NEW c \in Conn, NEW m \in Message, Receive(c, m)
               PROVE  Sound'
    OBVIOUS
  <1>1. PICK w \in Work : w = IF Begins(m) = "idle" THEN NoWork ELSE Working(c, m)
    BY WorkBegins, Kinds DEF Sound
  <1>2. /\ Begins(m) \in Stage
        /\ Begins(m) \in HookStages <=> w.obj = Hook
        /\ Begins(m) \in ObjectStages <=> w.obj \in Object
        /\ Begins(m) \notin WithNode
    <2>1. NoWork.obj \notin Target
      BY Kinds DEF NoWork
    <2>2. "idle" \notin HookStages /\ "idle" \notin ObjectStages
      BY DEF HookStages, ObjectStages
    <2> QED BY <1>1, <2>1, <2>2, WorkBegins, Kinds DEF Sound
  <1>3. UNCHANGED <<setup, nodes, refs, objs, mode, crashes>> /\ client[c].messages < MaxMessages
    BY DEF Receive
  <1>4. PICK heard : heard = [client[c] EXCEPT !.messages = client[c].messages + 1,
                                   !.orderly = client[c].orderly /\ Proper(c, m),
                                   !.loaded = client[c].loaded \/ Introduces(m)]
    OBVIOUS
  <1>5. heard.messages \in 0..MaxMessages /\ heard.orderly \in BOOLEAN
    BY <1>3, <1>4, Kinds DEF Sound, TypeOK, Proper
  <1>e. EndBy(c, m) \in {"blob", "protocol", "uncaught"}
    BY DEF EndBy
  <1>6. \/ \E end \in {"blob", "protocol", "uncaught"} :
              /\ client' = [client EXCEPT ![c] =
                              [NoClient EXCEPT !.messages = heard.messages,
                                               !.orderly = heard.orderly, !.end = end]]
              /\ Goes(c, "closed", NoWork)
        \/ /\ client' = [client EXCEPT ![c] =
                           [heard EXCEPT !.prefix = heard.prefix \/ Learns(c, m),
                                         !.locks = Locks(c, m)]]
           /\ handler' = [d \in Conn |->
                   IF d = c THEN [stage |-> Begins(m), work |-> w]
                   ELSE IF w.obj # None /\ d \in UnderWayOn(w.obj)
                        THEN [handler[d] EXCEPT !.work.company = handler[d].work.company \cup {c}]
                        ELSE handler[d]]
    BY <1>1, <1>4, <1>e DEF Receive
  <1>7. ASSUME NEW end \in {"blob", "protocol", "uncaught"},
               client' = [client EXCEPT ![c] =
                            [NoClient EXCEPT !.messages = heard.messages,
                                             !.orderly = heard.orderly, !.end = end]],
               Goes(c, "closed", NoWork)
        PROVE  Sound'
    <2>1. handler' \in [Conn -> [stage : Stage, work : Work]]
      BY <1>7, Going, Kinds DEF Sound, Stage
    <2>2. TypeOK'
      BY <1>3, <1>5, <1>7, <2>1 DEF Sound, TypeOK, Work, NoClient
    <2>4. /\ handler'[c] = [stage |-> "closed", work |-> NoWork]
          /\ \A d \in Conn \ {c} : handler'[d] = handler[d]
      BY <1>7, Going, Kinds DEF Sound, Stage
    <2>5. FitsOf(c)'
      <3>1. NoWork.obj = None
        BY DEF NoWork
      <3>2. handler'[c].stage = "closed" /\ handler'[c].work.obj = None
        BY <2>4, <3>1
      <3> QED BY <3>2, Kinds DEF FitsOf, HookStages, ObjectStages, WithNode
    <2>6. ASSUME NEW d \in Conn, d # c PROVE FitsOf(d)'
      BY <1>3, <2>4, <2>6 DEF Sound, Fits, FitsOf
    <2> QED BY <2>2, <2>5, <2>6 DEF Sound, Fits
  <1>8. ASSUME client' = [client EXCEPT ![c] =
                            [heard EXCEPT !.prefix = heard.prefix \/ Learns(c, m),
                                          !.locks = Locks(c, m)]],
               handler' = [d \in Conn |->
                   IF d = c THEN [stage |-> Begins(m), work |-> w]
                   ELSE IF w.obj # None /\ d \in UnderWayOn(w.obj)
                        THEN [handler[d] EXCEPT !.work.company = handler[d].work.company \cup {c}]
                        ELSE handler[d]]
        PROVE  Sound'
    <2>1. \A d \in Conn :
             /\ handler'[d] \in [stage : Stage, work : Work]
             /\ d = c => handler'[d] = [stage |-> Begins(m), work |-> w]
             /\ d # c => /\ handler'[d].stage = handler[d].stage
                         /\ handler'[d].work.obj = handler[d].work.obj
                         /\ handler'[d].work.node = handler[d].work.node
      <3> SUFFICES ASSUME NEW d \in Conn
                   PROVE  /\ handler'[d] \in [stage : Stage, work : Work]
                          /\ d = c => handler'[d] = [stage |-> Begins(m), work |-> w]
                          /\ d # c => /\ handler'[d].stage = handler[d].stage
                                      /\ handler'[d].work.obj = handler[d].work.obj
                                      /\ handler'[d].work.node = handler[d].work.node
        OBVIOUS
      <3>1. PICK cs \in SUBSET Conn : cs = handler[d].work.company \cup {c}
        BY HandlerTypes DEF Sound
      <3>2. /\ [handler[d].work EXCEPT !.company = cs] \in Work
            /\ [handler[d].work EXCEPT !.company = cs].obj = handler[d].work.obj
            /\ [handler[d].work EXCEPT !.company = cs].node = handler[d].work.node
        <4>1. handler[d].work \in Work
          BY HandlerTypes DEF Sound
        <4> QED BY <4>1, CompanyChanges
      <3>3. PICK h \in [stage : Stage, work : Work] : h = handler[d]
        BY HandlerTypes DEF Sound
      <3>4. [h EXCEPT !.work.company = cs] =
                [stage |-> h.stage, work |-> [h.work EXCEPT !.company = cs]]
        BY <3>3
      <3>5. PICK k \in Work : /\ k = [h.work EXCEPT !.company = cs]
                              /\ k.obj = h.work.obj /\ k.node = h.work.node
        BY <3>2, <3>3
      <3>6. CASE d = c
        <4>1. handler'[d] = [stage |-> Begins(m), work |-> w]
          BY <1>8, <3>6
        <4> QED BY <1>2, <3>6, <4>1
      <3>7. CASE d # c /\ handler'[d] = [stage |-> h.stage, work |-> k]
        <4>1. handler'[d].stage = h.stage /\ handler'[d].work = k
          BY <3>7
        <4>2. handler'[d] \in [stage : Stage, work : Work]
          BY <3>3, <3>5, <3>7
        <4> QED BY <3>3, <3>5, <3>7, <4>1, <4>2
      <3>8. CASE d # c /\ handler'[d] = handler[d]
        BY <3>3, <3>8
      <3>9. \/ d = c
            \/ d # c /\ handler'[d] = [handler[d] EXCEPT !.work.company = cs]
            \/ d # c /\ handler'[d] = handler[d]
        BY <1>8, <3>1
      <3>10. [handler[d] EXCEPT !.work.company = cs] = [stage |-> h.stage, work |-> k]
        BY <3>3, <3>4, <3>5
      <3> QED BY <3>6, <3>7, <3>8, <3>9, <3>10
    <2>2. handler' \in [Conn -> [stage : Stage, work : Work]]
      BY <1>8, <2>1
    <2>3. heard.locks \in SUBSET Object /\ Locks(c, m) \in SUBSET Object
      <3>1. m.kind \in {"lock", "unlock"} => m.obj \in Object
        BY Kinds DEF Messages
      <3>2. client[c].locks \in SUBSET Object
        BY DEF Sound, TypeOK
      <3> QED BY <1>4, <3>1, <3>2 DEF Locks, Sound, TypeOK
    <2>4. TypeOK'
      <3>1. client'[c] \in [joined : BOOLEAN, prefix : BOOLEAN, locks : SUBSET Object,
                            left : BOOLEAN, loaded : BOOLEAN, orderly : BOOLEAN,
                            end : {"none", "left", "crash", "blob", "protocol", "uncaught"},
                            messages : 0..MaxMessages]
        <4>1. PICK h \in [joined : BOOLEAN, prefix : BOOLEAN, locks : SUBSET Object,
                           left : BOOLEAN, loaded : BOOLEAN, orderly : BOOLEAN,
                           end : {"none", "left", "crash", "blob", "protocol", "uncaught"},
                           messages : Int] : h = heard
          <5>1. client[c] \in [joined : BOOLEAN, prefix : BOOLEAN, locks : SUBSET Object,
                             left : BOOLEAN, loaded : BOOLEAN, orderly : BOOLEAN,
                             end : {"none", "left", "crash", "blob", "protocol", "uncaught"},
                             messages : 0..MaxMessages]
            BY DEF Sound, TypeOK
          <5>2. (client[c].loaded \/ Introduces(m)) \in BOOLEAN
            BY <5>1 DEF Introduces
          <5>3. (client[c].orderly /\ Proper(c, m)) \in BOOLEAN
            OBVIOUS
          <5>4. client[c].messages + 1 \in Int
            BY <5>1
          <5> QED BY <1>4, <5>1, <5>2, <5>3, <5>4
        <4>2. (h.prefix \/ Learns(c, m)) \in BOOLEAN
          BY DEF Learns
        <4>3. client'[c] = [h EXCEPT !.prefix = h.prefix \/ Learns(c, m), !.locks = Locks(c, m)]
          BY <1>8, <4>1 DEF Sound, TypeOK
        <4> QED BY <1>5, <2>3, <4>1, <4>2, <4>3
      <3> QED BY <1>3, <1>8, <2>2, <3>1 DEF Sound, TypeOK, Work
    <2>5. FitsOf(c)'
      BY <1>2, <2>1 DEF FitsOf
    <2>6. ASSUME NEW d \in Conn, d # c PROVE FitsOf(d)'
      BY <1>3, <2>1, <2>6 DEF Sound, Fits, FitsOf
    <2> QED BY <2>4, <2>5, <2>6 DEF Sound, Fits
  <1> QED BY <1>6, <1>7, <1>8

\* What a handler of a change or a request does next, alone.
LEMMA SoundHandle ==
    Sound => \A c \in Conn : Handle(c) => Sound'
  <1> SUFFICES ASSUME Sound, NEW c \in Conn, Handle(c) PROVE Sound'
    OBVIOUS
  <1> USE DEF HookStages, ObjectStages, WithNode
  <1>w. PICK w \in Work : w = handler[c].work
    BY HandlerTypes DEF Sound
  <1>f. FitsOf(c)
    BY DEF Sound, Fits
  <1>1. CASE JoinAge(c)
    <2>1. CASE Goes(c, "joinInfo", handler[c].work)
               /\ UNCHANGED <<setup, nodes, refs, objs, mode, client, crashes>>
      <3>1. w.obj # Hook /\ w.obj \notin Object
        BY <1>1, <1>f, <1>w DEF JoinAge, FitsOf
      <3> QED BY <1>w, <2>1, <3>1, SoundAlone DEF Stage
    <2> QED BY <1>1, <2>1, SoundFailing DEF JoinAge
  <1>2. CASE JoinInfo(c)
    <2>1. CASE client' = [client EXCEPT ![c].joined = TRUE] /\ Finishes(c)
               /\ UNCHANGED <<setup, nodes, refs, objs, mode, crashes>>
      <3>1. handler' \in [Conn -> [stage : Stage, work : Work]]
        BY <2>1, Finishing DEF Sound
      <3>2. client' \in [Conn -> Client]
        <4>1. PICK k \in Client : k = client[c]
          BY DEF Sound, TypeOK, Client
        <4>2. [k EXCEPT !.joined = TRUE] \in Client
          BY DEF Client
        <4>3. client' = [client EXCEPT ![c] = [k EXCEPT !.joined = TRUE]]
          BY <2>1, <4>1
        <4> QED BY <4>2, <4>3 DEF Sound, TypeOK, Client
      <3>3. TypeOK'
        BY <2>1, <3>1, <3>2 DEF Sound, TypeOK, Work, Client
      <3> QED BY <2>1, <3>3, SoundEnding
    <2> QED BY <1>2, <2>1, SoundFailing DEF JoinInfo
  <1>3. CASE FindNode(c)
    <2>1. w.obj = Hook /\ UNCHANGED <<setup, nodes, refs, objs, mode, client, crashes>>
      BY <1>3, <1>f, <1>w DEF FindNode, FitsOf
    <2>2. CASE Goes(c, "createNode", w)
      BY <2>1, <2>2, SoundAlone, Kinds DEF Stage
    <2>3. CASE Found # 0 /\ Goes(c, "fetchNode", [w EXCEPT !.node = Found])
      <3>1. Found \in Nat /\ Found \in DOMAIN nodes
        BY <2>3, FoundIsFirst DEF Sound
      <3>2. PICK u \in Work : u = [w EXCEPT !.node = Found] /\ u.node = Found /\ u.obj = Hook
        BY <2>1, <3>1, WorkChanges
      <3> QED BY <2>1, <2>3, <3>1, <3>2, SoundAlone, Kinds DEF Stage
    <2> QED BY <1>3, <1>w, <2>2, <2>3 DEF FindNode
  <1>4. CASE CreateNode(c)
    <2>1. w.obj = Hook /\ nodes \in Seq(Blob)
      BY <1>4, <1>f, <1>w DEF CreateNode, FitsOf, Sound, TypeOK
    <2>2. NewNode \in Nat /\ NewNode = Len(nodes) + 1
      BY <2>1 DEF NewNode
    <2>3. PICK u \in Work : u = [w EXCEPT !.node = NewNode] /\ u.node = NewNode /\ u.obj = Hook
      BY <2>1, <2>2, WorkChanges
    <2>4. Append(nodes, NoBlob) \in Seq(Blob)
      BY <2>1, Kinds
    <2>5. Len(Append(nodes, NoBlob)) = Len(nodes) + 1
      BY <2>1
    <2>6. /\ DOMAIN nodes \subseteq DOMAIN nodes' /\ NewNode \in DOMAIN nodes'
          /\ 0..Len(nodes) \subseteq 0..Len(nodes')
      BY <1>4, <2>1, <2>2, <2>4, <2>5 DEF CreateNode
    <2>7. Goes(c, "refNode", u)
      BY <1>4, <1>w, <2>3 DEF CreateNode
    <2>8. /\ handler' \in [Conn -> [stage : Stage, work : Work]]
          /\ handler'[c] = [stage |-> "refNode", work |-> u]
          /\ \A d \in Conn \ {c} : handler'[d] = handler[d]
      BY <2>7, Going DEF Sound, Stage
    <2>9. TypeOK'
      BY <1>4, <2>4, <2>6, <2>8 DEF CreateNode, Sound, TypeOK, Work
    <2>10. FitsOf(c)'
      <3>1. /\ handler'[c].stage = "refNode"
            /\ handler'[c].work.obj = Hook /\ handler'[c].work.node = NewNode
        <4>1. handler'[c].stage = "refNode" /\ handler'[c].work = u
          BY <2>8
        <4>2. u.obj = Hook /\ u.node = NewNode
          BY <2>3
        <4> QED BY <4>1, <4>2, Zenon
      <3> QED BY <2>6, <3>1, Kinds DEF FitsOf
    <2>11. ASSUME NEW d \in Conn, d # c PROVE FitsOf(d)'
      BY <2>6, <2>8, <2>11 DEF Sound, Fits, FitsOf
    <2> QED BY <2>9, <2>10, <2>11 DEF Sound, Fits
  <1>5. CASE RefNode(c)
    <2>1. w.obj = Hook /\ w.node \in DOMAIN nodes
      BY <1>5, <1>f, <1>w DEF RefNode, FitsOf
    <2>2. Goes(c, "fetchNode", w)
      BY <1>5, <1>w DEF RefNode
    <2>3. /\ handler' \in [Conn -> [stage : Stage, work : Work]]
          /\ handler'[c] = [stage |-> "fetchNode", work |-> w]
          /\ \A d \in Conn \ {c} : handler'[d] = handler[d]
      BY <2>2, Going DEF Sound, Stage
    <2>4. TypeOK'
      BY <1>5, <1>w, <2>1, <2>3 DEF RefNode, Sound, TypeOK, Work
    <2>5. FitsOf(c)'
      BY <1>5, <2>1, <2>3, Kinds DEF FitsOf, RefNode
    <2>6. ASSUME NEW d \in Conn, d # c PROVE FitsOf(d)'
      BY <1>5, <2>3, <2>6 DEF Sound, Fits, FitsOf, RefNode
    <2> QED BY <2>4, <2>5, <2>6 DEF Sound, Fits
  <1>6. CASE FetchNode(c)
    <2>1. w.obj = Hook /\ w.node \in DOMAIN nodes
      BY <1>6, <1>f, <1>w DEF FetchNode, FitsOf
    <2>2. nodes[w.node] \in Blob
      BY <2>1 DEF Sound, TypeOK
    <2>3. PICK u \in Work : /\ u = [w EXCEPT !.fetched = nodes[w.node]]
                            /\ u.node = w.node /\ u.obj = Hook
      BY <2>1, <2>2, WorkChanges
    <2>4. \/ /\ Goes(c, "updateNode", u) \/ Finishes(c)
             /\ UNCHANGED <<setup, nodes, refs, objs, mode, client, crashes>>
          \/ Fails(c, "blob")
      BY <1>6, <1>w, <2>3 DEF FetchNode, Fetched
    <2> QED BY <2>1, <2>3, <2>4, SoundAlone, SoundEnd, SoundFailing, Kinds DEF Stage
  <1>7. CASE UpdateNode(c)
    <2>1. w.node \in DOMAIN nodes
      BY <1>7, <1>f, <1>w DEF UpdateNode, FitsOf
    <2>2. PICK b \in Blob : b = Stored(nodes[w.node], Applied(w, c))
      BY <1>w, <2>1, BlobsAreSaved DEF Sound, TypeOK
    <2>3. nodes' = [nodes EXCEPT ![w.node] = b]
      BY <1>7, <1>w, <2>2 DEF UpdateNode
    <2>4. nodes' \in Seq(Blob) /\ DOMAIN nodes' = DOMAIN nodes
      BY <2>1, <2>3 DEF Sound, TypeOK
    <2>5. TypeOK'
      <3>1. Len(nodes') = Len(nodes)
        BY <2>4 DEF Sound, TypeOK
      <3>2. handler' \in [Conn -> [stage : Stage, work : Work]]
        BY <1>7, Finishing DEF UpdateNode, Sound
      <3> QED BY <1>7, <2>4, <3>1, <3>2 DEF UpdateNode, Sound, TypeOK, Work
    <2> QED BY <1>7, <2>4, <2>5, SoundEnding DEF UpdateNode
  <1>8. CASE FetchState(c)
    <2>1. w.obj \in Object
      BY <1>8, <1>f, <1>w DEF FetchState, FitsOf
    <2>2. objs[w.obj] \in Blob
      BY <2>1 DEF Sound, TypeOK
    <2>3. PICK u \in Work : u = [w EXCEPT !.fetched = objs[w.obj]] /\ u.obj = w.obj
      BY <2>2, WorkChanges
    <2>4. \/ /\ Goes(c, "saveState", u) \/ Finishes(c)
             /\ UNCHANGED <<setup, nodes, refs, objs, mode, client, crashes>>
          \/ Fails(c, "blob")
      BY <1>8, <1>w, <2>3 DEF FetchState, Fetched
    <2> QED BY <2>1, <2>3, <2>4, SoundAlone, SoundEnd, SoundFailing, Kinds DEF Stage
  <1>9. CASE SaveState(c)
    <2>1. w.obj \in Object
      BY <1>9, <1>f, <1>w DEF SaveState, FitsOf
    <2>2. PICK b \in Blob : b = Stored(objs[w.obj], Applied(w, c))
      BY <1>w, <2>1, BlobsAreSaved DEF Sound, TypeOK
    <2>3. objs' = [objs EXCEPT ![w.obj] = b]
      BY <1>9, <1>w, <2>2 DEF SaveState
    <2>4. objs' \in [Object -> Blob]
      BY <2>1, <2>3 DEF Sound, TypeOK
    <2>5. Finishes(c) /\ UNCHANGED <<setup, nodes, refs, mode, client, crashes>>
      BY <1>9 DEF SaveState
    <2>6. handler' \in [Conn -> [stage : Stage, work : Work]]
      BY <2>5, Finishing DEF Sound
    <2>7. TypeOK'
      BY <2>4, <2>5, <2>6 DEF Sound, TypeOK, Work
    <2> QED BY <2>5, <2>7, SoundEnding
  <1>10. CASE RequestFind(c)
    <2>1. /\ w.obj # Hook /\ w.obj \notin Object
          /\ UNCHANGED <<setup, nodes, refs, objs, mode, client, crashes>>
      BY <1>10, <1>f, <1>w DEF RequestFind, FitsOf
    <2>2. CASE Goes(c, "requestExecute", w)
      BY <2>1, <2>2, SoundAlone DEF Stage
    <2>3. CASE Found # 0 /\ Goes(c, "requestFetch", [w EXCEPT !.node = Found])
      <3>1. Found \in Nat /\ Found \in DOMAIN nodes
        BY <2>3, FoundIsFirst DEF Sound
      <3>2. PICK u \in Work : u = [w EXCEPT !.node = Found] /\ u.node = Found /\ u.obj = w.obj
        BY <3>1, WorkChanges
      <3> QED BY <2>1, <2>3, <3>1, <3>2, SoundAlone DEF Stage
    <2> QED BY <1>10, <1>w, <2>2, <2>3 DEF RequestFind
  <1>11. CASE RequestFetch(c)
    <2>1. w.obj # Hook /\ w.obj \notin Object /\ w.node \in DOMAIN nodes
      BY <1>11, <1>f, <1>w DEF RequestFetch, FitsOf
    <2>2. nodes[w.node] \in Blob
      BY <2>1 DEF Sound, TypeOK
    <2>3. PICK u \in Work : u = Sending(w, Hook, nodes[w.node]) /\ u.obj = w.obj
      BY <2>2, Sends, Kinds
    <2>4. \/ Fails(c, "uncaught")
          \/ /\ Goes(c, "requestExecute", w) \/ Goes(c, "requestExecute", u)
             /\ UNCHANGED <<setup, nodes, refs, objs, mode, client, crashes>>
      BY <1>11, <1>w, <2>3 DEF RequestFetch
    <2> QED BY <2>1, <2>3, <2>4, SoundAlone, SoundFailing DEF Stage
  <1>12. CASE RequestExecute(c)
    <2>1. w.obj # Hook /\ w.obj \notin Object
      BY <1>12, <1>f, <1>w DEF RequestExecute, FitsOf
    <2>2. NextRow(0) \in Object \cup {None}
      BY FirstRow
    <2>3. PICK u \in Work : u = Reading(w, NextRow(0)) /\ u.obj = w.obj
      BY <2>2, Reads DEF Sound
    <2>4. /\ Goes(c, "requestRows", u)
          /\ UNCHANGED <<setup, nodes, refs, objs, mode, client, crashes>>
      BY <1>12, <1>w, <2>3 DEF RequestExecute
    <2> QED BY <2>1, <2>3, <2>4, SoundAlone DEF Stage
  <1>13. CASE RequestRow(c)
    <2>1. w.obj # Hook /\ w.obj \notin Object
      BY <1>13, <1>f, <1>w DEF RequestRow, FitsOf
    <2>2. w.row \in Object /\ w.blob \in Blob /\ w.row \in Nat
      BY <1>13, <1>w, HandlerTypes, Kinds DEF RequestRow, Sound
    <2>3. PICK u \in Work : u = Sending(w, w.row, w.blob) /\ u.obj = w.obj
      <3>1. w.row \in Target
        BY <2>2, Kinds
      <3> QED BY <2>2, <3>1, Sends
    <2>4. NextRow(w.row) \in Object \cup {None}
      BY <2>2, FirstRow
    <2>5. PICK t \in Work : t = Reading(u, NextRow(w.row)) /\ t.obj = w.obj
      BY <2>3, <2>4, Reads DEF Sound
    <2>6. /\ Goes(c, "requestRows", t)
          /\ UNCHANGED <<setup, nodes, refs, objs, mode, client, crashes>>
      BY <1>13, <1>w, <2>3, <2>5 DEF RequestRow
    <2> QED BY <2>1, <2>5, <2>6, SoundAlone DEF Stage
  <1>14. CASE RequestDone(c)
    BY <1>14, SoundEnd DEF RequestDone
  <1> QED
    BY <1>1, <1>2, <1>3, <1>4, <1>5, <1>6, <1>7, <1>8, <1>9, <1>10, <1>11, <1>12, <1>13, <1>14
       DEF Handle

LEMMA NoWorkFits ==
    /\ NoWork.obj = None /\ NoWork.row = None /\ NoWork.company = {} /\ NoWork.owed = {}
    /\ None # Hook /\ None \notin Object
  BY Kinds DEF NoWork

LEMMA InitSound == Init => Sound
  <1> SUFFICES ASSUME Init PROVE Sound
    OBVIOUS
  <1>1. \A c \in Conn : handler[c] = [stage |-> "closed", work |-> NoWork]
    BY DEF Init
  <1>2. handler \in [Conn -> [stage : Stage, work : Work]]
    BY Kinds DEF Init, Stage
  <1>3. NoClient \in Client
    BY Kinds DEF NoClient, Client
  <1>4. client \in [Conn -> Client] /\ objs \in [Object -> Blob] /\ nodes \in Seq(Blob)
    BY <1>3, Kinds DEF Init
  <1>5. TypeOK
    <2>1. nodes = <<>> /\ own = 0 /\ refs = {} /\ crashes = 0
          /\ age = "absent" /\ building = FALSE /\ mode \in {"necessary", "known"}
      BY DEF Init
    <2>2. Len(nodes) = 0 /\ own \in 0..Len(nodes) /\ refs \subseteq DOMAIN nodes
      BY <2>1
    <2>3. age \in Ages /\ building \in BOOLEAN /\ crashes \in 0..MaxCrashes
      <3>1. crashes \in 0..MaxCrashes
        BY <2>1, Kinds
      <3>2. age \in Ages /\ building \in BOOLEAN
        BY <2>1, Zenon DEF Ages
      <3> QED BY <3>1, <3>2
    <2> QED BY <1>2, <1>4, <2>1, <2>2, <2>3 DEF TypeOK, Work, Client
  <1>6. ASSUME NEW c \in Conn PROVE FitsOf(c)
    BY <1>1, NoWorkFits DEF FitsOf, HookStages, ObjectStages, WithNode
  <1> QED BY <1>5, <1>6 DEF Sound, Fits

LEMMA ClientChanges ==
    TypeOK => \A c \in Conn :
        /\ NoClient \in Client
        /\ [NoClient EXCEPT !.messages = client[c].messages] \in Client
        /\ [client[c] EXCEPT !.left = TRUE] \in Client
        /\ Ended(c, "crash") \in Client
  <1> SUFFICES ASSUME TypeOK, NEW c \in Conn
               PROVE  /\ NoClient \in Client
                      /\ [NoClient EXCEPT !.messages = client[c].messages] \in Client
                      /\ [client[c] EXCEPT !.left = TRUE] \in Client
                      /\ Ended(c, "crash") \in Client
    OBVIOUS
  <1>1. PICK k \in Client : k = client[c]
    BY DEF TypeOK, Client
  <1>2. NoClient \in Client
    BY Kinds DEF NoClient, Client
  <1>3. k.messages \in 0..MaxMessages /\ k.orderly \in BOOLEAN
    BY DEF Client
  <1>4. [k EXCEPT !.left = TRUE] \in Client
    BY DEF Client
  <1> QED BY <1>1, <1>2, <1>3, <1>4, ZenonT(30) DEF Ended, NoClient, Client

LEMMA SoundStep == Sound /\ [Next]_vars => Sound'
  <1> SUFFICES ASSUME Sound, [Next]_vars PROVE Sound'
    OBVIOUS
  <1>1. ASSUME NEW c \in Conn, Connect(c) PROVE Sound'
    <2>1. "idle" \in Stage /\ "idle" \notin HookStages \cup ObjectStages \cup WithNode
      BY DEF Stage, HookStages, ObjectStages, WithNode
    <2>2. /\ handler' \in [Conn -> [stage : Stage, work : Work]]
          /\ handler'[c] = [stage |-> "idle", work |-> NoWork]
          /\ \A d \in Conn \ {c} : handler'[d] = handler[d]
      BY <1>1, <2>1, Going, Kinds DEF Connect, Sound
    <2>3. client' \in [Conn -> Client]
      BY <1>1, ClientChanges DEF Connect, Sound, TypeOK, Client
    <2>4. TypeOK'
      BY <1>1, <2>2, <2>3 DEF Connect, Sound, TypeOK, Work, Client
    <2>5. FitsOf(c)'
      BY <2>2, NoWorkFits DEF FitsOf, HookStages, ObjectStages, WithNode
    <2>6. ASSUME NEW d \in Conn, d # c PROVE FitsOf(d)'
      BY <1>1, <2>2, <2>6 DEF Connect, Sound, Fits, FitsOf
    <2> QED BY <2>4, <2>5, <2>6 DEF Sound, Fits
  <1>2. ASSUME NEW c \in Conn, Leave(c) PROVE Sound'
    <2>1. client' \in [Conn -> Client]
      <3>1. PICK k \in Client : k = [client[c] EXCEPT !.left = TRUE]
        BY ClientChanges DEF Sound
      <3>2. client' = [client EXCEPT ![c] = k]
        BY <1>2, <3>1 DEF Leave
      <3> QED BY <3>1, <3>2 DEF Sound, TypeOK, Client
    <2>2. TypeOK'
      BY <1>2, <2>1 DEF Leave, Sound, TypeOK, Client
    <2> QED BY <1>2, <2>2 DEF Leave, Sound, Fits, FitsOf
  <1>3. ASSUME NEW c \in Conn, NoticeLeave(c) PROVE Sound'
    BY <1>3, SoundFailing DEF NoticeLeave
  <1>4. ASSUME NEW c \in Conn, Handle(c) PROVE Sound'
    BY <1>4, SoundHandle
  <1>5. ASSUME NEW c \in Conn, NEW m \in Message, Receive(c, m) PROVE Sound'
    BY <1>5, SoundReceive
  <1>6. CASE SetUpAge
    BY <1>6 DEF SetUpAge, Sound, TypeOK, Ages, Fits, FitsOf
  <1>9. CASE CreateOwnNode
    <2>1. nodes \in Seq(Blob) /\ NewNode = Len(nodes) + 1 /\ nodes' = Append(nodes, NoBlob)
      BY <1>9 DEF CreateOwnNode, NewNode, Sound, TypeOK
    <2>2. nodes' \in Seq(Blob) /\ Len(nodes') = Len(nodes) + 1
      BY <2>1, Kinds
    <2>3. DOMAIN nodes \subseteq DOMAIN nodes' /\ own' \in 0..Len(nodes')
      BY <1>9, <2>1, <2>2 DEF CreateOwnNode
    <2>4. TypeOK'
      BY <1>9, <2>2, <2>3 DEF CreateOwnNode, Sound, TypeOK
    <2> QED BY <1>9, <2>3, <2>4 DEF CreateOwnNode, Sound, Fits, FitsOf
  <1>10. CASE RefOwnNode
    <2>1. own \in DOMAIN nodes
      BY <1>10 DEF RefOwnNode, Sound, TypeOK
    <2>2. TypeOK'
      BY <1>10, <2>1 DEF RefOwnNode, Sound, TypeOK
    <2> QED BY <1>10, <2>2 DEF RefOwnNode, Sound, Fits, FitsOf
  <1>7. CASE Crash
    <2>1. \A c \in Conn : handler'[c] = [stage |-> "closed", work |-> NoWork]
      BY <1>7 DEF Crash
    <2>2. handler' \in [Conn -> [stage : Stage, work : Work]]
      BY <1>7, Kinds DEF Crash, Stage
    <2>3. client' \in [Conn -> Client]
      BY <1>7, ClientChanges DEF Crash, Sound
    <2>4. crashes' \in 0..MaxCrashes
      BY <1>7, Kinds DEF Crash, Sound, TypeOK
    <2>5. TypeOK'
      BY <1>7, <2>2, <2>3, <2>4 DEF Crash, Sound, TypeOK, Work, Client
    <2>6. ASSUME NEW c \in Conn PROVE FitsOf(c)'
      BY <2>1, NoWorkFits DEF FitsOf, HookStages, ObjectStages, WithNode
    <2> QED BY <2>5, <2>6 DEF Sound, Fits
  <1>8. CASE UNCHANGED vars
    BY <1>8 DEF vars, Sound, TypeOK, Fits, FitsOf
  <1> QED BY <1>1, <1>2, <1>3, <1>4, <1>5, <1>6, <1>7, <1>8, <1>9, <1>10 DEF Next

\* The state stays of its types: a handler that saves or sends a node's state
\* has one that exists, a reference leads to an SDL node, and the rows of the
\* objects' states are of objects.
THEOREM TypeCorrect == Spec => []TypeOK
  <1>1. Sound => TypeOK
    BY DEF Sound
  <1> QED BY <1>1, InitSound, SoundStep, PTL DEF Spec

-----------------------------------------------------------------------------
(* Who overlaps with whom.                                                 *)

Met ==
    \A c, d \in Conn :
        /\ c # d
        /\ handler[c].work.obj # None
        /\ handler[c].work.obj = handler[d].work.obj
        => d \in handler[c].work.company

NodeStages == {"refNode", "fetchNode", "updateNode"}

\* Until the auth server links the node that it has made, nobody else finds it.
OwnNew ==
    own # 0 /\ own \notin refs =>
        /\ nodes[own] = NoBlob
        /\ \A c \in Conn : handler[c].stage \in NodeStages => handler[c].work.node # own

\* Of a change that has overlapped with none of the same target: a node that is
\* created is the first but for the auth server's, in which nothing is saved; the
\* node is the one that the next one will find, or the auth server's hides it; and
\* what was fetched is still what is saved.
CurrentOf(c) ==
    LET stage == handler[c].stage
        w == handler[c].work
    IN  w.company = {} =>
          /\ stage \in {"createNode", "refNode"} =>
                refs \subseteq {own} /\ (own # 0 => nodes[own] = NoBlob)
          /\ stage = "refNode" => nodes[w.node] = NoBlob
          /\ stage \in {"fetchNode", "updateNode"} =>
                Found = w.node \/ (own # 0 /\ Found = own)
          /\ stage = "updateNode" => w.fetched = nodes[w.node]
          /\ stage = "saveState" => w.fetched = objs[w.obj]

Current == \A c \in Conn : CurrentOf(c)

\* Receiving a message: the handlers of the same target meet.
LEMMA ReceiveEffect ==
    Sound => \A c \in Conn : \A m \in Message : Receive(c, m) =>
        /\ UNCHANGED <<setup, nodes, refs, objs, mode, crashes>>
        /\ handler[c].stage = "idle"
        /\ \/ /\ handler'[c] = [stage |-> "closed", work |-> NoWork]
              /\ \A d \in Conn \ {c} : handler'[d] = handler[d]
           \/ \E w \in Work :
                 /\ w = IF Begins(m) = "idle" THEN NoWork ELSE Working(c, m)
                 /\ handler'[c] = [stage |-> Begins(m), work |-> w]
                 /\ \A d \in Conn \ {c} : \E cs \in SUBSET Conn :
                       /\ cs = IF w.obj # None /\ d \in UnderWayOn(w.obj)
                               THEN handler[d].work.company \cup {c}
                               ELSE handler[d].work.company
                       /\ handler'[d] = [stage |-> handler[d].stage,
                                         work |-> [handler[d].work EXCEPT !.company = cs]]
  <1> SUFFICES ASSUME Sound, NEW c \in Conn, NEW m \in Message, Receive(c, m)
               PROVE  /\ UNCHANGED <<setup, nodes, refs, objs, mode, crashes>>
                      /\ handler[c].stage = "idle"
                      /\ \/ /\ handler'[c] = [stage |-> "closed", work |-> NoWork]
                            /\ \A d \in Conn \ {c} : handler'[d] = handler[d]
                         \/ \E w \in Work :
                               /\ w = IF Begins(m) = "idle" THEN NoWork ELSE Working(c, m)
                               /\ handler'[c] = [stage |-> Begins(m), work |-> w]
                               /\ \A d \in Conn \ {c} : \E cs \in SUBSET Conn :
                                     /\ cs = IF w.obj # None /\ d \in UnderWayOn(w.obj)
                                             THEN handler[d].work.company \cup {c}
                                             ELSE handler[d].work.company
                                     /\ handler'[d] =
                                          [stage |-> handler[d].stage,
                                           work |-> [handler[d].work EXCEPT !.company = cs]]
    OBVIOUS
  <1>1. UNCHANGED <<setup, nodes, refs, objs, mode, crashes>> /\ handler[c].stage = "idle"
    BY DEF Receive
  <1>2. PICK w \in Work : w = IF Begins(m) = "idle" THEN NoWork ELSE Working(c, m)
    BY WorkBegins, Kinds DEF Sound
  <1>3. \/ Goes(c, "closed", NoWork)
        \/ handler' = [d \in Conn |->
                   IF d = c THEN [stage |-> Begins(m), work |-> w]
                   ELSE IF w.obj # None /\ d \in UnderWayOn(w.obj)
                        THEN [handler[d] EXCEPT !.work.company = handler[d].work.company \cup {c}]
                        ELSE handler[d]]
    BY <1>2 DEF Receive
  <1>4. CASE Goes(c, "closed", NoWork)
    <2>1. "closed" \in Stage /\ NoWork \in Work
      BY Kinds DEF Stage
    <2> QED BY <1>1, <1>4, <2>1, Going DEF Sound
  <1>5. CASE handler' = [d \in Conn |->
                   IF d = c THEN [stage |-> Begins(m), work |-> w]
                   ELSE IF w.obj # None /\ d \in UnderWayOn(w.obj)
                        THEN [handler[d] EXCEPT !.work.company = handler[d].work.company \cup {c}]
                        ELSE handler[d]]
    <2>1. handler'[c] = [stage |-> Begins(m), work |-> w]
      BY <1>5
    <2>2. ASSUME NEW d \in Conn \ {c}
          PROVE  \E cs \in SUBSET Conn :
                    /\ cs = IF w.obj # None /\ d \in UnderWayOn(w.obj)
                            THEN handler[d].work.company \cup {c}
                            ELSE handler[d].work.company
                    /\ handler'[d] = [stage |-> handler[d].stage,
                                      work |-> [handler[d].work EXCEPT !.company = cs]]
      <3>1. PICK h \in [stage : Stage, work : Work] : h = handler[d]
        BY HandlerTypes DEF Sound
      <3>2. PICK u \in Work : u = h.work
        OBVIOUS
      <3>3. PICK cs \in SUBSET Conn : cs = IF w.obj # None /\ d \in UnderWayOn(w.obj)
                                           THEN u.company \cup {c} ELSE u.company
        BY DEF Work
      <3>4. [u EXCEPT !.company = u.company] = u
        BY DEF Work
      <3>5. \A cc : [h EXCEPT !.work.company = cc] =
                      [stage |-> h.stage, work |-> [h.work EXCEPT !.company = cc]]
        BY <3>1
      <3>6. h = [stage |-> h.stage, work |-> h.work]
        BY <3>1
      <3>7. handler'[d] = [stage |-> h.stage, work |-> [u EXCEPT !.company = cs]]
        <4>1. CASE w.obj # None /\ d \in UnderWayOn(w.obj)
          BY <1>5, <3>1, <3>2, <3>3, <3>5, <4>1
        <4>2. CASE ~(w.obj # None /\ d \in UnderWayOn(w.obj))
          BY <1>5, <3>1, <3>2, <3>3, <3>4, <3>6, <4>2
        <4> QED BY <4>1, <4>2
      <3> QED BY <3>1, <3>2, <3>3, <3>7
    <2> QED BY <1>1, <1>2, <2>1, <2>2
  <1> QED BY <1>3, <1>4, <1>5

\* What a message changes of the work of the other handlers.
LEMMA ReceiveOthers ==
    ASSUME Sound, NEW c \in Conn, NEW m \in Message, Receive(c, m), NEW d \in Conn \ {c}
    PROVE  /\ handler'[d].stage = handler[d].stage
           /\ handler'[d].work.node = handler[d].work.node
           /\ handler'[d].work.row = handler[d].work.row
           /\ handler'[d].work.blob = handler[d].work.blob
           /\ handler'[d].work.count = handler[d].work.count
           /\ handler'[d].work.sent = handler[d].work.sent
           /\ handler'[d].work.owed = handler[d].work.owed
  <1>1. \/ handler'[d] = handler[d]
        \/ \E cs \in SUBSET Conn :
              handler'[d] = [stage |-> handler[d].stage,
                             work |-> [handler[d].work EXCEPT !.company = cs]]
    <2>1. CASE \A e \in Conn \ {c} : handler'[e] = handler[e]
      BY <2>1
    <2>2. CASE \A e \in Conn \ {c} : \E cs \in SUBSET Conn :
                 handler'[e] = [stage |-> handler[e].stage,
                                work |-> [handler[e].work EXCEPT !.company = cs]]
      BY <2>2
    <2>3. \/ \A e \in Conn \ {c} : handler'[e] = handler[e]
          \/ \E w \in Work : \A e \in Conn \ {c} : \E cs \in SUBSET Conn :
                /\ cs = IF w.obj # None /\ e \in UnderWayOn(w.obj)
                        THEN handler[e].work.company \cup {c}
                        ELSE handler[e].work.company
                /\ handler'[e] = [stage |-> handler[e].stage,
                                  work |-> [handler[e].work EXCEPT !.company = cs]]
      BY ReceiveEffect, ZenonT(30)
    <2> QED BY <2>1, <2>2, <2>3
  <1>2. CASE handler'[d] = handler[d]
    BY <1>2
  <1>3. ASSUME NEW cs \in SUBSET Conn,
               handler'[d] = [stage |-> handler[d].stage,
                              work |-> [handler[d].work EXCEPT !.company = cs]]
        PROVE  /\ handler'[d].stage = handler[d].stage
               /\ handler'[d].work.node = handler[d].work.node
               /\ handler'[d].work.row = handler[d].work.row
               /\ handler'[d].work.blob = handler[d].work.blob
               /\ handler'[d].work.count = handler[d].work.count
               /\ handler'[d].work.sent = handler[d].work.sent
               /\ handler'[d].work.owed = handler[d].work.owed
    <2>1. PICK w \in Work : w = handler[d].work
      BY HandlerTypes DEF Sound
    <2>2. PICK v : /\ v = [w EXCEPT !.company = cs]
                   /\ v.node = w.node /\ v.row = w.row /\ v.blob = w.blob
                   /\ v.count = w.count /\ v.sent = w.sent /\ v.owed = w.owed
      BY CompanyChanges
    <2>3. handler'[d].stage = handler[d].stage /\ handler'[d].work = v
      BY <1>3, <2>1, <2>2
    <2> QED BY <2>1, <2>2, <2>3
  <1> QED BY <1>1, <1>2, <1>3

\* A handler goes on with the work it has, or ends it, and changes only the state
\* of its own target.
Effect(c) ==
    /\ \A d \in Conn \ {c} : handler'[d] = handler[d]
    /\ \/ handler'[c].work.obj = None
       \/ /\ handler'[c].work.obj = handler[c].work.obj
          /\ handler'[c].work.company = handler[c].work.company
    /\ UNCHANGED <<nodes, refs>> \/ handler[c].work.obj = Hook
    /\ \A o \in Object : objs'[o] = objs[o] \/ handler[c].work.obj = o

\* What becomes of the parts of a current change.
LEMMA Continues ==
    Sound => \A c \in Conn : \A stage \in Stage : \A w \in Work :
        /\ Goes(c, stage, w)
        /\ w.obj = handler[c].work.obj /\ w.company = handler[c].work.company
        /\ UNCHANGED <<nodes, refs>> \/ handler[c].work.obj = Hook
        /\ UNCHANGED objs
        => Effect(c) /\ handler'[c] = [stage |-> stage, work |-> w]
  BY Going DEF Sound, Effect

LEMMA Ends ==
    Sound => \A c \in Conn :
        /\ Finishes(c) \/ (\E end : Fails(c, end))
        /\ UNCHANGED <<nodes, refs>> \/ handler[c].work.obj = Hook
        /\ \A o \in Object : objs'[o] = objs[o] \/ handler[c].work.obj = o
        => /\ Effect(c)
           /\ handler'[c].stage \in {"idle", "closed"} /\ handler'[c].work = NoWork
  BY Ending, NoWorkFits DEF Sound, Effect

LEMMA Writers ==
    ASSUME NEW c \in Conn, Handle(c)
    PROVE  \/ CreateNode(c) \/ RefNode(c) \/ UpdateNode(c) \/ SaveState(c)
           \/ UNCHANGED <<nodes, refs, objs>>
  BY DEF Handle, JoinAge, JoinInfo, FindNode, FetchNode, FetchState, Fetched, RequestFind,
         RequestFetch, RequestExecute, RequestRow, RequestDone, Fails

LEMMA HandleSetup ==
    ASSUME NEW c \in Conn, Handle(c)
    PROVE  UNCHANGED <<age, building, own>>
  BY DEF Handle, JoinAge, JoinInfo, FindNode, CreateNode, RefNode, FetchNode, UpdateNode,
         FetchState, SaveState, Fetched, RequestFind, RequestFetch, RequestExecute,
         RequestRow, RequestDone, Fails

\* Which node a handler goes on with.
LEMMA NodeGoes ==
    ASSUME Sound, NEW c \in Conn, Handle(c), handler'[c].stage \in NodeStages
    PROVE  \/ Found # 0 /\ handler'[c].work.node = Found /\ UNCHANGED refs
           \/ handler'[c].work.node = NewNode
           \/ /\ handler[c].stage \in NodeStages
              /\ handler'[c].work.node = handler[c].work.node
  <1> USE DEF NodeStages
  <1>w. PICK w \in Work : w = handler[c].work
    BY HandlerTypes DEF Sound
  <1>g. \A stage, u : Goes(c, stage, u) =>
            handler'[c].stage = stage /\ handler'[c].work = u
    BY DEF Goes, Sound, TypeOK
  <1>e. Finishes(c) \/ (\E end : Fails(c, end)) => handler'[c].stage \in {"idle", "closed"}
    BY <1>g DEF Finishes, Fails
  <1>1. CASE JoinAge(c) \/ JoinInfo(c) \/ FetchState(c)
    BY <1>1, <1>g, <1>e DEF JoinAge, JoinInfo, FetchState, Fetched
  <1>2. CASE \/ UpdateNode(c) \/ SaveState(c) \/ RequestFind(c) \/ RequestFetch(c)
             \/ RequestExecute(c) \/ RequestRow(c) \/ RequestDone(c)
    BY <1>2, <1>g, <1>e
       DEF UpdateNode, SaveState, RequestFind, RequestFetch, RequestExecute, RequestRow,
           RequestDone
  <1>3. CASE FindNode(c)
    <2>1. Found \in Nat
      BY FoundIsFirst DEF Sound
    <2>2. [w EXCEPT !.node = Found].node = Found
      BY <2>1, WorkChanges
    <2>3. \/ Goes(c, "createNode", w)
          \/ Found # 0 /\ Goes(c, "fetchNode", [w EXCEPT !.node = Found])
      BY <1>3, <1>w DEF FindNode
    <2> QED BY <1>3, <1>g, <2>2, <2>3 DEF FindNode
  <1>4. CASE CreateNode(c)
    <2>1. NewNode \in Nat
      BY DEF NewNode, Sound, TypeOK
    <2>2. [w EXCEPT !.node = NewNode].node = NewNode
      BY <2>1, WorkChanges
    <2> QED BY <1>4, <1>g, <1>w, <2>2 DEF CreateNode
  <1>5. CASE RefNode(c)
    BY <1>5, <1>g DEF RefNode
  <1>6. CASE FetchNode(c)
    <2>1. w.node \in DOMAIN nodes
      BY <1>6, <1>w DEF FetchNode, Sound, Fits, FitsOf, WithNode
    <2>2. [w EXCEPT !.fetched = nodes[w.node]].node = w.node
      BY <2>1, WorkChanges DEF Sound, TypeOK
    <2>3. \/ Goes(c, "updateNode", [w EXCEPT !.fetched = nodes[w.node]])
          \/ Finishes(c) \/ Fails(c, "blob")
      BY <1>6, <1>w DEF FetchNode, Fetched
    <2> QED BY <1>6, <1>g, <1>e, <1>w, <2>2, <2>3 DEF FetchNode
  <1> QED BY <1>1, <1>2, <1>3, <1>4, <1>5, <1>6 DEF Handle

LEMMA OwnNewKept ==
    ASSUME Sound, OwnNew, UNCHANGED <<own, nodes, refs>>,
           \A d \in Conn : handler'[d].stage \in NodeStages =>
              /\ handler[d].stage \in NodeStages
              /\ handler'[d].work.node = handler[d].work.node
    PROVE  OwnNew'
  BY DEF OwnNew, NoBlob

LEMMA OwnNewHandled ==
    ASSUME Sound, OwnNew, NEW c \in Conn, Handle(c)
    PROVE  OwnNew'
  <1>w. PICK w \in Work : w = handler[c].work
    BY HandlerTypes DEF Sound
  <1>1. own' = own
    BY HandleSetup
  <1>2. /\ nodes \in Seq(Blob) /\ own \in 0..Len(nodes)
        /\ Found # 0 => Found \in refs
    BY FoundIsFirst DEF Sound, TypeOK
  <1>3. refs \subseteq refs'
    BY Writers DEF CreateNode, RefNode, UpdateNode, SaveState
  <1> SUFFICES ASSUME own # 0, own \notin refs'
               PROVE  /\ nodes'[own] = NoBlob
                      /\ \A d \in Conn : handler'[d].stage \in NodeStages =>
                                            handler'[d].work.node # own
    BY <1>1 DEF OwnNew, NoBlob
  <1>4. /\ own \notin refs /\ nodes[own] = NoBlob
        /\ \A d \in Conn : handler[d].stage \in NodeStages => handler[d].work.node # own
    BY <1>3 DEF OwnNew
  <1>5. nodes'[own] = NoBlob
    <2>1. CASE UNCHANGED nodes
      BY <1>4, <2>1
    <2>2. CASE CreateNode(c)
      <3>1. nodes' = Append(nodes, NoBlob) /\ own \in 1..Len(nodes)
        BY <1>2, <2>2 DEF CreateNode
      <3> QED BY <1>2, <1>4, <3>1, Kinds
    <2>3. CASE UpdateNode(c)
      <3>1. w.node # own
        BY <1>4, <1>w, <2>3 DEF UpdateNode, NodeStages
      <3>2. nodes' = [nodes EXCEPT ![w.node] = Stored(nodes[w.node], Applied(w, c))]
        BY <1>w, <2>3 DEF UpdateNode
      <3> QED BY <1>2, <1>4, <3>1, <3>2
    <2> QED BY <2>1, <2>2, <2>3, Writers DEF RefNode, SaveState
  <1>6. ASSUME NEW d \in Conn, d # c PROVE handler'[d] = handler[d]
    <2>1. \A stage, u : Goes(c, stage, u) => handler'[d] = handler[d]
      BY <1>6 DEF Goes, Sound, TypeOK
    <2>2. Finishes(c) \/ (\E end : Fails(c, end)) => handler'[d] = handler[d]
      BY <2>1 DEF Finishes, Fails
    <2> QED BY <2>1, <2>2
        DEF Handle, JoinAge, JoinInfo, FindNode, CreateNode, RefNode, FetchNode, UpdateNode,
            FetchState, SaveState, Fetched, RequestFind, RequestFetch, RequestExecute,
            RequestRow, RequestDone
  <1>7. handler'[c].stage \in NodeStages => handler'[c].work.node # own
    <2>1. NewNode # own
      BY <1>2 DEF NewNode
    <2> QED BY <1>2, <1>4, <2>1, NodeGoes
  <1> QED BY <1>4, <1>5, <1>6, <1>7

LEMMA OwnNewStep == Sound /\ OwnNew /\ [Next]_vars => OwnNew'
  <1> SUFFICES ASSUME Sound, OwnNew, [Next]_vars PROVE OwnNew'
    OBVIOUS
  <1>c. "idle" \notin NodeStages /\ "closed" \notin NodeStages
    BY DEF NodeStages
  <1>1. ASSUME NEW c \in Conn, Connect(c) \/ NoticeLeave(c) PROVE OwnNew'
    <2>1. /\ handler'[c].stage \in {"idle", "closed"} /\ UNCHANGED <<own, nodes, refs>>
          /\ \A d \in Conn \ {c} : handler'[d] = handler[d]
      BY <1>1 DEF Connect, NoticeLeave, Fails, Goes, Sound, TypeOK
    <2> QED BY <1>c, <2>1, OwnNewKept
  <1>2. ASSUME NEW c \in Conn, Leave(c) PROVE OwnNew'
    BY <1>2, OwnNewKept DEF Leave
  <1>3. ASSUME NEW c \in Conn, Handle(c) PROVE OwnNew'
    BY <1>3, OwnNewHandled
  <1>4. ASSUME NEW c \in Conn, NEW m \in Message, Receive(c, m) PROVE OwnNew'
    <2>1. UNCHANGED <<own, nodes, refs>>
      BY <1>4 DEF Receive
    <2>2. handler'[c].stage \notin NodeStages
      <3>1. handler'[c].stage \in {"closed", Begins(m)}
        BY <1>4 DEF Receive, Goes, Sound, TypeOK
      <3> QED BY <3>1 DEF Begins, NodeStages
    <2> QED BY <1>4, <2>1, <2>2, ReceiveOthers, OwnNewKept
  <1>5. CASE SetUpAge
    BY <1>5, OwnNewKept DEF SetUpAge
  <1>6. CASE CreateOwnNode
    <2>1. /\ nodes \in Seq(Blob) /\ nodes' = Append(nodes, NoBlob)
          /\ own' = Len(nodes) + 1 /\ handler' = handler
      BY <1>6 DEF CreateOwnNode, NewNode, Sound, TypeOK
    <2>2. nodes'[own'] = NoBlob
      BY <2>1, Kinds
    <2>3. ASSUME NEW d \in Conn, handler[d].stage \in NodeStages
          PROVE  handler[d].work.node \in DOMAIN nodes
      BY <2>3 DEF NodeStages, Sound, Fits, FitsOf, WithNode
    <2> QED BY <2>1, <2>2, <2>3 DEF OwnNew, NoBlob
  <1>7. CASE RefOwnNode
    BY <1>7 DEF RefOwnNode, OwnNew
  <1>8. CASE Crash
    BY <1>8, <1>c, OwnNewKept DEF Crash
  <1>9. CASE UNCHANGED vars
    BY <1>9, OwnNewKept DEF vars
  <1> QED BY <1>1, <1>2, <1>3, <1>4, <1>5, <1>6, <1>7, <1>8, <1>9 DEF Next

LEMMA HandleEffect ==
    ASSUME Sound, OwnNew, Current, NEW c \in Conn, Handle(c)
    PROVE  Effect(c) /\ CurrentOf(c)'
  <1> USE DEF HookStages, ObjectStages, WithNode
  <1>w. PICK w \in Work : w = handler[c].work
    BY HandlerTypes DEF Sound
  <1>f. FitsOf(c) /\ CurrentOf(c)
    BY DEF Sound, Fits, Current
  <1>o. own' = own
    BY HandleSetup
  <1>e. ASSUME Finishes(c) \/ (\E end : Fails(c, end)),
               UNCHANGED <<nodes, refs>> \/ handler[c].work.obj = Hook,
               \A o \in Object : objs'[o] = objs[o] \/ handler[c].work.obj = o
        PROVE  Effect(c) /\ CurrentOf(c)'
    BY <1>e, Ends DEF CurrentOf
  \* Steps to a stage of which CurrentOf says nothing.
  <1>q. ASSUME NEW stage \in {"joinInfo", "requestFetch", "requestExecute", "requestRows"},
               NEW u \in Work, Goes(c, stage, u), u.obj = w.obj, u.company = w.company,
               UNCHANGED <<nodes, refs, objs>>
        PROVE  Effect(c) /\ CurrentOf(c)'
    <2>1. stage \in Stage
      BY DEF Stage
    <2>2. Effect(c) /\ handler'[c] = [stage |-> stage, work |-> u]
      BY <1>w, <1>q, <2>1, Continues
    <2>3. handler'[c].stage \in {"joinInfo", "requestFetch", "requestExecute", "requestRows"}
      BY <2>2
    <2> QED BY <2>2, <2>3 DEF CurrentOf
  <1>1. CASE JoinAge(c)
    <2>1. \/ Fails(c, "protocol")
          \/ Goes(c, "joinInfo", w) /\ UNCHANGED <<nodes, refs, objs>>
      BY <1>1, <1>w DEF JoinAge
    <2> QED BY <1>e, <1>q, <2>1 DEF Fails
  <1>2. CASE JoinInfo(c)
    BY <1>2, <1>e DEF JoinInfo, Fails
  <1>3. CASE FindNode(c)
    <2>1. UNCHANGED <<nodes, refs, objs>>
      BY <1>3 DEF FindNode
    <2>2. CASE Found = 0 /\ Goes(c, "createNode", w)
      <3>1. refs = {}
        BY <2>2, FoundIsFirst DEF Sound
      <3>2. Effect(c) /\ handler'[c] = [stage |-> "createNode", work |-> w]
        BY <1>w, <2>1, <2>2, Continues DEF Stage
      <3>3. refs' \subseteq {own'} /\ (own' # 0 => nodes'[own'] = NoBlob)
        BY <1>o, <2>1, <3>1 DEF OwnNew
      <3> QED BY <3>2, <3>3 DEF CurrentOf, NoBlob
    <2>3. CASE Found # 0 /\ Goes(c, "fetchNode", [w EXCEPT !.node = Found])
      <3>1. Found \in Nat
        BY FoundIsFirst DEF Sound
      <3>2. PICK u \in Work : /\ u = [w EXCEPT !.node = Found]
                              /\ u.node = Found /\ u.obj = w.obj /\ u.company = w.company
        BY <3>1, WorkChanges
      <3>3. Goes(c, "fetchNode", u) /\ u.node = Found /\ u.obj = w.obj /\ u.company = w.company
        BY <2>3, <3>2
      <3>4. Effect(c) /\ handler'[c] = [stage |-> "fetchNode", work |-> u]
        BY <1>w, <2>1, <3>3, Continues DEF Stage
      <3>5. Found' = Found
        BY <2>1 DEF Found
      <3> QED BY <3>3, <3>4, <3>5 DEF CurrentOf
    <2> QED BY <1>3, <1>w, <2>2, <2>3 DEF FindNode
  <1>4. CASE CreateNode(c)
    <2>1. /\ w.obj = Hook /\ nodes \in Seq(Blob) /\ own \in 0..Len(nodes)
          /\ w.company = {} => refs \subseteq {own} /\ (own # 0 => nodes[own] = NoBlob)
      BY <1>4, <1>f, <1>w DEF CreateNode, FitsOf, CurrentOf, Sound, TypeOK
    <2>2. NewNode \in Nat /\ NewNode = Len(nodes) + 1
      BY <2>1 DEF NewNode
    <2>3. PICK u \in Work : /\ u = [w EXCEPT !.node = NewNode]
                            /\ u.node = NewNode /\ u.obj = Hook /\ u.company = w.company
      BY <2>1, <2>2, WorkChanges
    <2>4. Effect(c) /\ handler'[c] = [stage |-> "refNode", work |-> u]
      <3>1. Goes(c, "refNode", u) /\ u.obj = w.obj /\ u.company = w.company
        BY <1>4, <1>w, <2>1, <2>3 DEF CreateNode
      <3>2. UNCHANGED objs
        BY <1>4 DEF CreateNode
      <3> QED BY <1>w, <2>1, <3>1, <3>2, Continues DEF Stage
    <2>5. nodes'[NewNode] = NoBlob
      BY <1>4, <2>1, <2>2, Kinds DEF CreateNode
    <2>6. refs' = refs /\ (own # 0 => nodes'[own] = nodes[own])
      BY <1>4, <2>1, Kinds DEF CreateNode
    <2>7. CurrentOf(c)'
      <3>1. handler'[c].stage = "refNode" /\ handler'[c].work = u
        BY <2>4
      <3>2. u.company = w.company /\ nodes'[u.node] = NoBlob
        BY <2>3, <2>5
      <3> QED BY <1>o, <2>1, <2>6, <3>1, <3>2 DEF CurrentOf, NoBlob
    <2> QED BY <2>4, <2>7
  <1>5. CASE RefNode(c)
    <2>1. /\ w.obj = Hook /\ w.node \in DOMAIN nodes
          /\ w.company = {} => refs \subseteq {own}
      BY <1>5, <1>f, <1>w DEF RefNode, FitsOf, CurrentOf
    <2>2. Effect(c) /\ handler'[c] = [stage |-> "fetchNode", work |-> w]
      BY <1>5, <1>w, <2>1, Continues DEF RefNode, Stage
    <2>3. refs \subseteq {own} => Found' = w.node \/ (own # 0 /\ Found' = own)
      <3>1. refs' = refs \cup {w.node} /\ refs' \in SUBSET Nat /\ 0 \notin refs
        BY <1>5, <1>w, <2>1 DEF RefNode, Sound, TypeOK
      <3>2. Found' = Min(refs') /\ Min(refs') \in refs'
        BY <3>1, MinIsFirst DEF Found
      <3> QED BY <3>1, <3>2
    <2> QED BY <1>o, <2>1, <2>2, <2>3 DEF CurrentOf
  <1>6. CASE FetchNode(c)
    <2>1. /\ w.obj = Hook /\ w.node \in DOMAIN nodes
          /\ w.company = {} => Found = w.node \/ (own # 0 /\ Found = own)
      BY <1>6, <1>f, <1>w DEF FetchNode, FitsOf, CurrentOf
    <2>2. nodes[w.node] \in Blob
      BY <2>1 DEF Sound, TypeOK
    <2>3. PICK u \in Work : /\ u = [w EXCEPT !.fetched = nodes[w.node]]
                            /\ u.fetched = nodes[w.node] /\ u.node = w.node
                            /\ u.obj = w.obj /\ u.company = w.company
      BY <2>1, <2>2, WorkChanges
    <2>4. \/ /\ Goes(c, "updateNode", u) \/ Finishes(c)
             /\ UNCHANGED <<setup, nodes, refs, objs, mode, client, crashes>>
          \/ Fails(c, "blob")
      BY <1>6, <1>w, <2>3 DEF FetchNode, Fetched
    <2>5. CASE Goes(c, "updateNode", u) /\ UNCHANGED <<nodes, refs, objs>>
      <3>1. /\ u.obj = w.obj /\ u.company = w.company
            /\ u.fetched = nodes[w.node] /\ u.node = w.node
        BY <2>3
      <3>2. UNCHANGED <<nodes, refs, objs>>
        BY <2>5
      <3>3. Effect(c) /\ handler'[c] = [stage |-> "updateNode", work |-> u]
        BY <1>w, <2>5, <3>1, <3>2, Continues DEF Stage
      <3>4. Found' = Found
        BY <3>2 DEF Found
      <3> QED BY <1>o, <2>1, <3>1, <3>2, <3>3, <3>4 DEF CurrentOf
    <2> QED BY <1>e, <2>4, <2>5 DEF Fails
  <1>7. CASE UpdateNode(c)
    BY <1>7, <1>e, <1>f DEF UpdateNode, FitsOf
  <1>8. CASE FetchState(c)
    <2>1. w.obj \in Object
      BY <1>8, <1>f, <1>w DEF FetchState, FitsOf
    <2>2. objs[w.obj] \in Blob
      BY <2>1 DEF Sound, TypeOK
    <2>3. PICK u \in Work : /\ u = [w EXCEPT !.fetched = objs[w.obj]]
                            /\ u.fetched = objs[w.obj]
                            /\ u.obj = w.obj /\ u.company = w.company
      BY <2>2, WorkChanges
    <2>4. \/ /\ Goes(c, "saveState", u) \/ Finishes(c)
             /\ UNCHANGED <<setup, nodes, refs, objs, mode, client, crashes>>
          \/ Fails(c, "blob")
      BY <1>8, <1>w, <2>3 DEF FetchState, Fetched
    <2>5. CASE Goes(c, "saveState", u) /\ UNCHANGED <<nodes, refs, objs>>
      <3>1. /\ u.obj = w.obj /\ u.company = w.company
            /\ u.fetched = objs[w.obj] /\ u.obj = w.obj
        BY <2>3
      <3>2. UNCHANGED <<nodes, refs, objs>>
        BY <2>5
      <3>3. Effect(c) /\ handler'[c] = [stage |-> "saveState", work |-> u]
        BY <1>w, <2>5, <3>1, <3>2, Continues DEF Stage
      <3>4. Found' = Found
        BY <3>2 DEF Found
      <3> QED BY <1>o, <2>1, <3>1, <3>2, <3>3, <3>4 DEF CurrentOf
    <2> QED BY <1>e, <2>4, <2>5 DEF Fails
  <1>9. CASE SaveState(c)
    BY <1>9, <1>e, <1>f DEF SaveState, FitsOf, Sound, TypeOK
  <1>10. CASE RequestFind(c)
    <2>1. UNCHANGED <<nodes, refs, objs>>
      BY <1>10 DEF RequestFind
    <2>2. CASE Goes(c, "requestExecute", w)
      BY <1>q, <2>1, <2>2
    <2>3. CASE Goes(c, "requestFetch", [w EXCEPT !.node = Found])
      <3>1. PICK u \in Work : /\ u = [w EXCEPT !.node = Found]
                              /\ u.obj = w.obj /\ u.company = w.company
        BY FoundIsFirst, WorkChanges DEF Sound
      <3> QED BY <1>q, <2>1, <2>3, <3>1
    <2> QED BY <1>10, <1>w, <2>2, <2>3 DEF RequestFind
  <1>11. CASE RequestFetch(c)
    <2>1. w.node \in DOMAIN nodes
      BY <1>11, <1>f, <1>w DEF RequestFetch, FitsOf
    <2>2. PICK u \in Work : /\ u = Sending(w, Hook, nodes[w.node])
                            /\ u.obj = w.obj /\ u.company = w.company
      <3>1. nodes[w.node] \in Blob /\ Hook \in Target
        BY <2>1, Kinds DEF Sound, TypeOK
      <3> QED BY <3>1, Sends
    <2>3. \/ Fails(c, "uncaught")
          \/ /\ Goes(c, "requestExecute", w) \/ Goes(c, "requestExecute", u)
             /\ UNCHANGED <<nodes, refs, objs>>
      BY <1>11, <1>w, <2>2 DEF RequestFetch
    <2> QED BY <1>e, <1>q, <2>2, <2>3 DEF Fails
  <1>12. CASE RequestExecute(c)
    <2>1. PICK u \in Work : /\ u = Reading(w, NextRow(0))
                            /\ u.obj = w.obj /\ u.company = w.company
      BY FirstRow, Reads DEF Sound
    <2> QED BY <1>12, <1>q, <1>w, <2>1 DEF RequestExecute
  <1>13. CASE RequestRow(c)
    <2>1. w.row \in Object /\ w.blob \in Blob /\ w.row \in Nat
      BY <1>13, <1>w, HandlerTypes, Kinds DEF RequestRow, Sound
    <2>2. PICK u \in Work : /\ u = Sending(w, w.row, w.blob)
                            /\ u.obj = w.obj /\ u.company = w.company
      <3>1. w.row \in Target
        BY <2>1, Kinds
      <3> QED BY <2>1, <3>1, Sends
    <2>3. PICK t \in Work : /\ t = Reading(u, NextRow(w.row))
                            /\ t.obj = w.obj /\ t.company = w.company
      BY <2>1, <2>2, FirstRow, Reads DEF Sound
    <2> QED BY <1>13, <1>q, <1>w, <2>2, <2>3 DEF RequestRow
  <1>14. CASE RequestDone(c)
    BY <1>14, <1>e DEF RequestDone
  <1> QED
    BY <1>1, <1>2, <1>3, <1>4, <1>5, <1>6, <1>7, <1>8, <1>9, <1>10, <1>11, <1>12, <1>13, <1>14
       DEF Handle

Overlaps == Met /\ Current

LEMMA OthersStayCurrent ==
    ASSUME Sound, Overlaps, NEW c \in Conn, Effect(c), CurrentOf(c)', own' = own
    PROVE  Overlaps'
  <1>1. Met'
    <2> SUFFICES ASSUME NEW a \in Conn, NEW b \in Conn, a # b,
                        handler'[a].work.obj # None,
                        handler'[a].work.obj = handler'[b].work.obj
                 PROVE  b \in handler'[a].work.company
      BY DEF Met
    <2>1. \A d \in {a, b} :
             /\ handler'[d].work.obj = handler[d].work.obj
             /\ handler'[d].work.company = handler[d].work.company
      BY DEF Effect
    <2> QED BY <2>1 DEF Overlaps, Met
  <1>2. ASSUME NEW d \in Conn, d # c PROVE CurrentOf(d)'
    <2>1. handler'[d] = handler[d] /\ CurrentOf(d) /\ FitsOf(d)
      BY <1>2 DEF Effect, Overlaps, Current, Sound, Fits
    <2> SUFFICES ASSUME handler[d].work.company = {} PROVE CurrentOf(d)'
      BY <2>1 DEF CurrentOf
    <2>2. handler[d].work.obj # None => handler[c].work.obj # handler[d].work.obj
      BY <1>2 DEF Overlaps, Met
    <2>3. handler[d].work.obj = Hook => UNCHANGED <<nodes, refs>> /\ Found' = Found
      BY <2>2, NoWorkFits DEF Effect, Found
    <2>4. handler[d].work.obj \in Object => objs'[handler[d].work.obj] = objs[handler[d].work.obj]
      BY <2>2, NoWorkFits DEF Effect
    <2>5. CASE handler[d].stage \in HookStages
      BY <2>1, <2>3, <2>5 DEF FitsOf, CurrentOf, HookStages, NoBlob
    <2>6. CASE handler[d].stage \in ObjectStages
      BY <2>1, <2>4, <2>6 DEF FitsOf, CurrentOf, ObjectStages
    <2>7. CASE handler[d].stage \notin HookStages \cup ObjectStages
      BY <2>1, <2>7 DEF CurrentOf, HookStages, ObjectStages
    <2> QED BY <2>5, <2>6, <2>7
  <1> QED BY <1>1, <1>2 DEF Overlaps, Current

LEMMA OverlapsOnReceive ==
    ASSUME Sound, Overlaps, NEW c \in Conn, NEW m \in Message, Receive(c, m)
    PROVE  Overlaps'
  <1>1. UNCHANGED <<own, nodes, refs, objs>> /\ Found' = Found /\ handler[c].stage = "idle"
    BY ReceiveEffect DEF Found
  <1>2. CASE /\ handler'[c] = [stage |-> "closed", work |-> NoWork]
             /\ \A d \in Conn \ {c} : handler'[d] = handler[d]
    <2>1. Effect(c) /\ handler'[c].stage = "closed"
      BY <1>1, <1>2, NoWorkFits DEF Effect
    <2>2. CurrentOf(c)'
      BY <2>1 DEF CurrentOf
    <2> QED BY <1>1, <2>1, <2>2, OthersStayCurrent
  <1>3. ASSUME NEW w \in Work,
               w = IF Begins(m) = "idle" THEN NoWork ELSE Working(c, m),
               handler'[c] = [stage |-> Begins(m), work |-> w],
               \A d \in Conn \ {c} : \E cs \in SUBSET Conn :
                  /\ cs = IF w.obj # None /\ d \in UnderWayOn(w.obj)
                          THEN handler[d].work.company \cup {c}
                          ELSE handler[d].work.company
                  /\ handler'[d] = [stage |-> handler[d].stage,
                                    work |-> [handler[d].work EXCEPT !.company = cs]]
        PROVE  Overlaps'
    <2>1. ASSUME NEW d \in Conn \ {c}
          PROVE  /\ handler'[d].stage = handler[d].stage
                 /\ handler'[d].work.obj = handler[d].work.obj
                 /\ handler'[d].work.node = handler[d].work.node
                 /\ handler'[d].work.fetched = handler[d].work.fetched
                 /\ handler[d].work.company \subseteq handler'[d].work.company
                 /\ w.obj # None /\ d \in UnderWayOn(w.obj) => c \in handler'[d].work.company
      <3>1. PICK cs \in SUBSET Conn :
                  /\ cs = IF w.obj # None /\ d \in UnderWayOn(w.obj)
                          THEN handler[d].work.company \cup {c}
                          ELSE handler[d].work.company
                  /\ handler'[d] = [stage |-> handler[d].stage,
                                    work |-> [handler[d].work EXCEPT !.company = cs]]
        BY <1>3
      <3>2. PICK v \in Work : v = [handler[d].work EXCEPT !.company = cs]
                 /\ v.company = cs /\ v.obj = handler[d].work.obj
                 /\ v.node = handler[d].work.node /\ v.fetched = handler[d].work.fetched
        <4>1. handler[d].work \in Work
          BY HandlerTypes DEF Sound
        <4> QED BY <4>1, CompanyChanges, ZenonT(30)
      <3>3. handler'[d].stage = handler[d].stage /\ handler'[d].work = v
        BY <3>1, <3>2
      <3> QED BY <3>1, <3>2, <3>3
    <2>2. \A d \in Conn \ {c} :
             w.obj # None /\ handler[d].work.obj = w.obj =>
                d \in UnderWayOn(w.obj) /\ d \in w.company
      <3> SUFFICES ASSUME NEW d \in Conn \ {c}, w.obj # None, handler[d].work.obj = w.obj
                   PROVE  d \in UnderWayOn(w.obj) /\ d \in w.company
        OBVIOUS
      <3>1. w.obj = Hook \/ w.obj \in Object
        BY DEF Work, Target
      <3>2. handler[d].stage \in HookStages \cup ObjectStages
        BY <3>1 DEF Sound, Fits, FitsOf
      <3>3. d \in UnderWayOn(w.obj)
        BY <3>2 DEF UnderWayOn, HookStages, ObjectStages
      <3>4. Begins(m) # "idle" /\ w = Working(c, m)
        BY <1>3, NoWorkFits
      <3>5. m.kind = "change" /\ w.company = UnderWayOn(w.obj)
        BY <3>4 DEF Working, NoWork
      <3> QED BY <3>3, <3>5
    <2>3. Met'
      <3> SUFFICES ASSUME NEW a \in Conn, NEW b \in Conn, a # b,
                          handler'[a].work.obj # None,
                          handler'[a].work.obj = handler'[b].work.obj
                   PROVE  b \in handler'[a].work.company
        BY DEF Met
      <3>0. handler'[c].work = w
        BY <1>3
      <3>1. CASE a = c
        BY <2>1, <2>2, <3>0, <3>1
      <3>2. CASE b = c
        BY <2>1, <2>2, <3>0, <3>2
      <3>3. CASE a # c /\ b # c
        BY <2>1, <3>3 DEF Overlaps, Met
      <3> QED BY <3>1, <3>2, <3>3
    <2>4. CurrentOf(c)'
      <3>1. handler'[c].stage = Begins(m)
        BY <1>3
      <3> QED BY <3>1 DEF CurrentOf, Begins
    <2>5. ASSUME NEW d \in Conn, d # c PROVE CurrentOf(d)'
      <3>1. CurrentOf(d)
        BY DEF Overlaps, Current
      <3>2. handler'[d].work.company = {} => handler[d].work.company = {}
        BY <2>1, <2>5
      <3> QED BY <1>1, <2>1, <2>5, <3>1, <3>2 DEF CurrentOf, NoBlob
    <2> QED BY <2>3, <2>4, <2>5 DEF Overlaps, Current
  <1> QED BY <1>2, <1>3, ReceiveEffect

LEMMA InitOwnNew == Init => OwnNew
  BY DEF Init, OwnNew

LEMMA InitOverlaps == Init => Overlaps
  <1> SUFFICES ASSUME Init PROVE Overlaps
    OBVIOUS
  <1>1. \A c \in Conn : handler[c] = [stage |-> "closed", work |-> NoWork]
    BY DEF Init
  <1>2. \A c \in Conn : handler[c].stage = "closed" /\ handler[c].work.obj = None
    BY <1>1, NoWorkFits
  <1> QED BY <1>2 DEF Overlaps, Met, Current, CurrentOf

\* Which node is found when the auth server has linked the one that it has made.
LEMMA OwnIsLinked ==
    ASSUME Sound, RefOwnNode
    PROVE  /\ refs' = refs \cup {own} /\ own \notin refs /\ own \in DOMAIN nodes /\ own # 0
           /\ UNCHANGED <<own, nodes, objs, handler>>
           /\ Found' = IF Found = 0 \/ own < Found THEN own ELSE Found
           /\ Found # own
  <1>1. /\ refs' = refs \cup {own} /\ own \notin refs /\ own \in DOMAIN nodes /\ own # 0
        /\ UNCHANGED <<own, nodes, objs, handler>>
    BY DEF RefOwnNode, Sound, TypeOK
  <1>2. refs' \in SUBSET Nat /\ own \in Nat
    BY <1>1 DEF Sound, TypeOK
  <1>3. Found' \in refs' /\ \A r \in refs' : Found' <= r
    BY <1>1, <1>2, MinIsFirst DEF Found
  <1>4. /\ Found \in Nat /\ (Found = 0 <=> refs = {})
        /\ Found # 0 => Found \in refs
        /\ \A r \in refs : Found <= r
    BY FoundIsFirst DEF Sound
  <1>5. Found' \in Nat
    BY <1>2, <1>3
  <1> QED BY <1>1, <1>2, <1>3, <1>4, <1>5

LEMMA OverlapsStep == Sound /\ OwnNew /\ Overlaps /\ [Next]_vars => Overlaps'
  <1> SUFFICES ASSUME Sound, OwnNew, Overlaps, [Next]_vars PROVE Overlaps'
    OBVIOUS
  <1>u. ASSUME UNCHANGED <<own, nodes, refs, objs, handler>> PROVE Overlaps'
    <2>1. Found' = Found
      BY <1>u DEF Found
    <2> QED BY <1>u, <2>1 DEF Overlaps, Met, Current, CurrentOf, NoBlob
  <1>1. ASSUME NEW c \in Conn, Connect(c) PROVE Overlaps'
    <2>1. "idle" \in Stage
      BY DEF Stage
    <2>2. /\ handler'[c] = [stage |-> "idle", work |-> NoWork]
          /\ \A d \in Conn \ {c} : handler'[d] = handler[d]
      BY <1>1, <2>1, Going, Kinds DEF Connect, Sound
    <2>3. Effect(c) /\ handler'[c].stage = "idle"
      BY <1>1, <2>2, NoWorkFits DEF Effect, Connect
    <2>4. CurrentOf(c)'
      BY <2>3 DEF CurrentOf
    <2> QED BY <1>1, <2>3, <2>4, OthersStayCurrent DEF Connect
  <1>2. ASSUME NEW c \in Conn, Leave(c) PROVE Overlaps'
    BY <1>2, <1>u DEF Leave
  <1>3. ASSUME NEW c \in Conn, NoticeLeave(c) PROVE Overlaps'
    <2>1. Effect(c) /\ handler'[c].stage \in {"idle", "closed"}
      BY <1>3, Ends DEF NoticeLeave, Fails
    <2>2. CurrentOf(c)'
      BY <2>1 DEF CurrentOf
    <2> QED BY <1>3, <2>1, <2>2, OthersStayCurrent DEF NoticeLeave, Fails
  <1>4. ASSUME NEW c \in Conn, Handle(c) PROVE Overlaps'
    BY <1>4, HandleEffect, HandleSetup, OthersStayCurrent DEF Overlaps
  <1>5. ASSUME NEW c \in Conn, NEW m \in Message, Receive(c, m) PROVE Overlaps'
    BY <1>5, OverlapsOnReceive
  <1>6. CASE SetUpAge
    BY <1>6, <1>u DEF SetUpAge
  <1>9. CASE CreateOwnNode
    <2>1. /\ own = 0 /\ own' = Len(nodes) + 1 /\ nodes' = Append(nodes, NoBlob)
          /\ UNCHANGED <<refs, objs, handler>> /\ nodes \in Seq(Blob)
          /\ refs \subseteq DOMAIN nodes /\ 0 \notin refs
      BY <1>9 DEF CreateOwnNode, NewNode, Sound, TypeOK
    <2>2. nodes'[own'] = NoBlob /\ \A n \in DOMAIN nodes : nodes'[n] = nodes[n]
      BY <2>1, Kinds
    <2>3. Found' = Found
      BY <2>1 DEF Found
    <2>4. ASSUME NEW d \in Conn PROVE CurrentOf(d)'
      <3>1. CurrentOf(d)
        BY DEF Overlaps, Current
      <3>2. handler[d].stage \in {"refNode", "fetchNode", "updateNode"} =>
                handler[d].work.node \in DOMAIN nodes
        BY DEF Sound, Fits, FitsOf, WithNode
      <3>3. refs \subseteq {own} => refs' \subseteq {own'}
        BY <2>1
      <3> QED BY <2>1, <2>2, <2>3, <3>1, <3>2, <3>3 DEF CurrentOf, NoBlob
    <2> QED BY <2>1, <2>4 DEF Overlaps, Met, Current
  <1>10. CASE RefOwnNode
    <2>1. ASSUME NEW d \in Conn PROVE CurrentOf(d)'
      <3>1. CurrentOf(d)
        BY DEF Overlaps, Current
      <3>2. refs \subseteq {own} => refs' \subseteq {own'}
        BY <1>10, OwnIsLinked
      <3>3. Found = handler[d].work.node \/ (own # 0 /\ Found = own) =>
                Found' = handler[d].work.node \/ (own # 0 /\ Found' = own)
        BY <1>10, OwnIsLinked
      <3>4. UNCHANGED <<own, nodes, objs, handler>>
        BY <1>10, OwnIsLinked
      <3> QED BY <3>1, <3>2, <3>3, <3>4 DEF CurrentOf, NoBlob
    <2>2. handler' = handler
      BY <1>10 DEF RefOwnNode
    <2> QED BY <2>1, <2>2 DEF Overlaps, Met, Current
  <1>7. CASE Crash
    <2>1. \A c \in Conn : handler'[c] = [stage |-> "closed", work |-> NoWork]
      BY <1>7 DEF Crash
    <2>2. \A c \in Conn : handler'[c].stage = "closed" /\ handler'[c].work.obj = None
      BY <2>1, NoWorkFits
    <2> QED BY <2>2 DEF Overlaps, Met, Current, CurrentOf
  <1>8. CASE UNCHANGED vars
    BY <1>8, <1>u DEF vars
  <1> QED BY <1>1, <1>2, <1>3, <1>4, <1>5, <1>6, <1>7, <1>8, <1>9, <1>10 DEF Next

\* What ChangesNeedCompany says of one target and variable.
Kept(o, v) ==
    /\ Saved(o)'.vars[v] = Saved(o).vars[v]
    /\ IsBlob(Saved(o)) => IsBlob(Saved(o)')

Explained(o, v) ==
    \E c \in Conn : /\ handler[c].work.obj = o
                    /\ handler'[c] # handler[c]
                    /\ \/ v \in handler[c].work.vars
                       \/ handler[c].work.company # {}

LEMMA SameStateIsKept ==
    ASSUME NEW o \in Target, NEW v \in Var,
           o = Hook => UNCHANGED <<nodes, refs>>,
           o \in Object => objs'[o] = objs[o]
    PROVE  Kept(o, v)
  <1>1. Saved(o)' = Saved(o)
    BY Kinds DEF Saved, Found, Target, NoBlob
  <1> QED BY <1>1 DEF Kept

LEMMA HandleChanges ==
    ASSUME Sound, OwnNew, Overlaps, NEW c \in Conn, Handle(c), NEW o \in Target, NEW v \in Var
    PROVE  Kept(o, v) \/ Explained(o, v)
  <1> USE DEF HookStages, ObjectStages, WithNode
  <1>w. PICK w \in Work : w = handler[c].work
    BY HandlerTypes DEF Sound
  <1>f. FitsOf(c) /\ CurrentOf(c)
    BY DEF Sound, Fits, Overlaps, Current
  <1>e. Effect(c) /\ CurrentOf(c)'
    BY HandleEffect DEF Overlaps
  <1>1. CASE w.obj # o
    BY <1>1, <1>e, <1>w, SameStateIsKept DEF Effect
  <1>2. ASSUME w.obj = o, handler'[c].stage # handler[c].stage, v \in w.vars \/ w.company # {}
        PROVE  Explained(o, v)
    BY <1>2, <1>w DEF Explained
  <1>3. CASE w.obj = o /\ CreateNode(c)
    <2>1. o = Hook /\ nodes \in Seq(Blob) /\ nodes' = Append(nodes, NoBlob) /\ refs' = refs
      BY <1>3, <1>f, <1>w DEF CreateNode, FitsOf, Sound, TypeOK
    <2>2. Found # 0 => nodes'[Found] = nodes[Found]
      BY <2>1, FoundIsFirst, Kinds DEF Sound
    <2>3. Found' = Found
      BY <2>1 DEF Found
    <2>4. Saved(o)' = Saved(o)
      BY <2>1, <2>2, <2>3, Kinds DEF Saved, NoBlob
    <2> QED BY <2>4 DEF Kept
  <1>4. CASE w.obj = o /\ RefNode(c)
    <2>1. /\ o = Hook /\ w.node \in DOMAIN nodes
          /\ handler[c].stage = "refNode" /\ handler'[c].stage = "fetchNode"
          /\ handler'[c].work = w
          /\ refs' = refs \cup {w.node} /\ nodes' = nodes
      <3>1. Goes(c, "fetchNode", w)
        BY <1>4, <1>w DEF RefNode
      <3>2. handler'[c] = [stage |-> "fetchNode", work |-> w]
        BY <3>1, Going DEF Sound, Stage
      <3> QED BY <1>4, <1>f, <1>w, <3>2 DEF RefNode, FitsOf
    <2>2. CASE w.company = {}
      <3>1. /\ refs \subseteq {own} /\ nodes[w.node] = NoBlob
            /\ own # 0 => nodes[own] = NoBlob
        BY <1>f, <1>w, <2>1, <2>2 DEF CurrentOf
      <3>2. w.node # 0 /\ own' = own
        BY <2>1, HandleSetup DEF Sound, TypeOK
      <3>3. Found' = w.node \/ (own # 0 /\ Found' = own)
        BY <1>e, <2>1, <2>2, <3>2 DEF CurrentOf
      <3>4. Found = 0 \/ (own # 0 /\ Found = own)
        BY <3>1, FoundIsFirst DEF Sound
      <3>5. Saved(o) = NoBlob
        BY <2>1, <3>1, <3>4, Kinds DEF Saved
      <3>6. Saved(o)' = NoBlob
        BY <2>1, <3>1, <3>2, <3>3, Kinds DEF Saved, NoBlob
      <3> QED BY <3>5, <3>6 DEF Kept
    <2> QED BY <1>2, <1>4, <2>1, <2>2
  <1>5. CASE w.obj = o /\ UpdateNode(c)
    <2>1. /\ o = Hook /\ w.node \in DOMAIN nodes /\ nodes[w.node] \in Blob
          /\ handler[c].stage = "updateNode" /\ handler'[c].stage = "idle"
          /\ nodes' = [nodes EXCEPT ![w.node] = Stored(nodes[w.node], Applied(w, c))]
          /\ refs' = refs
      BY <1>5, <1>f, <1>w, Finishing DEF UpdateNode, FitsOf, Sound, TypeOK
    <2>2. CASE w.company = {} /\ v \notin w.vars
      <3>1. /\ Found = w.node \/ (own # 0 /\ Found = own)
            /\ w.fetched = nodes[w.node] /\ Found' = Found
        BY <1>f, <1>w, <2>1, <2>2 DEF CurrentOf, Found
      <3>2. PICK b : /\ b = Stored(nodes[w.node], Applied(w, c))
                     /\ IsBlob(b) /\ b.vars[v] = w.fetched.vars[v]
        BY <1>w, <2>1, <2>2, BlobsAreSaved DEF Sound
      <3>3. w.node # 0 /\ nodes'[w.node] = b
        BY <2>1, <3>2 DEF Sound, TypeOK
      <3>4. CASE Found = w.node
        <4>1. Saved(o) = nodes[w.node] /\ Saved(o)' = b
          BY <2>1, <3>1, <3>3, <3>4, Kinds DEF Saved
        <4> QED BY <3>1, <3>2, <4>1 DEF Kept
      <3>5. CASE Found # w.node
        <4>1. Found # 0 /\ Found \in DOMAIN nodes /\ nodes \in Seq(Blob)
          BY <3>1, <3>5, FoundIsFirst DEF Sound, TypeOK
        <4>2. nodes'[Found] = nodes[Found]
          BY <2>1, <3>5, <4>1
        <4>3. Saved(o)' = Saved(o)
          BY <2>1, <3>1, <4>1, <4>2, Kinds DEF Saved
        <4> QED BY <4>3 DEF Kept
      <3> QED BY <3>4, <3>5
    <2> QED BY <1>2, <1>5, <2>1, <2>2
  <1>6. CASE w.obj = o /\ SaveState(c)
    <2>1. /\ o \in Object /\ objs[o] \in Blob
          /\ handler[c].stage = "saveState" /\ handler'[c].stage = "idle"
          /\ objs'[o] = Stored(objs[o], Applied(w, c))
      BY <1>6, <1>f, <1>w, Finishing DEF SaveState, FitsOf, Sound, TypeOK
    <2>2. CASE w.company = {} /\ v \notin w.vars
      <3>1. w.fetched = objs[o]
        BY <1>f, <1>w, <1>6, <2>1, <2>2 DEF CurrentOf
      <3>2. PICK b : /\ b = Stored(objs[o], Applied(w, c))
                     /\ IsBlob(b) /\ b.vars[v] = w.fetched.vars[v]
        BY <1>w, <2>1, <2>2, BlobsAreSaved DEF Sound
      <3>3. Saved(o) = objs[o] /\ Saved(o)' = b
        BY <2>1, <3>2 DEF Saved
      <3> QED BY <3>1, <3>2, <3>3 DEF Kept
    <2> QED BY <1>2, <1>6, <2>1, <2>2
  <1>7. CASE w.obj = o /\ UNCHANGED <<nodes, refs, objs>>
    BY <1>7, SameStateIsKept
  <1>8. \/ CreateNode(c) \/ RefNode(c) \/ UpdateNode(c) \/ SaveState(c)
        \/ UNCHANGED <<nodes, refs, objs>>
    BY Writers
  <1> QED BY <1>1, <1>3, <1>4, <1>5, <1>6, <1>7, <1>8

\* The auth server links the node that it made before the one that is found.
Hides(o) == o = Hook /\ own \in refs' \ refs /\ own < Found

LEMMA OwnChanges ==
    ASSUME Sound, OwnNew, CreateOwnNode \/ RefOwnNode, NEW o \in Target, NEW v \in Var
    PROVE  Kept(o, v) \/ Hides(o)
  <1>0. objs' = objs
    BY DEF CreateOwnNode, RefOwnNode
  <1>1. CASE o # Hook
    BY <1>0, <1>1, SameStateIsKept
  <1>2. CASE o = Hook /\ CreateOwnNode
    <2>1. nodes \in Seq(Blob) /\ nodes' = Append(nodes, NoBlob) /\ refs' = refs
      BY <1>2 DEF CreateOwnNode, Sound, TypeOK
    <2>2. Found # 0 => nodes'[Found] = nodes[Found]
      BY <2>1, FoundIsFirst, Kinds DEF Sound
    <2>3. Found' = Found
      BY <2>1 DEF Found
    <2>4. Saved(o)' = Saved(o)
      BY <1>2, <2>1, <2>2, <2>3, Kinds DEF Saved, NoBlob
    <2> QED BY <2>4 DEF Kept
  <1>3. CASE o = Hook /\ RefOwnNode
    <2>1. CASE own < Found
      BY <1>3, <2>1, OwnIsLinked DEF Hides
    <2>2. CASE Found = 0
      <3>1. Found' = own /\ own # 0 /\ nodes[own] = NoBlob /\ nodes' = nodes
        BY <1>3, <2>2, OwnIsLinked DEF OwnNew
      <3>2. Saved(o) = NoBlob /\ Saved(o)' = NoBlob
        BY <1>3, <2>2, <3>1, Kinds DEF Saved, NoBlob
      <3> QED BY <3>2 DEF Kept
    <2>3. CASE ~(own < Found) /\ Found # 0
      <3>1. Found' = Found /\ nodes' = nodes
        BY <1>3, <2>3, OwnIsLinked
      <3>2. Saved(o)' = Saved(o)
        BY <1>0, <3>1 DEF Saved, NoBlob
      <3> QED BY <3>2 DEF Kept
    <2> QED BY <2>1, <2>2, <2>3
  <1> QED BY <1>1, <1>2, <1>3

LEMMA ChangesStep ==
    ASSUME Sound, OwnNew, Overlaps, [Next]_vars, NEW o \in Target, NEW v \in Var
    PROVE  Kept(o, v) \/ Hides(o) \/ Explained(o, v)
  <1>1. ASSUME NEW c \in Conn, Handle(c) PROVE Kept(o, v) \/ Explained(o, v)
    BY <1>1, HandleChanges
  <1>2. CASE UNCHANGED <<nodes, refs, objs>>
    BY <1>2, SameStateIsKept
  <1>3. CASE CreateOwnNode \/ RefOwnNode
    BY <1>3, OwnChanges
  <1> QED BY <1>1, <1>2, <1>3, ZenonT(30)
          DEF Next, Connect, Leave, NoticeLeave, Fails, Receive, SetUpAge, Crash, vars

\* A variable of a saved state changes only when a change is saved that names it,
\* or one that has overlapped with another change of the same object between
\* the calls that fetch the state and save it (NetMessageSDLState.handle), or when
\* the auth server links its own SDL node before the one that holds the state
\* (create_age_instance).
THEOREM LostChangesOverlapped == Spec => ChangesNeedCompany
  <1>1. Sound /\ OwnNew /\ Overlaps /\ [Next]_vars =>
          [\A o \in Target, v \in Var :
             \/ /\ Saved(o)'.vars[v] = Saved(o).vars[v]
                /\ IsBlob(Saved(o)) => IsBlob(Saved(o)')
             \/ o = Hook /\ own \in refs' \ refs /\ own < Found
             \/ \E c \in Conn : /\ handler[c].work.obj = o
                               /\ handler'[c] # handler[c]
                               /\ \/ v \in handler[c].work.vars
                                  \/ handler[c].work.company # {}]_vars
    <2> SUFFICES ASSUME Sound, OwnNew, Overlaps, [Next]_vars, NEW o \in Target,
                        NEW v \in Var
                 PROVE  Kept(o, v) \/ Hides(o) \/ Explained(o, v)
      BY Zenon DEF Kept, Hides, Explained
    <2> QED BY ChangesStep
  <1> QED
    BY <1>1, InitSound, SoundStep, InitOwnNew, OwnNewStep, InitOverlaps, OverlapsStep, PTL
       DEF Spec, ChangesNeedCompany

-----------------------------------------------------------------------------
(* Clients that keep to the order.                                         *)

\* An avatar that is loaded in the age has shown its prefix; a client that keeps
\* to the order joins an age that exists and has loaded its avatar when it asks
\* for the state.
PoliteOf(c) ==
    /\ client[c].loaded => client[c].prefix
    /\ client[c].orderly =>
         /\ client[c].end \in {"none", "left", "crash", "blob"}
         /\ handler[c].stage \in {"joinAge", "joinInfo"} => age = "whole"
         /\ handler[c].stage \in {"requestFind", "requestFetch"} => client[c].prefix

Polite == \A c \in Conn : PoliteOf(c)

\* A handler's steps to the next stage, or to the end of the connection.
LEMMA HandleClient ==
    ASSUME Sound, NEW c \in Conn, Handle(c)
    PROVE  \/ /\ Fails(c, "protocol")
              /\ handler[c].stage \in {"joinAge", "joinInfo"} /\ age # "whole"
           \/ Fails(c, "uncaught") /\ handler[c].stage = "requestFetch" /\ ~client[c].prefix
           \/ Fails(c, "blob")
           \/ /\ age' = age
              /\ client' = client \/ client' = [client EXCEPT ![c].joined = TRUE]
              /\ \/ handler[c].stage = "joinAge" /\ handler'[c].stage = "joinInfo"
                 \/ handler[c].stage = "requestFind" /\ handler'[c].stage = "requestFetch"
                 \/ handler'[c].stage \notin {"joinAge", "joinInfo", "requestFind", "requestFetch"}
  <1>1. \A stage, w : Goes(c, stage, w) => handler'[c].stage = stage
    BY DEF Goes, Sound, TypeOK
  <1>2. Finishes(c) => handler'[c].stage = "idle"
    BY <1>1 DEF Finishes
  <1>3. CASE JoinAge(c) \/ JoinInfo(c)
    BY <1>1, <1>2, <1>3 DEF JoinAge, JoinInfo
  <1>4. CASE \/ FindNode(c) \/ CreateNode(c) \/ RefNode(c) \/ FetchNode(c) \/ UpdateNode(c)
             \/ FetchState(c) \/ SaveState(c)
    BY <1>1, <1>2, <1>4
       DEF FindNode, CreateNode, RefNode, FetchNode, UpdateNode, FetchState, SaveState, Fetched
  <1>5. CASE RequestFind(c) \/ RequestExecute(c) \/ RequestRow(c) \/ RequestDone(c)
    BY <1>1, <1>2, <1>5 DEF RequestFind, RequestExecute, RequestRow, RequestDone
  <1>6. CASE RequestFetch(c)
    BY <1>1, <1>6 DEF RequestFetch
  <1> QED BY <1>3, <1>4, <1>5, <1>6 DEF Handle

\* How a connection ends keeps only whether the client kept to the order.
LEMMA EndedClient ==
    ASSUME TypeOK, NEW c \in Conn, NEW end
    PROVE  /\ Ended(c, end).end = end /\ Ended(c, end).orderly = client[c].orderly
           /\ Ended(c, end).loaded = FALSE
           /\ Fails(c, end) =>
                /\ client' = [client EXCEPT ![c] = Ended(c, end)] /\ age' = age
                /\ handler'[c].stage = "closed"
                /\ \A d \in Conn \ {c} : handler'[d] = handler[d]
  BY DEF Ended, NoClient, Fails, Goes, TypeOK

\* What a client that keeps to the order sends is handled, but for a blob that
\* cannot even be guessed at.
LEMMA ProperIsHandled ==
    ASSUME Sound, NEW c \in Conn, NEW m \in Message, PoliteOf(c), Proper(c, m)
    PROVE  /\ ~Rejected(c, m)
           /\ Raises(c, m) => EndBy(c, m) = "blob"
           /\ Begins(m) = "joinAge" => age = "whole"
           /\ Begins(m) = "requestFind" => client[c].prefix
  <1>1. m \in Messages
    BY Kinds
  <1>2. CASE m.kind = "change"
    BY <1>2 DEF PoliteOf, Proper, Rejected, Raises, Begins, EndBy
  <1>3. CASE m.kind \in {"join", "illegal", "request"}
    BY <1>3 DEF PoliteOf, Proper, Rejected, Raises, Begins, EndBy
  <1>4. CASE m.kind \in {"load", "lock", "unlock", "other"}
    BY <1>4 DEF PoliteOf, Proper, Rejected, Raises, Begins, EndBy
  <1> QED BY <1>1, <1>2, <1>3, <1>4 DEF Messages

LEMMA PoliteOnReceive ==
    ASSUME Sound, Polite, NEW c \in Conn, NEW m \in Message, Receive(c, m)
    PROVE  Polite'
  <1>1. PICK k \in Client : k = client[c]
    BY DEF Sound, TypeOK, Client
  <1>2. PoliteOf(c)
    BY DEF Polite
  <1>3. ASSUME NEW d \in Conn, d # c PROVE PoliteOf(d)'
    <2>1. client'[d] = client[d] /\ handler'[d].stage = handler[d].stage /\ age' = age
      <3>1. client'[d] = client[d] /\ age' = age
        BY <1>3 DEF Receive, Sound, TypeOK
      <3>2. handler'[d].stage = handler[d].stage
        <4>1. d \in Conn \ {c}
          BY <1>3
        <4>2. \/ handler'[d] = handler[d]
              \/ \E u : handler'[d] = [stage |-> handler[d].stage, work |-> u]
          BY <4>1, ReceiveEffect, ZenonT(30)
        <4>3. ASSUME NEW u, handler'[d] = [stage |-> handler[d].stage, work |-> u]
              PROVE  handler'[d].stage = handler[d].stage
          BY <4>3
        <4> QED BY <4>2, <4>3
      <3> QED BY <3>1, <3>2
    <2> QED BY <2>1 DEF Polite, PoliteOf
  <1>4. CASE Rejected(c, m) \/ Raises(c, m)
    <2>1. /\ client'[c].orderly = (k.orderly /\ Proper(c, m))
          /\ client'[c].loaded = FALSE /\ client'[c].end = EndBy(c, m)
      <3>1. PICK h : h = [k EXCEPT !.messages = k.messages + 1,
                                   !.orderly = k.orderly /\ Proper(c, m),
                                   !.loaded = k.loaded \/ Introduces(m)]
        OBVIOUS
      <3>2. h.orderly = (k.orderly /\ Proper(c, m))
        BY <3>1 DEF Client
      <3>3. client' = [client EXCEPT ![c] =
                [NoClient EXCEPT !.messages = h.messages, !.orderly = h.orderly,
                                 !.end = EndBy(c, m)]]
        BY <1>1, <1>4, <3>1 DEF Receive
      <3>4. client'[c] = [NoClient EXCEPT !.messages = h.messages, !.orderly = h.orderly,
                                          !.end = EndBy(c, m)]
        BY <3>3 DEF Sound, TypeOK
      <3> QED BY <3>2, <3>4 DEF NoClient
    <2>2. handler'[c].stage = "closed"
      BY <1>4 DEF Receive, Goes, Sound, TypeOK
    <2>3. client'[c].orderly => client'[c].end = "blob"
      BY <1>2, <1>4, <2>1, ProperIsHandled
    <2> QED BY <1>3, <2>1, <2>2, <2>3 DEF Polite, PoliteOf
  <1>5. CASE ~Rejected(c, m) /\ ~Raises(c, m)
    <2>1. client'[c] = [[k EXCEPT !.messages = k.messages + 1,
                                  !.orderly = k.orderly /\ Proper(c, m),
                                  !.loaded = k.loaded \/ Introduces(m)]
                          EXCEPT !.prefix = k.prefix \/ Learns(c, m), !.locks = Locks(c, m)]
      BY <1>1, <1>5 DEF Receive, Sound, TypeOK, Client
    <2>2. /\ client'[c].orderly = (k.orderly /\ Proper(c, m))
          /\ client'[c].loaded = (k.loaded \/ Introduces(m))
          /\ client'[c].prefix = (k.prefix \/ Learns(c, m))
          /\ client'[c].end = k.end
      BY <2>1 DEF Client
    <2>3. handler'[c].stage = Begins(m) /\ age' = age
      BY <1>5 DEF Receive, Sound, TypeOK
    <2>4. Introduces(m) => Learns(c, m)
      BY DEF Introduces, Learns
    <2>5. Begins(m) \notin {"joinInfo", "requestFetch"}
      BY DEF Begins
    <2>6. PoliteOf(c)'
      <3>1. client'[c].loaded => client'[c].prefix
        BY <1>1, <1>2, <2>2, <2>4 DEF PoliteOf
      <3>2. ASSUME client'[c].orderly
            PROVE  /\ client'[c].end \in {"none", "left", "crash", "blob"}
                   /\ handler'[c].stage \in {"joinAge", "joinInfo"} => age' = "whole"
                   /\ handler'[c].stage \in {"requestFind", "requestFetch"} => client'[c].prefix
        <4>1. k.orderly /\ Proper(c, m)
          BY <2>2, <3>2
        <4> QED BY <1>1, <1>2, <2>2, <2>3, <2>5, <4>1, ProperIsHandled DEF PoliteOf
      <3> QED BY <3>1, <3>2 DEF PoliteOf
    <2> QED BY <1>3, <2>6 DEF Polite
  <1> QED BY <1>4, <1>5

LEMMA PoliteStep == Sound /\ Polite /\ [Next]_vars => Polite'
  <1> SUFFICES ASSUME Sound, Polite, [Next]_vars PROVE Polite'
    OBVIOUS
  <1>f. ASSUME NEW c \in Conn, NEW end, Fails(c, end),
               client[c].orderly => end \in {"none", "left", "crash", "blob"}
        PROVE  Polite'
    <2>1. /\ client'[c].orderly = client[c].orderly /\ client'[c].end = end
          /\ client'[c].loaded = FALSE /\ handler'[c].stage = "closed"
      <3>1. /\ client' = [client EXCEPT ![c] = Ended(c, end)] /\ handler'[c].stage = "closed"
            /\ Ended(c, end).end = end /\ Ended(c, end).orderly = client[c].orderly
            /\ Ended(c, end).loaded = FALSE
        BY <1>f, EndedClient, ZenonT(30) DEF Sound
      <3>2. client'[c] = Ended(c, end)
        BY <3>1 DEF Sound, TypeOK
      <3> QED BY <3>1, <3>2
    <2>2. \A d \in Conn \ {c} : client'[d] = client[d] /\ handler'[d] = handler[d] /\ age' = age
      <3>1. /\ client' = [client EXCEPT ![c] = Ended(c, end)] /\ age' = age
            /\ \A d \in Conn \ {c} : handler'[d] = handler[d]
        BY <1>f, EndedClient DEF Sound
      <3> QED BY <3>1 DEF Sound, TypeOK
    <2> QED BY <1>f, <2>1, <2>2 DEF Polite, PoliteOf
  <1>1. ASSUME NEW c \in Conn, Connect(c) PROVE Polite'
    <2>1. PICK k \in Client : k = [NoClient EXCEPT !.messages = client[c].messages]
      BY ClientChanges DEF Sound
    <2>2. k.end = "none" /\ k.loaded = FALSE
      BY <2>1 DEF NoClient
    <2>3. client'[c] = k /\ handler'[c].stage = "idle"
      BY <1>1, <2>1 DEF Connect, Goes, Sound, TypeOK
    <2>4. \A d \in Conn \ {c} : client'[d] = client[d] /\ handler'[d] = handler[d] /\ age' = age
      BY <1>1 DEF Connect, Goes, Sound, TypeOK
    <2> QED BY <2>2, <2>3, <2>4 DEF Polite, PoliteOf
  <1>2. ASSUME NEW c \in Conn, Leave(c) PROVE Polite'
    <2>1. \A d \in Conn : /\ client'[d].loaded = client[d].loaded
                          /\ client'[d].prefix = client[d].prefix
                          /\ client'[d].orderly = client[d].orderly
                          /\ client'[d].end = client[d].end
      BY <1>2 DEF Leave, Sound, TypeOK
    <2> QED BY <1>2, <2>1 DEF Leave, Polite, PoliteOf
  <1>3. ASSUME NEW c \in Conn, NoticeLeave(c) PROVE Polite'
    BY <1>3, <1>f DEF NoticeLeave
  <1>4. ASSUME NEW c \in Conn, Handle(c) PROVE Polite'
    <2>1. PoliteOf(c)
      BY DEF Polite
    <2>2. CASE /\ Fails(c, "protocol")
               /\ handler[c].stage \in {"joinAge", "joinInfo"} /\ age # "whole"
      BY <1>f, <2>1, <2>2 DEF PoliteOf
    <2>3. CASE Fails(c, "uncaught") /\ handler[c].stage = "requestFetch" /\ ~client[c].prefix
      BY <1>f, <2>1, <2>3 DEF PoliteOf
    <2>5. CASE Fails(c, "blob")
      BY <1>f, <2>5
    <2>4. CASE /\ age' = age
               /\ client' = client \/ client' = [client EXCEPT ![c].joined = TRUE]
               /\ \/ handler[c].stage = "joinAge" /\ handler'[c].stage = "joinInfo"
                  \/ handler[c].stage = "requestFind" /\ handler'[c].stage = "requestFetch"
                  \/ handler'[c].stage \notin {"joinAge", "joinInfo", "requestFind", "requestFetch"}
      <3>1. \A d \in Conn : /\ client'[d].loaded = client[d].loaded
                            /\ client'[d].prefix = client[d].prefix
                            /\ client'[d].orderly = client[d].orderly
                            /\ client'[d].end = client[d].end
        <4>1. PICK k \in Client : k = client[c]
          BY DEF Sound, TypeOK, Client
        <4>2. [k EXCEPT !.joined = TRUE].loaded = k.loaded
              /\ [k EXCEPT !.joined = TRUE].prefix = k.prefix
              /\ [k EXCEPT !.joined = TRUE].orderly = k.orderly
              /\ [k EXCEPT !.joined = TRUE].end = k.end
          BY DEF Client
        <4>3. client' = client \/ client' = [client EXCEPT ![c] = [k EXCEPT !.joined = TRUE]]
          BY <2>4, <4>1
        <4> QED BY <4>1, <4>2, <4>3 DEF Sound, TypeOK
      <3>2. \A d \in Conn \ {c} : handler'[d] = handler[d]
        <4>1. \A stage, w : Goes(c, stage, w) => \A d \in Conn \ {c} : handler'[d] = handler[d]
          BY DEF Goes, Sound, TypeOK
        <4>2. Finishes(c) \/ (\E end : Fails(c, end)) =>
                  \A d \in Conn \ {c} : handler'[d] = handler[d]
          BY <4>1 DEF Finishes, Fails
        <4> QED BY <1>4, <4>1, <4>2
            DEF Handle, JoinAge, JoinInfo, FindNode, CreateNode, RefNode, FetchNode, UpdateNode,
                FetchState, SaveState, Fetched, RequestFind, RequestFetch, RequestExecute,
                RequestRow, RequestDone
      <3> QED BY <2>1, <2>4, <3>1, <3>2 DEF Polite, PoliteOf
    <2> QED BY <1>4, <2>2, <2>3, <2>4, <2>5, HandleClient
  <1>5. ASSUME NEW c \in Conn, NEW m \in Message, Receive(c, m) PROVE Polite'
    BY <1>5, PoliteOnReceive
  <1>6. CASE SetUpAge
    BY <1>6 DEF SetUpAge, Polite, PoliteOf
  <1>9. CASE CreateOwnNode \/ RefOwnNode
    BY <1>9 DEF CreateOwnNode, RefOwnNode, Polite, PoliteOf
  <1>7. CASE Crash
    <2>1. \A c \in Conn : /\ client'[c].end = "crash" /\ client'[c].loaded = FALSE
                          /\ handler'[c].stage = "closed"
      BY <1>7, EndedClient DEF Crash, Sound
    <2> QED BY <2>1 DEF Polite, PoliteOf
  <1>8. CASE UNCHANGED vars
    BY <1>8 DEF vars, Polite, PoliteOf
  <1> QED BY <1>1, <1>2, <1>3, <1>4, <1>5, <1>6, <1>7, <1>8, <1>9 DEF Next

LEMMA InitPolite == Init => Polite
  BY DEF Init, Polite, PoliteOf, NoClient

\* A client that joins an age that exists, and loads its avatar in it before it
\* asks for the state or changes the AgeSDLHook, is only cut off by a blob that it
\* sends, or that is saved, at which the server guesses wrong, whatever the others
\* do and whichever messages the server is configured to parse.
THEOREM OrderlySurvive == Spec => []OrderlyClientsSurvive
  <1>1. Polite => OrderlyClientsSurvive
    BY DEF Polite, PoliteOf, OrderlyClientsSurvive
  <1> QED BY <1>1, InitSound, SoundStep, InitPolite, PoliteStep, PTL DEF Spec

-----------------------------------------------------------------------------
(* What a request is owed.                                                 *)

RequestStages == {"requestFind", "requestFetch", "requestExecute", "requestRows"}

Firsts(w) == {s[1] : s \in w.sent}

\* More than one SDL node has been referenced.
Many == \E a, b \in refs : a # b

\* The states sent are of different targets, and the rows come in order.
CountsOf(c) ==
    LET stage == handler[c].stage
        w == handler[c].work
    IN  stage \in RequestStages =>
          /\ IsFiniteSet(Firsts(w)) /\ w.count = Cardinality(Firsts(w))
          /\ stage \in {"requestFind", "requestFetch"} => Firsts(w) = {}
          /\ stage = "requestExecute" => Firsts(w) \subseteq {Hook}
          /\ stage = "requestRows" /\ w.row # None =>
                \A o \in Firsts(w) : o = Hook \/ (o \in Object /\ o < w.row)

WasSent(w, o, k) == \E s \in w.sent : s[1] = o /\ s[2] >= k

\* What is owed has been sent, or is still to be found where it was.
OwedObject(c, o, k) ==
    LET w == handler[c].work
    IN  /\ objs[o].saves >= k
        /\ handler[c].stage = "requestRows" =>
             \/ WasSent(w, o, k)
             \/ w.row # None /\ (w.row < o \/ (w.row = o /\ w.blob.saves >= k))

OwedHook(c, k) ==
    LET w == handler[c].work
    IN  \/ Many
        \/ /\ refs # {} /\ nodes[Found].saves >= k
           /\ handler[c].stage = "requestFetch" => w.node = Found
           /\ handler[c].stage \in {"requestExecute", "requestRows"} => WasSent(w, Hook, k)

OwesOf(c) ==
    handler[c].stage \in RequestStages =>
      \A t \in handler[c].work.owed :
         /\ t[2] >= 1
         /\ t[1] \in Object => OwedObject(c, t[1], t[2])
         /\ t[1] = Hook => OwedHook(c, t[2])

Asked == \A c \in Conn : CountsOf(c) /\ OwesOf(c)

SavesAreNumbers ==
    /\ nodes \in Seq(Blob)
    /\ \A o \in Object : objs[o] \in Blob /\ objs[o].saves \in Nat
    /\ \A n \in DOMAIN nodes : nodes[n] \in Blob /\ nodes[n].saves \in Nat

LEMMA NumberedSaves == Sound => SavesAreNumbers
  <1> SUFFICES ASSUME Sound PROVE SavesAreNumbers
    OBVIOUS
  <1>1. \A b \in Blob : b.saves \in Nat
    BY DEF Blob
  <1>2. nodes \in Seq(Blob) /\ objs \in [Object -> Blob]
    BY DEF Sound, TypeOK
  <1> QED BY <1>1, <1>2 DEF SavesAreNumbers

LEMMA NumberedNext == Sound /\ [Next]_vars => SavesAreNumbers'
  BY NumberedSaves, SoundStep, PTL

LEMMA SavesGrow ==
    ASSUME Sound, [Next]_vars
    PROVE  /\ \A o \in Object : objs'[o].saves >= objs[o].saves
           /\ \A n \in DOMAIN nodes : nodes'[n].saves >= nodes[n].saves
           /\ Many => Many'
           /\ refs # {} /\ ~Many' => refs' = refs /\ Found' = Found
  <1>0. \/ UNCHANGED <<nodes, refs, objs>>
        \/ \E c \in Conn : CreateNode(c) \/ RefNode(c) \/ UpdateNode(c) \/ SaveState(c)
        \/ CreateOwnNode \/ RefOwnNode
    <2>1. \/ UNCHANGED <<nodes, refs, objs>> \/ \E c \in Conn : Handle(c)
          \/ CreateOwnNode \/ RefOwnNode
      <3>1. ASSUME NEW c \in Conn,
                   Connect(c) \/ Leave(c) \/ NoticeLeave(c) \/ \E m \in Message : Receive(c, m)
            PROVE  UNCHANGED <<nodes, refs, objs>>
        BY <3>1 DEF Connect, Leave, NoticeLeave, Receive, Fails
      <3>2. SetUpAge \/ Crash => UNCHANGED <<nodes, refs, objs>>
        BY DEF SetUpAge, Crash
      <3>3. UNCHANGED vars => UNCHANGED <<nodes, refs, objs>>
        BY DEF vars
      <3> QED BY <3>1, <3>2, <3>3 DEF Next
    <2>2. ASSUME NEW c \in Conn, Handle(c)
          PROVE  \/ UNCHANGED <<nodes, refs, objs>>
                 \/ CreateNode(c) \/ RefNode(c) \/ UpdateNode(c) \/ SaveState(c)
      BY <2>2, Writers
    <2> QED BY <2>1, <2>2
  <1>1. UNCHANGED objs \/ \E c \in Conn : SaveState(c)
    BY <1>0 DEF CreateNode, RefNode, UpdateNode, CreateOwnNode, RefOwnNode
  <1>2. \/ UNCHANGED nodes \/ nodes' = Append(nodes, NoBlob)
        \/ \E c \in Conn : UpdateNode(c)
    BY <1>0 DEF RefNode, SaveState, CreateNode, CreateOwnNode, RefOwnNode
  <1>3. refs \subseteq refs'
    BY <1>0 DEF CreateNode, RefNode, UpdateNode, SaveState, CreateOwnNode, RefOwnNode
  <1>4. ASSUME NEW o \in Object PROVE objs'[o].saves >= objs[o].saves
    <2>1. objs[o] \in Blob /\ objs[o].saves \in Nat
      BY NumberedSaves DEF SavesAreNumbers
    <2>2. ASSUME NEW c \in Conn, SaveState(c) PROVE objs'[o].saves >= objs[o].saves
      <3>1. \/ objs'[o] = objs[o]
            \/ objs'[o] = Stored(objs[o], Applied(handler[c].work, c))
        BY <2>2 DEF SaveState, Sound, TypeOK
      <3> QED BY <2>1, <3>1 DEF Stored
    <2> QED BY <1>1, <2>1, <2>2
  <1>5. ASSUME NEW n \in DOMAIN nodes PROVE nodes'[n].saves >= nodes[n].saves
    <2>1. nodes[n] \in Blob /\ nodes[n].saves \in Nat /\ nodes \in Seq(Blob)
      BY NumberedSaves DEF SavesAreNumbers
    <2>2. ASSUME NEW c \in Conn, UpdateNode(c) PROVE nodes'[n].saves >= nodes[n].saves
      <3>1. \/ nodes'[n] = nodes[n]
            \/ nodes'[n] = Stored(nodes[n], Applied(handler[c].work, c))
        BY <2>1, <2>2 DEF UpdateNode
      <3> QED BY <2>1, <3>1 DEF Stored
    <2>3. ASSUME nodes' = Append(nodes, NoBlob) PROVE nodes'[n].saves >= nodes[n].saves
      <3>1. nodes'[n] = nodes[n]
        BY <2>1, <2>3, Kinds
      <3> QED BY <2>1, <3>1
    <2> QED BY <1>2, <2>1, <2>2, <2>3
  <1>6. refs # {} /\ ~Many' => refs' = refs
    BY <1>3 DEF Many
  <1>7. refs' = refs => Found' = Found
    BY DEF Found
  <1> QED BY <1>3, <1>4, <1>5, <1>6, <1>7 DEF Many

\* The steps of others leave what a request has done, and what it is owed is kept.
LEMMA OthersKeepAsked ==
    ASSUME Sound, Asked, [Next]_vars, NEW d \in Conn,
           handler'[d].stage = handler[d].stage,
           handler'[d].work.node = handler[d].work.node,
           handler'[d].work.row = handler[d].work.row,
           handler'[d].work.blob = handler[d].work.blob,
           handler'[d].work.count = handler[d].work.count,
           handler'[d].work.sent = handler[d].work.sent,
           handler'[d].work.owed = handler[d].work.owed
    PROVE  CountsOf(d)' /\ OwesOf(d)'
  <1>1. CountsOf(d)'
    BY DEF Asked, CountsOf, Firsts, RequestStages
  <1>2. ASSUME handler[d].stage \in RequestStages, NEW t \in handler[d].work.owed
        PROVE  /\ t[2] >= 1
               /\ t[1] \in Object => OwedObject(d, t[1], t[2])'
               /\ t[1] = Hook => OwedHook(d, t[2])'
    <2>1. /\ t[2] >= 1
          /\ t[1] \in Object => OwedObject(d, t[1], t[2])
          /\ t[1] = Hook => OwedHook(d, t[2])
      BY <1>2 DEF Asked, OwesOf
    <2>2. t[2] \in Nat
      BY HandlerTypes DEF Sound
    <2>3. ASSUME t[1] \in Object PROVE OwedObject(d, t[1], t[2])'
      <3>1. objs[t[1]].saves \in Int /\ objs'[t[1]].saves >= objs[t[1]].saves
        BY <2>3, SavesGrow, NumberedSaves DEF SavesAreNumbers
      <3>2. objs'[t[1]].saves >= t[2]
        <4>1. objs'[t[1]].saves \in Int
          BY <2>3, NumberedNext DEF SavesAreNumbers
        <4> QED BY <2>1, <2>2, <2>3, <3>1, <4>1 DEF OwedObject
      <3> QED BY <2>1, <2>3, <3>2 DEF OwedObject, WasSent
    <2>4. ASSUME t[1] = Hook PROVE OwedHook(d, t[2])'
      <3>1. CASE Many'
        BY <3>1 DEF OwedHook
      <3>2. CASE ~Many'
        <4>1. /\ refs # {} /\ nodes[Found].saves >= t[2] /\ refs' = refs /\ Found' = Found
          BY <2>1, <2>4, <3>2, SavesGrow DEF OwedHook
        <4>2. Found \in DOMAIN nodes
          BY <4>1, FoundIsFirst DEF Sound
        <4>3. nodes'[Found].saves >= nodes[Found].saves /\ nodes[Found].saves \in Int
          BY <4>2, SavesGrow, NumberedSaves DEF SavesAreNumbers
        <4>4. nodes'[Found].saves \in Int
          <5>1. Found \in DOMAIN nodes'
            BY <4>1, FoundIsFirst, SoundStep DEF Sound, TypeOK
          <5> QED BY <5>1, NumberedNext DEF SavesAreNumbers
        <4>5. nodes'[Found].saves >= t[2]
          BY <2>2, <4>1, <4>3, <4>4
        <4> QED BY <2>1, <2>4, <3>2, <4>1, <4>5, SavesGrow DEF OwedHook, WasSent
      <3> QED BY <3>1, <3>2
    <2> QED BY <2>1, <2>3, <2>4
  <1> QED BY <1>1, <1>2 DEF OwesOf, RequestStages

\* Where the handler of a request is next.
LEMMA RequestGoes ==
    ASSUME Sound, NEW c \in Conn, Handle(c)
    PROVE  \/ handler'[c].stage \notin RequestStages
           \/ RequestFind(c) \/ RequestFetch(c) \/ RequestExecute(c) \/ RequestRow(c)
  <1>1. \A stage, w : Goes(c, stage, w) => handler'[c].stage = stage
    BY DEF Goes, Sound, TypeOK
  <1>2. Finishes(c) \/ (\E end : Fails(c, end)) => handler'[c].stage \in {"idle", "closed"}
    BY <1>1 DEF Finishes, Fails
  <1>3. CASE JoinAge(c) \/ JoinInfo(c) \/ RequestDone(c)
    BY <1>1, <1>2, <1>3 DEF JoinAge, JoinInfo, RequestDone, RequestStages
  <1>4. CASE \/ FindNode(c) \/ CreateNode(c) \/ RefNode(c) \/ FetchNode(c) \/ UpdateNode(c)
             \/ FetchState(c) \/ SaveState(c)
    BY <1>1, <1>2, <1>4
       DEF FindNode, CreateNode, RefNode, FetchNode, UpdateNode, FetchState, SaveState, Fetched,
           RequestStages
  <1> QED BY <1>3, <1>4 DEF Handle

LEMMA FirstsAdd ==
    \A sent, o, k :
        {s[1] : s \in sent \cup {<<o, k>>}} = {s[1] : s \in sent} \cup {o}
  <1> SUFFICES ASSUME NEW sent, NEW o, NEW k, NEW p
               PROVE  p \in {s[1] : s \in sent \cup {<<o, k>>}}
                        <=> p \in {s[1] : s \in sent} \cup {o}
    OBVIOUS
  <1>1. <<o, k>>[1] = o
    OBVIOUS
  <1>2. p \in {s[1] : s \in sent \cup {<<o, k>>}} <=> \E s \in sent \cup {<<o, k>>} : p = s[1]
    OBVIOUS
  <1>3. p \in {s[1] : s \in sent} <=> \E s \in sent : p = s[1]
    OBVIOUS
  <1> QED BY <1>1, <1>2, <1>3

LEMMA OwnAsked ==
    ASSUME Sound, Asked, NEW c \in Conn, Handle(c)
    PROVE  CountsOf(c)' /\ OwesOf(c)'
  <1>w. PICK w \in Work : w = handler[c].work
    BY HandlerTypes DEF Sound
  <1>a. CountsOf(c) /\ OwesOf(c) /\ FitsOf(c)
    BY DEF Asked, Sound, Fits
  <1>g. \A stage \in Stage : \A u \in Work : Goes(c, stage, u) =>
            handler'[c].stage = stage /\ handler'[c].work = u
    <2> SUFFICES ASSUME NEW stage \in Stage, NEW u \in Work, Goes(c, stage, u)
                 PROVE  handler'[c].stage = stage /\ handler'[c].work = u
      OBVIOUS
    <2>1. handler'[c] = [stage |-> stage, work |-> u]
      BY Going DEF Sound
    <2> QED BY <2>1
  <1>o. \A t \in w.owed : t[1] \in Target /\ t[2] \in Nat
    BY DEF Work
  <1>s. SavesAreNumbers
    BY NumberedSaves
  <1>1. CASE handler'[c].stage \notin RequestStages
    BY <1>1 DEF CountsOf, OwesOf, RequestStages
  <1>2. CASE RequestFind(c)
    <2>1. handler[c].stage = "requestFind" /\ Firsts(w) = {} /\ w.count = Cardinality(Firsts(w))
      BY <1>2, <1>a, <1>w DEF RequestFind, CountsOf, RequestStages
    <2>2. UNCHANGED <<nodes, refs, objs>> /\ Found' = Found
      BY <1>2 DEF RequestFind, Found
    <2>3. PICK u \in Work : /\ u.owed = w.owed /\ u.sent = w.sent /\ u.count = w.count
                            /\ \/ Found = 0 /\ handler'[c].stage = "requestExecute"
                               \/ /\ Found # 0 /\ handler'[c].stage = "requestFetch"
                                  /\ u.node = Found
                            /\ handler'[c].work = u
      <3>1. "requestExecute" \in Stage /\ "requestFetch" \in Stage
        BY DEF Stage
      <3>2. CASE Found = 0
        BY <1>2, <1>g, <1>w, <3>1, <3>2 DEF RequestFind
      <3>3. CASE Found # 0
        <4>1. PICK u \in Work : /\ u = [w EXCEPT !.node = Found] /\ u.node = Found
                                /\ u.owed = w.owed /\ u.sent = w.sent /\ u.count = w.count
          BY FoundIsFirst, WorkChanges DEF Sound
        <4>2. Goes(c, "requestFetch", u)
          BY <1>2, <1>w, <3>3, <4>1 DEF RequestFind
        <4>3. handler'[c].stage = "requestFetch" /\ handler'[c].work = u
          BY <1>g, <3>1, <4>2
        <4> QED BY <3>3, <4>1, <4>3
      <3> QED BY <3>2, <3>3
    <2>4. Firsts(u) = {} /\ IsFiniteSet(Firsts(u)) /\ u.count = Cardinality(Firsts(u))
      BY <2>1, <2>3, FS_EmptySet DEF Firsts
    <2>5. CountsOf(c)'
      BY <2>3, <2>4 DEF CountsOf, RequestStages, Firsts
    <2>6. ASSUME NEW t \in u.owed
          PROVE  /\ t[2] >= 1
                 /\ t[1] \in Object => OwedObject(c, t[1], t[2])'
                 /\ t[1] = Hook => OwedHook(c, t[2])'
      <3>1. /\ t[2] >= 1
            /\ t[1] \in Object => OwedObject(c, t[1], t[2])
            /\ t[1] = Hook => OwedHook(c, t[2])
        BY <1>a, <1>w, <2>1, <2>3, <2>6 DEF OwesOf, RequestStages
      <3>2. t[1] \in Object => OwedObject(c, t[1], t[2])'
        BY <2>2, <2>3, <3>1 DEF OwedObject
      <3>3. t[1] = Hook => OwedHook(c, t[2])'
        <4>1. Many => Many'
          BY <2>2 DEF Many
        <4>2. Many => refs # {}
          BY DEF Many
        <4>3. Found = 0 <=> refs = {}
          BY FoundIsFirst DEF Sound
        <4> QED BY <2>2, <2>3, <3>1, <4>1, <4>2, <4>3 DEF OwedHook
      <3> QED BY <3>1, <3>2, <3>3
    <2> QED BY <2>3, <2>5, <2>6 DEF OwesOf
  <1>3. CASE RequestFetch(c) /\ handler'[c].stage \in RequestStages
    <2>1. /\ handler[c].stage = "requestFetch" /\ Firsts(w) = {}
          /\ w.count = Cardinality(Firsts(w)) /\ w.node \in DOMAIN nodes
          /\ nodes[w.node] \in Blob /\ nodes[w.node].saves \in Nat
      BY <1>3, <1>a, <1>s, <1>w
         DEF RequestFetch, CountsOf, FitsOf, WithNode, RequestStages, SavesAreNumbers
    <2>2. UNCHANGED <<nodes, refs, objs>> /\ Found' = Found
      BY <1>3 DEF RequestFetch, Fails, Found
    <2>3. PICK b \in Blob : b = nodes[w.node] /\ b.saves \in Nat
      BY <2>1
    <2>4. PICK u \in Work : /\ u.owed = w.owed
                            /\ handler'[c].stage = "requestExecute" /\ handler'[c].work = u
                            /\ \/ b.saves = 0 /\ u.sent = w.sent /\ u.count = w.count
                               \/ /\ u.sent = w.sent \cup {<<Hook, b.saves>>}
                                  /\ u.count = w.count + 1
      <3>1. PICK u \in Work : u = Sending(w, Hook, b) /\ u.owed = w.owed
                    /\ u.sent = w.sent \cup {<<Hook, b.saves>>} /\ u.count = w.count + 1
        <4>1. Hook \in Target
          BY Kinds
        <4> QED BY <4>1, Sends
      <3>2. "requestExecute" \in Stage /\ "closed" \in Stage
        BY DEF Stage
      <3>3. ~Fails(c, "uncaught")
        BY <1>3, <1>g, <3>2, Kinds DEF Fails, RequestStages
      <3>4. \/ b.saves = 0 /\ Goes(c, "requestExecute", w)
            \/ Goes(c, "requestExecute", u)
        BY <1>3, <1>w, <2>3, <3>1, <3>3, SMTT(30) DEF RequestFetch, IsBlob
      <3> QED BY <1>g, <3>1, <3>2, <3>4
    <2>5. CountsOf(c)'
      <3>1. CASE u.sent = w.sent /\ u.count = w.count
        <4>1. Firsts(u) = {} /\ IsFiniteSet(Firsts(u)) /\ u.count = Cardinality(Firsts(u))
          BY <2>1, <3>1, FS_EmptySet DEF Firsts
        <4> QED BY <2>4, <4>1 DEF CountsOf, RequestStages, Firsts
      <3>2. CASE u.sent = w.sent \cup {<<Hook, b.saves>>} /\ u.count = w.count + 1
        <4>1. Firsts(u) = Firsts(w) \cup {Hook}
          <5>1. u.sent = w.sent \cup {<<Hook, b.saves>>}
            BY <3>2
          <5>2. {s[1] : s \in w.sent \cup {<<Hook, b.saves>>}} = {s[1] : s \in w.sent} \cup {Hook}
            BY FirstsAdd
          <5> QED BY <5>1, <5>2 DEF Firsts
        <4>2. Firsts(u) = {Hook} /\ w.count = 0
          BY <2>1, <4>1, FS_EmptySet
        <4>3. IsFiniteSet(Firsts(u)) /\ u.count = Cardinality(Firsts(u))
          <5>1. IsFiniteSet({Hook}) /\ Cardinality({Hook}) = 1
            BY FS_Singleton
          <5> QED BY <3>2, <4>2, <5>1
        <4> QED BY <2>4, <4>2, <4>3 DEF CountsOf, RequestStages, Firsts
      <3> QED BY <2>4, <3>1, <3>2
    <2>6. ASSUME NEW t \in u.owed
          PROVE  /\ t[2] >= 1
                 /\ t[1] \in Object => OwedObject(c, t[1], t[2])'
                 /\ t[1] = Hook => OwedHook(c, t[2])'
      <3>1. /\ t[2] >= 1
            /\ t[1] \in Object => OwedObject(c, t[1], t[2])
            /\ t[1] = Hook => OwedHook(c, t[2])
        BY <1>a, <1>w, <2>1, <2>4, <2>6 DEF OwesOf, RequestStages
      <3>2. t[1] \in Object => OwedObject(c, t[1], t[2])'
        BY <2>2, <2>4, <3>1 DEF OwedObject
      <3>3. t[1] = Hook => OwedHook(c, t[2])'
        <4>1. Many => Many'
          BY <2>2 DEF Many
        <4>2. ASSUME t[1] = Hook, ~Many
              PROVE  /\ refs # {} /\ nodes[Found].saves >= t[2] /\ w.node = Found
                     /\ <<Hook, b.saves>> \in u.sent /\ b.saves >= t[2]
          <5>1. refs # {} /\ nodes[Found].saves >= t[2] /\ w.node = Found
            BY <1>w, <2>1, <3>1, <4>2 DEF OwedHook
          <5> QED BY <1>o, <2>3, <2>4, <2>6, <3>1, <5>1
        <4>3. ASSUME t[1] = Hook, ~Many PROVE WasSent(u, Hook, t[2])
          BY <4>2, <4>3 DEF WasSent
        <4> QED BY <2>2, <2>4, <3>1, <4>1, <4>2, <4>3 DEF OwedHook, WasSent
      <3> QED BY <3>1, <3>2, <3>3
    <2> QED BY <2>4, <2>5, <2>6 DEF OwesOf
  <1>4. CASE RequestExecute(c)
    <2>1. handler[c].stage = "requestExecute" /\ Firsts(w) \subseteq {Hook}
          /\ IsFiniteSet(Firsts(w)) /\ w.count = Cardinality(Firsts(w))
      BY <1>4, <1>a, <1>w DEF RequestExecute, CountsOf, RequestStages
    <2>2. UNCHANGED <<nodes, refs, objs>> /\ Found' = Found
      BY <1>4 DEF RequestExecute, Found
    <2>3. PICK o \in Object \cup {None} : o = NextRow(0)
      BY FirstRow
    <2>4. PICK u \in Work : /\ u = Reading(w, o) /\ u.row = o
                            /\ u.owed = w.owed /\ u.sent = w.sent /\ u.count = w.count
                            /\ o # None => u.blob = objs[o]
      BY Reads DEF Sound
    <2>5. handler'[c].stage = "requestRows" /\ handler'[c].work = u
      <3>1. "requestRows" \in Stage /\ Goes(c, "requestRows", u)
        BY <1>4, <1>w, <2>3, <2>4 DEF RequestExecute, Stage
      <3> QED BY <1>g, <3>1
    <2>6. CountsOf(c)'
      <3>1. Firsts(u) = Firsts(w)
        BY <2>4 DEF Firsts
      <3> QED BY <2>1, <2>4, <2>5, <3>1 DEF CountsOf, RequestStages, Firsts
    <2>7. ASSUME NEW t \in u.owed
          PROVE  /\ t[2] >= 1
                 /\ t[1] \in Object => OwedObject(c, t[1], t[2])'
                 /\ t[1] = Hook => OwedHook(c, t[2])'
      <3>1. /\ t[2] >= 1
            /\ t[1] \in Object => OwedObject(c, t[1], t[2])
            /\ t[1] = Hook => OwedHook(c, t[2])
        BY <1>a, <1>w, <2>1, <2>4, <2>7 DEF OwesOf, RequestStages
      <3>2. ASSUME t[1] \in Object PROVE OwedObject(c, t[1], t[2])'
        <4>1. objs[t[1]].saves >= t[2] /\ objs[t[1]].saves \in Nat /\ t[2] \in Nat
          BY <1>o, <1>s, <2>4, <2>7, <3>1, <3>2 DEF OwedObject, SavesAreNumbers
        <4>2. t[1] \in Nat /\ t[1] > 0 /\ IsBlob(objs[t[1]])
          <5>1. t[1] \in Nat /\ t[1] # 0
            BY <3>2, Kinds
          <5>2. objs[t[1]].saves > 0
            BY <3>1, <4>1
          <5> QED BY <5>1, <5>2 DEF IsBlob
        <4>3. o # None /\ o <= t[1] /\ o \in Nat
          BY <2>3, <3>2, <4>2, FirstRow, Kinds
        <4> QED BY <2>2, <2>4, <2>5, <4>1, <4>2, <4>3 DEF OwedObject
      <3>3. t[1] = Hook => OwedHook(c, t[2])'
        BY <1>w, <2>1, <2>2, <2>4, <2>5, <3>1 DEF OwedHook, WasSent, Many
      <3> QED BY <3>1, <3>2, <3>3
    <2> QED BY <2>5, <2>6, <2>7 DEF OwesOf
  <1>5. CASE RequestRow(c)
    <2>1. /\ handler[c].stage = "requestRows" /\ w.row \in Object /\ w.row \in Nat
          /\ w.row # None /\ w.blob \in Blob /\ w.blob.saves \in Nat
          /\ IsFiniteSet(Firsts(w)) /\ w.count = Cardinality(Firsts(w))
          /\ \A o \in Firsts(w) : o = Hook \/ (o \in Object /\ o < w.row)
      <3>1. w.row # None /\ w.row \in Object \cup {None} /\ w.blob \in Blob
        BY <1>5, <1>w DEF RequestRow, Work
      <3>2. w.row \in Object /\ w.row \in Nat /\ w.blob.saves \in Nat
        BY <3>1, Kinds DEF Blob
      <3> QED BY <1>5, <1>a, <1>w, <3>1, <3>2 DEF RequestRow, CountsOf, RequestStages
    <2>2. UNCHANGED <<nodes, refs, objs>> /\ Found' = Found
      BY <1>5 DEF RequestRow, Found
    <2>3. PICK v \in Work : /\ v = Sending(w, w.row, w.blob) /\ v.owed = w.owed
                            /\ v.sent = w.sent \cup {<<w.row, w.blob.saves>>}
                            /\ v.count = w.count + 1
      <3>1. w.row \in Target
        BY <2>1, Kinds
      <3> QED BY <2>1, <3>1, Sends
    <2>4. PICK o \in Object \cup {None} : o = NextRow(w.row)
      BY <2>1, FirstRow
    <2>5. PICK u \in Work : /\ u = Reading(v, o) /\ u.row = o
                            /\ u.owed = v.owed /\ u.sent = v.sent /\ u.count = v.count
                            /\ o # None => u.blob = objs[o]
      BY Reads DEF Sound
    <2>6. handler'[c].stage = "requestRows" /\ handler'[c].work = u
      <3>1. "requestRows" \in Stage /\ Goes(c, "requestRows", u)
        BY <1>5, <1>w, <2>3, <2>4, <2>5 DEF RequestRow, Stage
      <3> QED BY <1>g, <3>1
    <2>7. CountsOf(c)'
      <3>1. Firsts(u) = Firsts(w) \cup {w.row}
        <4>1. u.sent = w.sent \cup {<<w.row, w.blob.saves>>}
          BY <2>3, <2>5
        <4>2. {s[1] : s \in w.sent \cup {<<w.row, w.blob.saves>>}} =
                  {s[1] : s \in w.sent} \cup {w.row}
          BY FirstsAdd
        <4> QED BY <4>1, <4>2 DEF Firsts
      <3>2. w.row \notin Firsts(w)
        BY <2>1, Kinds
      <3>3. IsFiniteSet(Firsts(u)) /\ u.count = Cardinality(Firsts(u))
        BY <2>1, <2>3, <2>5, <3>1, <3>2, FS_AddElement
      <3>4. ASSUME o # None, NEW p \in Firsts(u) PROVE p = Hook \/ (p \in Object /\ p < o)
        <4>1. o > w.row /\ o \in Nat
          BY <2>1, <2>4, <3>4, FirstRow, Kinds
        <4>2. p \in Object => p \in Nat
          BY Kinds
        <4> QED BY <2>1, <3>1, <3>4, <4>1, <4>2
      <3> QED BY <2>5, <2>6, <3>3, <3>4 DEF CountsOf, RequestStages, Firsts
    <2>8. ASSUME NEW t \in u.owed
          PROVE  /\ t[2] >= 1
                 /\ t[1] \in Object => OwedObject(c, t[1], t[2])'
                 /\ t[1] = Hook => OwedHook(c, t[2])'
      <3>1. /\ t[2] >= 1
            /\ t[1] \in Object => OwedObject(c, t[1], t[2])
            /\ t[1] = Hook => OwedHook(c, t[2])
        BY <1>a, <1>w, <2>1, <2>3, <2>5, <2>8 DEF OwesOf, RequestStages
      <3>w. \A p, k : WasSent(w, p, k) => WasSent(u, p, k)
        <4>1. u.sent = w.sent \cup {<<w.row, w.blob.saves>>}
          BY <2>3, <2>5
        <4> QED BY <4>1 DEF WasSent
      <3>2. ASSUME t[1] \in Object PROVE OwedObject(c, t[1], t[2])'
        <4>1. /\ objs[t[1]].saves >= t[2] /\ objs[t[1]].saves \in Nat /\ t[2] \in Nat
              /\ t[1] \in Nat
          BY <1>o, <1>s, <2>3, <2>5, <2>8, <3>1, <3>2, Kinds DEF OwedObject, SavesAreNumbers
        <4>2. \/ WasSent(w, t[1], t[2])
              \/ w.row < t[1] \/ (w.row = t[1] /\ w.blob.saves >= t[2])
          BY <1>w, <2>1, <3>1, <3>2 DEF OwedObject
        <4>3. CASE WasSent(w, t[1], t[2])
          BY <2>2, <2>6, <3>w, <4>1, <4>3 DEF OwedObject, WasSent
        <4>4. CASE w.row < t[1]
          <5>1. IsBlob(objs[t[1]])
            BY <3>1, <4>1 DEF IsBlob
          <5>2. o # None /\ o <= t[1] /\ o \in Nat
            BY <2>1, <2>4, <3>2, <4>1, <4>4, <5>1, FirstRow, Kinds
          <5> QED BY <2>2, <2>5, <2>6, <4>1, <5>2 DEF OwedObject
        <4>5. CASE w.row = t[1] /\ w.blob.saves >= t[2]
          <5>1. WasSent(u, t[1], t[2])
            <6>1. u.sent = w.sent \cup {<<w.row, w.blob.saves>>}
              BY <2>3, <2>5
            <6>2. <<w.row, w.blob.saves>>[1] = w.row /\ <<w.row, w.blob.saves>>[2] = w.blob.saves
              OBVIOUS
            <6> QED BY <4>5, <6>1, <6>2 DEF WasSent
          <5> QED BY <2>2, <2>6, <4>1, <5>1 DEF OwedObject, WasSent
        <4> QED BY <4>2, <4>3, <4>4, <4>5
      <3>3. ASSUME t[1] = Hook PROVE OwedHook(c, t[2])'
        BY <1>w, <2>1, <2>2, <2>6, <3>1, <3>3, <3>w DEF OwedHook, WasSent, Many
      <3> QED BY <3>1, <3>2, <3>3
    <2> QED BY <2>6, <2>7, <2>8 DEF OwesOf
  <1> QED BY <1>1, <1>2, <1>3, <1>4, <1>5, RequestGoes

\* A request starts with what is saved.
LEMMA RequestBegins ==
    ASSUME Sound, NEW c \in Conn, NEW m \in Message, Receive(c, m)
    PROVE  CountsOf(c)' /\ OwesOf(c)'
  <1>1. UNCHANGED <<nodes, refs, objs>> /\ Found' = Found
    BY ReceiveEffect DEF Found
  <1>2. CASE handler'[c] = [stage |-> "closed", work |-> NoWork]
    BY <1>2 DEF CountsOf, OwesOf, RequestStages
  <1>3. ASSUME NEW w \in Work,
               w = IF Begins(m) = "idle" THEN NoWork ELSE Working(c, m),
               handler'[c] = [stage |-> Begins(m), work |-> w]
        PROVE  CountsOf(c)' /\ OwesOf(c)'
    <2>1. handler'[c].stage = Begins(m) /\ handler'[c].work = w
      BY <1>3
    <2>2. Begins(m) \in RequestStages => Begins(m) = "requestFind" /\ m.kind = "request"
      BY DEF Begins, RequestStages
    <2>3. CASE Begins(m) \notin RequestStages
      BY <2>1, <2>3 DEF CountsOf, OwesOf, RequestStages
    <2>4. CASE Begins(m) = "requestFind" /\ m.kind = "request"
      <3>1. w = [NoWork EXCEPT !.owed =
                    {<<o, Saved(o).saves>> : o \in {p \in Target : IsBlob(Saved(p))}}]
        BY <1>3, <2>4 DEF Working
      <3>2. w.sent = {} /\ w.count = 0
        BY <3>1 DEF NoWork
      <3>3. w.owed = {<<o, Saved(o).saves>> : o \in {p \in Target : IsBlob(Saved(p))}}
        BY <3>1 DEF NoWork
      <3>4. Firsts(w) = {} /\ IsFiniteSet(Firsts(w)) /\ w.count = Cardinality(Firsts(w))
        BY <3>2, FS_EmptySet DEF Firsts
      <3>5. CountsOf(c)'
        BY <2>1, <2>4, <3>4 DEF CountsOf, RequestStages, Firsts
      <3>6. ASSUME NEW t \in w.owed
            PROVE  /\ t[2] >= 1
                   /\ t[1] \in Object => OwedObject(c, t[1], t[2])'
                   /\ t[1] = Hook => OwedHook(c, t[2])'
        <4>1. PICK o \in Target : t = <<o, Saved(o).saves>> /\ IsBlob(Saved(o))
          BY <3>3
        <4>2. t[1] = o /\ t[2] = Saved(o).saves /\ t[2] \in Nat
          <5>1. t[2] \in Nat
            BY DEF Work
          <5> QED BY <4>1, <5>1
        <4>3. t[2] >= 1
          BY <4>1, <4>2 DEF IsBlob
        <4>4. ASSUME o \in Object PROVE OwedObject(c, o, t[2])'
          <5>1. objs[o].saves = t[2]
            BY <4>2, <4>4 DEF Saved
          <5> QED BY <1>1, <2>1, <2>4, <4>2, <5>1 DEF OwedObject
        <4>5. ASSUME o = Hook PROVE OwedHook(c, t[2])'
          <5>1. Found # 0
            BY <4>1, <4>5, Kinds DEF Saved, IsBlob, NoBlob
          <5>2. nodes[Found].saves = t[2] /\ refs # {}
            BY <4>2, <4>5, <5>1, FoundIsFirst, Kinds DEF Saved, Sound
          <5> QED BY <1>1, <2>1, <2>4, <4>2, <5>2 DEF OwedHook
        <4> QED BY <4>2, <4>3, <4>4, <4>5
      <3> QED BY <2>1, <3>5, <3>6 DEF OwesOf
    <2> QED BY <2>2, <2>3, <2>4
  <1>4. \/ handler'[c] = [stage |-> "closed", work |-> NoWork]
        \/ \E w \in Work : /\ w = IF Begins(m) = "idle" THEN NoWork ELSE Working(c, m)
                           /\ handler'[c] = [stage |-> Begins(m), work |-> w]
    BY ReceiveEffect
  <1> QED BY <1>2, <1>3, <1>4

LEMMA InitAsked == Init => Asked
  <1> SUFFICES ASSUME Init PROVE Asked
    OBVIOUS
  <1>1. \A c \in Conn : handler[c].stage = "closed"
    BY DEF Init
  <1> QED BY <1>1 DEF Asked, CountsOf, OwesOf, RequestStages

LEMMA AskedStep == Sound /\ OwnNew /\ Current /\ Asked /\ [Next]_vars => Asked'
  <1> SUFFICES ASSUME Sound, OwnNew, Current, Asked, [Next]_vars, NEW d \in Conn
               PROVE  CountsOf(d)' /\ OwesOf(d)'
    BY DEF Asked
  <1>s. ASSUME handler'[d] = handler[d] PROVE CountsOf(d)' /\ OwesOf(d)'
    BY <1>s, OthersKeepAsked
  <1>e. ASSUME handler'[d].stage \in {"idle", "closed"} PROVE CountsOf(d)' /\ OwesOf(d)'
    BY <1>e DEF CountsOf, OwesOf, RequestStages
  <1>1. ASSUME NEW c \in Conn, Connect(c) PROVE CountsOf(d)' /\ OwesOf(d)'
    BY <1>1, <1>s, <1>e DEF Connect, Goes, Sound, TypeOK
  <1>2. ASSUME NEW c \in Conn, Leave(c) PROVE CountsOf(d)' /\ OwesOf(d)'
    BY <1>2, <1>s DEF Leave
  <1>3. ASSUME NEW c \in Conn, NoticeLeave(c) PROVE CountsOf(d)' /\ OwesOf(d)'
    BY <1>3, <1>s, <1>e DEF NoticeLeave, Fails, Goes, Sound, TypeOK
  <1>4. ASSUME NEW c \in Conn, Handle(c) PROVE CountsOf(d)' /\ OwesOf(d)'
    <2>1. CASE d = c
      BY <1>4, <2>1, OwnAsked
    <2>2. CASE d # c
      BY <1>4, <1>s, <2>2, HandleEffect DEF Effect
    <2> QED BY <2>1, <2>2
  <1>5. ASSUME NEW c \in Conn, NEW m \in Message, Receive(c, m)
        PROVE  CountsOf(d)' /\ OwesOf(d)'
    <2>1. CASE d = c
      BY <1>5, <2>1, RequestBegins
    <2>2. CASE d \in Conn \ {c}
      BY <1>5, <2>2, ReceiveOthers, OthersKeepAsked
    <2> QED BY <2>1, <2>2
  <1>6. CASE SetUpAge
    BY <1>6, <1>s DEF SetUpAge
  <1>9. CASE CreateOwnNode \/ RefOwnNode
    BY <1>9, <1>s DEF CreateOwnNode, RefOwnNode
  <1>7. CASE Crash
    BY <1>7, <1>e DEF Crash
  <1>8. CASE UNCHANGED vars
    BY <1>8, <1>s DEF vars
  <1> QED BY <1>1, <1>2, <1>3, <1>4, <1>5, <1>6, <1>7, <1>8, <1>9 DEF Next

\* When the number of states is reported, every state that was saved when the
\* request came has been sent, as it was or newer, and the number is right,
\* however others save in the meantime (NetMessageGameStateRequest.handle).
THEOREM RequestsAreComplete == Spec => []RequestComplete
  <1>1. ASSUME Sound, Asked PROVE RequestComplete
    <2> SUFFICES ASSUME NEW c \in Conn,
                        handler[c].stage = "requestRows", handler[c].work.row = None
                 PROVE  /\ handler[c].work.count =
                             Cardinality({s[1] : s \in handler[c].work.sent})
                        /\ \A t \in handler[c].work.owed :
                              \/ t[1] = Hook /\ Cardinality(refs) > 1
                              \/ \E s \in handler[c].work.sent : s[1] = t[1] /\ s[2] >= t[2]
      BY DEF RequestComplete
    <2>1. handler[c].work.count = Cardinality({s[1] : s \in handler[c].work.sent})
      BY <1>1 DEF Asked, CountsOf, Firsts, RequestStages
    <2>2. Many => Cardinality(refs) > 1
      <3>1. IsFiniteSet(refs)
        <4>1. refs \subseteq 1..Len(nodes) /\ Len(nodes) \in Nat
          BY <1>1 DEF Sound, TypeOK
        <4>2. IsFiniteSet(1..Len(nodes))
          BY <4>1, FS_Interval
        <4>3. refs \in SUBSET (1..Len(nodes))
          BY <4>1
        <4> QED BY <4>2, <4>3, FS_Subset
      <3>2. ASSUME NEW a \in refs, NEW b \in refs, a # b PROVE Cardinality(refs) > 1
        <4>1. IsFiniteSet({a}) /\ Cardinality({a}) = 1
          BY FS_Singleton
        <4>2. {a} \in SUBSET refs /\ {a} # refs
          BY <3>2
        <4>3. Cardinality({a}) < Cardinality(refs) \/ {a} = refs
          BY <3>1, <4>1, <4>2, FS_Subset, FS_CardinalityType
        <4> QED BY <4>1, <4>2, <4>3
      <3> QED BY <3>2 DEF Many
    <2>3. ASSUME NEW t \in handler[c].work.owed
          PROVE  \/ t[1] = Hook /\ Cardinality(refs) > 1
                 \/ \E s \in handler[c].work.sent : s[1] = t[1] /\ s[2] >= t[2]
      <3>1. t[1] \in Object \/ t[1] = Hook
        BY <1>1, HandlerTypes DEF Sound, Target
      <3>2. /\ t[1] \in Object => OwedObject(c, t[1], t[2])
            /\ t[1] = Hook => OwedHook(c, t[2])
        BY <1>1 DEF Asked, OwesOf, RequestStages
      <3> QED BY <2>2, <3>1, <3>2 DEF OwedObject, OwedHook, WasSent
    <2> QED BY <2>1, <2>3
  <1>2. Overlaps => Current
    BY DEF Overlaps
  <1> QED
    BY <1>1, <1>2, InitSound, SoundStep, InitOwnNew, OwnNewStep, InitOverlaps,
       OverlapsStep, InitAsked, AskedStep, PTL
       DEF Spec
=============================================================================
