---------------------- MODULE AvatarLifecycle_proofs ----------------------
(* Avatars of one name were created at the same time, and so were instances *)
(* of one age; who plays an avatar that is gone selected it while it was    *)
(* deleted; and the starts of the server agree on the public instances: for *)
(* any number of requests, restarts and static ages, whatever fails.        *)
EXTENDS AvatarLifecycle, SequenceTheorems, TLAPS

-----------------------------------------------------------------------------
(* The steps of the scripts.  Only an avatar's own script makes nodes of    *)
(* its tree; none looks for an instance of that tree.                       *)

Builds == [op : {"make", "link", "find", "findOrMake", "static", "publish"},
           at : Role, child : Role]

BuildStep ==
    {s \in Builds : s.op \in {"findOrMake", "static", "publish"} => s.at[1] # "player"}

ForeignStep == {s \in BuildStep : s.op = "make" => s.at[1] # "player"}

UnlinkStep == [op : {"offline", "unlink", "next", "remove", "delete"}, at : {Player},
               child : {Player} \cup Node]

DeletionTodos == {DeleteScript, Tail(DeleteScript)} \cup Seq(UnlinkStep)

\* The places of a tree.
LEMMA Roles ==
    /\ \A i \in Tree, part \in Part : <<i, part>> \in Role
    /\ {"vault", "player", "relto", "shared"} \cup StaticSet \subseteq Tree
    /\ {"system", "globalInbox", "allPlayers", "player", "playerInfo", "agesIOwn",
        "agesICanVisit", "age", "ageInfo", "ageOwners", "link", "extra"} \subseteq Part
    /\ \A part \in ToSet(PlayerLists) \cup ToSet(AgeLists) \cup ToSet(InfoLists) : part \in Part
    /\ "player" \notin StaticSet
<1>1. ToSet(Static) \cap {"vault", "player", "relto", "shared"} = {}
  BY TreesAssumption DEF TreesAssumption
<1> QED
  BY <1>1 DEF Role, Tree, Part, StaticSet

LEMMA Listed ==
    \A s \in {Static, PlayerLists, AgeLists, InfoLists} :
        s \in Seq(ToSet(s)) /\ Len(s) \in Nat /\ \A k \in 1..Len(s) : s[k] \in ToSet(s)
<1> SUFFICES ASSUME NEW s \in {Static, PlayerLists, AgeLists, InfoLists}
             PROVE  s \in Seq(ToSet(s)) /\ Len(s) \in Nat
                       /\ \A k \in 1..Len(s) : s[k] \in ToSet(s)
  OBVIOUS
<1>1. s \in Seq(ToSet(s))
  BY TreesAssumption DEF TreesAssumption
<1> QED
  BY <1>1

LEMMA StepKinds ==
    /\ BuildStep \subseteq StepType /\ ForeignStep \subseteq BuildStep
    /\ UnlinkStep \subseteq StepType
    /\ Player \in Role /\ Step("name", Player) \in StepType
    /\ Step("fetch", Player) \in StepType /\ Step("kick", Player) \in StepType
    /\ Step("unlink", Player) \in UnlinkStep /\ Step("delete", Player) \in UnlinkStep
    /\ Step("offline", Player) \in UnlinkStep /\ Step("next", Player) \in UnlinkStep
<1>1. Player \in Role
  BY Roles DEF Player
<1> QED
  BY <1>1 DEF BuildStep, Builds, ForeignStep, UnlinkStep, StepType, Op, Step

LEMMA MakeSteps ==
    \A p, r \in Role :
        /\ Make(r) \in BuildStep /\ Link(p, r) \in ForeignStep /\ Find(r) \in ForeignStep
        /\ r[1] # "player" =>
              /\ Make(r) \in ForeignStep /\ FindOrMake(r) \in ForeignStep
              /\ Step("static", r) \in ForeignStep /\ Step("publish", r) \in ForeignStep
BY DEF Make, Link, Find, FindOrMake, Step, Builds, BuildStep, ForeignStep

LEMMA NewChildrenIn ==
    ASSUME NEW S, NEW p \in Role, NEW names \in {PlayerLists, AgeLists, InfoLists},
           \A r \in Role : r[1] = p[1] /\ r[2] \in ToSet(names) => Make(r) \in S /\ Link(p, r) \in S
    PROVE  NewChildren(p, names) \in Seq(S)
<1>1. p[1] \in Tree
  BY DEF Role
<1>2. /\ Len(names) \in Nat
      /\ \A k \in 1..Len(names) : LET r == <<p[1], names[k]>>
                                  IN  r \in Role /\ r[1] = p[1] /\ r[2] \in ToSet(names)
  BY <1>1, Listed, Roles
<1>3. ASSUME NEW k \in 1..2 * Len(names)
      PROVE  (LET r == <<p[1], names[(k + 1) \div 2]>>
              IN  IF k % 2 = 1 THEN Make(r) ELSE Link(p, r)) \in S
  <2>1. (k + 1) \div 2 \in 1..Len(names)
    BY <1>2
  <2> QED
    BY <1>2, <2>1
<1>4. 2 * Len(names) \in Nat
  BY <1>2
<1>5. NewChildren(p, names) \in [1..2 * Len(names) -> S]
  BY <1>3 DEF NewChildren
<1> QED
  BY <1>4, <1>5, SeqDef

\* What the script that makes an age instance consists of.
LEMMA AgeScriptIn ==
    ASSUME NEW S, NEW i \in Tree,
           \A q, r \in Role : /\ Link(q, r) \in S /\ Find(r) \in S
                              /\ r[1] = i => Make(r) \in S
    PROVE  AgeScript(i) \in Seq(S)
<1>1. /\ Age(i) \in Role /\ AgeInfo(i) \in Role /\ System \in Role
      /\ Age(i)[1] = i /\ AgeInfo(i)[1] = i
  BY Roles DEF Age, AgeInfo, System
<1>2. /\ NewChildren(Age(i), AgeLists) \in Seq(S)
      /\ NewChildren(AgeInfo(i), InfoLists) \in Seq(S)
  BY <1>1, NewChildrenIn
<1>3. <<Find(System), Make(Age(i)), Make(AgeInfo(i)),
        Link(Age(i), System), Link(Age(i), AgeInfo(i))>> \in Seq(S)
  BY <1>1
<1> QED
  BY <1>2, <1>3 DEF AgeScript

LEMMA AgeScriptType ==
    ASSUME NEW i \in Tree \ {"player"}
    PROVE  AgeScript(i) \in Seq(ForeignStep)
BY AgeScriptIn, MakeSteps

LEMMA TreeScriptType ==
    ASSUME NEW r \in Role, r[1] # "player"
    PROVE  TreeScript(r) \in Seq(ForeignStep)
<1>1. r[1] \in Tree \ {"player"}
  BY DEF Role
<1>2. /\ System \in Role /\ System[1] # "player" /\ AllPlayers \in Role /\ AllPlayers[1] # "player"
      /\ <<"vault", "globalInbox">> \in Role /\ <<"vault", "globalInbox">>[1] # "player"
  BY Roles DEF System, AllPlayers
<1>3. /\ <<Make(System)>> \in Seq(ForeignStep) /\ <<Make(AllPlayers)>> \in Seq(ForeignStep)
      /\ NewChild(System, <<"vault", "globalInbox">>) \in Seq(ForeignStep)
  BY <1>2, MakeSteps DEF NewChild
<1>4. AgeScript(r[1]) \in Seq(ForeignStep)
  BY <1>1, AgeScriptType
<1> QED
  BY <1>3, <1>4 DEF TreeScript

\* What the server's start consists of.
LEMMA SetupScriptIn ==
    ASSUME NEW S, FindOrMake(System) \in S, FindOrMake(AllPlayers) \in S,
           \A i \in StaticSet : Step("static", AgeInfo(i)) \in S
    PROVE  SetupScript \in Seq(S) /\ SetupScript # <<>>
<1>1. <<FindOrMake(System), FindOrMake(AllPlayers)>> \in Seq(S)
  OBVIOUS
<1>2. Static \in Seq(StaticSet) /\ DOMAIN Static = 1..Len(Static) /\ Len(Static) \in Nat
  BY Listed DEF StaticSet
<1>3. [i \in DOMAIN Static |-> Step("static", AgeInfo(Static[i]))] \in Seq(S)
  <2>1. [i \in DOMAIN Static |-> Step("static", AgeInfo(Static[i]))] \in [1..Len(Static) -> S]
    BY <1>2
  <2> QED
    BY <1>2, <2>1, SeqDef
<1>4. SetupScript \in Seq(S)
  BY <1>1, <1>3 DEF SetupScript
<1>5. Len(SetupScript) = 2 + Len([i \in DOMAIN Static |-> Step("static", AgeInfo(Static[i]))])
  BY <1>1, <1>3, ConcatProperties DEF SetupScript
<1> QED
  BY <1>3, <1>4, <1>5

LEMMA SetupScriptType ==
    /\ SetupScript \in Seq(ForeignStep) /\ SetupScript # <<>>
    /\ \A i \in StaticSet : StaticScript(i) \in Seq(ForeignStep)
<1>1. /\ System \in Role /\ System[1] # "player" /\ AllPlayers \in Role /\ AllPlayers[1] # "player"
      /\ \A i \in StaticSet : AgeInfo(i) \in Role /\ AgeInfo(i)[1] # "player"
  BY Roles DEF System, AllPlayers, AgeInfo
<1>2. ASSUME NEW i \in StaticSet PROVE StaticScript(i) \in Seq(ForeignStep)
  BY <1>1, MakeSteps DEF StaticScript
<1>3. FindOrMake(System) \in ForeignStep /\ FindOrMake(AllPlayers) \in ForeignStep
  BY <1>1, MakeSteps
<1>4. \A i \in StaticSet : Step("static", AgeInfo(i)) \in ForeignStep
  BY <1>1, MakeSteps
<1> QED
  BY <1>2, <1>3, <1>4, SetupScriptIn

\* What the script that makes an avatar consists of.
LEMMA AvatarScriptIn ==
    ASSUME NEW S,
           \A q, r \in Role : /\ Link(q, r) \in S /\ Find(r) \in S
                              /\ r[2] # "ageInfo" => Make(r) \in S,
           FindOrMake(AgeInfo("relto")) \in S
    PROVE  AvatarScript \in Seq(S)
<1>0. {"vault", "player", "relto"} \subseteq Tree /\ \A i \in StaticSet : i \in Tree
  BY Roles
<1>1. /\ {System, AllPlayers, Player, PlayerInfo, AgesIOwn, AgesICanVisit} \subseteq Role
      /\ \A i \in Tree : {Age(i), AgeInfo(i), AgeOwners(i), AgeLink(i)} \subseteq Role
  BY Roles
     DEF System, AllPlayers, Player, PlayerInfo, AgesIOwn, AgesICanVisit, Age, AgeInfo,
         AgeOwners, AgeLink
<1>2. /\ \A p, r \in Role : {Link(p, r), Find(r)} \subseteq S
      /\ \A r \in {Player, PlayerInfo, AgesIOwn, AgesICanVisit} : Make(r) \in S
      /\ \A i \in Tree : Make(AgeLink(i)) \in S
  <2>1. /\ \A r \in {Player, PlayerInfo, AgesIOwn, AgesICanVisit} : r[2] # "ageInfo"
        /\ \A i \in Tree : AgeLink(i)[2] # "ageInfo"
    BY DEF Player, PlayerInfo, AgesIOwn, AgesICanVisit, AgeLink
  <2> QED
    BY <1>1, <2>1
<1>3. \A i \in Tree : OwnAge(i) \in Seq(S) /\ LinkToAge(i) \in Seq(S)
  BY <1>1, <1>2 DEF OwnAge, LinkToAge
<1>4. \A p \in Role : \A r \in {AgesIOwn, AgesICanVisit} : NewChild(p, r) \in Seq(S)
  BY <1>1, <1>2 DEF NewChild
<1>5. NewChildren(Player, PlayerLists) \in Seq(S)
  <2>1. \A r \in Role : r[2] \in ToSet(PlayerLists) => Make(r) \in S
    BY TreesAssumption DEF TreesAssumption
  <2> QED
    BY <1>1, <1>2, <2>1, NewChildrenIn
<1>6. FindOrMake(AgeInfo("relto")) \in S
  OBVIOUS
<1>7. \A i \in {"hood", "aegura"} :
          /\ If(i \in ToSet(Static), <<Find(AgeInfo(i))>>) \in Seq(S)
          /\ If(i \in ToSet(Static), OwnAge(i) \o LinkToAge(i)) \in Seq(S)
          /\ If(i \in ToSet(Static), LinkToAge(i)) \in Seq(S)
  <2> SUFFICES ASSUME NEW i \in {"hood", "aegura"}
               PROVE  /\ If(i \in ToSet(Static), <<Find(AgeInfo(i))>>) \in Seq(S)
                      /\ If(i \in ToSet(Static), OwnAge(i) \o LinkToAge(i)) \in Seq(S)
                      /\ If(i \in ToSet(Static), LinkToAge(i)) \in Seq(S)
    OBVIOUS
  <2>1. CASE i \in ToSet(Static)
    <3>1. i \in Tree
      BY <1>0, <2>1 DEF StaticSet
    <3>2. <<Find(AgeInfo(i))>> \in Seq(S)
      BY <1>1, <1>2, <3>1
    <3>3. OwnAge(i) \o LinkToAge(i) \in Seq(S)
      BY <1>3, <3>1
    <3> QED
      BY <1>3, <2>1, <3>1, <3>2, <3>3 DEF If
  <2>2. CASE i \notin ToSet(Static)
    BY <2>2 DEF If
  <2> QED
    BY <2>1, <2>2
<1>8. <<Find(System), Find(AllPlayers)>> \in Seq(S)
  BY <1>1, <1>2
<1>9. <<Make(Player), Make(PlayerInfo), Link(Player, System), Link(Player, PlayerInfo)>>
           \in Seq(S)
  BY <1>1, <1>2
<1>10. /\ <<FindOrMake(AgeInfo("relto"))>> \in Seq(S)
       /\ <<Link(Age("relto"), AgesIOwn)>> \in Seq(S)
       /\ <<Link(AllPlayers, PlayerInfo)>> \in Seq(S)
  BY <1>0, <1>1, <1>2, <1>6
<1>11. /\ OwnAge("relto") \in Seq(S) /\ LinkToAge("relto") \in Seq(S)
       /\ NewChild(Player, AgesIOwn) \in Seq(S)
       /\ NewChild(Player, AgesICanVisit) \in Seq(S)
  BY <1>0, <1>1, <1>3, <1>4
<1>12. \A s, u \in Seq(S) : s \o u \in Seq(S)
  BY ConcatProperties
<1> QED
  BY <1>5, <1>7, <1>8, <1>9, <1>10, <1>11, <1>12 DEF AvatarScript

LEMMA AvatarScriptType == AvatarScript \in Seq(BuildStep)
<1>1. AgeInfo("relto") \in Role /\ AgeInfo("relto")[1] # "player"
  BY Roles DEF AgeInfo
<1> QED
  BY <1>1, AvatarScriptIn, MakeSteps, StepKinds

-----------------------------------------------------------------------------
(* Types, and what each call has left to do.                               *)

TaskState == [status : {"idle", "running", "returned", "raised", "failed", "lost"},
              todo : Seq(StepType), found : SUBSET (Role \X Node), rows : SUBSET Node]

Deletes(t) == t \in Call /\ load.jobs[t].kind = "deleteAvatar"
Creates(t) == t \in Call /\ load.jobs[t].kind = "createAvatar"

\* What a running call may have left.
Todos(t) ==
    IF Creates(t) THEN {<<Step("name", Player)>>} \cup Seq(BuildStep)
    ELSE IF Deletes(t) THEN DeletionTodos
    ELSE Seq(ForeignStep)

ScriptedOf(t) ==
    task[t].status = "running" =>
        /\ task[t].todo # <<>> /\ task[t].todo \in Todos(t)
        /\ Deletes(t) => task[t].found = {<<Player, PlayerOf(load.jobs[t].of)>>}

Scripted == \A t \in Task : ScriptedOf(t)

Sound == TypeOK /\ Scripted

LEMMA Known ==
    TypeOK =>
        /\ task \in [Task -> TaskState] /\ load \in Load
        /\ \A t \in Call : t \in Task /\ load.jobs[t] \in Job /\ t \notin ToSet(Boot)
        /\ load.boots \in DOMAIN Boot /\ DOMAIN Boot = 1..Len(Boot) /\ Len(Boot) \in Nat
        /\ \A k \in DOMAIN Boot : Boot[k] \in Task \ Call
<1> SUFFICES ASSUME TypeOK
             PROVE  /\ task \in [Task -> TaskState] /\ load \in Load
                    /\ \A t \in Call : t \in Task /\ load.jobs[t] \in Job /\ t \notin ToSet(Boot)
                    /\ load.boots \in DOMAIN Boot /\ DOMAIN Boot = 1..Len(Boot) /\ Len(Boot) \in Nat
                    /\ \A k \in DOMAIN Boot : Boot[k] \in Task \ Call
  OBVIOUS
<1>1. load \in Load /\ task \in [Task -> TaskState]
  BY DEF TypeOK, TaskState
<1>2. load.jobs \in [Call -> Job] /\ load.boots \in DOMAIN Boot
  BY <1>1, LoadAssumption DEF LoadAssumption
<1>3. Boot \in Seq(ToSet(Boot)) /\ ToSet(Boot) \cap Call = {}
  BY LoadAssumption DEF LoadAssumption
<1>4. \A k \in DOMAIN Boot : Boot[k] \in ToSet(Boot)
  BY DEF ToSet
<1> QED
  BY <1>1, <1>2, <1>3, <1>4 DEF Task

\* What is left after a step is a script of the same kind.
LEMMA Rests ==
    ASSUME Sound, NEW t \in Task, task[t].status = "running"
    PROVE  /\ Head(task[t].todo) \in StepType /\ Rest(t) \in Seq(StepType)
           /\ Here(t) \in Role
           /\ Head(task[t].todo).op \in {"make", "link", "find", "findOrMake", "static", "publish"} =>
                 /\ ~Deletes(t) /\ Head(task[t].todo) \in BuildStep
                 /\ Rest(t) \in Seq(BuildStep)
                 /\ ~Creates(t) => Head(task[t].todo) \in ForeignStep /\ Rest(t) \in Seq(ForeignStep)
           /\ Head(task[t].todo).op = "name" => Creates(t)
           /\ Head(task[t].todo).op = "fetch" =>
                 Deletes(t) /\ task[t].todo = DeleteScript
           /\ Head(task[t].todo).op = "kick" =>
                 Deletes(t) /\ task[t].todo = Tail(DeleteScript)
           /\ Head(task[t].todo).op \in {"offline", "unlink", "next", "remove", "delete"} =>
                 /\ Deletes(t) /\ task[t].todo \in Seq(UnlinkStep)
                 /\ Head(task[t].todo) \in UnlinkStep /\ Rest(t) \in Seq(UnlinkStep)
           /\ Rest(t) \in Todos(t)
<1>1. PICK todo \in Seq(StepType) : todo = task[t].todo
  BY Known DEF Sound, TaskState
<1>2. todo # <<>> /\ todo \in Todos(t)
  BY <1>1 DEF Sound, Scripted, ScriptedOf
<1>3. Head(todo) \in StepType /\ Tail(todo) \in Seq(StepType)
  BY <1>1, <1>2
<1>4. /\ Head(DeleteScript).op = "fetch" /\ Head(Tail(DeleteScript)).op = "kick"
      /\ Tail(Tail(DeleteScript)) = <<Step("unlink", Player), Step("delete", Player)>>
  BY DEF DeleteScript, Step
<1>5. Tail(Tail(DeleteScript)) \in Seq(UnlinkStep)
  <2>1. <<Step("unlink", Player), Step("delete", Player)>> \in Seq(UnlinkStep)
    BY StepKinds
  <2> QED
    BY <1>4, <2>1
<1>6. \A S : todo \in Seq(S) => Head(todo) \in S /\ Tail(todo) \in Seq(S)
  BY <1>2
<1>7. /\ \A s \in UnlinkStep : s.op \in {"offline", "unlink", "next", "remove", "delete"}
      /\ \A s \in BuildStep : s.op \in {"make", "link", "find", "findOrMake", "static", "publish"}
      /\ \A s \in ForeignStep : s \in BuildStep
      /\ \A s \in StepType : s.at \in Role
  BY DEF UnlinkStep, BuildStep, Builds, ForeignStep, StepType
<1>8. ~(Creates(t) /\ Deletes(t))
  BY DEF Creates, Deletes
<1>9. CASE Creates(t)
  <2>1. CASE todo = <<Step("name", Player)>>
    <3>1. Head(todo).op = "name" /\ Tail(todo) = <<>>
      BY <2>1 DEF Step
    <3>2. Tail(todo) \in Seq(BuildStep)
      <4>1. <<>> \in Seq(BuildStep)
        OBVIOUS
      <4> QED
        BY <3>1, <4>1
    <3> QED
      BY <1>1, <1>3, <1>7, <1>8, <1>9, <3>1, <3>2 DEF Rest, Here, Todos
  <2>2. CASE todo \in Seq(BuildStep)
    BY <1>1, <1>3, <1>6, <1>7, <1>8, <1>9, <2>2 DEF Rest, Here, Todos
  <2> QED
    BY <1>2, <1>9, <2>1, <2>2 DEF Todos
<1>10. CASE Deletes(t)
  <2>1. CASE todo = DeleteScript
    BY <1>1, <1>3, <1>4, <1>7, <1>8, <1>10, <2>1 DEF Rest, Here, Todos, DeletionTodos
  <2>2. CASE todo = Tail(DeleteScript)
    BY <1>1, <1>3, <1>4, <1>5, <1>7, <1>8, <1>10, <2>2 DEF Rest, Here, Todos, DeletionTodos
  <2>3. CASE todo \in Seq(UnlinkStep)
    BY <1>1, <1>3, <1>6, <1>7, <1>8, <1>10, <2>3 DEF Rest, Here, Todos, DeletionTodos
  <2> QED
    BY <1>2, <1>8, <1>10, <2>1, <2>2, <2>3 DEF Todos, DeletionTodos
<1>11. CASE ~Creates(t) /\ ~Deletes(t)
  <2>1. todo \in Seq(ForeignStep)
    BY <1>2, <1>11 DEF Todos
  <2>2. Seq(ForeignStep) \subseteq Seq(BuildStep)
    BY <1>7
  <2> QED
    BY <1>1, <1>3, <1>6, <1>7, <1>11, <2>1, <2>2 DEF Rest, Here, Todos
<1> QED
  BY <1>9, <1>10, <1>11

\* A step of one call of a method: it goes on, or ends.
Others(t) ==
    /\ task[t].status = "running"
    /\ task'[t].status \in {"running", "returned", "raised", "failed"}
    /\ \A u \in Task \ {t} : task'[u] = task[u]

Tasks(t) == task' \in [Task -> TaskState] /\ Scripted' /\ Others(t)

LEMMA Replaces ==
    Sound =>
        \A t \in Task : \A g \in TaskState :
            /\ task[t].status = "running" /\ load' = load
            /\ g.status \in {"running", "returned", "raised", "failed"}
            /\ g.status = "running" =>
                  /\ g.todo # <<>> /\ g.todo \in Todos(t)
                  /\ Deletes(t) => g.found = task[t].found
            /\ task' = [task EXCEPT ![t] = g]
            => Tasks(t)
<1> SUFFICES ASSUME Sound, NEW t \in Task, NEW g \in TaskState,
                    task[t].status = "running", load' = load,
                    g.status \in {"running", "returned", "raised", "failed"},
                    g.status = "running" =>
                        /\ g.todo # <<>> /\ g.todo \in Todos(t)
                        /\ Deletes(t) => g.found = task[t].found,
                    task' = [task EXCEPT ![t] = g]
             PROVE  Tasks(t)
  OBVIOUS
<1>1. task \in [Task -> TaskState]
  BY Known DEF Sound
<1>2. task' \in [Task -> TaskState] /\ task'[t] = g /\ \A u \in Task \ {t} : task'[u] = task[u]
  BY <1>1
<1>3. \A u \in Task : (Todos(u)' = Todos(u)) /\ (Deletes(u)' <=> Deletes(u))
  BY DEF Todos, Creates, Deletes
<1>4. ASSUME NEW u \in Task PROVE ScriptedOf(u)'
  <2>1. CASE u = t
    BY <1>2, <1>3, <2>1 DEF ScriptedOf, Sound, Scripted
  <2>2. CASE u # t
    BY <1>2, <1>3, <2>2 DEF ScriptedOf, Sound, Scripted
  <2> QED
    BY <2>1, <2>2
<1> QED
  BY <1>2, <1>4 DEF Tasks, Others, Scripted

LEMMA GoesOn ==
    Sound =>
        \A t \in Task : \A todo \in Seq(StepType) :
        \A found \in SUBSET (Role \X Node) : \A rows \in SUBSET Node :
            /\ task[t].status = "running" /\ todo \in Todos(t) /\ load' = load
            /\ Deletes(t) => found = task[t].found
            /\ task' = [task EXCEPT ![t] = Going(t, todo, found, rows)]
            => Tasks(t)
<1> SUFFICES ASSUME Sound, NEW t \in Task, NEW todo \in Seq(StepType),
                    NEW found \in SUBSET (Role \X Node), NEW rows \in SUBSET Node,
                    task[t].status = "running", todo \in Todos(t), load' = load,
                    Deletes(t) => found = task[t].found,
                    task' = [task EXCEPT ![t] = Going(t, todo, found, rows)]
             PROVE  Tasks(t)
  OBVIOUS
<1>1. PICK g \in TaskState :
         /\ g = Going(t, todo, found, rows)
         /\ g.status = IF todo = <<>> THEN "returned" ELSE "running"
         /\ g.todo = todo /\ g.found = found
  <2>1. PICK status \in {"running", "returned"} :
           status = IF todo = <<>> THEN "returned" ELSE "running"
    OBVIOUS
  <2>2. Going(t, todo, found, rows) =
           [status |-> status, todo |-> todo, found |-> found, rows |-> rows]
    BY <2>1 DEF Going
  <2>3. [status |-> status, todo |-> todo, found |-> found, rows |-> rows] \in TaskState
    BY DEF TaskState
  <2> QED
    BY <2>1, <2>2, <2>3
<1> QED
  BY <1>1, Replaces

LEMMA GoingOn ==
    Sound =>
        \A t \in Task : \A todo \in Seq(StepType) :
            /\ task[t].status = "running" /\ todo \in Todos(t) /\ load' = load
            /\ GoOn(t, todo)
            => Tasks(t)
<1> SUFFICES ASSUME Sound, NEW t \in Task, NEW todo \in Seq(StepType),
                    task[t].status = "running", todo \in Todos(t), load' = load,
                    GoOn(t, todo)
             PROVE  Tasks(t)
  OBVIOUS
<1>1. /\ task[t].found \in SUBSET (Role \X Node) /\ task[t].rows \in SUBSET Node
      /\ task' = [task EXCEPT ![t] = Going(t, todo, task[t].found, task[t].rows)]
  BY Known DEF Sound, TaskState, GoOn
<1> QED
  BY <1>1, GoesOn

LEMMA GoingOnWith ==
    Sound =>
        \A t \in Task : \A n \in Node :
            /\ task[t].status = "running" /\ load' = load /\ ~Deletes(t)
            /\ GoOnWith(t, Here(t), n)
            => Tasks(t)
<1> SUFFICES ASSUME Sound, NEW t \in Task, NEW n \in Node,
                    task[t].status = "running", load' = load, ~Deletes(t),
                    GoOnWith(t, Here(t), n)
             PROVE  Tasks(t)
  OBVIOUS
<1>1. Here(t) \in Role /\ Rest(t) \in Seq(StepType) /\ Rest(t) \in Todos(t)
  BY Rests
<1>2. task[t].found \cup {<<Here(t), n>>} \in SUBSET (Role \X Node) /\ task[t].rows \in SUBSET Node
  BY <1>1, Known DEF Sound, TaskState
<1>3. task' = [task EXCEPT ![t] =
                  Going(t, Rest(t), task[t].found \cup {<<Here(t), n>>}, task[t].rows)]
  BY Known DEF Sound, GoOnWith
<1> QED
  BY <1>1, <1>2, <1>3, GoesOn

LEMMA Ends ==
    Sound =>
        \A t \in Task : \A status \in {"raised", "failed"} :
            task[t].status = "running" /\ load' = load /\ End(t, status) => Tasks(t)
<1> SUFFICES ASSUME Sound, NEW t \in Task, NEW status \in {"raised", "failed"},
                    task[t].status = "running", load' = load, End(t, status)
             PROVE  Tasks(t)
  OBVIOUS
<1>1. task \in [Task -> TaskState]
  BY Known DEF Sound
<1>2. PICK g \in TaskState : g = [task[t] EXCEPT !.status = status, !.todo = <<>>]
                             /\ g.status = status
  <2>1. PICK todo \in Seq(StepType) : todo = <<>>
    <3>1. <<>> \in Seq(StepType)
      OBVIOUS
    <3> QED
      BY <3>1
  <2>2. task[t] \in TaskState
    BY <1>1
  <2>3. [task[t] EXCEPT !.status = status, !.todo = todo] \in TaskState
    BY <2>2 DEF TaskState
  <2>4. [task[t] EXCEPT !.status = status, !.todo = todo].status = status
    BY <2>2 DEF TaskState
  <2> QED
    BY <2>1, <2>3, <2>4
<1> QED
  BY <1>1, <1>2, Replaces DEF End

\* The nodes of a call's roles.
LEMMA AtType == Sound => \A t \in Task : \A r \in Role : At(t, r) \in Node
<1> SUFFICES ASSUME Sound, NEW t \in Task, NEW r \in Role PROVE At(t, r) \in Node
  OBVIOUS
<1>1. task[t].found \in SUBSET (Role \X Node)
  BY Known DEF Sound, TaskState
<1>2. <<t, r[1], r[2]>> \in Node
  BY DEF Role, Node
<1> QED
  BY <1>1, <1>2 DEF At

\* The avatar that a deletion is about.
LEMMA AtPlayer ==
    Sound => \A t \in Task :
        task[t].status = "running" /\ Deletes(t) =>
            /\ At(t, Player) = PlayerOf(load.jobs[t].of) /\ At(t, Player) \in Node
            /\ load.jobs[t].of \in Call
<1> SUFFICES ASSUME Sound, NEW t \in Task, task[t].status = "running", Deletes(t)
             PROVE  /\ At(t, Player) = PlayerOf(load.jobs[t].of) /\ At(t, Player) \in Node
                    /\ load.jobs[t].of \in Call
  OBVIOUS
<1>1. task[t].found = {<<Player, PlayerOf(load.jobs[t].of)>>}
  BY DEF Sound, Scripted, ScriptedOf
<1>2. At(t, Player) = PlayerOf(load.jobs[t].of)
  <2> DEFINE p == <<Player, PlayerOf(load.jobs[t].of)>>
             found == {f \in task[t].found : f[1] = Player}
  <2>1. found = {p} /\ p[2] = PlayerOf(load.jobs[t].of)
    BY <1>1
  <2>2. (CHOOSE f \in found : TRUE) = p
    BY <2>1
  <2> QED
    BY <2>1, <2>2 DEF At
<1>3. load.jobs[t].of \in Call
  BY Known, LoadAssumption DEF LoadAssumption, Sound, Deletes
<1> QED
  BY <1>2, <1>3, AtType, StepKinds

LEMMA TypesKept ==
    ASSUME Sound, NEW t \in Task, Tasks(t),
           UNCHANGED <<load, boot, company, late, meddled>>,
           nodes' \subseteq Node, refs' \subseteq nodes' \X nodes', public' \subseteq Node,
           instance' \in [StaticSet -> Task \cup {Config, None}],
           playing' \subseteq Node, met' \subseteq Call
    PROVE  Sound'
<1>1. TypeOK'
  BY DEF Sound, TypeOK, Tasks, TaskState
<1> QED
  BY <1>1 DEF Sound, Tasks

\* A step of a method.
Stepped(t) == Sound' /\ Others(t)

LEMMA UnchangedTypes ==
    Sound =>
        /\ nodes \subseteq Node /\ refs \subseteq nodes \X nodes /\ public \subseteq Node
        /\ instance \in [StaticSet -> Task \cup {Config, None}]
        /\ playing \subseteq Node /\ met \subseteq Call
BY DEF Sound, TypeOK

LEMMA Instances ==
    Sound => \A n \in Node : KeyOf(n)[1] \in Task \cup {Config, None}
<1> SUFFICES ASSUME Sound, NEW n \in Node PROVE KeyOf(n)[1] \in Task \cup {Config, None}
  OBVIOUS
<1>1. n[1] \in Task
  BY DEF Node
<1>2. n[1] \in Call => load.jobs[n[1]].key[1] \in Task \cup {Config}
  BY Known DEF Sound, Job, Key
<1> QED
  BY <1>1, <1>2 DEF KeyOf, KeyFor

LEMMA MakeNodeSteps ==
    ASSUME Sound, NEW t \in Task, MakeNode(t)
    PROVE  /\ Stepped(t) /\ UNCHANGED <<refs, playing, met>>
           /\ nodes' = nodes \cup {<<t, Here(t)[1], Here(t)[2]>>}
           /\ ~Creates(t) => Here(t)[1] # "player"
<1>1. task[t].status = "running" /\ Head(task[t].todo).op = "make"
  BY DEF MakeNode, On
<1>2. /\ UNCHANGED <<refs, load, boot, instance, playing, company, met, late, meddled>>
      /\ GoOn(t, Rest(t))
      /\ nodes' = nodes \cup {<<t, Here(t)[1], Here(t)[2]>>}
      /\ public' \in {public, public \cup {<<t, Here(t)[1], Here(t)[2]>>}}
  BY DEF MakeNode, Server, History
<1>3. /\ Rest(t) \in Seq(StepType) /\ Rest(t) \in Todos(t) /\ Here(t) \in Role
      /\ ~Creates(t) => Head(task[t].todo) \in ForeignStep
  BY <1>1, Rests
<1>4. Tasks(t)
  BY <1>1, <1>2, <1>3, GoingOn
<1>5. <<t, Here(t)[1], Here(t)[2]>> \in Node
  BY <1>3 DEF Role, Node
<1>6. Sound'
  BY <1>2, <1>4, <1>5, UnchangedTypes, TypesKept
<1> QED
  BY <1>1, <1>2, <1>3, <1>4, <1>6 DEF Stepped, Tasks, ForeignStep, Here

LEMMA BuildSteps ==
    ASSUME Sound, NEW t \in Task,
           AddRef(t) \/ FindNode(t) \/ FindOrMakeNode(t) \/ PrepareStatic(t) \/ Publish(t)
    PROVE  /\ Stepped(t) /\ UNCHANGED <<nodes, playing, met>>
           /\ Head(task[t].todo).op # "name" /\ ~Deletes(t)
<1>1. /\ task[t].status = "running" /\ ~Deletes(t)
      /\ Head(task[t].todo).op \in {"link", "find", "findOrMake", "static", "publish"}
  <2>1. /\ task[t].status = "running"
        /\ Head(task[t].todo).op \in {"link", "find", "findOrMake", "static", "publish"}
    BY DEF AddRef, FindNode, FindOrMakeNode, PrepareStatic, Publish, On
  <2> QED
    BY <2>1, Rests
<1>2. /\ Rest(t) \in Seq(StepType) /\ Rest(t) \in Todos(t) /\ Here(t) \in Role
      /\ Head(task[t].todo) \in BuildStep /\ Rest(t) \in Seq(BuildStep)
      /\ ~Creates(t) => Rest(t) \in Seq(ForeignStep)
  BY <1>1, Rests
<1>3. UNCHANGED <<nodes, load, boot, playing, company, met, late, meddled>>
  BY DEF AddRef, FindNode, FindOrMakeNode, PrepareStatic, Publish, Server, History
\* More steps before the rest.
<1>4. ASSUME NEW script \in Seq(ForeignStep), GoOn(t, script \o Rest(t)) PROVE Tasks(t)
  <2>1. /\ Seq(ForeignStep) \subseteq Seq(BuildStep) /\ Seq(BuildStep) \subseteq Seq(StepType)
    BY StepKinds
  <2>2. /\ script \o Rest(t) \in Seq(BuildStep)
        /\ ~Creates(t) => script \o Rest(t) \in Seq(ForeignStep)
    BY <1>2, <2>1, ConcatProperties
  <2>3. script \o Rest(t) \in Todos(t)
    BY <1>1, <2>2 DEF Todos
  <2> QED
    BY <1>1, <1>3, <1>4, <2>1, <2>2, <2>3, GoingOn
<1>5. ASSUME GoOn(t, Rest(t)) PROVE Tasks(t)
  BY <1>1, <1>2, <1>3, <1>5, GoingOn
<1>6. ASSUME End(t, "raised") PROVE Tasks(t)
  BY <1>1, <1>3, <1>6, Ends
<1>7. ASSUME NEW n \in Node, GoOnWith(t, Here(t), n) PROVE Tasks(t)
  BY <1>1, <1>3, <1>7, GoingOnWith
<1>8. \A r : Matches(t, r) \subseteq Node
  BY UnchangedTypes DEF Matches
<1>9. At(t, Here(t)) \in Node
  BY <1>2, AtType
<1>10. CASE AddRef(t)
  <2>1. Tasks(t) /\ UNCHANGED <<public, instance>>
    BY <1>5, <1>6, <1>10 DEF AddRef, Server
  <2>2. refs' \subseteq nodes' \X nodes'
    BY <1>3, <1>10, UnchangedTypes DEF AddRef, Linkable
  <2>3. Sound'
    BY <1>3, <2>1, <2>2, UnchangedTypes, TypesKept
  <2> QED
    BY <1>1, <1>3, <2>1, <2>3 DEF Stepped, Tasks
<1>11. CASE FindNode(t)
  <2>1. Tasks(t) /\ UNCHANGED <<refs, public, instance>>
    BY <1>6, <1>7, <1>8, <1>11 DEF FindNode, Server
  <2>2. Sound'
    BY <1>3, <2>1, UnchangedTypes, TypesKept
  <2> QED
    BY <1>1, <1>3, <2>1, <2>2 DEF Stepped, Tasks
<1>12. CASE FindOrMakeNode(t)
  <2>1. Here(t)[1] # "player"
    BY <1>2, <1>12 DEF FindOrMakeNode, On, BuildStep, Here
  <2>2. TreeScript(Here(t)) \in Seq(ForeignStep)
    BY <1>2, <2>1, TreeScriptType
  <2>3. Tasks(t) /\ UNCHANGED <<refs, public, instance>>
    BY <1>4, <1>7, <1>8, <1>12, <2>2 DEF FindOrMakeNode, Server
  <2>4. Sound'
    BY <1>3, <2>3, UnchangedTypes, TypesKept
  <2> QED
    BY <1>1, <1>3, <2>3, <2>4 DEF Stepped, Tasks
<1>13. CASE PrepareStatic(t)
  <2>1. /\ \A n \in PublicInstances(Here(t)[1]) : n \in Node
        /\ UNCHANGED <<refs, public>>
    BY <1>13, UnchangedTypes DEF PrepareStatic, PublicInstances
  <2>2. instance' \in [StaticSet -> Task \cup {Config, None}]
    BY <1>13, <2>1, UnchangedTypes, Instances DEF PrepareStatic
  <2>3. Here(t)[1] \in Tree \ {"player"}
    BY <1>2, <1>13 DEF PrepareStatic, On, BuildStep, Here, Role
  <2>4. StaticScript(Here(t)[1]) \in Seq(ForeignStep)
    <3>1. AgeInfo(Here(t)[1]) \in Role /\ AgeInfo(Here(t)[1])[1] # "player"
      BY <2>3, Roles DEF AgeInfo
    <3> QED
      BY <3>1, MakeSteps DEF StaticScript
  <2>5. Tasks(t)
    BY <1>4, <1>5, <1>13, <2>4 DEF PrepareStatic
  <2>6. Sound'
    BY <1>3, <2>1, <2>2, <2>5, UnchangedTypes, TypesKept
  <2> QED
    BY <1>1, <1>3, <2>5, <2>6 DEF Stepped, Tasks
<1>14. CASE Publish(t)
  <2>1. Tasks(t) /\ UNCHANGED refs
    BY <1>5, <1>14 DEF Publish
  <2>2. public' \subseteq Node
    BY <1>9, <1>14, UnchangedTypes DEF Publish, Published
  <2>3. instance' \in [StaticSet -> Task \cup {Config, None}]
    BY <1>9, <1>14, UnchangedTypes, Instances DEF Publish
  <2>4. Sound'
    BY <1>3, <2>1, <2>2, <2>3, UnchangedTypes, TypesKept
  <2> QED
    BY <1>1, <1>3, <2>1, <2>4 DEF Stepped, Tasks
<1> QED
  BY <1>10, <1>11, <1>12, <1>13, <1>14

LEMMA CheckNameSteps ==
    ASSUME Sound, NEW t \in Task, CheckName(t)
    PROVE  Stepped(t) /\ UNCHANGED <<nodes, refs, playing, met>> /\ Creates(t)
<1>1. task[t].status = "running" /\ Head(task[t].todo).op = "name"
  BY DEF CheckName, On
<1>2. /\ UNCHANGED <<nodes, refs, public, load, boot, instance, playing, company, met, late, meddled>>
      /\ End(t, "raised") \/ GoOn(t, AvatarScript)
  BY DEF CheckName, Server, History
<1>3. Creates(t)
  BY <1>1, Rests
<1>4. AvatarScript \in Seq(StepType) /\ AvatarScript \in Todos(t)
  BY <1>3, AvatarScriptType, StepKinds DEF Todos
<1>5. Tasks(t)
  BY <1>1, <1>2, <1>4, GoingOn, Ends
<1>6. Sound'
  BY <1>2, <1>5, UnchangedTypes, TypesKept
<1> QED
  BY <1>2, <1>3, <1>5, <1>6 DEF Stepped, Tasks

\* The avatar that a deletion is about.
Target(t) == PlayerOf(load.jobs[t].of)

LEMMA FetchSteps ==
    ASSUME Sound, NEW t \in Task, FetchPlayer(t)
    PROVE  /\ Stepped(t) /\ Deletes(t) /\ UNCHANGED <<nodes, refs, playing>>
           /\ met' = met \cup {t} \/ (met' = met /\ task'[t].status = "raised")
<1>1. /\ task[t].status = "running" /\ Head(task[t].todo).op = "fetch"
      /\ UNCHANGED <<nodes, refs, public, load, boot, instance, playing, company, late, meddled>>
      /\ \/ met' = met \cup {t} /\ GoOn(t, Rest(t))
         \/ met' = met /\ End(t, "raised")
  BY DEF FetchPlayer, On, Server
<1>2. Rest(t) \in Seq(StepType) /\ Rest(t) \in Todos(t) /\ Deletes(t)
  BY <1>1, Rests
<1>3. Tasks(t)
  BY <1>1, <1>2, GoingOn, Ends
<1>4. met' \subseteq Call
  BY <1>1, <1>2, UnchangedTypes DEF Deletes
<1>5. Sound'
  BY <1>1, <1>3, <1>4, UnchangedTypes, TypesKept
<1>6. End(t, "raised") => task'[t].status = "raised"
  BY Known DEF End, Sound, TaskState
<1> QED
  BY <1>1, <1>2, <1>3, <1>5, <1>6 DEF Stepped, Tasks

LEMMA KickSteps ==
    ASSUME Sound, NEW t \in Task, KickPlayer(t)
    PROVE  /\ Stepped(t) /\ Deletes(t) /\ UNCHANGED <<nodes, refs, met>>
           /\ task[t].todo = Tail(DeleteScript)
           /\ playing' \subseteq playing /\ Target(t) \notin playing'
<1>1. /\ task[t].status = "running" /\ Head(task[t].todo).op = "kick"
      /\ UNCHANGED <<nodes, refs, public, load, boot, instance, company, met, late, meddled>>
  BY DEF KickPlayer, On, History
<1>2. Deletes(t) /\ task[t].todo = Tail(DeleteScript)
  BY <1>1, Rests
<1>3. At(t, Player) = Target(t)
  BY <1>1, <1>2, AtPlayer DEF Target
<1>4. Rest(t) = <<Step("unlink", Player), Step("delete", Player)>>
  BY <1>2 DEF Rest, DeleteScript
<1>5. PICK u \in Seq(UnlinkStep) : u = Rest(t)
  <2>1. <<Step("unlink", Player), Step("delete", Player)>> \in Seq(UnlinkStep)
    BY StepKinds
  <2> QED
    BY <1>4, <2>1
<1>6. <<Step("offline", Player)>> \o u \in Seq(UnlinkStep)
  <2>1. <<Step("offline", Player)>> \in Seq(UnlinkStep)
    BY StepKinds
  <2> QED
    BY <2>1, ConcatProperties
<1>7. \A todo \in Seq(UnlinkStep) : todo \in Seq(StepType) /\ todo \in Todos(t)
  <2>1. Seq(UnlinkStep) \subseteq Seq(StepType)
    BY StepKinds
  <2>2. Todos(t) = DeletionTodos
    BY <1>2 DEF Todos, Creates, Deletes
  <2> QED
    BY <2>1, <2>2 DEF DeletionTodos
<1>8. Tasks(t)
  <2>1. GoOn(t, u) \/ GoOn(t, <<Step("offline", Player)>> \o u)
    BY <1>5 DEF KickPlayer
  <2> QED
    BY <1>1, <1>6, <1>7, <2>1, GoingOn
<1>9. playing' \subseteq playing /\ Target(t) \notin playing'
  BY <1>3 DEF KickPlayer
<1>10. playing' \subseteq Node
  BY <1>9, UnchangedTypes
<1>11. Sound'
  BY <1>1, <1>8, <1>10, UnchangedTypes, TypesKept
<1> QED
  BY <1>1, <1>2, <1>8, <1>9, <1>11 DEF Stepped, Tasks

LEMMA UnlinkSteps ==
    ASSUME Sound, NEW t \in Task,
           SetOffline(t) \/ QueryChildren(t) \/ NextChild(t) \/ RemoveRef(t) \/ DeleteNode(t)
    PROVE  /\ Stepped(t) /\ Deletes(t) /\ UNCHANGED <<playing, met>>
           /\ task[t].todo \in Seq(UnlinkStep)
           /\ nodes' = nodes \/ nodes' = nodes \ {Target(t)}
<1>1. /\ task[t].status = "running"
      /\ Head(task[t].todo).op \in {"offline", "unlink", "next", "remove", "delete"}
      /\ UNCHANGED <<public, load, boot, instance, playing, company, met, late, meddled>>
  BY DEF SetOffline, QueryChildren, NextChild, RemoveRef, DeleteNode, On, Server, History
<1>2. /\ Deletes(t) /\ task[t].todo \in Seq(UnlinkStep)
      /\ Rest(t) \in Seq(UnlinkStep)
  BY <1>1, Rests
<1>3. At(t, Player) = Target(t) /\ At(t, Player) \in Node
  BY <1>1, <1>2, AtPlayer DEF Target
<1>4. \A todo \in Seq(UnlinkStep) : todo \in Seq(StepType) /\ todo \in Todos(t)
  <2>1. Seq(UnlinkStep) \subseteq Seq(StepType)
    BY StepKinds
  <2>2. Todos(t) = DeletionTodos
    BY <1>2 DEF Todos, Creates, Deletes
  <2> QED
    BY <2>1, <2>2 DEF DeletionTodos
<1>5. ASSUME GoOn(t, Rest(t)) PROVE Tasks(t)
  BY <1>1, <1>2, <1>4, <1>5, GoingOn
<1>6. ASSUME End(t, "raised") PROVE Tasks(t)
  BY <1>1, <1>6, Ends
<1>7. \A n : Children(n) \subseteq Node
  BY UnchangedTypes DEF Children
<1>8. CASE SetOffline(t)
  <2>1. Tasks(t) /\ UNCHANGED <<nodes, refs>>
    BY <1>5, <1>6, <1>8 DEF SetOffline
  <2>2. Sound'
    BY <1>1, <2>1, UnchangedTypes, TypesKept
  <2> QED
    BY <1>1, <1>2, <2>1, <2>2 DEF Stepped, Tasks
<1>9. CASE QueryChildren(t)
  <2>1. PICK todo \in Seq(UnlinkStep) : todo = <<Step("next", Player)>> \o Rest(t)
    <3>1. <<Step("next", Player)>> \in Seq(UnlinkStep)
      BY StepKinds
    <3> QED
      BY <1>2, <3>1, ConcatProperties
  <2>2. todo # <<>>
    <3>1. Len(<<Step("next", Player)>> \o Rest(t)) = 1 + Len(Rest(t)) /\ Len(Rest(t)) \in Nat
      <4>1. <<Step("next", Player)>> \in Seq(UnlinkStep) /\ Len(<<Step("next", Player)>>) = 1
        BY StepKinds
      <4> QED
        BY <1>2, <4>1, ConcatProperties
    <3> QED
      BY <2>1, <3>1
  <2>3. PICK rows \in SUBSET Node : rows = Children(At(t, Player))
    BY <1>7
  <2>4. PICK w \in TaskState : w = task[t] /\ w.status = "running"
    BY <1>1, Known DEF Sound
  <2>5. PICK g \in TaskState :
           /\ g = [w EXCEPT !.todo = todo, !.rows = rows]
           /\ g.status = "running" /\ g.todo = todo /\ g.found = w.found
    <3>1. [w EXCEPT !.todo = todo, !.rows = rows] \in TaskState
      BY <1>4 DEF TaskState
    <3>2. /\ [w EXCEPT !.todo = todo, !.rows = rows].status = "running"
          /\ [w EXCEPT !.todo = todo, !.rows = rows].todo = todo
          /\ [w EXCEPT !.todo = todo, !.rows = rows].found = w.found
      BY <2>4 DEF TaskState
    <3> QED
      BY <3>1, <3>2
  <2>6. Tasks(t)
    <3>1. \/ task' = [task EXCEPT ![t] = g]
          \/ End(t, "raised")
      BY <1>9, <2>1, <2>3, <2>4, <2>5 DEF QueryChildren
    <3> QED
      BY <1>1, <1>4, <1>6, <2>2, <2>4, <2>5, <3>1, Replaces
  <2>7. UNCHANGED <<nodes, refs>>
    BY <1>9 DEF QueryChildren
  <2>8. Sound'
    BY <1>1, <2>6, <2>7, UnchangedTypes, TypesKept
  <2> QED
    BY <1>1, <1>2, <2>6, <2>7, <2>8 DEF Stepped, Tasks
<1>10. CASE NextChild(t)
  <2>1. ASSUME NEW c \in Node
        PROVE  <<[op |-> "remove", at |-> Player, child |-> c]>> \o task[t].todo \in Seq(UnlinkStep)
    <3>1. [op |-> "remove", at |-> Player, child |-> c] \in UnlinkStep
      BY DEF UnlinkStep
    <3>2. <<[op |-> "remove", at |-> Player, child |-> c]>> \in Seq(UnlinkStep)
      BY <3>1
    <3> QED
      BY <1>2, <3>2, ConcatProperties
  <2>2. \/ \E c \in Node :
              GoOn(t, <<[op |-> "remove", at |-> Player, child |-> c]>> \o task[t].todo)
        \/ GoOn(t, Rest(t))
    BY <1>7, <1>10 DEF NextChild
  <2>3. Tasks(t)
    BY <1>1, <1>4, <1>5, <2>1, <2>2, GoingOn
  <2>4. UNCHANGED <<nodes, refs>>
    BY <1>10 DEF NextChild
  <2>5. Sound'
    BY <1>1, <2>3, <2>4, UnchangedTypes, TypesKept
  <2> QED
    BY <1>1, <1>2, <2>3, <2>4, <2>5 DEF Stepped, Tasks
<1>11. CASE RemoveRef(t)
  <2>1. Tasks(t) /\ nodes' = nodes /\ refs' \subseteq refs
    BY <1>5, <1>6, <1>11 DEF RemoveRef
  <2>2. refs' \subseteq nodes' \X nodes'
    BY <2>1, UnchangedTypes
  <2>3. Sound'
    BY <1>1, <2>1, <2>2, UnchangedTypes, TypesKept
  <2> QED
    BY <1>1, <1>2, <2>1, <2>3 DEF Stepped, Tasks
<1>12. CASE DeleteNode(t)
  <2>1. Tasks(t) /\ refs' = refs
    BY <1>5, <1>6, <1>12 DEF DeleteNode
  <2>2. /\ nodes' = nodes \/ nodes' = nodes \ {Target(t)}
        /\ refs \subseteq nodes' \X nodes'
    <3>1. CASE nodes' = nodes
      BY <3>1, UnchangedTypes
    <3>2. CASE Deletable(At(t, Player)) /\ nodes' = nodes \ {At(t, Player)}
      <4>1. \A ref \in refs : ref \in nodes \X nodes /\ Target(t) \notin {ref[1], ref[2]}
        BY <1>3, <3>2, UnchangedTypes DEF Deletable
      <4> QED
        BY <1>3, <3>2, <4>1
    <3> QED
      BY <1>12, <3>1, <3>2 DEF DeleteNode
  <2>3. nodes' \subseteq Node /\ refs' \subseteq nodes' \X nodes'
    BY <2>1, <2>2, UnchangedTypes
  <2>4. Sound'
    BY <1>1, <2>1, <2>3, UnchangedTypes, TypesKept
  <2> QED
    BY <1>1, <1>2, <2>1, <2>2, <2>4 DEF Stepped, Tasks
<1> QED
  BY <1>8, <1>9, <1>10, <1>11, <1>12

LEMMA FailsSteps ==
    ASSUME Sound, NEW t \in Task, Fails(t)
    PROVE  /\ Stepped(t) /\ UNCHANGED <<nodes, refs, playing, met>>
           /\ task'[t].status = "failed"
<1>1. /\ task[t].status = "running" /\ End(t, "failed")
      /\ UNCHANGED <<nodes, refs, public, load, boot, instance, playing, company, met, late, meddled>>
  BY DEF Fails, Server, History
<1>2. Tasks(t)
  BY <1>1, Ends
<1>3. Sound'
  BY <1>1, <1>2, UnchangedTypes, TypesKept
<1>4. task'[t].status = "failed"
  BY <1>1, Known DEF End, Sound, TaskState
<1> QED
  BY <1>1, <1>2, <1>3, <1>4 DEF Stepped, Tasks

\* What no step of a method changes.
LEMMA MethodFrame ==
    ASSUME NEW t \in Task, MethodStep(t)
    PROVE  UNCHANGED <<load, boot, company, late, meddled>>
BY DEF MethodStep, MakeNode, AddRef, FindNode, FindOrMakeNode, CheckName, PrepareStatic, Publish,
       FetchPlayer, KickPlayer, SetOffline, QueryChildren, NextChild, RemoveRef, DeleteNode,
       Fails, Server, History

-----------------------------------------------------------------------------
(* The types.                                                              *)

LEMMA MethodSteps ==
    ASSUME Sound, NEW t \in Task, MethodStep(t)
    PROVE  Stepped(t)
BY MakeNodeSteps, BuildSteps, CheckNameSteps, FetchSteps, KickSteps, UnlinkSteps, FailsSteps
   DEF MethodStep

LEMMA IdleType ==
    Idle \in TaskState /\ Idle.status = "idle" /\ Idle.found = {}
<1>1. <<>> \in Seq(StepType)
  OBVIOUS
<1> QED
  BY <1>1 DEF Idle, TaskState

LEMMA Begins ==
    \A script \in Seq(StepType) :
        /\ Begun(script) \in TaskState
        /\ Begun(script).status = "running" /\ Begun(script).todo = script
        /\ Begun(script).found = {}
<1> SUFFICES ASSUME NEW script \in Seq(StepType)
             PROVE  /\ Begun(script) \in TaskState
                    /\ Begun(script).status = "running" /\ Begun(script).todo = script
                    /\ Begun(script).found = {}
  OBVIOUS
<1>1. PICK w \in TaskState : w = Idle /\ w.found = {}
  BY IdleType
<1>2. [w EXCEPT !.status = "running", !.todo = script] \in TaskState
  BY DEF TaskState
<1>3. /\ [w EXCEPT !.status = "running", !.todo = script].status = "running"
      /\ [w EXCEPT !.status = "running", !.todo = script].todo = script
      /\ [w EXCEPT !.status = "running", !.todo = script].found = {}
  BY <1>1 DEF TaskState
<1> QED
  BY <1>1, <1>2, <1>3 DEF Begun

LEMMA InitSound == Init => Sound
<1> SUFFICES ASSUME Init PROVE Sound
  OBVIOUS
<1>1. /\ load \in Load /\ nodes = {} /\ refs = {} /\ public = {} /\ boot = 1
      /\ task = [t \in Task |-> IF t = Boot[1] THEN Begun(SetupScript) ELSE Idle]
      /\ instance = [i \in StaticSet |-> None] /\ playing = {}
      /\ company = [t \in Call |-> {}] /\ met = {} /\ late = {} /\ meddled = {}
  BY DEF Init
<1>2. SetupScript \in Seq(StepType) /\ SetupScript \in Seq(ForeignStep) /\ SetupScript # <<>>
  BY SetupScriptType, StepKinds
<1>3. /\ Begun(SetupScript) \in TaskState
      /\ Begun(SetupScript).status = "running" /\ Begun(SetupScript).todo = SetupScript
  BY <1>2, Begins
<1>4. task \in [Task -> TaskState]
  BY <1>1, <1>3, IdleType
<1>5. boot \in 1..load.boots /\ Boot[1] \in Task \ Call
  <2>1. load.boots \in DOMAIN Boot
    BY <1>1, LoadAssumption DEF LoadAssumption
  <2>2. Boot \in Seq(ToSet(Boot)) /\ ToSet(Boot) \cap Call = {}
    BY LoadAssumption DEF LoadAssumption
  <2>3. DOMAIN Boot = 1..Len(Boot) /\ Len(Boot) \in Nat
    BY <2>2
  <2>4. 1 \in DOMAIN Boot /\ 1 \in 1..load.boots
    BY <2>1, <2>3
  <2>5. Boot[1] \in ToSet(Boot)
    BY <2>4 DEF ToSet
  <2> QED
    BY <1>1, <2>2, <2>4, <2>5 DEF Task
<1>6. TypeOK
  BY <1>1, <1>4, <1>5 DEF TypeOK, TaskState
<1>7. ASSUME NEW t \in Task PROVE ScriptedOf(t)
  <2>1. CASE t = Boot[1]
    BY <1>1, <1>2, <1>3, <1>5, <2>1 DEF ScriptedOf, Todos, Creates, Deletes
  <2>2. CASE t # Boot[1]
    BY <1>1, <2>2, IdleType DEF ScriptedOf
  <2> QED
    BY <2>1, <2>2
<1> QED
  BY <1>6, <1>7 DEF Sound, Scripted

\* A step of a client or of the operator that touches no call.
LEMMA CallsKept ==
    ASSUME Sound, UNCHANGED <<load, task>>
    PROVE  task' \in [Task -> TaskState] /\ Scripted'
<1>1. \A u \in Task : (Todos(u)' = Todos(u)) /\ (Deletes(u)' <=> Deletes(u))
  BY DEF Todos, Creates, Deletes
<1>2. \A u \in Task : ScriptedOf(u)'
  BY <1>1 DEF ScriptedOf, Sound, Scripted
<1> QED
  BY <1>2, Known DEF Sound, Scripted

LEMMA ArriveTask ==
    ASSUME Sound, NEW t \in Call, Arrive(t)
    PROVE  /\ task' \in [Task -> TaskState] /\ Scripted' /\ task[t].status = "idle"
           /\ task'[t].status = "running"
           /\ Creates(t) => task'[t].todo = <<Step("name", Player)>>
           /\ Deletes(t) => task'[t].todo = DeleteScript
           /\ ~Creates(t) /\ ~Deletes(t) => task'[t].todo = <<FindOrMake(AgeInfo("shared"))>>
           /\ \A u \in Task \ {t} : task'[u] = task[u]
<1>1. /\ task[t].status = "idle" /\ task' = [task EXCEPT ![t] = Asked(t)] /\ load' = load
      /\ load.jobs[t].kind # "none"
  BY DEF Arrive, Server
<1>2. t \in Task /\ load.jobs[t] \in Job /\ task \in [Task -> TaskState]
  BY Known DEF Sound
<1>3. load.jobs[t].kind \in {"createAvatar", "createAge", "deleteAvatar"}
  BY <1>1, <1>2 DEF Job
<1>4. PICK g \in TaskState :
         /\ g = Asked(t) /\ g.status = "running" /\ g.todo \in Todos(t) /\ g.todo # <<>>
         /\ Creates(t) => g.todo = <<Step("name", Player)>>
         /\ Deletes(t) => g.todo = DeleteScript
         /\ ~Creates(t) /\ ~Deletes(t) => g.todo = <<FindOrMake(AgeInfo("shared"))>>
         /\ Deletes(t) => g.found = {<<Player, PlayerOf(load.jobs[t].of)>>}
  <2>1. CASE load.jobs[t].kind = "createAvatar"
    <3>1. PICK script \in Seq(StepType) : script = <<Step("name", Player)>> /\ script # <<>>
      <4>1. <<Step("name", Player)>> \in Seq(StepType)
        BY StepKinds
      <4> QED
        BY <4>1
    <3>2. Asked(t) = Begun(script)
      BY <2>1, <3>1 DEF Asked
    <3>3. script \in Todos(t) /\ ~Deletes(t) /\ Creates(t)
      BY <2>1, <3>1 DEF Todos, Creates, Deletes
    <3>4. PICK g \in TaskState : g = Begun(script) /\ g.status = "running" /\ g.todo = script
      BY Begins
    <3> QED
      BY <2>1, <3>1, <3>2, <3>3, <3>4
  <2>2. CASE load.jobs[t].kind = "createAge"
    <3>1. PICK script \in Seq(ForeignStep) :
             script = <<FindOrMake(AgeInfo("shared"))>> /\ script # <<>>
      <4>1. AgeInfo("shared") \in Role /\ AgeInfo("shared")[1] # "player"
        BY Roles DEF AgeInfo
      <4>2. <<FindOrMake(AgeInfo("shared"))>> \in Seq(ForeignStep)
        BY <4>1, MakeSteps
      <4> QED
        BY <4>2
    <3>2. Asked(t) = Begun(script)
      BY <2>2, <3>1 DEF Asked
    <3>3. script \in Todos(t) /\ ~Deletes(t) /\ ~Creates(t)
      BY <2>2, <3>1 DEF Todos, Creates, Deletes
    <3>4. script \in Seq(StepType)
      BY StepKinds
    <3>5. PICK g \in TaskState : g = Begun(script) /\ g.status = "running" /\ g.todo = script
      BY <3>4, Begins
    <3> QED
      BY <2>2, <3>1, <3>2, <3>3, <3>5
  <2>3. CASE load.jobs[t].kind = "deleteAvatar"
    <3>1. PICK script \in Seq(StepType) : script = DeleteScript /\ script # <<>>
      <4>1. DeleteScript \in Seq(StepType)
        BY StepKinds DEF DeleteScript
      <4> QED
        BY <4>1 DEF DeleteScript
    <3>2. PICK found \in SUBSET (Role \X Node) :
             found = {<<Player, PlayerOf(load.jobs[t].of)>>}
      <4>1. load.jobs[t].of \in Call
        BY <1>2, <2>3, Known, LoadAssumption DEF LoadAssumption, Sound
      <4>2. PlayerOf(load.jobs[t].of) \in Node
        BY <4>1, Known, StepKinds, Roles DEF Sound, PlayerOf, Node, Role, Player
      <4>3. <<Player, PlayerOf(load.jobs[t].of)>> \in Role \X Node
        BY <4>2, StepKinds
      <4> QED
        BY <4>3
    <3>3. PICK b \in TaskState : b = Begun(script) /\ b.status = "running" /\ b.todo = script
      BY Begins
    <3>4. PICK g \in TaskState : /\ g = [b EXCEPT !.found = found]
                                 /\ g.status = "running" /\ g.todo = script /\ g.found = found
      <4>1. [b EXCEPT !.found = found] \in TaskState
        BY DEF TaskState
      <4>2. /\ [b EXCEPT !.found = found].status = "running"
            /\ [b EXCEPT !.found = found].todo = script
            /\ [b EXCEPT !.found = found].found = found
        BY <3>3 DEF TaskState
      <4> QED
        BY <4>1, <4>2
    <3>5. Asked(t) = g
      BY <2>3, <3>1, <3>2, <3>3, <3>4 DEF Asked
    <3>6. script \in Todos(t) /\ ~Creates(t) /\ Deletes(t)
      BY <2>3, <3>1 DEF Todos, Creates, Deletes, DeletionTodos
    <3> QED
      BY <3>1, <3>2, <3>4, <3>5, <3>6
  <2> QED
    BY <1>3, <2>1, <2>2, <2>3
<1>5. task' \in [Task -> TaskState] /\ task'[t] = g /\ \A u \in Task \ {t} : task'[u] = task[u]
  BY <1>1, <1>2, <1>4
<1>6. \A u \in Task : (Todos(u)' = Todos(u)) /\ (Deletes(u)' <=> Deletes(u))
  BY <1>1 DEF Todos, Creates, Deletes
<1>7. ASSUME NEW u \in Task PROVE ScriptedOf(u)'
  <2>1. CASE u = t
    BY <1>1, <1>4, <1>5, <1>6, <2>1 DEF ScriptedOf
  <2>2. CASE u # t
    BY <1>1, <1>5, <1>6, <2>2 DEF ScriptedOf, Sound, Scripted
  <2> QED
    BY <2>1, <2>2
<1> QED
  BY <1>1, <1>4, <1>5, <1>7 DEF Scripted

LEMMA ArriveSteps ==
    ASSUME Sound, NEW t \in Call, Arrive(t)
    PROVE  Sound' /\ UNCHANGED <<load, boot, nodes, refs, playing, met, late>>
<1>1. /\ UNCHANGED <<nodes, refs, public, load, boot, instance, playing, met, late, meddled>>
      /\ company' = [u \in Call |-> IF u = t THEN UnderWay
                                    ELSE IF u \in UnderWay THEN company[u] \cup {t}
                                    ELSE company[u]]
  BY DEF Arrive, Server
<1>2. task' \in [Task -> TaskState] /\ Scripted'
  BY ArriveTask
<1>3. company' \in [Call -> SUBSET Call]
  <2>1. UnderWay \subseteq Call /\ company \in [Call -> SUBSET Call]
    BY DEF UnderWay, Sound, TypeOK
  <2> QED
    BY <1>1, <2>1
<1>4. TypeOK'
  BY <1>1, <1>2, <1>3 DEF Sound, TypeOK, TaskState
<1> QED
  BY <1>1, <1>2, <1>4 DEF Sound

LEMMA PlayersAreNodes == Sound => \A u \in Call : PlayerOf(u) \in Node
BY Known, StepKinds, Roles DEF Sound, PlayerOf, Node, Role, Player

LEMMA ClientSteps ==
    ASSUME Sound,
           \/ \E u \in Call : Select(u)
           \/ \E p \in playing : Leave(p) \/ AddChild(p)
           \/ \E n \in nodes : Meddle(n)
    PROVE  Sound' /\ UNCHANGED <<load, boot, task, company, met>>
<1>1. ASSUME NEW u \in Call, Select(u)
      PROVE  Sound' /\ UNCHANGED <<load, boot, task, company, met>>
  <2>1. /\ UNCHANGED <<load, boot, instance, nodes, refs, public, task, company, met, meddled>>
        /\ playing' = playing \cup {PlayerOf(u)}
        /\ late' \subseteq late \cup {PlayerOf(u)}
    BY <1>1 DEF Select
  <2>2. playing' \subseteq Node /\ late' \subseteq Node
    BY <2>1, PlayersAreNodes DEF Sound, TypeOK
  <2>3. task' \in [Task -> TaskState] /\ Scripted'
    BY <2>1, CallsKept
  <2>4. TypeOK'
    BY <2>1, <2>2 DEF Sound, TypeOK
  <2> QED
    BY <2>1, <2>3, <2>4 DEF Sound
<1>2. ASSUME NEW p \in playing, Leave(p)
      PROVE  Sound' /\ UNCHANGED <<load, boot, task, company, met>>
  <2>1. /\ UNCHANGED <<load, boot, instance, nodes, refs, public, task, company, met, late, meddled>>
        /\ playing' \subseteq playing
    BY <1>2 DEF Leave, History
  <2>2. task' \in [Task -> TaskState] /\ Scripted'
    BY <2>1, CallsKept
  <2>3. TypeOK'
    BY <2>1 DEF Sound, TypeOK
  <2> QED
    BY <2>1, <2>2, <2>3 DEF Sound
<1>3. ASSUME NEW p \in playing, AddChild(p)
      PROVE  Sound' /\ UNCHANGED <<load, boot, task, company, met>>
  <2>1. /\ UNCHANGED <<load, boot, instance, playing, public, task, company, met, late, meddled>>
        /\ p \in nodes
        /\ nodes' = nodes \cup {Extra(p)} /\ refs' = refs \cup {<<p, Extra(p)>>}
    BY <1>3 DEF AddChild, Server, History
  <2>2. Extra(p) \in Node
    <3>1. "player" \in Tree /\ "extra" \in Part
      BY Roles
    <3>2. p[1] \in Task
      BY <2>1 DEF Sound, TypeOK, Node
    <3> QED
      BY <3>1, <3>2 DEF Extra, Node
  <2>3. nodes' \subseteq Node /\ refs' \subseteq nodes' \X nodes'
    BY <2>1, <2>2 DEF Sound, TypeOK
  <2>4. task' \in [Task -> TaskState] /\ Scripted'
    BY <2>1, CallsKept
  <2>5. TypeOK'
    BY <2>1, <2>3 DEF Sound, TypeOK
  <2> QED
    BY <2>1, <2>4, <2>5 DEF Sound
<1>4. ASSUME NEW n \in nodes, Meddle(n)
      PROVE  Sound' /\ UNCHANGED <<load, boot, task, company, met>>
  <2>1. /\ UNCHANGED <<nodes, refs, task, load, boot, instance, playing, company, met, late>>
        /\ public' \subseteq public \cup {n} /\ meddled' = meddled \cup {boot}
    BY <1>4 DEF Meddle, Server
  <2>2. public' \subseteq Node /\ meddled' \subseteq 1..boot'
    <3>1. boot \in 1..boot
      <4>1. load.boots \in Nat /\ boot \in 1..load.boots
        BY Known DEF Sound, TypeOK
      <4> QED
        BY <4>1
    <3> QED
      BY <2>1, <3>1 DEF Sound, TypeOK
  <2>3. task' \in [Task -> TaskState] /\ Scripted'
    BY <2>1, CallsKept
  <2>4. TypeOK'
    BY <2>1, <2>2 DEF Sound, TypeOK
  <2> QED
    BY <2>1, <2>3, <2>4 DEF Sound
<1> QED
  BY <1>1, <1>2, <1>3, <1>4

LEMMA RestartSteps ==
    ASSUME Sound, Restart
    PROVE  /\ Sound' /\ UNCHANGED <<load, nodes, refs, company, met, late>> /\ playing' = {}
           /\ \A t \in Call : task'[t].status # "running"
           /\ \A t \in Call : task'[t].status = "idle" => task[t].status = "idle"
           /\ \A t \in Task : task'[t].status = "running" =>
                 t = Boot[boot'] /\ t \notin Call /\ task'[t].todo = SetupScript
<1>1. /\ UNCHANGED <<load, nodes, refs, public, instance, company, met, late, meddled>>
      /\ boot < load.boots /\ boot' = boot + 1 /\ playing' = {}
      /\ task' = [t \in Task |->
                    IF t = Boot[boot + 1] THEN Begun(SetupScript)
                    ELSE IF task[t].status = "running"
                         THEN [task[t] EXCEPT !.status = "lost", !.todo = <<>>]
                         ELSE task[t]]
  BY DEF Restart, History
<1>2. /\ boot \in 1..load.boots /\ load.boots \in Nat /\ boot' \in 1..load.boots
      /\ Boot[boot + 1] \in Task \ Call
  <2>1. boot \in 1..load.boots /\ load.boots \in 1..Len(Boot) /\ Len(Boot) \in Nat
    BY Known DEF Sound, TypeOK
  <2>2. boot < load.boots /\ boot' = boot + 1
    BY <1>1
  <2>3. load.boots \in Nat /\ boot + 1 \in 1..Len(Boot) /\ boot + 1 \in 1..load.boots
    BY <2>1, <2>2
  <2>4. Boot[boot + 1] \in Task \ Call
    BY <2>3, Known DEF Sound
  <2> QED
    BY <2>1, <2>2, <2>3, <2>4
<1>3. PICK begun \in TaskState :
         /\ begun = Begun(SetupScript) /\ begun.status = "running" /\ begun.todo = SetupScript
  <2>1. SetupScript \in Seq(StepType)
    BY SetupScriptType, StepKinds
  <2> QED
    BY <2>1, Begins
<1>4. \A w \in TaskState :
          /\ [w EXCEPT !.status = "lost", !.todo = <<>>] \in TaskState
          /\ [w EXCEPT !.status = "lost", !.todo = <<>>].status = "lost"
  <2>1. PICK todo \in Seq(StepType) : todo = <<>>
    <3>1. <<>> \in Seq(StepType)
      OBVIOUS
    <3> QED
      BY <3>1
  <2>2. \A w \in TaskState :
            /\ [w EXCEPT !.status = "lost", !.todo = todo] \in TaskState
            /\ [w EXCEPT !.status = "lost", !.todo = todo].status = "lost"
    BY DEF TaskState
  <2> QED
    BY <2>1, <2>2
<1>5. ASSUME NEW t \in Task
      PROVE  /\ task'[t] \in TaskState
             /\ t # Boot[boot + 1] => task'[t] = task[t] \/ task'[t].status = "lost"
             /\ t # Boot[boot + 1] => task'[t].status # "running"
             /\ t = Boot[boot + 1] => task'[t] = begun
  <2>1. task[t] \in TaskState
    BY Known DEF Sound
  <2>2. CASE t = Boot[boot + 1]
    BY <1>1, <1>3, <2>2
  <2>3. CASE t # Boot[boot + 1] /\ task[t].status = "running"
    BY <1>1, <1>4, <2>1, <2>3
  <2>4. CASE t # Boot[boot + 1] /\ task[t].status # "running"
    BY <1>1, <2>1, <2>4
  <2> QED
    BY <2>2, <2>3, <2>4
<1>6. task' \in [Task -> TaskState]
  BY <1>1, <1>5
<1>7. ASSUME NEW t \in Task PROVE ScriptedOf(t)'
  <2>1. CASE t = Boot[boot + 1]
    BY <1>1, <1>2, <1>3, <1>5, <2>1, SetupScriptType DEF ScriptedOf, Todos, Creates, Deletes
  <2>2. CASE t # Boot[boot + 1]
    BY <1>5, <2>2 DEF ScriptedOf
  <2> QED
    BY <2>1, <2>2
<1>8. TypeOK'
  <2>1. boot' \in 1..load'.boots /\ meddled' \subseteq 1..boot'
    <3>1. meddled' = meddled /\ meddled \subseteq 1..boot /\ load' = load /\ boot' = boot + 1
      BY <1>1 DEF Sound, TypeOK
    <3>2. boot \in 1..load.boots /\ load.boots \in Nat /\ boot' \in 1..load.boots
      BY <1>2
    <3>3. 1..boot \subseteq 1..boot'
      BY <3>1, <3>2
    <3> QED
      BY <3>1, <3>2, <3>3
  <2> QED
    BY <1>1, <1>6, <2>1 DEF Sound, TypeOK, TaskState
<1>9. \A t \in Call : t \in Task /\ t # Boot[boot + 1]
  BY <1>2, Known DEF Sound
<1>10. \A t \in Task : task'[t].status = "running" =>
           t = Boot[boot'] /\ t \notin Call /\ task'[t].todo = SetupScript
  BY <1>1, <1>2, <1>3, <1>5
<1> QED
  BY <1>1, <1>5, <1>7, <1>8, <1>9, <1>10 DEF Sound, Scripted

LEMMA SoundStep == Sound /\ [Next]_vars => Sound'
<1> SUFFICES ASSUME Sound, [Next]_vars PROVE Sound'
  OBVIOUS
<1>1. CASE UNCHANGED vars
  <2>1. task' \in [Task -> TaskState] /\ Scripted'
    BY <1>1, CallsKept DEF vars
  <2>2. TypeOK'
    BY <1>1 DEF Sound, TypeOK, vars
  <2> QED
    BY <2>1, <2>2 DEF Sound
<1>2. CASE \E t \in Task : MethodStep(t)
  BY <1>2, MethodSteps DEF Stepped
<1>3. CASE \E t \in Call : Arrive(t)
  BY <1>3, ArriveSteps
<1>4. CASE \/ \E u \in Call : Select(u)
           \/ \E p \in playing : Leave(p) \/ AddChild(p)
           \/ \E n \in nodes : Meddle(n)
  BY <1>4, ClientSteps
<1>5. CASE Restart
  BY <1>5, RestartSteps
<1> QED
  BY <1>1, <1>2, <1>3, <1>4, <1>5 DEF Next

LEMMA SpecSound == Spec => []Sound
<1> QED
  BY InitSound, SoundStep, PTL DEF Spec

\* Whatever the clients ask for and whatever fails, nodes, references and calls keep
\* their types: a call never goes on with an empty list of steps, and a reference is
\* always between nodes that exist (the methods of ServerState and the foreign keys).
THEOREM TypeCorrect == Spec => []TypeOK
<1>1. Sound => TypeOK
  BY DEF Sound
<1> QED
  BY <1>1, SpecSound, PTL

-----------------------------------------------------------------------------
(* Names.                                                                  *)

\* A call that has seen that the name is free.
Passed(u) ==
    \/ PlayerOf(u) \in nodes
    \/ task[u].status = "running" /\ Creates(u) /\ Head(task[u].todo).op # "name"

SameName(t, u) == load.jobs[t].name = load.jobs[u].name

\* Calls overlap mutually, and all that are under way have met.
Overlaps ==
    /\ \A t, u \in Call : u \in company[t] => t \in company[u]
    /\ \A t, u \in Call : task[t].status = "idle" => u \notin company[t]
    /\ \A t, u \in UnderWay : t # u => u \in company[t]

\* Only a creation makes a Player node.
Created ==
    \A p \in nodes : IsPlayer(p) =>
        p[1] \in Call /\ Creates(p[1]) /\ task[p[1]].status # "idle"

\* Whoever saw that a name is free, when an avatar has it now, overlapped with its creation.
Names ==
    \A t, u \in Call :
        t # u /\ PlayerOf(t) \in nodes /\ Passed(u) /\ SameName(t, u) => u \in company[t]

NameInv == Overlaps /\ Created /\ Names

LEMMA PlayerOfs ==
    /\ \A u : IsPlayer(PlayerOf(u)) /\ PlayerOf(u)[1] = u
    /\ \A u, v : PlayerOf(u) = PlayerOf(v) => u = v
    /\ \A p : ~IsPlayer(Extra(p))
    /\ \A p, u : Extra(p) # PlayerOf(u)
<1>1. \A u : PlayerOf(u) = <<u, "player", "player">> /\ PlayerOf(u)[1] = u
  BY DEF PlayerOf
<1>2. \A p, u : Extra(p) # PlayerOf(u)
  BY DEF Extra, PlayerOf
<1>3. \A u, v : PlayerOf(u) = PlayerOf(v) => u = v
  BY DEF PlayerOf
<1> QED
  BY <1>1, <1>2, <1>3 DEF IsPlayer

LEMMA InitIdle == Init => UnderWay = {}
<1> SUFFICES ASSUME Init PROVE \A t \in Call : task[t].status # "running"
  BY DEF UnderWay
<1>1. Sound
  BY InitSound
<1>2. /\ task = [t \in Task |-> IF t = Boot[1] THEN Begun(SetupScript) ELSE Idle]
      /\ boot = 1
  BY DEF Init
<1>3. Boot[1] \in Task \ Call
  <2>1. boot \in 1..load.boots /\ load.boots \in DOMAIN Boot
    BY <1>1, Known DEF Sound, TypeOK
  <2>2. 1 \in DOMAIN Boot
    BY <1>1, <1>2, <2>1, Known DEF Sound
  <2> QED
    BY <1>1, <2>2, Known DEF Sound
<1> QED
  BY <1>1, <1>2, <1>3, IdleType, Known DEF Sound

LEMMA InitNames == Init => NameInv
<1> SUFFICES ASSUME Init PROVE NameInv
  OBVIOUS
<1>1. nodes = {} /\ company = [t \in Call |-> {}] /\ UnderWay = {}
  BY InitIdle DEF Init
<1> QED
  BY <1>1 DEF NameInv, Overlaps, Created, Names

\* A step in which no call begins and none sees a name as free, and that makes no player.
LEMMA NamesKept ==
    ASSUME NameInv, UNCHANGED <<load, company>>,
           \A p \in nodes' : IsPlayer(p) => p \in nodes,
           \A t \in Call :
               /\ task'[t].status = "running" => task[t].status = "running"
               /\ task'[t].status = "idle" => task[t].status = "idle"
               /\ task'[t] = task[t] \/ task'[t].status # "running"
                     \/ (task[t].status = "running" /\ (Creates(t) => Head(task[t].todo).op # "name"))
    PROVE  NameInv'
<1>1. \A u \in Call : (Creates(u)' <=> Creates(u))
  BY DEF Creates
<1>2. \A u \in Call : PlayerOf(u) \in nodes' => PlayerOf(u) \in nodes
  BY PlayerOfs
<1>3. \A u \in Call : Passed(u)' => Passed(u)
  BY <1>1, <1>2 DEF Passed
<1>4. Overlaps'
  BY DEF NameInv, Overlaps, UnderWay
<1>5. Created'
  BY <1>1 DEF NameInv, Created
<1>6. Names'
  BY <1>2, <1>3 DEF NameInv, Names, SameName
<1> QED
  BY <1>4, <1>5, <1>6 DEF NameInv

\* The player comes into being after the name was seen as free.
LEMMA MakeNodeNames ==
    ASSUME Sound, NameInv, NEW t \in Task, MakeNode(t)
    PROVE  NameInv'
<1>1. /\ Others(t) /\ UNCHANGED <<load, company>>
      /\ nodes' = nodes \cup {<<t, Here(t)[1], Here(t)[2]>>}
      /\ ~Creates(t) => Here(t)[1] # "player"
  BY MakeNodeSteps, MethodFrame DEF Stepped, MethodStep
<1>2. task[t].status = "running" /\ Head(task[t].todo).op # "name"
  BY DEF MakeNode, On
<1>3. \A u \in Call : /\ Creates(u)' <=> Creates(u)
                      /\ u \in Task
                      /\ task'[u].status = "running" => task[u].status = "running"
                      /\ task'[u].status = "idle" => task[u].status = "idle"
                      /\ u # t => task'[u] = task[u]
  BY <1>1, <1>2, Known DEF Others, Creates, Sound
<1>4. \A p \in nodes' : IsPlayer(p) =>
          p \in nodes \/ (p = PlayerOf(t) /\ Creates(t) /\ t \in Call)
  <2>1. ASSUME NEW p, p = <<t, Here(t)[1], Here(t)[2]>>, IsPlayer(p)
        PROVE  p = PlayerOf(t) /\ Here(t)[1] = "player"
    BY <2>1 DEF IsPlayer, PlayerOf
  <2> QED
    BY <1>1, <2>1 DEF Creates
<1>5. \A u \in Call : PlayerOf(u) \in nodes' =>
          PlayerOf(u) \in nodes \/ (u = t /\ Creates(t))
  BY <1>4, PlayerOfs
<1>6. \A u \in Call : Passed(u)' => Passed(u)
  BY <1>2, <1>3, <1>5 DEF Passed
<1>7. Overlaps'
  BY <1>1, <1>3 DEF NameInv, Overlaps, UnderWay
<1>8. Created'
  <2>1. task'[t].status # "idle"
    BY <1>1 DEF Others
  <2> QED
    BY <1>3, <1>4, <2>1, PlayerOfs DEF NameInv, Created
<1>9. ASSUME NEW v \in Call, NEW u \in Call, v # u, PlayerOf(v) \in nodes', Passed(u)',
             SameName(v, u)'
      PROVE  u \in company'[v]
  <2>1. SameName(v, u) /\ SameName(u, v) /\ Passed(u) /\ company' = company
    BY <1>1, <1>6, <1>9 DEF SameName
  <2>2. CASE PlayerOf(v) \in nodes
    BY <1>9, <2>1, <2>2 DEF NameInv, Names
  <2>3. CASE v = t /\ Creates(t)
    <3>1. Passed(v)
      BY <1>2, <2>3 DEF Passed
    <3>2. CASE PlayerOf(u) \in nodes
      BY <1>9, <2>1, <3>1, <3>2 DEF NameInv, Names, Overlaps
    <3>3. CASE PlayerOf(u) \notin nodes
      BY <1>2, <1>9, <2>1, <2>3, <3>3 DEF NameInv, Overlaps, Passed, UnderWay
    <3> QED
      BY <3>2, <3>3
  <2> QED
    BY <1>5, <1>9, <2>2, <2>3
<1> QED
  BY <1>7, <1>8, <1>9 DEF NameInv, Names

\* No avatar has the name that was seen as free.
LEMMA CheckNameNames ==
    ASSUME Sound, NameInv, NEW t \in Task, CheckName(t)
    PROVE  NameInv'
<1>1. /\ Others(t) /\ UNCHANGED <<load, company, nodes>> /\ Creates(t) /\ t \in Call
      /\ task[t].status = "running"
  BY CheckNameSteps, MethodFrame DEF Stepped, MethodStep, Creates, Others
<1>2. NameTaken(t) => task'[t].status = "raised"
  BY Known DEF CheckName, End, Sound, TaskState
<1>3. \A u \in Call : /\ Creates(u)' <=> Creates(u)
                      /\ u \in Task
                      /\ task'[u].status = "running" => task[u].status = "running"
                      /\ task'[u].status = "idle" => task[u].status = "idle"
                      /\ u # t => task'[u] = task[u]
  BY <1>1, Known DEF Others, Creates, Sound
<1>4. \A u \in Call : Passed(u)' => Passed(u) \/ (u = t /\ ~NameTaken(t))
  BY <1>1, <1>2, <1>3 DEF Passed
<1>5. Overlaps'
  BY <1>1, <1>3 DEF NameInv, Overlaps, UnderWay
<1>6. Created'
  BY <1>1, <1>3 DEF NameInv, Created
<1>7. ASSUME NEW v \in Call, NEW u \in Call, v # u, PlayerOf(v) \in nodes', Passed(u)',
             SameName(v, u)'
      PROVE  u \in company'[v]
  <2>1. SameName(v, u) /\ company' = company /\ PlayerOf(v) \in nodes
    BY <1>1, <1>7 DEF SameName
  <2>2. CASE Passed(u)
    BY <1>7, <2>1, <2>2 DEF NameInv, Names
  <2>3. CASE u = t /\ ~NameTaken(t)
    <3>1. IsPlayer(PlayerOf(v)) /\ PlayerOf(v)[1] = v
      BY PlayerOfs
    <3> QED
      BY <2>1, <2>3, <3>1 DEF NameTaken, SameName
  <2> QED
    BY <1>4, <1>7, <2>2, <2>3
<1> QED
  BY <1>5, <1>6, <1>7 DEF NameInv, Names

\* A call that begins has met those under way, and has seen no name.
LEMMA ArriveNames ==
    ASSUME Sound, NameInv, NEW t \in Call, Arrive(t)
    PROVE  NameInv'
<1>1. /\ task[t].status = "idle" /\ task'[t].status = "running" /\ t \notin UnderWay
      /\ Creates(t) => task'[t].todo = <<Step("name", Player)>>
      /\ \A u \in Task \ {t} : task'[u] = task[u]
      /\ UNCHANGED <<load, nodes>>
  BY ArriveTask, ArriveSteps DEF UnderWay
<1>2. \A u \in Call : company'[u] = IF u = t THEN UnderWay
                                    ELSE IF u \in UnderWay THEN company[u] \cup {t}
                                    ELSE company[u]
  BY DEF Arrive
<1>3. \A u \in Call : /\ Creates(u)' <=> Creates(u)
                      /\ u # t => task'[u] = task[u]
  BY <1>1, Known DEF Creates, Sound
<1>4. UnderWay \subseteq Call /\ UnderWay' = UnderWay \cup {t}
  BY <1>1, <1>3 DEF UnderWay
<1>5. \A u \in Call : t \notin company[u] /\ u \notin company[t]
  BY <1>1 DEF NameInv, Overlaps
<1>6. ASSUME NEW v \in Call, NEW u \in Call, u \in company'[v]
      PROVE  v \in company'[u]
  <2>1. CASE v = t
    BY <1>1, <1>2, <1>4, <1>6, <2>1
  <2>2. CASE v # t /\ u = t
    <3>1. v \in UnderWay
      BY <1>2, <1>5, <1>6, <2>2
    <3> QED
      BY <1>2, <2>2, <3>1
  <2>3. CASE v # t /\ u # t
    <3>1. u \in company[v]
      BY <1>2, <1>6, <2>3
    <3>2. v \in company[u]
      BY <3>1 DEF NameInv, Overlaps
    <3> QED
      BY <1>2, <2>3, <3>2
  <2> QED
    BY <2>1, <2>2, <2>3
<1>7. ASSUME NEW v \in Call, NEW u \in Call, task'[v].status = "idle"
      PROVE  u \notin company'[v]
  BY <1>1, <1>2, <1>3, <1>7 DEF NameInv, Overlaps, UnderWay
<1>8. ASSUME NEW v \in UnderWay', NEW u \in UnderWay', v # u
      PROVE  u \in company'[v]
  BY <1>2, <1>4, <1>8 DEF NameInv, Overlaps
<1>9. Overlaps'
  BY <1>6, <1>7, <1>8 DEF Overlaps
<1>10. Created'
  BY <1>1, <1>3 DEF NameInv, Created
<1>11. Head(<<Step("name", Player)>>).op = "name"
  BY DEF Step
<1>12. \A u \in Call : Passed(u)' => Passed(u)
  BY <1>1, <1>3, <1>11 DEF Passed
<1>13. PlayerOf(t) \notin nodes
  BY <1>1, PlayerOfs DEF NameInv, Created
<1>14. ASSUME NEW v \in Call, NEW u \in Call, v # u, PlayerOf(v) \in nodes', Passed(u)',
              SameName(v, u)'
       PROVE  u \in company'[v]
  <2>1. SameName(v, u) /\ PlayerOf(v) \in nodes /\ Passed(u) /\ v # t
    BY <1>1, <1>12, <1>13, <1>14 DEF SameName
  <2>2. u \in company[v]
    BY <1>14, <2>1 DEF NameInv, Names
  <2> QED
    BY <1>2, <2>1, <2>2
<1> QED
  BY <1>9, <1>10, <1>14 DEF NameInv, Names

LEMMA NamesStep == Sound /\ NameInv /\ [Next]_vars => NameInv'
<1> SUFFICES ASSUME Sound, NameInv, [Next]_vars PROVE NameInv'
  OBVIOUS
<1>1. CASE UNCHANGED vars
  BY <1>1, NamesKept DEF vars
<1>2. ASSUME NEW t \in Task, MethodStep(t) PROVE NameInv'
  <2>1. CASE MakeNode(t)
    BY <2>1, MakeNodeNames
  <2>2. CASE CheckName(t)
    BY <2>2, CheckNameNames
  <2>3. CASE ~MakeNode(t) /\ ~CheckName(t)
    <3>1. Stepped(t) /\ UNCHANGED <<load, company>>
      BY <1>2, MethodSteps, MethodFrame
    <3>2. nodes' \subseteq nodes
      BY <1>2, <2>3, BuildSteps, FetchSteps, KickSteps, UnlinkSteps, FailsSteps DEF MethodStep
    <3>3. (t \in Call /\ Creates(t) => Head(task[t].todo).op # "name") \/ task'[t].status = "failed"
      <4>1. Deletes(t) => ~Creates(t)
        BY DEF Deletes, Creates
      <4> QED
        BY <1>2, <2>3, <4>1, BuildSteps, FetchSteps, KickSteps, UnlinkSteps, FailsSteps
           DEF MethodStep
    <3>4. \A u \in Call :
              /\ task'[u].status = "running" => task[u].status = "running"
              /\ task'[u].status = "idle" => task[u].status = "idle"
              /\ task'[u] = task[u] \/ task'[u].status # "running"
                    \/ (task[u].status = "running" /\ (Creates(u) => Head(task[u].todo).op # "name"))
      BY <3>1, <3>3, Known DEF Stepped, Others, Sound
    <3> QED
      BY <3>1, <3>2, <3>4, NamesKept
  <2> QED
    BY <2>1, <2>2, <2>3
<1>3. CASE \E t \in Call : Arrive(t)
  BY <1>3, ArriveNames
<1>4. CASE \/ \E u \in Call : Select(u)
           \/ \E p \in playing : Leave(p) \/ AddChild(p)
           \/ \E n \in nodes : Meddle(n)
  <2>1. UNCHANGED <<load, task, company>>
    BY <1>4, ClientSteps
  <2>2. \A p \in nodes' : IsPlayer(p) => p \in nodes
    BY <1>4, PlayerOfs DEF Select, Leave, AddChild, Meddle
  <2> QED
    BY <2>1, <2>2, NamesKept
<1>5. CASE Restart
  BY <1>5, RestartSteps, NamesKept
<1> QED
  BY <1>1, <1>2, <1>3, <1>4, <1>5 DEF Next

\* Two avatars have one name only if two requests created them at the same time, however
\* many requests there are and whatever fails in between (create_avatar).
THEOREM NamesakesOverlapped == Spec => []SameNameMeansOverlap
<1>1. NameInv => SameNameMeansOverlap
  <2> SUFFICES ASSUME NameInv, NEW m \in nodes, NEW n \in nodes, m # n, IsPlayer(m), IsPlayer(n),
                      load.jobs[m[1]].name = load.jobs[n[1]].name
               PROVE  n[1] \in company[m[1]]
    BY DEF SameNameMeansOverlap
  <2>1. m = PlayerOf(m[1]) /\ n = PlayerOf(n[1])
    BY DEF IsPlayer
  <2>2. m[1] \in Call /\ n[1] \in Call /\ m[1] # n[1]
    BY <2>1 DEF NameInv, Created
  <2>3. Passed(n[1])
    BY <2>1 DEF Passed
  <2> QED
    BY <2>1, <2>2, <2>3 DEF NameInv, Names, SameName
<1> QED
  BY <1>1, SpecSound, InitNames, NamesStep, PTL DEF Spec

-----------------------------------------------------------------------------
(* Who plays an avatar that is gone.                                       *)

Unlinking(t) ==
    task[t].status = "running" /\ Deletes(t) /\ task[t].todo \in Seq(UnlinkStep)

\* A deletion that has got past its first step has met its avatar.
MetByThen ==
    \A t \in Call :
        task[t].status = "running" /\ Deletes(t) /\ task[t].todo # DeleteScript => t \in met

\* From the kick to the end of a deletion, who plays the avatar selected it since.
KickedByThen == \A t \in Call : Unlinking(t) /\ Target(t) \in playing => Target(t) \in late

GhostInv == MetByThen /\ KickedByThen /\ GhostsAreLate

LEMMA Deletions ==
    /\ DeleteScript \notin Seq(UnlinkStep) /\ Tail(DeleteScript) \notin Seq(UnlinkStep)
    /\ Tail(DeleteScript) # DeleteScript /\ Tail(DeleteScript) # <<>>
<1>1. /\ DeleteScript # <<>> /\ Tail(DeleteScript) # <<>>
      /\ Head(DeleteScript).op = "fetch" /\ Head(Tail(DeleteScript)).op = "kick"
  BY DEF DeleteScript, Step
<1>2. \A s \in UnlinkStep : s.op \notin {"fetch", "kick"}
  BY DEF UnlinkStep
<1>3. \A todo \in Seq(UnlinkStep) : todo # <<>> => Head(todo) \in UnlinkStep
  OBVIOUS
<1> QED
  BY <1>1, <1>2, <1>3

LEMMA InitGhosts == Init => GhostInv
<1> SUFFICES ASSUME Init PROVE GhostInv
  OBVIOUS
<1>1. playing = {}
  BY DEF Init
<1>2. \A t \in Call : task[t].status # "running"
  <2>1. UnderWay = {}
    BY InitIdle
  <2> QED
    BY <2>1 DEF UnderWay
<1> QED
  BY <1>1, <1>2 DEF GhostInv, MetByThen, KickedByThen, Unlinking, GhostsAreLate

\* A step that loses no node, and after which no deletion is further than before.
LEMMA GhostsKept ==
    ASSUME GhostInv, UNCHANGED <<load, late>>, met \subseteq met', playing' \subseteq playing,
           nodes \subseteq nodes',
           \A t \in Call : Deletes(t) /\ task'[t].status = "running" =>
               \/ task'[t] = task[t]
               \/ task'[t].todo = DeleteScript
               \/ task'[t].todo = Tail(DeleteScript) /\ t \in met'
    PROVE  GhostInv'
<1>1. \A t \in Call : (Deletes(t)' <=> Deletes(t)) /\ Target(t)' = Target(t)
  BY DEF Deletes, Target, PlayerOf
<1>2. MetByThen'
  BY <1>1 DEF GhostInv, MetByThen
<1>3. \A t \in Call : Unlinking(t)' => Unlinking(t)
  BY <1>1, Deletions DEF Unlinking
<1>4. KickedByThen'
  BY <1>1, <1>3 DEF GhostInv, KickedByThen
<1>5. GhostsAreLate'
  BY DEF GhostInv, GhostsAreLate
<1> QED
  BY <1>2, <1>4, <1>5 DEF GhostInv

LEMMA FetchGhosts ==
    ASSUME Sound, GhostInv, NEW t \in Task, FetchPlayer(t)
    PROVE  GhostInv'
<1>1. /\ Others(t) /\ Deletes(t) /\ UNCHANGED <<load, late, nodes, playing>>
      /\ met' = met \cup {t} \/ (met' = met /\ task'[t].status = "raised")
  BY FetchSteps, MethodFrame DEF Stepped, MethodStep
<1>2. Rest(t) = Tail(DeleteScript) /\ Rest(t) # <<>>
  BY Rests, Deletions DEF FetchPlayer, On, Rest
<1>3. task'[t].status = "running" => task'[t].todo = Tail(DeleteScript)
  <2>1. CASE GoOn(t, Rest(t))
    BY <1>2, <2>1, Known DEF GoOn, Going, Sound
  <2>2. CASE End(t, "raised")
    BY <2>2, Known DEF End, Sound, TaskState
  <2> QED
    BY <2>1, <2>2 DEF FetchPlayer
<1>4. \A u \in Call : u # t => task'[u] = task[u]
  BY <1>1, Known DEF Others, Sound
<1> QED
  BY <1>1, <1>3, <1>4, GhostsKept

\* Nobody plays the avatar now.
LEMMA KickGhosts ==
    ASSUME Sound, GhostInv, NEW t \in Task, KickPlayer(t)
    PROVE  GhostInv'
<1>1. /\ Others(t) /\ Deletes(t) /\ UNCHANGED <<load, late, nodes, met>>
      /\ playing' \subseteq playing /\ Target(t) \notin playing'
      /\ task[t].todo = Tail(DeleteScript) /\ task[t].status = "running"
  BY KickSteps, MethodFrame DEF Stepped, MethodStep, Others
<1>2. t \in met
  BY <1>1, Deletions DEF GhostInv, MetByThen, Deletes
<1>3. \A u \in Call : /\ (Deletes(u)' <=> Deletes(u)) /\ Target(u)' = Target(u)
                      /\ u # t => task'[u] = task[u]
  BY <1>1, Known DEF Deletes, Target, PlayerOf, Others, Sound
<1>4. MetByThen'
  BY <1>1, <1>2, <1>3 DEF GhostInv, MetByThen
<1>5. KickedByThen'
  BY <1>1, <1>3 DEF GhostInv, KickedByThen, Unlinking
<1>6. GhostsAreLate'
  BY <1>1 DEF GhostInv, GhostsAreLate
<1> QED
  BY <1>4, <1>5, <1>6 DEF GhostInv

\* The avatar goes, when whoever plays it selected it since the kick.
LEMMA UnlinkGhosts ==
    ASSUME Sound, GhostInv, NEW t \in Task,
           SetOffline(t) \/ QueryChildren(t) \/ NextChild(t) \/ RemoveRef(t) \/ DeleteNode(t)
    PROVE  GhostInv'
<1>1. /\ Others(t) /\ Deletes(t) /\ UNCHANGED <<load, late, playing, met>>
      /\ task[t].todo \in Seq(UnlinkStep) /\ task[t].status = "running"
      /\ nodes' = nodes \/ nodes' = nodes \ {Target(t)}
  BY UnlinkSteps, MethodFrame DEF Stepped, MethodStep, Others
<1>2. t \in met /\ Unlinking(t) /\ t \in Call
  BY <1>1, Deletions DEF GhostInv, MetByThen, Unlinking, Deletes
<1>3. \A u \in Call : /\ (Deletes(u)' <=> Deletes(u)) /\ Target(u)' = Target(u)
                      /\ u # t => task'[u] = task[u]
  BY <1>1, Known DEF Deletes, Target, PlayerOf, Others, Sound
<1>4. MetByThen'
  BY <1>1, <1>2, <1>3 DEF GhostInv, MetByThen
<1>5. \A u \in Call : Unlinking(u)' => Unlinking(u)
  BY <1>2, <1>3 DEF Unlinking
<1>6. KickedByThen'
  BY <1>1, <1>3, <1>5 DEF GhostInv, KickedByThen
<1>7. GhostsAreLate'
  BY <1>1, <1>2 DEF GhostInv, GhostsAreLate, KickedByThen
<1> QED
  BY <1>4, <1>6, <1>7 DEF GhostInv

\* An avatar that is selected exists, or is late.
LEMMA SelectGhosts ==
    ASSUME Sound, GhostInv, NEW u \in Call, Select(u)
    PROVE  GhostInv'
<1>1. /\ UNCHANGED <<load, task, met, nodes>>
      /\ playing' = playing \cup {PlayerOf(u)} /\ late \subseteq late'
      /\ DeletionsOf(u) # {} => PlayerOf(u) \in late'
      /\ PlayerOf(u) \in nodes \/ DeletionsOf(u) # {}
  BY DEF Select
<1>2. \A t \in Call : (Deletes(t)' <=> Deletes(t)) /\ Target(t)' = Target(t)
  BY <1>1 DEF Deletes, Target, PlayerOf
<1>3. MetByThen'
  BY <1>1, <1>2 DEF GhostInv, MetByThen
<1>4. ASSUME NEW t \in Call, Unlinking(t)', Target(t)' \in playing'
      PROVE  Target(t)' \in late'
  <2>1. Unlinking(t) /\ task[t].todo # DeleteScript
    BY <1>1, <1>2, <1>4, Deletions DEF Unlinking
  <2>2. t \in met
    BY <2>1 DEF GhostInv, MetByThen, Unlinking
  <2>3. CASE Target(t) \in playing
    BY <1>1, <1>2, <2>1, <2>3 DEF GhostInv, KickedByThen
  <2>4. CASE Target(t) = PlayerOf(u)
    <3>1. load.jobs[t].of = u
      BY <2>4, PlayerOfs DEF Target
    <3>2. t \in DeletionsOf(u)
      BY <2>2, <3>1 DEF DeletionsOf
    <3> QED
      BY <1>1, <1>2, <2>4, <3>2
  <2> QED
    BY <1>1, <1>2, <1>4, <2>3, <2>4
<1>5. KickedByThen'
  BY <1>4 DEF KickedByThen
<1>6. GhostsAreLate'
  BY <1>1 DEF GhostInv, GhostsAreLate
<1> QED
  BY <1>3, <1>5, <1>6 DEF GhostInv

LEMMA GhostsStep == Sound /\ GhostInv /\ [Next]_vars => GhostInv'
<1> SUFFICES ASSUME Sound, GhostInv, [Next]_vars PROVE GhostInv'
  OBVIOUS
<1>1. CASE UNCHANGED vars
  BY <1>1, GhostsKept DEF vars
<1>2. ASSUME NEW t \in Task, MethodStep(t) PROVE GhostInv'
  <2>1. CASE FetchPlayer(t)
    BY <2>1, FetchGhosts
  <2>2. CASE KickPlayer(t)
    BY <2>2, KickGhosts
  <2>3. CASE SetOffline(t) \/ QueryChildren(t) \/ NextChild(t) \/ RemoveRef(t) \/ DeleteNode(t)
    BY <2>3, UnlinkGhosts
  <2>4. CASE MakeNode(t) \/ AddRef(t) \/ FindNode(t) \/ FindOrMakeNode(t) \/ CheckName(t)
                \/ PrepareStatic(t) \/ Publish(t) \/ Fails(t)
    <3>1. Stepped(t) /\ UNCHANGED <<load, late>>
      BY <1>2, MethodSteps, MethodFrame
    <3>2. /\ nodes \subseteq nodes' /\ UNCHANGED <<playing, met>>
          /\ ~Deletes(t) \/ task'[t].status = "failed"
      <4>1. CASE MakeNode(t)
        <5>1. ~Deletes(t)
          BY <4>1, Rests DEF MakeNode, On
        <5> QED
          BY <4>1, <5>1, MakeNodeSteps
      <4>2. CASE CheckName(t)
        BY <4>2, CheckNameSteps DEF Creates, Deletes
      <4>3. CASE ~MakeNode(t) /\ ~CheckName(t)
        BY <2>4, <4>3, BuildSteps, FailsSteps
      <4> QED
        BY <4>1, <4>2, <4>3
    <3>3. \A u \in Call : Deletes(u) /\ task'[u].status = "running" => task'[u] = task[u]
      BY <3>1, <3>2, Known DEF Stepped, Others, Sound
    <3> QED
      BY <3>1, <3>2, <3>3, GhostsKept
  <2> QED
    BY <1>2, <2>1, <2>2, <2>3, <2>4 DEF MethodStep
<1>3. ASSUME NEW t \in Call, Arrive(t) PROVE GhostInv'
  <2>1. UNCHANGED <<load, nodes, playing, met, late>>
    BY <1>3, ArriveSteps
  <2>2. \A u \in Call : Deletes(u) /\ task'[u].status = "running" =>
            task'[u] = task[u] \/ task'[u].todo = DeleteScript
    BY <1>3, ArriveTask, Known DEF Sound
  <2> QED
    BY <2>1, <2>2, GhostsKept
<1>4. ASSUME NEW u \in Call, Select(u) PROVE GhostInv'
  BY <1>4, SelectGhosts
<1>5. CASE \/ \E p \in playing : Leave(p) \/ AddChild(p)
           \/ \E n \in nodes : Meddle(n)
  <2>1. UNCHANGED <<load, task, met>>
    BY <1>5, ClientSteps
  <2>2. playing' \subseteq playing /\ nodes \subseteq nodes' /\ late' = late
    BY <1>5 DEF Leave, AddChild, Meddle, Server, History
  <2> QED
    BY <2>1, <2>2, GhostsKept
<1>6. CASE Restart
  BY <1>6, RestartSteps, GhostsKept
<1> QED
  BY <1>1, <1>2, <1>3, <1>4, <1>5, <1>6 DEF Next

\* Who plays an avatar that is gone selected it after its deletion had found it, for any
\* number of avatars and of deletions, and whatever fails (delete_avatar, kick_async and
\* account_set_player_request).
THEOREM OnlyTheLateAreGhosts == Spec => []GhostsAreLate
<1>1. GhostInv => GhostsAreLate
  BY DEF GhostInv
<1> QED
  BY <1>1, SpecSound, InitGhosts, GhostsStep, PTL DEF Spec

-----------------------------------------------------------------------------
(* Age instances.  Each call makes the Age Info nodes of its own trees      *)
(* only, and never before it has looked for the instance.                   *)

Trees(t) == IF Creates(t) THEN {"relto"} ELSE IF t \in Call THEN {"shared"} ELSE StaticSet

MakesInfo(s) == s.op = "make" /\ s.at[2] = "ageInfo"

\* Steps that make or look for instances of some trees only.
StepsAmong(trees) ==
    {s \in StepType :
        /\ MakesInfo(s) => s.at[1] \in trees
        /\ s.op = "findOrMake" => s.at \in {System, AllPlayers} \cup {AgeInfo(i) : i \in trees}
        /\ s.op \in {"static", "publish"} => s.at \in {AgeInfo(i) : i \in trees \cap StaticSet}}

\* Those that make none.
QuietAmong(trees) == {s \in StepsAmong(trees) : ~MakesInfo(s)}

Ahead(todo, i) == \E k \in 1..Len(todo) : todo[k].op = "make" /\ todo[k].at = AgeInfo(i)

LEMMA AheadFacts ==
    /\ \A trees : /\ Seq(QuietAmong(trees)) \subseteq Seq(StepsAmong(trees))
                  /\ Seq(StepsAmong(trees)) \subseteq Seq(StepType)
    /\ \A trees : \A todo \in Seq(QuietAmong(trees)) : \A i : ~Ahead(todo, i)
    /\ \A trees : \A todo \in Seq(StepsAmong(trees)) : \A i : Ahead(todo, i) => i \in trees
    /\ \A s, u \in Seq(StepType) : \A i : Ahead(s \o u, i) => Ahead(s, i) \/ Ahead(u, i)
    /\ \A s \in Seq(StepType) : \A i : s # <<>> /\ Ahead(Tail(s), i) => Ahead(s, i)
    /\ \A s \in Seq(StepType) : \A i :
          s # <<>> /\ Head(s).op = "make" /\ Head(s).at = AgeInfo(i) => Ahead(s, i)
<1>0. \A i : AgeInfo(i)[1] = i /\ AgeInfo(i)[2] = "ageInfo"
  BY DEF AgeInfo
<1>1. \A trees : QuietAmong(trees) \subseteq StepsAmong(trees) /\ StepsAmong(trees) \subseteq StepType
  BY DEF QuietAmong, StepsAmong
<1>2. ASSUME NEW trees, NEW todo \in Seq(QuietAmong(trees)), NEW i, Ahead(todo, i)
      PROVE  FALSE
  <2>1. PICK k \in 1..Len(todo) : todo[k].op = "make" /\ todo[k].at = AgeInfo(i)
    BY <1>2 DEF Ahead
  <2>2. todo[k] \in QuietAmong(trees)
    OBVIOUS
  <2> QED
    BY <1>0, <2>1, <2>2 DEF QuietAmong, MakesInfo
<1>3. ASSUME NEW trees, NEW todo \in Seq(StepsAmong(trees)), NEW i, Ahead(todo, i)
      PROVE  i \in trees
  <2>1. PICK k \in 1..Len(todo) : todo[k].op = "make" /\ todo[k].at = AgeInfo(i)
    BY <1>3 DEF Ahead
  <2>2. todo[k] \in StepsAmong(trees)
    OBVIOUS
  <2> QED
    BY <1>0, <2>1, <2>2 DEF StepsAmong, MakesInfo
<1>4. ASSUME NEW s \in Seq(StepType), NEW u \in Seq(StepType), NEW i, Ahead(s \o u, i)
      PROVE  Ahead(s, i) \/ Ahead(u, i)
  <2>1. PICK k \in 1..Len(s \o u) : (s \o u)[k].op = "make" /\ (s \o u)[k].at = AgeInfo(i)
    BY <1>4 DEF Ahead
  <2>2. CASE k <= Len(s)
    <3>1. k \in 1..Len(s) /\ (s \o u)[k] = s[k]
      BY <2>2
    <3> QED
      BY <2>1, <3>1 DEF Ahead
  <2>3. CASE k > Len(s)
    <3>1. k - Len(s) \in 1..Len(u) /\ (s \o u)[k] = u[k - Len(s)]
      BY <2>3
    <3> QED
      BY <2>1, <3>1 DEF Ahead
  <2> QED
    BY <2>2, <2>3
<1>5. ASSUME NEW s \in Seq(StepType), NEW i, s # <<>>, Ahead(Tail(s), i)
      PROVE  Ahead(s, i)
  <2>1. PICK k \in 1..Len(Tail(s)) : Tail(s)[k].op = "make" /\ Tail(s)[k].at = AgeInfo(i)
    BY <1>5 DEF Ahead
  <2>2. k + 1 \in 1..Len(s) /\ Tail(s)[k] = s[k + 1]
    BY <1>5
  <2> QED
    BY <2>1, <2>2 DEF Ahead
<1>6. ASSUME NEW s \in Seq(StepType), NEW i, s # <<>>, Head(s).op = "make", Head(s).at = AgeInfo(i)
      PROVE  Ahead(s, i)
  <2>1. 1 \in 1..Len(s) /\ s[1] = Head(s)
    BY <1>6
  <2> QED
    BY <1>6, <2>1 DEF Ahead
<1> QED
  BY <1>1, <1>2, <1>3, <1>4, <1>5, <1>6

LEMMA AmongSteps ==
    \A trees : \A p, r \in Role :
        /\ Link(p, r) \in QuietAmong(trees) /\ Find(r) \in QuietAmong(trees)
        /\ r[2] # "ageInfo" => Make(r) \in QuietAmong(trees)
        /\ r[1] \in trees => Make(r) \in StepsAmong(trees)
        /\ r \in {System, AllPlayers} => FindOrMake(r) \in QuietAmong(trees)
        /\ \A i \in trees : r = AgeInfo(i) => FindOrMake(r) \in QuietAmong(trees)
        /\ \A i \in trees \cap StaticSet : r = AgeInfo(i) =>
              /\ Step("static", r) \in QuietAmong(trees)
              /\ Step("publish", r) \in QuietAmong(trees)
BY DEF Make, Link, Find, FindOrMake, Step, QuietAmong, StepsAmong, MakesInfo, StepType, Op

LEMMA ScriptsAmong ==
    /\ \A trees : \A i \in Tree \cap trees : AgeScript(i) \in Seq(StepsAmong(trees))
    /\ AvatarScript \in Seq(QuietAmong({"relto"}))
    /\ SetupScript \in Seq(QuietAmong(StaticSet))
    /\ \A trees : \A i \in StaticSet \cap trees : StaticScript(i) \in Seq(QuietAmong(trees))
    /\ \A trees : \A r \in {System, AllPlayers} : TreeScript(r) \in Seq(QuietAmong(trees))
    /\ \A trees : DeletionTodos \subseteq Seq(QuietAmong(trees))
<1>1. ASSUME NEW trees, NEW i \in Tree \cap trees PROVE AgeScript(i) \in Seq(StepsAmong(trees))
  BY AgeScriptIn, AmongSteps DEF QuietAmong
<1>2. /\ System \in Role /\ AllPlayers \in Role /\ <<"vault", "globalInbox">> \in Role
      /\ \A i \in Tree : AgeInfo(i) \in Role
      /\ "relto" \in Tree /\ StaticSet \subseteq Tree
  BY Roles DEF System, AllPlayers, AgeInfo
<1>3. AvatarScript \in Seq(QuietAmong({"relto"}))
  <2>1. FindOrMake(AgeInfo("relto")) \in QuietAmong({"relto"})
    BY <1>2, AmongSteps
  <2> QED
    BY <2>1, AvatarScriptIn, AmongSteps
<1>4. SetupScript \in Seq(QuietAmong(StaticSet))
  <2>1. /\ FindOrMake(System) \in QuietAmong(StaticSet)
        /\ FindOrMake(AllPlayers) \in QuietAmong(StaticSet)
    BY <1>2, AmongSteps
  <2>2. \A i \in StaticSet : Step("static", AgeInfo(i)) \in QuietAmong(StaticSet)
    BY <1>2, AmongSteps
  <2> QED
    BY <2>1, <2>2, SetupScriptIn
<1>5. ASSUME NEW trees, NEW i \in StaticSet \cap trees
      PROVE  StaticScript(i) \in Seq(QuietAmong(trees))
  <2>1. /\ FindOrMake(AgeInfo(i)) \in QuietAmong(trees)
        /\ Step("publish", AgeInfo(i)) \in QuietAmong(trees)
    BY <1>2, AmongSteps
  <2> QED
    BY <2>1 DEF StaticScript
<1>6. ASSUME NEW trees, NEW r \in {System, AllPlayers} PROVE TreeScript(r) \in Seq(QuietAmong(trees))
  <2>1. \A q \in {System, AllPlayers, <<"vault", "globalInbox">>} : Make(q) \in QuietAmong(trees)
    <3>1. /\ System[2] # "ageInfo" /\ AllPlayers[2] # "ageInfo"
          /\ <<"vault", "globalInbox">>[2] # "ageInfo"
      BY DEF System, AllPlayers
    <3> QED
      BY <1>2, <3>1, AmongSteps
  <2>2. Link(System, <<"vault", "globalInbox">>) \in QuietAmong(trees)
    BY <1>2, AmongSteps
  <2>3. /\ <<Make(System)>> \in Seq(QuietAmong(trees)) /\ <<Make(AllPlayers)>> \in Seq(QuietAmong(trees))
        /\ NewChild(System, <<"vault", "globalInbox">>) \in Seq(QuietAmong(trees))
    BY <2>1, <2>2 DEF NewChild
  <2> QED
    BY <2>3 DEF TreeScript
<1>7. ASSUME NEW trees PROVE DeletionTodos \subseteq Seq(QuietAmong(trees))
  <2>1. \A s \in UnlinkStep \cup {Step("fetch", Player), Step("kick", Player)} : s \in QuietAmong(trees)
    <3>1. \A s \in StepType : s.op \in {"offline", "unlink", "next", "remove", "delete", "fetch", "kick"}
                                => s \in QuietAmong(trees)
      BY DEF QuietAmong, StepsAmong, MakesInfo
    <3>2. /\ \A s \in UnlinkStep : s.op \in {"offline", "unlink", "next", "remove", "delete"}
          /\ Step("fetch", Player).op = "fetch" /\ Step("kick", Player).op = "kick"
      BY DEF UnlinkStep, Step
    <3> QED
      BY <3>1, <3>2, StepKinds
  <2>2. Seq(UnlinkStep) \subseteq Seq(QuietAmong(trees))
    BY <2>1
  <2>3. DeleteScript \in Seq(QuietAmong(trees)) /\ Tail(DeleteScript) \in Seq(QuietAmong(trees))
    <3>1. DeleteScript \in Seq(QuietAmong(trees))
      BY <2>1, StepKinds DEF DeleteScript
    <3>2. DeleteScript # <<>>
      BY DEF DeleteScript
    <3> QED
      BY <3>1, <3>2
  <2> QED
    BY <2>2, <2>3 DEF DeletionTodos
<1> QED
  BY <1>1, <1>3, <1>4, <1>5, <1>6, <1>7

Tidy ==
    \A t \in Task : task[t].status = "running" => task[t].todo \in Seq(StepsAmong(Trees(t)))

LEMMA TodoAfter ==
    Sound => \A t \in Task :
        /\ \A todo : GoOn(t, todo) => task'[t].todo = todo
        /\ \A r, n : GoOnWith(t, r, n) => task'[t].todo = Rest(t)
        /\ \A status : End(t, status) => task'[t].status = status
BY Known DEF Sound, GoOn, GoOnWith, End, Going, TaskState

\* What a step of a method leaves to be made: only a search that finds nothing adds to it.
LEMMA TodoSteps ==
    ASSUME Sound, Tidy, NEW t \in Task, MethodStep(t), task'[t].status = "running"
    PROVE  /\ task'[t].todo \in Seq(StepsAmong(Trees(t)))
           /\ \A i : Ahead(task'[t].todo, i) =>
                 \/ Ahead(task[t].todo, i)
                 \/ /\ Head(task[t].todo).op = "findOrMake" /\ Here(t) = AgeInfo(i)
                    /\ i \in Trees(t) /\ Matches(t, Here(t)) = {}
<1>1. /\ Sound' /\ task[t].status = "running" /\ load' = load
      /\ Seq(QuietAmong(Trees(t))) \subseteq Seq(StepsAmong(Trees(t)))
  BY MethodSteps, MethodFrame, AheadFacts DEF Stepped, Others
<1>2. CASE Deletes(t)
  <2>1. task'[t].todo \in DeletionTodos
    BY <1>1, <1>2 DEF Sound, Scripted, ScriptedOf, Todos, Creates, Deletes
  <2>2. task'[t].todo \in Seq(QuietAmong(Trees(t)))
    BY <2>1, ScriptsAmong
  <2> QED
    BY <1>1, <2>2, AheadFacts
<1>3. CASE ~Deletes(t)
  <2> DEFINE T == Trees(t)
  <2>1. PICK todo \in Seq(StepsAmong(T)) :
           /\ todo = task[t].todo /\ todo # <<>> /\ todo \in Seq(StepType)
           /\ Head(todo) \in StepsAmong(T)
    <3>1. task[t].todo \in Seq(StepsAmong(T)) /\ task[t].todo # <<>>
      BY <1>1 DEF Sound, Scripted, ScriptedOf, Tidy
    <3> QED
      BY <3>1, AheadFacts
  <2>2. PICK rest \in Seq(StepsAmong(T)) :
           /\ rest = Rest(t) /\ rest = Tail(todo) /\ rest \in Seq(StepType)
           /\ \A i : Ahead(rest, i) => Ahead(todo, i)
    <3>1. Tail(todo) \in Seq(StepsAmong(T))
      BY <2>1
    <3> QED
      BY <2>1, <3>1, AheadFacts DEF Rest
  <2>3. ASSUME NEW script \in Seq(QuietAmong(T)), task'[t].todo = script \o rest
        PROVE  /\ task'[t].todo \in Seq(StepsAmong(T))
               /\ \A i : Ahead(task'[t].todo, i) => Ahead(todo, i)
    <3>1. script \in Seq(StepsAmong(T)) /\ script \in Seq(StepType)
      BY AheadFacts
    <3>2. script \o rest \in Seq(StepsAmong(T))
      BY <3>1, ConcatProperties
    <3> QED
      BY <2>2, <2>3, <3>1, <3>2, AheadFacts
  <2>4. CASE task'[t].todo = rest
    BY <2>1, <2>2, <2>4
  <2>5. CASE CheckName(t)
    <3>1. task'[t].todo = AvatarScript
      BY <2>5, TodoAfter DEF CheckName
    <3>2. Creates(t)
      BY <2>5, CheckNameSteps
    <3>3. AvatarScript \in Seq(QuietAmong(T))
      BY <3>2, ScriptsAmong DEF Trees
    <3> QED
      BY <1>1, <3>1, <3>3, AheadFacts
  <2>6. CASE PrepareStatic(t)
    <3>1. /\ Head(todo).op = "static" /\ Here(t) = Head(todo).at
          /\ task'[t].todo = rest \/ task'[t].todo = StaticScript(Here(t)[1]) \o rest
      BY <2>1, <2>2, <2>6, TodoAfter DEF PrepareStatic, On, Here
    <3>2. Here(t)[1] \in StaticSet \cap T
      <4>1. Here(t) \in {AgeInfo(i) : i \in T \cap StaticSet}
        BY <2>1, <3>1 DEF StepsAmong
      <4> QED
        BY <4>1 DEF AgeInfo
    <3>3. StaticScript(Here(t)[1]) \in Seq(QuietAmong(T))
      BY <3>2, ScriptsAmong
    <3> QED
      BY <2>1, <2>3, <2>4, <3>1, <3>3
  <2>7. CASE FindOrMakeNode(t)
    <3>1. /\ Head(todo).op = "findOrMake" /\ Here(t) = Head(todo).at
          /\ \/ task'[t].todo = rest
             \/ Matches(t, Here(t)) = {} /\ task'[t].todo = TreeScript(Here(t)) \o rest
      BY <2>1, <2>2, <2>7, TodoAfter DEF FindOrMakeNode, On, Here
    <3>2. CASE task'[t].todo = rest
      BY <2>4, <3>2
    <3>3. CASE Here(t) \in {System, AllPlayers} /\ task'[t].todo = TreeScript(Here(t)) \o rest
      <4>1. TreeScript(Here(t)) \in Seq(QuietAmong(T))
        BY <3>3, ScriptsAmong
      <4> QED
        BY <2>1, <2>3, <3>3, <4>1
    <3>4. ASSUME NEW i \in T, Here(t) = AgeInfo(i), Matches(t, Here(t)) = {},
                 Here(t) \notin {System, AllPlayers},
                 task'[t].todo = TreeScript(Here(t)) \o rest
          PROVE  /\ task'[t].todo \in Seq(StepsAmong(T))
                 /\ \A j : Ahead(task'[t].todo, j) => Ahead(todo, j) \/ j = i
      <4>1. TreeScript(Here(t)) = AgeScript(i)
        BY <3>4 DEF TreeScript, AgeInfo
      <4>2. i \in Tree
        <5>1. Here(t) \in Role
          BY <2>1, <3>1 DEF StepsAmong, StepType
        <5> QED
          BY <3>4, <5>1 DEF AgeInfo, Role
      <4>3. PICK script \in Seq(StepsAmong({i})) : script = AgeScript(i)
        BY <4>2, ScriptsAmong
      <4>4. script \in Seq(StepsAmong(T)) /\ script \in Seq(StepType)
        BY <4>2, <4>3, ScriptsAmong, AheadFacts
      <4>5. script \o rest \in Seq(StepsAmong(T))
        BY <4>4, ConcatProperties
      <4>6. \A j : Ahead(script, j) => j = i
        BY <4>3, AheadFacts
      <4>7. task'[t].todo = script \o rest
        BY <3>4, <4>1, <4>3
      <4>8. \A j : Ahead(script \o rest, j) => Ahead(script, j) \/ Ahead(rest, j)
        BY <2>2, <4>4, AheadFacts
      <4> QED
        BY <2>2, <4>5, <4>6, <4>7, <4>8
    <3>5. Here(t) \in {System, AllPlayers} \cup {AgeInfo(i) : i \in T}
      BY <2>1, <3>1 DEF StepsAmong
    <3> QED
      BY <2>1, <3>1, <3>2, <3>3, <3>4, <3>5
  <2>8. CASE MakeNode(t) \/ AddRef(t) \/ FindNode(t) \/ Publish(t)
    BY <2>2, <2>4, <2>8, TodoAfter DEF MakeNode, AddRef, FindNode, Publish
  <2>9. ~Fails(t)
    BY TodoAfter DEF Fails
  <2> QED
    BY <1>3, <2>5, <2>6, <2>7, <2>8, <2>9, FetchSteps, KickSteps, UnlinkSteps DEF MethodStep
<1> QED
  BY <1>2, <1>3

Info(t, i) == <<t, i, "ageInfo">>

\* A call that has made the Age Info node of a tree, or goes on to make it.
Makes(u, j) ==
    Info(u, j) \in nodes \/ (task[u].status = "running" /\ Ahead(task[u].todo, j))

\* While the server starts no call is under way.
StartsAlone ==
    \A b \in Task \ Call : task[b].status = "running" => b = Boot[boot] /\ UnderWay = {}

\* Who made a node has begun.
Makers == \A n \in nodes : n[1] \in Call => task[n[1]].status # "idle"

\* Whoever made an instance has met whoever makes another one with the same key.
InstancesMet ==
    \A t, u \in Task : \A i, j \in Tree :
        /\ <<t, i>> # <<u, j>> /\ Info(t, i) \in nodes /\ Makes(u, j)
        /\ KeyFor(t, i) = KeyFor(u, j)
        => t \in Call /\ u \in Call /\ u \in company[t]

InstanceInv == Tidy /\ StartsAlone /\ Makers /\ InstancesMet

LEMMA KeysDiffer ==
    /\ \A t \in Task : \A i, j \in Trees(t) : KeyFor(t, i) = KeyFor(t, j) => i = j
    /\ \A t \in Task : \A i \in Trees(t) : Sought(t, i) = KeyFor(t, i)
    /\ \A t, i : KeyOf(Info(t, i)) = KeyFor(t, i) /\ IsA(Info(t, i), "ageInfo")
    /\ \A i : AgeInfo(i)[1] = i /\ AgeInfo(i)[2] = "ageInfo"
<1>1. "relto" \notin StaticSet /\ "shared" \notin StaticSet
  BY TreesAssumption DEF TreesAssumption, StaticSet
<1>2. \A t \in Task : \A i \in Trees(t) : Sought(t, i) = KeyFor(t, i)
  BY <1>1 DEF Trees, Sought
<1>3. \A t \in Task : \A i, j \in Trees(t) : KeyFor(t, i) = KeyFor(t, j) => i = j
  BY DEF Trees, KeyFor
<1> QED
  BY <1>2, <1>3 DEF KeyOf, Info, IsA, AgeInfo

LEMMA KeysStay == load' = load => \A t, i : KeyFor(t, i)' = KeyFor(t, i)
BY DEF KeyFor

LEMMA TreesStay == load' = load => \A t : Trees(t)' = Trees(t)
BY DEF Trees, Creates

LEMMA InitInstances == Init => InstanceInv
<1> SUFFICES ASSUME Init PROVE InstanceInv
  OBVIOUS
<1>1. /\ task = [t \in Task |-> IF t = Boot[1] THEN Begun(SetupScript) ELSE Idle]
      /\ boot = 1 /\ nodes = {} /\ UnderWay = {} /\ Sound
  BY InitIdle, InitSound DEF Init
<1>2. \A t \in Task : task[t].status = "running" => t = Boot[1] /\ task[t].todo = SetupScript
  BY <1>1, IdleType, Begins, SetupScriptType, StepKinds
<1>3. Boot[1] \notin Call
  BY <1>1, <1>2, Known DEF Sound, TypeOK
<1>4. \A i : ~Ahead(SetupScript, i)
  BY ScriptsAmong, AheadFacts
<1>5. Tidy
  BY <1>2, <1>3, ScriptsAmong, AheadFacts DEF Tidy, Trees, Creates
<1> QED
  BY <1>1, <1>2, <1>4, <1>5 DEF InstanceInv, StartsAlone, Makers, InstancesMet, Makes

\* A step that makes no instance and goes to no search.
LEMMA InstancesKept ==
    ASSUME InstanceInv, load' = load,
           \A t \in Task, i \in Tree : Makes(t, i)' => Makes(t, i),
           \A t \in Task, i \in Tree : Info(t, i) \in nodes' => Info(t, i) \in nodes,
           \A t \in Call : \A i \in Tree : Info(t, i) \in nodes => company[t] \subseteq company'[t]
    PROVE  InstancesMet'
BY KeysStay DEF InstanceInv, InstancesMet

\* The Age Info nodes that a step of a method makes.
LEMMA MakesSteps ==
    ASSUME Sound, Tidy, NEW t \in Task, MethodStep(t), NEW u \in Task, NEW j \in Tree
    PROVE  /\ Info(u, j) \in nodes' => Info(u, j) \in nodes \/ (u = t /\ Makes(t, j))
           /\ Makes(u, j)' =>
                 \/ Makes(u, j)
                 \/ /\ u = t /\ j \in Trees(t) /\ Here(t) = AgeInfo(j)
                    /\ Matches(t, Here(t)) = {} /\ nodes' = nodes
<1>1. /\ Sound' /\ Others(t) /\ task[t].status = "running"
  BY MethodSteps DEF Stepped, Others
<1>2. Info(u, j) \in nodes' => Info(u, j) \in nodes \/ (u = t /\ Makes(t, j))
  <2>1. CASE MakeNode(t)
    <3>1. /\ nodes' = nodes \cup {<<t, Here(t)[1], Here(t)[2]>>}
          /\ Head(task[t].todo).op = "make" /\ Here(t) = Head(task[t].todo).at /\ Here(t) \in Role
      BY <2>1, MakeNodeSteps, Rests, <1>1 DEF MakeNode, On, Here
    <3>2. CASE Info(u, j) = <<t, Here(t)[1], Here(t)[2]>>
      <4>1. u = t /\ Here(t)[1] = j /\ Here(t)[2] = "ageInfo"
        BY <3>2 DEF Info
      <4>2. Here(t) = AgeInfo(j)
        BY <3>1, <4>1 DEF AgeInfo, Role
      <4>3. task[t].todo \in Seq(StepType) /\ task[t].todo # <<>>
        BY <1>1, Known DEF Sound, TaskState, Scripted, ScriptedOf
      <4>4. Ahead(task[t].todo, j)
        BY <3>1, <4>2, <4>3, AheadFacts
      <4> QED
        BY <1>1, <4>1, <4>4 DEF Makes
    <3> QED
      BY <3>1, <3>2
  <2>2. CASE ~MakeNode(t)
    <3>1. nodes' \subseteq nodes
      BY <2>2, BuildSteps, CheckNameSteps, FetchSteps, KickSteps, UnlinkSteps, FailsSteps
         DEF MethodStep
    <3> QED
      BY <3>1
  <2> QED
    BY <2>1, <2>2
<1>3. ASSUME Makes(u, j)', ~Makes(u, j)
      PROVE  /\ u = t /\ j \in Trees(t) /\ Here(t) = AgeInfo(j)
             /\ Matches(t, Here(t)) = {} /\ nodes' = nodes
  <2>1. Info(u, j) \notin nodes'
    BY <1>2, <1>3 DEF Makes
  <2>2. Info(u, j)' = Info(u, j)
    BY DEF Info
  <2>3. task'[u].status = "running" /\ Ahead(task'[u].todo, j)
    <3>1. (task[u].status = "running")' /\ Ahead(task[u].todo, j)'
      BY <1>3, <2>1, <2>2 DEF Makes
    <3> QED
      BY <3>1 DEF Ahead, AgeInfo
  <2>4. u = t
    BY <1>1, <1>3, <2>3 DEF Others, Makes
  <2>5. /\ Head(task[t].todo).op = "findOrMake" /\ Here(t) = AgeInfo(j)
        /\ j \in Trees(t) /\ Matches(t, Here(t)) = {}
    BY <1>1, <1>3, <2>3, <2>4, TodoSteps DEF Makes
  <2>6. FindOrMakeNode(t) \/ Fails(t)
    BY <2>5 DEF MethodStep, MakeNode, AddRef, FindNode, CheckName, PrepareStatic, Publish,
                FetchPlayer, KickPlayer, SetOffline, QueryChildren, NextChild, RemoveRef,
                DeleteNode, On
  <2>7. nodes' = nodes
    BY <2>6, BuildSteps, FailsSteps
  <2> QED
    BY <2>4, <2>5, <2>7
<1> QED
  BY <1>2, <1>3

\* A step of a method: what is made was not there when it was looked for.
LEMMA MethodInstances ==
    ASSUME Sound, Overlaps, InstanceInv, NEW x \in Task, MethodStep(x)
    PROVE  InstanceInv'
<1>1. /\ Sound' /\ Others(x) /\ task[x].status = "running"
      /\ UNCHANGED <<load, boot, company>>
  BY MethodSteps, MethodFrame DEF Stepped, Others
<1>2. \A t \in Task : /\ task'[t].status = "running" => task[t].status = "running"
                      /\ task'[t].status = "idle" => task[t].status = "idle"
                      /\ t # x => task'[t] = task[t]
  BY <1>1 DEF Others
<1>3. Tidy'
  <2>1. ASSUME NEW t \in Task, task'[t].status = "running"
        PROVE  task'[t].todo \in Seq(StepsAmong(Trees(t)))
    BY <1>2, <2>1, TodoSteps DEF InstanceInv, Tidy
  <2>2. \A t : (Trees(t)' = Trees(t))
    BY <1>1, TreesStay
  <2> QED
    BY <2>1, <2>2 DEF Tidy, StepsAmong
<1>4. StartsAlone'
  <2>1. UnderWay' \subseteq UnderWay
    BY <1>2, Known DEF UnderWay, Sound
  <2> QED
    BY <1>1, <1>2, <2>1 DEF InstanceInv, StartsAlone
<1>5. Makers'
  <2>1. \A n \in nodes' : n \in nodes \/ n[1] = x
    <3>1. CASE MakeNode(x)
      BY <3>1, MakeNodeSteps
    <3>2. CASE ~MakeNode(x)
      BY <3>2, BuildSteps, CheckNameSteps, FetchSteps, KickSteps, UnlinkSteps, FailsSteps
         DEF MethodStep
    <3> QED
      BY <3>1, <3>2
  <2>2. task'[x].status # "idle"
    BY <1>1 DEF Others
  <2> QED
    BY <1>2, <2>1, <2>2, Known DEF InstanceInv, Makers, Sound
<1>6. ASSUME NEW t \in Task, NEW u \in Task, NEW i \in Tree, NEW j \in Tree, <<t, i>> # <<u, j>>,
             Info(t, i) \in nodes', Makes(u, j)', KeyFor(t, i) = KeyFor(u, j)
      PROVE  t \in Call /\ u \in Call /\ u \in company[t]
  <2>1. CASE Info(t, i) \in nodes
    <3>1. CASE Makes(u, j)
      BY <1>6, <2>1, <3>1 DEF InstanceInv, InstancesMet
    <3>2. CASE j \in Trees(u) /\ Here(u) = AgeInfo(j) /\ Matches(u, Here(u)) = {}
      <4>1. KeyOf(Info(t, i)) = Sought(u, j) /\ IsA(Info(t, i), "ageInfo")
        BY <1>6, <3>2, KeysDiffer
      <4>2. Info(t, i) \in Matches(u, AgeInfo(j))
        BY <2>1, <4>1, KeysDiffer DEF Matches
      <4> QED
        BY <3>2, <4>2
    <3> QED
      BY <1>6, <3>1, <3>2, MakesSteps DEF InstanceInv
  <2>2. CASE Info(t, i) \notin nodes
    <3>1. t = x /\ Makes(t, i) /\ task[t].status = "running" /\ Ahead(task[t].todo, i)
      BY <1>6, <2>2, MakesSteps DEF InstanceInv, Makes
    <3>2. Makes(u, j)
      BY <1>6, <2>2, MakesSteps DEF InstanceInv
    <3>3. CASE Info(u, j) \in nodes
      BY <1>6, <3>1, <3>3 DEF InstanceInv, InstancesMet, Overlaps
    <3>4. CASE Info(u, j) \notin nodes
      <4>1. task[u].status = "running" /\ Ahead(task[u].todo, j)
        BY <3>2, <3>4 DEF Makes
      <4>2. i \in Trees(t) /\ j \in Trees(u)
        BY <3>1, <4>1, AheadFacts DEF InstanceInv, Tidy
      <4>3. t # u
        BY <1>6, <4>2, KeysDiffer
      <4>4. t \in Call /\ u \in Call
        BY <3>1, <4>1, <4>3 DEF InstanceInv, StartsAlone, UnderWay
      <4> QED
        BY <3>1, <4>1, <4>3, <4>4 DEF Overlaps, UnderWay
    <3> QED
      BY <3>3, <3>4
  <2> QED
    BY <2>1, <2>2
<1>7. InstancesMet'
  <2>1. \A t, i : (Info(t, i)' = Info(t, i)) /\ (KeyFor(t, i)' = KeyFor(t, i))
    BY <1>1, KeysStay DEF Info
  <2> QED
    BY <1>1, <1>6, <2>1 DEF InstancesMet
<1> QED
  BY <1>3, <1>4, <1>5, <1>7 DEF InstanceInv

\* A request that begins makes nothing yet, and has made nothing.
LEMMA ArriveInstances ==
    ASSUME Sound, InstanceInv, NEW x \in Call, Arrive(x)
    PROVE  InstanceInv'
<1>1. /\ task[x].status = "idle" /\ task'[x].status = "running"
      /\ \A u \in Task \ {x} : task'[u] = task[u]
      /\ UNCHANGED <<load, boot, nodes>> /\ x \in Task
  BY ArriveTask, ArriveSteps, Known DEF Sound
<1>2. task'[x].todo \in Seq(QuietAmong(Trees(x)))
  <2>1. CASE Creates(x)
    <3>1. task'[x].todo = <<Step("name", Player)>>
      BY <2>1, ArriveTask
    <3>2. Step("name", Player) \in QuietAmong(Trees(x))
      <4>1. Step("name", Player).op = "name"
        BY DEF Step
      <4> QED
        BY <4>1, StepKinds DEF QuietAmong, StepsAmong, MakesInfo
    <3> QED
      BY <3>1, <3>2
  <2>2. CASE Deletes(x)
    BY <2>2, ArriveTask, ScriptsAmong DEF DeletionTodos
  <2>3. CASE ~Creates(x) /\ ~Deletes(x)
    <3>1. task'[x].todo = <<FindOrMake(AgeInfo("shared"))>>
      BY <2>3, ArriveTask
    <3>2. FindOrMake(AgeInfo("shared")) \in QuietAmong(Trees(x))
      <4>1. AgeInfo("shared") \in Role /\ "shared" \in Trees(x)
        BY <2>3, Roles DEF AgeInfo, Trees
      <4> QED
        BY <4>1, AmongSteps
    <3> QED
      BY <3>1, <3>2
  <2> QED
    BY <2>1, <2>2, <2>3
<1>3. Tidy'
  <2>1. \A t : (Trees(t)' = Trees(t))
    BY <1>1, TreesStay
  <2>2. \A t \in Task : task'[t].status = "running" =>
            task'[t].todo \in Seq(StepsAmong(Trees(t)))
    BY <1>1, <1>2, AheadFacts DEF InstanceInv, Tidy
  <2> QED
    BY <2>1, <2>2 DEF Tidy, StepsAmong
<1>4. StartsAlone'
  <2>1. task[Boot[boot]].status = "returned"
    BY DEF Arrive, Up
  <2> QED
    BY <1>1, <2>1 DEF InstanceInv, StartsAlone
<1>5. Makers'
  BY <1>1, Known DEF InstanceInv, Makers, Sound
<1>6. ASSUME NEW t \in Task, NEW i \in Tree, Makes(t, i)' PROVE Makes(t, i)
  <2>1. ~Ahead(task'[x].todo, i)
    BY <1>2, AheadFacts
  <2>2. Info(t, i) \in nodes' \/ (task'[t].status = "running" /\ Ahead(task'[t].todo, i))
    BY <1>6 DEF Makes, Info, Ahead, AgeInfo
  <2> QED
    BY <1>1, <2>1, <2>2 DEF Makes
<1>7. ASSUME NEW t \in Call, NEW i \in Tree, Info(t, i) \in nodes
      PROVE  company[t] \subseteq company'[t]
  <2>1. t # x
    BY <1>1, <1>7 DEF InstanceInv, Makers, Info
  <2> QED
    BY <2>1 DEF Arrive
<1>8. InstancesMet'
  BY <1>1, <1>6, <1>7, InstancesKept
<1> QED
  BY <1>3, <1>4, <1>5, <1>8 DEF InstanceInv

LEMMA InstancesStep == Sound /\ Overlaps /\ InstanceInv /\ [Next]_vars => InstanceInv'
<1> SUFFICES ASSUME Sound, Overlaps, InstanceInv, [Next]_vars PROVE InstanceInv'
  OBVIOUS
<1>1. ASSUME UNCHANGED <<load, boot, task, company>>,
             \A n \in nodes' : n \in nodes \/ (n[3] # "ageInfo" /\ \E p \in nodes : n[1] = p[1])
      PROVE  InstanceInv'
  <2>1. \A t : (Trees(t)' = Trees(t))
    BY <1>1, TreesStay
  <2>2. Tidy'
    BY <1>1, <2>1 DEF InstanceInv, Tidy, StepsAmong
  <2>3. StartsAlone' /\ Makers'
    BY <1>1 DEF InstanceInv, StartsAlone, Makers, UnderWay
  <2>4. \A t \in Task, i \in Tree : Info(t, i) \in nodes' => Info(t, i) \in nodes
    BY <1>1 DEF Info
  <2>5. \A t \in Task, i \in Tree : Makes(t, i)' => Makes(t, i)
    BY <1>1, <2>4 DEF Makes, Info, Ahead, AgeInfo
  <2>6. InstancesMet'
    BY <1>1, <2>4, <2>5, InstancesKept
  <2> QED
    BY <2>2, <2>3, <2>6 DEF InstanceInv
<1>2. CASE UNCHANGED vars
  BY <1>1, <1>2 DEF vars
<1>3. CASE \E t \in Task : MethodStep(t)
  BY <1>3, MethodInstances
<1>4. CASE \E t \in Call : Arrive(t)
  BY <1>4, ArriveInstances
<1>5. CASE \/ \E u \in Call : Select(u)
           \/ \E p \in playing : Leave(p) \/ AddChild(p)
           \/ \E n \in nodes : Meddle(n)
  <2>1. UNCHANGED <<load, boot, task, company>>
    BY <1>5, ClientSteps
  <2>2. \A n \in nodes' : n \in nodes \/ (n[3] # "ageInfo" /\ \E p \in nodes : n[1] = p[1])
    <3>1. ASSUME NEW p \in playing, AddChild(p)
          PROVE  nodes' = nodes \cup {Extra(p)} /\ p \in nodes
      BY <3>1 DEF AddChild
    <3>2. \A p : Extra(p)[1] = p[1] /\ Extra(p)[3] # "ageInfo"
      BY DEF Extra
    <3>3. nodes' = nodes \/ \E p \in playing : AddChild(p)
      BY <1>5 DEF Select, Leave, Meddle
    <3> QED
      BY <3>1, <3>2, <3>3
  <2> QED
    BY <1>1, <2>1, <2>2
<1>6. CASE Restart
  <2>1. /\ UNCHANGED <<load, nodes, company>>
        /\ \A t \in Call : task'[t].status # "running"
        /\ \A t \in Call : task'[t].status = "idle" => task[t].status = "idle"
        /\ \A t \in Task : task'[t].status = "running" =>
              t = Boot[boot'] /\ t \notin Call /\ task'[t].todo = SetupScript
    BY <1>6, RestartSteps
  <2>2. \A t : (Trees(t)' = Trees(t))
    BY <2>1, TreesStay
  <2>3. Tidy'
    <3>1. \A t \in Task : task'[t].status = "running" =>
              task'[t].todo \in Seq(StepsAmong(Trees(t)))
      BY <2>1, ScriptsAmong, AheadFacts DEF Trees, Creates
    <3> QED
      BY <2>2, <3>1 DEF Tidy, StepsAmong
  <2>4. StartsAlone' /\ Makers'
    BY <2>1 DEF InstanceInv, StartsAlone, Makers, UnderWay
  <2>5. ASSUME NEW t \in Task, NEW i \in Tree, Makes(t, i)' PROVE Makes(t, i)
    <3>1. ~Ahead(SetupScript, i)
      BY ScriptsAmong, AheadFacts
    <3> QED
      BY <2>1, <2>5, <3>1 DEF Makes, Info, Ahead, AgeInfo
  <2>6. InstancesMet'
    BY <2>1, <2>5, InstancesKept
  <2> QED
    BY <2>3, <2>4, <2>6 DEF InstanceInv
<1> QED
  BY <1>2, <1>3, <1>4, <1>5, <1>6 DEF Next

\* Two age instances with one UUID and one file name were made by two requests at the same
\* time, and neither by the server's start: create_age_instance and
\* setup_static_age_instance find what exists, across failures, crashes and restarts.
THEOREM InstancesOverlapped == Spec => []SameInstanceMeansOverlap
<1>1. Sound /\ InstanceInv => SameInstanceMeansOverlap
  <2> SUFFICES ASSUME Sound, InstanceInv, NEW m \in nodes, NEW n \in nodes, m # n,
                      IsA(m, "ageInfo"), IsA(n, "ageInfo"), KeyOf(m) = KeyOf(n)
               PROVE  {m[1], n[1]} \subseteq Call /\ n[1] \in company[m[1]]
    BY DEF SameInstanceMeansOverlap
  <2>1. /\ m = Info(m[1], m[2]) /\ m[1] \in Task /\ m[2] \in Tree
        /\ n = Info(n[1], n[2]) /\ n[1] \in Task /\ n[2] \in Tree
    BY DEF Sound, TypeOK, Node, Info, IsA
  <2>2. <<m[1], m[2]>> # <<n[1], n[2]>> /\ Makes(n[1], n[2])
    BY <2>1 DEF Makes, Info
  <2>3. KeyFor(m[1], m[2]) = KeyFor(n[1], n[2])
    BY DEF KeyOf
  <2> QED
    BY <2>1, <2>2, <2>3 DEF InstanceInv, InstancesMet
<1>2. NameInv => Overlaps
  BY DEF NameInv
<1> QED
  BY <1>1, <1>2, SpecSound, InitNames, NamesStep, InitInstances, InstancesStep, PTL DEF Spec

-----------------------------------------------------------------------------
(* The static instances.  What a start finds or makes has the key that it   *)
(* stands for, and a start chooses an instance that is public, or makes the *)
(* first one.                                                              *)

\* What a start has found.
FoundRight ==
    \A t \in Task \ Call : \A i : \A n :
        <<AgeInfo(i), n>> \in task[t].found =>
            KeyOf(n) = KeyFor(t, i) /\ IsA(n, "ageInfo")

Touches(s, i) == s.op \in {"findOrMake", "make", "publish"} /\ s.at = AgeInfo(i)

\* A start that goes on to find, make or publish the instance.
Pending(t, i) ==
    /\ t \in Task \ Call /\ task[t].status = "running"
    /\ \E k \in 1..Len(task[t].todo) : Touches(task[t].todo[k], i)

ChoiceOf(i) ==
    /\ i \notin AutoUuid => instance[i] \in {None, Config}
    /\ i \in AutoUuid =>
          /\ \A m, n \in PublicInstances(i) : KeyOf(m) = KeyOf(n)
          /\ instance[i] # None => \E n \in PublicInstances(i) : KeyOf(n)[1] = instance[i]
          /\ \A t \in Task : Pending(t, i) =>
                \A n \in PublicInstances(i) : KeyOf(n) = <<t, i>>

Choice == meddled = {} => \A i \in StaticSet : ChoiceOf(i)

ChoiceInv == FoundRight /\ Choice

Touched(todo, i) == \E k \in 1..Len(todo) : Touches(todo[k], i)

LEMMA TouchedFacts ==
    /\ \A trees : \A todo \in Seq(StepsAmong(trees)) : \A i : Touched(todo, i) => i \in trees
    /\ \A s, u \in Seq(StepType) : \A i : Touched(s \o u, i) => Touched(s, i) \/ Touched(u, i)
    /\ \A s \in Seq(StepType) : \A i : s # <<>> /\ Touched(Tail(s), i) => Touched(s, i)
    /\ \A s \in Seq(StepType) : \A i : s # <<>> /\ Touches(Head(s), i) => Touched(s, i)
    /\ \A i : ~Touched(SetupScript, i)
<1>0. /\ \A i : AgeInfo(i)[1] = i /\ AgeInfo(i)[2] = "ageInfo"
      /\ \A i : AgeInfo(i) \notin {System, AllPlayers}
  BY DEF AgeInfo, System, AllPlayers
<1>1. ASSUME NEW trees, NEW todo \in Seq(StepsAmong(trees)), NEW i, Touched(todo, i)
      PROVE  i \in trees
  <2>1. PICK k \in 1..Len(todo) : Touches(todo[k], i)
    BY <1>1 DEF Touched
  <2>2. todo[k] \in StepsAmong(trees)
    OBVIOUS
  <2> QED
    BY <1>0, <2>1, <2>2 DEF StepsAmong, MakesInfo, Touches
<1>2. ASSUME NEW s \in Seq(StepType), NEW u \in Seq(StepType), NEW i, Touched(s \o u, i)
      PROVE  Touched(s, i) \/ Touched(u, i)
  <2>1. PICK k \in 1..Len(s \o u) : Touches((s \o u)[k], i)
    BY <1>2 DEF Touched
  <2>2. CASE k <= Len(s)
    <3>1. k \in 1..Len(s) /\ (s \o u)[k] = s[k]
      BY <2>2
    <3> QED
      BY <2>1, <3>1 DEF Touched
  <2>3. CASE k > Len(s)
    <3>1. k - Len(s) \in 1..Len(u) /\ (s \o u)[k] = u[k - Len(s)]
      BY <2>3
    <3> QED
      BY <2>1, <3>1 DEF Touched
  <2> QED
    BY <2>2, <2>3
<1>3. ASSUME NEW s \in Seq(StepType), NEW i, s # <<>>, Touched(Tail(s), i)
      PROVE  Touched(s, i)
  <2>1. PICK k \in 1..Len(Tail(s)) : Touches(Tail(s)[k], i)
    BY <1>3 DEF Touched
  <2>2. k + 1 \in 1..Len(s) /\ Tail(s)[k] = s[k + 1]
    BY <1>3
  <2> QED
    BY <2>1, <2>2 DEF Touched
<1>4. ASSUME NEW s \in Seq(StepType), NEW i, s # <<>>, Touches(Head(s), i)
      PROVE  Touched(s, i)
  <2>1. 1 \in 1..Len(s) /\ s[1] = Head(s)
    BY <1>4
  <2> QED
    BY <1>4, <2>1 DEF Touched
<1>5. ASSUME NEW i, Touched(SetupScript, i) PROVE FALSE
  <2> DEFINE S == {s \in StepType : \A j : ~Touches(s, j)}
  <2>1. FindOrMake(System) \in S /\ FindOrMake(AllPlayers) \in S
    <3>1. System \in Role /\ AllPlayers \in Role
      BY Roles DEF System, AllPlayers
    <3> QED
      BY <1>0, <3>1, MakeSteps, AmongSteps DEF FindOrMake, Step, Touches, StepType, Op
  <2>2. \A j \in StaticSet : Step("static", AgeInfo(j)) \in S
    <3>1. \A j \in StaticSet : AgeInfo(j) \in Role
      BY Roles DEF AgeInfo
    <3> QED
      BY <3>1 DEF Step, Touches, StepType, Op
  <2>3. SetupScript \in Seq(S)
    BY <2>1, <2>2, SetupScriptIn
  <2>4. PICK k \in 1..Len(SetupScript) : Touches(SetupScript[k], i)
    BY <1>5 DEF Touched
  <2>5. SetupScript[k] \in S
    BY <2>3
  <2> QED
    BY <2>4, <2>5
<1> QED
  BY <1>1, <1>2, <1>3, <1>4, <1>5

\* The instance that a start handles has the key that the start looks for.
LEMMA StartsAt ==
    ASSUME Sound, FoundRight, NEW t \in Task \ Call, NEW i \in StaticSet
    PROVE  /\ KeyOf(At(t, AgeInfo(i))) = KeyFor(t, i) /\ IsA(At(t, AgeInfo(i)), "ageInfo")
           /\ KeyFor(t, i) = IF i \in AutoUuid THEN <<t, i>> ELSE <<Config, i>>
<1>1. KeyFor(t, i) = IF i \in AutoUuid THEN <<t, i>> ELSE <<Config, i>>
  BY DEF KeyFor
<1> DEFINE found == {f \in task[t].found : f[1] = AgeInfo(i)}
<1>2. CASE found = {}
  <2>1. At(t, AgeInfo(i)) = Info(t, i)
    BY <1>2 DEF At, AgeInfo, Info
  <2> QED
    BY <1>1, <2>1, KeysDiffer
<1>3. CASE found # {}
  <2>1. PICK f \in found : At(t, AgeInfo(i)) = f[2]
    BY <1>3 DEF At
  <2>2. f \in Role \X Node
    BY Known DEF Sound, TaskState
  <2>3. f = <<AgeInfo(i), f[2]>> /\ f \in task[t].found
    BY <2>1, <2>2
  <2>4. <<AgeInfo(i), f[2]>> \in task[t].found
    BY <2>3
  <2> QED
    BY <1>1, <2>1, <2>4 DEF FoundRight
<1> QED
  BY <1>2, <1>3

\* A start only builds.
LEMMA StartSteps ==
    ASSUME Sound, NEW t \in Task \ Call, MethodStep(t)
    PROVE  \/ MakeNode(t) \/ AddRef(t) \/ FindNode(t) \/ FindOrMakeNode(t)
           \/ PrepareStatic(t) \/ Publish(t) \/ Fails(t)
BY CheckNameSteps, FetchSteps, KickSteps, UnlinkSteps DEF MethodStep, Creates, Deletes

LEMMA FoundAfter ==
    Sound => \A t \in Task :
        /\ \A todo : GoOn(t, todo) => task'[t].found = task[t].found
        /\ \A r, n : GoOnWith(t, r, n) => task'[t].found = task[t].found \cup {<<r, n>>}
        /\ \A status : End(t, status) => task'[t].found = task[t].found
BY Known DEF Sound, GoOn, GoOnWith, End, Going, TaskState

LEMMA FoundSteps ==
    ASSUME Sound, FoundRight, NEW t \in Task \ Call, MethodStep(t), NEW i, NEW n,
           <<AgeInfo(i), n>> \in task'[t].found
    PROVE  KeyOf(n) = KeyFor(t, i) /\ IsA(n, "ageInfo")
<1>1. CASE <<AgeInfo(i), n>> \in task[t].found
  BY <1>1 DEF FoundRight
<1>2. CASE \E q \in Matches(t, Here(t)) : GoOnWith(t, Here(t), q)
  <2>1. CASE <<AgeInfo(i), n>> \notin task[t].found
    <3>1. Here(t) = AgeInfo(i) /\ n \in Matches(t, AgeInfo(i))
      BY <1>2, <2>1, FoundAfter
    <3>2. IsA(n, "ageInfo") /\ KeyOf(n) = Sought(t, i)
      BY <3>1, KeysDiffer DEF Matches
    <3> QED
      BY <3>2 DEF Sought
  <2> QED
    BY <1>1, <2>1
<1>3. CASE \E todo : GoOn(t, todo)
  BY <1>1, <1>3, FoundAfter
<1>4. CASE \E status : End(t, status)
  BY <1>1, <1>4, FoundAfter
<1> QED
  BY <1>2, <1>3, <1>4, StartSteps
     DEF MakeNode, AddRef, FindNode, FindOrMakeNode, PrepareStatic, Publish, Fails

\* What a start goes on to find or make, it has begun with when there was nothing public.
LEMMA PendingSteps ==
    ASSUME Sound, Tidy, NEW t \in Task \ Call, MethodStep(t), NEW i,
           task'[t].status = "running", Touched(task'[t].todo, i)
    PROVE  \/ Touched(task[t].todo, i)
           \/ PrepareStatic(t) /\ UNCHANGED <<public, instance>>
                 /\ (i \in AutoUuid => PublicInstances(i) = {})
<1>1. task[t].status = "running"
  BY MethodSteps DEF Stepped, Others
<1>2. PICK todo \in Seq(StepType) : /\ todo = task[t].todo /\ todo # <<>>
                                    /\ Head(todo) \in StepsAmong(StaticSet)
  <2>1. task[t].todo \in Seq(StepsAmong(StaticSet)) /\ task[t].todo # <<>>
    BY <1>1 DEF Tidy, Trees, Creates, Sound, Scripted, ScriptedOf
  <2>2. task[t].todo \in Seq(StepType)
    BY <2>1, AheadFacts
  <2> QED
    BY <2>1, <2>2
<1>3. PICK rest \in Seq(StepType) : rest = Rest(t) /\ (Touched(rest, i) => Touched(todo, i))
  <2>1. Tail(todo) \in Seq(StepType) /\ Tail(todo) = Rest(t)
    BY <1>2 DEF Rest
  <2>2. Touched(Tail(todo), i) => Touched(todo, i)
    BY <1>2, TouchedFacts
  <2> QED
    BY <2>1, <2>2
<1>4. CASE task'[t].todo = rest
  BY <1>2, <1>3, <1>4
<1>5. ASSUME NEW trees, NEW script \in Seq(StepsAmong(trees)), task'[t].todo = script \o rest
      PROVE  Touched(task[t].todo, i) \/ i \in trees
  <2>1. script \in Seq(StepType)
    BY AheadFacts
  <2>2. Touched(script, i) \/ Touched(rest, i)
    BY <1>5, <2>1, TouchedFacts
  <2> QED
    BY <1>2, <1>3, <2>2, TouchedFacts
<1>6. CASE FindOrMakeNode(t)
  <2>1. /\ Head(todo).op = "findOrMake" /\ Here(t) = Head(todo).at
        /\ task'[t].todo = rest \/ task'[t].todo = TreeScript(Here(t)) \o rest
    BY <1>2, <1>3, <1>6, TodoAfter DEF FindOrMakeNode, On, Here
  <2>2. CASE Here(t) \in {System, AllPlayers} /\ task'[t].todo = TreeScript(Here(t)) \o rest
    <3>1. TreeScript(Here(t)) \in Seq(StepsAmong({}))
      BY <2>2, ScriptsAmong, AheadFacts
    <3> QED
      BY <1>5, <2>2, <3>1
  <2>3. ASSUME NEW j \in StaticSet, Here(t) = AgeInfo(j), Here(t) \notin {System, AllPlayers},
               task'[t].todo = TreeScript(Here(t)) \o rest
        PROVE  Touched(task[t].todo, i)
    <3>1. TreeScript(Here(t)) = AgeScript(j)
      BY <2>3 DEF TreeScript, AgeInfo
    <3>2. AgeScript(j) \in Seq(StepsAmong({j}))
      BY Roles, ScriptsAmong
    <3>3. Touches(Head(todo), j)
      BY <2>1, <2>3 DEF Touches
    <3> QED
      BY <1>2, <1>5, <2>3, <3>1, <3>2, <3>3, TouchedFacts, SMTT(30)
  <2> QED
    BY <1>2, <1>4, <2>1, <2>2, <2>3 DEF StepsAmong
<1>7. CASE PrepareStatic(t)
  <2>1. /\ Head(todo).op = "static" /\ Here(t) = Head(todo).at
        /\ \/ task'[t].todo = rest
           \/ /\ Here(t)[1] \in AutoUuid => PublicInstances(Here(t)[1]) = {}
              /\ task'[t].todo = StaticScript(Here(t)[1]) \o rest
              /\ UNCHANGED <<public, instance>>
    BY <1>2, <1>3, <1>7, TodoAfter DEF PrepareStatic, On, Here
  <2>2. PICK j \in StaticSet : Here(t)[1] = j
    <3>1. Here(t) \in {AgeInfo(j) : j \in StaticSet \cap StaticSet}
      BY <1>2, <2>1 DEF StepsAmong
    <3> QED
      BY <3>1 DEF AgeInfo
  <2>3. StaticScript(j) \in Seq(StepsAmong({j}))
    BY ScriptsAmong, AheadFacts
  <2> QED
    BY <1>4, <1>5, <1>7, <2>1, <2>2, <2>3
<1>8. CASE MakeNode(t) \/ AddRef(t) \/ FindNode(t) \/ Publish(t)
  BY <1>3, <1>4, <1>8, TodoAfter DEF MakeNode, AddRef, FindNode, Publish
<1>9. ~Fails(t)
  BY TodoAfter DEF Fails
<1> QED
  BY <1>6, <1>7, <1>8, <1>9, StartSteps

LEMMA InitChoice == Init => ChoiceInv
<1> SUFFICES ASSUME Init PROVE ChoiceInv
  OBVIOUS
<1>1. /\ task = [t \in Task |-> IF t = Boot[1] THEN Begun(SetupScript) ELSE Idle]
      /\ public = {} /\ instance = [i \in StaticSet |-> None]
  BY DEF Init
<1>2. \A t \in Task : /\ task[t].status = "running" => task[t].todo = SetupScript
                      /\ task[t].found = {}
  BY <1>1, IdleType, Begins, SetupScriptType, StepKinds
<1>3. \A t \in Task, i \in StaticSet : ~Pending(t, i)
  BY <1>2, TouchedFacts DEF Pending, Touched
<1> QED
  BY <1>1, <1>2, <1>3 DEF ChoiceInv, FoundRight, Choice, ChoiceOf, PublicInstances

LEMMA PublicStay ==
    load' = load /\ public' = public => \A i : PublicInstances(i)' = PublicInstances(i)
BY DEF PublicInstances, KeyOf, KeyFor, IsA

LEMMA KeyOfStay == load' = load => \A n : KeyOf(n)' = KeyOf(n)
BY DEF KeyOf, KeyFor

\* A step that touches no instance.
LEMMA ChoiceKept ==
    ASSUME Choice, UNCHANGED <<load, public, instance>>, meddled \subseteq meddled',
           \A t \in Task, i \in StaticSet : Pending(t, i)' => Pending(t, i)
    PROVE  Choice'
<1>1. \A i : PublicInstances(i)' = PublicInstances(i)
  BY PublicStay
<1>2. \A n : KeyOf(n)' = KeyOf(n)
  BY KeyOfStay
<1>3. \A i \in StaticSet : ChoiceOf(i) => ChoiceOf(i)'
  BY <1>1, <1>2 DEF ChoiceOf
<1> QED
  BY <1>3 DEF Choice

\* A request does not make or publish a static instance.
LEMMA CallChoice ==
    ASSUME Sound, InstanceInv, NEW t \in Call, MethodStep(t)
    PROVE  UNCHANGED <<public, instance>>
<1>1. task[t].status = "running" /\ t \in Task
  BY MethodSteps, Known DEF Stepped, Others, Sound
<1>2. Head(task[t].todo) \in StepsAmong(Trees(t)) /\ Trees(t) \cap StaticSet = {}
  <2>1. task[t].todo \in Seq(StepsAmong(Trees(t))) /\ task[t].todo # <<>>
    BY <1>1 DEF InstanceInv, Tidy, Sound, Scripted, ScriptedOf
  <2>2. "relto" \notin StaticSet /\ "shared" \notin StaticSet
    BY TreesAssumption DEF TreesAssumption, StaticSet
  <2> QED
    BY <2>1, <2>2 DEF Trees
<1>3. Head(task[t].todo).op \notin {"static", "publish"}
  BY <1>2 DEF StepsAmong
<1>4. ~PrepareStatic(t) /\ ~Publish(t)
  BY <1>3 DEF PrepareStatic, Publish, On
<1>5. CASE MakeNode(t)
  <2>1. Here(t)[2] = "ageInfo" => Here(t)[1] \notin StaticSet
    BY <1>2, <1>5 DEF MakeNode, On, StepsAmong, MakesInfo, Here
  <2> QED
    BY <1>5, <2>1 DEF MakeNode, IsA, Server
<1> QED
  BY <1>4, <1>5
     DEF MethodStep, AddRef, FindNode, FindOrMakeNode, CheckName, FetchPlayer, KickPlayer,
         SetOffline, QueryChildren, NextChild, RemoveRef, DeleteNode, Fails, Server

\* What a start does to the instances, all in all.
LEMMA StartChoice ==
    ASSUME Sound, InstanceInv, ChoiceInv, NEW t \in Task \ Call, MethodStep(t)
    PROVE  \/ UNCHANGED <<public, instance>>
           \/ \E i \in StaticSet \cap AutoUuid : \E n \in PublicInstances(i) :
                 public' = public /\ instance' = [instance EXCEPT ![i] = KeyOf(n)[1]]
           \/ \E i \in StaticSet : \E n :
                 /\ Touched(task[t].todo, i) /\ public' = public \cup {n}
                 /\ IsA(n, "ageInfo") /\ KeyOf(n) = KeyFor(t, i)
                 /\ instance' = instance \/ instance' = [instance EXCEPT ![i] = KeyFor(t, i)[1]]
<1>1. task[t].status = "running"
  BY MethodSteps DEF Stepped, Others
<1>2. PICK todo \in Seq(StepType) : /\ todo = task[t].todo /\ todo # <<>>
                                    /\ Head(todo) \in StepsAmong(StaticSet)
  <2>1. task[t].todo \in Seq(StepsAmong(StaticSet)) /\ task[t].todo # <<>>
    BY <1>1 DEF InstanceInv, Tidy, Trees, Creates, Sound, Scripted, ScriptedOf
  <2>2. task[t].todo \in Seq(StepType)
    BY <2>1, AheadFacts
  <2> QED
    BY <2>1, <2>2
<1>3. CASE MakeNode(t)
  <2> DEFINE n == <<t, Here(t)[1], Here(t)[2]>>
  <2>1. /\ instance' = instance /\ Head(todo).op = "make" /\ Here(t) = Head(todo).at
        /\ public' = IF IsA(n, "ageInfo") /\ n[2] \in StaticSet THEN public \cup {n} ELSE public
    BY <1>2, <1>3 DEF MakeNode, On, Here, Server
  <2>2. CASE IsA(n, "ageInfo") /\ n[2] \in StaticSet
    <3>1. PICK i \in StaticSet : i = Here(t)[1] /\ Here(t)[2] = "ageInfo"
      BY <2>2 DEF IsA
    <3>2. n = Info(t, i)
      BY <3>1 DEF Info
    <3>3. Here(t) = AgeInfo(i)
      <4>1. Here(t) \in Role
        BY <1>1, Rests
      <4> QED
        BY <3>1, <4>1 DEF Role, AgeInfo
    <3>4. Touched(todo, i)
      BY <1>2, <2>1, <3>3, TouchedFacts DEF Touches
    <3>5. IsA(n, "ageInfo") /\ KeyOf(n) = KeyFor(t, i)
      BY <3>2, KeysDiffer
    <3> QED
      BY <1>2, <2>1, <2>2, <3>4, <3>5
  <2> QED
    BY <2>1, <2>2
<1>4. CASE PrepareStatic(t)
  <2>1. Here(t)[1] \in StaticSet
    <3>1. Here(t) \in {AgeInfo(j) : j \in StaticSet \cap StaticSet}
      BY <1>2, <1>4 DEF PrepareStatic, On, Here, StepsAmong
    <3> QED
      BY <3>1 DEF AgeInfo
  <2> QED
    BY <1>4, <2>1 DEF PrepareStatic
<1>5. CASE Publish(t)
  <2>1. /\ Head(todo).op = "publish" /\ Here(t) = Head(todo).at
        /\ public' = public \cup {At(t, Here(t))}
        /\ instance' = [instance EXCEPT ![Here(t)[1]] = KeyOf(At(t, Here(t)))[1]]
    BY <1>2, <1>5 DEF Publish, On, Here, Published
  <2>2. PICK i \in StaticSet : Here(t) = AgeInfo(i) /\ Here(t)[1] = i
    <3>1. Here(t) \in {AgeInfo(j) : j \in StaticSet \cap StaticSet}
      BY <1>2, <2>1 DEF StepsAmong
    <3> QED
      BY <3>1 DEF AgeInfo
  <2>3. Touched(todo, i)
    BY <1>2, <2>1, <2>2, TouchedFacts DEF Touches
  <2>4. IsA(At(t, AgeInfo(i)), "ageInfo") /\ KeyOf(At(t, AgeInfo(i))) = KeyFor(t, i)
    BY StartsAt DEF ChoiceInv
  <2> QED
    BY <1>2, <2>1, <2>2, <2>3, <2>4
<1>6. CASE AddRef(t) \/ FindNode(t) \/ FindOrMakeNode(t) \/ Fails(t)
  BY <1>6 DEF AddRef, FindNode, FindOrMakeNode, Fails, Server
<1> QED
  BY <1>3, <1>4, <1>5, <1>6, StartSteps

LEMMA RestartFound ==
    ASSUME Sound, Restart
    PROVE  \A t \in Task : task'[t].found \subseteq task[t].found
<1>1. task' = [t \in Task |->
                  IF t = Boot[boot + 1] THEN Begun(SetupScript)
                  ELSE IF task[t].status = "running"
                       THEN [task[t] EXCEPT !.status = "lost", !.todo = <<>>]
                       ELSE task[t]]
  BY DEF Restart
<1>2. Begun(SetupScript).found = {}
  BY SetupScriptType, StepKinds, Begins
<1>3. \A w \in TaskState : [w EXCEPT !.status = "lost", !.todo = <<>>].found = w.found
  BY DEF TaskState
<1>4. \A t \in Task : task[t] \in TaskState
  BY Known DEF Sound
<1> QED
  BY <1>1, <1>2, <1>3, <1>4

Stable == \A i \in StaticSet :
              meddled = {} /\ instance[i] # None => instance'[i] = instance[i]

LEMMA StartChoiceKept ==
    ASSUME Sound, InstanceInv, ChoiceInv, NEW t \in Task \ Call, MethodStep(t)
    PROVE  Choice' /\ Stable
<1>1. /\ task[t].status = "running" /\ UNCHANGED <<load, boot, meddled>>
      /\ \A u \in Task \ {t} : task'[u] = task[u]
  BY MethodSteps, MethodFrame DEF Stepped, Others
<1>2. \A n : KeyOf(n)' = KeyOf(n)
  BY <1>1, KeyOfStay
<1>3. instance \in [StaticSet -> Task \cup {Config, None}]
  BY UnchangedTypes
<1> SUFFICES ASSUME meddled = {}, NEW i \in StaticSet
             PROVE  ChoiceOf(i)' /\ (instance[i] # None => instance'[i] = instance[i])
  BY <1>1 DEF Choice, Stable
<1>4. ChoiceOf(i)
  BY DEF ChoiceInv, Choice
<1>5. ASSUME NEW u \in Task, Pending(u, i)'
      PROVE  /\ u = t
             /\ \/ Pending(t, i)
                \/ UNCHANGED <<public, instance>> /\ (i \in AutoUuid => PublicInstances(i) = {})
  <2>1. /\ u \in Task \ Call /\ task'[u].status = "running" /\ Touched(task'[u].todo, i)
    <3>1. /\ u \in Task \ Call /\ (task[u].status = "running")' /\ Touched(task[u].todo, i)'
      BY <1>5 DEF Pending, Touched
    <3> QED
      BY <3>1 DEF Touched, Touches, AgeInfo
  <2>2. u = t
    BY <1>1, <2>1 DEF InstanceInv, StartsAlone
  <2>3. Touched(task[t].todo, i) => Pending(t, i)
    BY <1>1 DEF Touched, Pending
  <2>4. Tidy
    BY DEF InstanceInv
  <2>5. \/ Touched(task[t].todo, i)
        \/ UNCHANGED <<public, instance>> /\ (i \in AutoUuid => PublicInstances(i) = {})
    BY <2>1, <2>2, <2>4, PendingSteps
  <2> QED
    BY <2>2, <2>3, <2>5
\* Neither what is public nor the choice changes for this age.
<1>6. ASSUME \A j : j = i => PublicInstances(j)' = PublicInstances(j), instance'[i] = instance[i]
      PROVE  ChoiceOf(i)' /\ (instance[i] # None => instance'[i] = instance[i])
  <2>1. PublicInstances(i)' = PublicInstances(i)
    BY <1>6
  <2> QED
    BY <1>2, <1>4, <1>5, <1>6, <2>1 DEF ChoiceOf
<1>7. CASE UNCHANGED <<public, instance>>
  BY <1>1, <1>6, <1>7, PublicStay
<1>8. ASSUME NEW j \in StaticSet \cap AutoUuid, NEW n \in PublicInstances(j), public' = public,
             instance' = [instance EXCEPT ![j] = KeyOf(n)[1]]
      PROVE  ChoiceOf(i)' /\ (instance[i] # None => instance'[i] = instance[i])
  <2>1. \A k : PublicInstances(k)' = PublicInstances(k)
    BY <1>1, <1>8, PublicStay
  <2>2. CASE i # j
    BY <1>3, <1>6, <1>8, <2>1, <2>2
  <2>3. CASE i = j
    <3>1. instance'[i] = KeyOf(n)[1] /\ i \in AutoUuid /\ n \in PublicInstances(i)
      BY <1>3, <1>8, <2>3
    <3>2. instance[i] # None => instance'[i] = instance[i]
      BY <1>4, <3>1 DEF ChoiceOf
    <3>3. PublicInstances(i)' = PublicInstances(i)
      BY <2>1
    <3> QED
      BY <1>2, <1>4, <1>5, <3>1, <3>2, <3>3 DEF ChoiceOf
  <2> QED
    BY <2>2, <2>3
<1>9. ASSUME NEW j \in StaticSet, NEW n, Touched(task[t].todo, j), public' = public \cup {n},
             IsA(n, "ageInfo"), KeyOf(n) = KeyFor(t, j),
             instance' = instance \/ instance' = [instance EXCEPT ![j] = KeyFor(t, j)[1]]
      PROVE  ChoiceOf(i)' /\ (instance[i] # None => instance'[i] = instance[i])
  <2>1. KeyFor(t, j) = IF j \in AutoUuid THEN <<t, j>> ELSE <<Config, j>>
    BY DEF KeyFor
  <2>2. KeyOf(n)[2] = j
    BY <1>9, <2>1
  <2>3. PublicInstances(i)' = {m \in public' : IsA(m, "ageInfo") /\ KeyOf(m)[2] = i}
    BY <1>2 DEF PublicInstances, IsA
  <2>4. CASE i # j
    <3>1. PublicInstances(i)' = PublicInstances(i)
      BY <1>9, <2>2, <2>3, <2>4 DEF PublicInstances
    <3>2. instance'[i] = instance[i]
      BY <1>3, <1>9, <2>4
    <3> QED
      BY <1>6, <3>1, <3>2
  <2>5. CASE i = j /\ i \notin AutoUuid
    <3>1. instance'[i] \in {instance[i], Config}
      BY <1>3, <1>9, <2>1, <2>5
    <3> QED
      BY <1>4, <2>5, <3>1 DEF ChoiceOf
  <2>6. CASE i = j /\ i \in AutoUuid
    <3>1. PublicInstances(i)' = PublicInstances(i) \cup {n} /\ KeyOf(n) = <<t, i>>
      BY <1>9, <2>1, <2>2, <2>3, <2>6 DEF PublicInstances
    <3>2. Pending(t, i)
      BY <1>1, <1>9, <2>6 DEF Pending, Touched
    <3>3. \A m \in PublicInstances(i) : KeyOf(m) = <<t, i>>
      BY <1>4, <2>6, <3>2 DEF ChoiceOf
    <3>4. instance'[i] \in {instance[i], t}
      BY <1>3, <1>9, <2>1, <2>6
    <3>5. instance[i] # None => instance[i] = t
      BY <1>4, <2>6, <3>3 DEF ChoiceOf
    <3>6. \A m \in PublicInstances(i)' : KeyOf(m)' = <<t, i>>
      BY <1>2, <3>1, <3>3
    <3>7. n \in PublicInstances(i)' /\ KeyOf(n)' = <<t, i>>
      BY <1>2, <3>1
    <3> QED
      BY <1>5, <2>6, <3>4, <3>5, <3>6, <3>7 DEF ChoiceOf
  <2> QED
    BY <2>4, <2>5, <2>6
<1> QED
  BY <1>7, <1>8, <1>9, StartChoice

LEMMA ChoiceStep == Sound /\ InstanceInv /\ ChoiceInv /\ [Next]_vars => ChoiceInv' /\ Stable
<1> SUFFICES ASSUME Sound, InstanceInv, ChoiceInv, [Next]_vars PROVE ChoiceInv' /\ Stable
  OBVIOUS
<1>1. load' = load => \A t, i : KeyFor(t, i)' = KeyFor(t, i)
  BY KeysStay
<1>2. load' = load => \A n : KeyOf(n)' = KeyOf(n)
  BY KeyOfStay
\* A step that no start takes.
<1>3. ASSUME UNCHANGED <<load, public, instance>>, meddled \subseteq meddled',
             \A t \in Task \ Call : task'[t] = task[t]
      PROVE  ChoiceInv' /\ Stable
  <2>1. \A t \in Task, i \in StaticSet : Pending(t, i)' => Pending(t, i)
    BY <1>3 DEF Pending, Touches, AgeInfo
  <2>2. Choice'
    BY <1>3, <2>1, ChoiceKept DEF ChoiceInv
  <2>3. FoundRight'
    BY <1>1, <1>2, <1>3 DEF ChoiceInv, FoundRight, AgeInfo, IsA
  <2> QED
    BY <1>3, <2>2, <2>3 DEF ChoiceInv, Stable
<1>4. CASE UNCHANGED vars
  BY <1>3, <1>4 DEF vars
<1>5. ASSUME NEW t \in Call, MethodStep(t) PROVE ChoiceInv' /\ Stable
  <2>1. t \in Task /\ \A u \in Task \ {t} : task'[u] = task[u]
    BY <1>5, MethodSteps, Known DEF Stepped, Others, Sound
  <2> QED
    BY <1>3, <1>5, <2>1, CallChoice, MethodFrame
<1>6. ASSUME NEW t \in Task \ Call, MethodStep(t) PROVE ChoiceInv' /\ Stable
  <2>1. Choice' /\ Stable
    BY <1>6, StartChoiceKept
  <2>2. /\ load' = load /\ \A u \in Task \ {t} : task'[u] = task[u]
    BY <1>6, MethodSteps, MethodFrame DEF Stepped, Others
  <2>3. \A i, n : <<AgeInfo(i), n>> \in task'[t].found => KeyOf(n) = KeyFor(t, i) /\ IsA(n, "ageInfo")
    BY <1>6, FoundSteps DEF ChoiceInv
  <2>4. FoundRight'
    <3>1. ASSUME NEW u \in Task \ Call, NEW i, NEW n, <<AgeInfo(i), n>> \in task'[u].found
          PROVE  KeyOf(n) = KeyFor(u, i) /\ IsA(n, "ageInfo")
      BY <2>2, <2>3, <3>1 DEF ChoiceInv, FoundRight
    <3> QED
      BY <1>1, <1>2, <2>2, <3>1 DEF FoundRight, AgeInfo, IsA
  <2> QED
    BY <2>1, <2>4 DEF ChoiceInv
<1>7. ASSUME NEW t \in Call, Arrive(t) PROVE ChoiceInv' /\ Stable
  <2>1. /\ \A u \in Task \ {t} : task'[u] = task[u]
        /\ UNCHANGED <<load, public, instance, meddled>>
    BY <1>7, ArriveTask DEF Arrive, Server
  <2> QED
    BY <1>3, <2>1
<1>8. CASE \/ \E u \in Call : Select(u)
           \/ \E p \in playing : Leave(p) \/ AddChild(p)
  BY <1>3, <1>8 DEF Select, Leave, AddChild, Server, History
<1>9. CASE \E n \in nodes : Meddle(n)
  <2>1. /\ UNCHANGED <<load, task, instance>> /\ meddled' # {}
    BY <1>9 DEF Meddle, Server
  <2>2. FoundRight'
    BY <1>1, <1>2, <2>1 DEF ChoiceInv, FoundRight, AgeInfo, IsA
  <2> QED
    BY <2>1, <2>2 DEF ChoiceInv, Choice, Stable
<1>10. CASE Restart
  <2>1. /\ UNCHANGED <<load, public, instance, meddled>>
        /\ \A t \in Task : task'[t].status = "running" => task'[t].todo = SetupScript
    BY <1>10, RestartSteps DEF Restart, History
  <2>2. \A t \in Task, i \in StaticSet : ~Pending(t, i)'
    <3>1. ASSUME NEW t \in Task, NEW i \in StaticSet, Pending(t, i)' PROVE FALSE
      <4>1. task'[t].status = "running" /\ Touched(task'[t].todo, i)
        BY <3>1 DEF Pending, Touched, Touches, AgeInfo
      <4> QED
        BY <2>1, <4>1, TouchedFacts
    <3> QED
      BY <3>1
  <2>3. Choice'
    BY <2>1, <2>2, ChoiceKept DEF ChoiceInv
  <2>4. \A t \in Task : task'[t].found \subseteq task[t].found
    BY <1>10, RestartFound
  <2>5. FoundRight'
    <3>1. ASSUME NEW u \in Task \ Call, NEW i, NEW n, <<AgeInfo(i), n>> \in task'[u].found
          PROVE  KeyOf(n) = KeyFor(u, i) /\ IsA(n, "ageInfo")
      BY <2>4, <3>1 DEF ChoiceInv, FoundRight
    <3> QED
      BY <1>1, <1>2, <2>1, <3>1 DEF FoundRight, AgeInfo, IsA
  <2> QED
    BY <2>1, <2>3, <2>5 DEF ChoiceInv, Stable
<1> QED
  BY <1>4, <1>5, <1>6, <1>7, <1>8, <1>9, <1>10 DEF Next

\* As long as no client changes what is public, every start chooses the instance that the
\* one before it chose, be it finished, failed or killed (setup_static_age_instance).
THEOREM StartsAgree == Spec => AutoIsStable
<1>1. Stable => (\A i \in StaticSet :
                    meddled = {} /\ instance[i] # None => instance'[i] = instance[i])
  BY DEF Stable
<1>2. NameInv => Overlaps
  BY DEF NameInv
<1> QED
  BY <1>1, <1>2, SpecSound, InitNames, NamesStep, InitInstances, InstancesStep, InitChoice,
     ChoiceStep, PTL DEF Spec, AutoIsStable
=============================================================================
