--------------------------- MODULE AvatarLifecycle ---------------------------
(***************************************************************************)
(* How avatars and age instances come into being and go                    *)
(* (src/nagus/state.py, with the requests of auth_server.py that ask for   *)
(* it and the server's start).                                             *)
(*                                                                         *)
(* Each method is a long series of awaited calls of the vault, so calls    *)
(* of several clients interleave between any two, one of them may raise,   *)
(* and the server may die.  A call of the vault is one step here; what     *)
(* happens inside one is the subject of VaultDb.                           *)
(***************************************************************************)
EXTENDS VaultTrees, FiniteSets

CONSTANTS
    Call,      \* requests of clients
    Boot,      \* starts of the server, in order
    Config,    \* stands for the configuration, which fixes UUIDs
    AutoUuid,  \* static instances declared with an [auto] UUID
    None,      \* no UUID, no name
    AvatarName, AgeName,  \* names of avatars, and ages that clients ask for
    Load       \* what is asked in a behaviour, and bounds on it

Task == Call \cup ToSet(Boot)
StaticSet == ToSet(Static)

\* An instance is known by its UUID and its age's file name.
Key == (Task \cup {Config}) \X (Tree \cup AgeName \cup {None})

NoJob == [kind |-> "none", name |-> None, key |-> <<Config, None>>, of |-> Config]
Job == [kind : {"none", "createAvatar", "createAge", "deleteAvatar"},
        name : AvatarName \cup {None}, key : Key, of : Call \cup {Config}]

\* Bounds of a load: boots, the starts of the server; settled, calls that only arrive
\* when no avatar is being created; meddling, whether clients change which instances
\* are public; busy, whether avatars are played; failing, what may fail for no reason
\* of this model.
LoadAssumption ==
    /\ AutoUuid \subseteq StaticSet
    /\ Load \subseteq [jobs : [Call -> Job], boots : DOMAIN Boot,
                       settled : SUBSET Call, meddling : BOOLEAN, busy : BOOLEAN,
                       failing : SUBSET Task]
    /\ \A l \in Load, t \in Call :
          l.jobs[t].kind = "deleteAvatar" => l.jobs[t].of \in Call
    /\ Boot \in Seq(ToSet(Boot)) /\ IsInjective(Boot) /\ ToSet(Boot) \cap Call = {}

ASSUME LoadAssumption

VARIABLES
    load,      \* what this behaviour's clients do
    nodes,     \* vault nodes, each named by who made it and as what
    refs,      \* pairs of a parent and a child
    public,    \* Age Info nodes marked public
    task,      \* where the calls, and the server's starts, are
    boot,      \* how often the server has been started
    instance,  \* UUIDs of the static instances as the server knows them, or last knew them
    playing,   \* keys of auth_connections_by_ki_number
    company,   \* history: the calls that overlapped with a call
    met,       \* history: deletions that found their avatar
    late,      \* history: avatars selected after a deletion had found them
    meddled    \* history: the starts after which a client changed what is public

vars == <<load, nodes, refs, public, task, boot, instance, playing,
          company, met, late, meddled>>

Node == Task \X Tree \X Part
StepType == [op : Op, at : Role, child : Role \cup Node]

TypeOK ==
    /\ load \in Load
    /\ nodes \subseteq Node /\ refs \subseteq nodes \X nodes
    /\ public \subseteq Node
    /\ task \in [Task -> [status : {"idle", "running", "returned", "raised", "failed", "lost"},
                          todo : Seq(StepType),
                          found : SUBSET (Role \X Node),
                          rows : SUBSET Node]]
    /\ boot \in 1..load.boots
    /\ instance \in [StaticSet -> Task \cup {Config, None}]
    /\ playing \subseteq Node /\ late \subseteq Node
    /\ company \in [Call -> SUBSET Call]
    /\ met \subseteq Call /\ meddled \subseteq 1..boot

Idle == [status |-> "idle", todo |-> <<>>, found |-> {}, rows |-> {}]
Begun(script) == [Idle EXCEPT !.status = "running", !.todo = script]

Init ==
    /\ load \in Load
    /\ nodes = {} /\ refs = {} /\ public = {}
    /\ task = [t \in Task |-> IF t = Boot[1] THEN Begun(SetupScript) ELSE Idle]
    /\ boot = 1
    /\ instance = [i \in StaticSet |-> None]
    /\ playing = {}
    /\ company = [t \in Call |-> {}]
    /\ met = {} /\ late = {} /\ meddled = {}

-----------------------------------------------------------------------------
(* What a call refers to.                                                  *)

\* The node a call has for a role: one it has found, or the one it makes.
At(t, r) ==
    LET found == {f \in task[t].found : f[1] = r}
    IN  IF found = {} THEN <<t, r[1], r[2]>> ELSE (CHOOSE f \in found : TRUE)[2]

PlayerOf(u) == <<u, "player", "player">>
IsA(n, role) == n[3] = role
IsPlayer(n) == n = PlayerOf(n[1])

\* Keys of the instances a call or a start makes. A UUID that is made up is the maker's own.
KeyFor(t, i) ==
    CASE t \in Call /\ i = "shared" -> load.jobs[t].key
      [] i \in StaticSet \ AutoUuid -> <<Config, i>>
      [] OTHER -> <<t, i>>

KeyOf(n) == KeyFor(n[1], n[2])

\* The key a call looks for.
Sought(t, i) ==
    IF t \in Call /\ i \in StaticSet THEN <<instance[i], i>> ELSE KeyFor(t, i)

Children(n) == {ref[2] : ref \in {r \in refs : r[1] = n}}

\* A mutant: the lookup of an instance copied from that of the public ones.
MatchesIfPublic(t, r) ==
    {n \in nodes : IsA(n, r[2]) /\
        CASE r[2] = "ageInfo"   -> n \in public /\ KeyOf(n) = Sought(t, r[1])
          [] r[2] = "ageOwners" -> n \in Children(At(t, AgeInfo(r[1])))
          [] OTHER              -> n[2] = r[1]}

Matches(t, r) ==
    {n \in nodes : IsA(n, r[2]) /\
        CASE r[2] = "ageInfo"   -> KeyOf(n) = Sought(t, r[1])
          [] r[2] = "ageOwners" -> n \in Children(At(t, AgeInfo(r[1])))
          [] OTHER              -> n[2] = r[1]}

\* A mutant: it is the Age node that is asked.
PublicAges(i) == {n \in public : IsA(n, "age") /\ KeyOf(n)[2] = i}

PublicInstances(i) == {n \in public : IsA(n, "ageInfo") /\ KeyOf(n)[2] = i}

\* A mutant: only avatars in use are looked at.
NamePlayed(t) ==
    \E p \in playing : load.jobs[p[1]].name = load.jobs[t].name

NameTaken(t) ==
    \E n \in nodes : IsPlayer(n) /\ load.jobs[n[1]].name = load.jobs[t].name

\* A mutant: sqlite without "pragma foreign_keys".
LinkableUnchecked(p, c) == <<p, c>> \notin refs

\* Keys of the tables.
Linkable(p, c) == {p, c} \subseteq nodes /\ <<p, c>> \notin refs
Deletable(n) == n \in nodes /\ \A ref \in refs : n \notin {ref[1], ref[2]}

-----------------------------------------------------------------------------
(* Steps of a method.                                                      *)

On(t, op) == task[t].status = "running" /\ Head(task[t].todo).op = op
Here(t)   == Head(task[t].todo).at
Rest(t)   == Tail(task[t].todo)

Going(t, todo, found, rows) ==
    [status |-> IF todo = <<>> THEN "returned" ELSE "running",
     todo |-> todo, found |-> found, rows |-> rows]

GoOn(t, todo) == task' = [task EXCEPT ![t] = Going(t, todo, @.found, @.rows)]
GoOnWith(t, r, n) ==
    task' = [task EXCEPT ![t] = Going(t, Rest(t), @.found \cup {<<r, n>>}, @.rows)]

\* A mutant: the exception is logged and the method goes on.
EndUnlessMore(t, status) ==
    task' = [task EXCEPT ![t] = Going(t, Rest(t), @.found, @.rows)]

\* The exception ends the method, and the request with it.
End(t, status) == task' = [task EXCEPT ![t].status = status, ![t].todo = <<>>]

History == <<company, met, late, meddled>>
Server == <<load, boot, instance, playing>>

MakeNode(t) ==
    /\ On(t, "make")
    /\ LET n == <<t, Here(t)[1], Here(t)[2]>>
       IN  /\ nodes' = nodes \cup {n}
           /\ public' = IF IsA(n, "ageInfo") /\ n[2] \in StaticSet
                        THEN public \cup {n} ELSE public
    /\ GoOn(t, Rest(t))
    /\ UNCHANGED <<refs, Server, History>>

AddRef(t) ==
    /\ On(t, "link")
    /\ LET p == At(t, Here(t))
           c == At(t, Head(task[t].todo).child)
       IN  \/ Linkable(p, c) /\ refs' = refs \cup {<<p, c>>} /\ GoOn(t, Rest(t))
           \/ ~Linkable(p, c) /\ UNCHANGED refs /\ End(t, "raised")
    /\ UNCHANGED <<nodes, public, Server, History>>

\* find_unique_vault_node takes any of several.
FindNode(t) ==
    /\ On(t, "find")
    /\ \/ \E n \in Matches(t, Here(t)) : GoOnWith(t, Here(t), n)
       \/ Matches(t, Here(t)) = {} /\ End(t, "raised")
    /\ UNCHANGED <<nodes, refs, public, Server, History>>

FindOrMakeNode(t) ==
    /\ On(t, "findOrMake")
    /\ \/ \E n \in Matches(t, Here(t)) : GoOnWith(t, Here(t), n)
       \/ Matches(t, Here(t)) = {} /\ GoOn(t, TreeScript(Here(t)) \o Rest(t))
    /\ UNCHANGED <<nodes, refs, public, Server, History>>

\* create_avatar's check of the name.
CheckName(t) ==
    /\ On(t, "name")
    /\ IF NameTaken(t) THEN End(t, "raised") ELSE GoOn(t, AvatarScript)
    /\ UNCHANGED <<nodes, refs, public, Server, History>>

-----------------------------------------------------------------------------
(* The server's start: setup_static_age_instance.                          *)

StaticScript(i) == <<FindOrMake(AgeInfo(i)), Step("publish", AgeInfo(i))>>

\* A public instance of an [auto] age is taken as it is (the code takes the oldest).
PrepareStatic(t) ==
    /\ On(t, "static")
    /\ LET i == Here(t)[1]
       IN  \/ /\ i \in AutoUuid
              /\ \E n \in PublicInstances(i) : instance' = [instance EXCEPT ![i] = KeyOf(n)[1]]
              /\ GoOn(t, Rest(t))
           \/ /\ i \in AutoUuid => PublicInstances(i) = {}
              /\ GoOn(t, StaticScript(i) \o Rest(t))
              /\ UNCHANGED instance
    /\ UNCHANGED <<load, boot, playing, nodes, refs, public, History>>

\* A mutant: only the names are compared with the declaration.
PublishedIfNew(n) == public

Published(n) == public \cup {n}

\* The Age Info node is compared with the declaration, and updated if it differs.
Publish(t) ==
    /\ On(t, "publish")
    /\ LET n == At(t, Here(t))
       IN  /\ public' = Published(n)
           /\ instance' = [instance EXCEPT ![Here(t)[1]] = KeyOf(n)[1]]
    /\ GoOn(t, Rest(t))
    /\ UNCHANGED <<load, boot, playing, nodes, refs, History>>

-----------------------------------------------------------------------------
(* delete_avatar.                                                          *)

FetchPlayer(t) ==
    /\ On(t, "fetch")
    /\ \/ At(t, Player) \in nodes /\ met' = met \cup {t} /\ GoOn(t, Rest(t))
       \/ At(t, Player) \notin nodes /\ UNCHANGED met /\ End(t, "raised")
    /\ UNCHANGED <<nodes, refs, public, Server, company, late, meddled>>

\* kick_async forgets the connection at once; its task is awaited.
KickPlayer(t) ==
    /\ On(t, "kick")
    /\ \/ /\ At(t, Player) \in playing
          /\ playing' = playing \ {At(t, Player)}
          /\ GoOn(t, <<Step("offline", Player)>> \o Rest(t))
       \/ At(t, Player) \notin playing /\ UNCHANGED playing /\ GoOn(t, Rest(t))
    /\ UNCHANGED <<load, boot, instance, nodes, refs, public, History>>

\* set_avatar_offline raises if the Player node has no Player Info.
SetOffline(t) ==
    /\ On(t, "offline")
    /\ IF \E n \in Children(At(t, Player)) : IsA(n, "playerInfo")
       THEN GoOn(t, Rest(t)) ELSE End(t, "raised")
    /\ UNCHANGED <<nodes, refs, public, Server, History>>

QueryChildren(t) ==
    /\ On(t, "unlink")
    /\ LET p == At(t, Player)
       IN  IF p \in nodes
           THEN task' = [task EXCEPT ![t].todo = <<Step("next", Player)>> \o Rest(t),
                                     ![t].rows = Children(p)]
           ELSE End(t, "raised")
    /\ UNCHANGED <<nodes, refs, public, Server, History>>

\* The cursor steps over the table as it is by then. It comes to every row that was
\* there from the start and still is; to one that is newer it may come or not.
NextChild(t) ==
    /\ On(t, "next")
    /\ \/ \E c \in Children(At(t, Player)) :
             GoOn(t, <<[op |-> "remove", at |-> Player, child |-> c]>> \o task[t].todo)
       \/ task[t].rows \cap Children(At(t, Player)) = {} /\ GoOn(t, Rest(t))
    /\ UNCHANGED <<nodes, refs, public, Server, History>>

RemoveRef(t) ==
    /\ On(t, "remove")
    /\ LET ref == <<At(t, Player), Head(task[t].todo).child>>
       IN  \/ ref \in refs /\ refs' = refs \ {ref} /\ GoOn(t, Rest(t))
           \/ ref \notin refs /\ UNCHANGED refs /\ End(t, "raised")
    /\ UNCHANGED <<nodes, public, Server, History>>

DeleteNode(t) ==
    /\ On(t, "delete")
    /\ LET p == At(t, Player)
       IN  \/ Deletable(p) /\ nodes' = nodes \ {p} /\ GoOn(t, Rest(t))
           \/ ~Deletable(p) /\ UNCHANGED nodes /\ End(t, "raised")
    /\ UNCHANGED <<refs, public, Server, History>>

\* The database, or a connection that is kicked, raises in any step.
Fails(t) ==
    /\ task[t].status = "running" /\ t \in load.failing
    /\ End(t, "failed")
    /\ UNCHANGED <<nodes, refs, public, Server, History>>

-----------------------------------------------------------------------------
(* Clients and the operator.                                               *)

Up == task[Boot[boot]].status = "returned"
UnderWay == {t \in Call : task[t].status = "running"}

Asked(t) ==
    LET j == load.jobs[t]
    IN  CASE j.kind = "createAvatar" -> Begun(<<Step("name", Player)>>)
          [] j.kind = "createAge"    -> Begun(<<FindOrMake(AgeInfo("shared"))>>)
          [] j.kind = "deleteAvatar" -> [Begun(DeleteScript) EXCEPT
                                            !.found = {<<Player, PlayerOf(j.of)>>}]

Arrive(t) ==
    /\ Up /\ task[t].status = "idle" /\ load.jobs[t].kind # "none"
    /\ t \in load.settled => \A u \in UnderWay : load.jobs[u].kind # "createAvatar"
    /\ task' = [task EXCEPT ![t] = Asked(t)]
    /\ company' = [u \in Call |-> IF u = t THEN UnderWay
                                  ELSE IF u \in UnderWay THEN company[u] \cup {t}
                                  ELSE company[u]]
    /\ UNCHANGED <<nodes, refs, public, Server, met, late, meddled>>

DeletionsOf(u) == {d \in met : load.jobs[d].of = u}

\* account_set_player_request does not look the avatar up.
Select(u) ==
    /\ Up /\ load.busy
    /\ PlayerOf(u) \in nodes \/ DeletionsOf(u) # {}
    /\ playing' = playing \cup {PlayerOf(u)}
    /\ late' = IF DeletionsOf(u) = {} THEN late ELSE late \cup {PlayerOf(u)}
    /\ UNCHANGED <<load, boot, instance, nodes, refs, public, task, company, met, meddled>>

Leave(p) ==
    /\ playing' = playing \ {p}
    /\ UNCHANGED <<load, boot, instance, nodes, refs, public, task, History>>

Extra(p) == <<p[1], "player", "extra">>

\* The client of an avatar adds a folder to it.
AddChild(p) ==
    LET n == Extra(p)
    IN  /\ p \in nodes /\ n \notin nodes
        /\ nodes' = nodes \cup {n}
        /\ refs' = refs \cup {<<p, n>>}
        /\ UNCHANGED <<public, task, Server, History>>

\* A client makes an instance of a static age public or private: set_age_public.
Meddle(n) ==
    /\ Up /\ load.meddling
    /\ IsA(n, "ageInfo") /\ KeyOf(n)[2] \in StaticSet
    /\ public' = IF n \in public THEN public \ {n} ELSE public \cup {n}
    /\ meddled' = meddled \cup {boot}
    /\ UNCHANGED <<nodes, refs, task, Server, company, met, late>>

\* The server dies or is stopped, at any point, and is started anew.
Restart ==
    /\ boot < load.boots
    /\ boot' = boot + 1
    /\ task' = [t \in Task |->
                  IF t = Boot[boot + 1] THEN Begun(SetupScript)
                  ELSE IF task[t].status = "running"
                       THEN [task[t] EXCEPT !.status = "lost", !.todo = <<>>]
                       ELSE task[t]]
    /\ playing' = {}
    /\ UNCHANGED <<load, nodes, refs, public, instance, History>>

-----------------------------------------------------------------------------
MethodStep(t) ==
    \/ MakeNode(t) \/ AddRef(t) \/ FindNode(t) \/ FindOrMakeNode(t) \/ CheckName(t)
    \/ PrepareStatic(t) \/ Publish(t)
    \/ FetchPlayer(t) \/ KickPlayer(t) \/ SetOffline(t) \/ QueryChildren(t)
    \/ NextChild(t) \/ RemoveRef(t) \/ DeleteNode(t)
    \/ Fails(t)

Next ==
    \/ \E t \in Task : MethodStep(t)
    \/ \E t \in Call : Arrive(t) \/ Select(t)
    \/ \E p \in playing : Leave(p) \/ AddChild(p)
    \/ \E n \in nodes : Meddle(n)
    \/ Restart

Spec == Init /\ [][Next]_vars

-----------------------------------------------------------------------------
(* Properties.                                                             *)

\* create_avatar refuses a name that is taken: two avatars of one name were created by
\* two requests at the same time, the only ones that can miss each other's node.
SameNameMeansOverlap ==
    \A m, n \in nodes :
        m # n /\ IsPlayer(m) /\ IsPlayer(n)
              /\ load.jobs[m[1]].name = load.jobs[n[1]].name
        => n[1] \in company[m[1]]

\* create_age_instance finds an instance that exists, across failures, crashes and
\* starts: two with one UUID and file name were created by requests at the same time.
SameInstanceMeansOverlap ==
    \A m, n \in nodes :
        m # n /\ IsA(m, "ageInfo") /\ IsA(n, "ageInfo") /\ KeyOf(m) = KeyOf(n)
        => {m[1], n[1]} \subseteq Call /\ n[1] \in company[m[1]]

Links(t, script) == {<<At(t, l[1]), At(t, l[2])>> : l \in LinksOf(script)}
InstanceWhole(n) == Links(n[1], AgeScript(n[2])) \subseteq refs
AvatarWhole(t) == Links(t, AvatarScript) \cup Links(t, AgeScript("relto")) \subseteq refs

\* What a client was told exists has all of its folders, lists and links, unless an
\* avatar is being deleted, or an age instance was found that its maker has not finished.
ReportedIsWhole ==
    \A t \in Call : task[t].status = "returned" =>
        /\ load.jobs[t].kind = "createAvatar" => AvatarWhole(t) \/ DeletionsOf(t) # {}
        /\ load.jobs[t].kind = "createAge" =>
              LET n == At(t, AgeInfo("shared"))
              IN  InstanceWhole(n) \/ task[n[1]].status # "returned"

\* Deletions of one avatar that race each other make each other fail, but never all of
\* them: when the last one has ended the avatar is gone. This excepts avatars that were
\* not finished before, database failures, crashes, and children added meanwhile.
DeletionsFinish ==
    \A u \in Call :
        LET D == DeletionsOf(u)
        IN  /\ D # {} /\ task[u].status = "returned"
            /\ \A d \in D : task[d].status \in {"returned", "raised"} /\ u \notin company[d]
            /\ Extra(PlayerOf(u)) \notin Children(PlayerOf(u))
            => PlayerOf(u) \notin nodes

\* delete_avatar kicks who uses the avatar: who plays a deleted one has selected it
\* while it was being deleted, or later.
GhostsAreLate == \A p \in playing : p \notin nodes => p \in late

\* setup_static_age_instance: "Ensure that a public static instance of the given age
\* exists". It does so unless a client changes it afterwards, and the instance is
\* complete unless an earlier start ended while it was made.
SetupEnsures ==
    Up => \A i \in StaticSet :
            \E n \in nodes :
                /\ IsA(n, "ageInfo") /\ KeyOf(n) = <<instance[i], i>>
                /\ n \in public \/ boot \in meddled
                /\ InstanceWhole(n) \/ task[n[1]].status # "returned"

\* "The next time the server is restarted, this instance will be found and not
\* re-created": as long as no client changes what is public, all starts choose the same.
AutoIsStable ==
    [][\A i \in StaticSet :
          meddled = {} /\ instance[i] # None => instance'[i] = instance[i]]_vars
=============================================================================
