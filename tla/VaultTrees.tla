----------------------------- MODULE VaultTrees -----------------------------
(***************************************************************************)
(* What the methods of ServerState that build trees of vault nodes do      *)
(* (src/nagus/state.py): create_age_instance, create_avatar and            *)
(* setup_database, each as the sequence of its calls of the vault.         *)
(*                                                                         *)
(* A call of one of these methods names a node by its role in one of the   *)
(* trees it handles: <<"hood", "ageInfo">> is the Age Info node of the     *)
(* neighborhood.  Whether that node is made or found is up to the call.    *)
(***************************************************************************)
EXTENDS Naturals, Sequences, SequencesExt

CONSTANTS
    Static,       \* ages with a static instance, in the order of their declarations
    PlayerLists,  \* folders and lists of a Player node, in the order they are made
    AgeLists,     \* of an Age node
    InfoLists     \* of an Age Info node

TreesAssumption ==
    /\ \A s \in {Static, PlayerLists, AgeLists, InfoLists} :
          s \in Seq(ToSet(s)) /\ IsInjective(s)
    /\ ToSet(Static) \cap {"vault", "player", "relto", "shared"} = {}
    /\ "ageOwners" \in ToSet(InfoLists)
    /\ ToSet(AgeLists) \cap ToSet(InfoLists) = {}
    /\ \A s \in {PlayerLists, AgeLists, InfoLists} :
          ToSet(s) \cap {"system", "globalInbox", "allPlayers", "player", "playerInfo", "agesIOwn",
                         "agesICanVisit", "age", "ageInfo", "link", "extra"} = {}

ASSUME TreesAssumption

Tree == ToSet(Static) \cup {"vault", "player", "relto", "shared"}
Part == ToSet(PlayerLists) \cup ToSet(AgeLists) \cup ToSet(InfoLists)
            \cup {"system", "globalInbox", "allPlayers", "player", "playerInfo", "agesIOwn",
                  "agesICanVisit", "age", "ageInfo", "ageOwners", "link", "extra"}
Role == Tree \X Part

System     == <<"vault", "system">>
AllPlayers == <<"vault", "allPlayers">>
Player     == <<"player", "player">>
PlayerInfo == <<"player", "playerInfo">>
AgesIOwn   == <<"player", "agesIOwn">>
AgesICanVisit == <<"player", "agesICanVisit">>
Age(i)       == <<i, "age">>
AgeInfo(i)   == <<i, "ageInfo">>
AgeOwners(i) == <<i, "ageOwners">>
AgeLink(i)   == <<i, "link">>

-----------------------------------------------------------------------------
(* Steps.                                                                  *)

Op == {"make", "link", "find", "findOrMake", "name", "static", "publish", "fetch", "kick",
       "offline", "unlink", "next", "remove", "delete"}

Step(op, r)   == [op |-> op, at |-> r, child |-> r]
Make(r)       == Step("make", r)
Link(p, c)    == [op |-> "link", at |-> p, child |-> c]
Find(r)       == Step("find", r)            \* raises if there is none
FindOrMake(r) == Step("findOrMake", r)      \* goes on with TreeScript(r) if there is none

NewChild(p, r) == <<Make(r), Link(p, r)>>
NewChildren(p, names) ==
    [k \in 1..2 * Len(names) |->
        LET r == <<p[1], names[(k + 1) \div 2]>>
        IN  IF k % 2 = 1 THEN Make(r) ELSE Link(p, r)]

If(condition, script) == IF condition THEN script ELSE <<>>

-----------------------------------------------------------------------------
(* Scripts.                                                                *)

\* create_age_instance, once there is no such instance.
AgeScript(i) ==
    <<Find(System), Make(Age(i)), Make(AgeInfo(i)),
      Link(Age(i), System), Link(Age(i), AgeInfo(i))>>
    \o NewChildren(Age(i), AgeLists)
    \o NewChildren(AgeInfo(i), InfoLists)

LinkToAge(i) ==
    <<Make(AgeLink(i)), Link(AgeLink(i), AgeInfo(i)), Link(AgesIOwn, AgeLink(i))>>

OwnAge(i) == <<Find(AgeOwners(i)), Link(AgeOwners(i), PlayerInfo)>>

\* create_avatar, once the name is free. The default neighborhood and the public Ae'gura
\* are the static instances of these ages, or there are none.
AvatarScript ==
    LET hood   == "hood" \in ToSet(Static)
        aegura == "aegura" \in ToSet(Static)
    IN  <<Find(System), Find(AllPlayers)>>
        \o If(hood, <<Find(AgeInfo("hood"))>>) \o If(aegura, <<Find(AgeInfo("aegura"))>>)
        \o <<Make(Player), Make(PlayerInfo), Link(Player, System), Link(Player, PlayerInfo)>>
        \o NewChildren(Player, PlayerLists) \o NewChild(Player, AgesIOwn)
        \o <<FindOrMake(AgeInfo("relto"))>>
        \o OwnAge("relto") \o <<Link(Age("relto"), AgesIOwn)>> \o LinkToAge("relto")
        \o If(hood, OwnAge("hood") \o LinkToAge("hood")) \o If(aegura, LinkToAge("aegura"))
        \o NewChild(Player, AgesICanVisit) \o <<Link(AllPlayers, PlayerInfo)>>

\* What a find-or-make goes on with if it found nothing.
TreeScript(r) ==
    CASE r = System     -> <<Make(System)>> \o NewChild(System, <<"vault", "globalInbox">>)
      [] r = AllPlayers -> <<Make(AllPlayers)>>
      [] OTHER          -> AgeScript(r[1])

\* setup_database.
SetupScript ==
    <<FindOrMake(System), FindOrMake(AllPlayers)>>
    \o [i \in DOMAIN Static |-> Step("static", AgeInfo(Static[i]))]

\* A mutant: the node first.
DeleteNodeFirst == <<Step("fetch", Player), Step("kick", Player),
                     Step("delete", Player), Step("unlink", Player)>>

\* A mutant: who plays the avatar is left alone.
DeleteUnkicked == <<Step("fetch", Player), Step("unlink", Player), Step("delete", Player)>>

\* delete_avatar.
DeleteScript == <<Step("fetch", Player), Step("kick", Player),
                  Step("unlink", Player), Step("delete", Player)>>

LinksOf(script) == {<<s.at, s.child>> : s \in {x \in ToSet(script) : x.op = "link"}}
=============================================================================
