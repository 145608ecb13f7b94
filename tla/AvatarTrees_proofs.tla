------------------------ MODULE AvatarTrees_proofs ------------------------
(* What a client was told exists is whole, the deletions of an avatar do    *)
(* not all fail, and the server's start leaves public instances: for any    *)
(* number of requests, restarts, folders and static ages.                   *)
EXTENDS AvatarLifecycle_proofs

-----------------------------------------------------------------------------
(* The steps of the scripts, again: which links they make, and that a node  *)
(* is not searched or made after it was searched or published.              *)

\* Trees of ages.
AgeTree == Tree \ {"vault", "player"}

AgeSteps(i) ==
    {s \in StepType :
        \/ s.op = "find" /\ s.at = System
        \/ s.op = "make" /\ s.at[1] = i /\ s.at[2] # "link"
        \/ s.op = "link" /\ s.at = Age(i) /\ s.child[2] # "player" /\ s.child # AgesIOwn
        \/ s.op = "link" /\ s.at = AgeInfo(i) /\ s.child[1] = i
                         /\ s.child[2] \notin {"player", "ageInfo"}}

AvatarSteps ==
    {s \in StepType :
        \/ s.op = "find" /\ s.at \in {System, AllPlayers, AgeInfo("hood"), AgeInfo("aegura"),
                                      AgeOwners("relto"), AgeOwners("hood")}
        \/ s.op = "findOrMake" /\ s.at = AgeInfo("relto")
        \/ s.op = "make" /\ (\/ s.at[1] = "player" /\ s.at[2] # "ageInfo"
                             \/ s.at[2] = "link" /\ s.at[1] # "vault")
        \/ s.op = "link" /\ s.at[2] # "ageInfo" /\ s.child[2] # "player"
                         /\ (s.at[2] = "player" => s.at = Player)
                         /\ (s.at[2] = "age" => s.child = AgesIOwn)}

BootSteps ==
    {s \in StepType :
        \/ s.op = "findOrMake" /\ s.at \in {System, AllPlayers} \cup {AgeInfo(i) : i \in StaticSet}
        \/ s.op \in {"static", "publish"} /\ s.at \in {AgeInfo(i) : i \in StaticSet}
        \/ s.op = "make" /\ s.at \in {System, AllPlayers, <<"vault", "globalInbox">>}
        \/ s.op = "link" /\ s.at = System /\ s.child = <<"vault", "globalInbox">>}

StaticSteps == UNION {AgeSteps(i) : i \in StaticSet}

Searching == {"find", "findOrMake", "static"}
Settles(s) == s.op \in Searching \cup {"publish"} /\ s.at # System
Unsettles(s) == s.op \in Searching \cup {"make"}

\* After a search for a node, or its publication, it is not searched or made again.
Ordered(todo) ==
    \A j, k \in 1..Len(todo) :
        j < k /\ Settles(todo[j]) /\ Unsettles(todo[k]) => todo[j].at # todo[k].at

LEMMA SetOf ==
    ASSUME NEW S, NEW s \in Seq(S)
    PROVE  /\ ToSet(s) \subseteq S
           /\ s = <<>> => ToSet(s) = {}
           /\ s # <<>> => ToSet(s) = {Head(s)} \cup ToSet(Tail(s))
           /\ \A u \in Seq(S) : ToSet(s \o u) = ToSet(s) \cup ToSet(u)
<1>1. \A u \in Seq(S) : /\ \A k \in 1..Len(u) : u[k] \in ToSet(u)
                        /\ \A x \in ToSet(u) : \E k \in 1..Len(u) : x = u[k]
  BY DEF ToSet
<1>2. ToSet(s) \subseteq S /\ (s = <<>> => ToSet(s) = {})
  BY <1>1
<1>3. ASSUME s # <<>> PROVE ToSet(s) = {Head(s)} \cup ToSet(Tail(s))
  <2>1. /\ Tail(s) \in Seq(S) /\ Len(Tail(s)) = Len(s) - 1 /\ Head(s) = s[1]
        /\ Len(s) \in Nat /\ Len(s) >= 1
        /\ \A k \in 1..Len(s) - 1 : Tail(s)[k] = s[k + 1] /\ k + 1 \in 1..Len(s)
    BY <1>3
  <2>2. ASSUME NEW x \in ToSet(s), x # Head(s) PROVE x \in ToSet(Tail(s))
    <3>1. PICK k \in 1..Len(s) : x = s[k]
      BY <1>1
    <3>2. k - 1 \in 1..Len(Tail(s)) /\ Tail(s)[k - 1] = x
      <4>1. k # 1
        BY <2>1, <2>2, <3>1
      <4> QED
        BY <2>1, <3>1, <4>1
    <3> QED
      BY <1>1, <2>1, <3>2
  <2>3. ASSUME NEW x \in ToSet(Tail(s)) PROVE x \in ToSet(s)
    <3>1. PICK k \in 1..Len(Tail(s)) : x = Tail(s)[k]
      BY <1>1, <2>1
    <3>2. k + 1 \in 1..Len(s) /\ s[k + 1] = x
      BY <2>1, <3>1
    <3> QED
      BY <1>1, <3>2
  <2>4. Head(s) \in ToSet(s)
    <3>1. 1 \in 1..Len(s)
      BY <2>1
    <3> QED
      BY <1>1, <2>1, <3>1
  <2> QED
    BY <2>2, <2>3, <2>4
<1>4. ASSUME NEW u \in Seq(S) PROVE ToSet(s \o u) = ToSet(s) \cup ToSet(u)
  <2>1. /\ s \o u \in Seq(S) /\ Len(s \o u) = Len(s) + Len(u)
        /\ Len(s) \in Nat /\ Len(u) \in Nat
        /\ \A k \in 1..Len(s) : (s \o u)[k] = s[k] /\ k \in 1..Len(s \o u)
        /\ \A k \in 1..Len(u) : (s \o u)[Len(s) + k] = u[k] /\ Len(s) + k \in 1..Len(s \o u)
    OBVIOUS
  <2>2. ASSUME NEW x \in ToSet(s \o u) PROVE x \in ToSet(s) \cup ToSet(u)
    <3>1. PICK k \in 1..Len(s \o u) : x = (s \o u)[k]
      BY <1>1, <2>1
    <3>2. CASE k \in 1..Len(s)
      BY <1>1, <2>1, <3>1, <3>2
    <3>3. CASE k \notin 1..Len(s)
      <4>1. k - Len(s) \in 1..Len(u) /\ Len(s) + (k - Len(s)) = k
        BY <2>1, <3>3
      <4>2. u[k - Len(s)] = x
        BY <2>1, <3>1, <4>1
      <4> QED
        BY <1>1, <4>1, <4>2
    <3> QED
      BY <3>2, <3>3
  <2>3. ASSUME NEW x \in ToSet(s) PROVE x \in ToSet(s \o u)
    <3>1. PICK k \in 1..Len(s) : x = s[k]
      BY <1>1
    <3> QED
      BY <1>1, <2>1, <3>1
  <2>4. ASSUME NEW x \in ToSet(u) PROVE x \in ToSet(s \o u)
    <3>1. PICK k \in 1..Len(u) : x = u[k]
      BY <1>1
    <3> QED
      BY <1>1, <2>1, <3>1
  <2> QED
    BY <2>2, <2>3, <2>4
<1> QED
  BY <1>2, <1>3, <1>4

\* The links that are ahead.
LEMMA LinksFacts ==
    ASSUME NEW S, NEW s \in Seq(S)
    PROVE  /\ LinksOf(s) = {<<x.at, x.child>> : x \in {y \in ToSet(s) : y.op = "link"}}
           /\ s = <<>> => LinksOf(s) = {}
           /\ s # <<>> /\ Head(s).op # "link" => LinksOf(s) = LinksOf(Tail(s))
           /\ s # <<>> => LinksOf(s) \subseteq {<<Head(s).at, Head(s).child>>} \cup LinksOf(Tail(s))
           /\ s # <<>> => LinksOf(Tail(s)) \subseteq LinksOf(s)
           /\ \A u \in Seq(S) : LinksOf(s \o u) = LinksOf(s) \cup LinksOf(u)
<1>1. \A u : LinksOf(u) = {<<x.at, x.child>> : x \in {y \in ToSet(u) : y.op = "link"}}
  BY DEF LinksOf
<1>2. s # <<>> => ToSet(s) = {Head(s)} \cup ToSet(Tail(s))
  BY SetOf
<1>3. s = <<>> => ToSet(s) = {}
  BY SetOf
<1>4. \A u \in Seq(S) : ToSet(s \o u) = ToSet(s) \cup ToSet(u)
  BY SetOf
<1> QED
  BY <1>1, <1>2, <1>3, <1>4

LEMMA OrderedTail ==
    ASSUME NEW S, NEW s \in Seq(S), s # <<>>, Ordered(s)
    PROVE  /\ Ordered(Tail(s))
           /\ Settles(Head(s)) =>
                 \A y \in ToSet(Tail(s)) : Unsettles(y) => y.at # Head(s).at
<1>1. /\ Tail(s) \in Seq(S) /\ Len(Tail(s)) = Len(s) - 1 /\ Head(s) = s[1]
      /\ Len(s) \in Nat /\ Len(s) >= 1
      /\ \A k \in 1..Len(s) - 1 : Tail(s)[k] = s[k + 1] /\ k + 1 \in 1..Len(s)
  OBVIOUS
<1>2. Ordered(Tail(s))
  <2> SUFFICES ASSUME NEW j \in 1..Len(Tail(s)), NEW k \in 1..Len(Tail(s)), j < k,
                      Settles(Tail(s)[j]), Unsettles(Tail(s)[k])
               PROVE  Tail(s)[j].at # Tail(s)[k].at
    BY DEF Ordered
  <2>1. /\ j + 1 \in 1..Len(s) /\ k + 1 \in 1..Len(s) /\ j + 1 < k + 1
        /\ Tail(s)[j] = s[j + 1] /\ Tail(s)[k] = s[k + 1]
    BY <1>1
  <2> QED
    BY <2>1 DEF Ordered
<1>3. ASSUME Settles(Head(s)), NEW y \in ToSet(Tail(s)), Unsettles(y)
      PROVE  y.at # Head(s).at
  <2>1. PICK k \in 1..Len(Tail(s)) : y = Tail(s)[k]
    BY <1>1, <1>3 DEF ToSet
  <2>2. 1 \in 1..Len(s) /\ k + 1 \in 1..Len(s) /\ 1 < k + 1 /\ y = s[k + 1]
    BY <1>1, <2>1
  <2> QED
    BY <1>1, <1>3, <2>2 DEF Ordered
<1> QED
  BY <1>2, <1>3

LEMMA OrderedJoin ==
    ASSUME NEW S, NEW s \in Seq(S), NEW u \in Seq(S), Ordered(s), Ordered(u),
           \A x \in ToSet(s), y \in ToSet(u) : Settles(x) /\ Unsettles(y) => x.at # y.at
    PROVE  Ordered(s \o u)
<1>1. /\ Len(s \o u) = Len(s) + Len(u) /\ Len(s) \in Nat /\ Len(u) \in Nat
      /\ \A k \in 1..Len(s) : (s \o u)[k] = s[k]
      /\ \A k \in 1..Len(u) : (s \o u)[Len(s) + k] = u[k]
      /\ \A k \in 1..Len(s) : s[k] \in ToSet(s)
      /\ \A k \in 1..Len(u) : u[k] \in ToSet(u)
  BY DEF ToSet
<1> SUFFICES ASSUME NEW j \in 1..Len(s \o u), NEW k \in 1..Len(s \o u), j < k,
                    Settles((s \o u)[j]), Unsettles((s \o u)[k])
             PROVE  (s \o u)[j].at # (s \o u)[k].at
  BY DEF Ordered
<1>2. CASE k \in 1..Len(s)
  <2>1. j \in 1..Len(s)
    BY <1>1, <1>2
  <2> QED
    BY <1>1, <1>2, <2>1 DEF Ordered
<1>3. CASE j \notin 1..Len(s)
  <2>1. /\ j - Len(s) \in 1..Len(u) /\ k - Len(s) \in 1..Len(u) /\ j - Len(s) < k - Len(s)
        /\ Len(s) + (j - Len(s)) = j /\ Len(s) + (k - Len(s)) = k
    BY <1>1, <1>3
  <2>2. (s \o u)[j] = u[j - Len(s)] /\ (s \o u)[k] = u[k - Len(s)]
    BY <1>1, <2>1
  <2> QED
    BY <2>1, <2>2 DEF Ordered
<1>4. CASE j \in 1..Len(s) /\ k \notin 1..Len(s)
  <2>1. k - Len(s) \in 1..Len(u) /\ Len(s) + (k - Len(s)) = k
    BY <1>1, <1>4
  <2>2. (s \o u)[j] \in ToSet(s) /\ (s \o u)[k] \in ToSet(u)
    BY <1>1, <1>4, <2>1
  <2> QED
    BY <2>2
<1> QED
  BY <1>2, <1>3, <1>4

\* A list of steps that neither searches nor publishes is in order.
PlainStep == {s \in StepType : ~Settles(s)}

LEMMA PlainOrdered == \A s \in Seq(PlainStep) : Ordered(s) /\ \A x \in ToSet(s) : ~Settles(x)
<1> SUFFICES ASSUME NEW s \in Seq(PlainStep) PROVE Ordered(s) /\ \A x \in ToSet(s) : ~Settles(x)
  OBVIOUS
<1>1. \A x \in PlainStep : ~Settles(x)
  BY DEF PlainStep
<1>2. ToSet(s) \subseteq PlainStep
  BY SetOf
<1>3. \A k \in 1..Len(s) : s[k] \in PlainStep
  OBVIOUS
<1> QED
  BY <1>1, <1>2, <1>3 DEF Ordered

\* A script in order that settles and unsettles some roles only.
Clear(s, settled, unsettled) ==
    /\ s \in Seq(StepType) /\ Ordered(s)
    /\ \A x \in ToSet(s) : /\ Settles(x) => x.at \in settled
                           /\ Unsettles(x) => x.at \in unsettled

LEMMA ClearJoin ==
    ASSUME NEW s, NEW u, NEW A, NEW B, NEW C, NEW D, Clear(s, A, B), Clear(u, C, D), A \cap D = {}
    PROVE  Clear(s \o u, A \cup C, B \cup D)
<1>1. s \in Seq(StepType) /\ u \in Seq(StepType) /\ s \o u \in Seq(StepType)
  BY ConcatProperties DEF Clear
<1>2. ToSet(s \o u) = ToSet(s) \cup ToSet(u)
  BY <1>1, SetOf
<1>3. Ordered(s \o u)
  <2>1. \A x \in ToSet(s), y \in ToSet(u) : Settles(x) /\ Unsettles(y) => x.at # y.at
    BY DEF Clear
  <2> QED
    BY <1>1, <2>1, OrderedJoin DEF Clear
<1> QED
  BY <1>1, <1>2, <1>3 DEF Clear

LEMMA ClearPlain ==
    ASSUME NEW s \in Seq(PlainStep), NEW B, \A x \in ToSet(s) : Unsettles(x) => x.at \in B
    PROVE  Clear(s, {}, B)
<1>1. Seq(PlainStep) \subseteq Seq(StepType)
  BY DEF PlainStep, Settles, Searching
<1> QED
  BY <1>1, PlainOrdered DEF Clear

LEMMA ClearOne ==
    ASSUME NEW x \in StepType
    PROVE  Clear(<<x>>, {x.at}, {x.at})
<1>1. <<x>> \in Seq(StepType) /\ Len(<<x>>) = 1 /\ ToSet(<<x>>) = {x}
  <2>1. ToSet(<<x>>) = {x}
    BY DEF ToSet
  <2> QED
    BY <2>1
<1>2. Ordered(<<x>>)
  BY <1>1 DEF Ordered
<1> QED
  BY <1>1, <1>2 DEF Clear

LEMMA ClearNone == \A A, B : Clear(<<>>, A, B)
<1>1. <<>> \in Seq(StepType) /\ Len(<<>>) = 0 /\ ToSet(<<>>) = {}
  BY DEF ToSet
<1> QED
  BY <1>1 DEF Clear, Ordered

\* The places of the trees of ages.
LEMMA AgeTrees ==
    /\ StaticSet \cup {"relto", "shared"} \subseteq AgeTree /\ AgeTree \subseteq Tree
    /\ \A i \in AgeTree :
          /\ i # "vault" /\ i # "player"
          /\ {Age(i), AgeInfo(i), AgeOwners(i), AgeLink(i)} \subseteq Role
          /\ \A part \in ToSet(AgeLists) \cup ToSet(InfoLists) : <<i, part>> \in Role
    /\ {System, AllPlayers, Player, PlayerInfo, AgesIOwn, AgesICanVisit,
        <<"vault", "globalInbox">>} \subseteq Role
    /\ \A part \in ToSet(PlayerLists) : <<"player", part>> \in Role
<1>1. StaticSet \cup {"relto", "shared"} \subseteq AgeTree
  <2>1. StaticSet \cap {"vault", "player", "relto", "shared"} = {}
    BY TreesAssumption DEF TreesAssumption, StaticSet
  <2> QED
    BY <2>1, Roles DEF AgeTree
<1> QED
  BY <1>1, Roles
     DEF AgeTree, System, AllPlayers, Player, PlayerInfo, AgesIOwn, AgesICanVisit, Age, AgeInfo,
         AgeOwners, AgeLink

LEMMA AgeScriptSteps ==
    ASSUME NEW i \in AgeTree
    PROVE  /\ AgeScript(i) \in Seq(AgeSteps(i))
           /\ Make(AgeInfo(i)) \in ToSet(AgeScript(i))
           /\ Clear(AgeScript(i), {}, {r \in Role : r[1] = i \/ r = System})
<1> DEFINE first == <<Find(System), Make(Age(i)), Make(AgeInfo(i)),
                      Link(Age(i), System), Link(Age(i), AgeInfo(i))>>
<1>1. \A names \in {PlayerLists, AgeLists, InfoLists} :
          ToSet(names) \cap {"player", "agesIOwn", "ageInfo", "link"} = {}
  BY TreesAssumption DEF TreesAssumption
<1>2. /\ Age(i) \in Role /\ AgeInfo(i) \in Role /\ System \in Role
      /\ Age(i)[1] = i /\ AgeInfo(i)[1] = i /\ Age(i)[2] = "age" /\ AgeInfo(i)[2] = "ageInfo"
      /\ System[2] = "system" /\ AgesIOwn[2] = "agesIOwn"
  BY AgeTrees DEF Age, AgeInfo, System, AgesIOwn
<1>3. /\ \A p, r \in Role : Link(p, r) \in StepType /\ Make(r) \in StepType /\ Find(r) \in StepType
      /\ \A p, r : /\ Link(p, r).op = "link" /\ Link(p, r).at = p /\ Link(p, r).child = r
                   /\ Make(r).op = "make" /\ Make(r).at = r /\ Find(r).op = "find" /\ Find(r).at = r
  BY DEF Link, Make, Find, Step, StepType, Op
<1>4. \A r \in Role : r[1] = i /\ r[2] \in ToSet(AgeLists) =>
          Make(r) \in AgeSteps(i) /\ Link(Age(i), r) \in AgeSteps(i)
  BY <1>1, <1>2, <1>3 DEF AgeSteps
<1>5. \A r \in Role : r[1] = i /\ r[2] \in ToSet(InfoLists) =>
          Make(r) \in AgeSteps(i) /\ Link(AgeInfo(i), r) \in AgeSteps(i)
  BY <1>1, <1>2, <1>3 DEF AgeSteps
<1>6. first \in Seq(AgeSteps(i))
  <2>1. /\ Find(System) \in AgeSteps(i) /\ Make(Age(i)) \in AgeSteps(i)
        /\ Make(AgeInfo(i)) \in AgeSteps(i) /\ Link(Age(i), System) \in AgeSteps(i)
        /\ Link(Age(i), AgeInfo(i)) \in AgeSteps(i)
    BY <1>2, <1>3 DEF AgeSteps
  <2> QED
    BY <2>1
<1>7. NewChildren(Age(i), AgeLists) \in Seq(AgeSteps(i))
  BY <1>2, <1>4, NewChildrenIn
<1>8. NewChildren(AgeInfo(i), InfoLists) \in Seq(AgeSteps(i))
  BY <1>2, <1>5, NewChildrenIn
<1>9. /\ first \o NewChildren(Age(i), AgeLists) \in Seq(AgeSteps(i))
      /\ AgeScript(i) \in Seq(AgeSteps(i))
  BY <1>6, <1>7, <1>8, ConcatProperties DEF AgeScript
<1>10. Make(AgeInfo(i)) \in ToSet(AgeScript(i))
  <2>0. \A s, u \in Seq(AgeSteps(i)) : ToSet(s \o u) = ToSet(s) \cup ToSet(u)
    BY SetOf
  <2>1. Make(AgeInfo(i)) \in ToSet(first)
    <3>1. 3 \in 1..Len(first) /\ first[3] = Make(AgeInfo(i))
      OBVIOUS
    <3> QED
      BY <3>1 DEF ToSet
  <2>2. ToSet(first \o NewChildren(Age(i), AgeLists)) =
           ToSet(first) \cup ToSet(NewChildren(Age(i), AgeLists))
    BY <1>6, <1>7, <2>0
  <2>3. ToSet(AgeScript(i)) = ToSet(first \o NewChildren(Age(i), AgeLists))
                                \cup ToSet(NewChildren(AgeInfo(i), InfoLists))
    BY <1>8, <1>9, <2>0 DEF AgeScript
  <2> QED
    BY <2>1, <2>2, <2>3
<1>11. Clear(AgeScript(i), {}, {r \in Role : r[1] = i \/ r = System})
  <2>1. AgeSteps(i) \subseteq PlainStep
    BY DEF AgeSteps, PlainStep, Settles, Searching
  <2>2. AgeScript(i) \in Seq(PlainStep)
    BY <1>9, <2>1
  <2>3. \A x \in AgeSteps(i) : Unsettles(x) => x.at \in {r \in Role : r[1] = i \/ r = System}
    BY DEF AgeSteps, Unsettles, Searching, StepType
  <2>4. ToSet(AgeScript(i)) \subseteq AgeSteps(i)
    BY <1>9, SetOf
  <2> QED
    BY <2>2, <2>3, <2>4, ClearPlain
<1> QED
  BY <1>9, <1>10, <1>11

AvatarBuilds == {s \in AvatarSteps : s.op \in {"make", "link"}}
Personal == {r \in Role : r[1] = "player" \/ r[2] = "link"}

\* A piece of the script of an avatar, and the roles that it settles and unsettles.
Piece(s, settled, unsettled) == s \in Seq(AvatarSteps) /\ Clear(s, settled, unsettled)

LEMMA PieceJoin ==
    \A s, u : \A A, C \in SUBSET Role : \A D :
        Piece(s, A, Role) /\ Piece(u, C, D) /\ A \cap D = {} => Piece(s \o u, A \cup C, Role)
<1> SUFFICES ASSUME NEW s, NEW u, NEW A, NEW C, NEW D, Piece(s, A, Role), Piece(u, C, D),
                    A \cap D = {}
             PROVE  Piece(s \o u, A \cup C, Role)
  OBVIOUS
<1>1. Clear(s \o u, A \cup C, Role \cup D)
  BY ClearJoin DEF Piece
<1>2. s \o u \in Seq(AvatarSteps)
  BY ConcatProperties DEF Piece
<1>3. \A x \in ToSet(s \o u) : x.at \in Role
  BY <1>2, SetOf DEF AvatarSteps, StepType
<1> QED
  BY <1>1, <1>2, <1>3 DEF Piece, Clear

LEMMA PieceBuilds == \A s \in Seq(AvatarBuilds) : Piece(s, {}, Personal) /\ Piece(s, {}, Role)
<1> SUFFICES ASSUME NEW s \in Seq(AvatarBuilds) PROVE Piece(s, {}, Personal) /\ Piece(s, {}, Role)
  OBVIOUS
<1>1. AvatarBuilds \subseteq PlainStep /\ AvatarBuilds \subseteq AvatarSteps
  BY DEF AvatarBuilds, AvatarSteps, PlainStep, Settles, Searching
<1>2. s \in Seq(PlainStep) /\ s \in Seq(AvatarSteps) /\ ToSet(s) \subseteq AvatarBuilds
  BY <1>1, SetOf
<1>3. \A x \in AvatarBuilds : Unsettles(x) => x.at \in Personal /\ x.at \in Role
  BY DEF AvatarBuilds, AvatarSteps, Unsettles, Searching, Personal, StepType
<1> QED
  BY <1>2, <1>3, ClearPlain DEF Piece

LEMMA PieceOne ==
    \A x \in AvatarSteps : Piece(<<x>>, {x.at}, {x.at}) /\ Piece(<<x>>, {x.at}, Role)
<1> SUFFICES ASSUME NEW x \in AvatarSteps
             PROVE  Piece(<<x>>, {x.at}, {x.at}) /\ Piece(<<x>>, {x.at}, Role)
  OBVIOUS
<1>1. x \in StepType /\ x.at \in Role /\ <<x>> \in Seq(AvatarSteps)
  BY DEF AvatarSteps, StepType
<1>2. Clear(<<x>>, {x.at}, {x.at})
  BY <1>1, ClearOne
<1> QED
  BY <1>1, <1>2 DEF Piece, Clear

\* What a search or a creation of the avatar's script is about.
LEMMA AvatarStepKinds ==
    /\ \A i \in {"hood", "aegura"} \cap StaticSet : Find(AgeInfo(i)) \in AvatarSteps
    /\ \A i \in {"relto", "hood"} \cap AgeTree : Find(AgeOwners(i)) \in AvatarSteps
    /\ Find(System) \in AvatarSteps /\ Find(AllPlayers) \in AvatarSteps
    /\ FindOrMake(AgeInfo("relto")) \in AvatarSteps
    /\ \A i \in AgeTree : /\ Link(AgeOwners(i), PlayerInfo) \in AvatarBuilds
                          /\ LinkToAge(i) \in Seq(AvatarBuilds)
    /\ <<Make(Player), Make(PlayerInfo), Link(Player, System), Link(Player, PlayerInfo)>>
           \in Seq(AvatarBuilds)
    /\ NewChild(Player, AgesIOwn) \in Seq(AvatarBuilds)
    /\ NewChild(Player, AgesICanVisit) \in Seq(AvatarBuilds)
    /\ NewChildren(Player, PlayerLists) \in Seq(AvatarBuilds)
    /\ Link(Age("relto"), AgesIOwn) \in AvatarBuilds
    /\ Link(AllPlayers, PlayerInfo) \in AvatarBuilds
<1>1. ToSet(PlayerLists) \cap {"player", "agesIOwn", "ageInfo", "link"} = {}
  BY TreesAssumption DEF TreesAssumption
<1>2. /\ \A p, r \in Role : /\ Link(p, r) \in StepType /\ Make(r) \in StepType
                            /\ Find(r) \in StepType /\ FindOrMake(r) \in StepType
      /\ \A p, r : /\ Link(p, r).op = "link" /\ Link(p, r).at = p /\ Link(p, r).child = r
                   /\ Make(r).op = "make" /\ Make(r).at = r /\ Find(r).op = "find" /\ Find(r).at = r
                   /\ FindOrMake(r).op = "findOrMake" /\ FindOrMake(r).at = r
  BY DEF Link, Make, Find, FindOrMake, Step, StepType, Op
<1>3. /\ System = <<"vault", "system">> /\ AllPlayers = <<"vault", "allPlayers">>
      /\ Player = <<"player", "player">> /\ PlayerInfo = <<"player", "playerInfo">>
      /\ AgesIOwn = <<"player", "agesIOwn">> /\ AgesICanVisit = <<"player", "agesICanVisit">>
      /\ \A i : /\ Age(i)[2] = "age" /\ AgeInfo(i)[2] = "ageInfo" /\ AgeOwners(i)[2] = "ageOwners"
                /\ AgeLink(i)[2] = "link" /\ AgeLink(i)[1] = i
  BY DEF System, AllPlayers, Player, PlayerInfo, AgesIOwn, AgesICanVisit, Age, AgeInfo,
         AgeOwners, AgeLink
<1>4. \A p, r \in Role :
          /\ p[2] \notin {"ageInfo", "player", "age"} /\ r[2] # "player" => Link(p, r) \in AvatarBuilds
          /\ r[2] # "player" => Link(Player, r) \in AvatarBuilds
          /\ (r[1] = "player" /\ r[2] # "ageInfo") \/ (r[2] = "link" /\ r[1] # "vault") =>
                Make(r) \in AvatarBuilds
  <2>1. Player \in Role /\ Player[2] = "player"
    BY <1>3, AgeTrees
  <2> QED
    BY <1>2, <2>1 DEF AvatarBuilds, AvatarSteps
<1>5. Link(Age("relto"), AgesIOwn) \in AvatarBuilds
  <2>1. Age("relto") \in Role /\ AgesIOwn \in Role
    BY AgeTrees
  <2> QED
    BY <1>2, <1>3, <2>1 DEF AvatarBuilds, AvatarSteps
<1>6. /\ \A i \in {"hood", "aegura"} \cap StaticSet : Find(AgeInfo(i)) \in AvatarSteps
      /\ \A i \in {"relto", "hood"} \cap AgeTree : Find(AgeOwners(i)) \in AvatarSteps
      /\ Find(System) \in AvatarSteps /\ Find(AllPlayers) \in AvatarSteps
      /\ FindOrMake(AgeInfo("relto")) \in AvatarSteps
  <2>1. "relto" \in AgeTree /\ {System, AllPlayers} \subseteq Role
    BY AgeTrees
  <2>2. \A i \in AgeTree : AgeInfo(i) \in Role /\ AgeOwners(i) \in Role
    BY AgeTrees
  <2>3. \A i \in StaticSet : i \in AgeTree
    BY AgeTrees
  <2> QED
    BY <1>2, <2>1, <2>2, <2>3 DEF AvatarSteps
<1>7. NewChildren(Player, PlayerLists) \in Seq(AvatarBuilds)
  <2>1. Player \in Role /\ Player[1] = "player"
    BY <1>3, AgeTrees
  <2>2. \A r \in Role : r[1] = "player" /\ r[2] \in ToSet(PlayerLists) =>
            Make(r) \in AvatarBuilds /\ Link(Player, r) \in AvatarBuilds
    BY <1>1, <1>4
  <2> QED
    BY <2>1, <2>2, NewChildrenIn
<1>8. ASSUME NEW i \in AgeTree
      PROVE  Link(AgeOwners(i), PlayerInfo) \in AvatarBuilds /\ LinkToAge(i) \in Seq(AvatarBuilds)
  <2>1. {AgeInfo(i), AgeOwners(i), AgeLink(i), PlayerInfo, AgesIOwn} \subseteq Role /\ i # "vault"
    BY AgeTrees
  <2>2. /\ Link(AgeOwners(i), PlayerInfo) \in AvatarBuilds /\ Make(AgeLink(i)) \in AvatarBuilds
        /\ Link(AgeLink(i), AgeInfo(i)) \in AvatarBuilds
        /\ Link(AgesIOwn, AgeLink(i)) \in AvatarBuilds
    BY <1>3, <1>4, <2>1
  <2> QED
    BY <2>2 DEF LinkToAge
<1>9. /\ <<Make(Player), Make(PlayerInfo), Link(Player, System), Link(Player, PlayerInfo)>>
             \in Seq(AvatarBuilds)
      /\ NewChild(Player, AgesIOwn) \in Seq(AvatarBuilds)
      /\ NewChild(Player, AgesICanVisit) \in Seq(AvatarBuilds)
      /\ Link(AllPlayers, PlayerInfo) \in AvatarBuilds
  <2>1. {System, AllPlayers, Player, PlayerInfo, AgesIOwn, AgesICanVisit} \subseteq Role
    BY AgeTrees
  <2>2. /\ Make(Player) \in AvatarBuilds /\ Make(PlayerInfo) \in AvatarBuilds
        /\ Link(Player, System) \in AvatarBuilds /\ Link(Player, PlayerInfo) \in AvatarBuilds
        /\ Make(AgesIOwn) \in AvatarBuilds /\ Link(Player, AgesIOwn) \in AvatarBuilds
        /\ Make(AgesICanVisit) \in AvatarBuilds /\ Link(Player, AgesICanVisit) \in AvatarBuilds
        /\ Link(AllPlayers, PlayerInfo) \in AvatarBuilds
    BY <1>3, <1>4, <2>1
  <2> QED
    BY <2>2 DEF NewChild
<1> QED
  BY <1>5, <1>6, <1>7, <1>8, <1>9

LEMMA TwoSteps == \A x, y : <<x>> \o <<y>> = <<x, y>>
<1> SUFFICES ASSUME NEW x, NEW y PROVE <<x>> \o <<y>> = <<x, y>>
  OBVIOUS
<1> DEFINE S == {x, y}
<1>1. <<x>> \in Seq(S) /\ <<y>> \in Seq(S) /\ <<x, y>> \in Seq(S)
  OBVIOUS
<1>2. /\ Len(<<x>> \o <<y>>) = 2 /\ <<x>> \o <<y>> \in Seq(S)
      /\ (<<x>> \o <<y>>)[1] = x /\ (<<x>> \o <<y>>)[2] = y
  BY <1>1, ConcatProperties
<1>3. Len(<<x, y>>) = 2 /\ <<x, y>>[1] = x /\ <<x, y>>[2] = y /\ 1..2 = {1, 2}
  OBVIOUS
<1> QED
  BY <1>1, <1>2, <1>3, SeqEqual

LEMMA AvatarScriptSteps ==
    /\ AvatarScript \in Seq(AvatarSteps) /\ Ordered(AvatarScript)
    /\ <<Age("relto"), AgesIOwn>> \in LinksOf(AvatarScript)
    /\ <<Player, PlayerInfo>> \in LinksOf(AvatarScript)
<1> DEFINE hood == "hood" \in ToSet(Static)
           aegura == "aegura" \in ToSet(Static)
           S1 == {System, AllPlayers}
           S2 == S1 \cup {AgeInfo("hood")}
           S3 == S2 \cup {AgeInfo("aegura")}
           S4 == S3 \cup {AgeInfo("relto")}
           S5 == S4 \cup {AgeOwners("relto")}
           S6 == S5 \cup {AgeOwners("hood")}
           All == {r \in Role : r[1] # "player" /\ r[2] # "link"}
<1>1. /\ System = <<"vault", "system">> /\ AllPlayers = <<"vault", "allPlayers">>
      /\ \A i : /\ AgeInfo(i) = <<i, "ageInfo">> /\ AgeOwners(i) = <<i, "ageOwners">>
      /\ {System, AllPlayers} \subseteq Role
      /\ \A i \in AgeTree : AgeInfo(i) \in Role /\ AgeOwners(i) \in Role
      /\ "relto" \in AgeTree /\ (hood => "hood" \in AgeTree) /\ (aegura => "aegura" \in AgeTree)
  BY AgeTrees DEF System, AllPlayers, AgeInfo, AgeOwners, StaticSet
<1>2. ASSUME NEW s, NEW A \in SUBSET All, Piece(s, A, Role), NEW u \in Seq(AvatarBuilds)
      PROVE  Piece(s \o u, A, Role)
  <2>1. Piece(u, {}, Personal) /\ A \cap Personal = {} /\ A \in SUBSET Role
    BY <1>2, PieceBuilds DEF Personal
  <2>2. Piece(s \o u, A \cup {}, Role)
    BY <1>2, <2>1, PieceJoin
  <2> QED
    BY <2>2
<1>3. ASSUME NEW s, NEW A \in SUBSET Role, Piece(s, A, Role), NEW x \in AvatarSteps, x.at \notin A
      PROVE  Piece(s \o <<x>>, A \cup {x.at}, Role)
  <2>1. Piece(<<x>>, {x.at}, {x.at}) /\ A \cap {x.at} = {} /\ {x.at} \in SUBSET Role
    BY <1>3, PieceOne DEF AvatarSteps, StepType
  <2> QED
    BY <1>3, <2>1, PieceJoin
<1>4. \A s, A, B : Piece(s, A, Role) /\ A \subseteq B /\ B \subseteq Role => Piece(s, B, Role)
  BY DEF Piece, Clear
<1>5. \A s, A : Piece(s, A, Role) => s \o <<>> = s
  BY DEF Piece
<1>6. /\ \A r : Find(r).at = r /\ FindOrMake(r).at = r
  BY DEF Find, FindOrMake, Step
<1> DEFINE p1 == <<Find(System), Find(AllPlayers)>>
           p2 == p1 \o If(hood, <<Find(AgeInfo("hood"))>>)
           p3 == p2 \o If(aegura, <<Find(AgeInfo("aegura"))>>)
           p4 == p3 \o <<Make(Player), Make(PlayerInfo), Link(Player, System),
                         Link(Player, PlayerInfo)>>
           p5 == p4 \o NewChildren(Player, PlayerLists)
           p6 == p5 \o NewChild(Player, AgesIOwn)
           p7 == p6 \o <<FindOrMake(AgeInfo("relto"))>>
           p8 == p7 \o OwnAge("relto")
           p9 == p8 \o <<Link(Age("relto"), AgesIOwn)>>
           p10 == p9 \o LinkToAge("relto")
           p11 == p10 \o If(hood, OwnAge("hood") \o LinkToAge("hood"))
           p12 == p11 \o If(aegura, LinkToAge("aegura"))
           p13 == p12 \o NewChild(Player, AgesICanVisit)
<1>7. AvatarScript = p13 \o <<Link(AllPlayers, PlayerInfo)>>
  BY DEF AvatarScript
<1>8. S1 \in SUBSET All /\ System \notin {AllPlayers}
  BY <1>1
<1>11. Piece(p1, S1, Role)
  <2>1. Piece(<<Find(System)>>, {System}, Role)
    BY <1>6, PieceOne, AvatarStepKinds
  <2>2. Piece(<<Find(System)>> \o <<Find(AllPlayers)>>, {System} \cup {AllPlayers}, Role)
    <3>1. /\ {System} \in SUBSET Role /\ Find(AllPlayers) \in AvatarSteps
          /\ Find(AllPlayers).at = AllPlayers /\ AllPlayers \notin {System}
      BY <1>1, <1>6, AvatarStepKinds
    <3> QED
      BY <1>3, <2>1, <3>1
  <2>3. <<Find(System)>> \o <<Find(AllPlayers)>> = p1
    BY TwoSteps
  <2>4. {System} \cup {AllPlayers} = S1
    OBVIOUS
  <2> QED
    BY <2>2, <2>3, <2>4
<1> HIDE DEF p1, p2, p3, p4, p5, p6, p7, p8, p9, p10, p11, p12, p13, S1, S2, S3, S4, S5, S6, hood,
             aegura
<1>9. /\ S1 \subseteq All /\ S2 \cap Role \subseteq All /\ S3 \cap Role \subseteq All
      /\ S4 \cap Role \subseteq All /\ S5 \cap Role \subseteq All /\ S6 \cap Role \subseteq All
      /\ AgeInfo("hood") \notin S1 /\ AgeInfo("aegura") \notin S2
      /\ AgeInfo("relto") \notin S3 /\ AgeOwners("relto") \notin S4 /\ AgeOwners("hood") \notin S5
  BY <1>1 DEF S1, S2, S3, S4, S5, S6
<1>12. Piece(p2, S2 \cap Role, Role)
  <2>1. CASE hood
    <3>1. Find(AgeInfo("hood")) \in AvatarSteps
      BY <2>1, AvatarStepKinds DEF hood, StaticSet
    <3>2. Piece(p1 \o <<Find(AgeInfo("hood"))>>, S1 \cup {AgeInfo("hood")}, Role)
      BY <1>3, <1>6, <1>9, <1>11, <3>1
    <3>3. S1 \cup {AgeInfo("hood")} = S2 \cap Role
      BY <1>1, <1>9, <2>1 DEF S1, S2
    <3> QED
      BY <2>1, <3>2, <3>3 DEF p2, If
  <2>2. CASE ~hood
    <3>1. S1 \subseteq S2 \cap Role
      BY <1>9 DEF S2
    <3>2. p2 = p1
      BY <1>5, <1>11, <2>2 DEF p2, If
    <3> QED
      BY <1>4, <1>11, <3>1, <3>2
  <2> QED
    BY <2>1, <2>2
<1>13. Piece(p3, S3 \cap Role, Role)
  <2>1. CASE aegura
    <3>1. Find(AgeInfo("aegura")) \in AvatarSteps
      BY <2>1, AvatarStepKinds DEF aegura, StaticSet
    <3>2. Piece(p2 \o <<Find(AgeInfo("aegura"))>>, (S2 \cap Role) \cup {AgeInfo("aegura")}, Role)
      BY <1>3, <1>6, <1>9, <1>12, <3>1
    <3>3. (S2 \cap Role) \cup {AgeInfo("aegura")} = S3 \cap Role
      BY <1>1, <2>1 DEF S3
    <3> QED
      BY <2>1, <3>2, <3>3 DEF p3, If
  <2>2. CASE ~aegura
    <3>1. S2 \cap Role \subseteq S3 \cap Role
      BY DEF S3
    <3>2. p3 = p2
      BY <1>5, <1>12, <2>2 DEF p3, If
    <3> QED
      BY <1>4, <1>12, <3>1, <3>2
  <2> QED
    BY <2>1, <2>2
<1>14. Piece(p4, S3 \cap Role, Role)
  BY <1>2, <1>9, <1>13, AvatarStepKinds DEF p4
<1>15. Piece(p5, S3 \cap Role, Role)
  BY <1>2, <1>9, <1>14, AvatarStepKinds DEF p5
<1>16. Piece(p6, S3 \cap Role, Role)
  BY <1>2, <1>9, <1>15, AvatarStepKinds DEF p6
<1>17. Piece(p7, S4 \cap Role, Role)
  <2>1. Piece(p7, (S3 \cap Role) \cup {AgeInfo("relto")}, Role)
    BY <1>3, <1>6, <1>9, <1>16, AvatarStepKinds DEF p7
  <2>2. (S3 \cap Role) \cup {AgeInfo("relto")} = S4 \cap Role
    BY <1>1 DEF S4
  <2> QED
    BY <2>1, <2>2
\* A search for the owners of an age, and what is built with them.
<1>18. ASSUME NEW s, NEW A \in SUBSET All, Piece(s, A, Role), NEW i \in {"relto", "hood"},
              i \in AgeTree, AgeOwners(i) \notin A
       PROVE  Piece(s \o OwnAge(i), A \cup {AgeOwners(i)}, Role)
  <2>1. Piece(<<Find(AgeOwners(i)), Link(AgeOwners(i), PlayerInfo)>>, {AgeOwners(i)},
              {AgeOwners(i)})
    <3>1. /\ Find(AgeOwners(i)) \in AvatarSteps /\ Link(AgeOwners(i), PlayerInfo) \in AvatarBuilds
          /\ <<Link(AgeOwners(i), PlayerInfo)>> \in Seq(PlainStep)
          /\ Link(AgeOwners(i), PlayerInfo) \in AvatarSteps
          /\ Link(AgeOwners(i), PlayerInfo).op = "link"
      <4>1. Find(AgeOwners(i)) \in AvatarSteps /\ Link(AgeOwners(i), PlayerInfo) \in AvatarBuilds
        BY <1>18, AvatarStepKinds
      <4>2. Link(AgeOwners(i), PlayerInfo).op = "link"
        BY DEF Link
      <4> QED
        BY <4>1, <4>2 DEF AvatarBuilds, PlainStep, Settles, Searching, AvatarSteps
    <3>2. ToSet(<<Link(AgeOwners(i), PlayerInfo)>>) = {Link(AgeOwners(i), PlayerInfo)}
      BY DEF ToSet
    <3>3. Clear(<<Link(AgeOwners(i), PlayerInfo)>>, {}, {})
      BY <3>1, <3>2, ClearPlain DEF Unsettles, Searching
    <3>4. Clear(<<Find(AgeOwners(i))>>, {AgeOwners(i)}, {AgeOwners(i)})
      BY <1>6, <3>1, PieceOne DEF Piece
    <3>5. Clear(<<Find(AgeOwners(i))>> \o <<Link(AgeOwners(i), PlayerInfo)>>,
                {AgeOwners(i)} \cup {}, {AgeOwners(i)} \cup {})
      BY <3>3, <3>4, ClearJoin
    <3>6. <<Find(AgeOwners(i)), Link(AgeOwners(i), PlayerInfo)>> \in Seq(AvatarSteps)
      BY <3>1
    <3>7. <<Find(AgeOwners(i))>> \o <<Link(AgeOwners(i), PlayerInfo)>>
             = <<Find(AgeOwners(i)), Link(AgeOwners(i), PlayerInfo)>>
      BY TwoSteps
    <3> QED
      BY <3>5, <3>6, <3>7 DEF Piece
  <2>2. A \cap {AgeOwners(i)} = {} /\ {AgeOwners(i)} \in SUBSET Role /\ A \in SUBSET Role
    BY <1>1, <1>18
  <2> QED
    BY <1>18, <2>1, <2>2, PieceJoin DEF OwnAge
<1>19. Piece(p8, S5 \cap Role, Role)
  <2>1. Piece(p8, (S4 \cap Role) \cup {AgeOwners("relto")}, Role)
    BY <1>1, <1>9, <1>17, <1>18 DEF p8
  <2>2. (S4 \cap Role) \cup {AgeOwners("relto")} = S5 \cap Role
    BY <1>1 DEF S5
  <2> QED
    BY <2>1, <2>2
<1>20. Piece(p9, S5 \cap Role, Role)
  <2>1. <<Link(Age("relto"), AgesIOwn)>> \in Seq(AvatarBuilds)
    BY AvatarStepKinds
  <2> QED
    BY <1>2, <1>9, <1>19, <2>1 DEF p9
<1>21. Piece(p10, S5 \cap Role, Role)
  BY <1>1, <1>2, <1>9, <1>20, AvatarStepKinds DEF p10
<1>22. Piece(p11, S6 \cap Role, Role)
  <2>1. CASE hood
    <3>1. Piece(p10 \o OwnAge("hood"), (S5 \cap Role) \cup {AgeOwners("hood")}, Role)
      BY <1>1, <1>9, <1>18, <1>21, <2>1
    <3>2. (S5 \cap Role) \cup {AgeOwners("hood")} = S6 \cap Role
      BY <1>1, <2>1 DEF S6
    <3>3. Piece((p10 \o OwnAge("hood")) \o LinkToAge("hood"), S6 \cap Role, Role)
      BY <1>1, <1>2, <1>9, <2>1, <3>1, <3>2, AvatarStepKinds
    <3>4. (p10 \o OwnAge("hood")) \o LinkToAge("hood") = p10 \o (OwnAge("hood") \o LinkToAge("hood"))
      <4>1. /\ p10 \in Seq(AvatarSteps) /\ OwnAge("hood") \in Seq(AvatarSteps)
            /\ LinkToAge("hood") \in Seq(AvatarSteps)
        <5>1. LinkToAge("hood") \in Seq(AvatarBuilds) /\ AvatarBuilds \subseteq AvatarSteps
          BY <1>1, <2>1, AvatarStepKinds DEF AvatarBuilds
        <5>2. Find(AgeOwners("hood")) \in AvatarSteps
              /\ Link(AgeOwners("hood"), PlayerInfo) \in AvatarBuilds
          BY <1>1, <2>1, AvatarStepKinds
        <5> QED
          BY <1>21, <5>1, <5>2 DEF Piece, OwnAge
      <4> QED
        BY <4>1, ConcatAssociative
    <3> QED
      BY <2>1, <3>3, <3>4 DEF p11, If
  <2>2. CASE ~hood
    <3>1. S5 \cap Role \subseteq S6 \cap Role
      BY DEF S6
    <3>2. p11 = p10
      BY <1>5, <1>21, <2>2 DEF p11, If
    <3> QED
      BY <1>4, <1>21, <3>1, <3>2
  <2> QED
    BY <2>1, <2>2
<1>23. Piece(p12, S6 \cap Role, Role)
  <2>1. CASE aegura
    BY <1>1, <1>2, <1>9, <1>22, <2>1, AvatarStepKinds DEF p12, If
  <2>2. CASE ~aegura
    BY <1>5, <1>22, <2>2 DEF p12, If
  <2> QED
    BY <2>1, <2>2
<1>24. Piece(p13, S6 \cap Role, Role)
  BY <1>2, <1>9, <1>23, AvatarStepKinds DEF p13
<1>25. Piece(AvatarScript, S6 \cap Role, Role)
  <2>1. <<Link(AllPlayers, PlayerInfo)>> \in Seq(AvatarBuilds)
    BY AvatarStepKinds
  <2> QED
    BY <1>2, <1>7, <1>9, <1>24, <2>1
<1>26. /\ <<Age("relto"), AgesIOwn>> \in LinksOf(AvatarScript)
       /\ <<Player, PlayerInfo>> \in LinksOf(AvatarScript)
  <2>1. \A s, u \in Seq(AvatarSteps) : ToSet(s \o u) = ToSet(s) \cup ToSet(u)
    BY SetOf
  <2>2. \A s, u : \A A : Piece(s \o u, A, Role) => s \o u \in Seq(AvatarSteps)
    BY DEF Piece
  <2>3. Link(Age("relto"), AgesIOwn) \in ToSet(p9)
    <3>1. <<Link(Age("relto"), AgesIOwn)>> \in Seq(AvatarSteps)
      BY AvatarStepKinds DEF AvatarBuilds
    <3>2. ToSet(<<Link(Age("relto"), AgesIOwn)>>) = {Link(Age("relto"), AgesIOwn)}
      BY DEF ToSet
    <3> QED
      BY <1>19, <2>1, <3>1, <3>2 DEF p9, Piece
  <2>4. LinkToAge("relto") \in Seq(AvatarSteps) /\ NewChild(Player, AgesICanVisit) \in Seq(AvatarSteps)
        /\ <<Link(AllPlayers, PlayerInfo)>> \in Seq(AvatarSteps)
    <3>1. AvatarBuilds \subseteq AvatarSteps
      BY DEF AvatarBuilds
    <3> QED
      BY <1>1, <3>1, AvatarStepKinds
  <2>5. ToSet(p9) \subseteq ToSet(p10)
    BY <1>20, <2>1, <2>4 DEF p10, Piece
  <2>6. ToSet(p10) \subseteq ToSet(p11)
    <3>1. If(hood, OwnAge("hood") \o LinkToAge("hood")) \in Seq(AvatarSteps)
      <4>1. CASE hood
        <5>1. LinkToAge("hood") \in Seq(AvatarBuilds) /\ AvatarBuilds \subseteq AvatarSteps
          BY <1>1, <4>1, AvatarStepKinds DEF AvatarBuilds
        <5>2. Find(AgeOwners("hood")) \in AvatarSteps
              /\ Link(AgeOwners("hood"), PlayerInfo) \in AvatarBuilds
          BY <1>1, <4>1, AvatarStepKinds
        <5>3. OwnAge("hood") \in Seq(AvatarSteps) /\ LinkToAge("hood") \in Seq(AvatarSteps)
          BY <5>1, <5>2 DEF OwnAge
        <5> QED
          BY <4>1, <5>3, ConcatProperties DEF If
      <4>2. CASE ~hood
        BY <4>2 DEF If
      <4> QED
        BY <4>1, <4>2
    <3> QED
      BY <1>21, <2>1, <3>1 DEF p11, Piece
  <2>7. ToSet(p11) \subseteq ToSet(p12)
    <3>1. If(aegura, LinkToAge("aegura")) \in Seq(AvatarSteps)
      <4>1. CASE aegura
        <5>1. LinkToAge("aegura") \in Seq(AvatarBuilds) /\ AvatarBuilds \subseteq AvatarSteps
          BY <1>1, <4>1, AvatarStepKinds DEF AvatarBuilds
        <5> QED
          BY <4>1, <5>1 DEF If
      <4>2. CASE ~aegura
        BY <4>2 DEF If
      <4> QED
        BY <4>1, <4>2
    <3> QED
      BY <1>22, <2>1, <3>1 DEF p12, Piece
  <2>8. ToSet(p12) \subseteq ToSet(p13)
    BY <1>23, <2>1, <2>4 DEF p13, Piece
  <2>9. ToSet(p13) \subseteq ToSet(AvatarScript)
    BY <1>7, <1>24, <2>1, <2>4 DEF Piece
  <2>10. Link(Age("relto"), AgesIOwn) \in ToSet(AvatarScript)
    BY <2>3, <2>5, <2>6, <2>7, <2>8, <2>9
  <2> DEFINE four == <<Make(Player), Make(PlayerInfo), Link(Player, System),
                       Link(Player, PlayerInfo)>>
  <2>11. Link(Player, PlayerInfo) \in ToSet(p4)
    <3>1. four \in Seq(AvatarSteps) /\ Link(Player, PlayerInfo) \in ToSet(four)
      <4>1. 4 \in 1..Len(four) /\ four[4] = Link(Player, PlayerInfo)
        OBVIOUS
      <4>2. four \in Seq(AvatarBuilds) /\ AvatarBuilds \subseteq AvatarSteps
        BY AvatarStepKinds DEF AvatarBuilds
      <4> QED
        BY <4>1, <4>2 DEF ToSet
    <3> HIDE DEF four
    <3>2. p3 \in Seq(AvatarSteps) /\ p4 = p3 \o four
      BY <1>13 DEF p4, Piece, four
    <3> QED
      BY <2>1, <3>1, <3>2
  <2>12. \A s \in Seq(AvatarBuilds) : s \in Seq(AvatarSteps)
    BY DEF AvatarBuilds
  <2>13. ToSet(p4) \subseteq ToSet(p5) /\ ToSet(p5) \subseteq ToSet(p6)
    BY <1>14, <1>15, <2>1, <2>12, AvatarStepKinds DEF p5, p6, Piece
  <2>14. ToSet(p6) \subseteq ToSet(p7)
    <3>1. <<FindOrMake(AgeInfo("relto"))>> \in Seq(AvatarSteps)
      BY AvatarStepKinds
    <3> QED
      BY <1>16, <2>1, <3>1 DEF p7, Piece
  <2>15. ToSet(p7) \subseteq ToSet(p8)
    <3>1. Find(AgeOwners("relto")) \in AvatarSteps
          /\ Link(AgeOwners("relto"), PlayerInfo) \in AvatarSteps
      BY <1>1, AvatarStepKinds DEF AvatarBuilds
    <3>2. OwnAge("relto") \in Seq(AvatarSteps)
      BY <3>1 DEF OwnAge
    <3> QED
      BY <1>17, <2>1, <3>2 DEF p8, Piece
  <2>16. ToSet(p8) \subseteq ToSet(p9)
    <3>1. <<Link(Age("relto"), AgesIOwn)>> \in Seq(AvatarSteps)
      BY AvatarStepKinds DEF AvatarBuilds
    <3>2. p8 \in Seq(AvatarSteps)
      BY <1>19 DEF Piece
    <3>3. p9 = p8 \o <<Link(Age("relto"), AgesIOwn)>>
      BY DEF p9
    <3> QED
      BY <2>1, <3>1, <3>2, <3>3
  <2>17. Link(Player, PlayerInfo) \in ToSet(AvatarScript)
    BY <2>5, <2>6, <2>7, <2>8, <2>9, <2>11, <2>13, <2>14, <2>15, <2>16
  <2> QED
    BY <2>10, <2>17 DEF LinksOf, Link
<1> QED
  BY <1>25, <1>26 DEF Piece, Clear

\* What the server's start goes through, and what it looks up.
LEMMA SetupScriptSteps ==
    /\ SetupScript \in Seq(BootSteps) /\ Ordered(SetupScript)
    /\ \A i \in StaticSet : Step("static", AgeInfo(i)) \in ToSet(SetupScript)
    /\ \A s \in ToSet(SetupScript) : s.op \in {"findOrMake", "static"}
<1> DEFINE first == <<FindOrMake(System), FindOrMake(AllPlayers)>>
           statics == [k \in DOMAIN Static |-> Step("static", AgeInfo(Static[k]))]
           S == {s \in BootSteps : s.op \in {"findOrMake", "static"}}
<1>1. /\ {System, AllPlayers} \subseteq Role /\ System # AllPlayers
      /\ \A i \in StaticSet : /\ AgeInfo(i) \in Role /\ AgeInfo(i) \notin {System, AllPlayers}
                              /\ i \in AgeTree
      /\ \A i, j : AgeInfo(i) = AgeInfo(j) => i = j
  BY AgeTrees DEF AgeInfo, System, AllPlayers
<1>2. /\ \A r \in {System, AllPlayers} : FindOrMake(r) \in S
      /\ \A i \in StaticSet : Step("static", AgeInfo(i)) \in S
      /\ \A r : FindOrMake(r).at = r /\ FindOrMake(r).op = "findOrMake"
      /\ \A r : Step("static", r).at = r /\ Step("static", r).op = "static"
  BY <1>1 DEF FindOrMake, Step, BootSteps, StepType, Op
<1>3. /\ Static \in Seq(StaticSet) /\ Len(Static) \in Nat /\ DOMAIN Static = 1..Len(Static)
      /\ \A k \in 1..Len(Static) : Static[k] \in StaticSet
      /\ \A j, k \in 1..Len(Static) : Static[j] = Static[k] => j = k
      /\ \A i \in StaticSet : \E k \in 1..Len(Static) : i = Static[k]
  <2>1. Static \in Seq(StaticSet) /\ IsInjective(Static)
    BY TreesAssumption DEF TreesAssumption, StaticSet
  <2>2. Len(Static) \in Nat /\ DOMAIN Static = 1..Len(Static)
    BY <2>1
  <2> QED
    BY <2>1, <2>2 DEF StaticSet, ToSet, IsInjective
<1>4. first \in Seq(S) /\ ToSet(first) = {FindOrMake(System), FindOrMake(AllPlayers)}
  <2>1. ToSet(first) = {FindOrMake(System), FindOrMake(AllPlayers)}
    BY DEF ToSet
  <2> QED
    BY <1>2, <2>1
<1>5. /\ statics \in Seq(S) /\ Len(statics) = Len(Static)
      /\ \A k \in 1..Len(Static) : statics[k] = Step("static", AgeInfo(Static[k]))
  <2>1. statics \in [1..Len(Static) -> S]
    BY <1>2, <1>3
  <2>2. statics \in Seq(S)
    BY <1>3, <2>1, SeqDef
  <2> QED
    BY <1>3, <2>2
<1>6. SetupScript = first \o statics
  BY DEF SetupScript
<1> HIDE DEF first, statics
<1>7. ToSet(SetupScript) = ToSet(first) \cup ToSet(statics) /\ SetupScript \in Seq(S)
  BY <1>4, <1>5, <1>6, SetOf, ConcatProperties
<1>8. /\ \A k \in 1..Len(statics) : statics[k] \in ToSet(statics)
      /\ \A x \in ToSet(statics) : \E k \in 1..Len(statics) : x = statics[k]
  BY <1>5 DEF ToSet
<1>9. Ordered(first)
  <2>1. Len(first) = 2 /\ first[1] = FindOrMake(System) /\ first[2] = FindOrMake(AllPlayers)
    BY DEF first
  <2> QED
    BY <1>1, <1>2, <2>1 DEF Ordered, Settles
<1>10. Ordered(statics)
  <2> SUFFICES ASSUME NEW j \in 1..Len(statics), NEW k \in 1..Len(statics), j < k
               PROVE  statics[j].at # statics[k].at
    BY DEF Ordered
  <2>1. statics[j].at = AgeInfo(Static[j]) /\ statics[k].at = AgeInfo(Static[k])
    BY <1>2, <1>5
  <2> QED
    BY <1>1, <1>3, <1>5, <2>1
<1>11. Ordered(SetupScript)
  <2>1. \A x \in ToSet(first), y \in ToSet(statics) : x.at # y.at
    BY <1>1, <1>2, <1>3, <1>4, <1>5, <1>8
  <2> QED
    BY <1>4, <1>5, <1>6, <1>9, <1>10, <2>1, OrderedJoin
<1>12. ASSUME NEW i \in StaticSet PROVE Step("static", AgeInfo(i)) \in ToSet(SetupScript)
  BY <1>3, <1>5, <1>7, <1>8
<1>13. \A s \in ToSet(SetupScript) : s.op \in {"findOrMake", "static"}
  BY <1>7, SetOf
<1>14. SetupScript \in Seq(BootSteps)
  <2>1. S \subseteq BootSteps
    OBVIOUS
  <2> QED
    BY <1>7, <2>1
<1> QED
  BY <1>11, <1>12, <1>13, <1>14

LEMMA StaticScriptSteps ==
    ASSUME NEW i \in StaticSet
    PROVE  /\ StaticScript(i) \in Seq(BootSteps)
           /\ ToSet(StaticScript(i)) = {FindOrMake(AgeInfo(i)), Step("publish", AgeInfo(i))}
           /\ Clear(StaticScript(i), {AgeInfo(i)}, {AgeInfo(i)})
<1> DEFINE x == FindOrMake(AgeInfo(i))
           y == Step("publish", AgeInfo(i))
<1>1. /\ x \in BootSteps /\ y \in BootSteps /\ x.at = AgeInfo(i) /\ y.at = AgeInfo(i)
      /\ y.op = "publish"
  <2>1. AgeInfo(i) \in Role
    BY AgeTrees
  <2> QED
    BY <2>1 DEF FindOrMake, Step, BootSteps, StepType, Op
<1>2. StaticScript(i) = <<x, y>>
  BY DEF StaticScript
<1> HIDE DEF x, y
<1>3. ToSet(<<x, y>>) = {x, y} /\ Len(<<x, y>>) = 2 /\ <<x, y>>[1] = x /\ <<x, y>>[2] = y
  <2>1. ToSet(<<x, y>>) = {x, y}
    BY DEF ToSet
  <2> QED
    BY <2>1
<1>4. ~Unsettles(y)
  BY <1>1 DEF Unsettles, Searching
<1>5. Ordered(<<x, y>>)
  BY <1>3, <1>4 DEF Ordered
<1>6. <<x, y>> \in Seq(BootSteps) /\ <<x, y>> \in Seq(StepType)
  BY <1>1 DEF BootSteps
<1> QED
  BY <1>1, <1>2, <1>3, <1>5, <1>6 DEF Clear, x, y

LEMMA VaultScriptSteps ==
    ASSUME NEW r \in {System, AllPlayers}
    PROVE  /\ TreeScript(r) \in Seq(BootSteps) /\ Clear(TreeScript(r), {}, {q \in Role : q[1] = "vault"})
           /\ \A s \in ToSet(TreeScript(r)) :
                 /\ (s.op = "make" /\ s.at = r) \/ s.at \notin {System, AllPlayers} \/ s.op = "link"
                 /\ s.op \in {"make", "link"} /\ s.at[1] = "vault"
<1> DEFINE inbox == <<"vault", "globalInbox">>
           S == {s \in BootSteps : s.op \in {"make", "link"}}
<1>1. /\ {System, AllPlayers, inbox} \subseteq Role /\ System # AllPlayers
      /\ inbox \notin {System, AllPlayers} /\ System[1] = "vault" /\ AllPlayers[1] = "vault"
  BY AgeTrees DEF System, AllPlayers
<1>2. /\ Make(System) \in S /\ Make(AllPlayers) \in S /\ Make(inbox) \in S /\ Link(System, inbox) \in S
      /\ \A q : Make(q).at = q /\ Make(q).op = "make"
      /\ \A p, q : Link(p, q).at = p /\ Link(p, q).op = "link"
  BY <1>1 DEF Make, Link, Step, S, BootSteps, StepType, Op
<1>3. /\ r = System => TreeScript(r) = <<Make(System)>> \o <<Make(inbox), Link(System, inbox)>>
      /\ r = AllPlayers => TreeScript(r) = <<Make(AllPlayers)>>
  BY <1>1 DEF TreeScript, NewChild
<1> HIDE DEF inbox
<1>4. /\ <<Make(System)>> \in Seq(S) /\ <<Make(inbox), Link(System, inbox)>> \in Seq(S)
      /\ <<Make(AllPlayers)>> \in Seq(S)
  BY <1>2
<1>5. /\ ToSet(<<Make(System)>>) = {Make(System)} /\ ToSet(<<Make(AllPlayers)>>) = {Make(AllPlayers)}
      /\ ToSet(<<Make(inbox), Link(System, inbox)>>) = {Make(inbox), Link(System, inbox)}
  BY DEF ToSet
<1>6. TreeScript(r) \in Seq(S)
  BY <1>3, <1>4, ConcatProperties
<1>7. \A s \in ToSet(TreeScript(r)) : s \in {Make(r), Make(inbox), Link(System, inbox)}
  <2>1. ToSet(<<Make(System)>> \o <<Make(inbox), Link(System, inbox)>>) =
          {Make(System)} \cup {Make(inbox), Link(System, inbox)}
    <3>1. \A u, v \in Seq(S) : ToSet(u \o v) = ToSet(u) \cup ToSet(v)
      BY SetOf
    <3> QED
      BY <1>4, <1>5, <3>1
  <2> QED
    BY <1>3, <1>5, <2>1
<1>8. TreeScript(r) \in Seq(PlainStep) /\ TreeScript(r) \in Seq(BootSteps)
  <2>1. S \subseteq PlainStep /\ S \subseteq BootSteps
    BY DEF PlainStep, Settles, Searching, BootSteps
  <2> QED
    BY <1>6, <2>1
<1>9. \A s \in ToSet(TreeScript(r)) :
         /\ (s.op = "make" /\ s.at = r) \/ s.at \notin {System, AllPlayers} \/ s.op = "link"
         /\ s.op \in {"make", "link"} /\ s.at[1] = "vault" /\ s.at \in Role
  BY <1>1, <1>2, <1>7 DEF inbox
<1>10. Clear(TreeScript(r), {}, {q \in Role : q[1] = "vault"})
  BY <1>8, <1>9, ClearPlain
<1> QED
  BY <1>8, <1>9, <1>10

-----------------------------------------------------------------------------
(* The invariant.  Each call keeps to its script, and finds or builds each  *)
(* tree of an age once; a tree that it builds has all of its links or goes  *)
(* on to make them.                                                         *)

Asks(t) == t \in Call /\ load.jobs[t].kind = "createAge"

DeletionSteps ==
    {s \in StepType : s.op \in {"fetch", "kick", "offline", "unlink", "next", "remove", "delete"}}

\* What a call may ever have left to do, and what it has left.
Scope(t) ==
    IF Creates(t) THEN {Step("name", Player)} \cup AvatarSteps \cup AgeSteps("relto")
    ELSE IF Deletes(t) THEN DeletionSteps
    ELSE IF t \in Call THEN {FindOrMake(AgeInfo("shared"))} \cup AgeSteps("shared")
    ELSE BootSteps \cup StaticSteps

Left(t) == ToSet(task[t].todo)

Scoped(t) ==
    /\ Left(t) \subseteq Scope(t) /\ Ordered(task[t].todo)
    /\ task[t].status # "running" => task[t].todo = <<>>

\* A call that has neither found nor made anything.
Bare(t) == task[t].found = {} /\ \A n \in nodes : n[1] # t

BareFirst(t) ==
    /\ task[t].status = "idle" \/ Step("name", Player) \in Left(t) => Bare(t)
    /\ Deletes(t) => \A n \in nodes : n[1] # t

Seeking(t, r) == \E s \in Left(t) : s.op \in Searching /\ s.at = r
Looking(t, r) == \E s \in Left(t) : s.op \in {"find", "findOrMake"} /\ s.at = r
Making(t, r) == \E s \in Left(t) : s.op = "make" /\ s.at = r
Publishing(t, r) == \E s \in Left(t) : s.op = "publish" /\ s.at = r
Found(t, r) == \E f \in task[t].found : f[1] = r

\* A step of the script of an age's tree, but for the search for the System node.
AgeStep(s, i) ==
    \/ s.op = "make" /\ s.at[1] = i /\ s.at[2] # "link"
    \/ s.op = "link" /\ s.at \in {Age(i), AgeInfo(i)} /\ s.child # AgesIOwn

Building(t, i) ==
    \/ \E n \in nodes : n[1] = t /\ n[2] = i /\ n[3] # "link"
    \/ \E s \in Left(t) : AgeStep(s, i)

Live(t) == task[t].status \in {"running", "returned"}

\* What is looked for was not found before, and a tree of an age is built or found.
Phases(t) ==
    /\ \A r \in Role : ~(Seeking(t, r) /\ Found(t, r) /\ r # System)
    /\ \A i \in AgeTree :
        /\ ~(Seeking(t, AgeInfo(i)) /\ Building(t, i))
        /\ ~(Found(t, AgeInfo(i)) /\ Building(t, i))
        /\ Building(t, i) /\ Live(t) => Info(t, i) \in nodes \/ Making(t, AgeInfo(i))

\* What a call has found exists, and is what it looked for.
Finds(t) ==
    \A f \in task[t].found :
        IF Deletes(t) THEN f[1] = Player
        ELSE /\ f[2] \in nodes /\ f[2][3] = f[1][2]
             /\ \/ f[1] \in {System, AllPlayers} /\ f[2][2] = "vault"
                \/ \E i \in AgeTree : f[1] = AgeInfo(i)
                \/ \E i \in AgeTree : f[1] = AgeOwners(i) /\ <<At(t, AgeInfo(i)), f[2]>> \in refs

Linked(t, l) == <<At(t, l[1]), At(t, l[2])>> \in refs
Pledged(t, l) == Linked(t, l) \/ l \in LinksOf(task[t].todo)

Wholes(t) ==
    Live(t) => \A i \in AgeTree : Building(t, i) =>
                  \A l \in LinksOf(AgeScript(i)) : Pledged(t, l)

\* A creation of an avatar that no deletion has found.
Avatars(t) ==
    Creates(t) /\ Live(t) /\ DeletionsOf(t) = {} =>
        \/ Step("name", Player) \in Left(t)
        \/ /\ \A l \in LinksOf(AvatarScript) : Pledged(t, l)
           /\ Building(t, "relto") \/ <<Age("relto"), AgesIOwn>> \in LinksOf(task[t].todo)

Asking(t) ==
    Asks(t) /\ Live(t) =>
        Seeking(t, AgeInfo("shared")) \/ Building(t, "shared") \/ Found(t, AgeInfo("shared"))

\* What a start goes on to publish it has found, or has made.
Publishes(t) ==
    Live(t) => \A r \in Role : Publishing(t, r) =>
        Looking(t, r) \/ Found(t, r) \/ \E i \in AgeTree : r = AgeInfo(i) /\ Building(t, i)

CallInv(t) ==
    /\ Scoped(t) /\ BareFirst(t) /\ Phases(t) /\ Finds(t)
    /\ Wholes(t) /\ Avatars(t) /\ Asking(t) /\ Publishes(t)

\* There is one System node, and one All Players folder.
OneVault ==
    \A r \in {System, AllPlayers} :
        /\ \A m, n \in nodes : <<m[2], m[3]>> = r /\ <<n[2], n[3]>> = r => m = n
        /\ \A t \in Task : Making(t, r) =>
              t \notin Call /\ \A n \in nodes : <<n[2], n[3]>> = r => n[1] = t

\* What nodes and references there are.
Kinds ==
    /\ \A ref \in refs : ref[1][3] = "ageInfo" =>
          ref[2][1] = ref[1][1] /\ ref[2][2] = ref[1][2]
    /\ \A n \in nodes : n[3] = "ageInfo" => n[2] \in AgeTree
    /\ \A n \in public : n \in nodes /\ n[3] = "ageInfo"
    /\ \A p \in playing : p = PlayerOf(p[1]) /\ p[1] \in Call

\* The starts to come.
Waiting == \A k \in DOMAIN Boot : k > boot => task[Boot[k]].status = "idle"

TreeInv == (\A t \in Task : CallInv(t)) /\ OneVault /\ Kinds /\ Waiting

-----------------------------------------------------------------------------
(* The steps of the methods, as what they do to the lists.                  *)

\* What is left, before and after its first step.
LEMMA Parts ==
    ASSUME Sound, NEW t \in Task, task[t].status = "running"
    PROVE  /\ task[t].todo \in Seq(StepType) /\ task[t].todo # <<>>
           /\ Head(task[t].todo) \in StepType /\ Rest(t) \in Seq(StepType)
           /\ Left(t) = {Head(task[t].todo)} \cup ToSet(Rest(t)) /\ Left(t) \subseteq StepType
           /\ LinksOf(Rest(t)) \subseteq LinksOf(task[t].todo)
           /\ LinksOf(task[t].todo) \subseteq
                 {<<Here(t), Head(task[t].todo).child>>} \cup LinksOf(Rest(t))
           /\ Head(task[t].todo).op # "link" => LinksOf(task[t].todo) = LinksOf(Rest(t))
<1>1. PICK todo \in Seq(StepType) : todo = task[t].todo
  BY Known DEF Sound, TaskState
<1>2. todo # <<>>
  BY <1>1 DEF Sound, Scripted, ScriptedOf
<1>3. Head(todo) \in StepType /\ Tail(todo) \in Seq(StepType)
  BY <1>2
<1>4. ToSet(todo) = {Head(todo)} \cup ToSet(Tail(todo)) /\ ToSet(todo) \subseteq StepType
  BY <1>2, SetOf
<1>5. /\ LinksOf(Tail(todo)) \subseteq LinksOf(todo)
      /\ LinksOf(todo) \subseteq {<<Head(todo).at, Head(todo).child>>} \cup LinksOf(Tail(todo))
      /\ Head(todo).op # "link" => LinksOf(todo) = LinksOf(Tail(todo))
  BY <1>2, LinksFacts
<1> QED
  BY <1>1, <1>2, <1>3, <1>4, <1>5 DEF Rest, Left, Here

\* What is left of a call that goes on with a script, and then the rest.
LEMMA Joined ==
    ASSUME NEW script \in Seq(StepType), NEW rest \in Seq(StepType)
    PROVE  /\ ToSet(script \o rest) = ToSet(script) \cup ToSet(rest)
           /\ LinksOf(script \o rest) = LinksOf(script) \cup LinksOf(rest)
BY SetOf, LinksFacts

Keeps(t) == task'[t].found = task[t].found
Goes(t, todo) ==
    /\ task'[t].todo = todo
    /\ task'[t].status = IF todo = <<>> THEN "returned" ELSE "running"
Still == UNCHANGED <<nodes, refs, public, instance>>

StopTurn(t) ==
    /\ task'[t].status \in {"raised", "failed"} /\ task'[t].todo = <<>> /\ Keeps(t) /\ Still

MakeTurn(t) ==
    /\ Head(task[t].todo).op = "make" /\ Goes(t, Rest(t)) /\ Keeps(t)
    /\ nodes' = nodes \cup {<<t, Here(t)[1], Here(t)[2]>>}
    /\ public' \in {public, public \cup {<<t, Here(t)[1], Here(t)[2]>>}}
    /\ public' # public => Here(t)[2] = "ageInfo"
    /\ UNCHANGED <<refs, instance>>

LinkTurn(t) ==
    LET ref == <<At(t, Here(t)), At(t, Head(task[t].todo).child)>>
    IN  /\ Head(task[t].todo).op = "link" /\ Goes(t, Rest(t)) /\ Keeps(t)
        /\ ref[1] \in nodes /\ ref[2] \in nodes /\ refs' = refs \cup {ref}
        /\ UNCHANGED <<nodes, public, instance>>

FindTurn(t) ==
    /\ Head(task[t].todo).op \in {"find", "findOrMake"} /\ Goes(t, Rest(t)) /\ Still
    /\ \E n \in Matches(t, Here(t)) : task'[t].found = task[t].found \cup {<<Here(t), n>>}

\* The call goes on with a script: of a tree, of an avatar, or of a static instance.
GrowTurn(t, script) ==
    /\ Goes(t, script \o Rest(t)) /\ Keeps(t) /\ Still
    /\ \/ Head(task[t].todo).op = "findOrMake" /\ Matches(t, Here(t)) = {}
             /\ script = TreeScript(Here(t))
       \/ Head(task[t].todo).op = "static" /\ script = StaticScript(Here(t)[1])

NameTurn(t) ==
    /\ Head(task[t].todo).op = "name" /\ Creates(t)
    /\ Goes(t, AvatarScript) /\ Keeps(t) /\ Still

TakeTurn(t) ==
    /\ Head(task[t].todo).op = "static" /\ Goes(t, Rest(t)) /\ Keeps(t)
    /\ \E n \in PublicInstances(Here(t)[1]) : instance' = [instance EXCEPT ![Here(t)[1]] = KeyOf(n)[1]]
    /\ UNCHANGED <<nodes, refs, public>>

PublishTurn(t) ==
    LET n == At(t, Here(t))
    IN  /\ Head(task[t].todo).op = "publish" /\ Goes(t, Rest(t)) /\ Keeps(t)
        /\ public' = public \cup {n} /\ instance' = [instance EXCEPT ![Here(t)[1]] = KeyOf(n)[1]]
        /\ UNCHANGED <<nodes, refs>>

DeleteTurn(t) ==
    /\ Deletes(t) /\ Keeps(t) /\ UNCHANGED <<public, instance>>
    /\ nodes' \in {nodes, nodes \ {Target(t)}}
    /\ refs' = refs \/ (t \in met /\ \E c : refs' = refs \ {<<Target(t), c>>})
    /\ task'[t].todo \in Seq(DeletionSteps)
    /\ task'[t].status \in {"running", "returned", "raised"}
    /\ task'[t].status # "running" => task'[t].todo = <<>>

Turn(t) ==
    \/ StopTurn(t) \/ MakeTurn(t) \/ LinkTurn(t) \/ FindTurn(t) \/ NameTurn(t)
    \/ \E script : GrowTurn(t, script)
    \/ TakeTurn(t) \/ PublishTurn(t) \/ DeleteTurn(t)

LEMMA Afterwards ==
    ASSUME Sound, NEW t \in Task
    PROVE  /\ \A todo : GoOn(t, todo) => Goes(t, todo) /\ Keeps(t)
           /\ \A r, n : GoOnWith(t, r, n) =>
                 Goes(t, Rest(t)) /\ task'[t].found = task[t].found \cup {<<r, n>>}
           /\ \A status : End(t, status) =>
                 task'[t].status = status /\ task'[t].todo = <<>> /\ Keeps(t)
BY Known DEF Sound, GoOn, GoOnWith, End, Going, TaskState, Goes, Keeps

\* Deletions search, make and link nothing.
LEMMA DeletionTodoSteps == DeletionTodos \subseteq Seq(DeletionSteps)
<1>1. UnlinkStep \subseteq DeletionSteps
  BY StepKinds DEF UnlinkStep, DeletionSteps
<1>2. /\ Step("fetch", Player) \in DeletionSteps /\ Step("kick", Player) \in DeletionSteps
      /\ Step("unlink", Player) \in DeletionSteps /\ Step("delete", Player) \in DeletionSteps
  BY <1>1, StepKinds DEF DeletionSteps, Step
<1>3. DeleteScript \in Seq(DeletionSteps) /\ DeleteScript # <<>>
  BY <1>2 DEF DeleteScript
<1>4. Tail(DeleteScript) \in Seq(DeletionSteps)
  BY <1>3
<1>5. Seq(UnlinkStep) \subseteq Seq(DeletionSteps)
  BY <1>1
<1> QED
  BY <1>3, <1>4, <1>5 DEF DeletionTodos

LEMMA DeletionTurns ==
    ASSUME Sound, MetByThen, NEW t \in Task,
           \/ FetchPlayer(t) \/ KickPlayer(t) \/ SetOffline(t) \/ QueryChildren(t)
           \/ NextChild(t) \/ RemoveRef(t) \/ DeleteNode(t)
    PROVE  DeleteTurn(t)
<1>1. Stepped(t) /\ Deletes(t) /\ task[t].status = "running" /\ load' = load
  <2>1. MethodStep(t)
    BY DEF MethodStep
  <2> QED
    BY <2>1, FetchSteps, KickSteps, UnlinkSteps, MethodFrame DEF Stepped, Others
<1>2. At(t, Player) = Target(t) /\ t \in Call
  BY <1>1, AtPlayer DEF Target, Deletes
<1>3. /\ UNCHANGED <<public, instance>>
      /\ nodes' \in {nodes, nodes \ {Target(t)}}
      /\ refs' = refs \/ RemoveRef(t)
  BY <1>1, <1>2 DEF FetchPlayer, KickPlayer, SetOffline, QueryChildren, NextChild, RemoveRef,
     DeleteNode, Server
<1>4. RemoveRef(t) => \/ refs' = refs
                      \/ t \in met /\ \E c : refs' = refs \ {<<Target(t), c>>}
  <2> SUFFICES ASSUME RemoveRef(t)
               PROVE  refs' = refs \/ (t \in met /\ \E c : refs' = refs \ {<<Target(t), c>>})
    OBVIOUS
  <2>1. task[t].todo # DeleteScript
    <3>1. Head(task[t].todo).op = "remove" /\ Head(DeleteScript).op = "fetch"
      BY DEF RemoveRef, On, DeleteScript, Step
    <3> QED
      BY <3>1
  <2>2. t \in met
    BY <1>1, <1>2, <2>1 DEF MetByThen
  <2> QED
    BY <1>2, <2>2 DEF RemoveRef
<1>5. Keeps(t)
  <2>1. CASE QueryChildren(t)
    BY <2>1, Afterwards, Known DEF QueryChildren, Keeps, Sound, TaskState
  <2>2. CASE ~QueryChildren(t)
    BY <2>2, Afterwards DEF FetchPlayer, KickPlayer, SetOffline, NextChild, RemoveRef, DeleteNode
  <2> QED
    BY <2>1, <2>2
<1>6. /\ task'[t].status \in {"running", "returned", "raised"}
      /\ task'[t].status # "running" => task'[t].todo = <<>>
  <2>1. CASE QueryChildren(t)
    <3>1. \/ End(t, "raised")
          \/ /\ task'[t].status = task[t].status
      BY <2>1, Known DEF QueryChildren, Sound, TaskState
    <3> QED
      BY <1>1, <3>1, Afterwards
  <2>2. CASE ~QueryChildren(t)
    <3>1. End(t, "raised") \/ \E todo : GoOn(t, todo)
      BY <2>2 DEF FetchPlayer, KickPlayer, SetOffline, NextChild, RemoveRef, DeleteNode
    <3> QED
      BY <3>1, Afterwards DEF Goes
  <2> QED
    BY <2>1, <2>2
<1>7. task'[t].todo \in Seq(DeletionSteps)
  <2>1. CASE task'[t].status = "running"
    <3>1. Deletes(t)' /\ ~Creates(t)'
      BY <1>1 DEF Deletes, Creates
    <3>2. task'[t].todo \in DeletionTodos
      BY <1>1, <2>1, <3>1 DEF Stepped, Sound, Scripted, ScriptedOf, Todos
    <3> QED
      BY <3>2, DeletionTodoSteps
  <2>2. CASE task'[t].status # "running"
    <3>1. <<>> \in Seq(DeletionSteps)
      OBVIOUS
    <3> QED
      BY <1>6, <2>2, <3>1
  <2> QED
    BY <2>1, <2>2
<1> QED
  BY <1>1, <1>3, <1>4, <1>5, <1>6, <1>7 DEF DeleteTurn

LEMMA Turns ==
    ASSUME Sound, MetByThen, NEW t \in Task, MethodStep(t)
    PROVE  Turn(t)
<1>1. CASE MakeNode(t)
  BY <1>1, Afterwards DEF MakeNode, On, Turn, MakeTurn, IsA, Server
<1>2. CASE AddRef(t)
  <2>1. \/ End(t, "raised") /\ Still
        \/ LinkTurn(t)
    BY <1>2, Afterwards DEF AddRef, On, LinkTurn, Linkable, Server, Still
  <2> QED
    BY <2>1, Afterwards DEF Turn, StopTurn
<1>3. CASE FindNode(t)
  <2>1. \/ End(t, "raised") /\ Still
        \/ FindTurn(t)
    BY <1>3, Afterwards DEF FindNode, On, FindTurn, Server, Still
  <2> QED
    BY <2>1, Afterwards DEF Turn, StopTurn
<1>4. CASE FindOrMakeNode(t)
  <2>1. \/ GrowTurn(t, TreeScript(Here(t)))
        \/ FindTurn(t)
    BY <1>4, Afterwards DEF FindOrMakeNode, On, FindTurn, GrowTurn, Server, Still
  <2> QED
    BY <2>1 DEF Turn
<1>5. CASE CheckName(t)
  <2>1. \/ End(t, "raised") /\ Still
        \/ NameTurn(t)
    BY <1>5, Afterwards, CheckNameSteps DEF CheckName, On, NameTurn, Server, Still
  <2> QED
    BY <2>1, Afterwards DEF Turn, StopTurn
<1>6. CASE PrepareStatic(t)
  <2>1. \/ GrowTurn(t, StaticScript(Here(t)[1]))
        \/ TakeTurn(t)
    BY <1>6, Afterwards DEF PrepareStatic, On, TakeTurn, GrowTurn, Still
  <2> QED
    BY <2>1 DEF Turn
<1>7. CASE Publish(t)
  BY <1>7, Afterwards DEF Publish, Published, On, Turn, PublishTurn
<1>8. CASE Fails(t)
  BY <1>8, Afterwards DEF Fails, Turn, StopTurn, Server, Still
<1>9. CASE \/ FetchPlayer(t) \/ KickPlayer(t) \/ SetOffline(t) \/ QueryChildren(t)
           \/ NextChild(t) \/ RemoveRef(t) \/ DeleteNode(t)
  BY <1>9, DeletionTurns DEF Turn
<1> QED
  BY <1>1, <1>2, <1>3, <1>4, <1>5, <1>6, <1>7, <1>8, <1>9 DEF MethodStep

-----------------------------------------------------------------------------
(* Which node a call refers to, and that this does not change while the     *)
(* node is there.                                                           *)

\* The steps of each kind, by what they are about.
LEMMA ScopeKinds ==
    ASSUME NEW t \in Task, NEW s \in Scope(t)
    PROVE  /\ s \in StepType
           /\ s.op \in {"find", "findOrMake"} =>
                 \/ s.at \in {System, AllPlayers}
                 \/ \E i \in AgeTree : s.at = AgeInfo(i)
                 \/ s.op = "find" /\ \E i \in AgeTree : s.at = AgeOwners(i)
           /\ s.op \in {"static", "publish"} =>
                 t \notin Call /\ \E i \in StaticSet : s.at = AgeInfo(i)
           /\ s.op = "findOrMake" /\ s.at \in {System, AllPlayers} => t \notin Call
           /\ s.op = "make" /\ s.at \in {System, AllPlayers} => t \notin Call
           /\ s.op = "make" /\ s.at[2] = "ageInfo" => s.at[1] \in AgeTree
           /\ s.op = "link" /\ s.at[2] = "ageInfo" =>
                 /\ s.at[1] \in AgeTree /\ s.at = AgeInfo(s.at[1]) /\ AgeStep(s, s.at[1])
                 /\ s.child[1] = s.at[1] /\ s.child[2] \notin {"player", "ageInfo"}
           /\ s.op = "link" => s.child[2] # "player"
           /\ s.op = "name" => Creates(t) /\ s = Step("name", Player)
           /\ s.op \in Searching \cup {"make", "link", "publish", "name"} => ~Deletes(t)
<1>1. /\ StaticSet \cup {"relto", "shared"} \subseteq AgeTree
      /\ \A i \in AgeTree : i # "vault" /\ i # "player" /\ AgeInfo(i) \in Role
      /\ Player \in Role
  BY AgeTrees
<1>2. /\ System = <<"vault", "system">> /\ AllPlayers = <<"vault", "allPlayers">>
      /\ Player = <<"player", "player">> /\ AgesIOwn = <<"player", "agesIOwn">>
      /\ \A i : /\ Age(i) = <<i, "age">> /\ AgeInfo(i) = <<i, "ageInfo">>
                /\ AgeOwners(i) = <<i, "ageOwners">>
  BY DEF System, AllPlayers, Player, AgesIOwn, Age, AgeInfo, AgeOwners
<1>3. ASSUME NEW i \in AgeTree, s \in AgeSteps(i)
      PROVE  /\ s \in StepType /\ s.op \in {"find", "make", "link"}
             /\ s.op = "find" => s.at = System
             /\ s.op = "make" => s.at[1] = i /\ s.at \notin {System, AllPlayers}
             /\ s.op = "link" /\ s.at[2] = "ageInfo" =>
                   /\ s.at[1] \in AgeTree /\ s.at = AgeInfo(s.at[1]) /\ AgeStep(s, s.at[1])
                   /\ s.child[1] = s.at[1] /\ s.child[2] \notin {"player", "ageInfo"}
             /\ s.op = "link" => s.child[2] # "player"
  <2>1. /\ s \in StepType /\ s.op \in {"find", "make", "link"}
        /\ s.op = "find" => s.at = System
        /\ s.op = "make" => s.at[1] = i
        /\ s.op = "link" => s.child[2] # "player"
    BY <1>3 DEF AgeSteps
  <2>2. ASSUME s.op = "link", s.at[2] = "ageInfo"
        PROVE  s.at = AgeInfo(i) /\ s.child[1] = i /\ s.child[2] \notin {"player", "ageInfo"}
    BY <1>2, <1>3, <2>2 DEF AgeSteps
  <2>3. ASSUME s.op = "link", s.at[2] = "ageInfo" PROVE s.child # AgesIOwn
    BY <1>1, <1>2, <2>2, <2>3
  <2> QED
    BY <1>1, <1>2, <2>1, <2>2, <2>3 DEF AgeStep
<1>4. ASSUME s \in AvatarSteps
      PROVE  /\ s \in StepType /\ s.op \in {"find", "findOrMake", "make", "link"}
             /\ s.op = "find" => \/ s.at \in {System, AllPlayers}
                                 \/ \E i \in AgeTree : s.at = AgeInfo(i)
                                 \/ \E i \in AgeTree : s.at = AgeOwners(i)
             /\ s.op = "findOrMake" => s.at = AgeInfo("relto")
             /\ s.op = "make" => s.at \notin {System, AllPlayers} /\ s.at[2] # "ageInfo"
             /\ s.op = "link" => s.at[2] # "ageInfo" /\ s.child[2] # "player"
  <2>1. s \in StepType /\ s.at \in Role
    BY <1>4 DEF AvatarSteps, StepType
  <2>2. \A i, part : <<i, part>> \in Role => i \in Tree
    BY DEF Role
  <2>3. \A i \in {"relto", "hood", "aegura"} : i \in Tree => i \in AgeTree
    BY DEF AgeTree
  <2>4. s.op \in {"find", "findOrMake", "make", "link"}
    BY <1>4 DEF AvatarSteps
  <2>5. s.op = "find" => \/ s.at \in {System, AllPlayers}
                         \/ \E i \in AgeTree : s.at = AgeInfo(i)
                         \/ \E i \in AgeTree : s.at = AgeOwners(i)
    BY <1>2, <1>4, <2>1, <2>2, <2>3 DEF AvatarSteps
  <2>6. s.op = "make" => s.at \notin {System, AllPlayers} /\ s.at[2] # "ageInfo"
    BY <1>2, <1>4 DEF AvatarSteps
  <2> QED
    BY <1>4, <2>1, <2>4, <2>5, <2>6 DEF AvatarSteps
<1>5. ASSUME s \in BootSteps
      PROVE  /\ s \in StepType /\ s.op \in {"findOrMake", "static", "publish", "make", "link"}
             /\ s.op = "findOrMake" => s.at \in {System, AllPlayers} \/ \E i \in AgeTree : s.at = AgeInfo(i)
             /\ s.op \in {"static", "publish"} => \E i \in StaticSet : s.at = AgeInfo(i)
             /\ s.op = "make" => s.at[2] # "ageInfo"
             /\ s.op = "link" => s.at[2] # "ageInfo" /\ s.child[2] # "player"
  BY <1>1, <1>2, <1>5 DEF BootSteps
<1>6. CASE Creates(t)
  <2>1. s = Step("name", Player) \/ s \in AvatarSteps \/ s \in AgeSteps("relto")
    BY <1>6 DEF Scope
  <2>2. ~Deletes(t)
    BY <1>6 DEF Creates, Deletes
  <2>3. CASE s = Step("name", Player)
    <3>1. s.op = "name" /\ s \in StepType
      BY <2>3, StepKinds DEF Step
    <3> QED
      BY <1>6, <2>2, <2>3, <3>1
  <2>4. CASE s \in AvatarSteps
    BY <1>1, <1>2, <1>4, <2>2, <2>4
  <2>5. CASE s \in AgeSteps("relto")
    BY <1>1, <1>3, <2>2, <2>5
  <2> QED
    BY <2>1, <2>3, <2>4, <2>5
<1>7. CASE ~Creates(t) /\ Deletes(t)
  BY <1>7 DEF Scope, DeletionSteps, Searching
<1>8. CASE ~Creates(t) /\ ~Deletes(t) /\ t \in Call
  <2>1. s = FindOrMake(AgeInfo("shared")) \/ s \in AgeSteps("shared")
    BY <1>8 DEF Scope
  <2>2. CASE s = FindOrMake(AgeInfo("shared"))
    <3>1. s.op = "findOrMake" /\ s \in StepType /\ s.at = AgeInfo("shared")
      BY <1>1, <2>2 DEF FindOrMake, Step, StepType, Op
    <3> QED
      BY <1>1, <1>2, <1>8, <3>1
  <2>3. CASE s \in AgeSteps("shared")
    BY <1>1, <1>3, <1>8, <2>3
  <2> QED
    BY <2>1, <2>2, <2>3
<1>9. CASE t \notin Call
  <2>1. s \in BootSteps \/ \E i \in StaticSet : s \in AgeSteps(i)
    BY <1>9 DEF Scope, Creates, Deletes, StaticSteps
  <2>2. ~Deletes(t)
    BY <1>9 DEF Deletes
  <2>3. CASE s \in BootSteps
    BY <1>1, <1>2, <1>5, <1>9, <2>2, <2>3
  <2>4. ASSUME NEW i \in StaticSet, s \in AgeSteps(i)
        PROVE  /\ i \in AgeTree /\ s.op \in {"find", "make", "link"}
    BY <1>1, <1>3, <2>4
  <2> QED
    BY <1>1, <1>3, <1>9, <2>1, <2>2, <2>3, <2>4
<1> QED
  BY <1>6, <1>7, <1>8, <1>9 DEF Creates, Deletes

LEMMA AtCases ==
    ASSUME Sound, NEW t \in Task, NEW r
    PROVE  /\ ~Found(t, r) => At(t, r) = <<t, r[1], r[2]>>
           /\ Found(t, r) => <<r, At(t, r)>> \in task[t].found
<1> DEFINE found == {f \in task[t].found : f[1] = r}
<1>1. task[t].found \subseteq Role \X Node
  BY Known DEF Sound, TaskState
<1>2. ~Found(t, r) <=> found = {}
  BY DEF Found
<1>3. ASSUME found # {} PROVE <<r, At(t, r)>> \in task[t].found
  <2>1. (CHOOSE f \in found : TRUE) \in found
    BY <1>3
  <2>2. \A f \in found : f = <<r, f[2]>> /\ f \in task[t].found
    BY <1>1
  <2>3. At(t, r) = (CHOOSE f \in found : TRUE)[2]
    BY <1>3 DEF At
  <2> HIDE DEF found
  <2> QED
    BY <2>1, <2>2, <2>3
<1> QED
  BY <1>2, <1>3 DEF At

\* What a node that a call refers to may be.
LEMMA AtKinds ==
    ASSUME Sound, TreeInv, NEW t \in Task, ~Deletes(t)
    PROVE  /\ \A r \in Role : At(t, r)[3] = r[2]
           /\ \A r \in Role : r \notin {System, AllPlayers} /\
                 (\A i \in AgeTree : r # AgeInfo(i) /\ r # AgeOwners(i)) =>
                    ~Found(t, r) /\ At(t, r) = <<t, r[1], r[2]>>
           /\ \A r \in {System, AllPlayers} : At(t, r) \in Node /\ <<At(t, r)[2], At(t, r)[3]>> = r
           /\ \A i \in AgeTree : At(t, Age(i)) = <<t, i, "age">>
           /\ \A i \in AgeTree : Building(t, i) => At(t, AgeInfo(i)) = Info(t, i)
           /\ At(t, Player) = PlayerOf(t) /\ At(t, PlayerInfo) = <<t, "player", "playerInfo">>
           /\ \A r : Found(t, r) => At(t, r) \in nodes
<1>1. CallInv(t)
  BY DEF TreeInv
<1>2. \A f \in task[t].found :
          /\ f[2] \in nodes /\ f[2][3] = f[1][2]
          /\ \/ f[1] \in {System, AllPlayers} /\ f[2][2] = "vault"
             \/ \E i \in AgeTree : f[1] = AgeInfo(i) \/ f[1] = AgeOwners(i)
  BY <1>1 DEF CallInv, Finds
<1>3. /\ System = <<"vault", "system">> /\ AllPlayers = <<"vault", "allPlayers">>
      /\ Player = <<"player", "player">> /\ PlayerInfo = <<"player", "playerInfo">>
      /\ \A i : /\ Age(i) = <<i, "age">> /\ AgeInfo(i) = <<i, "ageInfo">>
                /\ AgeOwners(i) = <<i, "ageOwners">>
      /\ {System, AllPlayers, Player, PlayerInfo} \subseteq Role
      /\ \A i \in AgeTree : Age(i) \in Role /\ AgeInfo(i) \in Role
  BY AgeTrees DEF System, AllPlayers, Player, PlayerInfo, Age, AgeInfo, AgeOwners
<1>4. \A r : Found(t, r) => /\ <<r, At(t, r)>> \in task[t].found
                            /\ At(t, r) \in nodes /\ At(t, r)[3] = r[2]
  BY <1>2, AtCases
<1>5. \A r : ~Found(t, r) => At(t, r) = <<t, r[1], r[2]>>
  BY AtCases
<1>6. \A r : r \notin {System, AllPlayers} /\
                 (\A i \in AgeTree : r # AgeInfo(i) /\ r # AgeOwners(i)) => ~Found(t, r)
  BY <1>2 DEF Found
<1>7. ASSUME NEW r \in {System, AllPlayers}
      PROVE  At(t, r) \in Node /\ <<At(t, r)[2], At(t, r)[3]>> = r
  <2>1. At(t, r) \in Node
    BY <1>3, AtType
  <2>2. CASE Found(t, r)
    <3>1. PICK f \in task[t].found : f[1] = r /\ f[2] = At(t, r)
      <4>1. <<r, At(t, r)>> \in task[t].found
        BY <1>4, <2>2
      <4> QED
        BY <4>1
    <3>2. At(t, r)[2] = "vault" /\ At(t, r)[3] = r[2]
      BY <1>2, <1>3, <3>1
    <3> QED
      BY <1>3, <2>1, <3>2
  <2>3. CASE ~Found(t, r)
    BY <1>3, <1>5, <2>1, <2>3
  <2> QED
    BY <2>2, <2>3
<1>8. \A i \in AgeTree : Building(t, i) => ~Found(t, AgeInfo(i))
  BY <1>1 DEF CallInv, Phases
<1>9. /\ \A i \in AgeTree : ~Found(t, Age(i)) /\ At(t, Age(i)) = <<t, i, "age">>
      /\ At(t, Player) = PlayerOf(t) /\ At(t, PlayerInfo) = <<t, "player", "playerInfo">>
  BY <1>3, <1>5, <1>6 DEF PlayerOf
<1>10. \A i \in AgeTree : Building(t, i) => At(t, AgeInfo(i)) = Info(t, i)
  BY <1>3, <1>5, <1>8 DEF Info
<1>11. ASSUME NEW r \in Role PROVE At(t, r)[3] = r[2]
  <2>1. CASE Found(t, r)
    BY <1>4, <2>1
  <2>2. CASE ~Found(t, r)
    <3>1. At(t, r) = <<t, r[1], r[2]>>
      BY <1>5, <2>2
    <3> QED
      BY <3>1
  <2> QED
    BY <2>1, <2>2
<1>12. \A r : Found(t, r) => At(t, r) \in nodes
  BY <1>4
<1> QED
  BY <1>5, <1>6, <1>7, <1>9, <1>10, <1>11, <1>12

\* A node that a call refers to, when it exists, is not changed for another one.
LEMMA AtStays ==
    ASSUME Sound, TreeInv, NEW t \in Task, task[t].status = "running", FindTurn(t), NEW q,
           At(t, q) \in nodes
    PROVE  At(t, q)' = At(t, q)
<1>0. PICK r : r = Here(t)
  OBVIOUS
<1>1. PICK n \in Matches(t, r) : task'[t].found = task[t].found \cup {<<r, n>>}
  BY <1>0 DEF FindTurn
<1>2. /\ ~Deletes(t) /\ r \in Role /\ Seeking(t, r)
      /\ \/ r \in {System, AllPlayers}
         \/ \E i \in AgeTree : r = AgeInfo(i)
         \/ \E i \in AgeTree : r = AgeOwners(i)
  <2>1. Head(task[t].todo) \in Scope(t) /\ Head(task[t].todo) \in Left(t)
    BY Parts DEF TreeInv, CallInv, Scoped
  <2>2. Head(task[t].todo).op \in {"find", "findOrMake"}
    BY DEF FindTurn
  <2> QED
    BY <1>0, <2>1, <2>2, ScopeKinds DEF Here, Seeking, Searching, StepType
<1>3. n \in nodes /\ n \in Node /\ n[3] = r[2]
  BY DEF Matches, IsA, Sound, TypeOK
<1>4. CallInv(t)
  BY DEF TreeInv
<1>10. \A p : ~Found(t, p) => At(t, p) = <<t, p[1], p[2]>>
  BY AtCases
<1>5. CASE q # r
  <2>1. {f \in task'[t].found : f[1] = q} = {f \in task[t].found : f[1] = q}
    BY <1>1, <1>5
  <2> DEFINE old == {f \in task[t].found : f[1] = q}
             new == {f \in task'[t].found : f[1] = q}
  <2>2. /\ At(t, q) = IF old = {} THEN <<t, q[1], q[2]>> ELSE (CHOOSE f \in old : TRUE)[2]
        /\ At(t, q)' = IF new = {} THEN <<t, q[1], q[2]>> ELSE (CHOOSE f \in new : TRUE)[2]
    BY DEF At
  <2> HIDE DEF old, new
  <2>3. old = new
    BY <2>1 DEF old, new
  <2> QED
    BY <2>2, <2>3
<1>6. CASE q = r /\ r \in {System, AllPlayers}
  <2>1. r[2] \notin {"ageInfo", "ageOwners"} /\ r = <<r[1], r[2]>> /\ r[1] = "vault"
    BY <1>6 DEF System, AllPlayers
  <2>2. <<n[2], n[3]>> = r
    BY <1>3, <2>1 DEF Matches
  <2>3. \A f \in task[t].found : f[1] = r => f[2] \in nodes /\ <<f[2][2], f[2][3]>> = r
    <3>1. \A i : r # AgeInfo(i) /\ r # AgeOwners(i)
      BY <1>6 DEF System, AllPlayers, AgeInfo, AgeOwners
    <3> QED
      BY <1>2, <1>4, <2>1, <3>1 DEF CallInv, Finds
  <2>4. \A f \in task'[t].found : f[1] = r => f[2] \in nodes /\ <<f[2][2], f[2][3]>> = r
    BY <1>1, <1>3, <2>2, <2>3
  <2>5. <<At(t, r)[2], At(t, r)[3]>> = r
    BY <1>2, <1>6, AtKinds
  <2>6. \A m1, m2 \in nodes : <<m1[2], m1[3]>> = r /\ <<m2[2], m2[3]>> = r => m1 = m2
    BY <1>6 DEF TreeInv, OneVault
  <2> DEFINE found == {f \in task'[t].found : f[1] = r}
  <2>7. <<r, n>> \in found
    BY <1>1
  <2>8. (CHOOSE f \in found : TRUE) \in found
    BY <2>7
  <2>9. At(t, r)' = (CHOOSE f \in found : TRUE)[2]
    BY <2>7 DEF At
  <2> HIDE DEF found
  <2>10. At(t, r)' \in nodes /\ <<(At(t, r)')[2], (At(t, r)')[3]>> = r
    BY <2>4, <2>8, <2>9 DEF found
  <2> QED
    BY <1>6, <2>5, <2>6, <2>10
<1>7. ASSUME q = r, NEW i \in AgeTree, r = AgeInfo(i) PROVE FALSE
  <2>1. ~Found(t, r) /\ ~Building(t, i)
    <3>1. r # System
      BY <1>7 DEF AgeInfo, System
    <3> QED
      BY <1>2, <1>4, <1>7, <3>1 DEF CallInv, Phases
  <2>2. At(t, r) = <<t, i, "ageInfo">>
    BY <1>7, <2>1, <1>10 DEF AgeInfo
  <2> QED
    BY <1>7, <2>1, <2>2 DEF Building
<1>8. ASSUME q = r, NEW i \in AgeTree, r = AgeOwners(i) PROVE At(t, q)' = At(t, q)
  <2>1. ~Found(t, r)
    <3>1. r # System
      BY <1>8 DEF AgeOwners, System
    <3> QED
      BY <1>2, <1>4, <3>1 DEF CallInv, Phases
  <2>2. At(t, r) = <<t, i, "ageOwners">>
    BY <1>8, <2>1, <1>10 DEF AgeOwners
  <2>3. At(t, AgeInfo(i)) = Info(t, i)
    <3>1. Building(t, i)
      BY <1>8, <2>2 DEF Building
    <3> QED
      BY <1>2, <3>1, AtKinds
  <2>4. n \in Children(Info(t, i))
    BY <1>8, <2>3 DEF Matches, AgeOwners
  <2>5. n = <<t, i, "ageOwners">>
    <3>1. <<Info(t, i), n>> \in refs
      <4>1. \A x \in refs : x = <<x[1], x[2]>>
        BY DEF Sound, TypeOK
      <4> QED
        BY <2>4, <4>1 DEF Children
    <3>2. n[1] = t /\ n[2] = i
      BY <3>1 DEF TreeInv, Kinds, Info
    <3> QED
      BY <1>3, <1>8, <3>2 DEF AgeOwners, Node
  <2> DEFINE found == {f \in task'[t].found : f[1] = r}
  <2>6. found = {<<r, n>>}
    BY <1>1, <2>1 DEF Found
  <2>7. At(t, r)' = (CHOOSE f \in found : TRUE)[2]
    BY <2>6 DEF At
  <2>8. (CHOOSE f \in found : TRUE) \in found
    BY <2>6
  <2>9. \A f \in found : f[2] = n
    BY <2>6
  <2> HIDE DEF found
  <2>10. At(t, r)' = n
    BY <2>7, <2>8, <2>9
  <2>11. At(t, r)' = At(t, r)
    BY <2>2, <2>5, <2>10
  <2> QED
    BY <1>8, <2>11
<1> QED
  <2>1. CASE q = r /\ r \in {System, AllPlayers}
    BY <1>6, <2>1
  <2>2. CASE q = r /\ \E i \in AgeTree : r = AgeInfo(i)
    BY <1>7, <2>2
  <2>3. CASE q = r /\ \E i \in AgeTree : r = AgeOwners(i)
    BY <1>8, <2>3
  <2> QED
    BY <1>2, <1>5, <2>1, <2>2, <2>3

-----------------------------------------------------------------------------
(* What the steps that go on do to a call's list.                          *)

\* The scripts that a call goes on with.
LEMMA GrowCases ==
    ASSUME Sound, TreeInv, NEW t \in Task, task[t].status = "running", NEW script, GrowTurn(t, script)
    PROVE  /\ Matches(t, Here(t)) = {} \/ Head(task[t].todo).op = "static"
           /\ \/ /\ Head(task[t].todo).op = "findOrMake" /\ Here(t) \in {System, AllPlayers}
                 /\ t \notin Call /\ script = TreeScript(Here(t)) /\ BootSteps \subseteq Scope(t)
              \/ /\ Head(task[t].todo).op = "findOrMake"
                 /\ \E i \in AgeTree : /\ Here(t) = AgeInfo(i) /\ script = AgeScript(i)
                                       /\ AgeSteps(i) \subseteq Scope(t)
              \/ /\ Head(task[t].todo).op = "static" /\ t \notin Call /\ BootSteps \subseteq Scope(t)
                 /\ \E i \in StaticSet : Here(t) = AgeInfo(i) /\ script = StaticScript(i)
<1> DEFINE s == Head(task[t].todo)
<1>1. s \in Scope(t) /\ Here(t) = s.at /\ s \in StepType
  BY Parts DEF TreeInv, CallInv, Scoped, Here
<1>2. /\ \A i : AgeInfo(i)[1] = i /\ AgeInfo(i)[2] = "ageInfo" /\ AgeInfo(i) \notin {System, AllPlayers}
      /\ \A i, j : AgeInfo(i) = AgeInfo(j) => i = j
      /\ \A i \in StaticSet : i \in AgeTree /\ i \notin {"relto", "shared"}
      /\ "relto" \in AgeTree /\ "shared" \in AgeTree
  <2>1. \A i \in StaticSet : i \notin {"relto", "shared"}
    BY TreesAssumption DEF TreesAssumption, StaticSet
  <2> QED
    BY <2>1, AgeTrees DEF AgeInfo, System, AllPlayers
<1>3. t \notin Call => Scope(t) = BootSteps \cup StaticSteps
  BY DEF Scope, Creates, Deletes
<1>4. ~Deletes(t)
  BY <1>1, ScopeKinds DEF GrowTurn, Searching
<1>5. CASE s.op = "static"
  <2>1. PICK i \in StaticSet : t \notin Call /\ s.at = AgeInfo(i)
    BY <1>1, <1>5, ScopeKinds
  <2>2. script = StaticScript(i)
    BY <1>1, <1>2, <1>5, <2>1 DEF GrowTurn
  <2> QED
    BY <1>1, <1>3, <1>5, <2>1, <2>2
<1>6. CASE s.op = "findOrMake" /\ s.at \in {System, AllPlayers}
  <2>1. t \notin Call
    BY <1>1, <1>6, ScopeKinds
  <2> QED
    BY <1>1, <1>3, <1>6, <2>1 DEF GrowTurn
<1>7. CASE s.op = "findOrMake" /\ s.at \notin {System, AllPlayers}
  <2>1. PICK i \in AgeTree : s.at = AgeInfo(i)
    BY <1>1, <1>7, ScopeKinds
  <2>2. script = AgeScript(i) /\ Matches(t, Here(t)) = {}
    BY <1>1, <1>2, <1>7, <2>1 DEF GrowTurn, TreeScript
  <2>3. AgeSteps(i) \subseteq Scope(t)
    <3>1. CASE Creates(t)
      <4>1. s = Step("name", Player) \/ s \in AvatarSteps \/ s \in AgeSteps("relto")
        BY <1>1, <3>1 DEF Scope
      <4>2. s \in AvatarSteps
        BY <1>7, <4>1 DEF Step, AgeSteps
      <4>3. i = "relto"
        BY <1>2, <1>7, <2>1, <4>2 DEF AvatarSteps
      <4> QED
        BY <3>1, <4>3 DEF Scope
    <3>2. CASE ~Creates(t) /\ t \in Call
      <4>1. s = FindOrMake(AgeInfo("shared")) \/ s \in AgeSteps("shared")
        BY <1>1, <1>4, <3>2 DEF Scope
      <4>2. s.at = AgeInfo("shared")
        BY <1>7, <4>1 DEF FindOrMake, Step, AgeSteps
      <4>3. i = "shared"
        BY <1>2, <2>1, <4>2
      <4> QED
        BY <1>4, <3>2, <4>3 DEF Scope
    <3>3. CASE t \notin Call
      <4>1. s \in BootSteps
        BY <1>1, <1>3, <1>7, <3>3 DEF StaticSteps, AgeSteps
      <4>2. i \in StaticSet
        BY <1>2, <1>7, <2>1, <4>1 DEF BootSteps
      <4> QED
        BY <1>3, <3>3, <4>2 DEF StaticSteps
    <3> QED
      BY <3>1, <3>2, <3>3
  <2> QED
    BY <1>1, <1>7, <2>1, <2>2, <2>3
<1>8. s.op \in {"static", "findOrMake"}
  BY DEF GrowTurn
<1> QED
  BY <1>5, <1>6, <1>7, <1>8

\* What such a script searches, makes and publishes.
LEMMA ScriptSteps ==
    ASSUME Sound, TreeInv, NEW t \in Task, task[t].status = "running", NEW script, GrowTurn(t, script)
    PROVE  /\ script \in Seq(StepType) /\ Ordered(script) /\ ToSet(script) \subseteq Scope(t)
           /\ \A s \in ToSet(script) :
                 /\ Settles(s) => s.at = Here(t)
                 /\ s.op \in Searching => s.at = System \/ (s.at = Here(t) /\ Head(task[t].todo).op = "static")
                 /\ s.op = "make" /\ s.at \in {System, AllPlayers} =>
                       t \notin Call /\ s.at = Here(t) /\ Matches(t, Here(t)) = {}
                 /\ s.op # "name"
                 /\ s.op = "publish" =>
                       \E x \in ToSet(script) : x.op \in {"find", "findOrMake"} /\ x.at = s.at
                 /\ \A i \in AgeTree : AgeStep(s, i) =>
                       Here(t) = AgeInfo(i) /\ Head(task[t].todo).op = "findOrMake"
           /\ \A i \in AgeTree : Here(t) = AgeInfo(i) /\ Head(task[t].todo).op = "findOrMake" =>
                 script = AgeScript(i) /\ Make(AgeInfo(i)) \in ToSet(script)
<1>1. /\ \A i : AgeInfo(i) = <<i, "ageInfo">> /\ Age(i) = <<i, "age">>
      /\ System = <<"vault", "system">> /\ AllPlayers = <<"vault", "allPlayers">>
      /\ AgesIOwn = <<"player", "agesIOwn">>
      /\ \A i \in AgeTree : i # "vault" /\ i # "player"
      /\ \A i \in StaticSet : i \in AgeTree
  BY AgeTrees DEF AgeInfo, Age, System, AllPlayers, AgesIOwn
<1>2. \A i \in AgeTree : Make(AgeInfo(i)) \in ToSet(AgeScript(i))
  BY AgeScriptSteps
<1>3. CASE /\ Head(task[t].todo).op = "findOrMake" /\ Here(t) \in {System, AllPlayers}
           /\ t \notin Call /\ script = TreeScript(Here(t)) /\ BootSteps \subseteq Scope(t)
  <2>1. /\ script \in Seq(BootSteps) /\ Clear(script, {}, {q \in Role : q[1] = "vault"})
        /\ \A s \in ToSet(script) :
              /\ (s.op = "make" /\ s.at = Here(t)) \/ s.at \notin {System, AllPlayers} \/ s.op = "link"
              /\ s.op \in {"make", "link"} /\ s.at[1] = "vault"
    BY <1>3, VaultScriptSteps
  <2>2. ToSet(script) \subseteq BootSteps
    BY <2>1, SetOf
  <2>3. Matches(t, Here(t)) = {}
    BY <1>3, GrowCases
  <2>4. \A s \in ToSet(script) : \A i \in AgeTree : ~AgeStep(s, i)
    BY <1>1, <2>1 DEF AgeStep
  <2>5. \A s \in ToSet(script) : ~Settles(s) /\ s.op \notin Searching /\ s.op \notin {"name", "publish"}
    BY <2>1 DEF Settles, Searching
  <2>6. \A i \in AgeTree : Here(t) # AgeInfo(i)
    BY <1>1, <1>3
  <2> QED
    BY <1>3, <2>1, <2>2, <2>3, <2>4, <2>5, <2>6 DEF Clear
<1>4. ASSUME NEW j \in AgeTree, Head(task[t].todo).op = "findOrMake", Here(t) = AgeInfo(j),
             script = AgeScript(j), AgeSteps(j) \subseteq Scope(t)
      PROVE  /\ script \in Seq(StepType) /\ Ordered(script) /\ ToSet(script) \subseteq Scope(t)
             /\ \A s \in ToSet(script) :
                   /\ ~Settles(s) /\ (s.op \in Searching => s.at = System)
                   /\ s.op = "make" => s.at \notin {System, AllPlayers}
                   /\ s.op \notin {"name", "publish"}
                   /\ \A i \in AgeTree : AgeStep(s, i) => i = j
             /\ \A i \in AgeTree : Here(t) = AgeInfo(i) => i = j
  <2>1. script \in Seq(AgeSteps(j)) /\ Clear(script, {}, {r \in Role : r[1] = j \/ r = System})
    BY <1>4, AgeScriptSteps
  <2>2. ToSet(script) \subseteq AgeSteps(j)
    BY <2>1, SetOf
  <2>3. \A s \in AgeSteps(j) :
           /\ s.op \in {"find", "make", "link"} /\ (s.op = "find" => s.at = System)
           /\ s.op = "make" => s.at[1] = j
           /\ s.op = "link" => s.at \in {Age(j), AgeInfo(j)}
    BY DEF AgeSteps
  <2>4. \A s \in AgeSteps(j) : \A i \in AgeTree : AgeStep(s, i) => i = j
    BY <1>1, <2>3 DEF AgeStep
  <2>5. \A s \in AgeSteps(j) : s.op = "make" => s.at \notin {System, AllPlayers}
    BY <1>1, <2>3
  <2>6. \A s \in ToSet(script) : ~Settles(s)
    BY <2>1 DEF Clear
  <2>7. \A i \in AgeTree : Here(t) = AgeInfo(i) => i = j
    <3>1. \A i : AgeInfo(i)[1] = i
      BY DEF AgeInfo
    <3> QED
      BY <1>4, <3>1, ZenonT(30)
  <2> QED
    BY <1>4, <2>1, <2>2, <2>3, <2>4, <2>5, <2>6, <2>7 DEF Clear, Searching
<1>5. ASSUME NEW j \in StaticSet, Head(task[t].todo).op = "static", Here(t) = AgeInfo(j), t \notin Call,
             script = StaticScript(j), BootSteps \subseteq Scope(t)
      PROVE  /\ script \in Seq(StepType) /\ Ordered(script) /\ ToSet(script) \subseteq Scope(t)
             /\ \A s \in ToSet(script) :
                   /\ s.at = Here(t) /\ s.op \in {"findOrMake", "publish"}
                   /\ s.op = "publish" =>
                         \E x \in ToSet(script) : x.op \in {"find", "findOrMake"} /\ x.at = s.at
                   /\ \A i \in AgeTree : ~AgeStep(s, i)
  <2>1. /\ script \in Seq(BootSteps) /\ Clear(script, {AgeInfo(j)}, {AgeInfo(j)})
        /\ ToSet(script) = {FindOrMake(AgeInfo(j)), Step("publish", AgeInfo(j))}
    BY <1>5, StaticScriptSteps
  <2>2. /\ FindOrMake(AgeInfo(j)).op = "findOrMake" /\ FindOrMake(AgeInfo(j)).at = AgeInfo(j)
        /\ Step("publish", AgeInfo(j)).op = "publish" /\ Step("publish", AgeInfo(j)).at = AgeInfo(j)
    BY DEF FindOrMake, Step
  <2>3. ToSet(script) \subseteq BootSteps
    BY <2>1, SetOf
  <2>4. \A s \in ToSet(script) : s.at = Here(t) /\ s.op \in {"findOrMake", "publish"}
    BY <1>5, <2>1, <2>2
  <2>5. \A s \in ToSet(script) : \A i \in AgeTree : ~AgeStep(s, i)
    BY <2>4 DEF AgeStep
  <2> QED
    BY <1>5, <2>1, <2>2, <2>3, <2>4, <2>5 DEF Clear, Searching
<1>6. CASE \E j \in AgeTree : /\ Here(t) = AgeInfo(j) /\ script = AgeScript(j)
                              /\ Head(task[t].todo).op = "findOrMake" /\ AgeSteps(j) \subseteq Scope(t)
  <2>1. PICK j \in AgeTree : /\ Here(t) = AgeInfo(j) /\ script = AgeScript(j)
                             /\ Head(task[t].todo).op = "findOrMake" /\ AgeSteps(j) \subseteq Scope(t)
    BY <1>6
  <2> QED
    BY <1>2, <1>4, <2>1
<1>7. CASE /\ Head(task[t].todo).op = "static" /\ t \notin Call /\ BootSteps \subseteq Scope(t)
           /\ \E j \in StaticSet : Here(t) = AgeInfo(j) /\ script = StaticScript(j)
  <2>1. PICK j \in StaticSet : Here(t) = AgeInfo(j) /\ script = StaticScript(j)
    BY <1>7
  <2>2. Head(task[t].todo).op # "findOrMake"
    BY <1>7
  <2> QED
    BY <1>5, <1>7, <2>1, <2>2
<1> QED
  BY <1>3, <1>6, <1>7, GrowCases

\* A step after which a call goes on, with a script or with none.
Grew(t, script) ==
    \/ /\ script = <<>>
       /\ MakeTurn(t) \/ LinkTurn(t) \/ FindTurn(t) \/ TakeTurn(t) \/ PublishTurn(t)
    \/ GrowTurn(t, script)

LEMMA Grown ==
    ASSUME Sound, TreeInv, NEW t \in Task, task[t].status = "running", NEW script, Grew(t, script)
    PROVE  /\ script \in Seq(StepType) /\ Goes(t, script \o Rest(t))
           /\ Ordered(script) /\ ToSet(script) \subseteq Scope(t)
           /\ script = <<>> => ToSet(script) = {} /\ LinksOf(script) = {}
           /\ Left(t)' = ToSet(script) \cup ToSet(Rest(t))
           /\ LinksOf(task'[t].todo) = LinksOf(script) \cup LinksOf(Rest(t))
           /\ nodes \subseteq nodes' /\ refs \subseteq refs' /\ ~Deletes(t)
           /\ Head(task[t].todo).op # "name"
<1>1. Rest(t) \in Seq(StepType)
  BY Parts
<1>2. <<>> \in Seq(StepType) /\ ToSet(<<>>) = {} /\ LinksOf(<<>>) = {} /\ Len(<<>>) = 0
  BY DEF ToSet, LinksOf
<1>3. Ordered(<<>>)
  BY <1>2 DEF Ordered
<1>4. script \in Seq(StepType) /\ Ordered(script) /\ ToSet(script) \subseteq Scope(t)
  BY <1>2, <1>3, ScriptSteps DEF Grew
<1>5. script = <<>> => script \o Rest(t) = Rest(t)
  BY <1>1
<1>6. Goes(t, script \o Rest(t))
  BY <1>5 DEF Grew, MakeTurn, LinkTurn, FindTurn, TakeTurn, PublishTurn, GrowTurn
<1>7. /\ nodes \subseteq nodes' /\ refs \subseteq refs'
  BY DEF Grew, MakeTurn, LinkTurn, FindTurn, TakeTurn, PublishTurn, GrowTurn, Still
<1>8. Head(task[t].todo).op \in {"make", "link", "find", "findOrMake", "static", "publish"}
  BY DEF Grew, MakeTurn, LinkTurn, FindTurn, TakeTurn, PublishTurn, GrowTurn
<1>9. ~Deletes(t)
  BY <1>8, Rests
<1>10. /\ ToSet(script \o Rest(t)) = ToSet(script) \cup ToSet(Rest(t))
       /\ LinksOf(script \o Rest(t)) = LinksOf(script) \cup LinksOf(Rest(t))
  BY <1>1, <1>4, Joined
<1>11. task'[t].todo = script \o Rest(t)
  BY <1>6 DEF Goes
<1> QED
  BY <1>2, <1>4, <1>6, <1>7, <1>8, <1>9, <1>10, <1>11 DEF Left

\* What is left then, compared with what was.
LEMMA LeftThen ==
    ASSUME Sound, TreeInv, NEW t \in Task, task[t].status = "running", NEW script, Grew(t, script),
           load' = load
    PROVE  /\ \A s \in Left(t)' : s \in ToSet(script) \/ s \in Left(t)
           /\ \A s \in Left(t) : s = Head(task[t].todo) \/ s \in Left(t)'
           /\ Settles(Head(task[t].todo)) =>
                 \A s \in ToSet(Rest(t)) : Unsettles(s) => s.at # Here(t)
           /\ \A l \in LinksOf(task[t].todo) :
                 \/ l \in LinksOf(task'[t].todo)
                 \/ LinkTurn(t) /\ l = <<Here(t), Head(task[t].todo).child>>
           /\ Scoped(t)'
<1>1. PICK todo \in Seq(StepType) : todo = task[t].todo
  BY Known DEF Sound, TaskState
<1>2. todo # <<>> /\ Ordered(todo) /\ Left(t) \subseteq Scope(t)
  BY <1>1 DEF Sound, Scripted, ScriptedOf, TreeInv, CallInv, Scoped
<1>3. /\ Ordered(Tail(todo))
      /\ Settles(Head(todo)) => \A y \in ToSet(Tail(todo)) : Unsettles(y) => y.at # Head(todo).at
  BY <1>1, <1>2, OrderedTail
<1>4. Rest(t) = Tail(todo) /\ Here(t) = Head(todo).at
  BY <1>1 DEF Rest, Here
<1>5. /\ Left(t) = {Head(task[t].todo)} \cup ToSet(Rest(t)) /\ Rest(t) \in Seq(StepType)
      /\ Left(t)' = ToSet(script) \cup ToSet(Rest(t))
      /\ script \in Seq(StepType) /\ Goes(t, script \o Rest(t))
      /\ Ordered(script) /\ ToSet(script) \subseteq Scope(t)
      /\ LinksOf(task'[t].todo) = LinksOf(script) \cup LinksOf(Rest(t))
  BY Parts, Grown
<1>6. \A l \in LinksOf(task[t].todo) :
         \/ l \in LinksOf(task'[t].todo)
         \/ LinkTurn(t) /\ l = <<Here(t), Head(task[t].todo).child>>
  <2>1. /\ LinksOf(task[t].todo) \subseteq
              {<<Here(t), Head(task[t].todo).child>>} \cup LinksOf(Rest(t))
        /\ Head(task[t].todo).op # "link" => LinksOf(task[t].todo) = LinksOf(Rest(t))
    BY Parts
  <2>2. Head(task[t].todo).op = "link" => LinkTurn(t)
    BY DEF Grew, MakeTurn, FindTurn, TakeTurn, PublishTurn, GrowTurn
  <2> QED
    BY <1>5, <2>1, <2>2
<1>7. Ordered(script \o Rest(t))
  <2>1. ASSUME NEW x \in ToSet(script), NEW y \in ToSet(Rest(t)), Settles(x), Unsettles(y)
        PROVE  x.at # y.at
    <3>1. GrowTurn(t, script)
      BY <2>1, Grown DEF Grew
    <3>2. x.at = Here(t)
      BY <2>1, <3>1, ScriptSteps
    <3>3. Settles(Head(todo))
      <4>1. x.at # System
        BY <2>1 DEF Settles
      <4> QED
        BY <1>1, <1>4, <3>1, <3>2, <4>1 DEF GrowTurn, Settles, Searching
    <3> QED
      BY <1>3, <1>4, <2>1, <3>2, <3>3
  <2> QED
    BY <1>3, <1>4, <1>5, <2>1, OrderedJoin
<1>8. Scoped(t)'
  <2>1. load' = load => Scope(t)' = Scope(t)
    BY DEF Scope, Creates, Deletes
  <2> QED
    BY <1>2, <1>5, <1>7, <2>1 DEF Scoped, Goes
<1> QED
  BY <1>1, <1>3, <1>4, <1>5, <1>6, <1>8

\* Nothing is searched again that was found, and no tree of an age is built twice.
LEMMA BuildingThen ==
    ASSUME Sound, TreeInv, NEW t \in Task, task[t].status = "running", NEW script, Grew(t, script),
           NEW i \in AgeTree
    PROVE  /\ Building(t, i)' =>
                 \/ Building(t, i)
                 \/ /\ GrowTurn(t, script) /\ Here(t) = AgeInfo(i) /\ script = AgeScript(i)
                    /\ Head(task[t].todo).op = "findOrMake"
           /\ GrowTurn(t, script) /\ Here(t) = AgeInfo(i) /\ Head(task[t].todo).op = "findOrMake" =>
                 script = AgeScript(i) /\ Making(t, AgeInfo(i))' /\ Building(t, i)'
           /\ Info(t, i) \in nodes \/ Making(t, AgeInfo(i)) =>
                 Info(t, i) \in nodes' \/ Making(t, AgeInfo(i))'
           /\ Building(t, i) => Building(t, i)'
<1>1. /\ \A s \in Left(t)' : s \in ToSet(script) \/ s \in Left(t)
      /\ \A s \in Left(t) : s = Head(task[t].todo) \/ s \in Left(t)'
  <2>1. /\ Left(t) = {Head(task[t].todo)} \cup ToSet(Rest(t))
        /\ Left(t)' = ToSet(script) \cup ToSet(Rest(t))
    BY Parts, Grown
  <2> QED
    BY <2>1
<1>2. Head(task[t].todo) \in Left(t) /\ Here(t) = Head(task[t].todo).at /\ nodes \subseteq nodes'
  BY Parts, Grown DEF Here
<1>3. \A s \in ToSet(script) :
         AgeStep(s, i) => /\ GrowTurn(t, script) /\ Here(t) = AgeInfo(i)
                          /\ Head(task[t].todo).op = "findOrMake"
  BY Grown, ScriptSteps DEF Grew
<1>4. GrowTurn(t, script) /\ Here(t) = AgeInfo(i) /\ Head(task[t].todo).op = "findOrMake" =>
         script = AgeScript(i) /\ Make(AgeInfo(i)) \in Left(t)'
  BY Grown, ScriptSteps
<1>5. /\ Make(AgeInfo(i)).op = "make" /\ Make(AgeInfo(i)).at = AgeInfo(i)
      /\ AgeStep(Make(AgeInfo(i)), i)
  BY DEF Make, Step, AgeStep, AgeInfo
<1>6. ASSUME NEW n \in nodes', n \notin nodes, n[1] = t, n[2] = i, n[3] # "link"
      PROVE  AgeStep(Head(task[t].todo), i)
  <2>1. MakeTurn(t)
    BY <1>6 DEF Grew, LinkTurn, FindTurn, TakeTurn, PublishTurn, GrowTurn, Still
  <2>2. n = <<t, Here(t)[1], Here(t)[2]>> /\ Head(task[t].todo).op = "make"
    BY <1>6, <2>1 DEF MakeTurn
  <2> QED
    BY <1>2, <1>6, <2>2 DEF AgeStep
<1>7. Building(t, i)' => Building(t, i) \/ \E s \in ToSet(script) : AgeStep(s, i)
  BY <1>1, <1>2, <1>6 DEF Building, AgeStep
<1>8. Building(t, i)' =>
         \/ Building(t, i)
         \/ GrowTurn(t, script) /\ Here(t) = AgeInfo(i) /\ Head(task[t].todo).op = "findOrMake"
  BY <1>3, <1>7
<1>9. Making(t, AgeInfo(i)) => Info(t, i) \in nodes' \/ Making(t, AgeInfo(i))'
  <2>1. ASSUME NEW s \in Left(t), s.op = "make", s.at = AgeInfo(i), s = Head(task[t].todo)
        PROVE  Info(t, i) \in nodes'
    <3>1. MakeTurn(t)
      BY <2>1 DEF Grew, LinkTurn, FindTurn, TakeTurn, PublishTurn, GrowTurn
    <3>2. <<t, Here(t)[1], Here(t)[2]>> \in nodes' /\ Here(t) = AgeInfo(i)
      BY <1>2, <2>1, <3>1 DEF MakeTurn
    <3> QED
      BY <3>2 DEF Info, AgeInfo
  <2> QED
    BY <1>1, <2>1 DEF Making
<1>10. GrowTurn(t, script) /\ Here(t) = AgeInfo(i) /\ Head(task[t].todo).op = "findOrMake" =>
         script = AgeScript(i) /\ Making(t, AgeInfo(i))' /\ Building(t, i)'
  BY <1>4, <1>5 DEF Making, Building, AgeStep
<1>11. Info(t, i) \in nodes \/ Making(t, AgeInfo(i)) =>
           Info(t, i) \in nodes' \/ Making(t, AgeInfo(i))'
  BY <1>2, <1>9
<1>12. Building(t, i) => Building(t, i)'
  <2>1. Building(t, i) => Info(t, i) \in nodes \/ Making(t, AgeInfo(i))
    BY DEF TreeInv, CallInv, Phases, Live
  <2>2. Info(t, i) \in nodes' => Building(t, i)'
    BY DEF Building, Info
  <2>3. Making(t, AgeInfo(i))' => Building(t, i)'
    <3>1. \A s : s.op = "make" /\ s.at = AgeInfo(i) => AgeStep(s, i)
      BY DEF AgeStep, AgeInfo
    <3> QED
      BY <3>1 DEF Making, Building, AgeStep
  <2> QED
    BY <1>11, <2>1, <2>2, <2>3
<1> QED
  BY <1>4, <1>8, <1>10, <1>11, <1>12

LEMMA FoundThen ==
    ASSUME Sound, TreeInv, NEW t \in Task, task[t].status = "running", NEW script, Grew(t, script)
    PROVE  /\ task[t].found \subseteq task'[t].found
           /\ \A f \in task'[t].found : f \in task[t].found \/ (FindTurn(t) /\ f[1] = Here(t) /\ f[2] \in Matches(t, Here(t)))
           /\ \A r : Found(t, r)' => Found(t, r) \/ (FindTurn(t) /\ r = Here(t))
           /\ \A r : Found(t, r) \/ (FindTurn(t) /\ r = Here(t)) => Found(t, r)'
<1>1. /\ task[t].found \subseteq task'[t].found
      /\ \A f \in task'[t].found : f \in task[t].found \/ (FindTurn(t) /\ f[1] = Here(t) /\ f[2] \in Matches(t, Here(t)))
  BY DEF Grew, MakeTurn, LinkTurn, FindTurn, TakeTurn, PublishTurn, GrowTurn, Keeps
<1>2. FindTurn(t) => \E n : <<Here(t), n>> \in task'[t].found
  BY DEF FindTurn
<1>3. ASSUME NEW r, FindTurn(t), r = Here(t) PROVE Found(t, r)'
  <2>1. PICK n : <<r, n>> \in task'[t].found
    BY <1>2, <1>3
  <2> QED
    BY <2>1 DEF Found
<1>4. \A r : Found(t, r)' => Found(t, r) \/ (FindTurn(t) /\ r = Here(t))
  BY <1>1 DEF Found
<1>5. \A r : Found(t, r) => Found(t, r)'
  BY <1>1 DEF Found
<1> QED
  BY <1>1, <1>3, <1>4, <1>5

LEMMA AtThen ==
    ASSUME Sound, TreeInv, NEW t \in Task, task[t].status = "running", NEW script, Grew(t, script),
           NEW q, At(t, q) \in nodes
    PROVE  At(t, q)' = At(t, q)
<1>1. CASE FindTurn(t)
  BY <1>1, AtStays
<1>2. CASE ~FindTurn(t)
  <2>1. task'[t].found = task[t].found
    BY <1>2 DEF Grew, MakeTurn, LinkTurn, TakeTurn, PublishTurn, GrowTurn, Keeps
  <2> QED
    BY <2>1 DEF At
<1> QED
  BY <1>1, <1>2

LEMMA PhasesThen ==
    ASSUME Sound, TreeInv, NEW t \in Task, task[t].status = "running", NEW script, Grew(t, script)
    PROVE  Phases(t)'
<1>1. Phases(t) /\ Live(t)
  BY DEF TreeInv, CallInv, Live
<1>2. /\ Head(task[t].todo) \in Left(t) /\ Here(t) = Head(task[t].todo).at
      /\ Left(t) = {Head(task[t].todo)} \cup ToSet(Rest(t))
      /\ Left(t)' = ToSet(script) \cup ToSet(Rest(t))
  BY Parts, Grown DEF Here
<1>3. \A r : Seeking(t, r)' => Seeking(t, r) \/ r = System
  <2>1. \A s \in ToSet(script) : s.op \in Searching =>
           s.at = System \/ (s.at = Here(t) /\ Head(task[t].todo).op = "static")
    BY Grown, ScriptSteps DEF Grew
  <2>2. "static" \in Searching
    BY DEF Searching
  <2> QED
    BY <1>2, <2>1, <2>2 DEF Seeking
<1>4. ASSUME NEW r, r = Here(t), r # System, Head(task[t].todo).op \in {"find", "findOrMake"}
      PROVE  Seeking(t, r) /\ ~Seeking(t, r)'
  <2>1. Seeking(t, r)
    BY <1>2, <1>4 DEF Seeking, Searching
  <2>2. Settles(Head(task[t].todo))
    BY <1>2, <1>4 DEF Settles, Searching
  <2>3. \A s \in ToSet(Rest(t)) : Unsettles(s) => s.at # r
    <3>1. /\ task[t].todo \in Seq(StepType) /\ task[t].todo # <<>> /\ Ordered(task[t].todo)
      BY Parts DEF TreeInv, CallInv, Scoped
    <3> QED
      BY <1>2, <1>4, <2>2, <3>1, OrderedTail DEF Rest
  <2>4. \A s \in ToSet(script) : s.op \in Searching => s.at = System
    <3>1. Head(task[t].todo).op # "static"
      BY <1>4
    <3> QED
      BY <3>1, Grown, ScriptSteps DEF Grew
  <2> QED
    BY <1>2, <1>4, <2>1, <2>3, <2>4 DEF Seeking, Unsettles
<1>5. \A r : FindTurn(t) /\ r = Here(t) => Head(task[t].todo).op \in {"find", "findOrMake"}
  BY DEF FindTurn
<1>6. ASSUME NEW r \in Role, Seeking(t, r)', Found(t, r)', r # System PROVE FALSE
  <2>1. Seeking(t, r)
    BY <1>3, <1>6
  <2>2. ~Found(t, r)
    BY <1>1, <1>6, <2>1 DEF Phases
  <2>3. FindTurn(t) /\ r = Here(t)
    BY <1>6, <2>2, FoundThen
  <2> QED
    BY <1>4, <1>5, <1>6, <2>3
<1>7. ASSUME NEW i \in AgeTree
      PROVE  /\ ~(Seeking(t, AgeInfo(i))' /\ Building(t, i)')
             /\ ~(Found(t, AgeInfo(i))' /\ Building(t, i)')
             /\ Building(t, i)' => Info(t, i) \in nodes' \/ Making(t, AgeInfo(i))'
  <2>1. AgeInfo(i) # System /\ AgeInfo(i) \in Role
    BY AgeTrees DEF AgeInfo, System
  <2>2. PICK r : r = AgeInfo(i)
    OBVIOUS
  <2>3. CASE /\ GrowTurn(t, script) /\ Here(t) = AgeInfo(i) /\ script = AgeScript(i)
             /\ Head(task[t].todo).op = "findOrMake"
    <3>1. Making(t, AgeInfo(i))'
      BY <2>3, BuildingThen
    <3>2. Seeking(t, r) /\ ~Seeking(t, r)'
      BY <1>4, <2>1, <2>2, <2>3
    <3>3. ~Found(t, r)
      BY <1>1, <2>1, <2>2, <3>2 DEF Phases
    <3>4. ~Found(t, r)'
      <4>1. ~FindTurn(t)
        <5>1. GrowTurn(t, script) => task'[t].found = task[t].found
          BY DEF GrowTurn, Keeps
        <5>2. FindTurn(t) => Found(t, r)'
          BY <2>2, <2>3, FoundThen
        <5> QED
          BY <2>3, <3>3, <5>1, <5>2 DEF Found
      <4> QED
        BY <3>3, <4>1, FoundThen
    <3> QED
      BY <2>2, <3>1, <3>2, <3>4
  <2>4. CASE Building(t, i)
    <3>1. ~Seeking(t, r) /\ ~Found(t, r)
      BY <1>1, <2>2, <2>4 DEF Phases
    <3>2. ~Seeking(t, r)'
      BY <1>3, <2>1, <2>2, <3>1
    <3>3. ~Found(t, r)'
      BY <1>4, <1>5, <2>1, <2>2, <3>1, FoundThen
    <3>4. Info(t, i) \in nodes \/ Making(t, AgeInfo(i))
      BY <1>1, <2>4 DEF Phases
    <3>5. Info(t, i) \in nodes' \/ Making(t, AgeInfo(i))'
      BY <3>4, BuildingThen
    <3> QED
      BY <2>2, <3>2, <3>3, <3>5
  <2> QED
    BY <2>3, <2>4, BuildingThen
<1> QED
  BY <1>6, <1>7 DEF Phases

LEMMA FindsThen ==
    ASSUME Sound, TreeInv, NEW t \in Task, task[t].status = "running", NEW script, Grew(t, script),
           load' = load
    PROVE  Finds(t)'
<1>1. Finds(t) /\ ~Deletes(t) /\ nodes \subseteq nodes' /\ refs \subseteq refs'
  BY Grown DEF TreeInv, CallInv
<1>2. ~Deletes(t)'
  BY <1>1 DEF Deletes
<1>3. ASSUME NEW i, NEW n, <<At(t, AgeInfo(i)), n>> \in refs
      PROVE  <<At(t, AgeInfo(i))', n>> \in refs'
  <2>1. PICK q : q = AgeInfo(i)
    OBVIOUS
  <2>2. At(t, q) \in nodes
    BY <1>3, <2>1 DEF Sound, TypeOK
  <2>3. At(t, q)' = At(t, q)
    BY <2>2, AtThen
  <2> QED
    BY <1>1, <1>3, <2>1, <2>3
<1>4. ASSUME NEW f \in task[t].found
      PROVE  /\ f[2] \in nodes' /\ f[2][3] = f[1][2]
             /\ \/ f[1] \in {System, AllPlayers} /\ f[2][2] = "vault"
                \/ \E i \in AgeTree : f[1] = AgeInfo(i)
                \/ \E i \in AgeTree : f[1] = AgeOwners(i) /\ <<At(t, AgeInfo(i))', f[2]>> \in refs'
  <2>1. /\ f[2] \in nodes /\ f[2][3] = f[1][2]
        /\ \/ f[1] \in {System, AllPlayers} /\ f[2][2] = "vault"
           \/ \E i \in AgeTree : f[1] = AgeInfo(i)
           \/ \E i \in AgeTree : f[1] = AgeOwners(i) /\ <<At(t, AgeInfo(i)), f[2]>> \in refs
    BY <1>1 DEF Finds
  <2> QED
    BY <1>1, <1>3, <2>1
<1>5. ASSUME FindTurn(t), NEW f \in task'[t].found, f[1] = Here(t), f[2] \in Matches(t, Here(t))
      PROVE  /\ f[2] \in nodes' /\ f[2][3] = f[1][2]
             /\ \/ f[1] \in {System, AllPlayers} /\ f[2][2] = "vault"
                \/ \E i \in AgeTree : f[1] = AgeInfo(i)
                \/ \E i \in AgeTree : f[1] = AgeOwners(i) /\ <<At(t, AgeInfo(i))', f[2]>> \in refs'
  <2>1. f[2] \in nodes /\ f[2][3] = f[1][2]
    BY <1>5 DEF Matches, IsA
  <2>2. \/ f[1] \in {System, AllPlayers}
        \/ \E i \in AgeTree : f[1] = AgeInfo(i)
        \/ \E i \in AgeTree : f[1] = AgeOwners(i)
    <3>1. Head(task[t].todo) \in Scope(t) /\ Here(t) = Head(task[t].todo).at
      BY Parts DEF TreeInv, CallInv, Scoped, Here
    <3>2. Head(task[t].todo).op \in {"find", "findOrMake"}
      BY <1>5 DEF FindTurn
    <3> QED
      BY <1>5, <3>1, <3>2, ScopeKinds
  <2>3. f[1] \in {System, AllPlayers} => f[2][2] = "vault"
    BY <1>5 DEF Matches, System, AllPlayers
  <2>4. ASSUME NEW i \in AgeTree, f[1] = AgeOwners(i)
        PROVE  <<At(t, AgeInfo(i))', f[2]>> \in refs'
    <3>1. f[2] \in Children(At(t, AgeInfo(i)))
      BY <1>5, <2>4 DEF Matches, AgeOwners
    <3>2. \A x \in refs : x = <<x[1], x[2]>>
      BY DEF Sound, TypeOK
    <3>3. <<At(t, AgeInfo(i)), f[2]>> \in refs
      BY <3>1, <3>2 DEF Children
    <3> QED
      BY <1>3, <3>3
  <2> QED
    BY <1>1, <2>1, <2>2, <2>3, <2>4
<1> QED
  BY <1>2, <1>4, <1>5, FoundThen DEF Finds

\* What a call goes on to link, it links.
LEMMA PledgeThen ==
    ASSUME Sound, TreeInv, NEW t \in Task, task[t].status = "running", NEW script, Grew(t, script),
           load' = load, NEW l, Pledged(t, l)
    PROVE  Pledged(t, l)'
<1>0. PICK p, q : p = l[1] /\ q = l[2]
  OBVIOUS
<1>1. CASE Linked(t, l)
  <2>1. <<At(t, p), At(t, q)>> \in refs
    BY <1>0, <1>1 DEF Linked
  <2>2. At(t, p) \in nodes /\ At(t, q) \in nodes
    BY <2>1 DEF Sound, TypeOK
  <2>3. At(t, p)' = At(t, p) /\ At(t, q)' = At(t, q)
    BY <2>2, AtThen
  <2>4. <<At(t, p)', At(t, q)'>> \in refs'
    BY <2>1, <2>3, Grown
  <2> QED
    BY <1>0, <2>4 DEF Pledged, Linked
<1>2. CASE l \in LinksOf(task[t].todo)
  <2>1. CASE l \in LinksOf(task'[t].todo)
    BY <2>1 DEF Pledged
  <2>2. CASE LinkTurn(t) /\ l = <<Here(t), Head(task[t].todo).child>>
    <3>1. /\ At(t, p) \in nodes /\ At(t, q) \in nodes /\ <<At(t, p), At(t, q)>> \in refs'
      BY <1>0, <2>2 DEF LinkTurn
    <3>2. At(t, p)' = At(t, p) /\ At(t, q)' = At(t, q)
      BY <3>1, AtThen
    <3>3. <<At(t, p)', At(t, q)'>> \in refs'
      BY <3>1, <3>2
    <3> QED
      BY <1>0, <3>3 DEF Pledged, Linked
  <2> QED
    BY <1>2, <2>1, <2>2, LeftThen
<1> QED
  BY <1>1, <1>2 DEF Pledged

LEMMA WholesThen ==
    ASSUME Sound, TreeInv, NEW t \in Task, task[t].status = "running", NEW script, Grew(t, script),
           load' = load
    PROVE  Wholes(t)'
<1> SUFFICES ASSUME NEW i \in AgeTree, Building(t, i)', NEW l \in LinksOf(AgeScript(i))
             PROVE  Pledged(t, l)'
  BY DEF Wholes
<1>1. CASE Building(t, i)
  <2>1. Pledged(t, l)
    BY <1>1 DEF TreeInv, CallInv, Wholes, Live
  <2> QED
    BY <2>1, PledgeThen
<1>2. CASE script = AgeScript(i)
  <2>1. l \in LinksOf(task'[t].todo)
    BY <1>2, Grown
  <2> QED
    BY <2>1 DEF Pledged
<1> QED
  BY <1>1, <1>2, BuildingThen

LEMMA AvatarsThen ==
    ASSUME Sound, TreeInv, NEW t \in Task, task[t].status = "running", NEW script, Grew(t, script),
           load' = load, met \subseteq met'
    PROVE  Avatars(t)'
<1>0. /\ Creates(t)' => Creates(t)
      /\ DeletionsOf(t)' = {} => DeletionsOf(t) = {}
  BY DEF Creates, DeletionsOf
<1> SUFFICES ASSUME Creates(t), DeletionsOf(t) = {}
             PROVE  /\ \A l \in LinksOf(AvatarScript) : Pledged(t, l)'
                    /\ \/ Building(t, "relto")'
                       \/ <<Age("relto"), AgesIOwn>> \in LinksOf(task'[t].todo)
  BY <1>0 DEF Avatars
<1>1. Step("name", Player) \notin Left(t)
  <2>1. task[t].todo \in Todos(t)
    BY DEF Sound, Scripted, ScriptedOf
  <2>2. Head(<<Step("name", Player)>>).op = "name"
    BY DEF Step
  <2>3. task[t].todo \in Seq(BuildStep)
    BY <2>1, <2>2, Grown DEF Todos
  <2>4. Left(t) \subseteq BuildStep
    BY <2>3, SetOf DEF Left
  <2> QED
    BY <2>4 DEF BuildStep, Builds, Step
<1>2. /\ \A l \in LinksOf(AvatarScript) : Pledged(t, l)
      /\ Building(t, "relto") \/ <<Age("relto"), AgesIOwn>> \in LinksOf(task[t].todo)
  BY <1>1 DEF TreeInv, CallInv, Avatars, Live
<1>3. "relto" \in AgeTree
  BY AgeTrees
<1>4. Building(t, "relto") => Building(t, "relto")'
  BY <1>3, BuildingThen
<1>5. ASSUME <<Age("relto"), AgesIOwn>> = <<Here(t), Head(task[t].todo).child>>, LinkTurn(t)
      PROVE  Building(t, "relto")'
  <2>1. At(t, Age("relto")) \in nodes'
    BY <1>5 DEF LinkTurn
  <2>2. At(t, Age("relto")) = <<t, "relto", "age">>
    BY <1>3, Grown, AtKinds
  <2>3. \E n \in nodes' : n[1] = t /\ n[2] = "relto" /\ n[3] # "link"
    BY <2>1, <2>2
  <2> QED
    BY <2>3 DEF Building
<1>6. \/ Building(t, "relto")'
      \/ <<Age("relto"), AgesIOwn>> \in LinksOf(task'[t].todo)
  BY <1>2, <1>4, <1>5, LeftThen
<1> QED
  BY <1>2, <1>6, PledgeThen

LEMMA AskingThen ==
    ASSUME Sound, TreeInv, NEW t \in Task, task[t].status = "running", NEW script, Grew(t, script),
           load' = load
    PROVE  Asking(t)'
<1> DEFINE r == AgeInfo("shared")
<1>0. "shared" \in AgeTree
  BY AgeTrees
<1> SUFFICES ASSUME Asks(t)
             PROVE  Seeking(t, r)' \/ Building(t, "shared")' \/ Found(t, r)'
  BY DEF Asking, Asks
<1>1. Seeking(t, r) \/ Building(t, "shared") \/ Found(t, r)
  BY DEF TreeInv, CallInv, Asking, Live
<1>2. CASE Building(t, "shared")
  BY <1>0, <1>2, BuildingThen
<1>3. CASE Found(t, r)
  BY <1>3, FoundThen
<1>4. CASE Seeking(t, r)
  <2>1. PICK s \in Left(t) : s.op \in Searching /\ s.at = r
    BY <1>4 DEF Seeking
  <2>2. /\ s = Head(task[t].todo) \/ s \in ToSet(Rest(t))
        /\ ToSet(Rest(t)) \subseteq Left(t)'
    BY Parts, Grown
  <2>3. CASE s \in Left(t)'
    BY <2>1, <2>3 DEF Seeking
  <2>4. CASE s = Head(task[t].todo)
    <3>1. Here(t) = r /\ s \in Scope(t) /\ t \in Call
      BY <2>1, <2>4 DEF Here, TreeInv, CallInv, Scoped, Asks
    <3>2. s.op # "static"
      BY <3>1, ScopeKinds
    <3>3. CASE FindTurn(t)
      BY <3>1, <3>3, FoundThen
    <3>4. CASE GrowTurn(t, script)
      <4>1. s.op = "findOrMake"
        BY <2>4, <3>2, <3>4 DEF GrowTurn
      <4> QED
        BY <1>0, <2>4, <3>1, <3>4, <4>1, BuildingThen
    <3> QED
      BY <2>1, <2>4, <3>2, <3>3, <3>4 DEF Grew, MakeTurn, LinkTurn, TakeTurn, PublishTurn, Searching
  <2> QED
    BY <2>2, <2>3, <2>4
<1> QED
  BY <1>1, <1>2, <1>3, <1>4

LEMMA PublishesThen ==
    ASSUME Sound, TreeInv, NEW t \in Task, task[t].status = "running", NEW script, Grew(t, script),
           load' = load
    PROVE  Publishes(t)'
<1> SUFFICES ASSUME NEW r \in Role, Publishing(t, r)'
             PROVE  \/ Looking(t, r)' \/ Found(t, r)'
                    \/ \E i \in AgeTree : r = AgeInfo(i) /\ Building(t, i)'
  BY DEF Publishes
<1>1. /\ Left(t) = {Head(task[t].todo)} \cup ToSet(Rest(t))
      /\ Left(t)' = ToSet(script) \cup ToSet(Rest(t))
  BY Parts, Grown
<1>2. PICK p \in Left(t)' : p.op = "publish" /\ p.at = r
  BY DEF Publishing
<1>3. CASE p \in ToSet(script)
  <2>1. \E x \in ToSet(script) : x.op \in {"find", "findOrMake"} /\ x.at = r
    BY <1>2, <1>3, Grown, ScriptSteps DEF Grew
  <2> QED
    BY <1>1, <2>1 DEF Looking
<1>4. CASE p \in ToSet(Rest(t))
  <2>1. /\ p \in Left(t) /\ p \in Scope(t)
    BY <1>1, <1>4 DEF TreeInv, CallInv, Scoped
  <2>2. PICK j \in AgeTree : r = AgeInfo(j)
    BY <1>2, <2>1, ScopeKinds, AgeTrees
  <2>3. \/ Looking(t, r) \/ Found(t, r)
        \/ \E i \in AgeTree : r = AgeInfo(i) /\ Building(t, i)
    BY <1>2, <2>1 DEF TreeInv, CallInv, Publishes, Publishing, Live
  <2>4. CASE Looking(t, r)
    <3>1. PICK s \in Left(t) : s.op \in {"find", "findOrMake"} /\ s.at = r
      BY <2>4 DEF Looking
    <3>2. CASE s \in ToSet(Rest(t))
      BY <1>1, <3>1, <3>2 DEF Looking
    <3>3. CASE s = Head(task[t].todo)
      <4>1. Here(t) = r
        BY <3>1, <3>3 DEF Here
      <4>2. CASE FindTurn(t)
        BY <4>1, <4>2, FoundThen
      <4>3. CASE GrowTurn(t, script)
        <5>1. s.op = "findOrMake"
          BY <3>1, <3>3, <4>3 DEF GrowTurn
        <5> QED
          BY <2>2, <3>3, <4>1, <4>3, <5>1, BuildingThen
      <4> QED
        BY <3>1, <3>3, <4>2, <4>3 DEF Grew, MakeTurn, LinkTurn, TakeTurn, PublishTurn
    <3> QED
      BY <1>1, <3>2, <3>3
  <2>5. CASE Found(t, r)
    BY <2>5, FoundThen
  <2>6. ASSUME NEW i \in AgeTree, r = AgeInfo(i), Building(t, i) PROVE Building(t, i)'
    BY <2>6, BuildingThen
  <2> QED
    BY <2>3, <2>4, <2>5, <2>6
<1> QED
  BY <1>1, <1>2, <1>3, <1>4

LEMMA BareFirstThen ==
    ASSUME Sound, TreeInv, NEW t \in Task, task[t].status = "running", NEW script, Grew(t, script),
           load' = load
    PROVE  BareFirst(t)'
<1>1. ~Deletes(t)' /\ task'[t].status # "idle"
  BY Grown DEF Deletes, Goes
<1>2. ASSUME NEW s \in ToSet(Rest(t)) PROVE s.op # "name"
  <2>1. Rest(t) \in Seq(BuildStep)
    BY Rests DEF Grew, MakeTurn, LinkTurn, FindTurn, TakeTurn, PublishTurn, GrowTurn
  <2>2. s \in BuildStep
    BY <1>2, <2>1, SetOf
  <2> QED
    BY <2>2 DEF BuildStep, Builds
<1>3. \A s \in ToSet(script) : s.op # "name"
  BY Grown, ScriptSteps DEF Grew
<1>4. Step("name", Player).op = "name"
  BY DEF Step
<1>5. Step("name", Player) \notin Left(t)'
  BY <1>2, <1>3, <1>4, Grown
<1> QED
  BY <1>1, <1>5 DEF BareFirst

LEMMA GrewCalls ==
    ASSUME Sound, TreeInv, NEW t \in Task, task[t].status = "running", NEW script, Grew(t, script),
           load' = load, met \subseteq met'
    PROVE  CallInv(t)'
BY LeftThen, PhasesThen, FindsThen, WholesThen, AvatarsThen, AskingThen, PublishesThen, BareFirstThen
   DEF CallInv

-----------------------------------------------------------------------------
(* A call that begins, one that deletes, and one that another step leaves   *)
(* alone.                                                                   *)

\* A call that has found and made nothing, and goes on to no tree of an age.
LEMMA FreshCalls ==
    ASSUME NEW t \in Task, Bare(t)', Scoped(t)', Avatars(t)', Asking(t)',
           \A s \in Left(t)' : s.op # "publish" /\ \A i \in AgeTree : ~AgeStep(s, i)
    PROVE  CallInv(t)'
<1>1. \A r : ~Found(t, r)'
  BY DEF Bare, Found
<1>2. \A i \in AgeTree : ~Building(t, i)'
  BY DEF Bare, Building
<1>3. BareFirst(t)'
  BY DEF Bare, BareFirst
<1>4. Phases(t)'
  BY <1>1, <1>2 DEF Phases
<1>5. Finds(t)'
  BY DEF Bare, Finds
<1>6. Wholes(t)'
  BY <1>2 DEF Wholes
<1>7. Publishes(t)'
  BY DEF Publishes, Publishing
<1> QED
  BY <1>3, <1>4, <1>5, <1>6, <1>7 DEF CallInv

LEMMA NameCalls ==
    ASSUME Sound, TreeInv, NEW t \in Task, task[t].status = "running", NameTurn(t), load' = load
    PROVE  CallInv(t)'
<1>1. /\ AvatarScript \in Seq(AvatarSteps) /\ Ordered(AvatarScript)
      /\ <<Age("relto"), AgesIOwn>> \in LinksOf(AvatarScript) /\ ToSet(AvatarScript) \subseteq AvatarSteps
  BY AvatarScriptSteps, SetOf
<1>2. task'[t].todo = AvatarScript /\ Left(t)' = ToSet(AvatarScript)
  BY DEF NameTurn, Goes, Left
<1>3. Bare(t)'
  <2>1. Head(task[t].todo) \in Left(t) /\ Left(t) \subseteq Scope(t)
    BY Parts DEF TreeInv, CallInv, Scoped
  <2>2. Head(task[t].todo) = Step("name", Player)
    BY <2>1, ScopeKinds DEF NameTurn
  <2>3. Bare(t)
    BY <2>1, <2>2 DEF TreeInv, CallInv, BareFirst
  <2> QED
    BY <2>3 DEF NameTurn, Keeps, Still, Bare
<1>4. Scoped(t)'
  <2>1. Creates(t)'
    BY DEF NameTurn, Creates
  <2> QED
    BY <1>1, <1>2, <2>1 DEF Scoped, Scope, NameTurn, Goes
<1>5. Avatars(t)'
  BY <1>1, <1>2 DEF Avatars, Pledged
<1>6. Asking(t)'
  BY DEF NameTurn, Creates, Asks, Asking
<1>7. \A s \in AvatarSteps : s.op # "publish" /\ \A i \in AgeTree : ~AgeStep(s, i)
  <2>1. /\ \A i : Age(i)[2] = "age" /\ AgeInfo(i)[2] = "ageInfo"
        /\ \A i \in AgeTree : i # "player"
    BY AgeTrees DEF Age, AgeInfo
  <2> QED
    BY <2>1 DEF AvatarSteps, AgeStep
<1> QED
  BY <1>1, <1>2, <1>3, <1>4, <1>5, <1>6, <1>7, FreshCalls

\* A deletion finds, makes and searches nothing.
LEMMA DeleterIdle ==
    ASSUME NEW t \in Task, Deletes(t), Scoped(t), BareFirst(t)
    PROVE  /\ \A r : ~Seeking(t, r) /\ ~Making(t, r) /\ ~Publishing(t, r)
           /\ \A i : ~Building(t, i)
           /\ \A s \in Left(t) : s.op # "name"
<1>1. Left(t) \subseteq DeletionSteps
  BY DEF Scoped, Scope, Creates, Deletes
<1>2. \A s \in Left(t) : s.op \in {"fetch", "kick", "offline", "unlink", "next", "remove", "delete"}
  BY <1>1 DEF DeletionSteps
<1>3. \A n \in nodes : n[1] # t
  BY DEF BareFirst
<1> QED
  BY <1>2, <1>3 DEF Seeking, Making, Publishing, Searching, Building, AgeStep

LEMMA DeleterCalls ==
    ASSUME NEW t \in Task, Deletes(t)', task'[t].todo \in Seq(DeletionSteps), Finds(t)',
           task'[t].status # "idle", task'[t].status # "running" => task'[t].todo = <<>>,
           \A n \in nodes' : n[1] # t
    PROVE  CallInv(t)'
<1>1. ~Creates(t)' /\ ~Asks(t)' /\ Scope(t)' = DeletionSteps
  BY DEF Deletes, Creates, Asks, Scope
<1>2. Scoped(t)'
  <2>1. DeletionSteps \subseteq PlainStep
    BY DEF DeletionSteps, PlainStep, Settles, Searching
  <2>2. Ordered(task'[t].todo)
    BY <2>1, PlainOrdered
  <2>3. ToSet(task'[t].todo) \subseteq DeletionSteps
    BY SetOf
  <2> QED
    BY <1>1, <2>2, <2>3 DEF Scoped, Left
<1>3. \A s \in Left(t)' : s.op \in {"fetch", "kick", "offline", "unlink", "next", "remove", "delete"}
  BY <1>1, <1>2 DEF Scoped, DeletionSteps
<1>4. BareFirst(t)'
  BY <1>3 DEF BareFirst, Step
<1>5. /\ \A r : ~Seeking(t, r)' /\ ~Publishing(t, r)'
      /\ \A i : ~Building(t, i)'
  BY <1>3 DEF Seeking, Publishing, Searching, Building, AgeStep
<1> QED
  BY <1>1, <1>2, <1>4, <1>5 DEF CallInv, Phases, Wholes, Avatars, Asking, Publishes

LEMMA DeleteCalls ==
    ASSUME Sound, TreeInv, NEW t \in Task, task[t].status = "running", DeleteTurn(t), load' = load
    PROVE  CallInv(t)'
<1>1. Deletes(t)' /\ Deletes(t)
  BY DEF DeleteTurn, Deletes
<1>2. \A n \in nodes' : n[1] # t
  BY <1>1 DEF TreeInv, CallInv, BareFirst, DeleteTurn
<1>3. Finds(t)'
  BY <1>1 DEF Finds, TreeInv, CallInv, DeleteTurn, Keeps
<1> QED
  BY <1>1, <1>2, <1>3, DeleterCalls DEF DeleteTurn

\* What a step of another actor means to a call: at most, it ends it.
Kept(u) ==
    /\ load' = load /\ met \subseteq met' /\ task'[u].found = task[u].found
    /\ \/ task'[u].todo = task[u].todo /\ task'[u].status = task[u].status
       \/ task'[u].todo = <<>> /\ task'[u].status \in {"raised", "failed", "lost"}
    /\ \A n \in nodes' : n[1] = u => n \in nodes \/ (n[2] = "player" /\ PlayerOf(u) \in nodes)
    /\ \A n \in nodes : n \in nodes' \/ (n[2] = "player" /\ n[3] = "player")
    /\ \A ref \in refs : ref \in refs' \/ \E d \in met : ref[1] = Target(d)

LEMMA KeptLinked ==
    ASSUME Sound, TreeInv, NEW u \in Task, Kept(u), ~Deletes(u), NEW l, l[1] \in Role, Linked(u, l),
           l[1][2] # "player" \/ DeletionsOf(u) = {}
    PROVE  Linked(u, l)'
<1>0. PICK p, q : p = l[1] /\ q = l[2]
  OBVIOUS
<1>1. <<At(u, p), At(u, q)>> \in refs
  BY <1>0 DEF Linked
<1>2. At(u, p)' = At(u, p) /\ At(u, q)' = At(u, q)
  BY DEF Kept, At
<1>3. ASSUME NEW d \in met, At(u, p) = Target(d) PROVE FALSE
  <2>1. At(u, p)[3] = "player" /\ At(u, p) = <<load.jobs[d].of, "player", "player">>
    BY <1>3 DEF Target, PlayerOf
  <2>2. p[2] = "player"
    BY <1>0, <2>1, AtKinds
  <2>3. p \notin {System, AllPlayers} /\ \A i \in AgeTree : p # AgeInfo(i) /\ p # AgeOwners(i)
    BY <2>2 DEF System, AllPlayers, AgeInfo, AgeOwners
  <2>4. At(u, p) = <<u, p[1], p[2]>>
    BY <1>0, <2>3, AtKinds
  <2>5. load.jobs[d].of = u
    BY <2>1, <2>4
  <2> QED
    BY <1>0, <1>3, <2>2, <2>5 DEF DeletionsOf
<1>4. <<At(u, p), At(u, q)>> \in refs'
  BY <1>1, <1>3 DEF Kept
<1>5. <<At(u, p)', At(u, q)'>> \in refs'
  BY <1>2, <1>4
<1> QED
  BY <1>0, <1>5 DEF Linked

\* The roles that scripts link.
LEMMA LinkRoles ==
    /\ \A i \in AgeTree : \A l \in LinksOf(AgeScript(i)) : l[1] \in Role /\ l[1][2] # "player"
    /\ \A l \in LinksOf(AvatarScript) : l[1] \in Role
<1>1. ASSUME NEW i \in AgeTree, NEW l \in LinksOf(AgeScript(i)) PROVE l[1] \in Role /\ l[1][2] # "player"
  <2>1. ToSet(AgeScript(i)) \subseteq AgeSteps(i)
    BY AgeScriptSteps, SetOf
  <2>2. PICK s \in AgeSteps(i) : l[1] = s.at /\ s.op = "link"
    BY <2>1 DEF LinksOf
  <2> QED
    BY <2>2 DEF AgeSteps, StepType, Age, AgeInfo
<1>2. ASSUME NEW l \in LinksOf(AvatarScript) PROVE l[1] \in Role
  <2>1. ToSet(AvatarScript) \subseteq AvatarSteps
    BY AvatarScriptSteps, SetOf
  <2>2. PICK s \in AvatarSteps : l[1] = s.at
    BY <2>1 DEF LinksOf
  <2> QED
    BY <2>2 DEF AvatarSteps, StepType
<1> QED
  BY <1>1, <1>2

LEMMA KeptCalls ==
    ASSUME Sound, TreeInv, NEW u \in Task, Kept(u)
    PROVE  CallInv(u)'
<1>1. CallInv(u)
  BY DEF TreeInv
<1>2. /\ Creates(u)' <=> Creates(u)
      /\ Deletes(u)' <=> Deletes(u)
      /\ Asks(u)' <=> Asks(u)
      /\ Scope(u)' = Scope(u)
      /\ DeletionsOf(u)' = {} => DeletionsOf(u) = {}
  BY DEF Kept, Creates, Deletes, Asks, Scope, DeletionsOf
<1>3. /\ \A r : At(u, r)' = At(u, r)
      /\ \A r : Found(u, r)' <=> Found(u, r)
  BY DEF Kept, At, Found
<1>4. /\ Left(u)' \subseteq Left(u)
      /\ Live(u)' => Live(u) /\ task'[u].todo = task[u].todo /\ Left(u)' = Left(u)
      /\ task'[u].status = "idle" => task[u].status = "idle"
  <2>1. ToSet(<<>>) = {}
    BY DEF ToSet
  <2> QED
    BY <2>1 DEF Kept, Left, Live
<1>5. /\ \A r : Seeking(u, r)' => Seeking(u, r)
      /\ Live(u)' => \A r : /\ Seeking(u, r)' <=> Seeking(u, r)
                            /\ Looking(u, r)' <=> Looking(u, r)
                            /\ Making(u, r)' <=> Making(u, r)
                            /\ Publishing(u, r)' <=> Publishing(u, r)
  BY <1>4 DEF Seeking, Looking, Making, Publishing
<1>6. \A i \in AgeTree : i # "player"
  BY AgeTrees
<1>7. ASSUME NEW i \in AgeTree
      PROVE  /\ Building(u, i)' => Building(u, i)
             /\ Live(u)' /\ Building(u, i) => Building(u, i)'
             /\ Info(u, i) \in nodes => Info(u, i) \in nodes'
  <2>1. Building(u, i)' => Building(u, i)
    BY <1>4, <1>6 DEF Building, Kept
  <2>2. Live(u)' /\ Building(u, i) => Building(u, i)'
    BY <1>4, <1>6 DEF Building, Kept
  <2> QED
    BY <1>6, <2>1, <2>2 DEF Kept, Info
<1>8. Scoped(u)'
  <2>1. Len(<<>>) = 0
    OBVIOUS
  <2>2. Ordered(<<>>)
    BY <2>1 DEF Ordered
  <2> QED
    BY <1>1, <1>2, <1>4, <2>2 DEF CallInv, Scoped, Kept
<1>9. BareFirst(u)'
  <2>1. Bare(u) => Bare(u)'
    BY DEF Kept, Bare, PlayerOf
  <2>2. (\A n \in nodes : n[1] # u) => \A n \in nodes' : n[1] # u
    BY DEF Kept, PlayerOf
  <2> QED
    BY <1>1, <1>2, <1>4, <2>1, <2>2 DEF CallInv, BareFirst
<1>10. Phases(u)'
  BY <1>1, <1>3, <1>4, <1>5, <1>7 DEF CallInv, Phases
<1>11. Finds(u)'
  <2>1. ASSUME NEW f \in task[u].found, ~Deletes(u)
        PROVE  /\ f[2] \in nodes' /\ f[2][3] = f[1][2]
               /\ \/ f[1] \in {System, AllPlayers} /\ f[2][2] = "vault"
                  \/ \E i \in AgeTree : f[1] = AgeInfo(i)
                  \/ \E i \in AgeTree : f[1] = AgeOwners(i) /\ <<At(u, AgeInfo(i)), f[2]>> \in refs'
    <3>1. /\ f[2] \in nodes /\ f[2][3] = f[1][2]
          /\ \/ f[1] \in {System, AllPlayers} /\ f[2][2] = "vault"
             \/ \E i \in AgeTree : f[1] = AgeInfo(i)
             \/ \E i \in AgeTree : f[1] = AgeOwners(i) /\ <<At(u, AgeInfo(i)), f[2]>> \in refs
      BY <1>1, <2>1 DEF CallInv, Finds
    <3>2. f[1][2] # "player"
      <4>1. /\ \A r \in {System, AllPlayers} : r[2] # "player"
            /\ \A i : AgeInfo(i)[2] # "player" /\ AgeOwners(i)[2] # "player"
        BY DEF System, AllPlayers, AgeInfo, AgeOwners
      <4> QED
        BY <3>1, <4>1
    <3>3. f[2] \in nodes'
      BY <3>1, <3>2 DEF Kept
    <3>4. ASSUME NEW i \in AgeTree, <<At(u, AgeInfo(i)), f[2]>> \in refs
          PROVE  <<At(u, AgeInfo(i)), f[2]>> \in refs'
      <4>1. At(u, AgeInfo(i))[3] = "ageInfo"
        BY <2>1, AtKinds, AgeTrees DEF AgeInfo
      <4>2. \A d \in met : Target(d)[3] = "player"
        BY DEF Target, PlayerOf
      <4> QED
        BY <3>4, <4>1, <4>2 DEF Kept
    <3> QED
      BY <3>1, <3>3, <3>4
  <2>2. CASE Deletes(u)
    BY <1>1, <1>2, <2>2 DEF CallInv, Finds, Kept
  <2>3. CASE ~Deletes(u)
    BY <1>2, <1>3, <2>1, <2>3 DEF Finds, Kept
  <2> QED
    BY <2>2, <2>3
<1>12. ASSUME Live(u)', ~Deletes(u), NEW l, l[1] \in Role, Pledged(u, l),
              l[1][2] # "player" \/ DeletionsOf(u) = {}
       PROVE  Pledged(u, l)'
  BY <1>4, <1>12, KeptLinked DEF Pledged
<1>13. Wholes(u)'
  <2> SUFFICES ASSUME Live(u)', NEW i \in AgeTree, Building(u, i)', NEW l \in LinksOf(AgeScript(i))
               PROVE  Pledged(u, l)'
    BY DEF Wholes
  <2>1. ~Deletes(u)
    BY <1>1, <1>7, DeleterIdle DEF CallInv
  <2>2. Pledged(u, l)
    BY <1>1, <1>4, <1>7 DEF CallInv, Wholes
  <2> QED
    BY <1>12, <2>1, <2>2, LinkRoles
<1>14. Avatars(u)'
  <2> SUFFICES ASSUME Creates(u), Live(u)', DeletionsOf(u) = {}, Step("name", Player) \notin Left(u)
               PROVE  /\ \A l \in LinksOf(AvatarScript) : Pledged(u, l)'
                      /\ \/ Building(u, "relto")'
                         \/ <<Age("relto"), AgesIOwn>> \in LinksOf(task'[u].todo)
    BY <1>2, <1>4 DEF Avatars
  <2>1. ~Deletes(u)
    BY DEF Creates, Deletes
  <2>2. /\ \A l \in LinksOf(AvatarScript) : Pledged(u, l)
        /\ Building(u, "relto") \/ <<Age("relto"), AgesIOwn>> \in LinksOf(task[u].todo)
    BY <1>1, <1>4 DEF CallInv, Avatars
  <2>3. "relto" \in AgeTree
    BY AgeTrees
  <2> QED
    BY <1>4, <1>7, <1>12, <2>1, <2>2, <2>3, LinkRoles
<1>15. Asking(u)'
  <2>1. "shared" \in AgeTree
    BY AgeTrees
  <2> QED
    BY <1>1, <1>2, <1>3, <1>4, <1>5, <1>7, <2>1 DEF CallInv, Asking
<1>16. Publishes(u)'
  BY <1>1, <1>3, <1>4, <1>5, <1>7 DEF CallInv, Publishes
<1> QED
  BY <1>8, <1>9, <1>10, <1>11, <1>13, <1>14, <1>15, <1>16 DEF CallInv

-----------------------------------------------------------------------------
(* A step of a method.                                                      *)

LEMMA TurnWorld ==
    ASSUME NEW t \in Task, Turn(t)
    PROVE  /\ \A n \in nodes' : n \in nodes \/ (MakeTurn(t) /\ n = <<t, Here(t)[1], Here(t)[2]>>)
           /\ \A n \in nodes : n \in nodes' \/ (n[2] = "player" /\ n[3] = "player")
           /\ \A ref \in refs : ref \in refs' \/ \E d \in met : ref[1] = Target(d)
           /\ \A ref \in refs' : ref \in refs \/ (LinkTurn(t) /\ ref = <<At(t, Here(t)), At(t, Head(task[t].todo).child)>>)
<1>1. CASE MakeTurn(t)
  BY <1>1 DEF MakeTurn
<1>2. CASE LinkTurn(t)
  BY <1>2 DEF LinkTurn
<1>3. CASE DeleteTurn(t)
  <2>1. Target(t)[2] = "player" /\ Target(t)[3] = "player"
    BY DEF Target, PlayerOf
  <2>2. \A ref \in refs : ref \in refs' \/ \E d \in met : ref[1] = Target(d)
    BY <1>3 DEF DeleteTurn
  <2> QED
    BY <1>3, <2>1, <2>2 DEF DeleteTurn
<1>4. CASE /\ UNCHANGED <<nodes, refs>>
  BY <1>4
<1>5. \/ MakeTurn(t) \/ LinkTurn(t) \/ DeleteTurn(t) \/ UNCHANGED <<nodes, refs>>
  BY DEF Turn, StopTurn, FindTurn, GrowTurn, NameTurn, TakeTurn, PublishTurn, Still
<1> QED
  BY <1>1, <1>2, <1>3, <1>4, <1>5

LEMMA MetGrows ==
    ASSUME NEW t \in Task, MethodStep(t)
    PROVE  met \subseteq met'
BY DEF MethodStep, MakeNode, AddRef, FindNode, FindOrMakeNode, CheckName, PrepareStatic, Publish,
       FetchPlayer, KickPlayer, SetOffline, QueryChildren, NextChild, RemoveRef, DeleteNode,
       Fails, Server, History

LEMMA MethodRuns ==
    ASSUME NEW t \in Task, MethodStep(t)
    PROVE  task[t].status = "running"
BY DEF MethodStep, On, MakeNode, AddRef, FindNode, FindOrMakeNode, CheckName, PrepareStatic, Publish,
       FetchPlayer, KickPlayer, SetOffline, QueryChildren, NextChild, RemoveRef, DeleteNode, Fails

LEMMA MethodCalls ==
    ASSUME Sound, TreeInv, MetByThen, NEW t \in Task, MethodStep(t), NEW u \in Task
    PROVE  CallInv(u)'
<1>1. /\ Turn(t) /\ load' = load /\ met \subseteq met' /\ task[t].status = "running"
      /\ \A v \in Task \ {t} : task'[v] = task[v]
  BY Turns, MethodFrame, MetGrows, MethodRuns, MethodSteps DEF Stepped, Others
<1>2. CASE u # t
  <2>1. Kept(u)
    BY <1>1, <1>2, TurnWorld DEF Kept
  <2> QED
    BY <2>1, KeptCalls
<1>3. CASE u = t /\ StopTurn(t)
  <2>1. Kept(t)
    BY <1>1, <1>3 DEF StopTurn, Keeps, Still, Kept
  <2> QED
    BY <1>3, <2>1, KeptCalls
<1>4. CASE u = t /\ NameTurn(t)
  BY <1>1, <1>4, NameCalls
<1>5. CASE u = t /\ DeleteTurn(t)
  BY <1>1, <1>5, DeleteCalls
<1>6. ASSUME u = t, NEW script, Grew(t, script) PROVE CallInv(u)'
  BY <1>1, <1>6, GrewCalls
<1>7. \/ StopTurn(t) \/ NameTurn(t) \/ DeleteTurn(t) \/ \E script : Grew(t, script)
  BY <1>1 DEF Turn, Grew
<1> QED
  BY <1>2, <1>3, <1>4, <1>5, <1>6, <1>7

\* What the vault's first folders are, and what nodes and references there are.
LEMMA MethodVault ==
    ASSUME Sound, TreeInv, MetByThen, StartsAlone, NEW t \in Task, MethodStep(t)
    PROVE  OneVault'
<1>1. /\ Turn(t) /\ load' = load /\ task[t].status = "running"
      /\ \A v \in Task \ {t} : task'[v] = task[v]
  BY Turns, MethodFrame, MethodRuns, MethodSteps DEF Stepped, Others
<1>2. /\ Head(task[t].todo) \in Left(t) /\ Head(task[t].todo) \in Scope(t)
      /\ Left(t) = {Head(task[t].todo)} \cup ToSet(Rest(t)) /\ Here(t) = Head(task[t].todo).at
  BY <1>1, Parts DEF TreeInv, CallInv, Scoped, Here
<1> SUFFICES ASSUME NEW r \in {System, AllPlayers}
             PROVE  /\ \A m, n \in nodes' : <<m[2], m[3]>> = r /\ <<n[2], n[3]>> = r => m = n
                    /\ \A u \in Task : Making(u, r)' =>
                          u \notin Call /\ \A n \in nodes' : <<n[2], n[3]>> = r => n[1] = u
  BY DEF OneVault
<1>3. /\ \A m, n \in nodes : <<m[2], m[3]>> = r /\ <<n[2], n[3]>> = r => m = n
      /\ \A u \in Task : Making(u, r) =>
            u \notin Call /\ \A n \in nodes : <<n[2], n[3]>> = r => n[1] = u
  BY DEF TreeInv, OneVault
<1>4. ASSUME NEW n \in nodes', n \notin nodes, <<n[2], n[3]>> = r
      PROVE  n = <<t, r[1], r[2]>> /\ Making(t, r) /\ MakeTurn(t)
  <2>1. MakeTurn(t) /\ n = <<t, Here(t)[1], Here(t)[2]>>
    BY <1>1, <1>4, TurnWorld
  <2>2. Here(t) = r
    <3>1. Here(t) \in Role
      BY <1>1, Rests
    <3>2. <<Here(t)[1], Here(t)[2]>> = r
      BY <1>4, <2>1
    <3> QED
      BY <3>1, <3>2 DEF Role
  <2> QED
    BY <1>2, <2>1, <2>2 DEF MakeTurn, Making
<1>5. \A n \in nodes : <<n[2], n[3]>> = r => n = <<n[1], r[1], r[2]>>
  BY DEF Sound, TypeOK, Node, System, AllPlayers
<1>6. ASSUME NEW m \in nodes', NEW n \in nodes', <<m[2], m[3]>> = r, <<n[2], n[3]>> = r
      PROVE  m = n
  BY <1>3, <1>4, <1>5, <1>6
<1>7. ASSUME NEW u \in Task, Making(u, r)'
      PROVE  \/ Making(u, r)
             \/ u = t /\ t \notin Call /\ \A n \in nodes' : <<n[2], n[3]>> # r
  <2>1. CASE u # t
    <3>1. Left(u)' = Left(u)
      BY <1>1, <2>1 DEF Left
    <3> QED
      BY <1>7, <3>1 DEF Making
  <2>2. CASE u = t
    <3>1. PICK s \in Left(t)' : s.op = "make" /\ s.at = r
      BY <1>7, <2>2 DEF Making
    <3>2. CASE StopTurn(t) \/ DeleteTurn(t)
      <4>1. \A x \in DeletionSteps : x.op # "make"
        BY DEF DeletionSteps
      <4>2. ToSet(<<>>) = {}
        BY DEF ToSet
      <4>3. DeleteTurn(t) => Left(t)' \subseteq DeletionSteps
        BY SetOf DEF DeleteTurn, Left
      <4> QED
        BY <3>1, <3>2, <4>1, <4>2, <4>3 DEF StopTurn, Left
    <3>3. CASE NameTurn(t)
      <4>1. s \in AvatarSteps
        BY <3>1, <3>3, AvatarScriptSteps, SetOf DEF NameTurn, Goes, Left
      <4>2. s \in Scope(t) /\ t \in Call
        BY <3>3, <4>1 DEF NameTurn, Scope, Creates
      <4> QED
        BY <3>1, <4>2, ScopeKinds
    <3>4. ASSUME NEW script, Grew(t, script), s \in ToSet(script)
          PROVE  t \notin Call /\ \A n \in nodes' : <<n[2], n[3]>> # r
      <4>1. GrowTurn(t, script)
        BY <1>1, <3>4, Grown DEF Grew
      <4>2. t \notin Call /\ r = Here(t) /\ Matches(t, Here(t)) = {}
        <5>1. \A x \in ToSet(script) :
                 x.op = "make" /\ x.at \in {System, AllPlayers} =>
                    t \notin Call /\ x.at = Here(t) /\ Matches(t, Here(t)) = {}
          BY <1>1, <4>1, ScriptSteps
        <5> QED
          BY <3>1, <3>4, <5>1
      <4>3. \A n \in nodes : <<n[2], n[3]>> # r
        BY <4>2 DEF Matches, IsA, System, AllPlayers
      <4>4. nodes' = nodes
        BY <4>1 DEF GrowTurn, Still
      <4> QED
        BY <4>2, <4>3, <4>4
    <3>5. ASSUME NEW script, Grew(t, script), s \notin ToSet(script)
          PROVE  Making(t, r)
      <4>1. s \in Left(t)
        BY <1>1, <1>2, <3>1, <3>5, Grown
      <4> QED
        BY <3>1, <4>1 DEF Making
    <3>6. \/ StopTurn(t) \/ NameTurn(t) \/ DeleteTurn(t) \/ \E script : Grew(t, script)
      BY <1>1 DEF Turn, Grew
    <3> QED
      BY <2>2, <3>2, <3>3, <3>4, <3>5, <3>6
  <2> QED
    BY <2>1, <2>2
<1>8. ASSUME NEW u \in Task, Making(u, r), NEW n \in nodes', <<n[2], n[3]>> = r
      PROVE  n[1] = u
  <2>1. CASE n \in nodes
    BY <1>3, <1>8, <2>1
  <2>2. CASE n \notin nodes
    <3>1. n[1] = t /\ Making(t, r) /\ t \notin Call /\ u \notin Call
      BY <1>3, <1>4, <1>8, <2>2
    <3>2. task[u].status = "running"
      <4>1. task[u].todo # <<>>
        BY <1>8 DEF Making, Left, ToSet
      <4> QED
        BY <4>1 DEF TreeInv, CallInv, Scoped
    <3>3. u = t
      BY <1>1, <3>1, <3>2 DEF StartsAlone
    <3> QED
      BY <3>1, <3>3
  <2> QED
    BY <2>1, <2>2
<1> QED
  BY <1>3, <1>6, <1>7, <1>8

\* A reference that a call makes to a part of an instance is to its own instance.
LEMMA LinkKinds ==
    ASSUME Sound, TreeInv, NEW t \in Task, task[t].status = "running", LinkTurn(t),
           NEW p, p = Here(t), NEW c, c = Head(task[t].todo).child, At(t, p)[3] = "ageInfo"
    PROVE  At(t, c)[1] = At(t, p)[1] /\ At(t, c)[2] = At(t, p)[2]
<1>1. /\ Head(task[t].todo) \in Left(t) /\ Head(task[t].todo) \in Scope(t) /\ p \in Role
      /\ p = Head(task[t].todo).at /\ ~Deletes(t) /\ Head(task[t].todo).op = "link"
  BY Parts, Grown, Rests DEF TreeInv, CallInv, Scoped, Here, LinkTurn, Grew
<1>2. p[2] = "ageInfo"
  BY <1>1, AtKinds
<1>3. PICK i \in AgeTree : /\ p = AgeInfo(i) /\ AgeStep(Head(task[t].todo), i)
                           /\ c[1] = i /\ c[2] \notin {"player", "ageInfo"}
  BY <1>1, <1>2, ScopeKinds
<1>4. Building(t, i)
  BY <1>1, <1>3 DEF Building
<1>5. At(t, p) = Info(t, i)
  BY <1>1, <1>3, <1>4, AtKinds
<1>6. At(t, c)[1] = t /\ At(t, c)[2] = i
  <2>1. CASE ~Found(t, c)
    <3>1. At(t, c) = <<t, c[1], c[2]>>
      BY <2>1, AtCases
    <3> QED
      BY <1>3, <3>1
  <2>2. CASE Found(t, c)
    <3>1. <<c, At(t, c)>> \in task[t].found
      BY <2>2, AtCases
    <3>2. PICK f \in task[t].found : f[1] = c /\ f[2] = At(t, c)
      BY <3>1
    <3>3. \/ c \in {System, AllPlayers}
          \/ \E j \in AgeTree : c = AgeInfo(j)
          \/ \E j \in AgeTree : c = AgeOwners(j) /\ <<At(t, AgeInfo(j)), At(t, c)>> \in refs
      BY <1>1, <3>2 DEF TreeInv, CallInv, Finds
    <3>4. c \notin {System, AllPlayers}
      BY <1>3, AgeTrees DEF System, AllPlayers
    <3>5. \A j \in AgeTree : c # AgeInfo(j)
      BY <1>3 DEF AgeInfo
    <3>6. <<At(t, AgeInfo(i)), At(t, c)>> \in refs
      <4>1. \A j : AgeOwners(j)[1] = j
        BY DEF AgeOwners
      <4> QED
        BY <1>3, <3>3, <3>4, <3>5, <4>1
    <3>7. <<Info(t, i), At(t, c)>> \in refs
      BY <1>3, <1>5, <3>6
    <3> QED
      BY <3>7 DEF TreeInv, Kinds, Info
  <2> QED
    BY <2>1, <2>2
<1> QED
  BY <1>5, <1>6 DEF Info

\* What a start publishes exists.
LEMMA PublishKinds ==
    ASSUME Sound, TreeInv, NEW t \in Task, task[t].status = "running", PublishTurn(t)
    PROVE  /\ At(t, Here(t)) \in nodes /\ At(t, Here(t))[3] = "ageInfo"
           /\ \E i \in StaticSet : Here(t) = AgeInfo(i) /\ t \notin Call
<1>1. PICK r : r = Here(t)
  OBVIOUS
<1>2. /\ Head(task[t].todo) \in Left(t) /\ Head(task[t].todo) \in Scope(t) /\ r \in Role
      /\ r = Head(task[t].todo).at /\ ~Deletes(t) /\ Head(task[t].todo).op = "publish"
      /\ Left(t) = {Head(task[t].todo)} \cup ToSet(Rest(t))
  BY <1>1, Parts, Grown, Rests DEF TreeInv, CallInv, Scoped, Here, PublishTurn, Grew
<1>3. PICK i \in StaticSet : r = AgeInfo(i) /\ t \notin Call
  BY <1>2, ScopeKinds
<1>4. i \in AgeTree /\ r # System /\ r[2] = "ageInfo"
  BY <1>3, AgeTrees DEF AgeInfo, System
<1>5. \A s \in ToSet(Rest(t)) : s.op \in {"make", "find", "findOrMake"} => s.at # r
  <2>1. /\ task[t].todo \in Seq(StepType) /\ task[t].todo # <<>> /\ Ordered(task[t].todo)
    BY Parts DEF TreeInv, CallInv, Scoped
  <2>2. Settles(Head(task[t].todo))
    BY <1>2, <1>4 DEF Settles
  <2> QED
    BY <1>2, <2>1, <2>2, OrderedTail DEF Rest, Unsettles, Searching
<1>6. \/ Looking(t, r) \/ Found(t, r)
      \/ \E j \in AgeTree : r = AgeInfo(j) /\ Building(t, j)
  BY <1>2 DEF TreeInv, CallInv, Publishes, Publishing, Live
<1>7. ~Looking(t, r) /\ ~Making(t, r)
  BY <1>2, <1>5 DEF Looking, Making
<1>8. CASE Found(t, r)
  BY <1>1, <1>2, <1>3, <1>4, <1>8, AtKinds
<1>9. CASE Building(t, i)
  <2>1. Info(t, i) \in nodes
    BY <1>3, <1>4, <1>7, <1>9 DEF TreeInv, CallInv, Phases, Live
  <2>2. At(t, r) = Info(t, i)
    BY <1>2, <1>3, <1>4, <1>9, AtKinds
  <2> QED
    BY <1>1, <1>3, <2>1, <2>2 DEF Info
<1> QED
  <2>1. \A j : AgeInfo(j)[1] = j
    BY DEF AgeInfo
  <2> QED
    BY <1>3, <1>6, <1>7, <1>8, <1>9, <2>1

LEMMA MethodKinds ==
    ASSUME Sound, TreeInv, MetByThen, NEW t \in Task, MethodStep(t)
    PROVE  Kinds'
<1>1. Turn(t) /\ task[t].status = "running" /\ Kinds
  BY Turns, MethodRuns DEF TreeInv
<1>2. ASSUME NEW ref \in refs', ref[1][3] = "ageInfo"
      PROVE  ref[2][1] = ref[1][1] /\ ref[2][2] = ref[1][2]
  <2>1. CASE ref \in refs
    BY <1>1, <1>2, <2>1 DEF Kinds
  <2>2. CASE ref \notin refs
    <3>1. PICK p, c : p = Here(t) /\ c = Head(task[t].todo).child
      OBVIOUS
    <3>2. LinkTurn(t) /\ ref = <<At(t, p), At(t, c)>>
      BY <1>1, <2>2, <3>1, TurnWorld
    <3> QED
      BY <1>1, <1>2, <3>1, <3>2, LinkKinds
  <2> QED
    BY <2>1, <2>2
<1>3. ASSUME NEW n \in nodes', n[3] = "ageInfo" PROVE n[2] \in AgeTree
  <2>1. CASE n \in nodes
    BY <1>1, <1>3, <2>1 DEF Kinds
  <2>2. CASE n \notin nodes
    <3>1. MakeTurn(t) /\ n = <<t, Here(t)[1], Here(t)[2]>>
      BY <1>1, <2>2, TurnWorld
    <3>2. Head(task[t].todo) \in Scope(t) /\ Here(t) = Head(task[t].todo).at /\ Head(task[t].todo).op = "make"
      BY <1>1, <3>1, Parts DEF TreeInv, CallInv, Scoped, Here, MakeTurn
    <3> QED
      BY <1>3, <3>1, <3>2, ScopeKinds
  <2> QED
    BY <2>1, <2>2
<1>4. ASSUME NEW n \in public' PROVE n \in nodes' /\ n[3] = "ageInfo"
  <2>1. \A m \in public : m \in nodes' /\ m[3] = "ageInfo"
    BY <1>1, TurnWorld DEF Kinds
  <2>2. CASE n \notin public
    <3>1. CASE MakeTurn(t)
      BY <1>4, <2>2, <3>1 DEF MakeTurn
    <3>2. CASE PublishTurn(t)
      BY <1>1, <1>4, <2>2, <3>2, PublishKinds DEF PublishTurn
    <3> QED
      BY <1>1, <1>4, <2>2, <3>1, <3>2
         DEF Turn, StopTurn, LinkTurn, FindTurn, GrowTurn, NameTurn, TakeTurn, DeleteTurn, Still
  <2> QED
    BY <2>1, <2>2
<1>5. playing' \subseteq playing
  BY DEF MethodStep, MakeNode, AddRef, FindNode, FindOrMakeNode, CheckName, PrepareStatic, Publish,
     FetchPlayer, KickPlayer, SetOffline, QueryChildren, NextChild, RemoveRef, DeleteNode,
     Fails, Server
<1>6. \A p \in playing' : p = PlayerOf(p[1]) /\ p[1] \in Call
  BY <1>1, <1>5 DEF Kinds
<1> QED
  BY <1>2, <1>3, <1>4, <1>6 DEF Kinds, PlayerOf

LEMMA MethodTrees ==
    ASSUME Sound, TreeInv, MetByThen, StartsAlone, NEW t \in Task, MethodStep(t)
    PROVE  TreeInv'
<1>1. Waiting'
  <2>1. /\ boot' = boot /\ task[t].status = "running"
        /\ \A v \in Task \ {t} : task'[v] = task[v]
    BY MethodFrame, MethodRuns, MethodSteps DEF Stepped, Others
  <2>2. \A k \in DOMAIN Boot : Boot[k] \in Task
    BY Known DEF Sound
  <2> QED
    BY <2>1, <2>2 DEF TreeInv, Waiting
<1> QED
  BY <1>1, MethodCalls, MethodVault, MethodKinds DEF TreeInv

-----------------------------------------------------------------------------
(* Clients, and the server's starts.                                        *)

\* A step that leaves alone what a call has is kept to by it.
LEMMA SamePlaces ==
    ASSUME Sound, TreeInv, NEW u \in Task, task'[u] = task[u], UNCHANGED <<load, nodes, refs>>,
           met \subseteq met'
    PROVE  CallInv(u)'
<1>1. Kept(u)
  BY DEF Kept
<1> QED
  BY <1>1, KeptCalls

\* The first folders stay if no node or call goes on to make one.
LEMMA SameVault ==
    ASSUME TreeInv, \A n \in nodes' : n \in nodes \/ n[3] = "extra",
           \A u \in Task, r \in {System, AllPlayers} : Making(u, r)' => Making(u, r)
    PROVE  OneVault'
<1>1. \A r \in {System, AllPlayers} : r[2] # "extra" /\ r = <<r[1], r[2]>>
  BY DEF System, AllPlayers
<1>2. \A n \in nodes' : \A r \in {System, AllPlayers} : <<n[2], n[3]>> = r => n \in nodes
  BY <1>1
<1> QED
  BY <1>2 DEF TreeInv, OneVault

LEMMA ArriveCalls ==
    ASSUME Sound, TreeInv, NEW t \in Call, Arrive(t)
    PROVE  CallInv(t)' /\ \A r : ~Making(t, r)'
<1>1. /\ task[t].status = "idle" /\ task'[t].status = "running" /\ t \in Task
      /\ Creates(t) => task'[t].todo = <<Step("name", Player)>>
      /\ Deletes(t) => task'[t].todo = DeleteScript
      /\ ~Creates(t) /\ ~Deletes(t) => task'[t].todo = <<FindOrMake(AgeInfo("shared"))>>
      /\ UNCHANGED <<load, nodes, refs, met>>
  BY ArriveTask, ArriveSteps, Known DEF Sound
<1>2. (Creates(t)' <=> Creates(t)) /\ (Deletes(t)' <=> Deletes(t)) /\ Scope(t)' = Scope(t)
      /\ (Asks(t)' <=> Asks(t))
  BY <1>1 DEF Creates, Deletes, Scope, Asks
<1>3. Bare(t)
  BY <1>1 DEF TreeInv, CallInv, BareFirst
<1>4. task'[t] = Asked(t) /\ load.jobs[t].kind \in {"createAvatar", "createAge", "deleteAvatar"}
  <2>1. task' = [task EXCEPT ![t] = Asked(t)] /\ load.jobs[t].kind # "none"
    BY DEF Arrive
  <2> QED
    BY <1>1, <2>1, Known DEF Sound, TaskState, Job
<1>5. CASE Deletes(t)
  <2>1. DeleteScript \in Seq(DeletionSteps)
    BY DeletionTodoSteps DEF DeletionTodos
  <2>2. \A f \in task'[t].found : f[1] = Player
    <3>1. Deletes(t)' /\ ScriptedOf(t)'
      BY <1>1, <1>2, <1>5, ArriveTask DEF Scripted
    <3> QED
      BY <1>1, <3>1 DEF ScriptedOf
  <2>3. Finds(t)'
    BY <1>2, <1>5, <2>2 DEF Finds
  <2>4. CallInv(t)'
    BY <1>1, <1>2, <1>3, <1>5, <2>1, <2>3, DeleterCalls DEF Bare
  <2>5. \A s \in Left(t)' : s \in DeletionSteps
    BY <1>1, <1>5, <2>1, SetOf DEF Left
  <2> QED
    BY <2>4, <2>5 DEF Making, DeletionSteps
<1>6. CASE ~Deletes(t)
  <2> DEFINE x == IF Creates(t) THEN Step("name", Player) ELSE FindOrMake(AgeInfo("shared"))
  <2>1. /\ task'[t].todo = <<x>> /\ x \in Scope(t) /\ x \in StepType /\ x.op \in {"name", "findOrMake"}
    <3>1. AgeInfo("shared") \in Role /\ Player \in Role
      BY AgeTrees
    <3>2. Step("name", Player) \in StepType /\ FindOrMake(AgeInfo("shared")) \in StepType
      BY <3>1 DEF Step, FindOrMake, StepType, Op
    <3>3. x.op \in {"name", "findOrMake"}
      BY DEF Step, FindOrMake
    <3> QED
      BY <1>1, <1>6, <3>2, <3>3 DEF Scope
  <2>2. ~Creates(t) => Asks(t) /\ x.op = "findOrMake" /\ x.at = AgeInfo("shared")
    BY <1>4, <1>6 DEF Creates, Deletes, Asks, FindOrMake, Step
  <2>3. Creates(t) => ~Asks(t) /\ x = Step("name", Player)
    BY DEF Creates, Asks
  <2> HIDE DEF x
  <2>4. ToSet(<<x>>) = {x} /\ Ordered(<<x>>)
    BY <2>1, ClearOne DEF Clear, ToSet
  <2>5. Left(t)' = {x}
    BY <2>1, <2>4 DEF Left
  <2>6. task'[t].found = {}
    <3>1. Begun(<<Step("name", Player)>>).found = {} /\ Begun(<<FindOrMake(AgeInfo("shared"))>>).found = {}
      <4>1. \A y \in StepType : <<y>> \in Seq(StepType)
        OBVIOUS
      <4>2. Step("name", Player) \in StepType /\ FindOrMake(AgeInfo("shared")) \in StepType
        BY AgeTrees DEF Step, FindOrMake, StepType, Op
      <4> QED
        BY <4>1, <4>2, Begins
    <3>2. load.jobs[t].kind \in {"createAvatar", "createAge"}
      BY <1>1, <1>4, <1>6 DEF Deletes
    <3> QED
      BY <1>4, <3>1, <3>2 DEF Asked
  <2>7. Bare(t)'
    BY <1>1, <1>3, <2>6 DEF Bare
  <2>8. Scoped(t)'
    BY <1>1, <1>2, <2>1, <2>4, <2>5 DEF Scoped
  <2>9. Avatars(t)'
    BY <1>2, <2>3, <2>5 DEF Avatars
  <2>10. Asking(t)'
    BY <1>2, <2>2, <2>3, <2>5 DEF Asking, Seeking, Searching
  <2>11. CallInv(t)'
    BY <1>1, <2>1, <2>5, <2>7, <2>8, <2>9, <2>10, FreshCalls DEF AgeStep
  <2> QED
    BY <2>1, <2>5, <2>11 DEF Making
<1> QED
  BY <1>5, <1>6

LEMMA ArriveTrees ==
    ASSUME Sound, TreeInv, NEW t \in Call, Arrive(t)
    PROVE  TreeInv'
<1>1. /\ t \in Task /\ \A u \in Task \ {t} : task'[u] = task[u]
      /\ UNCHANGED <<load, nodes, refs, met, boot, playing, public>>
  BY ArriveTask, ArriveSteps, Known DEF Sound, Arrive
<1>2. \A u \in Task : CallInv(u)'
  BY <1>1, ArriveCalls, SamePlaces
<1>3. OneVault'
  <2>1. \A u \in Task, r \in {System, AllPlayers} : Making(u, r)' => Making(u, r)
    BY <1>1, ArriveCalls DEF Making, Left
  <2> QED
    BY <1>1, <2>1, SameVault
<1>4. Kinds'
  BY <1>1 DEF TreeInv, Kinds, PlayerOf
<1>5. Waiting'
  <2>1. \A k \in DOMAIN Boot : Boot[k] \in Task /\ Boot[k] # t
    BY Known DEF Sound
  <2> QED
    BY <1>1, <2>1 DEF TreeInv, Waiting
<1> QED
  BY <1>2, <1>3, <1>4, <1>5 DEF TreeInv

LEMMA ClientTrees ==
    ASSUME Sound, TreeInv,
           \/ \E u \in Call : Select(u)
           \/ \E p \in playing : Leave(p) \/ AddChild(p)
           \/ \E n \in nodes : Meddle(n)
           \/ UNCHANGED vars
    PROVE  TreeInv'
<1>1. UNCHANGED <<load, boot, task, met>>
  BY ClientSteps DEF vars
<1>2. \A n \in nodes' : n \in nodes \/ (n[2] = "player" /\ n[3] = "extra" /\ PlayerOf(n[1]) \in nodes)
  <2>1. ASSUME NEW p \in playing, AddChild(p), NEW n \in nodes', n \notin nodes
        PROVE  n[2] = "player" /\ n[3] = "extra" /\ PlayerOf(n[1]) \in nodes
    <3>1. n = <<p[1], "player", "extra">> /\ p \in nodes
      BY <2>1 DEF AddChild, Extra
    <3>2. p = PlayerOf(p[1])
      BY DEF TreeInv, Kinds
    <3> QED
      BY <3>1, <3>2
  <2>2. (\E p \in playing : AddChild(p)) \/ nodes' = nodes
    BY DEF Select, Leave, Meddle, vars
  <2> QED
    BY <2>1, <2>2
<1>3. nodes \subseteq nodes' /\ refs \subseteq refs'
  BY DEF Select, Leave, AddChild, Meddle, vars
<1>4. ASSUME NEW u \in Task PROVE CallInv(u)'
  <2>1. Kept(u)
    BY <1>1, <1>2, <1>3 DEF Kept
  <2> QED
    BY <2>1, KeptCalls
<1>5. OneVault'
  <2>1. \A u \in Task, r \in {System, AllPlayers} : Making(u, r)' => Making(u, r)
    BY <1>1 DEF Making, Left
  <2> QED
    BY <1>2, <2>1, SameVault
<1>6. Kinds'
  <2>1. \A ref \in refs' : ref \in refs \/ ref[1] \in playing
    BY DEF Select, Leave, AddChild, Meddle, vars
  <2>2. \A p \in playing : p[3] = "player"
    BY DEF TreeInv, Kinds, PlayerOf
  <2>3. \A n \in public' : n \in public \/ (n \in nodes /\ n[3] = "ageInfo")
    BY DEF Select, Leave, AddChild, Meddle, IsA, vars
  <2>4. \A p \in playing' : p \in playing \/ \E u \in Call : p = PlayerOf(u)
    BY DEF Select, Leave, AddChild, Meddle, Server, vars
  <2>5. \A u : PlayerOf(u)[1] = u
    BY DEF PlayerOf
  <2>6. \A ref \in refs' : ref[1][3] = "ageInfo" => ref[2][1] = ref[1][1] /\ ref[2][2] = ref[1][2]
    BY <2>1, <2>2 DEF TreeInv, Kinds
  <2>7. \A n \in nodes' : n[3] = "ageInfo" => n[2] \in AgeTree
    BY <1>2 DEF TreeInv, Kinds
  <2>8. \A n \in public' : n \in nodes' /\ n[3] = "ageInfo"
    BY <1>3, <2>3 DEF TreeInv, Kinds
  <2>9. \A p \in playing' : p = PlayerOf(p[1]) /\ p[1] \in Call
    BY <2>4, <2>5 DEF TreeInv, Kinds
  <2> QED
    BY <2>6, <2>7, <2>8, <2>9 DEF Kinds, PlayerOf
<1>7. Waiting'
  BY <1>1 DEF TreeInv, Waiting
<1> QED
  BY <1>4, <1>5, <1>6, <1>7 DEF TreeInv

\* A start of the server goes on to look its folders and its static instances up.
LEMMA StartKinds ==
    /\ SetupScript \in Seq(StepType) /\ Ordered(SetupScript)
    /\ ToSet(SetupScript) \subseteq BootSteps
    /\ \A s \in ToSet(SetupScript) : s.op \in {"findOrMake", "static"}
BY SetupScriptSteps, SetupScriptType, StepKinds, SetOf

LEMMA StartCalls ==
    ASSUME NEW t \in Task \ Call, task'[t].todo = SetupScript, task'[t].status = "running", Bare(t)'
    PROVE  CallInv(t)' /\ \A r : ~Making(t, r)'
<1>1. /\ Left(t)' = ToSet(SetupScript)
      /\ ~Creates(t)' /\ ~Deletes(t)' /\ ~Asks(t)' /\ Scope(t)' = BootSteps \cup StaticSteps
  BY DEF Left, Creates, Deletes, Asks, Scope
<1>2. Scoped(t)'
  BY <1>1, StartKinds DEF Scoped
<1>3. Avatars(t)' /\ Asking(t)'
  BY <1>1 DEF Avatars, Asking
<1>4. \A s \in Left(t)' : s.op \in {"findOrMake", "static"}
  BY <1>1, StartKinds
<1>5. CallInv(t)'
  BY <1>2, <1>3, <1>4, FreshCalls DEF AgeStep
<1> QED
  BY <1>4, <1>5 DEF Making

LEMMA RestartTrees ==
    ASSUME Sound, TreeInv, Restart
    PROVE  TreeInv'
<1>1. /\ UNCHANGED <<load, nodes, refs, public, met>> /\ boot' = boot + 1 /\ playing' = {}
      /\ boot < load.boots
      /\ task' = [t \in Task |->
                    IF t = Boot[boot + 1] THEN Begun(SetupScript)
                    ELSE IF task[t].status = "running"
                         THEN [task[t] EXCEPT !.status = "lost", !.todo = <<>>]
                         ELSE task[t]]
  BY DEF Restart, History
<1>2. /\ boot \in Nat /\ boot + 1 \in DOMAIN Boot /\ Boot[boot + 1] \in Task \ Call
      /\ \A k \in DOMAIN Boot : k \in Nat /\ Boot[k] \in Task
      /\ \A j, k \in DOMAIN Boot : Boot[j] = Boot[k] => j = k
  <2>1. boot \in 1..load.boots /\ load.boots \in DOMAIN Boot /\ DOMAIN Boot = 1..Len(Boot)
        /\ Len(Boot) \in Nat /\ \A k \in DOMAIN Boot : Boot[k] \in Task \ Call
    BY Known DEF Sound, TypeOK
  <2>2. IsInjective(Boot)
    BY LoadAssumption DEF LoadAssumption
  <2>3. \A j, k \in DOMAIN Boot : Boot[j] = Boot[k] => j = k
    BY <2>2 DEF IsInjective
  <2>4. boot \in Nat /\ boot + 1 \in 1..Len(Boot)
    <3>1. PICK last \in 1..Len(Boot) : last = load.boots
      BY <2>1
    <3>2. boot \in 1..last /\ boot < last /\ Len(Boot) \in Nat
      BY <1>1, <2>1, <3>1
    <3> QED
      BY <3>2
  <2>5. \A k \in DOMAIN Boot : k \in Nat /\ Boot[k] \in Task
    BY <2>1
  <2>6. boot + 1 \in DOMAIN Boot /\ Boot[boot + 1] \in Task \ Call
    BY <2>1, <2>4
  <2> QED
    BY <2>3, <2>4, <2>5, <2>6
<1>3. PICK b \in Task \ Call : b = Boot[boot + 1]
  BY <1>2
<1>4. task[b].status = "idle"
  BY <1>2, <1>3 DEF TreeInv, Waiting
<1>5. task'[b].todo = SetupScript /\ task'[b].status = "running" /\ task'[b].found = {}
  BY <1>1, <1>3, StartKinds, Begins
<1>6. CallInv(b)' /\ \A r : ~Making(b, r)'
  <2>1. Bare(b)
    BY <1>4 DEF TreeInv, CallInv, BareFirst
  <2>2. Bare(b)'
    BY <1>1, <1>5, <2>1 DEF Bare
  <2> QED
    BY <1>5, <2>2, StartCalls
<1>7. ASSUME NEW u \in Task \ {b}
      PROVE  /\ task'[u].found = task[u].found
             /\ \/ task'[u] = task[u]
                \/ task'[u].todo = <<>> /\ task'[u].status = "lost"
  <2>1. task[u] \in TaskState
    BY Known DEF Sound
  <2>2. task'[u] = IF task[u].status = "running"
                   THEN [task[u] EXCEPT !.status = "lost", !.todo = <<>>]
                   ELSE task[u]
    BY <1>1, <1>3, <1>7
  <2>3. \A w \in TaskState : /\ [w EXCEPT !.status = "lost", !.todo = <<>>].status = "lost"
                             /\ [w EXCEPT !.status = "lost", !.todo = <<>>].todo = <<>>
                             /\ [w EXCEPT !.status = "lost", !.todo = <<>>].found = w.found
    BY DEF TaskState
  <2> QED
    BY <2>1, <2>2, <2>3
<1>8. ASSUME NEW u \in Task \ {b} PROVE CallInv(u)' /\ \A r : Making(u, r)' => Making(u, r)
  <2>1. Kept(u)
    BY <1>1, <1>7 DEF Kept
  <2>2. ToSet(<<>>) = {}
    BY DEF ToSet
  <2>3. \A r : Making(u, r)' => Making(u, r)
    BY <1>7, <2>2 DEF Making, Left
  <2> QED
    BY <2>1, <2>3, KeptCalls
<1>9. OneVault'
  BY <1>1, <1>6, <1>8, SameVault
<1>10. Kinds'
  BY <1>1 DEF TreeInv, Kinds, PlayerOf
<1>11. Waiting'
  <2> SUFFICES ASSUME NEW k \in DOMAIN Boot, k > boot + 1 PROVE task'[Boot[k]].status = "idle"
    BY <1>1 DEF Waiting
  <2>1. k > boot /\ Boot[k] # b /\ Boot[k] \in Task
    BY <1>2, <1>3
  <2>2. task[Boot[k]].status = "idle"
    BY <2>1 DEF TreeInv, Waiting
  <2>3. task'[Boot[k]] = task[Boot[k]]
    BY <1>1, <1>3, <2>1, <2>2
  <2> QED
    BY <2>2, <2>3
<1> QED
  BY <1>6, <1>8, <1>9, <1>10, <1>11 DEF TreeInv

LEMMA TreesStep == Sound /\ GhostInv /\ InstanceInv /\ TreeInv /\ [Next]_vars => TreeInv'
<1> SUFFICES ASSUME Sound, GhostInv, InstanceInv, TreeInv, [Next]_vars PROVE TreeInv'
  OBVIOUS
<1>1. MetByThen /\ StartsAlone
  BY DEF GhostInv, InstanceInv
<1>2. CASE \E t \in Task : MethodStep(t)
  BY <1>1, <1>2, MethodTrees
<1>3. CASE \E t \in Call : Arrive(t)
  BY <1>3, ArriveTrees
<1>4. CASE Restart
  BY <1>4, RestartTrees
<1> QED
  BY <1>2, <1>3, <1>4, ClientTrees DEF Next

\* A call that has not begun.
LEMMA IdleCalls ==
    ASSUME NEW t \in Task, task[t].status = "idle", task[t].todo = <<>>, Bare(t)
    PROVE  CallInv(t) /\ \A r : ~Making(t, r)
<1>1. Left(t) = {} /\ Ordered(task[t].todo)
  BY ClearNone DEF Clear, Left, ToSet
<1>2. /\ \A r : ~Found(t, r) /\ ~Seeking(t, r) /\ ~Publishing(t, r) /\ ~Making(t, r)
      /\ \A i : ~Building(t, i)
  BY <1>1 DEF Bare, Found, Seeking, Publishing, Making, Building
<1>3. Finds(t) /\ ~Live(t)
  BY DEF Bare, Finds, Live
<1>4. Scoped(t) /\ BareFirst(t)
  BY <1>1 DEF Scoped, BareFirst, Bare
<1>5. Phases(t)
  BY <1>2 DEF Phases
<1> QED
  BY <1>2, <1>3, <1>4, <1>5 DEF CallInv, Wholes, Avatars, Asking, Publishes

\* The server's first start.
LEMMA FirstCalls ==
    ASSUME NEW t \in Task \ Call, task[t].todo = SetupScript, task[t].status = "running", Bare(t)
    PROVE  CallInv(t) /\ \A r : ~Making(t, r)
<1>1. /\ Left(t) = ToSet(SetupScript)
      /\ ~Creates(t) /\ ~Deletes(t) /\ ~Asks(t) /\ Scope(t) = BootSteps \cup StaticSteps
  BY DEF Left, Creates, Deletes, Asks, Scope
<1>2. \A s \in Left(t) : s.op \in {"findOrMake", "static"}
  BY <1>1, StartKinds
<1>3. Scoped(t)
  BY <1>1, StartKinds DEF Scoped
<1>4. /\ \A r : ~Found(t, r) /\ ~Publishing(t, r) /\ ~Making(t, r)
      /\ \A i : ~Building(t, i)
  BY <1>2 DEF Bare, Found, Publishing, Making, Building, AgeStep
<1>5. Finds(t)
  BY DEF Bare, Finds
<1> QED
  BY <1>1, <1>3, <1>4, <1>5
     DEF CallInv, BareFirst, Phases, Wholes, Avatars, Asking, Publishes

LEMMA InitTrees == Init => TreeInv
<1> SUFFICES ASSUME Init PROVE TreeInv
  OBVIOUS
<1>1. /\ task = [t \in Task |-> IF t = Boot[1] THEN Begun(SetupScript) ELSE Idle]
      /\ boot = 1 /\ nodes = {} /\ refs = {} /\ public = {} /\ playing = {} /\ Sound
  BY InitSound DEF Init
<1>2. /\ 1 \in DOMAIN Boot /\ \A k \in DOMAIN Boot : Boot[k] \in Task \ Call
      /\ \A j, k \in DOMAIN Boot : Boot[j] = Boot[k] => j = k
  <2>1. boot \in 1..load.boots /\ load.boots \in DOMAIN Boot /\ DOMAIN Boot = 1..Len(Boot)
    BY <1>1, Known DEF Sound, TypeOK
  <2>2. 1 \in DOMAIN Boot
    BY <1>1, <2>1
  <2>3. IsInjective(Boot)
    BY LoadAssumption DEF LoadAssumption
  <2> QED
    BY <1>1, <2>2, <2>3, Known DEF Sound, IsInjective
<1>3. /\ Idle.status = "idle" /\ Idle.todo = <<>> /\ Idle.found = {}
      /\ Begun(SetupScript).status = "running" /\ Begun(SetupScript).todo = SetupScript
      /\ Begun(SetupScript).found = {}
  BY StartKinds, Begins DEF Idle
<1>4. ASSUME NEW t \in Task PROVE CallInv(t) /\ \A r : ~Making(t, r)
  <2>1. Bare(t)
    BY <1>1, <1>3 DEF Bare
  <2>2. CASE t = Boot[1]
    BY <1>1, <1>2, <1>3, <2>1, <2>2, FirstCalls
  <2>3. CASE t # Boot[1]
    BY <1>1, <1>3, <2>1, <2>3, IdleCalls
  <2> QED
    BY <2>2, <2>3
<1>5. OneVault /\ Kinds
  BY <1>1, <1>4 DEF OneVault, Kinds
<1>6. Waiting
  <2> SUFFICES ASSUME NEW k \in DOMAIN Boot, k > 1 PROVE task[Boot[k]].status = "idle"
    BY <1>1 DEF Waiting
  <2>1. k # 1
    OBVIOUS
  <2>2. Boot[k] # Boot[1] /\ Boot[k] \in Task
    BY <1>2, <2>1
  <2> QED
    BY <1>1, <1>3, <2>2
<1> QED
  BY <1>4, <1>5, <1>6 DEF TreeInv

-----------------------------------------------------------------------------
(* What was reported.                                                       *)

\* Nothing is left of a call that has returned.
LEMMA NothingLeft ==
    ASSUME TreeInv, NEW t \in Task, task[t].status # "running"
    PROVE  /\ Left(t) = {} /\ LinksOf(task[t].todo) = {}
           /\ \A r : ~Seeking(t, r)
           /\ \A l : Pledged(t, l) => Linked(t, l)
<1>1. task[t].todo = <<>>
  BY DEF TreeInv, CallInv, Scoped
<1>2. Left(t) = {}
  BY <1>1 DEF Left, ToSet
<1>3. LinksOf(task[t].todo) = {}
  BY <1>1, <1>2 DEF LinksOf, Left
<1> QED
  BY <1>2, <1>3 DEF Seeking, Pledged

\* A tree that a call that has returned has built is whole.
LEMMA BuiltWhole ==
    ASSUME TreeInv, NEW t \in Task, task[t].status = "returned", NEW i \in AgeTree, Building(t, i)
    PROVE  Links(t, AgeScript(i)) \subseteq refs
<1>1. \A l \in LinksOf(AgeScript(i)) : Linked(t, l)
  BY NothingLeft DEF TreeInv, CallInv, Wholes, Live
<1> QED
  BY <1>1 DEF Linked, Links

LEMMA WholeOrUnfinished ==
    ASSUME Sound, TreeInv, NEW n \in nodes, n[3] = "ageInfo"
    PROVE  InstanceWhole(n) \/ task[n[1]].status # "returned"
<1>1. n[1] \in Task /\ n[2] \in AgeTree
  BY DEF Sound, TypeOK, Node, TreeInv, Kinds
<1>2. Building(n[1], n[2])
  BY DEF Building
<1> QED
  BY <1>1, <1>2, BuiltWhole DEF InstanceWhole

\* Whatever requests arrive together and wherever they fail or the server dies, an avatar
\* that a client was told was created has all of its lists, folders and age, unless a
\* deletion of it has begun, and so has an age instance, unless the request found one that
\* its maker did not finish (create_avatar, create_age_instance, init_age).
THEOREM ReportsAreWhole == Spec => []ReportedIsWhole
<1>1. Sound /\ TreeInv => ReportedIsWhole
  <2> SUFFICES ASSUME Sound, TreeInv, NEW t \in Call, task[t].status = "returned"
               PROVE  /\ Creates(t) => AvatarWhole(t) \/ DeletionsOf(t) # {}
                      /\ Asks(t) =>
                            LET n == At(t, AgeInfo("shared"))
                            IN  InstanceWhole(n) \/ task[n[1]].status # "returned"
    BY DEF ReportedIsWhole, Creates, Asks
  <2>1. /\ t \in Task /\ CallInv(t) /\ Live(t)
        /\ "relto" \in AgeTree /\ "shared" \in AgeTree
    BY Known, AgeTrees DEF Sound, TreeInv, Live
  <2>2. ASSUME Creates(t), DeletionsOf(t) = {} PROVE AvatarWhole(t)
    <3>1. /\ \A l \in LinksOf(AvatarScript) : Pledged(t, l)
          /\ Building(t, "relto")
      BY <2>1, <2>2, NothingLeft DEF CallInv, Avatars
    <3>2. \A l \in LinksOf(AvatarScript) : Linked(t, l)
      BY <2>1, <3>1, NothingLeft
    <3>3. Links(t, AvatarScript) \subseteq refs
      BY <3>2 DEF Linked, Links
    <3> QED
      BY <2>1, <3>1, <3>3, BuiltWhole DEF AvatarWhole
  <2>3. ASSUME Asks(t), NEW n, n = At(t, AgeInfo("shared"))
        PROVE  InstanceWhole(n) \/ task[n[1]].status # "returned"
    <3>1. ~Deletes(t) /\ AgeInfo("shared") \in Role /\ AgeInfo("shared")[2] = "ageInfo"
      BY <2>1, <2>3, AgeTrees DEF Asks, Deletes, AgeInfo
    <3>2. CASE Found(t, AgeInfo("shared"))
      BY <2>1, <2>3, <3>1, <3>2, AtKinds, WholeOrUnfinished
    <3>3. CASE Building(t, "shared")
      <4>1. n = Info(t, "shared")
        BY <2>1, <2>3, <3>1, <3>3, AtKinds
      <4>2. Links(t, AgeScript("shared")) \subseteq refs
        BY <2>1, <3>3, BuiltWhole
      <4> QED
        BY <4>1, <4>2 DEF InstanceWhole, Info
    <3> QED
      BY <2>1, <2>3, <3>2, <3>3, NothingLeft DEF CallInv, Asking
  <2> QED
    BY <2>2, <2>3
<1>2. NameInv => Overlaps
  BY DEF NameInv
<1> QED
  BY <1>1, <1>2, SpecSound, InitNames, NamesStep, InitGhosts, GhostsStep, InitInstances,
     InstancesStep, InitTrees, TreesStep, PTL DEF Spec

-----------------------------------------------------------------------------
(* What a start ensures.                                                    *)

\* There is the instance that the server knows, public if nobody changed that.
Ensured(i) ==
    \E n \in nodes : /\ IsA(n, "ageInfo") /\ KeyOf(n) = <<instance[i], i>>
                     /\ n \in public \/ boot \in meddled

\* A start has ensured an instance, or has yet to look for one or to publish it.
Owes(t, i) == Step("static", AgeInfo(i)) \in Left(t) \/ Publishing(t, AgeInfo(i))

EnsureInv == Live(Boot[boot]) => \A i \in StaticSet : Owes(Boot[boot], i) \/ Ensured(i)

\* Keys are pairs, and of a static instance the tree is its name.
LEMMA KeyPairs ==
    ASSUME Sound, NEW n \in nodes
    PROVE  KeyOf(n) = <<KeyOf(n)[1], KeyOf(n)[2]>>
<1>1. n[1] \in Call => load.jobs[n[1]].key \in Key
  BY Known DEF Sound, Job
<1>2. n[1] \in Call => load.jobs[n[1]].key = <<load.jobs[n[1]].key[1], load.jobs[n[1]].key[2]>>
  BY <1>1 DEF Key
<1> QED
  BY <1>2 DEF KeyOf, KeyFor

LEMMA EnsuredThen ==
    ASSUME NEW i, Ensured(i), UNCHANGED <<load, boot>>, instance'[i] = instance[i],
           \A n \in nodes : n \in nodes' \/ n[3] = "player",
           \A n \in nodes : n \in public => n \in public' \/ boot \in meddled',
           meddled \subseteq meddled'
    PROVE  Ensured(i)'
<1>1. PICK n \in nodes : /\ n[3] = "ageInfo" /\ KeyOf(n) = <<instance[i], i>>
                         /\ n \in public \/ boot \in meddled
  BY DEF Ensured, IsA
<1>2. n \in nodes' /\ KeyOf(n)' = KeyOf(n)
  BY <1>1, KeyOfStay
<1> QED
  BY <1>1, <1>2 DEF Ensured, IsA

\* A step of the start, on another instance than the one it is at, or on none.
LEMMA StartEnsures ==
    ASSUME Sound, InstanceInv, ChoiceInv, TreeInv, EnsureInv, MetByThen,
           NEW t \in Task \ Call, t = Boot[boot], MethodStep(t), NEW i \in StaticSet, Live(t)'
    PROVE  Owes(t, i)' \/ Ensured(i)'
<1>1. /\ Turn(t) /\ UNCHANGED <<load, boot, meddled>> /\ task[t].status = "running"
      /\ Owes(t, i) \/ Ensured(i)
  BY Turns, MethodFrame, MethodRuns DEF EnsureInv, Live
<1>2. PICK s, r : /\ s = Head(task[t].todo) /\ r = s.at /\ r = Here(t) /\ s \in Scope(t)
                  /\ s \in StepType /\ Left(t) = {s} \cup ToSet(Rest(t))
  BY <1>1, Parts DEF TreeInv, CallInv, Scoped, Here
<1>3. /\ \A j : AgeInfo(j)[1] = j
      /\ \A j \in StaticSet : AgeInfo(j) \in Role
  BY AgeTrees DEF AgeInfo
<1>4. \A n \in nodes : n \in nodes' \/ n[3] = "player"
  BY <1>1, TurnWorld
<1>5. s.op \notin {"static", "publish"} /\ Owes(t, i) =>
          \/ \E x \in ToSet(Rest(t)) : x = Step("static", AgeInfo(i))
          \/ \E x \in ToSet(Rest(t)) : x.op = "publish" /\ x.at = AgeInfo(i)
  BY <1>2 DEF Owes, Publishing, Step
<1>6. ASSUME ToSet(Rest(t)) \subseteq Left(t)', UNCHANGED instance, public \subseteq public',
             s.op \notin {"static", "publish"}
      PROVE  Owes(t, i)' \/ Ensured(i)'
  <2>1. Owes(t, i) => Owes(t, i)'
    BY <1>5, <1>6 DEF Owes, Publishing
  <2> QED
    BY <1>1, <1>4, <1>6, <2>1, EnsuredThen
<1>7. ASSUME Goes(t, Rest(t)) PROVE Left(t)' = ToSet(Rest(t))
  BY <1>7 DEF Goes, Left
<1>8. CASE MakeTurn(t) \/ LinkTurn(t) \/ FindTurn(t)
  BY <1>2, <1>6, <1>7, <1>8 DEF MakeTurn, LinkTurn, FindTurn, Still
<1>9. ASSUME NEW script, GrowTurn(t, script) PROVE Owes(t, i)' \/ Ensured(i)'
  <2>1. /\ Left(t)' = ToSet(script) \cup ToSet(Rest(t))
        /\ UNCHANGED <<public, instance>>
    <3>1. script \in Seq(StepType) /\ Rest(t) \in Seq(StepType)
      BY <1>1, <1>9, ScriptSteps, Parts
    <3> QED
      BY <1>9, <3>1, Joined DEF GrowTurn, Goes, Still, Left
  <2>2. CASE s.op = "findOrMake"
    BY <1>6, <2>1, <2>2
  <2>3. CASE s.op = "static"
    <3>1. PICK j \in StaticSet : r = AgeInfo(j) /\ script = StaticScript(j)
      BY <1>1, <1>2, <1>9, <2>3, GrowCases
    <3>2. Step("publish", AgeInfo(j)) \in Left(t)'
      BY <2>1, <3>1, StaticScriptSteps
    <3>3. CASE i = j
      BY <3>2, <3>3 DEF Owes, Publishing, Step
    <3>4. CASE i # j
      <4>1. Owes(t, i) => Owes(t, i)'
        <5>1. s # Step("static", AgeInfo(i)) /\ s.op # "publish"
          BY <1>2, <1>3, <2>3, <3>1, <3>4 DEF Step
        <5> QED
          BY <1>2, <2>1, <5>1 DEF Owes, Publishing
      <4> QED
        BY <1>1, <1>4, <2>1, <4>1, EnsuredThen
    <3> QED
      BY <3>3, <3>4
  <2> QED
    BY <1>2, <1>9, <2>2, <2>3 DEF GrowTurn
<1>10. instance \in [StaticSet -> Task \cup {Config, None}]
  BY DEF Sound, TypeOK
<1>11. ASSUME s.op \in {"static", "publish"}, NEW j \in StaticSet, r = AgeInfo(j), i # j,
              Goes(t, Rest(t)), public \subseteq public', NEW x,
              instance' = [instance EXCEPT ![j] = x]
       PROVE  Owes(t, i)' \/ Ensured(i)'
  <2>1. Owes(t, i) => Owes(t, i)'
    <3>1. s # Step("static", AgeInfo(i)) /\ s.at # AgeInfo(i)
      BY <1>2, <1>3, <1>11 DEF Step
    <3> QED
      BY <1>2, <1>7, <1>11, <3>1 DEF Owes, Publishing
  <2>2. instance'[i] = instance[i]
    BY <1>10, <1>11
  <2> QED
    BY <1>1, <1>4, <1>11, <2>1, <2>2, EnsuredThen
<1>12. CASE TakeTurn(t)
  <2>1. PICK j \in StaticSet : r = AgeInfo(j) /\ r[1] = j
    BY <1>2, <1>3, <1>12, ScopeKinds DEF TakeTurn
  <2>2. PICK n \in PublicInstances(j) : instance' = [instance EXCEPT ![j] = KeyOf(n)[1]]
    BY <1>2, <1>12, <2>1 DEF TakeTurn
  <2>3. CASE i = j
    <3>1. n \in public /\ IsA(n, "ageInfo") /\ KeyOf(n)[2] = j /\ n \in nodes
      BY DEF PublicInstances, TreeInv, Kinds
    <3>2. KeyOf(n) = <<KeyOf(n)[1], j>> /\ KeyOf(n)' = KeyOf(n)
      BY <1>1, <3>1, KeyPairs, KeyOfStay
    <3>3. instance'[i] = KeyOf(n)[1] /\ public' = public /\ nodes' = nodes
      BY <1>10, <1>12, <2>2, <2>3 DEF TakeTurn
    <3> QED
      BY <2>3, <3>1, <3>2, <3>3 DEF Ensured, IsA
  <2>4. CASE i # j
    BY <1>2, <1>11, <1>12, <2>1, <2>2, <2>4 DEF TakeTurn
  <2> QED
    BY <2>3, <2>4
<1>13. CASE PublishTurn(t)
  <2>1. PICK j \in StaticSet : r = AgeInfo(j) /\ r[1] = j
    BY <1>2, <1>3, <1>13, ScopeKinds DEF PublishTurn
  <2>2. PICK n : n = At(t, r)
    OBVIOUS
  <2>3. /\ instance' = [instance EXCEPT ![j] = KeyOf(n)[1]] /\ public' = public \cup {n}
        /\ nodes' = nodes
    BY <1>2, <1>13, <2>1, <2>2 DEF PublishTurn
  <2>4. CASE i = j
    <3>1. n \in nodes /\ IsA(n, "ageInfo")
      BY <1>1, <1>2, <1>13, <2>2, PublishKinds DEF IsA
    <3>2. KeyOf(n) = <<KeyOf(n)[1], j>> /\ KeyOf(n)' = KeyOf(n)
      <4>1. KeyOf(n) = KeyFor(t, j) /\ KeyFor(t, j)[2] = j
        BY <2>1, <2>2, StartsAt DEF ChoiceInv
      <4> QED
        BY <1>1, <3>1, <4>1, KeyPairs, KeyOfStay
    <3>3. instance'[i] = KeyOf(n)[1]
      BY <1>10, <2>3, <2>4
    <3> QED
      BY <2>3, <2>4, <3>1, <3>2, <3>3 DEF Ensured, IsA
  <2>5. CASE i # j
    BY <1>2, <1>11, <1>13, <2>1, <2>3, <2>5 DEF PublishTurn
  <2> QED
    BY <2>4, <2>5
<1>14. ~StopTurn(t) /\ ~NameTurn(t) /\ ~DeleteTurn(t)
  BY DEF StopTurn, NameTurn, DeleteTurn, Creates, Deletes, Live
<1> QED
  BY <1>1, <1>8, <1>9, <1>12, <1>13, <1>14 DEF Turn

LEMMA InitEnsures == Init => EnsureInv
<1> SUFFICES ASSUME Init PROVE EnsureInv
  OBVIOUS
<1>1. /\ task = [t \in Task |-> IF t = Boot[1] THEN Begun(SetupScript) ELSE Idle]
      /\ boot = 1 /\ Sound
  BY InitSound DEF Init
<1>2. Boot[1] \in Task
  <2>1. boot \in 1..load.boots /\ load.boots \in DOMAIN Boot /\ DOMAIN Boot = 1..Len(Boot)
    BY <1>1, Known DEF Sound, TypeOK
  <2>2. 1 \in DOMAIN Boot
    BY <1>1, <2>1
  <2> QED
    BY <1>1, <2>2, Known DEF Sound
<1>3. Left(Boot[boot]) = ToSet(SetupScript)
  BY <1>1, <1>2, StartKinds, Begins DEF Left
<1> QED
  BY <1>3, SetupScriptSteps DEF EnsureInv, Owes

LEMMA EnsuresStep ==
    Sound /\ GhostInv /\ InstanceInv /\ ChoiceInv /\ TreeInv /\ EnsureInv /\ [Next]_vars
      => EnsureInv'
<1> SUFFICES ASSUME Sound, GhostInv, InstanceInv, ChoiceInv, TreeInv, EnsureInv, [Next]_vars
             PROVE  EnsureInv'
  OBVIOUS
<1>1. MetByThen /\ StartsAlone /\ FoundRight
  BY DEF GhostInv, InstanceInv, ChoiceInv
<1>2. Boot[boot] \in Task \ Call /\ boot \in Nat /\ DOMAIN Boot = 1..Len(Boot) /\ Len(Boot) \in Nat
      /\ load.boots \in 1..Len(Boot)
  <2>1. boot \in 1..load.boots /\ load.boots \in DOMAIN Boot /\ DOMAIN Boot = 1..Len(Boot)
        /\ Len(Boot) \in Nat /\ \A k \in DOMAIN Boot : Boot[k] \in Task \ Call
    BY Known DEF Sound, TypeOK
  <2>2. PICK last \in 1..Len(Boot) : last = load.boots
    BY <2>1
  <2>3. boot \in Nat /\ boot \in 1..Len(Boot)
    BY <2>1, <2>2
  <2> QED
    BY <2>1, <2>2, <2>3
<1>3. PICK b \in Task \ Call : b = Boot[boot]
  BY <1>2
<1>4. ASSUME UNCHANGED <<load, boot, instance>>, task'[b] = task[b],
             \A n \in nodes : n \in nodes' \/ n[3] = "player",
             \A n \in nodes : n \in public => n \in public' \/ boot \in meddled',
             meddled \subseteq meddled'
      PROVE  EnsureInv'
  <2> SUFFICES ASSUME Live(b)', NEW i \in StaticSet PROVE Owes(b, i)' \/ Ensured(i)'
    BY <1>3, <1>4 DEF EnsureInv
  <2>1. Live(b) /\ (Owes(b, i) => Owes(b, i)')
    BY <1>4 DEF Live, Owes, Publishing, Left
  <2>2. Owes(b, i) \/ Ensured(i)
    BY <1>3, <2>1 DEF EnsureInv
  <2> QED
    BY <1>4, <2>1, <2>2, EnsuredThen
<1>5. ASSUME NEW t \in Task, MethodStep(t) PROVE EnsureInv'
  <2>1. /\ UNCHANGED <<load, boot, meddled>> /\ task[t].status = "running"
        /\ \A u \in Task \ {t} : task'[u] = task[u]
    BY <1>5, MethodFrame, MethodRuns, MethodSteps DEF Stepped, Others
  <2>2. CASE t = b
    BY <1>1, <1>3, <1>5, <2>1, <2>2, StartEnsures DEF EnsureInv
  <2>3. CASE t # b
    <3>1. t \in Call
      BY <1>1, <1>3, <2>1, <2>3 DEF StartsAlone
    <3>2. UNCHANGED <<public, instance>>
      BY <1>5, <3>1, CallChoice
    <3>3. \A n \in nodes : n \in nodes' \/ n[3] = "player"
      BY <1>1, <1>5, Turns, TurnWorld
    <3> QED
      BY <1>4, <2>1, <2>3, <3>2, <3>3
  <2> QED
    BY <2>2, <2>3
<1>6. ASSUME NEW t \in Call, Arrive(t) PROVE EnsureInv'
  <2>1. /\ task'[b] = task[b]
    BY <1>3, <1>6, ArriveTask, Known DEF Sound
  <2>2. UNCHANGED <<load, boot, instance, nodes, public, meddled>>
    BY <1>6 DEF Arrive, Server
  <2> QED
    BY <1>4, <2>1, <2>2
<1>7. CASE \/ \E u \in Call : Select(u)
           \/ \E p \in playing : Leave(p) \/ AddChild(p)
           \/ UNCHANGED vars
  <2>1. UNCHANGED <<load, boot, instance, task, public, meddled>> /\ nodes \subseteq nodes'
    BY <1>7 DEF Select, Leave, AddChild, Server, History, vars
  <2> QED
    BY <1>4, <2>1
<1>8. CASE \E n \in nodes : Meddle(n)
  BY <1>4, <1>8 DEF Meddle, Server
<1>9. CASE Restart
  <2>1. /\ boot' = boot + 1 /\ boot < load.boots
        /\ task' = [t \in Task |->
                      IF t = Boot[boot + 1] THEN Begun(SetupScript)
                      ELSE IF task[t].status = "running"
                           THEN [task[t] EXCEPT !.status = "lost", !.todo = <<>>]
                           ELSE task[t]]
    BY <1>9 DEF Restart
  <2>2. boot + 1 \in DOMAIN Boot
    <3>1. PICK last \in 1..Len(Boot) : last = load.boots
      BY <1>2
    <3>2. boot < last
      BY <2>1, <3>1
    <3> QED
      BY <1>2, <3>1, <3>2
  <2>3. Boot[boot + 1] \in Task
    BY <2>2, Known DEF Sound
  <2>4. Left(Boot[boot])' = ToSet(SetupScript)
    BY <2>1, <2>3, StartKinds, Begins DEF Left
  <2> QED
    BY <2>4, SetupScriptSteps DEF EnsureInv, Owes
<1> QED
  BY <1>5, <1>6, <1>7, <1>8, <1>9 DEF Next

\* Whatever ended the starts before, and whatever the clients did, once the server is up
\* there is an instance of each static age with the UUID that the server knows, public
\* unless a client has changed that since, and whole unless an earlier start ended while
\* it was made (setup_static_age_instance).
THEOREM StartsEnsure == Spec => []SetupEnsures
<1>1. Sound /\ TreeInv /\ EnsureInv => SetupEnsures
  <2> SUFFICES ASSUME Sound, TreeInv, EnsureInv, Up, NEW i \in StaticSet
               PROVE  \E n \in nodes : /\ IsA(n, "ageInfo") /\ KeyOf(n) = <<instance[i], i>>
                                       /\ n \in public \/ boot \in meddled
                                       /\ InstanceWhole(n) \/ task[n[1]].status # "returned"
    BY DEF SetupEnsures
  <2>1. PICK b \in Task : b = Boot[boot]
    <3>1. boot \in 1..load.boots /\ load.boots \in 1..Len(Boot) /\ Len(Boot) \in Nat
          /\ \A k \in 1..Len(Boot) : Boot[k] \in Task
      BY Known DEF Sound, TypeOK
    <3>2. PICK last \in 1..Len(Boot) : last = load.boots
      BY <3>1
    <3>3. boot \in 1..Len(Boot)
      BY <3>1, <3>2
    <3> QED
      BY <3>1, <3>3
  <2>2. task[b].status = "returned"
    BY <2>1 DEF Up
  <2>3. Left(b) = {} /\ Live(b)
    BY <2>2, NothingLeft DEF Live
  <2>4. Ensured(i)
    BY <2>1, <2>3 DEF EnsureInv, Owes, Publishing
  <2> QED
    BY <2>4, WholeOrUnfinished DEF Ensured, IsA
<1>2. NameInv => Overlaps
  BY DEF NameInv
<1> QED
  BY <1>1, <1>2, SpecSound, InitNames, NamesStep, InitGhosts, GhostsStep, InitInstances,
     InstancesStep, InitChoice, ChoiceStep, InitTrees, TreesStep, InitEnsures, EnsuresStep, PTL
     DEF Spec

-----------------------------------------------------------------------------
(* Deletions of one avatar.  The stages of one, and what it meets.          *)

Removal(c) == [op |-> "remove", at |-> Player, child |-> c]
ToKick == <<Step("kick", Player), Step("unlink", Player), Step("delete", Player)>>
ToOffline == <<Step("offline", Player), Step("unlink", Player), Step("delete", Player)>>
ToUnlink == <<Step("unlink", Player), Step("delete", Player)>>
ToNext == <<Step("next", Player), Step("delete", Player)>>
ToRemove(c) == <<Removal(c), Step("next", Player), Step("delete", Player)>>
ToDelete == <<Step("delete", Player)>>

Stages == {DeleteScript, ToKick, ToOffline, ToUnlink, ToNext, ToDelete} \cup {ToRemove(c) : c \in Node}

Staged == \A d \in Call : Deletes(d) /\ task[d].status = "running" => task[d].todo \in Stages

\* A deletion that found its avatar found it finished, or overlapped with its creation.
MetSince ==
    \A d \in met :
        LET u == load.jobs[d].of
        IN  /\ Deletes(d) /\ task[d].status # "idle"
            /\ task[u].status # "idle" /\ (task[u].status = "running" => u \in company[d])

Childless == \A ref \in refs : ref[2][3] # "player"

Folders(u) == Children(PlayerOf(u)) \ {Extra(PlayerOf(u))}
Loops(d) ==
    /\ task[d].status = "running"
    /\ task[d].todo = ToNext \/ \E c \in Node : task[d].todo = ToRemove(c)

\* The cursor of a deletion comes to every child but those that clients add.
Covered ==
    \A d \in met :
        LET u == load.jobs[d].of
        IN  u \notin company[d] /\ Loops(d) => Folders(u) \subseteq task[d].rows

HasInfo(u) == \E n \in Children(PlayerOf(u)) : IsA(n, "playerInfo")

\* A deletion that goes on to delete its avatar, unless another one gets in its way.
Promising(d, u) ==
    /\ task[d].status = "running"
    /\ \/ task[d].todo \in {ToKick, ToOffline, ToUnlink} /\ HasInfo(u)
       \/ task[d].todo = ToNext
       \/ \E c \in Children(PlayerOf(u)) : task[d].todo = ToRemove(c)
       \/ task[d].todo = ToDelete /\ Folders(u) = {}

\* An avatar with deletions, that began after it was finished and that nothing but each
\* other has disturbed.
Apart(u) ==
    /\ DeletionsOf(u) # {} /\ task[u].status = "returned" /\ PlayerOf(u) \in nodes
    /\ \A d \in DeletionsOf(u) :
          task[d].status \in {"running", "returned", "raised"} /\ u \notin company[d]
    /\ Extra(PlayerOf(u)) \notin Children(PlayerOf(u))

OnePromises == \A u \in Call : Apart(u) => \E d \in DeletionsOf(u) : Promising(d, u)

DeleteInv == Staged /\ MetSince /\ Childless /\ Covered /\ OnePromises

LEMMA StageFacts ==
    /\ Head(DeleteScript).op = "fetch" /\ Tail(DeleteScript) = ToKick
    /\ Head(ToKick).op = "kick" /\ Tail(ToKick) = ToUnlink
    /\ <<Step("offline", Player)>> \o ToUnlink = ToOffline
    /\ Head(ToOffline).op = "offline" /\ Tail(ToOffline) = ToUnlink
    /\ Head(ToUnlink).op = "unlink" /\ <<Step("next", Player)>> \o Tail(ToUnlink) = ToNext
    /\ Head(ToNext).op = "next" /\ Tail(ToNext) = ToDelete
    /\ Head(ToDelete).op = "delete" /\ Tail(ToDelete) = <<>>
    /\ \A c : /\ <<Removal(c)>> \o ToNext = ToRemove(c) /\ Tail(ToRemove(c)) = ToNext
              /\ Head(ToRemove(c)).op = "remove" /\ Head(ToRemove(c)).child = c
    /\ {ToKick, ToOffline, ToUnlink, ToNext, ToDelete} \cap {<<>>} = {} /\ \A c : ToRemove(c) # <<>>
<1> DEFINE S == {Step("offline", Player), Step("unlink", Player), Step("delete", Player),
                 Step("next", Player), Step("kick", Player)}
<1>1. /\ Head(DeleteScript).op = "fetch" /\ Tail(DeleteScript) = ToKick
      /\ Head(ToKick).op = "kick" /\ Tail(ToKick) = ToUnlink
      /\ Head(ToOffline).op = "offline" /\ Tail(ToOffline) = ToUnlink
      /\ Head(ToUnlink).op = "unlink"
      /\ Head(ToNext).op = "next" /\ Tail(ToNext) = ToDelete
      /\ Head(ToDelete).op = "delete" /\ Tail(ToDelete) = <<>>
  BY DEF DeleteScript, ToKick, ToOffline, ToUnlink, ToNext, ToDelete, Step
<1>2. \A c : /\ Tail(ToRemove(c)) = ToNext
             /\ Head(ToRemove(c)).op = "remove" /\ Head(ToRemove(c)).child = c
  BY DEF ToRemove, Removal, ToNext
<1>3. ASSUME NEW x, NEW y, NEW z PROVE <<x>> \o <<y, z>> = <<x, y, z>>
  <2>1. <<x>> \in Seq({x, y, z}) /\ <<y, z>> \in Seq({x, y, z}) /\ <<x, y, z>> \in Seq({x, y, z})
    OBVIOUS
  <2>2. /\ Len(<<x>> \o <<y, z>>) = 3 /\ <<x>> \o <<y, z>> \in Seq({x, y, z})
        /\ (<<x>> \o <<y, z>>)[1] = x /\ (<<x>> \o <<y, z>>)[2] = y /\ (<<x>> \o <<y, z>>)[3] = z
    BY <2>1, ConcatProperties
  <2>3. /\ Len(<<x, y, z>>) = 3 /\ <<x, y, z>>[1] = x /\ <<x, y, z>>[2] = y /\ <<x, y, z>>[3] = z
        /\ 1..3 = {1, 2, 3}
    OBVIOUS
  <2> QED
    BY <2>1, <2>2, <2>3, SeqEqual
<1>4. <<Step("offline", Player)>> \o ToUnlink = ToOffline
  BY <1>3 DEF ToUnlink, ToOffline
<1>5. \A c : <<Removal(c)>> \o ToNext = ToRemove(c)
  BY <1>3 DEF ToNext, ToRemove
<1>6. <<Step("next", Player)>> \o Tail(ToUnlink) = ToNext
  <2>1. Tail(ToUnlink) = <<Step("delete", Player)>>
    BY DEF ToUnlink
  <2> QED
    BY <2>1, TwoSteps DEF ToNext
<1>7. {ToKick, ToOffline, ToUnlink, ToNext, ToDelete} \cap {<<>>} = {} /\ \A c : ToRemove(c) # <<>>
  BY DEF ToKick, ToOffline, ToUnlink, ToNext, ToRemove, ToDelete
<1> QED
  BY <1>1, <1>2, <1>4, <1>5, <1>6, <1>7

\* The stages differ.
LEMMA StagesDiffer ==
    ASSUME NEW todo \in Stages
    PROVE  /\ Head(todo).op = "fetch" => todo = DeleteScript
           /\ Head(todo).op = "kick" => todo = ToKick
           /\ Head(todo).op = "offline" => todo = ToOffline
           /\ Head(todo).op = "unlink" => todo = ToUnlink
           /\ Head(todo).op = "next" => todo = ToNext
           /\ Head(todo).op = "remove" => todo = ToRemove(Head(todo).child) /\ Head(todo).child \in Node
           /\ Head(todo).op = "delete" => todo = ToDelete
BY StageFacts DEF Stages

Moves(d, todo) ==
    task'[d].status = "running" /\ task'[d].todo = todo /\ task'[d].rows = task[d].rows
Quiet == UNCHANGED <<nodes, refs, met>>

\* What a step of a deletion does, by the stage that it is at.
FetchMove(d) ==
    /\ task[d].todo = DeleteScript /\ UNCHANGED <<nodes, refs>>
    /\ \/ Target(d) \in nodes /\ met' = met \cup {d} /\ Moves(d, ToKick)
       \/ met' = met /\ task'[d].status = "raised"

KickMove(d) == task[d].todo = ToKick /\ Quiet /\ (Moves(d, ToOffline) \/ Moves(d, ToUnlink))

OfflineMove(d) ==
    /\ task[d].todo = ToOffline /\ Quiet
    /\ \/ Moves(d, ToUnlink)
       \/ (\A n \in Children(Target(d)) : ~IsA(n, "playerInfo")) /\ task'[d].status = "raised"

UnlinkMove(d) ==
    /\ task[d].todo = ToUnlink /\ Quiet
    /\ \/ task'[d].todo = ToNext /\ task'[d].rows = Children(Target(d)) /\ task'[d].status = "running"
       \/ Target(d) \notin nodes /\ task'[d].status = "raised"

NextMove(d) ==
    /\ task[d].todo = ToNext /\ Quiet
    /\ \/ \E c \in Children(Target(d)) : Moves(d, ToRemove(c))
       \/ task[d].rows \cap Children(Target(d)) = {} /\ Moves(d, ToDelete)

RemoveMove(d) ==
    /\ UNCHANGED <<nodes, met>>
    /\ \E c \in Node :
          /\ task[d].todo = ToRemove(c)
          /\ \/ <<Target(d), c>> \in refs /\ refs' = refs \ {<<Target(d), c>>} /\ Moves(d, ToNext)
             \/ <<Target(d), c>> \notin refs /\ refs' = refs /\ task'[d].status = "raised"

DeleteMove(d) ==
    /\ task[d].todo = ToDelete /\ UNCHANGED <<refs, met>>
    /\ \/ nodes' = nodes \ {Target(d)} /\ task'[d].status = "returned"
       \/ ~Deletable(Target(d)) /\ nodes' = nodes /\ task'[d].status = "raised"

Move(d) ==
    \/ FetchMove(d) \/ KickMove(d) \/ OfflineMove(d) \/ UnlinkMove(d) \/ NextMove(d)
    \/ RemoveMove(d) \/ DeleteMove(d)
    \/ Quiet /\ task'[d].status = "failed"

LEMMA StageMoves ==
    ASSUME Sound, Staged, NEW d \in Call, Deletes(d), MethodStep(d)
    PROVE  Move(d)
<1>1. /\ task[d].status = "running" /\ d \in Task /\ task[d].todo \in Stages
      /\ At(d, Player) = Target(d)
  BY MethodRuns, AtPlayer, Known DEF Staged, Sound, Target
<1>2. task \in [Task -> TaskState]
  BY Known DEF Sound
<1>3. /\ \A todo : GoOn(d, todo) /\ todo # <<>> => Moves(d, todo)
      /\ GoOn(d, <<>>) => task'[d].status = "returned"
      /\ \A status : End(d, status) => task'[d].status = status
  BY <1>1, <1>2 DEF GoOn, End, Going, TaskState, Moves
<1>4. CASE FetchPlayer(d)
  <2>1. task[d].todo = DeleteScript /\ Rest(d) = ToKick
    BY <1>1, <1>4, StagesDiffer, StageFacts DEF FetchPlayer, On, Rest
  <2> QED
    BY <1>1, <1>3, <1>4, <2>1, StageFacts DEF FetchPlayer, FetchMove, Move
<1>5. CASE KickPlayer(d)
  <2>1. task[d].todo = ToKick /\ Rest(d) = ToUnlink
    BY <1>1, <1>5, StagesDiffer, StageFacts DEF KickPlayer, On, Rest
  <2>2. GoOn(d, ToOffline) \/ GoOn(d, ToUnlink)
    BY <1>5, <2>1, StageFacts DEF KickPlayer
  <2>3. Quiet /\ ToOffline # <<>> /\ ToUnlink # <<>>
    BY <1>5, StageFacts DEF KickPlayer, History, Quiet
  <2> QED
    BY <1>3, <2>1, <2>2, <2>3 DEF KickMove, Move
<1>6. CASE SetOffline(d)
  <2>1. task[d].todo = ToOffline /\ Rest(d) = ToUnlink
    BY <1>1, <1>6, StagesDiffer, StageFacts DEF SetOffline, On, Rest
  <2>2. Quiet /\ ToUnlink # <<>>
    BY <1>6, StageFacts DEF SetOffline, History, Quiet
  <2> QED
    BY <1>1, <1>3, <1>6, <2>1, <2>2 DEF SetOffline, OfflineMove, Move
<1>7. CASE QueryChildren(d)
  <2>1. task[d].todo = ToUnlink /\ <<Step("next", Player)>> \o Rest(d) = ToNext
    BY <1>1, <1>7, StagesDiffer, StageFacts DEF QueryChildren, On, Rest
  <2>2. Quiet
    BY <1>7 DEF QueryChildren, History, Quiet
  <2>3. ASSUME task' = [task EXCEPT ![d].todo = ToNext, ![d].rows = Children(Target(d))]
        PROVE  task'[d].todo = ToNext /\ task'[d].rows = Children(Target(d)) /\ task'[d].status = "running"
    BY <1>1, <1>2, <2>3 DEF TaskState
  <2> QED
    BY <1>1, <1>3, <1>7, <2>1, <2>2, <2>3 DEF QueryChildren, UnlinkMove, Move
<1>8. CASE NextChild(d)
  <2>1. task[d].todo = ToNext /\ Rest(d) = ToDelete
    BY <1>1, <1>8, StagesDiffer, StageFacts DEF NextChild, On, Rest
  <2>2. Quiet /\ ToDelete # <<>> /\ \A c : ToRemove(c) # <<>>
    BY <1>8, StageFacts DEF NextChild, History, Quiet
  <2>3. \A c : <<[op |-> "remove", at |-> Player, child |-> c]>> \o task[d].todo = ToRemove(c)
    BY <2>1, StageFacts DEF Removal
  <2> QED
    BY <1>1, <1>3, <1>8, <2>1, <2>2, <2>3 DEF NextChild, NextMove, Move
<1>9. CASE RemoveRef(d)
  <2>1. PICK c \in Node : task[d].todo = ToRemove(c) /\ c = Head(task[d].todo).child
    BY <1>1, <1>9, StagesDiffer DEF RemoveRef, On
  <2>2. Rest(d) = ToNext /\ ToNext # <<>>
    BY <2>1, StageFacts DEF Rest
  <2>3. UNCHANGED <<nodes, met>>
    BY <1>9 DEF RemoveRef, History
  <2> QED
    BY <1>1, <1>3, <1>9, <2>1, <2>2, <2>3 DEF RemoveRef, RemoveMove, Move
<1>10. CASE DeleteNode(d)
  <2>1. task[d].todo = ToDelete /\ Rest(d) = <<>>
    BY <1>1, <1>10, StagesDiffer, StageFacts DEF DeleteNode, On, Rest
  <2>2. UNCHANGED <<refs, met>>
    BY <1>10 DEF DeleteNode, History
  <2> QED
    BY <1>1, <1>3, <1>10, <2>1, <2>2 DEF DeleteNode, DeleteMove, Move
<1>11. CASE Fails(d)
  <2>1. Quiet /\ End(d, "failed")
    BY <1>11 DEF Fails, History, Quiet
  <2> QED
    BY <1>3, <2>1 DEF Move
<1>12. Head(task[d].todo).op \in {"fetch", "kick", "offline", "unlink", "next", "remove", "delete"}
  <2>1. CASE task[d].todo \in {ToRemove(c) : c \in Node}
    <3>1. PICK c \in Node : task[d].todo = ToRemove(c)
      BY <2>1
    <3> QED
      BY <3>1, StageFacts
  <2>2. CASE task[d].todo \in {DeleteScript, ToKick, ToOffline}
    BY <2>2, StageFacts
  <2>3. CASE task[d].todo \in {ToUnlink, ToNext, ToDelete}
    BY <2>3, StageFacts
  <2> QED
    BY <1>1, <2>1, <2>2, <2>3 DEF Stages
<1> QED
  BY <1>4, <1>5, <1>6, <1>7, <1>8, <1>9, <1>10, <1>11, <1>12
     DEF MethodStep, MakeNode, AddRef, FindNode, FindOrMakeNode, CheckName, PrepareStatic, Publish, On

\* Links to a Player node are made by the creation of the avatar, and none leads there.
LEMMA PlayerLinks ==
    ASSUME Sound, TreeInv, NEW t \in Task, task[t].status = "running", LinkTurn(t),
           NEW p, p = Here(t), NEW c, c = Head(task[t].todo).child
    PROVE  /\ At(t, c)[3] # "player"
           /\ At(t, p)[3] = "player" => Creates(t) /\ At(t, p) = PlayerOf(t)
<1>1. PICK s : s = Head(task[t].todo)
  OBVIOUS
<1>2. s \in Scope(t) /\ s.op = "link" /\ p = s.at /\ c = s.child
  BY <1>1, Parts DEF TreeInv, CallInv, Scoped, Here, LinkTurn
<1>3. ~Deletes(t) /\ p \in Role /\ c \in Role /\ c[2] # "player"
  <2>1. ~Deletes(t) /\ c[2] # "player"
    BY <1>2, ScopeKinds
  <2>2. p \in Role /\ s \in BuildStep
    BY <1>1, <1>2, Rests DEF Here
  <2> QED
    BY <1>2, <2>1, <2>2 DEF BuildStep, Builds
<1>4. At(t, c)[3] # "player" /\ At(t, p)[3] = p[2]
  BY <1>3, AtKinds
<1>5. ASSUME p[2] = "player" PROVE Creates(t) /\ p = Player
  <2>1. \A i : s \notin AgeSteps(i)
    BY <1>2, <1>5 DEF AgeSteps, Age, AgeInfo
  <2>2. s \notin BootSteps
    BY <1>2, <1>5 DEF BootSteps, System
  <2>3. s \in AvatarSteps => p = Player
    BY <1>2, <1>5 DEF AvatarSteps
  <2>4. s # Step("name", Player) /\ s # FindOrMake(AgeInfo("shared"))
    BY <1>2 DEF Step, FindOrMake
  <2> QED
    BY <1>2, <1>3, <2>1, <2>2, <2>3, <2>4 DEF Scope, StaticSteps
<1> QED
  BY <1>3, <1>4, <1>5, AtKinds

LEMMA ChildrenOf ==
    ASSUME Sound, NEW n
    PROVE  \A c : c \in Children(n) <=> <<n, c>> \in refs
<1>1. \A ref \in refs : ref = <<ref[1], ref[2]>>
  BY DEF Sound, TypeOK
<1> QED
  BY <1>1 DEF Children

\* What a step of a method links, unlinks, makes and deletes of the avatars.
LEMMA PlayersThen ==
    ASSUME Sound, TreeInv, MetByThen, Staged, NEW t \in Task, MethodStep(t)
    PROVE  /\ Childless => Childless'
           /\ \A u \in Call : u # t =>
                 /\ PlayerOf(u) \in nodes' => PlayerOf(u) \in nodes
                 /\ Children(PlayerOf(u))' \subseteq Children(PlayerOf(u))
           /\ \A u \in Call : u # t /\ ~(t \in met /\ Deletes(t) /\ load.jobs[t].of = u) =>
                 Children(PlayerOf(u))' = Children(PlayerOf(u))
<1>1. Turn(t) /\ task[t].status = "running" /\ Sound'
  BY Turns, MethodRuns, MethodSteps DEF Stepped
<1>2. PICK p, c : p = Here(t) /\ c = Head(task[t].todo).child
  OBVIOUS
<1>3. \A ref \in refs' : ref \in refs \/ (LinkTurn(t) /\ ref = <<At(t, p), At(t, c)>>)
  BY <1>1, <1>2, TurnWorld
<1>4. \A ref \in refs' : ref \in refs \/ (ref[2][3] # "player" /\ (ref[1][3] = "player" => ref[1] = PlayerOf(t)))
  BY <1>1, <1>2, <1>3, PlayerLinks
<1>5. Childless => Childless'
  BY <1>4 DEF Childless
<1>6. ASSUME NEW u \in Call, u # t
      PROVE  /\ PlayerOf(u) \in nodes' => PlayerOf(u) \in nodes
             /\ Children(PlayerOf(u))' \subseteq Children(PlayerOf(u))
  <2>1. PlayerOf(u) # PlayerOf(t) /\ PlayerOf(u)[3] = "player" /\ PlayerOf(u)[1] = u
    BY <1>6 DEF PlayerOf
  <2>2. PlayerOf(u) \in nodes' => PlayerOf(u) \in nodes
    BY <1>1, <1>6, <2>1, TurnWorld
  <2>3. \A x : <<PlayerOf(u), x>> \in refs' => <<PlayerOf(u), x>> \in refs
    BY <1>4, <2>1
  <2>4. \A ref \in refs' : ref = <<ref[1], ref[2]>>
    BY <1>1 DEF Sound, TypeOK
  <2>5. \A x \in Children(PlayerOf(u))' : <<PlayerOf(u), x>> \in refs'
    BY <2>4 DEF Children, PlayerOf
  <2> QED
    BY <2>2, <2>3, <2>5, ChildrenOf
<1>7. ASSUME NEW u \in Call, u # t, ~(t \in met /\ Deletes(t) /\ load.jobs[t].of = u)
      PROVE  Children(PlayerOf(u)) \subseteq Children(PlayerOf(u))'
  <2>1. CASE Deletes(t)
    <3>1. t \in Call /\ Move(t)
      BY <1>7, <2>1, StageMoves DEF Deletes
    <3>2. refs' = refs \/ (RemoveMove(t) /\ \E x : refs' = refs \ {<<Target(t), x>>})
      BY <3>1 DEF Move, FetchMove, KickMove, OfflineMove, UnlinkMove, NextMove, RemoveMove,
         DeleteMove, Quiet
    <3>3. ASSUME RemoveMove(t) PROVE Target(t) # PlayerOf(u)
      <4>1. task[t].todo # DeleteScript
        BY <3>3, StageFacts DEF RemoveMove
      <4>2. t \in met
        BY <1>1, <2>1, <3>1, <4>1 DEF MetByThen
      <4> QED
        BY <1>7, <2>1, <4>2, PlayerOfs DEF Target
    <3>4. \A ref \in refs : ref[1] = PlayerOf(u) => ref \in refs'
      BY <3>2, <3>3
    <3> QED
      BY <3>4 DEF Children, PlayerOf
  <2>2. CASE ~Deletes(t)
    <3>1. refs \subseteq refs'
      BY <1>1, <2>2 DEF Turn, StopTurn, MakeTurn, LinkTurn, FindTurn, GrowTurn, NameTurn, TakeTurn,
         PublishTurn, DeleteTurn, Still
    <3> QED
      BY <3>1 DEF Children, PlayerOf
  <2> QED
    BY <2>1, <2>2
<1> QED
  BY <1>5, <1>6, <1>7

\* Only a deletion that finds its avatar is one that has met it.
LEMMA MetMoves ==
    ASSUME NEW t \in Task, MethodStep(t)
    PROVE  met' = met \/ (FetchPlayer(t) /\ met' = met \cup {t} /\ At(t, Player) \in nodes)
BY DEF MethodStep, MakeNode, AddRef, FindNode, FindOrMakeNode, CheckName, PrepareStatic, Publish,
       FetchPlayer, KickPlayer, SetOffline, QueryChildren, NextChild, RemoveRef, DeleteNode,
       Fails, Server, History

LEMMA MetDeletes ==
    ASSUME Sound, NEW t \in Task, MethodStep(t), met' # met
    PROVE  /\ met' = met \cup {t} /\ t \in Call /\ Deletes(t) /\ Target(t) \in nodes
           /\ load.jobs[t].of \in Call
<1>1. FetchPlayer(t) /\ met' = met \cup {t} /\ At(t, Player) \in nodes
  BY MetMoves
<1>2. Deletes(t) /\ task[t].status = "running"
  BY <1>1, MethodRuns, Rests DEF FetchPlayer, On
<1> QED
  BY <1>1, <1>2, AtPlayer DEF Target, Deletes

\* The steps that are not of a method, as deletions see them.
ArriveMove(t) ==
    /\ task[t].status = "idle" /\ task'[t].status = "running" /\ UNCHANGED <<nodes, refs>>
    /\ Deletes(t) => task'[t].todo = DeleteScript
    /\ \A u \in Call \ {t} : task'[u] = task[u]

AddMove(p) ==
    /\ \A u \in Call : task'[u] = task[u]
    /\ p \in nodes /\ nodes' = nodes \cup {Extra(p)} /\ refs' = refs \cup {<<p, Extra(p)>>}

StillMove == UNCHANGED <<nodes, refs>> /\ \A u \in Call : task'[u] = task[u]

RestartMove ==
    /\ UNCHANGED <<nodes, refs>>
    /\ \A u \in Call : task'[u].status # "running" /\ (task'[u].status = "lost" \/ task'[u] = task[u])

OtherMove ==
    /\ UNCHANGED <<load, met>> /\ \A t \in Call : company[t] \subseteq company'[t]
    /\ (\E t \in Call : ArriveMove(t)) \/ (\E p : AddMove(p)) \/ StillMove \/ RestartMove

LEMMA OtherMoves ==
    ASSUME Sound, Overlaps, [Next]_vars
    PROVE  OtherMove \/ \E t \in Task : MethodStep(t)
<1>1. ASSUME NEW t \in Call, Arrive(t) PROVE OtherMove
  <2>1. ArriveMove(t) /\ UNCHANGED <<load, met>>
    BY <1>1, ArriveTask, ArriveSteps, Known DEF ArriveMove, Sound
  <2>2. \A u \in Call : company[u] \subseteq company'[u]
    <3>1. company' = [u \in Call |-> IF u = t THEN UnderWay
                                     ELSE IF u \in UnderWay THEN company[u] \cup {t}
                                     ELSE company[u]]
      BY <1>1 DEF Arrive
    <3>2. company[t] = {}
      BY <2>1 DEF ArriveMove, Overlaps, Sound, TypeOK
    <3> QED
      BY <3>1, <3>2
  <2> QED
    BY <2>1, <2>2 DEF OtherMove
<1>2. ASSUME NEW p \in playing, AddChild(p) PROVE OtherMove
  BY <1>2 DEF AddChild, Server, History, OtherMove, AddMove
<1>3. CASE \/ \E u \in Call : Select(u)
           \/ \E p \in playing : Leave(p)
           \/ \E n \in nodes : Meddle(n)
           \/ UNCHANGED vars
  <2>1. UNCHANGED <<load, nodes, refs, task, company, met>>
    BY <1>3 DEF Select, Leave, Meddle, Server, History, vars
  <2> QED
    BY <2>1 DEF OtherMove, StillMove
<1>4. CASE Restart
  <2>1. /\ UNCHANGED <<load, nodes, refs, company, met>>
        /\ \A u \in Call : task'[u].status # "running"
    BY <1>4, RestartSteps
  <2>2. ASSUME NEW u \in Call PROVE task'[u].status = "lost" \/ task'[u] = task[u]
    <3>1. u \in Task /\ task[u] \in TaskState /\ task'[u].status # "running"
      BY <2>1, Known DEF Sound
    <3>2. task'[u] = IF u = Boot[boot + 1] THEN Begun(SetupScript)
                     ELSE IF task[u].status = "running"
                          THEN [task[u] EXCEPT !.status = "lost", !.todo = <<>>]
                          ELSE task[u]
      BY <1>4, <3>1 DEF Restart
    <3>3. Begun(SetupScript).status = "running"
      BY DEF Begun, Idle
    <3> QED
      BY <3>1, <3>2, <3>3 DEF TaskState
  <2> QED
    BY <2>1, <2>2 DEF OtherMove, RestartMove
<1> QED
  BY <1>1, <1>2, <1>3, <1>4 DEF Next

\* What the steps of methods leave alone.
LEMMA MethodMoves ==
    ASSUME Sound, NEW t \in Task, MethodStep(t)
    PROVE  /\ UNCHANGED <<load, company>> /\ task[t].status = "running"
           /\ \A u \in Call : u # t => task'[u] = task[u]
           /\ met' = met \/ met' = met \cup {t}
           /\ task'[t].status # "idle"
<1>1. /\ UNCHANGED <<load, company>> /\ task[t].status = "running"
      /\ \A u \in Task \ {t} : task'[u] = task[u]
  BY MethodFrame, MethodRuns, MethodSteps DEF Stepped, Others
<1>2. met' = met \/ met' = met \cup {t}
  BY MetDeletes
<1>3. task'[t].status # "idle"
  <2>1. \/ \E todo : GoOn(t, todo)
        \/ \E r, n : GoOnWith(t, r, n)
        \/ \E status \in {"raised", "failed"} : End(t, status)
        \/ QueryChildren(t)
    BY DEF MethodStep, MakeNode, AddRef, FindNode, FindOrMakeNode, CheckName, PrepareStatic, Publish,
       FetchPlayer, KickPlayer, SetOffline, NextChild, RemoveRef, DeleteNode, Fails
  <2>2. CASE QueryChildren(t)
    BY <1>1, <2>2, Afterwards, Known DEF QueryChildren, Sound, TaskState
  <2> QED
    BY <2>1, <2>2, Afterwards DEF Goes
<1> QED
  BY <1>1, <1>2, <1>3, Known DEF Sound

LEMMA StagedStep ==
    ASSUME Sound, Overlaps, Staged, [Next]_vars
    PROVE  Staged'
<1> SUFFICES ASSUME NEW d \in Call, Deletes(d)', task'[d].status = "running"
             PROVE  task'[d].todo \in Stages
  BY DEF Staged
<1>1. load' = load /\ Deletes(d)
  <2>1. load' = load
    BY OtherMoves, MethodMoves DEF OtherMove
  <2> QED
    BY <2>1 DEF Deletes
<1>2. CASE task'[d] = task[d]
  BY <1>1, <1>2 DEF Staged
<1>3. ASSUME NEW t \in Task, MethodStep(t), task'[d] # task[d] PROVE task'[d].todo \in Stages
  <2>1. t = d
    BY <1>3, MethodMoves
  <2>2. Move(d)
    BY <1>1, <1>3, <2>1, StageMoves
  <2>3. {ToKick, ToOffline, ToUnlink, ToNext, ToDelete} \subseteq Stages
        /\ \A c \in Node : ToRemove(c) \in Stages
    BY DEF Stages
  <2>4. Children(Target(d)) \subseteq Node
    BY DEF Children, Sound, TypeOK
  <2> QED
    BY <2>2, <2>3, <2>4 DEF Move, FetchMove, KickMove, OfflineMove, UnlinkMove, NextMove, RemoveMove,
       DeleteMove, Moves
<1>4. CASE OtherMove
  <2>1. \A t \in Call : ArriveMove(t) => task'[d] = task[d] \/ task'[d].todo = DeleteScript
    BY <1>1 DEF ArriveMove
  <2>2. task'[d] = task[d] \/ task'[d].todo = DeleteScript
    BY <1>4, <2>1 DEF OtherMove, AddMove, StillMove, RestartMove
  <2> QED
    BY <1>2, <2>2 DEF Stages
<1> QED
  BY <1>2, <1>3, <1>4, OtherMoves

LEMMA MetSinceStep ==
    ASSUME Sound, Overlaps, Created, MetSince, [Next]_vars
    PROVE  MetSince'
<1> SUFFICES ASSUME NEW d \in met', NEW u, u = load'.jobs[d].of
             PROVE  /\ Deletes(d)' /\ task'[d].status # "idle" /\ task'[u].status # "idle"
                    /\ task'[u].status = "running" => u \in company'[d]
  BY DEF MetSince
<1>1. load' = load /\ u = load.jobs[d].of /\ (Deletes(d)' <=> Deletes(d))
  <2>1. load' = load
    BY OtherMoves, MethodMoves DEF OtherMove
  <2> QED
    BY <2>1 DEF Deletes
<1>2. ASSUME Deletes(d) PROVE d \in Call /\ u \in Call
  BY <1>1, <1>2, Known, LoadAssumption DEF LoadAssumption, Sound, Deletes
<1>3. ASSUME d \in met
      PROVE  /\ Deletes(d) /\ task[d].status # "idle" /\ task[u].status # "idle"
             /\ task[u].status = "running" => u \in company[d]
  BY <1>1, <1>3 DEF MetSince
<1>4. ASSUME NEW t \in Task, MethodStep(t)
      PROVE  /\ Deletes(d) /\ task'[d].status # "idle" /\ task'[u].status # "idle"
             /\ task'[u].status = "running" => u \in company'[d]
  <2>1. /\ UNCHANGED company /\ task[t].status = "running" /\ task'[t].status # "idle"
        /\ \A v \in Call : v # t => task'[v] = task[v]
    BY <1>4, MethodMoves
  <2>2. CASE d \in met
    BY <1>2, <1>3, <2>1, <2>2
  <2>3. CASE d \notin met
    <3>1. d = t /\ Deletes(t) /\ Target(t) \in nodes /\ u \in Call
      BY <1>1, <1>4, <2>3, MetDeletes
    <3>2. Creates(u) /\ task[u].status # "idle"
      <4>1. PlayerOf(u) \in nodes
        BY <1>1, <3>1 DEF Target
      <4> QED
        BY <4>1, PlayerOfs DEF Created
    <3>3. u # t
      BY <3>1, <3>2 DEF Creates, Deletes
    <3>4. task[u].status = "running" => u \in company[t]
      BY <2>1, <3>1, <3>3 DEF Overlaps, UnderWay, Deletes
    <3> QED
      BY <2>1, <3>1, <3>2, <3>3, <3>4
  <2> QED
    BY <2>2, <2>3
<1>5. CASE OtherMove
  <2>1. d \in met /\ d \in Call /\ u \in Call /\ company[d] \subseteq company'[d]
    BY <1>2, <1>3, <1>5 DEF OtherMove
  <2>2. ASSUME NEW t \in Call, ArriveMove(t) PROVE task'[d] = task[d] /\ task'[u] = task[u]
    BY <1>3, <2>1, <2>2 DEF ArriveMove
  <2>3. \/ task'[d] = task[d] /\ task'[u] = task[u]
        \/ RestartMove
    BY <1>5, <2>1, <2>2 DEF OtherMove, AddMove, StillMove
  <2>4. CASE RestartMove
    <3>1. /\ task'[d].status # "idle" /\ task'[u].status # "idle" /\ task'[u].status # "running"
      BY <1>3, <2>1, <2>4 DEF RestartMove
    <3> QED
      BY <1>1, <1>3, <2>1, <3>1
  <2> QED
    BY <1>1, <1>3, <2>1, <2>3, <2>4
<1> QED
  BY <1>1, <1>4, <1>5, OtherMoves

\* A call that arrives adds no link, and a client adds one to what it has just made.
LEMMA OthersLink ==
    ASSUME Sound, OtherMove
    PROVE  /\ Childless => Childless'
           /\ \A u \in Call :
                 /\ PlayerOf(u) \in nodes' => PlayerOf(u) \in nodes
                 /\ \/ Children(PlayerOf(u))' = Children(PlayerOf(u))
                    \/ Children(PlayerOf(u))' = Children(PlayerOf(u)) \cup {Extra(PlayerOf(u))}
<1>1. CASE UNCHANGED <<nodes, refs>>
  BY <1>1 DEF Childless, Children, PlayerOf
<1>2. ASSUME NEW p, AddMove(p)
      PROVE  /\ Childless => Childless'
             /\ \A u \in Call :
                   /\ PlayerOf(u) \in nodes' => PlayerOf(u) \in nodes
                   /\ \/ Children(PlayerOf(u))' = Children(PlayerOf(u))
                      \/ Children(PlayerOf(u))' = Children(PlayerOf(u)) \cup {Extra(PlayerOf(u))}
  <2>1. Extra(p)[3] = "extra" /\ refs' = refs \cup {<<p, Extra(p)>>} /\ nodes' = nodes \cup {Extra(p)}
    BY <1>2 DEF Extra, AddMove
  <2>2. Childless => Childless'
    BY <2>1 DEF Childless
  <2>3. ASSUME NEW u \in Call
        PROVE  /\ PlayerOf(u) \in nodes' => PlayerOf(u) \in nodes
               /\ \/ Children(PlayerOf(u))' = Children(PlayerOf(u))
                  \/ Children(PlayerOf(u))' = Children(PlayerOf(u)) \cup {Extra(PlayerOf(u))}
    <3>1. PICK q : q = PlayerOf(u) /\ PlayerOf(u)' = q
      BY DEF PlayerOf
    <3>2. Children(q)' = {ref[2] : ref \in {r \in refs' : r[1] = q}}
          /\ Children(q) = {ref[2] : ref \in {r \in refs : r[1] = q}}
      BY DEF Children
    <3>3. CASE p = q
      <4>1. {r \in refs' : r[1] = q} = {r \in refs : r[1] = q} \cup {<<q, Extra(q)>>}
        BY <2>1, <3>3
      <4>2. ASSUME NEW S, NEW e PROVE {ref[2] : ref \in S \cup {<<q, e>>}} = {ref[2] : ref \in S} \cup {e}
        <5>1. <<q, e>>[2] = e
          OBVIOUS
        <5> QED
          BY <5>1
      <4>3. Children(q)' = Children(q) \cup {Extra(q)}
        BY <3>2, <4>1, <4>2
      <4> QED
        BY <2>1, <3>1, <4>3, PlayerOfs
    <3>4. CASE p # q
      <4>1. {r \in refs' : r[1] = q} = {r \in refs : r[1] = q}
        BY <2>1, <3>4
      <4>2. Children(q)' = Children(q)
        BY <3>2, <4>1
      <4> QED
        BY <2>1, <3>1, <4>2, PlayerOfs
    <3> QED
      BY <3>3, <3>4
  <2> QED
    BY <2>2, <2>3
<1> QED
  BY <1>1, <1>2 DEF OtherMove, ArriveMove, StillMove, RestartMove

LEMMA ChildlessStep ==
    ASSUME Sound, GhostInv, TreeInv, Overlaps, Staged, Childless, [Next]_vars
    PROVE  Childless'
<1>1. MetByThen
  BY DEF GhostInv
<1> QED
  BY <1>1, OtherMoves, OthersLink, PlayersThen

\* The stages of a loop over the children.
LEMMA LoopsFacts ==
    ASSUME NEW d
    PROVE  Loops(d) => task[d].todo \notin {DeleteScript, ToKick, ToOffline, ToUnlink, ToDelete}
<1>1. Loops(d) => Head(task[d].todo).op \in {"next", "remove"}
  BY StageFacts DEF Loops
<1>2. \A s \in {DeleteScript, ToKick, ToOffline, ToUnlink, ToDelete} : Head(s).op \notin {"next", "remove"}
  BY StageFacts
<1> QED
  BY <1>1, <1>2

LEMMA CoveredStep ==
    ASSUME Sound, GhostInv, TreeInv, Overlaps, Created, Staged, MetSince, Covered, [Next]_vars
    PROVE  Covered'
<1>1. MetByThen /\ MetSince' /\ Sound'
  BY MetSinceStep, SoundStep DEF GhostInv
<1> SUFFICES ASSUME NEW d \in met', NEW u, u = load'.jobs[d].of, u \notin company'[d], Loops(d)'
             PROVE  Folders(u)' \subseteq task'[d].rows
  BY DEF Covered
<1>2. load' = load /\ u = load.jobs[d].of
  BY OtherMoves, MethodMoves DEF OtherMove
<1>3. Deletes(d) /\ d \in Call /\ u \in Call /\ Target(d) = PlayerOf(u)
  <2>1. Deletes(d)'
    BY <1>1 DEF MetSince
  <2> QED
    BY <1>2, <2>1, Known, LoadAssumption DEF LoadAssumption, Sound, Deletes, Target
<1>4. ASSUME d \in met, Loops(d), u \notin company[d] PROVE Folders(u) \subseteq task[d].rows
  BY <1>2, <1>4 DEF Covered
<1>5. ASSUME Children(PlayerOf(u))' \subseteq Children(PlayerOf(u)) \cup {Extra(PlayerOf(u))}
      PROVE  Folders(u)' \subseteq Folders(u) /\ Folders(u)' \subseteq Children(PlayerOf(u))
  <2>1. Folders(u)' = Children(PlayerOf(u))' \ {Extra(PlayerOf(u))}
    BY DEF Folders, Extra, PlayerOf
  <2> QED
    BY <1>5, <2>1 DEF Folders
<1>6. ASSUME NEW t \in Task, MethodStep(t), t # d PROVE Folders(u)' \subseteq task'[d].rows
  <2>1. task'[d] = task[d] /\ d \in met /\ company' = company /\ task[t].status = "running"
    BY <1>3, <1>6, MethodMoves
  <2>2. Loops(d) /\ u \notin company[d]
    BY <2>1 DEF Loops
  <2>3. u # t
    BY <1>2, <2>1, <2>2 DEF MetSince
  <2>4. Children(PlayerOf(u))' \subseteq Children(PlayerOf(u))
    BY <1>1, <1>3, <1>6, <2>3, PlayersThen
  <2> QED
    BY <1>4, <1>5, <2>1, <2>2, <2>4
<1>7. ASSUME MethodStep(d), d \in Task PROVE Folders(u)' \subseteq task'[d].rows
  <2>1. Move(d) /\ task[d].status = "running" /\ company' = company
    BY <1>3, <1>7, MethodMoves, StageMoves
  <2>2. task'[d].todo \notin {ToKick, ToOffline, ToUnlink, ToDelete} /\ task'[d].status = "running"
    <3>1. \A s : s \in {ToKick, ToOffline, ToUnlink, ToDelete} => s # ToNext /\ \A c : s # ToRemove(c)
      BY StageFacts
    <3> QED
      BY <3>1 DEF Loops
  <2>3. u # d
    <3>1. Target(d) \in nodes \/ d \in met
      <4>1. CASE task[d].todo = DeleteScript
        <5>1. FetchMove(d) => Target(d) \in nodes
          BY <2>2 DEF FetchMove
        <5>2. \A s \in {ToKick, ToOffline, ToUnlink, ToNext, ToDelete} : s # DeleteScript
          BY StageFacts, SMTT(30)
        <5>3. \A c : ToRemove(c) # DeleteScript
          BY StageFacts
        <5> QED
          BY <2>1, <2>2, <4>1, <5>1, <5>2, <5>3 DEF Move, KickMove, OfflineMove, UnlinkMove, NextMove,
             RemoveMove, DeleteMove
      <4>2. CASE task[d].todo # DeleteScript
        BY <1>1, <1>3, <2>1, <4>2 DEF MetByThen
      <4> QED
        BY <4>1, <4>2
    <3>2. ASSUME d \in met PROVE u # d
      <4>1. task[u].status = "running" => u \in company[d]
        BY <1>2, <3>2 DEF MetSince
      <4> QED
        BY <2>1, <4>1
    <3>3. ASSUME Target(d) \in nodes PROVE u # d
      <4>1. Creates(u)
        BY <1>3, <3>3, PlayerOfs DEF Created
      <4> QED
        BY <1>3, <4>1 DEF Creates, Deletes
    <3> QED
      BY <3>1, <3>2, <3>3
  <2>4. Children(PlayerOf(u))' \subseteq Children(PlayerOf(u))
    BY <1>1, <1>3, <1>7, <2>3, PlayersThen
  <2>5. CASE UnlinkMove(d)
    BY <1>3, <1>5, <2>2, <2>4, <2>5 DEF UnlinkMove
  <2>6. CASE NextMove(d) \/ RemoveMove(d)
    <3>1. Loops(d) /\ task'[d].rows = task[d].rows
      BY <2>1, <2>2, <2>6 DEF NextMove, RemoveMove, Loops, Moves
    <3>2. d \in met
      <4>1. task[d].todo # DeleteScript
        BY <3>1, LoopsFacts
      <4> QED
        BY <1>1, <1>3, <2>1, <4>1 DEF MetByThen
    <3> QED
      BY <1>4, <1>5, <2>1, <2>4, <3>1, <3>2
  <2> QED
    BY <2>1, <2>2, <2>5, <2>6 DEF Move, FetchMove, KickMove, OfflineMove, DeleteMove, Moves
<1>8. CASE OtherMove
  <2>1. d \in met /\ u \notin company[d]
    BY <1>3, <1>8 DEF OtherMove
  <2>2. task[d].status # "idle"
    BY <2>1 DEF MetSince
  <2>3. task'[d] = task[d]
    <3>1. \A t \in Call : ArriveMove(t) => task'[d] = task[d]
      BY <1>3, <2>2 DEF ArriveMove
    <3>2. RestartMove => task'[d].status # "running"
      BY <1>3 DEF RestartMove
    <3>3. task'[d].status = "running"
      BY DEF Loops
    <3> QED
      BY <1>3, <1>8, <3>1, <3>2, <3>3 DEF OtherMove, AddMove, StillMove
  <2>4. Loops(d)
    BY <2>3 DEF Loops
  <2>5. Children(PlayerOf(u))' \subseteq Children(PlayerOf(u)) \cup {Extra(PlayerOf(u))}
    BY <1>3, <1>8, OthersLink
  <2> QED
    BY <1>4, <1>5, <2>1, <2>3, <2>4, <2>5
<1> QED
  BY <1>3, <1>6, <1>7, <1>8, OtherMoves

\* A promise stands as long as nobody disturbs the avatar's children.
LEMMA PromiseKept ==
    ASSUME NEW d, NEW u, task'[d] = task[d], Children(PlayerOf(u))' = Children(PlayerOf(u)),
           Promising(d, u)
    PROVE  Promising(d, u)'
<1>1. HasInfo(u)' = HasInfo(u) /\ Folders(u)' = Folders(u)
  BY DEF HasInfo, Folders, PlayerOf, Extra, IsA
<1>2. \A c : c \in Children(PlayerOf(u))' <=> c \in Children(PlayerOf(u))
  OBVIOUS
<1> QED
  BY <1>1, <1>2 DEF Promising

LEMMA ApartBefore ==
    ASSUME NEW u, Apart(u)', DeletionsOf(u)' = DeletionsOf(u), DeletionsOf(u) \subseteq Call,
           Children(PlayerOf(u))' = Children(PlayerOf(u)), PlayerOf(u)' \in nodes,
           task[u].status = "returned",
           \A d \in DeletionsOf(u) : /\ company[d] \subseteq company'[d]
                                     /\ \/ task[d].status = "running"
                                        \/ task'[d] = task[d]
    PROVE  Apart(u)
<1>1. PlayerOf(u)' = PlayerOf(u) /\ Extra(PlayerOf(u))' = Extra(PlayerOf(u))
  BY DEF PlayerOf, Extra
<1>2. /\ DeletionsOf(u) # {} /\ Extra(PlayerOf(u)) \notin Children(PlayerOf(u))
      /\ \A d \in DeletionsOf(u) : /\ task'[d].status \in {"running", "returned", "raised"}
                                   /\ u \notin company'[d]
  BY <1>1 DEF Apart
<1> QED
  BY <1>1, <1>2 DEF Apart

\* Which promise a stage is about.
LEMMA PromiseStages ==
    ASSUME NEW d, NEW u, Promising(d, u)
    PROVE  /\ task[d].todo # DeleteScript
           /\ task[d].todo \in {ToKick, ToOffline, ToUnlink} => HasInfo(u)
           /\ task[d].todo = ToDelete => Folders(u) = {}
           /\ \A c : task[d].todo = ToRemove(c) => c \in Children(PlayerOf(u))
<1>1. \/ Head(task[d].todo).op \in {"kick", "offline", "unlink"} /\ HasInfo(u)
      \/ Head(task[d].todo).op = "next"
      \/ Head(task[d].todo).op = "remove" /\ Head(task[d].todo).child \in Children(PlayerOf(u))
      \/ Head(task[d].todo).op = "delete" /\ Folders(u) = {}
  <2>1. CASE task[d].todo \in {ToKick, ToOffline, ToUnlink} /\ HasInfo(u)
    BY <2>1, StageFacts
  <2>2. CASE task[d].todo = ToNext
    BY <2>2, StageFacts
  <2>3. ASSUME NEW c \in Children(PlayerOf(u)), task[d].todo = ToRemove(c)
        PROVE  Head(task[d].todo).op = "remove" /\ Head(task[d].todo).child \in Children(PlayerOf(u))
    BY <2>3, StageFacts
  <2>4. CASE task[d].todo = ToDelete /\ Folders(u) = {}
    BY <2>4, StageFacts
  <2> QED
    BY <2>1, <2>2, <2>3, <2>4 DEF Promising
<1>2. /\ Head(DeleteScript).op = "fetch"
      /\ \A s \in {ToKick, ToOffline, ToUnlink} : Head(s).op \in {"kick", "offline", "unlink"}
      /\ Head(ToDelete).op = "delete"
      /\ \A c : Head(ToRemove(c)).op = "remove" /\ Head(ToRemove(c)).child = c
  BY StageFacts
<1> QED
  BY <1>1, <1>2

\* The avatar's Player Info is there when the first deletion finds it.
LEMMA InfoThere ==
    ASSUME Sound, TreeInv, Created, NEW u \in Call, PlayerOf(u) \in nodes,
           task[u].status = "returned", DeletionsOf(u) = {}
    PROVE  HasInfo(u)
<1>1. Creates(u) /\ u \in Task /\ ~Deletes(u)
  BY PlayerOfs, Known DEF Created, Creates, Deletes, Sound
<1>2. Linked(u, <<Player, PlayerInfo>>)
  <2>1. CallInv(u) /\ Live(u)
    BY <1>1 DEF TreeInv, Live
  <2>2. \A l \in LinksOf(AvatarScript) : Pledged(u, l)
    BY <1>1, <2>1, NothingLeft DEF CallInv, Avatars
  <2> QED
    BY <1>1, <2>2, NothingLeft, AvatarScriptSteps
<1>3. <<PlayerOf(u), <<u, "player", "playerInfo">>>> \in refs
  BY <1>1, <1>2, AtKinds DEF Linked
<1> QED
  BY <1>3, ChildrenOf DEF HasInfo, IsA

\* The promise of a deletion that makes the step.
LEMMA PromiseMoves ==
    ASSUME Sound, Covered, Childless, NEW d \in Call, Deletes(d), d \in met, Move(d), NEW u \in Call,
           load.jobs[d].of = u, Promising(d, u), Apart(u), Apart(u)', d \in DeletionsOf(u)',
           Children(PlayerOf(u))' = Children(PlayerOf(u))
    PROVE  Promising(d, u)'
<1>1. /\ Target(d) = PlayerOf(u) /\ PlayerOf(u)' = PlayerOf(u)
      /\ PlayerOf(u) \in nodes /\ PlayerOf(u) \in nodes' /\ u \notin company[d]
      /\ Extra(PlayerOf(u)) \notin Children(PlayerOf(u))
      /\ task'[d].status \in {"running", "returned", "raised"} /\ task[d].status = "running"
  <2>1. PlayerOf(u)' = PlayerOf(u)
    BY DEF PlayerOf
  <2>2. d \in DeletionsOf(u)
    BY DEF DeletionsOf
  <2> QED
    BY <2>1, <2>2 DEF Target, Apart, Promising
<1>2. HasInfo(u)' = HasInfo(u) /\ Folders(u)' = Folders(u)
  BY DEF HasInfo, Folders, PlayerOf, Extra, IsA
<1>3. \A c : c \in Children(PlayerOf(u))' <=> c \in Children(PlayerOf(u))
  OBVIOUS
<1>4. /\ task[d].todo # DeleteScript
      /\ task[d].todo \in {ToKick, ToOffline, ToUnlink} => HasInfo(u)
      /\ task[d].todo = ToDelete => Folders(u) = {}
      /\ \A c : task[d].todo = ToRemove(c) => c \in Children(PlayerOf(u))
  BY PromiseStages
<1>5. CASE KickMove(d)
  BY <1>2, <1>4, <1>5 DEF KickMove, Moves, Promising
<1>6. CASE OfflineMove(d)
  <2>1. HasInfo(u) /\ Moves(d, ToUnlink)
    BY <1>1, <1>4, <1>6 DEF OfflineMove, HasInfo
  <2> QED
    BY <1>2, <2>1 DEF Moves, Promising
<1>7. CASE UnlinkMove(d)
  BY <1>1, <1>7 DEF UnlinkMove, Promising
<1>8. CASE NextMove(d)
  <2>1. ASSUME NEW c \in Children(Target(d)), Moves(d, ToRemove(c)) PROVE Promising(d, u)'
    BY <1>1, <1>3, <2>1 DEF Moves, Promising
  <2>2. ASSUME task[d].rows \cap Children(Target(d)) = {}, Moves(d, ToDelete) PROVE Promising(d, u)'
    <3>1. Folders(u) \subseteq task[d].rows
      BY <1>1, <1>8 DEF Covered, Loops, NextMove
    <3>2. Folders(u) = {}
      BY <1>1, <2>2, <3>1 DEF Folders
    <3> QED
      BY <1>2, <2>2, <3>2 DEF Moves, Promising
  <2> QED
    BY <1>8, <2>1, <2>2 DEF NextMove
<1>9. CASE RemoveMove(d)
  <2>1. PICK c \in Node :
           /\ task[d].todo = ToRemove(c)
           /\ \/ Moves(d, ToNext)
              \/ <<Target(d), c>> \notin refs
    BY <1>9 DEF RemoveMove
  <2>2. <<Target(d), c>> \in refs
    BY <1>1, <1>4, <2>1, ChildrenOf
  <2> QED
    BY <2>1, <2>2 DEF Moves, Promising
<1>10. CASE DeleteMove(d)
  <2>1. Children(PlayerOf(u)) = {} /\ ~Deletable(PlayerOf(u))
    BY <1>1, <1>4, <1>10 DEF DeleteMove, Folders
  <2>2. \A ref \in refs : ref[1] # PlayerOf(u) /\ ref[2] # PlayerOf(u)
    BY <2>1 DEF Childless, Children, PlayerOf
  <2> QED
    BY <1>1, <2>1, <2>2 DEF Deletable
<1> QED
  BY <1>1, <1>4, <1>5, <1>6, <1>7, <1>8, <1>9, <1>10 DEF Move, FetchMove

LEMMA PromisesStep ==
    ASSUME Sound, GhostInv, TreeInv, Overlaps, Created, DeleteInv, [Next]_vars
    PROVE  OnePromises'
<1>1. MetByThen /\ Staged /\ MetSince /\ Childless /\ Covered /\ OnePromises
  BY DEF GhostInv, DeleteInv
<1> SUFFICES ASSUME NEW u \in Call, Apart(u)'
             PROVE  \E d \in DeletionsOf(u)' : Promising(d, u)'
  BY DEF OnePromises
<1>2. /\ PlayerOf(u)' = PlayerOf(u) /\ Extra(PlayerOf(u))' = Extra(PlayerOf(u))
      /\ PlayerOf(u) \in nodes' /\ task'[u].status = "returned" /\ DeletionsOf(u)' # {}
      /\ Extra(PlayerOf(u)) \notin Children(PlayerOf(u))'
      /\ \A d \in DeletionsOf(u)' : /\ task'[d].status \in {"running", "returned", "raised"}
                                    /\ u \notin company'[d]
  BY DEF Apart, PlayerOf, Extra
<1>3. /\ DeletionsOf(u) = {d \in met : load.jobs[d].of = u}
      /\ DeletionsOf(u)' = {d \in met' : load'.jobs[d].of = u}
      /\ met \subseteq Call /\ \A d \in met : Deletes(d)
  BY <1>1 DEF DeletionsOf, MetSince, Sound, TypeOK
<1>4. ASSUME Apart(u) PROVE \E d \in DeletionsOf(u) : Promising(d, u)
  BY <1>1, <1>4 DEF OnePromises
<1>5. ASSUME NEW t \in Task, MethodStep(t) PROVE \E d \in DeletionsOf(u)' : Promising(d, u)'
  <2>1. /\ UNCHANGED <<load, company>> /\ task[t].status = "running"
        /\ \A v \in Call : v # t => task'[v] = task[v]
        /\ met' = met \/ met' = met \cup {t}
        /\ met' # met => t \in Call /\ Deletes(t) /\ Target(t) \in nodes
    BY <1>5, MethodMoves, MetDeletes
  <2>2. t # u
    <3>1. PICK d \in DeletionsOf(u)' : u \notin company[d]
      BY <1>2, <2>1
    <3>2. CASE d \in met
      BY <1>1, <1>3, <2>1, <3>1, <3>2 DEF MetSince
    <3>3. CASE d \notin met
      <4>1. d = t /\ Target(t) = PlayerOf(u) /\ Deletes(t) /\ PlayerOf(u) \in nodes
        BY <1>3, <2>1, <3>3 DEF Target
      <4>2. Creates(u)
        BY <4>1, PlayerOfs DEF Created
      <4> QED
        BY <4>1, <4>2 DEF Creates, Deletes
    <3> QED
      BY <3>2, <3>3
  <2>3. task[u].status = "returned" /\ PlayerOf(u) \in nodes
    BY <1>1, <1>2, <1>5, <2>1, <2>2, PlayersThen
  <2>4. ASSUME DeletionsOf(u)' = DeletionsOf(u), Children(PlayerOf(u))' = Children(PlayerOf(u))
        PROVE  Apart(u)
    BY <1>2, <1>3, <2>1, <2>3, <2>4, ApartBefore
  <2>5. ASSUME DeletionsOf(u)' = DeletionsOf(u), Children(PlayerOf(u))' = Children(PlayerOf(u)),
               NEW d \in DeletionsOf(u), Promising(d, u), d # t
        PROVE  \E v \in DeletionsOf(u)' : Promising(v, u)'
    BY <1>3, <2>1, <2>5, PromiseKept
  <2>6. CASE t \notin DeletionsOf(u)'
    <3>1. DeletionsOf(u)' = DeletionsOf(u)
      BY <1>3, <2>1, <2>6
    <3>2. Children(PlayerOf(u))' = Children(PlayerOf(u))
      <4>1. ~(t \in met /\ Deletes(t) /\ load.jobs[t].of = u)
        BY <1>3, <2>1, <2>6
      <4> QED
        BY <1>1, <1>5, <2>2, <4>1, PlayersThen
    <3>3. PICK d \in DeletionsOf(u) : Promising(d, u)
      BY <1>4, <2>4, <3>1, <3>2
    <3> QED
      BY <2>5, <2>6, <3>1, <3>2, <3>3
  <2>7. CASE t \in DeletionsOf(u)'
    <3>1. t \in Call /\ Deletes(t) /\ load.jobs[t].of = u /\ Target(t) = PlayerOf(u)
      BY <1>3, <2>1, <2>7 DEF Target
    <3>2. Move(t)
      BY <1>1, <1>5, <3>1, StageMoves
    <3>3. CASE refs' # refs
      <4>1. PICK c \in Node : <<Target(t), c>> \in refs /\ Moves(t, ToNext)
        BY <3>2, <3>3 DEF Move, FetchMove, KickMove, OfflineMove, UnlinkMove, NextMove, RemoveMove,
           DeleteMove, Quiet
      <4>2. Promising(t, u)'
        BY <4>1 DEF Moves, Promising
      <4> QED
        BY <2>7, <4>2
    <3>4. CASE refs' = refs
      <4>1. Children(PlayerOf(u))' = Children(PlayerOf(u))
        BY <3>4 DEF Children, PlayerOf
      <4>2. CASE DeletionsOf(u)' # DeletionsOf(u)
        <5>1. FetchMove(t)
          <6>1. met' # met
            BY <1>3, <2>1, <4>2
          <6> QED
            BY <3>2, <6>1 DEF Move, KickMove, OfflineMove, UnlinkMove, NextMove, RemoveMove,
               DeleteMove, Quiet
        <5>2. Moves(t, ToKick)
          BY <1>3, <2>1, <4>2, <5>1 DEF FetchMove
        <5>3. CASE DeletionsOf(u) = {}
          <6>1. HasInfo(u)
            BY <2>3, <5>3, InfoThere
          <6>2. HasInfo(u)'
            BY <4>1, <6>1 DEF HasInfo, IsA, PlayerOf
          <6>3. Promising(t, u)'
            BY <5>2, <6>2 DEF Moves, Promising
          <6> QED
            BY <2>7, <6>3
        <5>4. CASE DeletionsOf(u) # {}
          <6>1. DeletionsOf(u) \subseteq DeletionsOf(u)' /\ t \notin DeletionsOf(u)
            BY <1>3, <2>1, <4>2
          <6>2. Extra(PlayerOf(u)) \notin Children(PlayerOf(u))
            BY <1>2, <4>1
          <6>3. \A d \in DeletionsOf(u) : /\ task[d].status \in {"running", "returned", "raised"}
                                          /\ u \notin company[d]
            BY <1>2, <1>3, <2>1, <6>1
          <6>4. Apart(u)
            BY <2>3, <5>4, <6>2, <6>3 DEF Apart
          <6>5. PICK d \in DeletionsOf(u) : Promising(d, u)
            BY <1>4, <6>4
          <6>6. Promising(d, u)'
            BY <1>3, <2>1, <4>1, <6>1, <6>5, PromiseKept
          <6> QED
            BY <6>1, <6>6
        <5> QED
          BY <5>3, <5>4
      <4>3. CASE DeletionsOf(u)' = DeletionsOf(u)
        <5>1. Apart(u) /\ t \in met
          BY <1>3, <2>4, <2>7, <4>1, <4>3
        <5>2. PICK d \in DeletionsOf(u) : Promising(d, u)
          BY <1>4, <5>1
        <5>3. CASE d = t
          <6>1. Promising(t, u)'
            BY <1>1, <2>7, <3>1, <3>2, <4>1, <5>1, <5>2, <5>3, PromiseMoves
          <6> QED
            BY <2>7, <6>1
        <5>4. CASE d # t
          BY <2>5, <4>1, <4>3, <5>2, <5>4
        <5> QED
          BY <5>3, <5>4
      <4> QED
        BY <4>2, <4>3
    <3> QED
      BY <3>3, <3>4
  <2> QED
    BY <2>6, <2>7
<1>6. CASE OtherMove
  <2>1. /\ load' = load /\ met' = met /\ \A t \in Call : company[t] \subseteq company'[t]
        /\ DeletionsOf(u)' = DeletionsOf(u)
    BY <1>3, <1>6 DEF OtherMove
  <2>2. \A d \in DeletionsOf(u) : task[d].status # "idle" /\ d \in Call
    BY <1>1, <1>3 DEF MetSince
  <2>3. task[u].status = "returned" /\ \A d \in DeletionsOf(u) : task'[d] = task[d]
    <3>1. ASSUME NEW t \in Call, ArriveMove(t)
          PROVE  task[u].status = "returned" /\ \A d \in DeletionsOf(u) : task'[d] = task[d]
      BY <1>2, <2>2, <3>1 DEF ArriveMove
    <3>2. ASSUME NEW v \in Call, task'[v].status \in {"running", "returned", "raised"},
                 ~\E t \in Call : ArriveMove(t)
          PROVE  task'[v] = task[v]
      BY <1>6, <3>2 DEF OtherMove, AddMove, StillMove, RestartMove
    <3> QED
      BY <1>2, <2>1, <2>2, <3>1, <3>2
  <2>4. PlayerOf(u) \in nodes /\ Children(PlayerOf(u))' = Children(PlayerOf(u))
    BY <1>2, <1>6, OthersLink
  <2>5. Apart(u)
    BY <1>2, <1>3, <2>1, <2>2, <2>3, <2>4, ApartBefore
  <2>6. PICK d \in DeletionsOf(u) : Promising(d, u)
    BY <1>4, <2>5
  <2> QED
    BY <2>1, <2>3, <2>4, <2>6, PromiseKept
<1> QED
  BY <1>5, <1>6, OtherMoves

LEMMA InitDelete == Init => DeleteInv
<1> SUFFICES ASSUME Init PROVE DeleteInv
  OBVIOUS
<1>1. UnderWay = {} /\ nodes = {} /\ refs = {} /\ met = {}
  BY InitIdle DEF Init
<1> QED
  BY <1>1 DEF DeleteInv, Staged, MetSince, Childless, Covered, OnePromises, Apart, UnderWay

LEMMA DeleteStep ==
    Sound /\ Overlaps /\ Created /\ GhostInv /\ TreeInv /\ DeleteInv /\ [Next]_vars => DeleteInv'
BY StagedStep, MetSinceStep, ChildlessStep, CoveredStep, PromisesStep DEF DeleteInv

\* Deletions of one avatar make each other fail, but never all of them: when the last has
\* ended, the avatar is gone, if it was finished before they began, no database failure or
\* crash hit them, and no client has given it a child (delete_avatar).
THEOREM DeletionsComplete == Spec => []DeletionsFinish
<1>1. DeleteInv => DeletionsFinish
  <2> SUFFICES ASSUME DeleteInv, NEW u \in Call, DeletionsOf(u) # {}, task[u].status = "returned",
                      \A d \in DeletionsOf(u) : /\ task[d].status \in {"returned", "raised"}
                                                /\ u \notin company[d],
                      Extra(PlayerOf(u)) \notin Children(PlayerOf(u)), PlayerOf(u) \in nodes
               PROVE  FALSE
    BY DEF DeletionsFinish
  <2>1. Apart(u)
    BY DEF Apart
  <2>2. PICK d \in DeletionsOf(u) : Promising(d, u)
    BY <2>1 DEF DeleteInv, OnePromises
  <2> QED
    BY <2>2 DEF Promising
<1>2. NameInv => Overlaps /\ Created
  BY DEF NameInv
<1> QED
  BY <1>1, <1>2, SpecSound, InitNames, NamesStep, InitGhosts, GhostsStep, InitInstances,
     InstancesStep, InitTrees, TreesStep, InitDelete, DeleteStep, PTL DEF Spec
=============================================================================
