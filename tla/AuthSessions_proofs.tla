------------------------ MODULE AuthSessions_proofs ------------------------
(* What holds of AuthSessions for every number of connections and avatars:  *)
(* in every environment, and in one without disturbances.                  *)
EXTENDS AuthSessions, TLAPS

-----------------------------------------------------------------------------
(* Type correctness.                                                       *)

LEMMA OfflineTaskType ==
    ASSUME NEW c \in Conn, NEW k \in KI \cup {None}, NEW why \in {"cleanup", "kick"}
    PROVE  OfflineTask(c, k, why) \subseteq Conn \X KI \X {"cleanup", "kick"}
BY DEF OfflineTask

LEMMA CleanUpNowType ==
    ASSUME NEW r \in Server, NEW c \in Conn
    PROVE  CleanUpNow(r, c) \in Server
<1> DEFINE s == r.client[c]
           k == r.ki[s]
           told == [r EXCEPT !.offline = @ \cup OfflineTask(c, k, "cleanup")]
           unbound == IF k = None THEN told ELSE [told EXCEPT !.byKI[k] = None]
<1>1. s \in Conn /\ k \in KI \cup {None}
  BY DEF Server
<1>2. told \in Server
  BY <1>1, OfflineTaskType DEF Server
<1>3. unbound \in Server
  <2> HIDE DEF told
  <2> QED BY <1>1, <1>2 DEF Server
<1>4. [unbound EXCEPT !.auth[s] = None] \in Server
  <2> HIDE DEF unbound
  <2> QED BY <1>1, <1>3 DEF Server
<1> QED
  BY <1>2, <1>3, <1>4 DEF CleanUpNow

LEMMA HandleDisconnectType ==
    ASSUME NEW r \in Server, NEW c \in Conn
    PROVE  HandleDisconnect(r, c) \in Server
<1>1. [r EXCEPT !.timers = @ \cup {c}, !.handle[r.client[c]] = c] \in Server
  BY DEF Server
<1> QED
  BY <1>1, CleanUpNowType DEF HandleDisconnect

LEMMA ForgetType ==
    ASSUME NEW r \in Server, NEW s \in Conn
    PROVE  Forget(r, s) \in Server
<1>1. r.ki[s] \in KI \cup {None}
  BY DEF Server
<1> QED
  BY <1>1 DEF Forget, Server

LEMMA KickType ==
    ASSUME NEW r \in Server, NEW v \in Conn, NEW setOffline \in BOOLEAN
    PROVE  Kick(r, v, setOffline) \in Server
<1> DEFINE s == r.client[v]
           toSet == IF setOffline THEN r.ki[s] ELSE None
           unusable == [Forget(r, s) EXCEPT !.usable = @ \ {s}]
<1>1. s \in Conn /\ toSet \in KI \cup {None}
  BY DEF Server
<1>2. Forget(r, s) \in Server
  BY <1>1, ForgetType
<1>3. unusable \in Server
  BY <1>1, <1>2 DEF Server
<1> HIDE DEF unusable, toSet, s
<1>4. [unusable EXCEPT !.closing = @ \cup {<<v, toSet>>}] \in Server
  BY <1>1, <1>3 DEF Server
<1>5. CancelCleanUp(unusable, s) \in Server
  BY <1>3 DEF CancelCleanUp, Server
<1>6. [CancelCleanUp(unusable, s) EXCEPT !.offline = @ \cup OfflineTask(v, toSet, "kick")] \in Server
  BY <1>1, <1>5, OfflineTaskType DEF Server
<1> QED
  BY <1>2, <1>4, <1>6 DEF Kick, s, toSet, unusable

LEMMA ClaimType ==
    ASSUME NEW r \in Server, NEW c \in Conn, NEW k \in KI \cup {None}
    PROVE  Claim(r, c, k) \in Server
<1> DEFINE kicked == IF r.byKI[k] = None THEN r ELSE Kick(r, r.byKI[k], FALSE)
<1>1. CASE k = None
  BY <1>1 DEF Claim
<1>2. CASE k # None
  <2>1. k \in KI /\ r.byKI[k] \in Conn \cup {None}
    BY <1>2 DEF Server
  <2>2. kicked \in Server
    BY <2>1, KickType
  <2> HIDE DEF kicked
  <2>3. [kicked EXCEPT !.ki[r.client[c]] = k, !.byKI[k] = c] \in Server
    BY <2>1, <2>2 DEF Server
  <2> QED
    BY <1>2, <2>2, <2>3 DEF Claim, kicked
<1> QED
  BY <1>1, <1>2

LEMMA EndType ==
    ASSUME TypeOK, NEW r \in Server, NEW c \in Conn, End(c, r), UNCHANGED online
    PROVE  TypeOK'
<1>1. srv' \in Server
  BY HandleDisconnectType DEF End
<1> QED
  BY <1>1 DEF End, TypeOK, Idle

LEMMA TypeStep == TypeOK /\ [Next]_vars => TypeOK'
<1> SUFFICES ASSUME TypeOK, [Next]_vars PROVE TypeOK'
  OBVIOUS
<1> USE DEF TypeOK
<1>a. CASE UNCHANGED vars
  BY <1>a DEF vars
<1>b. ASSUME NEW c \in Conn, Connect(c) PROVE TypeOK'
  BY <1>b DEF Connect, Server
<1>c. ASSUME NEW c \in Conn, NEW t \in Conn, Reconnect(c, t) PROVE TypeOK'
  <2> DEFINE s == srv.client[srv.auth[t]]
             joined == [srv EXCEPT !.client[c] = s]
             moved == [CancelCleanUp(joined, s)
                         EXCEPT !.auth[t] = c,
                                !.byKI = IF srv.ki[s] = None THEN @
                                         ELSE [@ EXCEPT ![srv.ki[s]] = c]]
  <2>1. CASE srv.auth[t] = None \/ s \notin srv.usable
    <3>1. End(c, srv) /\ UNCHANGED online
      BY <1>c, <2>1 DEF Reconnect
    <3> QED
      BY <3>1, EndType
  <2>2. CASE ~(srv.auth[t] = None \/ s \notin srv.usable)
    <3>1. s \in Conn /\ srv.ki[s] \in KI \cup {None}
      BY <2>2 DEF Server
    <3>2. joined \in Server
      BY <3>1 DEF Server
    <3> HIDE DEF joined
    <3>3. CASE srv.handle[s] = None
      <4>1. End(c, joined) /\ UNCHANGED online
        BY <1>c, <2>2, <3>3 DEF Reconnect, joined
      <4> QED
        BY <3>2, <4>1, EndType
    <3>4. CASE srv.handle[s] # None
      <4>1. moved \in Server
        BY <3>1, <3>2 DEF CancelCleanUp, Server
      <4>2. /\ srv' = moved
            /\ phase' = [phase EXCEPT ![c] = "running"]
            /\ up' = up \cup {c}
            /\ UNCHANGED <<switch, online>>
        BY <1>c, <2>2, <3>4 DEF Reconnect, joined
      <4> HIDE DEF moved
      <4> QED
        BY <4>1, <4>2
    <3> QED
      BY <3>3, <3>4
  <2> QED
    BY <2>1, <2>2
<1>d. ASSUME NEW c \in Conn, Lose(c) PROVE TypeOK'
  BY <1>d DEF Lose
<1>e. ASSUME NEW c \in Conn, HandlerEnds(c) PROVE TypeOK'
  BY <1>e, EndType DEF HandlerEnds
<1>f. ASSUME NEW c \in Conn, NEW k \in KI \cup {None}, SetPlayer(c, k) PROVE TypeOK'
  <2> DEFINE p == srv.ki[srv.client[c]]
  <2>1. p \in KI \cup {None} /\ Claim(srv, c, k) \in Server
    BY ClaimType DEF Server
  <2>2. CASE End(c, Claim(srv, c, k)) /\ UNCHANGED online
    BY <2>1, <2>2, EndType
  <2>3. CASE End(c, srv) /\ UNCHANGED online
    BY <2>3, EndType
  <2>4. CASE srv' = Claim(srv, c, k) /\ UNCHANGED <<phase, up, switch, online>>
    BY <2>1, <2>4
  <2>5. CASE /\ p # None
             /\ srv' = [srv EXCEPT !.byKI[p] = None, !.ki[srv.client[c]] = None]
             /\ switch' = [switch EXCEPT ![c] = [stage |-> "vault", from |-> p, to |-> k]]
             /\ UNCHANGED <<phase, up, online>>
    <3>1. srv' \in Server
      BY <2>1, <2>5 DEF Server
    <3> QED
      BY <2>1, <2>5, <3>1
  <2> QED
    BY <1>f, <2>2, <2>3, <2>4, <2>5 DEF SetPlayer
<1>g. ASSUME NEW c \in Conn, SwitchVault(c) PROVE TypeOK'
  <2>1. CASE switch[c].from \in Avatar
    BY <1>g, <2>1 DEF SwitchVault
  <2>2. CASE switch[c].from \notin Avatar
    BY <1>g, <2>2, EndType DEF SwitchVault
  <2> QED
    BY <2>1, <2>2
<1>h. ASSUME NEW c \in Conn, SwitchResume(c) PROVE TypeOK'
  <2>1. switch[c].to \in KI \cup {None}
    OBVIOUS
  <2>2. Claim(srv, c, switch[c].to) \in Server
    BY <2>1, ClaimType
  <2>3. CASE ClaimRaises(srv, switch[c].to)
    BY <1>h, <2>2, <2>3, EndType DEF SwitchResume
  <2>4. CASE ~ClaimRaises(srv, switch[c].to)
    BY <1>h, <2>2, <2>4 DEF SwitchResume, Idle
  <2> QED
    BY <2>3, <2>4
<1>i. ASSUME NEW c \in Conn, GoOnline(c) PROVE TypeOK'
  BY <1>i DEF GoOnline
<1>j. ASSUME NEW c \in Conn, ConsoleKick(c) PROVE TypeOK'
  BY <1>j, KickType DEF ConsoleKick
<1>k. ASSUME NEW c \in Conn, KickCloses(c) PROVE TypeOK'
  <2>1. PICK k \in KI \cup {None} :
          /\ srv' = [srv EXCEPT !.closing = @ \ {<<c, k>>},
                                !.offline = @ \cup OfflineTask(c, k, "kick")]
          /\ up' = up \ {c}
          /\ UNCHANGED <<phase, switch, online>>
    BY <1>k DEF KickCloses
  <2> DEFINE left == srv.closing \ {<<c, k>>}
             tasks == srv.offline \cup OfflineTask(c, k, "kick")
  <2>2. /\ left \subseteq Conn \X (KI \cup {None})
        /\ tasks \subseteq Conn \X KI \X {"cleanup", "kick"}
    BY OfflineTaskType DEF Server
  <2>3. srv' = [srv EXCEPT !.closing = left, !.offline = tasks]
    BY <2>1
  <2> HIDE DEF left, tasks
  <2>4. srv' \in Server
    BY <2>2, <2>3 DEF Server
  <2> QED
    BY <2>1, <2>4
<1>n. ASSUME NEW c \in Conn, KickFails(c) PROVE TypeOK'
  <2>1. PICK k \in KI \cup {None} : srv' = [srv EXCEPT !.closing = @ \ {<<c, k>>}]
    BY <1>n DEF KickFails
  <2> QED
    BY <1>n, <2>1 DEF KickFails, Server
<1>l. ASSUME NEW c \in Conn, TimerFires(c) PROVE TypeOK'
  <2>1. [srv EXCEPT !.timers = @ \ {c}] \in Server
    BY DEF Server
  <2> QED
    BY <1>l, <2>1, CleanUpNowType DEF TimerFires
<1>m. ASSUME NEW c \in Conn, SetOffline(c) PROVE TypeOK'
  <2>1. PICK k \in KI, why \in {"cleanup", "kick"} :
          /\ srv' = [srv EXCEPT !.offline = @ \ {<<c, k, why>>}]
          /\ online' = online \ {k}
          /\ UNCHANGED <<phase, up, switch>>
    BY <1>m DEF SetOffline
  <2> DEFINE tasks == srv.offline \ {<<c, k, why>>}
  <2>2. tasks \subseteq Conn \X KI \X {"cleanup", "kick"}
    BY DEF Server
  <2>3. srv' = [srv EXCEPT !.offline = tasks]
    BY <2>1
  <2> HIDE DEF tasks
  <2>4. srv' \in Server
    BY <2>2, <2>3 DEF Server
  <2> QED
    BY <2>1, <2>4
<1> QED
  BY <1>a, <1>b, <1>c, <1>d, <1>e, <1>f, <1>g, <1>h, <1>i, <1>j, <1>k, <1>l, <1>m, <1>n
  DEF Next, ServerStep

LEMMA InitType == Init => TypeOK
BY ConstantsAssumption DEF Init, TypeOK, Server, Idle

\* Every reachable state has the types that TypeOK says, in every environment.
THEOREM TypeCorrect == Spec => []TypeOK
BY InitType, TypeStep, PTL DEF Spec

-----------------------------------------------------------------------------
(* Tokens, in every environment.  No method enters a session into          *)
(* auth_connections; the two places that do, Connect and Reconnect, enter  *)
(* a new session or replace the connection of one that is there.           *)

KeepsTokens(r, q) ==
    /\ q.client = r.client
    /\ \A t \in Conn : q.auth[t] # None =>
           q.auth[t] = r.auth[t] /\ (t \in r.usable => t \in q.usable)

LEMMA CleanUpNowKeepsTokens ==
    ASSUME NEW r \in Server, NEW c \in Conn
    PROVE  KeepsTokens(r, CleanUpNow(r, c))
BY DEF CleanUpNow, KeepsTokens, Server

LEMMA HandleDisconnectKeepsTokens ==
    ASSUME NEW r \in Server, NEW c \in Conn
    PROVE  KeepsTokens(r, HandleDisconnect(r, c))
BY CleanUpNowKeepsTokens DEF HandleDisconnect, KeepsTokens, Server

LEMMA KickKeepsTokens ==
    ASSUME NEW r \in Server, NEW v \in Conn, NEW setOffline \in BOOLEAN
    PROVE  KeepsTokens(r, Kick(r, v, setOffline))
BY DEF Kick, Forget, CancelCleanUp, KeepsTokens, Server

LEMMA ClaimKeepsTokens ==
    ASSUME NEW r \in Server, NEW c \in Conn, NEW k \in KI \cup {None}
    PROVE  KeepsTokens(r, Claim(r, c, k))
<1> DEFINE kicked == IF r.byKI[k] = None THEN r ELSE Kick(r, r.byKI[k], FALSE)
<1>1. CASE k = None
  BY <1>1 DEF Claim, KeepsTokens
<1>2. CASE k # None
  <2>0. k \in KI /\ r.byKI[k] \in Conn \cup {None}
    BY <1>2 DEF Server
  <2>1. kicked \in Server /\ KeepsTokens(r, kicked)
    <3>1. CASE r.byKI[k] = None
      BY <3>1 DEF KeepsTokens
    <3>2. CASE r.byKI[k] # None
      BY <2>0, <3>2, KickType, KickKeepsTokens
    <3> QED
      BY <3>1, <3>2
  <2>2. Claim(r, c, k) \in {kicked, [kicked EXCEPT !.ki[r.client[c]] = k, !.byKI[k] = c]}
    BY <1>2 DEF Claim
  <2> HIDE DEF kicked
  <2> QED
    BY <2>1, <2>2 DEF KeepsTokens, Server
<1> QED
  BY <1>1, <1>2

LEMMA KeepsTokensSound ==
    ASSUME NEW r, NEW q, TokensLeadToSessions(r), KeepsTokens(r, q)
    PROVE  TokensLeadToSessions(q)
BY DEF TokensLeadToSessions, KeepsTokens

\* A connection that is still to come is in nobody's way.
NewUntracked ==
    \A c \in Conn : phase[c] = "new" =>
        /\ srv.client[c] = c /\ srv.auth[c] = None
        /\ \A t \in Conn : srv.auth[t] # c

TokenInv == TypeOK /\ TokenResolvesUsable /\ NewUntracked

\* A step that enters nobody into auth_connections.
TokensOnlyForgotten ==
    /\ KeepsTokens(srv, srv')
    /\ \A c \in Conn : phase[c] # "new" => phase'[c] # "new"

LEMMA EndForgets ==
    ASSUME TypeOK, NEW r \in Server, NEW c \in Conn, End(c, r), KeepsTokens(srv, r)
    PROVE  TokensOnlyForgotten
<1>1. KeepsTokens(srv, srv')
  BY HandleDisconnectKeepsTokens DEF End, KeepsTokens
<1> QED
  BY <1>1 DEF End, TypeOK, TokensOnlyForgotten

LEMMA TokenStep ==
    ASSUME TokenInv, [Next]_vars
    PROVE  /\ TokenInv'
           /\ \A t \in Conn : Discarded(t) => Discarded(t)'
<1> USE DEF TokenInv, TokenResolvesUsable, TypeOK
<1>0. TypeOK'
  BY TypeStep
<1>r. KeepsTokens(srv, srv)
  BY DEF KeepsTokens
<1>1. CASE TokensOnlyForgotten /\ \A c \in Conn : phase'[c] = "new" => phase[c] = "new"
  <2>1. TokensLeadToSessions(srv)'
    BY <1>1, KeepsTokensSound DEF TokensOnlyForgotten, TokensLeadToSessions
  <2> QED
    BY <1>0, <1>1, <2>1 DEF TokensOnlyForgotten, KeepsTokens, NewUntracked, Discarded, Server
<1>2. ASSUME NEW c \in Conn, Connect(c)
      PROVE  TokenInv' /\ \A t \in Conn : Discarded(t) => Discarded(t)'
  BY <1>0, <1>2 DEF Connect, TokensLeadToSessions, NewUntracked, Discarded, Server
<1>3. ASSUME NEW c \in Conn, NEW t \in Conn, Reconnect(c, t)
      PROVE  TokenInv' /\ \A x \in Conn : Discarded(x) => Discarded(x)'
  <2> DEFINE s == srv.client[srv.auth[t]]
             joined == [srv EXCEPT !.client[c] = s]
  <2>0. phase[c] = "new" /\ c # t
    BY <1>3 DEF Reconnect
  <2>1. CASE srv.auth[t] = None \/ s \notin srv.usable
    <3>1. End(c, srv)
      BY <1>3, <2>1 DEF Reconnect
    <3>2. TokensOnlyForgotten /\ \A x \in Conn : phase'[x] = "new" => phase[x] = "new"
      BY <1>r, <3>1, EndForgets DEF End
    <3> QED
      BY <1>1, <3>2
  <2>2. CASE ~(srv.auth[t] = None \/ s \notin srv.usable)
    <3>1. s = t /\ t \in srv.usable
      BY <2>2 DEF TokensLeadToSessions
    <3>2. joined \in Server
      BY <3>1 DEF Server
    <3>3. CASE srv.handle[s] = None
      <4>1. End(c, joined)
        BY <1>3, <2>2, <3>3 DEF Reconnect
      <4>2. KeepsTokens(joined, srv')
        BY <3>2, <4>1, HandleDisconnectKeepsTokens DEF End
      <4>3. /\ srv'.client = [srv.client EXCEPT ![c] = t]
            /\ \A x \in Conn : srv'.auth[x] # None =>
                   srv'.auth[x] = srv.auth[x] /\ (x \in srv.usable => x \in srv'.usable)
        BY <3>1, <4>2 DEF KeepsTokens, Server
      <4>4. phase' = [phase EXCEPT ![c] = "ended"]
        BY <4>1 DEF End
      <4> QED
        BY <1>0, <2>0, <4>3, <4>4 DEF TokensLeadToSessions, NewUntracked, Discarded, Server
    <3>4. CASE srv.handle[s] # None
      <4>1. /\ srv'.client = [srv.client EXCEPT ![c] = t]
            /\ srv'.auth = [srv.auth EXCEPT ![t] = c]
            /\ srv'.usable = srv.usable
            /\ phase' = [phase EXCEPT ![c] = "running"]
        <5>1. srv' = [CancelCleanUp(joined, s)
                        EXCEPT !.auth[t] = c,
                               !.byKI = IF srv.ki[s] = None THEN @
                                        ELSE [@ EXCEPT ![srv.ki[s]] = c]]
          BY <1>3, <2>2, <3>4 DEF Reconnect
        <5>2. phase' = [phase EXCEPT ![c] = "running"]
          BY <1>3, <2>2, <3>4 DEF Reconnect
        <5> QED
          BY <3>1, <5>1, <5>2 DEF CancelCleanUp, Server
      <4> QED
        BY <1>0, <2>0, <2>2, <3>1, <4>1
        DEF TokensLeadToSessions, NewUntracked, Discarded, Server
    <3> QED
      BY <3>3, <3>4
  <2> QED
    BY <2>1, <2>2
<1>4. ASSUME NEW c \in Conn,
             \/ Lose(c) \/ HandlerEnds(c) \/ \E k \in KI \cup {None} : SetPlayer(c, k)
             \/ GoOnline(c) \/ ConsoleKick(c) \/ ServerStep(c)
      PROVE  TokensOnlyForgotten /\ \A x \in Conn : phase'[x] = "new" => phase[x] = "new"
  <2>1. CASE Lose(c) \/ GoOnline(c) \/ SetOffline(c) \/ KickCloses(c) \/ KickFails(c)
    BY <2>1
    DEF Lose, GoOnline, SetOffline, KickCloses, KickFails, TokensOnlyForgotten, KeepsTokens, Server
  <2>2. CASE HandlerEnds(c)
    BY <1>r, <2>2, EndForgets DEF HandlerEnds, End
  <2>3. ASSUME NEW k \in KI \cup {None}, SetPlayer(c, k)
        PROVE  TokensOnlyForgotten /\ \A x \in Conn : phase'[x] = "new" => phase[x] = "new"
    <3>1. Claim(srv, c, k) \in Server /\ KeepsTokens(srv, Claim(srv, c, k))
      BY ClaimType, ClaimKeepsTokens
    <3>2. CASE End(c, Claim(srv, c, k)) \/ End(c, srv)
      BY <1>r, <3>1, <3>2, EndForgets DEF End
    <3>3. CASE srv' = Claim(srv, c, k) /\ UNCHANGED phase
      BY <3>1, <3>3 DEF TokensOnlyForgotten
    <3>4. CASE /\ srv' = [srv EXCEPT !.byKI[srv.ki[srv.client[c]]] = None,
                                     !.ki[srv.client[c]] = None]
               /\ UNCHANGED phase
      BY <3>4 DEF TokensOnlyForgotten, KeepsTokens, Server
    <3> QED
      BY <2>3, <3>2, <3>3, <3>4 DEF SetPlayer
  <2>4. CASE SwitchVault(c)
    <3>1. CASE switch[c].from \in Avatar
      BY <1>r, <2>4, <3>1 DEF SwitchVault, TokensOnlyForgotten
    <3>2. CASE switch[c].from \notin Avatar
      BY <1>r, <2>4, <3>2, EndForgets DEF SwitchVault, End
    <3> QED
      BY <3>1, <3>2
  <2>5. CASE SwitchResume(c)
    <3> DEFINE k == switch[c].to
    <3>1. k \in KI \cup {None}
      OBVIOUS
    <3>2. Claim(srv, c, k) \in Server /\ KeepsTokens(srv, Claim(srv, c, k))
      BY <3>1, ClaimType, ClaimKeepsTokens
    <3>3. CASE ClaimRaises(srv, k)
      BY <2>5, <3>2, <3>3, EndForgets DEF SwitchResume, End
    <3>4. CASE ~ClaimRaises(srv, k)
      BY <2>5, <3>2, <3>4 DEF SwitchResume, TokensOnlyForgotten
    <3> QED
      BY <3>3, <3>4
  <2>6. CASE ConsoleKick(c)
    BY <2>6, KickKeepsTokens DEF ConsoleKick, TokensOnlyForgotten
  <2>7. CASE TimerFires(c)
    <3> DEFINE r == [srv EXCEPT !.timers = @ \ {c}]
    <3>1. r \in Server /\ r.client = srv.client /\ r.auth = srv.auth /\ r.usable = srv.usable
      BY DEF Server
    <3>2. srv' = CleanUpNow(r, c) /\ UNCHANGED phase
      BY <2>7 DEF TimerFires
    <3> HIDE DEF r
    <3> QED
      BY <3>1, <3>2, CleanUpNowKeepsTokens DEF TokensOnlyForgotten, KeepsTokens
  <2> QED
    BY <1>4, <2>1, <2>2, <2>3, <2>4, <2>5, <2>6, <2>7 DEF ServerStep
<1>5. CASE UNCHANGED vars
  BY <1>1, <1>r, <1>5 DEF vars, TokensOnlyForgotten
<1> QED
  BY <1>1, <1>2, <1>3, <1>4, <1>5 DEF Next

LEMMA TokenInvAlways == Spec => []TokenInv
<1>1. Init => TokenInv
  <2> SUFFICES ASSUME Init PROVE TokenInv
    OBVIOUS
  <2>1. TokenResolvesUsable
    BY DEF Init, TokenResolvesUsable, TokensLeadToSessions
  <2>2. NewUntracked
    BY ConstantsAssumption DEF Init, NewUntracked, ConstantsAssumption
  <2> QED
    BY <2>1, <2>2, InitType DEF TokenInv
<1> QED
  BY <1>1, TokenStep, PTL DEF Spec

\* The assertion in read_connect_packet_data never fails, in every environment.
THEOREM TokensResolve == Spec => []TokenResolvesUsable
<1>1. TokenInv => TokenResolvesUsable
  BY DEF TokenInv
<1> QED
  BY <1>1, TokenInvAlways, PTL

\* A session that was kicked or timed out is never found again, in every environment.
THEOREM DiscardedNeverReturn == Spec => DiscardedForGood
<1>1. TokenInv /\ [Next]_vars => [\A t \in Conn : Discarded(t) => Discarded(t)']_vars
  BY TokenStep
<1> QED
  BY <1>1, TokenInvAlways, PTL DEF Spec, DiscardedForGood

-----------------------------------------------------------------------------
(* Without disturbances: the server notices a loss before the client        *)
(* reconnects, kicked clients fall silent and the console does not kick in  *)
(* the middle of a message.  Then the dictionaries, the timers and the      *)
(* sessions agree, and the sessions own avatars as AvatarOwnership says.    *)

\* What holds of the server's record alone.
Registry(r) ==
    /\ TokensLeadToSessions(r)
    /\ AvatarsLeadToSessions(r)
    /\ SessionsFoundByAvatar(r)

TimersLatest(r) ==
    /\ \A c \in r.timers :
           LET s == r.client[c]
           IN  s \in r.usable /\ r.auth[s] = c /\ r.handle[s] = c
    /\ \A s \in Conn : r.handle[s] # None => r.client[r.handle[s]] = s

(***************************************************************************)
(* The inductive invariant adds what ties the record to the handlers: who  *)
(* is served, what is kept for whom, what a handler that waits for the     *)
(* vault may rely on, and that nobody knows a connection that is to come.  *)
(***************************************************************************)
Served ==
    \A c \in Conn : phase[c] = "running" /\ srv.client[c] \in srv.usable =>
        srv.auth[srv.client[c]] = c

Kept ==
    /\ \A t \in Conn : srv.auth[t] # None =>
           phase[srv.auth[t]] = "running" \/ srv.auth[t] \in srv.timers
    /\ \A c \in srv.timers : phase[c] = "ended"

Switching ==
    \A c \in Conn : switch[c] # Idle =>
        /\ phase[c] = "running"
        /\ srv.client[c] \in srv.usable
        /\ srv.ki[srv.client[c]] = None

NewUnknown ==
    \A c \in Conn : phase[c] = "new" =>
        /\ srv.client[c] = c /\ srv.auth[c] = None /\ srv.ki[c] = None
        /\ srv.handle[c] = None /\ c \notin srv.usable
        /\ \A x \in Conn : srv.client[x] = c => x = c

OrderlyInv ==
    /\ TypeOK /\ Registry(srv) /\ TimersLatest(srv)
    /\ Served /\ Kept /\ Switching /\ NewUnknown

-----------------------------------------------------------------------------
(* The methods, applied to a registered connection.                        *)

\* q is r without session s, its avatar and its clean-up.
Without(q, r, s) ==
    /\ q \in Server
    /\ q.client = r.client /\ q.ki = r.ki /\ q.handle = r.handle
    /\ q.auth = [r.auth EXCEPT ![s] = None]
    /\ q.byKI = IF r.ki[s] = None THEN r.byKI ELSE [r.byKI EXCEPT ![r.ki[s]] = None]

LEMMA WithoutRegistry ==
    ASSUME NEW r \in Server, NEW q \in Server, NEW s \in Conn, Registry(r), r.auth[s] # None,
           Without(q, r, s), q.usable = r.usable \/ q.usable = r.usable \ {s}
    PROVE  Registry(q)
<1>1. TokensLeadToSessions(q)
  BY DEF Registry, Without, TokensLeadToSessions, Server
<1>2. AvatarsLeadToSessions(q)
  <2> SUFFICES ASSUME NEW k \in KI, q.byKI[k] # None
               PROVE  q.auth[q.client[q.byKI[k]]] = q.byKI[k] /\ q.ki[q.client[q.byKI[k]]] = k
    BY DEF AvatarsLeadToSessions
  <2>1. k # r.ki[s] /\ q.byKI[k] = r.byKI[k]
    BY ConstantsAssumption DEF Without, Server, ConstantsAssumption
  <2>2. r.byKI[k] \in Conn /\ r.client[r.byKI[k]] \in Conn
    BY <2>1 DEF Server
  <2>3. r.auth[r.client[r.byKI[k]]] = r.byKI[k] /\ r.ki[r.client[r.byKI[k]]] = k
    BY <2>1 DEF Registry, AvatarsLeadToSessions
  <2> QED
    BY <2>1, <2>2, <2>3 DEF Without, Server
<1>3. SessionsFoundByAvatar(q)
  BY ConstantsAssumption
  DEF Registry, Without, AvatarsLeadToSessions, TokensLeadToSessions, SessionsFoundByAvatar,
      Server, ConstantsAssumption
<1> QED
  BY <1>1, <1>2, <1>3 DEF Registry

LEMMA CleanUpEffect ==
    ASSUME NEW r \in Server, NEW c \in Conn, Registry(r), r.auth[r.client[c]] = c
    PROVE  LET q == CleanUpNow(r, c)
           IN  /\ Without(q, r, r.client[c])
               /\ q.usable = r.usable /\ q.timers = r.timers
               /\ Registry(q)
<1> DEFINE s == r.client[c]
           k == r.ki[s]
           q == CleanUpNow(r, c)
<1>1. /\ s \in Conn /\ s \in r.usable /\ k \in KI \cup {None}
      /\ k # None => r.byKI[k] = c
      /\ r.auth[s] # None
  BY ConstantsAssumption
  DEF Registry, TokensLeadToSessions, SessionsFoundByAvatar, Server, ConstantsAssumption
<1>2. q \in Server
  BY CleanUpNowType
<1>3. q = [(IF k = None THEN [r EXCEPT !.offline = @ \cup OfflineTask(c, k, "cleanup")]
            ELSE [[r EXCEPT !.offline = @ \cup OfflineTask(c, k, "cleanup")]
                    EXCEPT !.byKI[k] = None]) EXCEPT !.auth[s] = None]
  BY <1>1 DEF CleanUpNow
<1>4. Without(q, r, s) /\ q.usable = r.usable /\ q.timers = r.timers
  BY <1>1, <1>2, <1>3 DEF Without, Server
<1> QED
  BY <1>1, <1>2, <1>4, WithoutRegistry

LEMMA KickEffect ==
    ASSUME NEW r \in Server, NEW v \in Conn, NEW setOffline \in BOOLEAN,
           Registry(r), TimersLatest(r), r.auth[r.client[v]] = v
    PROVE  LET q == Kick(r, v, setOffline)
           IN  /\ ~KickRaises(r, v)
               /\ Without(q, r, r.client[v])
               /\ q.usable = r.usable \ {r.client[v]}
               /\ q.timers = r.timers \ {v}
               /\ Registry(q) /\ TimersLatest(q)
<1> DEFINE s == r.client[v]
           k == r.ki[s]
           q == Kick(r, v, setOffline)
<1>1. /\ s \in Conn /\ s \in r.usable /\ k \in KI \cup {None}
      /\ k # None => r.byKI[k] = v
      /\ r.auth[s] = v /\ v # None
  BY ConstantsAssumption
  DEF Registry, TokensLeadToSessions, SessionsFoundByAvatar, Server, ConstantsAssumption
<1>2. ~KickRaises(r, v)
  BY <1>1 DEF KickRaises
<1>3. q \in Server
  BY KickType
<1>4. \A x \in r.timers : x = r.handle[s] \/ r.client[x] = s => x = v
  <2> SUFFICES ASSUME NEW x \in r.timers, x = r.handle[s] \/ r.client[x] = s
               PROVE  x = v
    OBVIOUS
  <2>1. x \in Conn /\ x # None
    BY ConstantsAssumption DEF Server, ConstantsAssumption
  <2>2. r.client[x] = s
    BY <1>1, <2>1 DEF TimersLatest
  <2> QED
    BY <1>1, <2>2 DEF TimersLatest
<1>5. /\ Without(q, r, s)
      /\ q.usable = r.usable \ {s}
      /\ q.timers = IF r.handle[s] = None THEN r.timers ELSE r.timers \ {r.handle[s]}
  <2> DEFINE forgotten == Forget(r, s)
             toSet == IF setOffline THEN k ELSE None
             unusable == [forgotten EXCEPT !.usable = @ \ {s}]
  <2>1. forgotten = [r EXCEPT !.auth = [r.auth EXCEPT ![s] = None],
                              !.byKI = IF k = None THEN r.byKI ELSE [r.byKI EXCEPT ![k] = None]]
    BY DEF Forget, Server
  <2>2. unusable \in Server
    BY <1>1, ForgetType, ZenonT(30) DEF Server
  <2>3. /\ unusable.client = r.client /\ unusable.ki = r.ki /\ unusable.handle = r.handle
        /\ unusable.timers = r.timers /\ unusable.usable = r.usable \ {s}
        /\ unusable.auth = [r.auth EXCEPT ![s] = None]
        /\ unusable.byKI = IF k = None THEN r.byKI ELSE [r.byKI EXCEPT ![k] = None]
    BY <2>1 DEF Server
  <2>4. q = IF r.handle[s] = None
              THEN [unusable EXCEPT !.closing = @ \cup {<<v, toSet>>}]
            ELSE [CancelCleanUp(unusable, s)
                    EXCEPT !.offline = @ \cup OfflineTask(v, toSet, "kick")]
    BY <1>1, <1>2 DEF Kick
  <2> HIDE DEF unusable, q
  <2> QED
    BY <1>3, <2>2, <2>3, <2>4 DEF CancelCleanUp, Without, Server
<1>6. q.timers = r.timers \ {v}
  <2>1. v \in r.timers => r.handle[s] = v
    BY DEF TimersLatest
  <2> HIDE DEF q
  <2> QED
    BY <1>1, <1>4, <1>5, <2>1
<1>7. Registry(q)
  BY <1>1, <1>3, <1>5, WithoutRegistry
<1>8. TimersLatest(q)
  <2> HIDE DEF q
  <2> QED
    BY <1>1, <1>4, <1>5, <1>6 DEF TimersLatest, Without, Server
<1> QED
  BY <1>2, <1>5, <1>6, <1>7, <1>8

\* q is r without the sessions in d; ki and byKI are said elsewhere.
Drops(q, r, d) ==
    /\ q \in Server
    /\ q.client = r.client /\ q.handle = r.handle
    /\ q.auth = [t \in Conn |-> IF t \in d THEN None ELSE r.auth[t]]
    /\ q.usable = r.usable \ d
    /\ q.timers = {x \in r.timers : r.client[x] \notin d}

LEMMA KickDrops ==
    ASSUME NEW r \in Server, NEW v \in Conn, NEW setOffline \in BOOLEAN,
           Registry(r), TimersLatest(r), r.auth[r.client[v]] = v
    PROVE  Drops(Kick(r, v, setOffline), r, {r.client[v]})
<1> DEFINE q == Kick(r, v, setOffline)
<1>1. \A x \in r.timers : r.client[x] = r.client[v] <=> x = v
  BY DEF TimersLatest
<1>2. /\ Without(q, r, r.client[v])
      /\ q.usable = r.usable \ {r.client[v]}
      /\ q.timers = r.timers \ {v}
  BY KickEffect
<1> HIDE DEF q
<1>3. Drops(q, r, {r.client[v]})
  BY <1>1, <1>2 DEF Drops, Without, Server
<1> QED
  BY <1>3 DEF q

\* Taking an avatar ends at most the one session that plays it.
Ousted(r, k) == IF k = None \/ r.byKI[k] = None THEN {} ELSE {r.client[r.byKI[k]]}

Claimed(q, r, s, k) ==
    /\ q.ki = [r.ki EXCEPT ![s] = k]
    /\ \A t \in Ousted(r, k) : t \in Conn /\ r.auth[t] # None /\ r.ki[t] = k

LEMMA ClaimEffect ==
    ASSUME NEW r \in Server, NEW c \in Conn, NEW k \in KI \cup {None},
           Registry(r), TimersLatest(r), r.auth[r.client[c]] = c, r.ki[r.client[c]] = None
    PROVE  /\ ~ClaimRaises(r, k)
           /\ Drops(Claim(r, c, k), r, Ousted(r, k))
           /\ Claimed(Claim(r, c, k), r, r.client[c], k)
           /\ Registry(Claim(r, c, k)) /\ TimersLatest(Claim(r, c, k))
<1> DEFINE s == r.client[c]
           q == Claim(r, c, k)
           v == r.byKI[k]
           kicked == IF v = None THEN r ELSE Kick(r, v, FALSE)
           d == IF v = None THEN {} ELSE {r.client[v]}
<1>1. CASE k = None
  <2>1. q = r /\ ~ClaimRaises(r, k)
    BY <1>1 DEF Claim, ClaimRaises
  <2>2. Drops(r, r, {}) /\ r.ki = [r.ki EXCEPT ![s] = k]
    BY <1>1 DEF Drops, Server
  <2> HIDE DEF q
  <2> QED
    BY <1>1, <2>1, <2>2 DEF q, Ousted, Claimed
<1>2. CASE k # None
  <2>1. k \in KI /\ v \in Conn \cup {None} /\ s \in Conn /\ c # None /\ k # None
    BY <1>2, ConstantsAssumption DEF Server, ConstantsAssumption
  <2>2. CASE v = None
    <3>1. ~ClaimRaises(r, k)
      BY <2>2 DEF ClaimRaises
    <3>2. q = [r EXCEPT !.ki[s] = k, !.byKI[k] = c]
      BY <1>2, <2>2, <3>1 DEF Claim
    <3>3. q \in Server
      BY ClaimType
    <3>4. Drops(q, r, {})
      BY <3>2, <3>3 DEF Drops, Server
    <3>5. q.ki = [r.ki EXCEPT ![s] = k] /\ q.byKI = [r.byKI EXCEPT ![k] = c]
      BY <2>1, <3>2 DEF Server
    <3> HIDE DEF q
    <3>6. TokensLeadToSessions(q)
      BY <3>4 DEF Drops, Registry, TokensLeadToSessions, Server
    <3>7. AvatarsLeadToSessions(q)
      <4> SUFFICES ASSUME NEW j \in KI, q.byKI[j] # None
                   PROVE  q.auth[q.client[q.byKI[j]]] = q.byKI[j] /\ q.ki[q.client[q.byKI[j]]] = j
        BY DEF AvatarsLeadToSessions
      <4>1. CASE j = k
        BY <2>1, <3>4, <3>5, <4>1 DEF Drops, Server
      <4>2. CASE j # k
        <5>1. q.byKI[j] = r.byKI[j] /\ r.byKI[j] \in Conn /\ r.client[r.byKI[j]] \in Conn
          BY <3>5, <4>2 DEF Server
        <5>2. r.auth[r.client[r.byKI[j]]] = r.byKI[j] /\ r.ki[r.client[r.byKI[j]]] = j
          BY <5>1 DEF Registry, AvatarsLeadToSessions
        <5>3. r.client[r.byKI[j]] # s
          BY <5>2, ConstantsAssumption DEF ConstantsAssumption
        <5> QED
          BY <3>4, <3>5, <5>1, <5>2, <5>3 DEF Drops, Server
      <4> QED
        BY <4>1, <4>2
    <3>8. SessionsFoundByAvatar(q)
      <4> SUFFICES ASSUME NEW t \in Conn, q.auth[t] # None, q.ki[t] # None
                   PROVE  q.byKI[q.ki[t]] = q.auth[t]
        BY DEF SessionsFoundByAvatar
      <4>1. CASE t = s
        BY <2>1, <3>4, <3>5, <4>1 DEF Drops, Server
      <4>2. CASE t # s
        <5>1. q.ki[t] = r.ki[t] /\ q.auth[t] = r.auth[t] /\ r.ki[t] \in KI
          BY <3>4, <3>5, <4>2 DEF Drops, Server
        <5>2. r.byKI[r.ki[t]] = r.auth[t]
          BY <5>1 DEF Registry, SessionsFoundByAvatar
        <5>3. r.ki[t] # k
          BY <2>2, <5>1, <5>2
        <5> QED
          BY <3>5, <5>1, <5>2, <5>3 DEF Server
      <4> QED
        BY <4>1, <4>2
    <3>9. TimersLatest(q)
      <4>1. /\ q.client = r.client /\ q.handle = r.handle /\ q.auth = r.auth
            /\ q.usable = r.usable /\ q.timers = r.timers
        BY <3>4 DEF Drops, Server
      <4> QED
        BY <4>1 DEF TimersLatest
    <3> QED
      BY <1>2, <2>1, <2>2, <3>1, <3>4, <3>5, <3>6, <3>7, <3>8, <3>9
      DEF Registry, q, Ousted, Claimed
  <2>3. CASE v # None
    <3> DEFINE w == r.client[v]
    <3>1. v \in Conn /\ w \in Conn /\ r.auth[w] = v /\ r.ki[w] = k /\ w # s
      BY <2>1, <2>3 DEF Registry, AvatarsLeadToSessions, Server
    <3>2. ~ClaimRaises(r, k)
      BY <3>1, KickEffect DEF ClaimRaises
    <3> DEFINE u == Kick(r, v, FALSE)
    <3>3. /\ Without(u, r, w) /\ Drops(u, r, {w})
          /\ Registry(u) /\ TimersLatest(u)
      BY <3>1, KickEffect, KickDrops
    <3>4. q = [u EXCEPT !.ki[s] = k, !.byKI[k] = c]
      BY <1>2, <2>3, <3>2 DEF Claim
    <3> HIDE DEF u
    <3>5. /\ u \in Server /\ u.client = r.client /\ u.ki = r.ki
          /\ u.byKI = [r.byKI EXCEPT ![k] = None]
      BY <2>1, <3>1, <3>3 DEF Without
    <3>6. q \in Server
      BY ClaimType
    <3>7. /\ q.client = u.client /\ q.handle = u.handle /\ q.auth = u.auth
          /\ q.usable = u.usable /\ q.timers = u.timers
          /\ q.ki = [r.ki EXCEPT ![s] = k] /\ q.byKI = [r.byKI EXCEPT ![k] = c]
      BY <2>1, <3>4, <3>5 DEF Server
    <3> HIDE DEF q
    <3>8. Drops(q, r, {w})
      BY <3>3, <3>6, <3>7 DEF Drops
    <3>9. q.auth[s] = c /\ u.auth[s] = c
      BY <2>1, <3>1, <3>8, <3>7 DEF Drops
    <3>10. TokensLeadToSessions(q)
      BY <3>3, <3>7 DEF Registry, TokensLeadToSessions
    <3>11. AvatarsLeadToSessions(q)
      <4> SUFFICES ASSUME NEW j \in KI, q.byKI[j] # None
                   PROVE  q.auth[q.client[q.byKI[j]]] = q.byKI[j] /\ q.ki[q.client[q.byKI[j]]] = j
        BY DEF AvatarsLeadToSessions
      <4>1. CASE j = k
        BY <2>1, <3>5, <3>7, <3>9, <4>1 DEF Server
      <4>2. CASE j # k
        <5>1. q.byKI[j] = u.byKI[j] /\ u.byKI[j] \in Conn /\ u.client[u.byKI[j]] \in Conn
          BY <3>5, <3>7, <4>2 DEF Server
        <5>2. u.auth[u.client[u.byKI[j]]] = u.byKI[j] /\ u.ki[u.client[u.byKI[j]]] = j
          BY <3>3, <5>1 DEF Registry, AvatarsLeadToSessions
        <5>3. u.client[u.byKI[j]] # s
          BY <3>5, <5>2, ConstantsAssumption DEF ConstantsAssumption
        <5> QED
          BY <3>5, <3>7, <5>1, <5>2, <5>3 DEF Server
      <4> QED
        BY <4>1, <4>2
    <3>12. SessionsFoundByAvatar(q)
      <4> SUFFICES ASSUME NEW t \in Conn, q.auth[t] # None, q.ki[t] # None
                   PROVE  q.byKI[q.ki[t]] = q.auth[t]
        BY DEF SessionsFoundByAvatar
      <4>1. CASE t = s
        BY <2>1, <3>5, <3>7, <3>9, <4>1 DEF Server
      <4>2. CASE t # s
        <5>1. q.ki[t] = u.ki[t] /\ q.auth[t] = u.auth[t] /\ u.ki[t] \in KI
          BY <3>5, <3>7, <4>2 DEF Server
        <5>2. u.byKI[u.ki[t]] = u.auth[t]
          BY <3>3, <5>1 DEF Registry, SessionsFoundByAvatar
        <5>3. u.ki[t] # k
          BY <2>1, <3>5, <3>7, <5>1, <5>2 DEF Server
        <5> QED
          BY <3>5, <3>7, <5>1, <5>2, <5>3 DEF Server
      <4> QED
        BY <4>1, <4>2
    <3>13. TimersLatest(q)
      BY <3>3, <3>7 DEF TimersLatest
    <3> QED
      BY <1>2, <2>1, <2>3, <3>1, <3>2, <3>7, <3>8, <3>10, <3>11, <3>12, <3>13
      DEF Registry, q, Ousted, Claimed
  <2> QED
    BY <2>2, <2>3
<1> QED
  BY <1>1, <1>2

-----------------------------------------------------------------------------
(* The steps.                                                              *)

LEMMA OrderlyUnchanged ==
    ASSUME OrderlyInv, TypeOK', phase' = phase, switch' = switch,
           srv'.client = srv.client, srv'.usable = srv.usable, srv'.ki = srv.ki,
           srv'.handle = srv.handle, srv'.timers = srv.timers, srv'.auth = srv.auth,
           srv'.byKI = srv.byKI
    PROVE  OrderlyInv'
BY DEF OrderlyInv, Registry, TokensLeadToSessions, AvatarsLeadToSessions, SessionsFoundByAvatar,
       TimersLatest, Served, Kept, Switching, NewUnknown

\* A session goes, with its connection's handler or after it.
LEMMA OrderlyWithout ==
    ASSUME OrderlyInv, TypeOK', NEW c \in Conn, srv.auth[srv.client[c]] = c,
           Without(srv', srv, srv.client[c]), srv'.usable = srv.usable,
           srv'.timers = srv.timers \ {c}, Registry(srv'), phase[c] # "new",
           phase' = [phase EXCEPT ![c] = "ended"],
           switch' = [switch EXCEPT ![c] = Idle]
    PROVE  OrderlyInv'
<1> DEFINE s == srv.client[c]
<1> USE DEF TypeOK, Server, OrderlyInv
<1>1. s \in Conn /\ c # None
  BY ConstantsAssumption DEF ConstantsAssumption
<1>2. /\ srv'.client = srv.client /\ srv'.ki = srv.ki /\ srv'.handle = srv.handle
      /\ srv'.auth = [srv.auth EXCEPT ![s] = None]
  BY DEF Without
<1>3. TimersLatest(srv')
  BY <1>1, <1>2 DEF TimersLatest
<1>4. Served'
  BY <1>1, <1>2 DEF Served
<1>5. Kept'
  BY <1>1, <1>2 DEF Kept, Registry, TokensLeadToSessions
<1>6. Switching'
  BY <1>1, <1>2 DEF Switching, Idle
<1>7. NewUnknown'
  BY <1>1, <1>2 DEF NewUnknown
<1> QED
  BY <1>3, <1>4, <1>5, <1>6, <1>7

LEMMA OrderlyEnd ==
    ASSUME OrderlyInv, TypeOK', NEW c \in Conn, phase[c] \in {"new", "running"}, End(c, srv)
    PROVE  OrderlyInv'
<1> DEFINE s == srv.client[c]
<1> USE DEF TypeOK, OrderlyInv
<1>0. /\ phase' = [phase EXCEPT ![c] = "ended"]
      /\ switch' = [switch EXCEPT ![c] = Idle]
      /\ srv' = HandleDisconnect(srv, c)
      /\ s \in Conn /\ srv \in Server /\ c # None
  BY ConstantsAssumption DEF End, Server, ConstantsAssumption
<1>1. CASE s \notin srv.usable
  <2>1. srv' = srv
    BY <1>0, <1>1 DEF HandleDisconnect
  <2>2. Served' /\ Kept' /\ Switching' /\ NewUnknown'
    <3>1. Served'
      BY <1>0, <2>1 DEF Served
    <3>2. Kept'
      BY <1>0, <1>1, <2>1 DEF Kept, Registry, TokensLeadToSessions
    <3>3. Switching'
      BY <1>0, <2>1 DEF Switching, Idle
    <3>4. NewUnknown'
      BY <1>0, <2>1 DEF NewUnknown
    <3> QED
      BY <3>1, <3>2, <3>3, <3>4
  <2> QED
    BY <2>1, <2>2
<1>2. CASE s \in srv.usable
  <2>1. phase[c] = "running" /\ srv.auth[s] = c /\ c \notin srv.timers
    BY <1>2 DEF NewUnknown, Served, Kept
  <2>2. CASE KeepState
    <3>1. srv' = [srv EXCEPT !.timers = @ \cup {c}, !.handle[s] = c]
      BY <1>0, <1>2, <2>2 DEF HandleDisconnect
    <3>2. /\ srv'.client = srv.client /\ srv'.ki = srv.ki /\ srv'.usable = srv.usable
          /\ srv'.auth = srv.auth /\ srv'.byKI = srv.byKI
          /\ srv'.timers = srv.timers \cup {c}
          /\ srv'.handle = [srv.handle EXCEPT ![s] = c]
      BY <1>0, <3>1 DEF Server
    <3>3. Registry(srv')
      BY <3>2 DEF Registry, TokensLeadToSessions, AvatarsLeadToSessions, SessionsFoundByAvatar
    <3>4. TimersLatest(srv')
      BY <1>0, <1>2, <2>1, <3>2 DEF TimersLatest, Server
    <3>5. Served'
      BY <1>0, <3>2 DEF Served
    <3>6. Kept'
      BY <1>0, <3>2 DEF Kept, Server
    <3>7. Switching'
      BY <1>0, <3>2 DEF Switching, Idle
    <3>8. NewUnknown'
      BY <1>0, <2>1, <3>2 DEF NewUnknown, Server
    <3> QED
      BY <3>3, <3>4, <3>5, <3>6, <3>7, <3>8
  <2>3. CASE ~KeepState
    <3>1. srv' = CleanUpNow(srv, c)
      BY <1>0, <1>2, <2>3 DEF HandleDisconnect
    <3>2. /\ Without(srv', srv, s) /\ srv'.usable = srv.usable
          /\ srv'.timers = srv.timers /\ Registry(srv')
      BY <1>0, <2>1, <3>1, CleanUpEffect
    <3>3. srv.timers = srv.timers \ {c}
      BY <2>1
    <3> QED
      BY <1>0, <2>1, <3>2, <3>3, OrderlyWithout
  <2> QED
    BY <2>2, <2>3
<1> QED
  BY <1>1, <1>2

\* A connection that is served takes an avatar, or none.
LEMMA OrderlyClaim ==
    ASSUME OrderlyInv, TypeOK', NEW c \in Conn, NEW k \in KI \cup {None},
           phase[c] = "running", srv.client[c] \in srv.usable, srv.ki[srv.client[c]] = None,
           phase' = phase, switch' = [switch EXCEPT ![c] = Idle]
    PROVE  srv' = Claim(srv, c, k) => OrderlyInv'
<1> DEFINE s == srv.client[c]
           d == Ousted(srv, k)
           q == Claim(srv, c, k)
<1>0. srv \in Server /\ Registry(srv) /\ TimersLatest(srv) /\ Served
  BY DEF TypeOK, OrderlyInv
<1>1. s \in Conn /\ srv \in Server /\ srv.auth[s] = c /\ c # None
  BY <1>0, ConstantsAssumption DEF Served, Server, ConstantsAssumption
<1>a. Drops(q, srv, d) /\ Claimed(q, srv, s, k) /\ Registry(q) /\ TimersLatest(q)
  BY <1>0, <1>1, ClaimEffect
<1>b. k # None \/ d = {}
  BY DEF Ousted
<1> SUFFICES ASSUME srv' = q
             PROVE  OrderlyInv'
  OBVIOUS
<1> HIDE DEF q
<1>2. /\ Drops(srv', srv, d)
      /\ srv'.ki = [srv.ki EXCEPT ![s] = k]
      /\ \A t \in d : t \in Conn /\ srv.auth[t] # None /\ srv.ki[t] = k
      /\ k # None \/ d = {}
      /\ Registry(srv') /\ TimersLatest(srv')
  BY <1>a, <1>b DEF Claimed
<1> HIDE DEF d
<1> USE DEF TypeOK, OrderlyInv
<1>3. /\ srv'.client = srv.client /\ srv'.handle = srv.handle
      /\ srv'.auth = [t \in Conn |-> IF t \in d THEN None ELSE srv.auth[t]]
      /\ srv'.usable = srv.usable \ d
      /\ srv'.timers = {x \in srv.timers : srv.client[x] \notin d}
  BY <1>2 DEF Drops
<1>4. Served'
  BY <1>1, <1>3 DEF Served, Server
<1>5. Kept'
  <2>1. ASSUME NEW t \in Conn, srv'.auth[t] # None
        PROVE  phase[srv.auth[t]] = "running" \/ srv.auth[t] \in srv'.timers
    <3>1. t \notin d /\ srv.auth[t] # None /\ srv.client[srv.auth[t]] = t
      BY <1>3, <2>1 DEF Registry, TokensLeadToSessions
    <3> QED
      BY <1>3, <3>1 DEF Kept
  <2>2. \A t \in Conn : srv'.auth[t] # None => srv'.auth[t] = srv.auth[t]
    BY <1>3
  <2> QED
    BY <1>3, <2>1, <2>2 DEF Kept
<1>6. Switching'
  <2> SUFFICES ASSUME NEW x \in Conn, switch'[x] # Idle
               PROVE  /\ phase[x] = "running"
                      /\ srv'.client[x] \in srv'.usable
                      /\ srv'.ki[srv'.client[x]] = None
    BY DEF Switching
  <2>1. x # c /\ switch[x] # Idle
    BY DEF Idle
  <2>2. /\ phase[x] = "running" /\ srv.client[x] \in srv.usable
        /\ srv.ki[srv.client[x]] = None /\ srv.client[x] \in Conn
    BY <1>1, <2>1 DEF Switching, Server
  <2>3. srv.client[x] # s
    BY <1>1, <2>1, <2>2 DEF Served
  <2>4. srv.client[x] \notin d
    BY <1>2, <2>2
  <2> QED
    BY <1>2, <1>3, <2>2, <2>3, <2>4 DEF Server
<1>7. NewUnknown'
  <2> SUFFICES ASSUME NEW x \in Conn, phase[x] = "new"
               PROVE  /\ srv'.client[x] = x /\ srv'.auth[x] = None /\ srv'.ki[x] = None
                      /\ srv'.handle[x] = None /\ x \notin srv'.usable
                      /\ \A y \in Conn : srv'.client[y] = x => y = x
    BY DEF NewUnknown
  <2>1. /\ srv.client[x] = x /\ srv.auth[x] = None /\ srv.ki[x] = None
        /\ srv.handle[x] = None /\ x \notin srv.usable
        /\ \A y \in Conn : srv.client[y] = x => y = x
    BY DEF NewUnknown
  <2> QED
    BY <1>1, <1>2, <1>3, <2>1 DEF Server
<1> QED
  BY <1>2, <1>4, <1>5, <1>6, <1>7

\* Whoever reconnects finds a session whose clean-up is scheduled, or none.
LEMMA OrderlyReconnect ==
    ASSUME Disturbances = {}, OrderlyInv, TypeOK', NEW c \in Conn, NEW t \in Conn,
           Reconnect(c, t)
    PROVE  OrderlyInv'
<1> DEFINE p == srv.auth[t]
           s == srv.client[p]
           joined == [srv EXCEPT !.client[c] = s]
<1> USE DEF TypeOK, OrderlyInv
<1>1. phase[c] = "new" /\ c # t /\ c # None /\ srv \in Server
  BY ConstantsAssumption DEF Reconnect, ConstantsAssumption
<1>2. CASE p = None \/ s \notin srv.usable
  <2>1. End(c, srv)
    BY <1>2 DEF Reconnect
  <2> QED
    BY <1>1, <2>1, OrderlyEnd
<1>3. CASE ~(p = None \/ s \notin srv.usable)
  <2>1. s = t /\ t \in srv.usable /\ p \in Conn /\ p # None
    BY <1>1, <1>3 DEF Registry, TokensLeadToSessions, Server
  <2>2. \A x \in Conn : srv.client[x] = t => phase[x] # "running"
    BY DEF Reconnect, ClientReconnects
  <2>3. p \in srv.timers /\ srv.handle[t] = p
    BY <2>1, <2>2 DEF Kept, TimersLatest
  <2>4. p # c
    BY <1>1, <2>3 DEF Kept
  <2>5. /\ srv' = [CancelCleanUp(joined, s)
                     EXCEPT !.auth[t] = c,
                            !.byKI = IF srv.ki[s] = None THEN @
                                     ELSE [@ EXCEPT ![srv.ki[s]] = c]]
        /\ phase' = [phase EXCEPT ![c] = "running"]
        /\ switch' = switch
    BY <1>3, <2>1, <2>3 DEF Reconnect
  <2>6. /\ srv'.client = [srv.client EXCEPT ![c] = t]
        /\ srv'.usable = srv.usable /\ srv'.ki = srv.ki /\ srv'.handle = srv.handle
        /\ srv'.timers = srv.timers \ {p}
        /\ srv'.auth = [srv.auth EXCEPT ![t] = c]
        /\ srv'.byKI = IF srv.ki[t] = None THEN srv.byKI ELSE [srv.byKI EXCEPT ![srv.ki[t]] = c]
    BY <1>1, <2>1, <2>3, <2>5 DEF CancelCleanUp, Server
  <2>7. /\ srv.client[c] = c /\ srv.auth[c] = None /\ srv.ki[c] = None
        /\ srv.handle[c] = None /\ c \notin srv.usable
        /\ \A x \in Conn : srv.client[x] = c => x = c
    BY <1>1 DEF NewUnknown
  <2> HIDE DEF p, s, joined
  <2>8. TokensLeadToSessions(srv')
    BY <1>1, <2>1, <2>6, <2>7 DEF Registry, TokensLeadToSessions, Server
  <2>9. AvatarsLeadToSessions(srv')
    <3> SUFFICES ASSUME NEW k \in KI, srv'.byKI[k] # None
                 PROVE  /\ srv'.auth[srv'.client[srv'.byKI[k]]] = srv'.byKI[k]
                        /\ srv'.ki[srv'.client[srv'.byKI[k]]] = k
      BY DEF AvatarsLeadToSessions
    <3>1. CASE srv.ki[t] = k
      <4>1. srv'.byKI[k] = c
        BY <1>1, <2>6, <3>1, ConstantsAssumption DEF Server, ConstantsAssumption
      <4> QED
        BY <1>1, <2>6, <3>1, <4>1 DEF Server
    <3>2. CASE srv.ki[t] # k
      <4> DEFINE v == srv.byKI[k]
      <4>1. srv'.byKI[k] = v /\ v \in Conn /\ v # None
        BY <1>1, <2>6, <3>2 DEF Server
      <4>2. srv.auth[srv.client[v]] = v /\ srv.ki[srv.client[v]] = k /\ srv.client[v] \in Conn
        BY <1>1, <4>1 DEF Registry, AvatarsLeadToSessions, Server
      <4>3. srv.client[v] # t /\ v # c
        BY <1>1, <2>7, <3>2, <4>2
      <4> QED
        BY <1>1, <2>6, <4>1, <4>2, <4>3 DEF Server
    <3> QED
      BY <3>1, <3>2
  <2>10. SessionsFoundByAvatar(srv')
    <3> SUFFICES ASSUME NEW x \in Conn, srv'.auth[x] # None, srv'.ki[x] # None
                 PROVE  srv'.byKI[srv'.ki[x]] = srv'.auth[x]
      BY DEF SessionsFoundByAvatar
    <3>1. CASE x = t
      BY <1>1, <2>6, <3>1 DEF Server
    <3>2. CASE x # t
      <4>1. srv'.auth[x] = srv.auth[x] /\ srv.ki[x] \in KI /\ srv'.ki[x] = srv.ki[x]
        BY <1>1, <2>6, <3>2 DEF Server
      <4>2. srv.byKI[srv.ki[x]] = srv.auth[x]
        BY <4>1 DEF Registry, SessionsFoundByAvatar
      <4>3. srv.ki[x] # srv.ki[t]
        <5>1. srv.client[srv.auth[x]] = x /\ srv.client[srv.auth[t]] = t
          BY <2>1, <4>1 DEF Registry, TokensLeadToSessions, p
        <5>2. srv.ki[t] # None => srv.byKI[srv.ki[t]] = srv.auth[t]
          BY <2>1 DEF Registry, SessionsFoundByAvatar, p
        <5> QED
          BY <3>2, <4>1, <4>2, <5>1, <5>2, ConstantsAssumption DEF ConstantsAssumption
      <4> QED
        BY <1>1, <2>6, <4>1, <4>2, <4>3 DEF Server
    <3> QED
      BY <3>1, <3>2
  <2>11. TimersLatest(srv')
    <3>1. \A x \in srv.timers \ {p} : x \in Conn /\ x # c /\ srv.client[x] # t
      BY <1>1 DEF Kept, TimersLatest, p, Server
    <3>2. \A x \in srv'.timers :
            /\ srv'.client[x] \in srv'.usable
            /\ srv'.auth[srv'.client[x]] = x
            /\ srv'.handle[srv'.client[x]] = x
      BY <1>1, <2>6, <3>1 DEF TimersLatest, Server
    <3>3. \A x \in Conn : srv.handle[x] # None => srv.handle[x] # c
      BY <2>7 DEF TimersLatest
    <3>4. \A x \in Conn : srv'.handle[x] # None => srv'.client[srv'.handle[x]] = x
      BY <1>1, <2>6, <3>3 DEF TimersLatest, Server
    <3> QED
      BY <3>2, <3>4 DEF TimersLatest
  <2>12. Served'
    BY <1>1, <2>2, <2>5, <2>6 DEF Served, Server
  <2>13. Kept'
    <3>1. \A x \in Conn : srv'.auth[x] # None =>
              phase'[srv'.auth[x]] = "running" \/ srv'.auth[x] \in srv'.timers
      <4> SUFFICES ASSUME NEW x \in Conn, x # t, srv.auth[x] # None
                   PROVE  phase'[srv.auth[x]] = "running" \/ srv.auth[x] \in srv.timers \ {p}
        BY <1>1, <2>5, <2>6, SMTT(30) DEF Server
      <4>1. srv.auth[x] # p
        BY <2>1 DEF Registry, TokensLeadToSessions, p
      <4>2. srv.auth[x] \in Conn
        BY <1>1 DEF Server
      <4> QED
        BY <1>1, <2>5, <4>1, <4>2 DEF Kept
    <3>2. \A x \in srv'.timers : phase'[x] = "ended"
      BY <1>1, <2>5, <2>6 DEF Kept, Server
    <3> QED
      BY <3>1, <3>2 DEF Kept
  <2>14. Switching'
    BY <1>1, <2>5, <2>6 DEF Switching, Server
  <2>15. NewUnknown'
    BY <1>1, <2>1, <2>5, <2>6 DEF NewUnknown, Server
  <2> QED
    BY <2>8, <2>9, <2>10, <2>11, <2>12, <2>13, <2>14, <2>15 DEF Registry
<1> QED
  BY <1>2, <1>3

LEMMA OrderlyConnect ==
    ASSUME OrderlyInv, TypeOK', NEW c \in Conn, Connect(c)
    PROVE  OrderlyInv'
<1> USE DEF TypeOK, OrderlyInv, Server
<1>1. /\ phase[c] = "new" /\ c # None
      /\ phase' = [phase EXCEPT ![c] = "running"] /\ switch' = switch
      /\ srv'.client = srv.client /\ srv'.ki = srv.ki /\ srv'.handle = srv.handle
      /\ srv'.timers = srv.timers /\ srv'.byKI = srv.byKI
      /\ srv'.usable = srv.usable \cup {c}
      /\ srv'.auth = [srv.auth EXCEPT ![c] = c]
  BY ConstantsAssumption DEF Connect, ConstantsAssumption
<1>2. /\ srv.client[c] = c /\ srv.auth[c] = None /\ srv.ki[c] = None
      /\ srv.handle[c] = None /\ c \notin srv.usable
      /\ \A x \in Conn : srv.client[x] = c => x = c
  BY <1>1 DEF NewUnknown
<1>3. Registry(srv')
  BY <1>1, <1>2
  DEF Registry, TokensLeadToSessions, AvatarsLeadToSessions, SessionsFoundByAvatar
<1>4. TimersLatest(srv')
  BY <1>1, <1>2 DEF TimersLatest
<1>5. Served' /\ Kept'
  BY <1>1, <1>2 DEF Served, Kept
<1>6. Switching'
  BY <1>1, <1>2 DEF Switching
<1>7. NewUnknown'
  BY <1>1, <1>2 DEF NewUnknown
<1> QED
  BY <1>3, <1>4, <1>5, <1>6, <1>7

LEMMA OrderlySetPlayer ==
    ASSUME Disturbances = {}, OrderlyInv, TypeOK', NEW c \in Conn, NEW k \in KI \cup {None},
           SetPlayer(c, k)
    PROVE  OrderlyInv'
<1> DEFINE s == srv.client[c]
           p == srv.ki[s]
<1>1. /\ srv \in Server /\ s \in Conn /\ p \in KI \cup {None} /\ c # None
      /\ Registry(srv) /\ TimersLatest(srv) /\ Served /\ phase[c] = "running"
  BY ConstantsAssumption DEF SetPlayer, OrderlyInv, TypeOK, Server, ConstantsAssumption
<1>2. s \in srv.usable /\ srv.auth[s] = c
  BY <1>1 DEF SetPlayer, MayTalk, Served
<1>3. CASE p = None
  <2>1. ~ClaimRaises(srv, k)
    BY <1>1, <1>2, <1>3, ClaimEffect
  <2>2. srv' = Claim(srv, c, k) /\ phase' = phase /\ switch' = switch /\ switch[c] = Idle
    BY <1>3, <2>1 DEF SetPlayer
  <2>3. switch' = [switch EXCEPT ![c] = Idle]
    BY <2>2 DEF OrderlyInv, TypeOK
  <2> QED
    BY <1>1, <1>2, <1>3, <2>2, <2>3, OrderlyClaim
<1>4. CASE p # None
  <2>1. p \in KI /\ srv.byKI[p] = c
    BY <1>1, <1>2, <1>4 DEF Registry, SessionsFoundByAvatar
  <2>2. /\ srv' = [srv EXCEPT !.byKI[p] = None, !.ki[s] = None]
        /\ switch' = [switch EXCEPT ![c] = [stage |-> "vault", from |-> p, to |-> k]]
        /\ phase' = phase
    BY <1>1, <1>4, <2>1 DEF SetPlayer
  <2>3. /\ srv'.client = srv.client /\ srv'.usable = srv.usable /\ srv'.auth = srv.auth
        /\ srv'.handle = srv.handle /\ srv'.timers = srv.timers
        /\ srv'.byKI = [srv.byKI EXCEPT ![p] = None]
        /\ srv'.ki = [srv.ki EXCEPT ![s] = None]
    BY <1>1, <2>2 DEF Server
  <2> USE DEF OrderlyInv, TypeOK, Server
  <2>4. Registry(srv')
    <3>1. TokensLeadToSessions(srv')
      BY <2>3 DEF Registry, TokensLeadToSessions
    <3>2. AvatarsLeadToSessions(srv')
      <4> SUFFICES ASSUME NEW j \in KI, srv'.byKI[j] # None
                   PROVE  /\ srv'.auth[srv'.client[srv'.byKI[j]]] = srv'.byKI[j]
                          /\ srv'.ki[srv'.client[srv'.byKI[j]]] = j
        BY DEF AvatarsLeadToSessions
      <4>1. j # p /\ srv'.byKI[j] = srv.byKI[j]
        BY <2>1, <2>3
      <4>2. srv.auth[srv.client[srv.byKI[j]]] = srv.byKI[j] /\ srv.ki[srv.client[srv.byKI[j]]] = j
        BY <4>1 DEF Registry, AvatarsLeadToSessions
      <4> QED
        BY <1>1, <2>3, <4>1, <4>2
    <3>3. SessionsFoundByAvatar(srv')
      <4> SUFFICES ASSUME NEW t \in Conn, srv'.auth[t] # None, srv'.ki[t] # None
                   PROVE  srv'.byKI[srv'.ki[t]] = srv'.auth[t]
        BY DEF SessionsFoundByAvatar
      <4>1. t # s /\ srv'.ki[t] = srv.ki[t] /\ srv.auth[t] # None
        BY <1>1, <2>3
      <4>2. srv.byKI[srv.ki[t]] = srv.auth[t] /\ srv.client[srv.auth[t]] = t
        BY <4>1 DEF Registry, SessionsFoundByAvatar, TokensLeadToSessions
      <4>3. srv.ki[t] # p
        BY <1>1, <2>1, <4>1, <4>2
      <4> QED
        BY <2>3, <4>1, <4>2, <4>3
    <3> QED
      BY <3>1, <3>2, <3>3 DEF Registry
  <2>5. TimersLatest(srv')
    BY <1>1, <2>3 DEF TimersLatest
  <2>6. Served' /\ Kept'
    BY <2>2, <2>3 DEF Served, Kept
  <2>7. Switching'
    BY <1>1, <1>2, <2>2, <2>3 DEF Switching
  <2>8. NewUnknown'
    BY <1>1, <1>2, <2>2, <2>3 DEF NewUnknown
  <2> QED
    BY <2>4, <2>5, <2>6, <2>7, <2>8
<1> QED
  BY <1>3, <1>4

LEMMA OrderlyStep ==
    ASSUME Disturbances = {}, OrderlyInv, [Next]_vars
    PROVE  OrderlyInv'
<1>0. TypeOK /\ TypeOK' /\ srv \in Server
  BY TypeStep DEF OrderlyInv, TypeOK
<1>1. CASE UNCHANGED vars
  BY <1>0, <1>1, OrderlyUnchanged DEF vars
<1>2. ASSUME NEW c \in Conn, Connect(c) PROVE OrderlyInv'
  BY <1>0, <1>2, OrderlyConnect
<1>3. ASSUME NEW c \in Conn, NEW t \in Conn, Reconnect(c, t) PROVE OrderlyInv'
  BY <1>0, <1>3, OrderlyReconnect
<1>4. ASSUME NEW c \in Conn, Lose(c) \/ GoOnline(c) PROVE OrderlyInv'
  BY <1>0, <1>4, OrderlyUnchanged DEF Lose, GoOnline
<1>5. ASSUME NEW c \in Conn, HandlerEnds(c) PROVE OrderlyInv'
  BY <1>0, <1>5, OrderlyEnd DEF HandlerEnds
<1>6. ASSUME NEW c \in Conn, NEW k \in KI \cup {None}, SetPlayer(c, k) PROVE OrderlyInv'
  BY <1>0, <1>6, OrderlySetPlayer
<1>7. ASSUME NEW c \in Conn, SwitchVault(c) PROVE OrderlyInv'
  <2>1. phase[c] = "running" /\ srv.client[c] \in srv.usable /\ srv.ki[srv.client[c]] = None
    BY <1>7 DEF SwitchVault, OrderlyInv, Switching, Idle
  <2>2. CASE switch[c].from \notin Avatar
    BY <1>0, <1>7, <2>1, <2>2, OrderlyEnd DEF SwitchVault
  <2>3. CASE switch[c].from \in Avatar
    <3>1. srv' = srv /\ phase' = phase /\ switch' = [switch EXCEPT ![c].stage = "resume"]
      BY <1>7, <2>3 DEF SwitchVault
    <3>2. switch[c].from # None /\ switch[c] # Idle
      BY <1>0, <2>3, ConstantsAssumption DEF ConstantsAssumption, Idle
    <3>3. Switching'
      BY <1>0, <2>1, <3>1, <3>2 DEF OrderlyInv, TypeOK, Switching
    <3> QED
      BY <1>0, <3>1, <3>3 DEF OrderlyInv, Served, Kept, NewUnknown
  <2> QED
    BY <2>2, <2>3
<1>8. ASSUME NEW c \in Conn, SwitchResume(c) PROVE OrderlyInv'
  <2> DEFINE k == switch[c].to
  <2>1. phase[c] = "running" /\ srv.client[c] \in srv.usable /\ srv.ki[srv.client[c]] = None
    BY <1>8 DEF SwitchResume, OrderlyInv, Switching, Idle
  <2>2. k \in KI \cup {None}
    BY <1>0 DEF TypeOK
  <2>3. srv.auth[srv.client[c]] = c /\ Registry(srv) /\ TimersLatest(srv)
    BY <2>1 DEF OrderlyInv, Served
  <2>4. ~ClaimRaises(srv, k)
    BY <1>0, <2>1, <2>2, <2>3, ClaimEffect
  <2>5. srv' = Claim(srv, c, k) /\ phase' = phase /\ switch' = [switch EXCEPT ![c] = Idle]
    BY <1>8, <2>4 DEF SwitchResume
  <2> HIDE DEF k
  <2> QED
    BY <1>0, <2>1, <2>2, <2>5, OrderlyClaim
<1>9. ASSUME NEW c \in Conn, ConsoleKick(c) PROVE OrderlyInv'
  <2> DEFINE s == srv.client[c]
  <2>1. PICK t \in Conn : srv.auth[t] = c
    BY <1>9 DEF ConsoleKick
  <2>2. /\ s = t /\ srv.auth[s] = c /\ c # None /\ switch[c] = Idle
        /\ phase' = phase /\ switch' = switch
    BY <1>9, <2>1, ConstantsAssumption
    DEF ConsoleKick, OrderlyInv, Registry, TokensLeadToSessions, ConstantsAssumption
  <2>3. Registry(srv) /\ TimersLatest(srv)
    BY DEF OrderlyInv
  <2>4. Drops(srv', srv, {s}) /\ Without(srv', srv, s) /\ Registry(srv') /\ TimersLatest(srv')
    <3>1. srv' = Kick(srv, c, TRUE)
      BY <1>9 DEF ConsoleKick
    <3> QED
      BY <1>0, <2>2, <2>3, <3>1, KickDrops, KickEffect
  <2>5. /\ srv'.client = srv.client /\ srv'.handle = srv.handle /\ srv'.ki = srv.ki
        /\ srv'.auth = [x \in Conn |-> IF x = s THEN None ELSE srv.auth[x]]
        /\ srv'.usable = srv.usable \ {s}
        /\ srv'.timers = {x \in srv.timers : srv.client[x] # s}
    BY <2>4 DEF Drops, Without
  <2> USE <1>0 DEF OrderlyInv, Server
  <2>6. Served'
    BY <2>2, <2>5 DEF Served
  <2>7. Kept'
    BY <2>2, <2>5 DEF Kept, Registry, TokensLeadToSessions
  <2>8. Switching'
    BY <2>2, <2>5 DEF Switching, Served
  <2>9. NewUnknown'
    BY <2>2, <2>5 DEF NewUnknown
  <2> QED
    BY <2>4, <2>6, <2>7, <2>8, <2>9
<1>10. ASSUME NEW c \in Conn, KickCloses(c) \/ KickFails(c) \/ SetOffline(c) PROVE OrderlyInv'
  BY <1>0, <1>10, OrderlyUnchanged DEF KickCloses, KickFails, SetOffline, Server
<1>11. ASSUME NEW c \in Conn, TimerFires(c) PROVE OrderlyInv'
  <2> DEFINE r == [srv EXCEPT !.timers = @ \ {c}]
             s == srv.client[c]
  <2>1. c \in srv.timers /\ srv' = CleanUpNow(r, c) /\ phase' = phase /\ switch' = switch
    BY <1>11 DEF TimerFires
  <2>2. srv.auth[s] = c /\ phase[c] = "ended" /\ Registry(srv) /\ switch[c] = Idle
    BY <2>1 DEF OrderlyInv, TimersLatest, Kept, Switching
  <2>3. /\ r \in Server /\ r.client = srv.client /\ r.auth = srv.auth /\ r.ki = srv.ki
        /\ r.handle = srv.handle /\ r.byKI = srv.byKI /\ r.usable = srv.usable
        /\ r.timers = srv.timers \ {c}
    BY <1>0 DEF Server
  <2> HIDE DEF r
  <2>4. Registry(r)
    BY <2>2, <2>3
    DEF Registry, TokensLeadToSessions, AvatarsLeadToSessions, SessionsFoundByAvatar
  <2>5. /\ Without(srv', r, s) /\ Registry(srv')
        /\ srv'.usable = r.usable /\ srv'.timers = r.timers
    BY <2>1, <2>2, <2>3, <2>4, CleanUpEffect
  <2>6. Without(srv', srv, s)
    BY <2>3, <2>5 DEF Without
  <2>7. phase' = [phase EXCEPT ![c] = "ended"] /\ switch' = [switch EXCEPT ![c] = Idle]
    BY <1>0, <2>1, <2>2 DEF TypeOK
  <2> QED
    BY <1>0, <2>2, <2>3, <2>5, <2>6, <2>7, OrderlyWithout
<1> QED
  BY <1>1, <1>2, <1>3, <1>4, <1>5, <1>6, <1>7, <1>8, <1>9, <1>10, <1>11 DEF Next, ServerStep

LEMMA OrderlyInit == Init => OrderlyInv
BY InitType
DEF Init, OrderlyInv, Registry, TokensLeadToSessions, AvatarsLeadToSessions, SessionsFoundByAvatar,
    TimersLatest, Served, Kept, Switching, NewUnknown

LEMMA OrderlyAlways ==
    ASSUME Disturbances = {}
    PROVE  Spec => []OrderlyInv
BY OrderlyInit, OrderlyStep, PTL DEF Spec

\* The two dictionaries and the sessions agree.
THEOREM DictionariesAgree ==
    ASSUME Disturbances = {}
    PROVE  Spec => []RegistryConsistent
<1>1. OrderlyInv => RegistryConsistent
  BY DEF OrderlyInv, Registry, RegistryConsistent
<1> QED
  BY <1>1, OrderlyAlways, PTL

\* The assertions of _clean_up_now hold when the callback comes.
THEOREM CleanUpsAreDue ==
    ASSUME Disturbances = {}
    PROVE  Spec => []TimersSound
<1>1. OrderlyInv => TimersSound
  <2> SUFFICES ASSUME OrderlyInv, NEW c \in srv.timers
               PROVE  LET s == srv.client[c]
                      IN  /\ phase[c] = "ended"
                          /\ s \in srv.usable /\ srv.auth[s] = c /\ srv.handle[s] = c
                          /\ srv.ki[s] # None => srv.byKI[srv.ki[s]] = c
    BY DEF TimersSound
  <2>1. c \in Conn /\ c # None /\ srv.client[c] \in Conn
    BY ConstantsAssumption DEF OrderlyInv, TypeOK, Server, ConstantsAssumption
  <2>2. phase[c] = "ended"
    BY DEF OrderlyInv, Kept
  <2>3. /\ srv.client[c] \in srv.usable
        /\ srv.auth[srv.client[c]] = c /\ srv.handle[srv.client[c]] = c
    BY DEF OrderlyInv, TimersLatest
  <2>4. srv.ki[srv.client[c]] # None => srv.byKI[srv.ki[srv.client[c]]] = c
    BY <2>1, <2>3 DEF OrderlyInv, Registry, SessionsFoundByAvatar
  <2> QED
    BY <2>2, <2>3, <2>4
<1> QED
  BY <1>1, OrderlyAlways, PTL

\* What is registered is served or will be cleaned up; who is served is registered.
THEOREM SessionsAreKeptOrServed ==
    ASSUME Disturbances = {}
    PROVE  Spec => []NoSessionLeaks
<1>1. OrderlyInv => NoSessionLeaks
  BY DEF OrderlyInv, Served, Kept, NoSessionLeaks
<1> QED
  BY <1>1, OrderlyAlways, PTL

-----------------------------------------------------------------------------
(* Without disturbances AuthSessions implements AvatarOwnership.           *)

\* The refinement mapping.
Owner(r) == [k \in KI |-> IF r.byKI[k] = None THEN None ELSE r.client[r.byKI[k]]]

Life(r, ph) ==
    [t \in Conn |-> IF ph[t] = "new" THEN "fresh" ELSE IF r.auth[t] = None THEN "dead" ELSE "live"]

Own == Owner(srv)
Lives == Life(srv, phase)

LEMMA CloseIs ==
    ASSUME NEW s \in Conn, Lives[s] # "dead", Lives' = [Lives EXCEPT ![s] = "dead"],
           Own' = [k \in KI |-> IF Own[k] = s THEN None ELSE Own[k]]
    PROVE  Ownership!Close(s)
BY DEF Ownership!Close, Ownership!Owns, Own, Lives, Owner, Life

LEMMA OpenIs ==
    ASSUME NEW s \in Conn, Lives[s] = "fresh", Lives' = [Lives EXCEPT ![s] = "live"], Own' = Own
    PROVE  Ownership!Open(s)
BY DEF Ownership!Open, Own, Lives, Owner, Life

LEMMA TakeIs ==
    ASSUME NEW s \in Conn, NEW k \in KI, Lives[s] = "live", \A j \in KI : Own[j] # s,
           Own' = [Own EXCEPT ![k] = s],
           Lives' = [t \in Conn |-> IF Own[k] = t THEN "dead" ELSE Lives[t]]
    PROVE  Ownership!Take(s, k)
BY DEF Ownership!Take, Ownership!Owns, Own, Lives, Owner, Life

LEMMA ReleaseIs ==
    ASSUME NEW s \in Conn, NEW k \in KI, Own[k] = s, Own' = [Own EXCEPT ![k] = None], Lives' = Lives
    PROVE  Ownership!Release(s)
BY DEF Ownership!Release, Ownership!Owns, Own, Lives, Owner, Life

LEMMA StutterIs ==
    ASSUME Own' = Own, Lives' = Lives
    PROVE  UNCHANGED Ownership!ownershipVars
BY DEF Ownership!ownershipVars, Own, Lives, Owner, Life

-----------------------------------------------------------------------------
\* What the mapping says of a registry: a session owns the avatar it plays.
LEMMA OwnerOf ==
    ASSUME NEW r \in Server, Registry(r), NEW k \in KI, NEW s \in Conn
    PROVE  Owner(r)[k] = s <=> r.auth[s] # None /\ r.ki[s] = k
<1>1. k # None /\ s # None
  BY ConstantsAssumption DEF ConstantsAssumption
<1>2. ASSUME Owner(r)[k] = s PROVE r.auth[s] # None /\ r.ki[s] = k
  <2>1. r.byKI[k] # None /\ r.client[r.byKI[k]] = s
    BY <1>1, <1>2 DEF Owner
  <2> QED
    BY <2>1 DEF Registry, AvatarsLeadToSessions
<1>3. ASSUME r.auth[s] # None, r.ki[s] = k PROVE Owner(r)[k] = s
  <2>1. r.byKI[k] = r.auth[s] /\ r.client[r.auth[s]] = s
    BY <1>1, <1>3 DEF Registry, SessionsFoundByAvatar, TokensLeadToSessions
  <2> QED
    BY <1>3, <2>1 DEF Owner
<1> QED
  BY <1>2, <1>3

\* No connection arrives.
NoneArrives == \A x \in Conn : phase'[x] = "new" <=> phase[x] = "new"

LEMMA SessionGone ==
    ASSUME OrderlyInv, TypeOK', NEW s \in Conn, srv.auth[s] # None, Without(srv', srv, s),
           NoneArrives
    PROVE  Ownership!Close(s)
<1>1. srv \in Server /\ Registry(srv) /\ phase[s] # "new"
  BY DEF OrderlyInv, TypeOK, NewUnknown
<1>2. Lives[s] = "live" /\ Lives' = [Lives EXCEPT ![s] = "dead"]
  <2>1. srv'.auth = [srv.auth EXCEPT ![s] = None] /\ srv.auth \in [Conn -> Conn \cup {None}]
    BY <1>1 DEF Without, Server
  <2>2. \A t \in Conn :
          Life(srv', phase')[t] = IF t = s THEN "dead" ELSE Life(srv, phase)[t]
    BY <1>1, <2>1 DEF Life, NoneArrives
  <2>3. Lives' = [t \in Conn |-> IF t = s THEN "dead" ELSE Lives[t]]
    BY <2>2 DEF Lives, Life
  <2>4. Lives[s] = "live"
    BY <1>1 DEF Lives, Life
  <2> QED
    BY <2>3, <2>4 DEF Lives, Life
<1>3. Own' = [k \in KI |-> IF Own[k] = s THEN None ELSE Own[k]]
  <2>1. \A k \in KI : Own[k] = s <=> srv.ki[s] = k
    BY <1>1, OwnerOf DEF Own
  <2>2. \A k \in KI : srv.ki[s] = k => k # None
    BY ConstantsAssumption DEF ConstantsAssumption
  <2>3. \A k \in KI : srv'.byKI[k] = IF srv.ki[s] = k THEN None ELSE srv.byKI[k]
    BY <1>1, <2>2 DEF Without, Server
  <2>4. srv'.client = srv.client
    BY DEF Without
  <2>5. \A k \in KI : Owner(srv')[k] = IF srv.ki[s] = k THEN None ELSE Owner(srv)[k]
    BY <2>3, <2>4 DEF Owner
  <2> QED
    BY <2>1, <2>5 DEF Own, Owner
<1> QED
  BY <1>2, <1>3, CloseIs

LEMMA NothingTaken ==
    ASSUME srv'.client = srv.client, srv'.auth = srv.auth, srv'.byKI = srv.byKI,
           NoneArrives
    PROVE  UNCHANGED Ownership!ownershipVars
BY StutterIs DEF Own, Lives, Owner, Life, NoneArrives

LEMMA EndImplements ==
    ASSUME OrderlyInv, TypeOK', NEW c \in Conn, phase[c] = "running", End(c, srv)
    PROVE  (\E s \in Conn : Ownership!Close(s)) \/ UNCHANGED Ownership!ownershipVars
<1> PICK s \in Conn : s = srv.client[c]
  BY DEF OrderlyInv, TypeOK, Server
<1>1. /\ srv \in Server /\ c # None /\ Registry(srv) /\ Served
      /\ NoneArrives
  BY ConstantsAssumption DEF NoneArrives, OrderlyInv, TypeOK, Server, End, ConstantsAssumption
<1>h. srv' = HandleDisconnect(srv, c)
  BY DEF End
<1>2. CASE s \notin srv.usable
  <2>1. srv' = srv
    BY <1>1, <1>2, <1>h DEF HandleDisconnect
  <2> QED
    BY <1>1, <2>1, NothingTaken
<1>3. CASE s \in srv.usable /\ KeepState
  <2>1. srv' = [srv EXCEPT !.timers = @ \cup {c}, !.handle[s] = c]
    BY <1>1, <1>3, <1>h DEF HandleDisconnect
  <2>2. srv'.client = srv.client /\ srv'.auth = srv.auth /\ srv'.byKI = srv.byKI
    BY <1>1, <2>1 DEF Server
  <2> QED
    BY <1>1, <2>2, NothingTaken
<1>4. CASE s \in srv.usable /\ ~KeepState
  <2>1. srv.auth[s] = c
    BY <1>1, <1>4 DEF Served
  <2>2. srv' = CleanUpNow(srv, c)
    BY <1>1, <1>4, <1>h DEF HandleDisconnect
  <2>3. Without(srv', srv, s)
    BY <1>1, <2>1, <2>2, CleanUpEffect
  <2>4. srv.auth[s] # None
    BY <1>1, <2>1
  <2>5. Ownership!Close(s)
    BY <1>1, <2>3, <2>4, SessionGone
  <2> QED
    BY <2>5
<1> QED
  BY <1>2, <1>3, <1>4

LEMMA ConnectImplements ==
    ASSUME OrderlyInv, NEW c \in Conn, Connect(c)
    PROVE  Ownership!Open(c)
<1>1. /\ srv \in Server /\ c # None /\ phase[c] = "new" /\ phase \in [Conn -> {"new", "running", "ended"}]
      /\ phase' = [phase EXCEPT ![c] = "running"]
      /\ srv' = [srv EXCEPT !.usable = @ \cup {c}, !.auth[c] = c]
  BY ConstantsAssumption DEF OrderlyInv, TypeOK, Connect, ConstantsAssumption
<1>2. srv'.client = srv.client /\ srv'.byKI = srv.byKI /\ srv'.auth = [srv.auth EXCEPT ![c] = c]
  BY <1>1 DEF Server
<1>3. Own' = Own
  BY <1>2 DEF Own, Owner
<1>4. Lives[c] = "fresh" /\ Lives' = [Lives EXCEPT ![c] = "live"]
  BY <1>1, <1>2 DEF Lives, Life, Server
<1> QED
  BY <1>3, <1>4, OpenIs

\* A connection that reconnects never has a session of its own.
LEMMA ReconnectImplements ==
    ASSUME Disturbances = {}, OrderlyInv, NEW c \in Conn, NEW t \in Conn, Reconnect(c, t)
    PROVE  Ownership!Close(c)
<1> DEFINE p == srv.auth[t]
           s == srv.client[p]
           joined == [srv EXCEPT !.client[c] = s]
<1>1. /\ srv \in Server /\ c # None /\ phase[c] = "new" /\ c # t
      /\ Registry(srv) /\ TimersLatest(srv) /\ Kept
      /\ phase \in [Conn -> {"new", "running", "ended"}]
  BY ConstantsAssumption DEF OrderlyInv, TypeOK, Reconnect, ConstantsAssumption
<1>2. /\ srv.client[c] = c /\ srv.auth[c] = None /\ c \notin srv.usable
      /\ \A x \in Conn : srv.client[x] = c => x = c
  BY <1>1 DEF OrderlyInv, NewUnknown
<1>3. Lives[c] = "fresh" /\ \A k \in KI : Own[k] # c
  BY <1>1, <1>2, OwnerOf DEF Own, Lives, Life
<1>4. ASSUME srv'.auth[c] = None,
             \A x \in Conn \ {c} : srv'.auth[x] = None <=> srv.auth[x] = None,
             \A k \in KI : Owner(srv')[k] = Owner(srv)[k],
             \A x \in Conn \ {c} : phase'[x] = phase[x],
             phase'[c] # "new"
      PROVE  Ownership!Close(c)
  <2>1. Lives' = [Lives EXCEPT ![c] = "dead"]
    BY <1>4 DEF Lives, Life
  <2>2. Own' = [k \in KI |-> IF Own[k] = c THEN None ELSE Own[k]]
    BY <1>3, <1>4 DEF Own, Owner
  <2> QED
    BY <1>3, <2>1, <2>2, CloseIs
<1>5. CASE p = None \/ s \notin srv.usable
  <2>1. End(c, srv)
    BY <1>5 DEF Reconnect
  <2>2. srv' = srv /\ phase' = [phase EXCEPT ![c] = "ended"]
    BY <1>2, <2>1 DEF End, HandleDisconnect
  <2> QED
    BY <1>1, <1>2, <1>4, <2>2
<1>6. CASE ~(p = None \/ s \notin srv.usable)
  <2>1. s = t /\ p \in Conn /\ p # None
    BY <1>1, <1>6 DEF Registry, TokensLeadToSessions, Server
  <2>2. p \in srv.timers /\ srv.handle[t] = p
    <3>1. phase[p] # "running"
      BY <2>1 DEF Reconnect, ClientReconnects
    <3> QED
      BY <1>1, <2>1, <3>1 DEF Kept, TimersLatest
  <2>3. /\ srv' = [CancelCleanUp(joined, s)
                     EXCEPT !.auth[t] = c,
                            !.byKI = IF srv.ki[s] = None THEN @
                                     ELSE [@ EXCEPT ![srv.ki[s]] = c]]
        /\ phase' = [phase EXCEPT ![c] = "running"]
    BY <1>6, <2>1, <2>2 DEF Reconnect
  <2>4. /\ srv'.client = [srv.client EXCEPT ![c] = t]
        /\ srv'.auth = [srv.auth EXCEPT ![t] = c]
        /\ srv'.byKI = IF srv.ki[t] = None THEN srv.byKI ELSE [srv.byKI EXCEPT ![srv.ki[t]] = c]
    BY <1>1, <2>1, <2>2, <2>3 DEF CancelCleanUp, Server
  <2> HIDE DEF p, s, joined
  <2>5. ASSUME NEW k \in KI PROVE Owner(srv')[k] = Owner(srv)[k]
    <3>1. CASE srv.ki[t] = k
      <4>1. srv'.byKI[k] = c /\ srv'.client[c] = t
        BY <1>1, <2>4, <3>1, ConstantsAssumption DEF Server, ConstantsAssumption
      <4>2. Owner(srv)[k] = t
        BY <1>1, <2>1, <3>1, OwnerOf DEF p
      <4> QED
        BY <1>1, <4>1, <4>2 DEF Owner
    <3>2. CASE srv.ki[t] # k
      <4>1. srv'.byKI[k] = srv.byKI[k]
        BY <1>1, <2>4, <3>2 DEF Server
      <4>2. srv.byKI[k] # c
        BY <1>1, <1>2 DEF Registry, AvatarsLeadToSessions
      <4>3. srv.byKI[k] # None => srv'.client[srv.byKI[k]] = srv.client[srv.byKI[k]]
        BY <1>1, <2>4, <4>2 DEF Server
      <4> QED
        BY <4>1, <4>3 DEF Owner
    <3> QED
      BY <3>1, <3>2
  <2>6. /\ srv'.auth[c] = None
        /\ \A x \in Conn \ {c} : srv'.auth[x] = None <=> srv.auth[x] = None
    BY <1>1, <1>2, <2>1, <2>4 DEF Server, p
  <2> QED
    BY <1>1, <1>4, <2>3, <2>5, <2>6
<1> QED
  BY <1>5, <1>6

LEMMA ClaimImplements ==
    ASSUME OrderlyInv, NEW c \in Conn, NEW k \in KI \cup {None},
           phase[c] = "running", srv.client[c] \in srv.usable, srv.ki[srv.client[c]] = None,
           phase' = phase, srv' = Claim(srv, c, k)
    PROVE  (\E s \in Conn, j \in KI : Ownership!Take(s, j)) \/ UNCHANGED Ownership!ownershipVars
<1> PICK s \in Conn : s = srv.client[c]
  BY DEF OrderlyInv, TypeOK, Server
<1>1. /\ srv \in Server /\ srv.auth[s] = c /\ c # None /\ Registry(srv) /\ TimersLatest(srv)
      /\ phase[s] # "new"
  BY ConstantsAssumption DEF OrderlyInv, TypeOK, Server, Served, NewUnknown, ConstantsAssumption
<1>2. CASE k = None
  <2>1. srv' = srv
    BY <1>2 DEF Claim
  <2> QED
    BY <2>1, NothingTaken DEF NoneArrives
<1>3. CASE k # None
  <2>1. k \in KI /\ srv.ki[s] = None
    BY <1>3
  <2>2. Drops(Claim(srv, c, k), srv, Ousted(srv, k)) /\ Claimed(Claim(srv, c, k), srv, srv.client[c], k)
        /\ Registry(Claim(srv, c, k)) /\ Claim(srv, c, k) \in Server
    BY <1>1, ClaimEffect, ClaimType
  <2>3. /\ Drops(srv', srv, Ousted(srv, k)) /\ Claimed(srv', srv, s, k)
        /\ Registry(srv') /\ srv' \in Server
    BY <2>2
  <2>4. /\ srv'.client = srv.client
        /\ srv'.auth = [t \in Conn |-> IF t \in Ousted(srv, k) THEN None ELSE srv.auth[t]]
        /\ srv'.ki = [srv.ki EXCEPT ![s] = k]
        /\ \A t \in Ousted(srv, k) : t \in Conn /\ srv.auth[t] # None /\ srv.ki[t] = k
    BY <2>3 DEF Drops, Claimed
  <2>5. \A t \in Conn : t \in Ousted(srv, k) <=> Own[k] = t
    BY <1>1, <2>1, ConstantsAssumption DEF Ousted, Own, Owner, ConstantsAssumption
  <2>6. Lives' = [t \in Conn |-> IF Own[k] = t THEN "dead" ELSE Lives[t]]
    <3>1. \A t \in Conn : t \in Ousted(srv, k) => phase[t] # "new"
      BY <2>4 DEF OrderlyInv, NewUnknown
    <3>2. \A t \in Conn :
            Life(srv', phase')[t] = IF Own[k] = t THEN "dead" ELSE Life(srv, phase)[t]
      BY <2>4, <2>5, <3>1 DEF Life
    <3> QED
      BY <3>2 DEF Lives, Life
  <2>7. Own' = [Own EXCEPT ![k] = s]
    <3>1. ASSUME NEW j \in KI, NEW t \in Conn
          PROVE  Owner(srv')[j] = t <=> (j = k /\ t = s) \/ (j # k /\ Owner(srv)[j] = t)
      <4>1. Owner(srv')[j] = t <=> srv'.auth[t] # None /\ srv'.ki[t] = j
        BY <2>3, OwnerOf
      <4>2. Owner(srv)[j] = t <=> srv.auth[t] # None /\ srv.ki[t] = j
        BY <1>1, OwnerOf
      <4>3. s \notin Ousted(srv, k) /\ srv'.auth[s] = c /\ srv'.ki[s] = k
        BY <1>1, <1>3, <2>1, <2>4 DEF Server
      <4>4. CASE t = s
        BY <1>1, <2>1, <4>1, <4>2, <4>3, <4>4, ConstantsAssumption DEF ConstantsAssumption
      <4>5. CASE t # s
        <5>1. srv'.ki[t] = srv.ki[t]
          BY <1>1, <2>4, <4>5 DEF Server
        <5>2. CASE t \in Ousted(srv, k)
          BY <2>4, <4>1, <4>2, <4>5, <5>2
        <5>3. CASE t \notin Ousted(srv, k)
          <6>1. srv'.auth[t] = srv.auth[t]
            BY <2>4, <5>3
          <6>2. Owner(srv)[k] # t
            BY <2>5, <5>3 DEF Own
          <6> QED
            BY <4>1, <4>2, <4>5, <5>1, <6>1, <6>2
        <5> QED
          BY <5>2, <5>3
      <4> QED
        BY <4>4, <4>5
    <3>2. \A j \in KI : Owner(srv)[j] \in Conn \cup {None} /\ Owner(srv')[j] \in Conn \cup {None}
      BY <1>1, <2>3 DEF Owner, Server
    <3>3. \A j \in KI : Owner(srv')[j] = IF j = k THEN s ELSE Owner(srv)[j]
      BY <3>1, <3>2, ConstantsAssumption DEF ConstantsAssumption
    <3> QED
      BY <3>3 DEF Own, Owner
  <2>8. Lives[s] = "live" /\ \A j \in KI : Own[j] # s
    BY <1>1, <2>1, OwnerOf, ConstantsAssumption DEF Lives, Life, Own, ConstantsAssumption
  <2> QED
    BY <2>1, <2>6, <2>7, <2>8, TakeIs
<1> QED
  BY <1>2, <1>3

LEMMA SetPlayerImplements ==
    ASSUME Disturbances = {}, OrderlyInv, NEW c \in Conn, NEW k \in KI \cup {None}, SetPlayer(c, k)
    PROVE  [Ownership!Next]_Ownership!ownershipVars
<1> PICK s \in Conn : s = srv.client[c]
  BY DEF OrderlyInv, TypeOK, Server
<1> PICK p \in KI \cup {None} : p = srv.ki[s]
  BY DEF OrderlyInv, TypeOK, Server
<1>1. /\ srv \in Server /\ c # None /\ Registry(srv) /\ TimersLatest(srv)
      /\ phase[c] = "running" /\ s \in srv.usable /\ srv.auth[s] = c
  BY ConstantsAssumption
  DEF SetPlayer, MayTalk, OrderlyInv, TypeOK, Server, Served, ConstantsAssumption
<1>2. CASE p = None
  <2>1. ~ClaimRaises(srv, k)
    BY <1>1, <1>2, ClaimEffect
  <2>2. srv' = Claim(srv, c, k) /\ phase' = phase
    BY <1>2, <2>1 DEF SetPlayer
  <2>3. (\E t \in Conn, j \in KI : Ownership!Take(t, j)) \/ UNCHANGED Ownership!ownershipVars
    BY <1>1, <1>2, <2>2, ClaimImplements
  <2> QED
    BY <2>3 DEF Ownership!Next
<1>3. CASE p # None
  <2>1. p \in KI /\ srv.byKI[p] = c
    BY <1>1, <1>3 DEF Registry, SessionsFoundByAvatar
  <2>2. srv' = [srv EXCEPT !.byKI[p] = None, !.ki[s] = None] /\ phase' = phase
    BY <1>1, <1>3, <2>1 DEF SetPlayer
  <2>3. /\ srv'.client = srv.client /\ srv'.auth = srv.auth
        /\ srv'.byKI = [srv.byKI EXCEPT ![p] = None]
    BY <1>1, <2>2 DEF Server
  <2>4. Own[p] = s /\ Own' = [Own EXCEPT ![p] = None]
    <3>1. \A j \in KI : Owner(srv')[j] = IF j = p THEN None ELSE Owner(srv)[j]
      BY <1>1, <2>3 DEF Owner, Server
    <3>2. Owner(srv)[p] = s
      BY <1>1, <2>1 DEF Owner
    <3> QED
      BY <3>1, <3>2 DEF Own, Owner
  <2>5. Lives' = Lives
    BY <2>2, <2>3 DEF Lives, Life
  <2>6. Ownership!Release(s)
    BY <2>1, <2>4, <2>5, ReleaseIs
  <2> QED
    BY <2>6 DEF Ownership!Next
<1> QED
  BY <1>2, <1>3

LEMMA ImplementsStep ==
    ASSUME Disturbances = {}, OrderlyInv, OrderlyInv', [Next]_vars
    PROVE  [Ownership!Next]_Ownership!ownershipVars
<1> USE DEF Ownership!Next
<1>0. TypeOK /\ TypeOK' /\ srv \in Server
  BY DEF OrderlyInv, TypeOK
<1>1. CASE UNCHANGED vars
  BY <1>1, NothingTaken DEF vars, NoneArrives
<1>2. ASSUME NEW c \in Conn, Connect(c) PROVE Ownership!Next
  BY <1>2, ConnectImplements
<1>3. ASSUME NEW c \in Conn, NEW t \in Conn, Reconnect(c, t) PROVE Ownership!Next
  BY <1>3, ReconnectImplements
<1>4. ASSUME NEW c \in Conn,
             Lose(c) \/ GoOnline(c) \/ KickCloses(c) \/ KickFails(c) \/ SetOffline(c)
      PROVE  UNCHANGED Ownership!ownershipVars
  <2>1. /\ srv'.client = srv.client /\ srv'.auth = srv.auth /\ srv'.byKI = srv.byKI
        /\ phase' = phase
    BY <1>0, <1>4 DEF Lose, GoOnline, KickCloses, KickFails, SetOffline, Server
  <2> QED
    BY <2>1, NothingTaken DEF NoneArrives
<1>5. ASSUME NEW c \in Conn, HandlerEnds(c) PROVE [Ownership!Next]_Ownership!ownershipVars
  <2>1. phase[c] = "running" /\ End(c, srv)
    BY <1>5 DEF HandlerEnds
  <2> QED
    BY <1>0, <2>1, EndImplements
<1>6. ASSUME NEW c \in Conn, NEW k \in KI \cup {None}, SetPlayer(c, k)
      PROVE  [Ownership!Next]_Ownership!ownershipVars
  BY <1>6, SetPlayerImplements
<1>7. ASSUME NEW c \in Conn, SwitchVault(c) PROVE [Ownership!Next]_Ownership!ownershipVars
  <2>1. phase[c] = "running"
    BY <1>7 DEF SwitchVault, OrderlyInv, Switching, Idle
  <2>2. CASE switch[c].from \in Avatar
    <3>1. srv' = srv /\ phase' = phase
      BY <1>7, <2>2 DEF SwitchVault
    <3> QED
      BY <3>1, NothingTaken DEF NoneArrives
  <2>3. CASE switch[c].from \notin Avatar
    <3>1. End(c, srv)
      BY <1>7, <2>3 DEF SwitchVault
    <3> QED
      BY <1>0, <2>1, <3>1, EndImplements
  <2> QED
    BY <2>2, <2>3
<1>8. ASSUME NEW c \in Conn, SwitchResume(c) PROVE [Ownership!Next]_Ownership!ownershipVars
  <2> PICK k \in KI \cup {None} : k = switch[c].to
    BY <1>0 DEF TypeOK
  <2>1. phase[c] = "running" /\ srv.client[c] \in srv.usable /\ srv.ki[srv.client[c]] = None
    BY <1>8 DEF SwitchResume, OrderlyInv, Switching, Idle
  <2>2. srv.auth[srv.client[c]] = c /\ Registry(srv) /\ TimersLatest(srv)
    BY <2>1 DEF OrderlyInv, Served
  <2>3. ~ClaimRaises(srv, k)
    BY <1>0, <2>1, <2>2, ClaimEffect
  <2>4. srv' = Claim(srv, c, k) /\ phase' = phase
    BY <1>8, <2>3 DEF SwitchResume
  <2>5. (\E t \in Conn, j \in KI : Ownership!Take(t, j)) \/ UNCHANGED Ownership!ownershipVars
    BY <2>1, <2>4, ClaimImplements
  <2> QED
    BY <2>5
<1>9. ASSUME NEW c \in Conn, ConsoleKick(c) PROVE Ownership!Next
  <2>1. PICK s \in Conn : srv.auth[s] = c
    BY <1>9 DEF ConsoleKick
  <2>2. s = srv.client[c] /\ srv.auth[s] # None /\ Registry(srv) /\ TimersLatest(srv)
    BY <2>1, ConstantsAssumption
    DEF OrderlyInv, Registry, TokensLeadToSessions, ConstantsAssumption
  <2>3. Without(Kick(srv, c, TRUE), srv, srv.client[c])
    BY <1>0, <2>1, <2>2, KickEffect
  <2>4. srv' = Kick(srv, c, TRUE) /\ phase' = phase
    BY <1>9 DEF ConsoleKick
  <2>5. Without(srv', srv, s) /\ NoneArrives
    BY <2>2, <2>3, <2>4 DEF NoneArrives
  <2>6. Ownership!Close(s)
    BY <1>0, <2>2, <2>5, SessionGone
  <2> QED
    BY <2>6
<1>10. ASSUME NEW c \in Conn, TimerFires(c) PROVE Ownership!Next
  <2> DEFINE r == [srv EXCEPT !.timers = @ \ {c}]
  <2> PICK s \in Conn : s = srv.client[c]
    BY <1>0 DEF Server
  <2>1. srv.auth[s] = c /\ Registry(srv) /\ c # None
    BY <1>10, ConstantsAssumption DEF TimerFires, OrderlyInv, TimersLatest, ConstantsAssumption
  <2>2. /\ r \in Server /\ r.client = srv.client /\ r.auth = srv.auth /\ r.ki = srv.ki
        /\ r.handle = srv.handle /\ r.byKI = srv.byKI /\ r.usable = srv.usable
    BY <1>0 DEF Server
  <2>3. srv' = CleanUpNow(r, c) /\ phase' = phase
    BY <1>10 DEF TimerFires
  <2> HIDE DEF r
  <2>4. Registry(r)
    BY <2>1, <2>2
    DEF Registry, TokensLeadToSessions, AvatarsLeadToSessions, SessionsFoundByAvatar
  <2>5. Without(CleanUpNow(r, c), r, r.client[c])
    BY <2>1, <2>2, <2>4, CleanUpEffect
  <2>6. Without(srv', srv, s) /\ NoneArrives
    BY <2>2, <2>3, <2>5 DEF Without, NoneArrives
  <2>7. Ownership!Close(s)
    BY <1>0, <2>1, <2>6, SessionGone
  <2> QED
    BY <2>7
<1> QED
  BY <1>1, <1>2, <1>3, <1>4, <1>5, <1>6, <1>7, <1>8, <1>9, <1>10 DEF Next, ServerStep

LEMMA ImplementsInit == Init => Ownership!Init
BY DEF Init, Ownership!Init

\* Sessions, tokens, time-outs and kicks are an implementation of the abstract
\* ownership of avatars.
THEOREM SessionsOwnAvatars ==
    ASSUME Disturbances = {}
    PROVE  Spec => ImplementsOwnership
BY OrderlyAlways, ImplementsInit, ImplementsStep, PTL DEF Spec, ImplementsOwnership, Ownership!Spec
=============================================================================
