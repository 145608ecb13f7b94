---------------------------- MODULE Replay_proofs ----------------------------
(* A message is lost or doubled only if the replays to two connections     *)
(* overlap, and even then the number of messages is kept, however many     *)
(* messages and connections there are and however the sockets fail.        *)
EXTENDS Replay, FiniteSetTheorems, SequenceTheorems, TLAPS

-----------------------------------------------------------------------------
(* How often a message is in a list.                                       *)

Places(m, list) == {i \in DOMAIN list : list[i] = m}

LEMMA PlacesFinite ==
    ASSUME NEW list \in Seq(Message), NEW m
    PROVE  /\ IsFiniteSet(Places(m, list))
           /\ Times(m, list) = Cardinality(Places(m, list))
           /\ Times(m, list) \in Nat
  <1>1. IsFiniteSet(1..Len(list)) /\ DOMAIN list = 1..Len(list)
    BY FS_Interval, LenProperties
  <1>2. Places(m, list) \in SUBSET (1..Len(list))
    BY <1>1 DEF Places
  <1>3. IsFiniteSet(Places(m, list))
    BY <1>1, <1>2, FS_Subset
  <1> QED BY <1>3, FS_CardinalityType DEF Times, Places

LEMMA TimesEmpty == \A m : Times(m, <<>>) = 0
  <1> SUFFICES ASSUME NEW m PROVE Times(m, <<>>) = 0
    OBVIOUS
  <1>1. {i \in DOMAIN <<>> : <<>>[i] = m} = {}
    OBVIOUS
  <1> QED BY <1>1, FS_EmptySet DEF Times

LEMMA TimesAppend ==
    \A list \in Seq(Message), e \in Message, m \in Message :
        /\ Append(list, e) \in Seq(Message)
        /\ Times(m, list) \in Nat
        /\ Times(m, Append(list, e)) = Times(m, list) + (IF m = e THEN 1 ELSE 0)
  <1> SUFFICES ASSUME NEW list \in Seq(Message), NEW e \in Message, NEW m \in Message
               PROVE  /\ Append(list, e) \in Seq(Message)
                      /\ Times(m, list) \in Nat
                      /\ Times(m, Append(list, e)) = Times(m, list) + (IF m = e THEN 1 ELSE 0)
    OBVIOUS
  <1> DEFINE n == Len(list)
  <1>1. n \in Nat /\ DOMAIN list = 1..n
    BY LenProperties
  <1>2. PICK longer \in Seq(Message) :
            longer = Append(list, e) /\ Len(longer) = n + 1
    <2>1. Append(list, e) \in Seq(Message)
      OBVIOUS
    <2>2. Len(Append(list, e)) = n + 1
      OBVIOUS
    <2> QED BY <2>1, <2>2
  <1>3. DOMAIN longer = 1..(n + 1) /\ longer[n + 1] = e /\ \A i \in 1..n : longer[i] = list[i]
    BY <1>1, <1>2
  <1>4. Places(m, longer) = IF m = e THEN Places(m, list) \cup {n + 1} ELSE Places(m, list)
    BY <1>1, <1>3 DEF Places
  <1>5. n + 1 \notin Places(m, list)
    BY <1>1 DEF Places
  <1>6. Cardinality(Places(m, list) \cup {n + 1}) = Cardinality(Places(m, list)) + 1
    BY <1>5, PlacesFinite, FS_AddElement
  <1>7. Times(m, longer) = Cardinality(Places(m, longer))
        /\ Times(m, list) = Cardinality(Places(m, list)) /\ Times(m, list) \in Nat
    BY PlacesFinite
  <1>8. Times(m, longer) = Times(m, list) + (IF m = e THEN 1 ELSE 0)
    BY <1>4, <1>6, <1>7
  <1> QED BY <1>2, <1>7, <1>8

LEMMA TimesTail ==
    \A list \in Seq(Message), m \in Message :
        list # <<>> =>
            /\ Head(list) \in Message /\ Tail(list) \in Seq(Message)
            /\ Times(m, list) \in Nat /\ Times(m, Tail(list)) \in Nat
            /\ Times(m, list) = Times(m, Tail(list)) + (IF m = Head(list) THEN 1 ELSE 0)
  <1> SUFFICES ASSUME NEW list \in Seq(Message), NEW m \in Message, list # <<>>
               PROVE  /\ Head(list) \in Message /\ Tail(list) \in Seq(Message)
                      /\ Times(m, list) \in Nat /\ Times(m, Tail(list)) \in Nat
                      /\ Times(m, list) =
                            Times(m, Tail(list)) + (IF m = Head(list) THEN 1 ELSE 0)
    OBVIOUS
  <1> DEFINE n == Len(list)
             S == Places(m, list) \ {1}
  <1>1. n \in Nat \ {0} /\ DOMAIN list = 1..n
    BY LenProperties, EmptySeq
  <1>2. PICK rest \in Seq(Message) : rest = Tail(list) /\ Len(rest) = n - 1
    BY HeadTailProperties
  <1>3. Head(list) = list[1] /\ Head(list) \in Message
    BY HeadTailProperties
  <1>4. DOMAIN rest = 1..(n - 1) /\ \A i \in 1..(n - 1) : rest[i] = list[i + 1]
    BY <1>1, <1>2, LenProperties
  <1>5. Cardinality(Places(m, rest)) = Cardinality(S)
    <2> DEFINE f == [i \in Places(m, rest) |-> i + 1]
    <2>1. f \in [Places(m, rest) -> S]
      BY <1>1, <1>4 DEF Places
    <2>2. \A i, j \in Places(m, rest) : f[i] = f[j] => i = j
      BY <1>4 DEF Places
    <2>3. \A k \in S : \E i \in Places(m, rest) : f[i] = k
      <3> SUFFICES ASSUME NEW k \in S PROVE k - 1 \in Places(m, rest) /\ f[k - 1] = k
        OBVIOUS
      <3> QED BY <1>1, <1>4 DEF Places
    <2>4. f \in Bijection(Places(m, rest), S)
      BY <2>1, <2>2, <2>3 DEF Bijection, Injection, Surjection, IsInjective
    <2>5. ExistsBijection(Places(m, rest), S)
      BY <2>4 DEF ExistsBijection
    <2> QED BY <2>5, FS_Bijection, PlacesFinite
  <1>6. Cardinality(S) = IF 1 \in Places(m, list) THEN Cardinality(Places(m, list)) - 1
                                                  ELSE Cardinality(Places(m, list))
    BY PlacesFinite, FS_RemoveElement
  <1>7. 1 \in Places(m, list) <=> m = Head(list)
    BY <1>1, <1>3 DEF Places
  <1>8. Times(m, list) \in Nat /\ Times(m, rest) \in Nat
        /\ Times(m, list) = Cardinality(Places(m, list))
        /\ Times(m, rest) = Cardinality(Places(m, rest))
    BY PlacesFinite
  <1> QED BY <1>2, <1>3, <1>5, <1>6, <1>7, <1>8

\* A message put at the end of a list whose first is taken away.
LEMMA TimesRotated ==
    \A list \in Seq(Message), e \in Message, m \in Message :
        list # <<>> /\ Head(list) = e =>
            /\ Tail(Append(list, e)) \in Seq(Message)
            /\ Times(m, Tail(Append(list, e))) = Times(m, list)
  <1> SUFFICES ASSUME NEW list \in Seq(Message), NEW e \in Message, NEW m \in Message,
                      list # <<>>, Head(list) = e
               PROVE  /\ Tail(Append(list, e)) \in Seq(Message)
                      /\ Times(m, Tail(Append(list, e))) = Times(m, list)
    OBVIOUS
  <1>1. PICK longer \in Seq(Message) : longer = Append(list, e)
    BY TimesAppend
  <1>2. longer # <<>> /\ Head(longer) = e
    <2>1. Len(list) \in Nat \ {0} /\ Head(list) = list[1]
      BY EmptySeq, LenProperties
    <2> QED BY <1>1, <2>1
  <1>3. Times(m, longer) = Times(m, list) + (IF m = e THEN 1 ELSE 0) /\ Times(m, list) \in Nat
    BY <1>1, TimesAppend
  <1>4. /\ Tail(longer) \in Seq(Message) /\ Times(m, Tail(longer)) \in Nat
        /\ Times(m, longer) = Times(m, Tail(longer)) + (IF m = e THEN 1 ELSE 0)
    BY <1>2, TimesTail
  <1> QED BY <1>1, <1>3, <1>4

-----------------------------------------------------------------------------
(* The invariant.                                                          *)

\* Who has the event loop replays, and is not suspended.
TurnReplays == turn # None => phase[turn] = "replay" /\ replaying[turn] = None

\* A replay has the event loop or is suspended, and nobody else is.
ReplaysWrite ==
    \A c \in Conn : /\ phase[c] = "replay" => turn = c \/ replaying[c] # None
                    /\ replaying[c] # None => phase[c] = "replay"

\* Until replays overlap there is one at most.
OneReplay == \A c, d \in Conn : phase[c] = "replay" /\ phase[d] = "replay" => c = d

\* A suspended replay writes the first message, which it has not popped yet:
\* what others append in the meantime comes after it.
SuspendedOnFirst ==
    \A c \in Conn : replaying[c] # None => messages # <<>> /\ Head(messages) = replaying[c]

Order == TurnReplays /\ ReplaysWrite /\ (overlapped \/ (OneReplay /\ SuspendedOnFirst))

\* Only what was sent is being written.
WritesSent == \A m \in Message : writing[m] # None => m <= sent

Inv == TypeOK /\ Order /\ WritesSent /\ LossNeedsOverlap /\ Conserved

LEMMA NoneIsNeither ==
    /\ \A c \in Conn : c # None
    /\ \A m \in Message : m # None /\ m \in Nat /\ 1 <= m /\ m <= MaxSent
    /\ MaxSent \in Nat /\ Errors \subseteq Link /\ Errors \subseteq {"reset", "pipe"}
  BY ReplayAssumption DEF ReplayAssumption, Message, Link

\* The writes of messages that are suspended.
Writes == {m \in Message : writing[m] # None}

LEMMA WritesFinite == IsFiniteSet(Message) /\ IsFiniteSet(Writes) /\ Cardinality(Writes) \in Nat
  <1>1. IsFiniteSet(Message)
    BY ReplayAssumption, FS_Interval DEF ReplayAssumption, Message
  <1>2. Writes \in SUBSET Message
    BY DEF Writes
  <1> QED BY <1>1, <1>2, FS_Subset, FS_CardinalityType

LEMMA InitInv == Init => Inv
  <1> SUFFICES ASSUME Init PROVE Inv
    OBVIOUS
  <1> USE NoneIsNeither DEF Init
  <1>1. TypeOK
    <2>1. <<>> \in Seq(Message) /\ 0 \in 0..MaxSent
      BY EmptySeq
    <2>2. link \in [Conn -> Link]
      BY DEF Link
    <2> QED BY <2>1, <2>2 DEF TypeOK
  <1>2. Order
    BY DEF Order, ReplaysWrite, OneReplay, TurnReplays, SuspendedOnFirst
  <1>3. Accounted
    <2> SUFFICES ASSUME NEW m \in Message
                 PROVE  Times(m, <<>>) + Times(m, <<>>) + Times(m, <<>>)
                            + (IF writing[m] = None THEN 0 ELSE 1)
                          = IF m <= sent THEN 1 ELSE 0
      BY DEF Accounted
    <2>1. Times(m, <<>>) = 0
      BY TimesEmpty
    <2> QED BY <2>1
  <1>4. Conserved
    <2>1. {m \in Message : writing[m] # None} = {}
      OBVIOUS
    <2>2. Cardinality({m \in Message : writing[m] # None}) = 0
      BY <2>1, FS_EmptySet
    <2> QED BY <2>2, EmptySeq DEF Conserved
  <1>5. WritesSent
    BY DEF WritesSent
  <1> QED BY <1>1, <1>2, <1>3, <1>4, <1>5 DEF Inv, LossNeedsOverlap

LEMMA AppendTail ==
    \A list \in Seq(Message), e \in Message :
        /\ Append(list, e) # <<>> /\ Tail(Append(list, e)) \in Seq(Message)
        /\ list # <<>> => Head(Append(list, e)) = Head(list)
  <1> SUFFICES ASSUME NEW list \in Seq(Message), NEW e \in Message
               PROVE  /\ Append(list, e) # <<>> /\ Tail(Append(list, e)) \in Seq(Message)
                      /\ list # <<>> => Head(Append(list, e)) = Head(list)
    OBVIOUS
  <1>1. PICK longer \in Seq(Message) : longer = Append(list, e) /\ longer # <<>>
    BY AppendProperties
  <1>2. Tail(longer) \in Seq(Message)
    BY <1>1, HeadTailProperties
  <1>3. list # <<>> => Head(longer) = Head(list)
    BY <1>1, HeadTailAppend
  <1> QED BY <1>1, <1>2, <1>3

LEMMA TypeStep == TypeOK /\ [Next]_vars => TypeOK'
  <1> SUFFICES ASSUME TypeOK, [Next]_vars PROVE TypeOK'
    OBVIOUS
  <1> USE NoneIsNeither DEF TypeOK, session, transfers
  <1>t. \A how \in Errors \cup {"closed", "left", "closing", "up"} : how \in Link
    BY DEF Link
  <1>m. messages # <<>> => Head(messages) \in Message /\ Tail(messages) \in Seq(Message)
    BY HeadTailProperties
  <1>a. \A m \in Message : /\ Append(messages, m) \in Seq(Message)
                           /\ Append(received, m) \in Seq(Message)
                           /\ Append(gone, m) \in Seq(Message)
    BY TimesAppend
  <1>r. \A m \in Message : Rotated(m) \in Seq(Message)
    BY <1>a, AppendTail DEF Rotated
  <1>1. ASSUME NEW c \in Conn, Connect(c) PROVE TypeOK'
    BY <1>1, <1>t DEF Connect
  <1>2. ASSUME NEW c \in Conn, ConnectTooEarly(c) PROVE TypeOK'
    BY <1>2, <1>t DEF ConnectTooEarly
  <1>3. ASSUME NEW c \in Conn, Leave(c) PROVE TypeOK'
    BY <1>3, <1>t DEF Leave
  <1>4. ASSUME NEW c \in Conn, ReplayDelivers(c) PROVE TypeOK'
    BY <1>4, <1>m, <1>a DEF ReplayDelivers
  <1>5. ASSUME NEW c \in Conn, ReplaySwallowed(c) PROVE TypeOK'
    BY <1>5, <1>m, <1>a DEF ReplaySwallowed
  <1>6. ASSUME NEW c \in Conn, ReplayRotates(c) PROVE TypeOK'
    BY <1>6, <1>m, <1>r DEF ReplayRotates
  <1>7. ASSUME NEW c \in Conn, ReplaySuspends(c) PROVE TypeOK'
    BY <1>7, <1>m, <1>t DEF ReplaySuspends
  <1>8. ASSUME NEW c \in Conn, ReplayResumes(c) PROVE TypeOK'
    BY <1>8, <1>r DEF ReplayResumes
  <1>9. ASSUME NEW c \in Conn, ReplayFails(c) PROVE TypeOK'
    BY <1>9 DEF ReplayFails
  <1>10. ASSUME NEW c \in Conn, ReplayDone(c) PROVE TypeOK'
    BY <1>10 DEF ReplayDone
  <1>11. ASSUME NEW c \in Conn, ConnectionLost(c) PROVE TypeOK'
    BY <1>11, <1>t DEF ConnectionLost
  <1>12. ASSUME NEW c \in Conn, HandlerEnds(c) PROVE TypeOK'
    BY <1>12, <1>t DEF HandlerEnds
  <1>13. ASSUME NEW c \in Conn, Send(c) PROVE TypeOK'
    <2>1. sent' \in Message /\ sent' \in 0..MaxSent
      BY <1>13 DEF Send, Message
    <2>2. /\ messages' \in Seq(Message) /\ received' \in Seq(Message) /\ gone' \in Seq(Message)
          /\ link' \in [Conn -> Link] /\ writing' \in [Message -> Conn \cup {None}]
      BY <1>13, <1>a, <1>t, <2>1, ZenonT(30) DEF Send
    <2> QED BY <1>13, <2>1, <2>2 DEF Send
  <1>14. ASSUME NEW m \in Message, WriteResumes(m) PROVE TypeOK'
    BY <1>14, <1>a DEF WriteResumes
  <1>15. ASSUME UNCHANGED vars PROVE TypeOK'
    BY <1>15 DEF vars
  <1> QED
    BY <1>1, <1>2, <1>3, <1>4, <1>5, <1>6, <1>7, <1>8, <1>9, <1>10, <1>11, <1>12, <1>13, <1>14,
       <1>15 DEF Next, ServerStep

LEMMA OrderStep == Inv /\ [Next]_vars => Order'
  <1> SUFFICES ASSUME Inv, [Next]_vars PROVE Order'
    OBVIOUS
  <1> USE NoneIsNeither
      DEF Inv, TypeOK, Order, TurnReplays, ReplaysWrite, OneReplay, SuspendedOnFirst,
          session, transfers
  <1>h. \A m \in Message : messages # <<>> =>
            Append(messages, m) # <<>> /\ Head(Append(messages, m)) = Head(messages)
    BY AppendTail
  <1>1. ASSUME NEW c \in Conn, Connect(c) PROVE Order'
    <2>1. turn = None /\ phase[c] = "new"
      BY <1>1 DEF Connect
    <2>2. ~overlapped' => \A d \in Conn : replaying[d] = None /\ phase[d] # "replay"
      BY <1>1, <2>1 DEF Connect
    <2> QED BY <1>1, <2>1, <2>2 DEF Connect
  <1>2. ASSUME NEW c \in Conn, ConnectTooEarly(c) PROVE Order'
    BY <1>2 DEF ConnectTooEarly
  <1>3. ASSUME NEW c \in Conn, Leave(c) PROVE Order'
    BY <1>3 DEF Leave
  <1>4. ASSUME NEW c \in Conn, ReplayDelivers(c) PROVE Order'
    BY <1>4 DEF ReplayDelivers
  <1>5. ASSUME NEW c \in Conn, ReplaySwallowed(c) PROVE Order'
    BY <1>5 DEF ReplaySwallowed
  <1>6. ASSUME NEW c \in Conn, ReplayRotates(c) PROVE Order'
    BY <1>6 DEF ReplayRotates
  <1>7. ASSUME NEW c \in Conn, ReplaySuspends(c) PROVE Order'
    BY <1>7 DEF ReplaySuspends
  <1>8. ASSUME NEW c \in Conn, ReplayResumes(c) PROVE Order'
    BY <1>8 DEF ReplayResumes
  <1>9. ASSUME NEW c \in Conn, ReplayFails(c) PROVE Order'
    BY <1>9 DEF ReplayFails
  <1>10. ASSUME NEW c \in Conn, ReplayDone(c) PROVE Order'
    BY <1>10 DEF ReplayDone
  <1>11. ASSUME NEW c \in Conn, ConnectionLost(c) PROVE Order'
    BY <1>11 DEF ConnectionLost
  <1>12. ASSUME NEW c \in Conn, HandlerEnds(c) PROVE Order'
    BY <1>12 DEF HandlerEnds
  <1>13. ASSUME NEW c \in Conn, Send(c) PROVE Order'
    <2>1. sent' \in Message
      BY <1>13 DEF Send, Message
    <2> QED BY <1>13, <1>h, <2>1 DEF Send
  <1>14. ASSUME NEW m \in Message, WriteResumes(m) PROVE Order'
    BY <1>14, <1>h DEF WriteResumes
  <1>15. ASSUME UNCHANGED vars PROVE Order'
    BY <1>15 DEF vars
  <1> QED
    BY <1>1, <1>2, <1>3, <1>4, <1>5, <1>6, <1>7, <1>8, <1>9, <1>10, <1>11, <1>12, <1>13, <1>14,
       <1>15 DEF Next, ServerStep

LEMMA WritesStep == TypeOK /\ WritesSent /\ [Next]_vars => WritesSent'
  <1> SUFFICES ASSUME TypeOK, WritesSent, [Next]_vars PROVE WritesSent'
    OBVIOUS
  <1> USE NoneIsNeither DEF TypeOK, WritesSent, transfers
  <1>1. ASSUME UNCHANGED <<writing, sent>> PROVE WritesSent'
    BY <1>1
  <1>2. ASSUME NEW c \in Conn, Send(c) PROVE WritesSent'
    <2>1. sent' = sent + 1 /\ sent' \in Message
      BY <1>2 DEF Send, Message
    <2>2. writing' = writing \/ writing' = [writing EXCEPT ![sent'] = c]
      BY <1>2, Zenon DEF Send
    <2> QED BY <2>1, <2>2
  <1>3. ASSUME NEW m \in Message, WriteResumes(m) PROVE WritesSent'
    BY <1>3 DEF WriteResumes
  <1> QED
    BY <1>1, <1>2, <1>3
       DEF Next, ServerStep, Connect, ConnectTooEarly, Leave, ReplayDelivers, ReplaySwallowed,
           ReplayRotates, ReplaySuspends, ReplayResumes, ReplayFails, ReplayDone,
           ConnectionLost, HandlerEnds, vars

-----------------------------------------------------------------------------
(* Where each message is, as long as replays have not overlapped.          *)

Whereabouts(m) ==
    Times(m, received) + Times(m, messages) + Times(m, gone)
        + (IF writing[m] = None THEN 0 ELSE 1)

LEMMA AccountedStep == Inv /\ [Next]_vars => LossNeedsOverlap'
  <1> SUFFICES ASSUME Inv, [Next]_vars, ~overlapped', NEW m \in Message
               PROVE  Whereabouts(m)' = IF m <= sent' THEN 1 ELSE 0
    BY DEF LossNeedsOverlap, Accounted, Whereabouts
  <1> DEFINE Goal == Whereabouts(m)' = IF m <= sent' THEN 1 ELSE 0
  <1> USE NoneIsNeither DEF Inv, TypeOK, session, transfers
  <1>o. ~overlapped
    BY DEF Next, ServerStep, Connect, ConnectTooEarly, Leave, ReplayDelivers, ReplaySwallowed,
           ReplayRotates, ReplaySuspends, ReplayResumes, ReplayFails, ReplayDone,
           ConnectionLost, HandlerEnds, Send, WriteResumes, vars
  <1>n. Times(m, received) \in Nat /\ Times(m, messages) \in Nat /\ Times(m, gone) \in Nat
    BY PlacesFinite
  <1>w. Whereabouts(m) = IF m <= sent THEN 1 ELSE 0
    BY <1>o DEF LossNeedsOverlap, Accounted, Whereabouts
  <1>a. \A e \in Message :
            /\ Times(m, Append(received, e)) = Times(m, received) + (IF m = e THEN 1 ELSE 0)
            /\ Times(m, Append(messages, e)) = Times(m, messages) + (IF m = e THEN 1 ELSE 0)
            /\ Times(m, Append(gone, e)) = Times(m, gone) + (IF m = e THEN 1 ELSE 0)
    BY TimesAppend
  <1>t. messages # <<>> =>
            /\ Head(messages) \in Message /\ Times(m, Tail(messages)) \in Nat
            /\ Times(m, messages) =
                  Times(m, Tail(messages)) + (IF m = Head(messages) THEN 1 ELSE 0)
            /\ Times(m, Rotated(Head(messages))) = Times(m, messages)
    BY TimesTail, TimesRotated DEF Rotated
  <1>s. ASSUME UNCHANGED <<messages, received, gone, writing, sent>> PROVE Goal
    BY <1>s, <1>w DEF Whereabouts
  <1>r. ASSUME messages # <<>>, messages' = Rotated(Head(messages)),
               UNCHANGED <<received, gone, writing, sent>>
        PROVE  Goal
    BY <1>r, <1>t, <1>w DEF Whereabouts
  <1>3. ASSUME NEW c \in Conn, ReplayDelivers(c) PROVE Goal
    <2>1. PICK e \in Message : e = Head(messages)
      BY <1>3, <1>t DEF ReplayDelivers
    <2>2. /\ Times(m, received') = Times(m, received) + (IF m = e THEN 1 ELSE 0)
          /\ Times(m, messages) = Times(m, messages') + (IF m = e THEN 1 ELSE 0)
          /\ Times(m, messages') \in Nat
      BY <1>3, <1>a, <1>t, <2>1 DEF ReplayDelivers
    <2>3. UNCHANGED <<gone, writing, sent>>
      BY <1>3 DEF ReplayDelivers
    <2> QED BY <1>n, <1>w, <2>2, <2>3 DEF Whereabouts
  <1>4. ASSUME NEW c \in Conn, ReplaySwallowed(c) PROVE Goal
    <2>1. PICK e \in Message : e = Head(messages)
      BY <1>4, <1>t DEF ReplaySwallowed
    <2>2. /\ Times(m, gone') = Times(m, gone) + (IF m = e THEN 1 ELSE 0)
          /\ Times(m, messages) = Times(m, messages') + (IF m = e THEN 1 ELSE 0)
          /\ Times(m, messages') \in Nat
      BY <1>4, <1>a, <1>t, <2>1 DEF ReplaySwallowed
    <2>3. UNCHANGED <<received, writing, sent>>
      BY <1>4 DEF ReplaySwallowed
    <2> QED BY <1>n, <1>w, <2>2, <2>3 DEF Whereabouts
  <1>5. ASSUME NEW c \in Conn, ReplayRotates(c) PROVE Goal
    BY <1>5, <1>r DEF ReplayRotates
  <1>7. ASSUME NEW c \in Conn, ReplayResumes(c) PROVE Goal
    <2>1. messages # <<>> /\ Head(messages) = replaying[c]
      BY <1>7, <1>o DEF ReplayResumes, Order, SuspendedOnFirst
    <2> QED BY <1>7, <1>r, <2>1 DEF ReplayResumes
  <1>12. ASSUME NEW c \in Conn, Send(c) PROVE Goal
    <2>1. sent' \in Message /\ sent' = sent + 1
      BY <1>12 DEF Send, Message
    <2>2. m <= sent' <=> m <= sent \/ m = sent'
      BY <2>1
    <2>3. m = sent' => /\ Times(m, received) = 0 /\ Times(m, messages) = 0
                       /\ Times(m, gone) = 0 /\ writing[m] = None
      BY <1>n, <1>w, <2>1 DEF Whereabouts
    <2>4. CASE received' = Append(received, sent') /\ UNCHANGED <<messages, writing, gone>>
      BY <1>a, <1>n, <1>w, <2>1, <2>2, <2>3, <2>4 DEF Whereabouts
    <2>5. CASE gone' = Append(gone, sent') /\ UNCHANGED <<messages, writing, received>>
      BY <1>a, <1>n, <1>w, <2>1, <2>2, <2>3, <2>5 DEF Whereabouts
    <2>6. CASE messages' = Append(messages, sent') /\ UNCHANGED <<writing, received, gone>>
      BY <1>a, <1>n, <1>w, <2>1, <2>2, <2>3, <2>6 DEF Whereabouts
    <2>7. CASE /\ writing' = [writing EXCEPT ![sent'] = c]
               /\ UNCHANGED <<messages, received, gone>>
      <3>1. writing'[m] = IF m = sent' THEN c ELSE writing[m]
        BY <2>1, <2>7
      <3>2. UNCHANGED <<messages, received, gone>> /\ c # None
        BY <2>7
      <3> HIDE DEF Inv, TypeOK
      <3> QED BY <1>n, <1>w, <2>1, <2>2, <2>3, <3>1, <3>2 DEF Whereabouts
    <2>8. \/ received' = Append(received, sent') /\ UNCHANGED <<messages, writing, gone>>
          \/ gone' = Append(gone, sent') /\ UNCHANGED <<messages, writing, received>>
          \/ messages' = Append(messages, sent') /\ UNCHANGED <<writing, received, gone>>
          \/ /\ writing' = [writing EXCEPT ![sent'] = c]
             /\ UNCHANGED <<messages, received, gone>>
      BY <1>12, Zenon DEF Send
    <2> HIDE DEF Goal
    <2> QED BY <2>4, <2>5, <2>6, <2>7, <2>8
  <1>13. ASSUME NEW k \in Message, WriteResumes(k) PROVE Goal
    <2>1. writing'[m] = IF m = k THEN None ELSE writing[m]
      BY <1>13 DEF WriteResumes
    <2>2. Times(m, messages') = Times(m, messages) + (IF m = k THEN 1 ELSE 0)
      BY <1>13, <1>a DEF WriteResumes
    <2>3. writing[k] # None /\ UNCHANGED <<received, gone, sent>>
      BY <1>13 DEF WriteResumes
    <2>4. m = k => /\ Times(m, received) = 0 /\ Times(m, messages) = 0
                   /\ Times(m, gone) = 0 /\ m <= sent
      BY <1>n, <1>w, <2>3 DEF Whereabouts
    <2> QED BY <1>n, <1>w, <2>1, <2>2, <2>3, <2>4 DEF Whereabouts
  <1> QED
    BY <1>s, <1>3, <1>4, <1>5, <1>7, <1>12, <1>13
       DEF Next, ServerStep, Connect, ConnectTooEarly, Leave, ReplaySuspends, ReplayFails,
           ReplayDone, ConnectionLost, HandlerEnds, vars

-----------------------------------------------------------------------------
(* How many messages there are, however replays overlap.                   *)

LEMMA LenAppend ==
    \A list \in Seq(Message), e \in Message :
        Len(list) \in Nat /\ Len(Append(list, e)) = Len(list) + 1
  BY AppendProperties, LenProperties

LEMMA LenTail ==
    \A list \in Seq(Message) : list # <<>> => Len(list) \in Nat /\ Len(list) = Len(Tail(list)) + 1
  BY HeadTailProperties, LenProperties, EmptySeq

LEMMA LenRotated ==
    \A list \in Seq(Message), e \in Message : Len(Tail(Append(list, e))) = Len(list)
  <1> SUFFICES ASSUME NEW list \in Seq(Message), NEW e \in Message
               PROVE  Len(Tail(Append(list, e))) = Len(list)
    OBVIOUS
  <1>1. PICK longer \in Seq(Message) : longer = Append(list, e)
    BY TimesAppend
  <1>2. longer # <<>> /\ Len(longer) = Len(list) + 1 /\ Len(list) \in Nat
    BY <1>1, LenAppend, EmptySeq
  <1> QED BY <1>1, <1>2, LenTail, LenProperties

LEMMA ConservedStep == Inv /\ [Next]_vars => Conserved'
  <1> SUFFICES ASSUME Inv, [Next]_vars
               PROVE  sent' = Len(received') + Len(messages') + Len(gone') + Cardinality(Writes')
    BY DEF Conserved, Writes
  <1> DEFINE Goal == sent' = Len(received') + Len(messages') + Len(gone') + Cardinality(Writes')
  <1> USE NoneIsNeither DEF Inv, TypeOK, session, transfers
  <1>n. /\ Len(received) \in Nat /\ Len(messages) \in Nat /\ Len(gone) \in Nat
        /\ Cardinality(Writes) \in Nat /\ sent \in Nat
    BY LenProperties, WritesFinite
  <1>w. sent = Len(received) + Len(messages) + Len(gone) + Cardinality(Writes)
    BY DEF Conserved, Writes
  <1>u. writing' = writing => Writes' = Writes
    BY DEF Writes
  <1>s. ASSUME UNCHANGED <<messages, received, gone, writing, sent>> PROVE Goal
    BY <1>s, <1>w, <1>u
  <1>r. ASSUME NEW m \in Message, messages' = Rotated(m),
               UNCHANGED <<received, gone, writing, sent>>
        PROVE  Goal
    <2>1. Len(messages') = Len(messages)
      BY <1>r, LenRotated DEF Rotated
    <2> QED BY <1>r, <1>u, <1>w, <2>1
  <1>h. messages # <<>> => /\ Head(messages) \in Message
                           /\ Len(messages) = Len(Tail(messages)) + 1
                           /\ Len(Tail(messages)) \in Nat
    BY HeadTailProperties, LenTail, LenProperties
  <1>3. ASSUME NEW c \in Conn, ReplayDelivers(c) PROVE Goal
    <2>1. Len(received') = Len(received) + 1 /\ Len(messages) = Len(messages') + 1
          /\ Len(messages') \in Nat
      BY <1>3, <1>h, LenAppend DEF ReplayDelivers
    <2>2. UNCHANGED <<gone, writing, sent>>
      BY <1>3 DEF ReplayDelivers
    <2> HIDE DEF Inv, TypeOK, transfers
    <2> QED BY <1>n, <1>u, <1>w, <2>1, <2>2
  <1>4. ASSUME NEW c \in Conn, ReplaySwallowed(c) PROVE Goal
    <2>1. Len(gone') = Len(gone) + 1 /\ Len(messages) = Len(messages') + 1
          /\ Len(messages') \in Nat
      BY <1>4, <1>h, LenAppend DEF ReplaySwallowed
    <2>2. UNCHANGED <<received, writing, sent>>
      BY <1>4 DEF ReplaySwallowed
    <2> HIDE DEF Inv, TypeOK, transfers
    <2> QED BY <1>n, <1>u, <1>w, <2>1, <2>2
  <1>5. ASSUME NEW c \in Conn, ReplayRotates(c) PROVE Goal
    BY <1>5, <1>r, <1>h DEF ReplayRotates
  <1>7. ASSUME NEW c \in Conn, ReplayResumes(c) PROVE Goal
    BY <1>7, <1>r DEF ReplayResumes
  <1>12. ASSUME NEW c \in Conn, Send(c) PROVE Goal
    <2>1. sent' \in Message /\ sent' = sent + 1
      BY <1>12 DEF Send, Message
    <2>2. /\ Len(Append(received, sent')) = Len(received) + 1
          /\ Len(Append(messages, sent')) = Len(messages) + 1
          /\ Len(Append(gone, sent')) = Len(gone) + 1
      BY <2>1, LenAppend
    <2>3. ASSUME writing' = [writing EXCEPT ![sent'] = c]
          PROVE  Cardinality(Writes') = Cardinality(Writes) + 1
      <3>1. sent' \notin Writes
        BY <2>1 DEF Writes, WritesSent
      <3>2. Writes' = Writes \cup {sent'}
        BY <2>1, <2>3 DEF Writes
      <3> QED BY <3>1, <3>2, WritesFinite, FS_AddElement
    <2>4. \/ received' = Append(received, sent') /\ UNCHANGED <<messages, writing, gone>>
          \/ gone' = Append(gone, sent') /\ UNCHANGED <<messages, writing, received>>
          \/ messages' = Append(messages, sent') /\ UNCHANGED <<writing, received, gone>>
          \/ /\ writing' = [writing EXCEPT ![sent'] = c]
             /\ UNCHANGED <<messages, received, gone>>
      BY <1>12, Zenon DEF Send
    <2> HIDE DEF Inv, TypeOK, transfers
    <2>5. CASE received' = Append(received, sent') /\ UNCHANGED <<messages, writing, gone>>
      BY <1>n, <1>u, <1>w, <2>1, <2>2, <2>5
    <2>6. CASE gone' = Append(gone, sent') /\ UNCHANGED <<messages, writing, received>>
      BY <1>n, <1>u, <1>w, <2>1, <2>2, <2>6
    <2>7. CASE messages' = Append(messages, sent') /\ UNCHANGED <<writing, received, gone>>
      BY <1>n, <1>u, <1>w, <2>1, <2>2, <2>7
    <2>8. CASE /\ writing' = [writing EXCEPT ![sent'] = c]
               /\ UNCHANGED <<messages, received, gone>>
      BY <1>n, <1>w, <2>1, <2>3, <2>8
    <2> HIDE DEF Goal
    <2> QED BY <2>4, <2>5, <2>6, <2>7, <2>8
  <1>13. ASSUME NEW k \in Message, WriteResumes(k) PROVE Goal
    <2>1. k \in Writes /\ Writes' = Writes \ {k}
      BY <1>13 DEF WriteResumes, Writes
    <2>2. Cardinality(Writes') = Cardinality(Writes) - 1
      BY <2>1, WritesFinite, FS_RemoveElement
    <2>3. Len(messages') = Len(messages) + 1
      BY <1>13, LenAppend DEF WriteResumes
    <2>4. UNCHANGED <<received, gone, sent>>
      BY <1>13 DEF WriteResumes
    <2> QED BY <1>n, <1>w, <2>2, <2>3, <2>4
  <1> QED
    BY <1>s, <1>3, <1>4, <1>5, <1>7, <1>12, <1>13
       DEF Next, ServerStep, Connect, ConnectTooEarly, Leave, ReplaySuspends, ReplayFails,
           ReplayDone, ConnectionLost, HandlerEnds, vars

-----------------------------------------------------------------------------
(* The theorems.                                                           *)

LEMMA Invariant == Spec => []Inv
  <1>1. Inv /\ [Next]_vars => Inv'
    BY TypeStep, OrderStep, WritesStep, AccountedStep, ConservedStep DEF Inv
  <1> QED BY <1>1, InitInv, PTL DEF Spec

\* The state stays of its types: in particular no replay, not even one of two,
\* pops from an empty list or takes a message that is none.
THEOREM TypeCorrect == Spec => []TypeOK
  <1>1. Inv => TypeOK
    BY DEF Inv
  <1> QED BY <1>1, Invariant, PTL

\* Until a client comes back while a replay is suspended, there is one replay at
\* most, and one that is suspended in a write is about to pop the message it
\* writes, whatever other tasks have appended since and whatever is sent through
\* older connections (the messages[0], write and pop(0) of
\* read_connect_packet_data).
THEOREM PopsWhatItWrote == Spec => [](overlapped \/ (OneReplay /\ SuspendedOnFirst))
  <1>1. Inv => overlapped \/ (OneReplay /\ SuspendedOnFirst)
    BY DEF Inv, Order
  <1> QED BY <1>1, Invariant, PTL

\* Unless replays have overlapped, each message that was sent has arrived, was
\* given to a dead socket, or waits in the session or in a write that puts it
\* there, and is in one place only.
THEOREM NothingLost == Spec => []LossNeedsOverlap
  <1>1. Inv => LossNeedsOverlap
    BY DEF Inv
  <1> QED BY <1>1, Invariant, PTL

\* However many replays overlap, the number of messages that have arrived, were
\* given to dead sockets, are kept or being written is the number sent.
THEOREM NumberKept == Spec => []Conserved
  <1>1. Inv => Conserved
    BY DEF Inv
  <1> QED BY <1>1, Invariant, PTL
=============================================================================
