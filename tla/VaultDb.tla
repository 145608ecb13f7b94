------------------------------- MODULE VaultDb -------------------------------
(***************************************************************************)
(* The vault's methods on the database they share (src/nagus/state.py).    *)
(*                                                                         *)
(* Database has one sqlite3 connection and an executor with one thread.    *)
(* A method that writes is a sequence of jobs for that thread (enter the   *)
(* connection, make a cursor, execute, fetch, close the cursor, exit the   *)
(* connection), each awaited before the next one is submitted.  So calls   *)
(* overlap between jobs, and what one call's exit commits or rolls back is *)
(* what all of them have executed.                                         *)
(*                                                                         *)
(* The thread and the event loop are both first in, first out and a call   *)
(* has one job at a time, so a finished job's successor joins the end of   *)
(* the queue.  Methods that only read change nothing here.                 *)
(***************************************************************************)
EXTENDS Naturals, Sequences, FiniteSets, FiniteSetsExt

CONSTANTS
    Call,       \* calls of the vault's writing methods
    Request,    \* what may be asked of them
    Nodes0,     \* nodes of the vault when the server starts
    MaxCrash    \* bound on the crashes

RequestsAssumption ==
    /\ Request \subseteq [kind : {"create", "update", "delete", "addRef", "removeRef"},
                          node : Nat, child : Nat]
    /\ Nodes0 \subseteq Nat \ {0} /\ IsFiniteSet(Nodes0)
    /\ MaxCrash \in Nat

ASSUME RequestsAssumption

VARIABLES
    work,      \* the vault as the connection sees it
    saved,     \* the vault as committed
    open,      \* the connection is in a transaction
    queue,     \* calls whose next job waits for the thread
    call,      \* where the calls are
    company,   \* history: the calls that overlapped with a call
    crashes

vars == <<work, saved, open, queue, call, company, crashes>>

Vault ==
    [nodes  : SUBSET Nat,
     refs   : SUBSET (Nat \X Nat),
     writes : SUBSET Call]           \* the calls whose statements made it

Stage == {"idle", "enter", "cursor", "execute", "fetch", "close", "exit",
          "answered", "refused", "lost"}

NoRequest == [kind |-> "none", node |-> 0, child |-> 0]

TypeOK ==
    /\ work \in Vault /\ saved \in Vault
    /\ open \in BOOLEAN
    /\ queue \in Seq(Call)
    /\ call \in [Call -> [stage : Stage, request : Request \cup {NoRequest},
                          raised : BOOLEAN]]
    /\ company \in [Call -> SUBSET Call]
    /\ crashes \in 0..MaxCrash

Fresh == [nodes |-> Nodes0, refs |-> {}, writes |-> {}]

Init ==
    /\ work = Fresh
    /\ saved = Fresh
    /\ open = FALSE
    /\ queue = <<>>
    /\ call = [t \in Call |-> [stage |-> "idle", request |-> NoRequest, raised |-> FALSE]]
    /\ company = [t \in Call |-> {}]
    /\ crashes = 0

UnderWay == {t \in Call : call[t].stage \in {"enter", "cursor", "execute", "fetch", "close", "exit"}}

-----------------------------------------------------------------------------
(* The statements.  A node of which nothing is left in the database can be *)
(* neither updated nor deleted, the schema's foreign keys and primary keys *)
(* do the rest.                                                            *)

\* A mutant: the foreign keys are off, as sqlite has them by default.
SucceedsUnlessAbsent(v, r) ==
    \/ r.kind \in {"create", "addRef"}
    \/ r.kind \in {"update", "delete"} /\ r.node \in v.nodes
    \/ r.kind = "removeRef" /\ <<r.node, r.child>> \in v.refs

Succeeds(v, r) ==
    \/ r.kind = "create"
    \/ r.kind = "update" /\ r.node \in v.nodes
    \/ r.kind = "delete" /\ r.node \in v.nodes
         /\ \A ref \in v.refs : r.node \notin {ref[1], ref[2]}
    \/ r.kind = "addRef" /\ {r.node, r.child} \subseteq v.nodes
         /\ <<r.node, r.child>> \notin v.refs
    \/ r.kind = "removeRef" /\ <<r.node, r.child>> \in v.refs

\* A mutant: lastrowid of a statement that inserted nothing.
NewNodeUnset(v) == 0 - 1

\* An integer primary key that is left out is one more than the largest.
NewNode(v) == Max(v.nodes \cup {0}) + 1

Execution(v, t, r) ==
    [nodes  |-> CASE r.kind = "create" -> v.nodes \cup {NewNode(v)}
                  [] r.kind = "delete" -> v.nodes \ {r.node}
                  [] OTHER -> v.nodes,
     refs   |-> CASE r.kind = "addRef" -> v.refs \cup {<<r.node, r.child>>}
                  [] r.kind = "removeRef" -> v.refs \ {<<r.node, r.child>>}
                  [] OTHER -> v.refs,
     writes |-> v.writes \cup {t}]

-----------------------------------------------------------------------------
(* The event loop and the executor's thread.                               *)

\* A client's message, or one more step of a message, calls a method.
Arrive(t, r) ==
    /\ call[t].stage = "idle"
    /\ call' = [call EXCEPT ![t].stage = "enter", ![t].request = r]
    /\ queue' = Append(queue, t)
    /\ company' = [u \in Call |-> IF u = t THEN UnderWay
                                  ELSE IF u \in UnderWay THEN company[u] \cup {t}
                                  ELSE company[u]]
    /\ UNCHANGED <<work, saved, open, crashes>>

\* A mutant: fetching goes on after the only row.
StepsRefetching ==
    [enter |-> "cursor", cursor |-> "execute", execute |-> "fetch",
     fetch |-> "fetch", close |-> "exit"]

\* The order of the jobs; only a creation has a row to fetch.
Steps ==
    [enter |-> "cursor", cursor |-> "execute", execute |-> "fetch",
     fetch |-> "close", close |-> "exit"]

\* A mutant: a call that raises closes its cursor but never leaves the connection.
FollowingWithoutExit(t) ==
    IF call[t].raised THEN "refused"
    ELSE IF call[t].stage = "execute" /\ call[t].request.kind # "create" THEN "close"
    ELSE Steps[call[t].stage]

Following(t) ==
    IF call[t].stage = "execute" /\ call[t].request.kind # "create" THEN "close"
    ELSE Steps[call[t].stage]

Requeue == queue' = Append(Tail(queue), Head(queue))

\* Jobs that change nothing in the database.
Proceed ==
    /\ queue # <<>>
    /\ call[Head(queue)].stage \in {"enter", "cursor", "fetch", "close"}
    /\ Requeue
    /\ call' = [call EXCEPT ![Head(queue)].stage = Following(Head(queue))]
    /\ UNCHANGED <<work, saved, open, company, crashes>>

\* sqlite3 begins a transaction before the first statement that writes.
Execute ==
    /\ queue # <<>>
    /\ LET t == Head(queue)
           r == call[t].request
           fine == Succeeds(work, r)
       IN  /\ call[t].stage = "execute"
           /\ work' = IF fine THEN Execution(work, t, r) ELSE work
           /\ call' = [call EXCEPT ![t].stage = IF fine THEN Following(t) ELSE "close",
                                   ![t].raised = ~fine]
    /\ open' = TRUE
    /\ Requeue
    /\ UNCHANGED <<saved, company, crashes>>

\* "insert ... returning" is in progress until its row is fetched, and sqlite
\* cannot commit then: Connection.__exit__ rolls back and raises.
CannotCommit == open /\ \E u \in Call : call[u].stage = "fetch"

RollsBack(t) == call[t].raised \/ CannotCommit

\* A mutant: the error of a commit is swallowed.
VerdictSwallowing(t) == IF call[t].raised THEN "refused" ELSE "answered"

Verdict(t) == IF RollsBack(t) THEN "refused" ELSE "answered"
Undone == saved

\* Connection.__exit__, for all that was executed since the last one.
Exit ==
    /\ queue # <<>>
    /\ LET t == Head(queue)
       IN  /\ call[t].stage = "exit"
           /\ work' = IF RollsBack(t) THEN Undone ELSE work
           /\ saved' = IF RollsBack(t) THEN saved ELSE work
           /\ call' = [call EXCEPT ![t].stage = Verdict(t)]
    /\ open' = FALSE
    /\ queue' = Tail(queue)
    /\ UNCHANGED <<company, crashes>>

\* A mutant: the database is a temporary one.
RecoveredFresh == Fresh

\* The process dies and is started again: sqlite recovers what was committed.
Recovered == saved

Crash ==
    /\ crashes < MaxCrash
    /\ crashes' = crashes + 1
    /\ work' = Recovered
    /\ saved' = Recovered
    /\ open' = FALSE
    /\ queue' = <<>>
    /\ call' = [t \in Call |-> IF t \in UnderWay THEN [call[t] EXCEPT !.stage = "lost"]
                               ELSE call[t]]
    /\ UNCHANGED company

Job == Proceed \/ Execute \/ Exit

Next ==
    \/ \E t \in Call, r \in Request : Arrive(t, r)
    \/ Job
    \/ Crash

Spec == Init /\ [][Next]_vars

\* The thread runs what it is given, and the loop resumes who waits for it.
FairSpec == Spec /\ WF_vars(Job)
-----------------------------------------------------------------------------
(* Properties.                                                             *)

\* about.rst: the vault is saved persistently.  What a method reported as done
\* is committed.
AnsweredIsSaved == \A t \in Call : call[t].stage = "answered" => t \in saved.writes

\* What is true of it: only a call that was refused takes others down with it,
\* and only those that overlapped with it.
LossNeedsRefusal ==
    \A t \in Call : call[t].stage = "answered" /\ t \notin saved.writes =>
        \E u \in company[t] : call[u].stage = "refused"

\* Nothing that was committed is ever undone, by a rollback or by a crash.
SavedForGood == [][saved.writes \subseteq saved'.writes]_vars

\* No write waits in an open transaction for a call that may never come.
NothingLingers == UnderWay = {} => ~open /\ work = saved

\* The references of the vault always lead from node to node, through
\* concurrent deletions and partial rollbacks.
RefsResolve == saved.refs \subseteq saved.nodes \X saved.nodes

\* Nobody waits for ever for the database.
CallsReturn == \A t \in Call : t \in UnderWay ~> t \notin UnderWay
=============================================================================
