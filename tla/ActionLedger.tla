---------------------------- MODULE ActionLedger ----------------------------
(***************************************************************************)
(* Side effects of action nodes and the ledger that keeps one from being   *)
(* repeated (workflows/action-execution-ledger.ts, action-adapters.ts,     *)
(* action-provider-adapters.ts).  The ledger is part of the run record: it *)
(* is looked up before the request, updated in memory after the reply, and *)
(* saved with whatever save of the run comes next.                         *)
(***************************************************************************)
EXTENDS Integers, FiniteSets

CONSTANTS ActionNodes, ActionKeys,
  KeyOf, DigestOf,  \* per node: its idempotency key and what it proposes
  NeedsApproval,    \* the nodes with requiresApproval
  LooksFirst,       \* pull request nodes: an existing one is looked for first
  MaxTries,         \* per node: retry.maxAttempts
  MaxActionCrashes  \* bound on crashes

ASSUME ActionShapes ==
  /\ KeyOf \in [ActionNodes -> ActionKeys] /\ NeedsApproval \subseteq ActionNodes
  /\ DigestOf \in [ActionNodes -> Nat \ {0}]
  /\ LooksFirst \subseteq ActionNodes /\ MaxTries \in [ActionNodes -> Nat \ {0}]

VARIABLES
  record,       \* the run record in memory: node states and ledger
  recordSaved,  \* the same, as last saved
  effects,      \* per key: how often the provider performed the effect
  crashed,
  inDoubt       \* history: keys whose effect may have happened unrecorded

actionVars == <<record, recordSaved, effects, crashed, inDoubt>>

NoProposal == 0
NewNode == [pc |-> "queued", approved |-> FALSE, granted |-> FALSE, tries |-> 0]
NewRecord == [nodes |-> [n \in ActionNodes |-> NewNode], ledger |-> [k \in ActionKeys |-> NoProposal]]

ActionInit ==
  /\ record = NewRecord /\ recordSaved = NewRecord /\ crashed = 0
  /\ effects = [k \in ActionKeys |-> 0] /\ inDoubt = {}

NodeAt(n) == record.nodes[n].pc
Moved(n, pc) == [record EXCEPT !.nodes[n].pc = pc]
Tried(n, tries) == [Moved(n, "started") EXCEPT !.nodes[n].tries = tries]
Save(r) == record' = r /\ recordSaved' = r
Keep(r) == record' = r /\ UNCHANGED recordSaved

\* executeWorkflowNode: the node is saved as running before anything happens.
ActionStart(n) ==
  /\ NodeAt(n) = "queued" /\ Save(Tried(n, 1))
  /\ UNCHANGED <<effects, crashed, inDoubt>>

\* Variant for mutation testing: the ledger is not looked up.
SuppressedNever(n) == FALSE

\* suppressDuplicateAction: the key is in the ledger with the same proposal.
Suppressed(n) == record.ledger[KeyOf[n]] = DigestOf[n]
Conflicts(n) == record.ledger[KeyOf[n]] \notin {NoProposal, DigestOf[n]}

\* An approved node with an execution grant is left to the platform's broker.
Brokered(n) == n \in NeedsApproval /\ record.nodes[n].approved /\ record.nodes[n].granted

Asks(n) == n \in NeedsApproval /\ ~record.nodes[n].approved

\* classifyRetry: the node fails, or is tried again while attempts remain.
Retried(n) ==
  {Moved(n, "failed")} \cup
    (IF record.nodes[n].tries < MaxTries[n]
     THEN {Tried(n, record.nodes[n].tries + 1)} ELSE {})

\* executeActionAdapter up to the first request it makes.
ActionDecide(n) ==
  /\ NodeAt(n) = "started"
  /\ \/ Conflicts(n) /\ (\E r \in Retried(n) : Save(r)) /\ UNCHANGED inDoubt
     \/ ~Conflicts(n) /\ Asks(n) /\ Save(Moved(n, "awaiting")) /\ UNCHANGED inDoubt
     \/ /\ ~Conflicts(n) /\ ~Asks(n) /\ (Suppressed(n) \/ Brokered(n))
        /\ Save(Moved(n, "completed")) /\ UNCHANGED inDoubt
     \/ /\ ~Conflicts(n) /\ ~Asks(n) /\ ~Suppressed(n) /\ ~Brokered(n)
        /\ Keep(Moved(n, IF n \in LooksFirst THEN "looking" ELSE "sending"))
        /\ inDoubt' = IF \E m \in ActionNodes \ {n} :
                           KeyOf[m] = KeyOf[n] /\ NodeAt(m) \in {"looking", "sending", "performed"}
                      THEN inDoubt \cup {KeyOf[n]} ELSE inDoubt
  /\ UNCHANGED <<effects, crashed>>

\* rememberExecutedAction, with the reply handled in the same turn.
Remembered(n) == [Moved(n, "answered") EXCEPT !.ledger[KeyOf[n]] = DigestOf[n]]

\* existingGitHubPullRequest: found, or not found or not readable.
ActionLooks(n) ==
  /\ NodeAt(n) = "looking"
  /\ \/ effects[KeyOf[n]] > 0 /\ Keep(Remembered(n))
     \/ Keep(Moved(n, "sending"))
  /\ UNCHANGED <<effects, crashed, inDoubt>>

ProviderPerforms(n) ==
  /\ NodeAt(n) = "sending" /\ effects' = [effects EXCEPT ![KeyOf[n]] = @ + 1]
  /\ Keep(Moved(n, "performed")) /\ UNCHANGED <<crashed, inDoubt>>

ActionAnswered(n) ==
  /\ NodeAt(n) = "performed" /\ Keep(Remembered(n)) /\ UNCHANGED <<effects, crashed, inDoubt>>

\* The request fails: refused by the provider, or the answer is lost.
ActionFails(n) ==
  /\ \/ NodeAt(n) = "sending" /\ UNCHANGED inDoubt
     \/ NodeAt(n) = "performed" /\ inDoubt' = inDoubt \cup {KeyOf[n]}
  /\ \E r \in Retried(n) : Save(r)
  /\ UNCHANGED <<effects, crashed>>

ActionCompletes(n) ==
  /\ NodeAt(n) = "answered" /\ Save(Moved(n, "completed")) /\ UNCHANGED <<effects, crashed, inDoubt>>

\* decideApproval: the node runs again, with a grant when the platform brokers it.
Approved(n, grant) ==
  [record EXCEPT !.nodes[n] = [pc |-> "queued", approved |-> TRUE, granted |-> grant, tries |-> 0]]

ActionApproved(n) ==
  \E grant \in BOOLEAN :
    /\ NodeAt(n) = "awaiting" /\ Save(Approved(n, grant))
    /\ UNCHANGED <<effects, crashed, inDoubt>>

Settled == {"queued", "awaiting", "completed", "failed"}

\* The daemon dies and resumeOneRun puts what was running back in the queue.
Resumed ==
  [recordSaved EXCEPT !.nodes = [n \in ActionNodes |->
     IF recordSaved.nodes[n].pc \in Settled THEN recordSaved.nodes[n]
     ELSE [recordSaved.nodes[n] EXCEPT !.pc = "queued"]]]

ActionCrash ==
  /\ crashed < MaxActionCrashes /\ crashed' = crashed + 1 /\ Save(Resumed)
  /\ inDoubt' = inDoubt \cup {KeyOf[n] : n \in {m \in ActionNodes :
                    NodeAt(m) \in {"performed", "answered"}
                      /\ recordSaved.ledger[KeyOf[m]] = NoProposal}}
  /\ UNCHANGED effects

ActionNext ==
  \/ \E n \in ActionNodes :
       \/ ActionStart(n) \/ ActionDecide(n) \/ ActionLooks(n) \/ ProviderPerforms(n)
       \/ ActionAnswered(n) \/ ActionFails(n) \/ ActionCompletes(n) \/ ActionApproved(n)
  \/ ActionCrash

ActionSpec == ActionInit /\ [][ActionNext]_actionVars

ActionPcs == Settled \cup {"started", "looking", "sending", "performed", "answered"}
ActionRecords ==
  [nodes : [ActionNodes -> [pc : ActionPcs, approved : BOOLEAN, granted : BOOLEAN, tries : Nat]],
   ledger : [ActionKeys -> Nat]]

ActionTypeOK ==
  /\ record \in ActionRecords /\ recordSaved \in ActionRecords
  /\ \A n \in ActionNodes, r \in {record, recordSaved} : r.nodes[n].tries <= MaxTries[n]
  /\ effects \in [ActionKeys -> Nat] /\ inDoubt \subseteq ActionKeys

(* An effect is performed at most once per idempotency key, by however many
   nodes, retries and restarts, unless its outcome was in doubt: the answer
   was lost, the daemon died before a save, or two nodes with the key were
   in flight together.  And a completed action that was not left to the
   broker has been performed. *)
ActionOnce ==
  /\ \A k \in ActionKeys : k \in inDoubt \/ effects[k] <= 1
  /\ \A n \in ActionNodes :
       NodeAt(n) = "completed" /\ ~Brokered(n) => effects[KeyOf[n]] >= 1
=============================================================================
