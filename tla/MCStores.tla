------------------------------ MODULE MCStores -------------------------------
(***************************************************************************)
(* What is kept in files: the update journal, the context repository, the  *)
(* pairing offers, the worker's lock and pairing, the configuration, of a  *)
(* run's record its definition, the ledger of actions, the review of a     *)
(* publication and its hosted execution, the session's branch, and what is *)
(* read of the files of agents.  They share no state, so one run checks    *)
(* them all: the initial state chooses a store, and only it changes.       *)
(***************************************************************************)
EXTENDS Replay, ContextVault, PairingOffers, WorkerFiles, ActionLedger, PublishReview,
  SessionTail, SessionHistory, WorkflowDefinitions, ConfigStore,
  HostedExecution, GitTracking

Shape(type, blocks, size) == [type |-> type, items |-> blocks, size |-> size]
HistoryShapes ==
  {Shape("user", <<"local">>, 2), Shape("assistant", <<"thinking", "Read">>, 2),
   Shape("user", <<"report">>, 2), Shape("event_msg", <<"agent_message">>, 3)}

\* Three actions with one idempotency key; the third proposes something else, and
\* the first is tried twice.
OneKey == [n \in ActionNodes |-> "k"]
OneRetries == "a" :> 2 @@ "b" :> 1 @@ "c" :> 1
TwoProposals == "a" :> 1 @@ "b" :> 1 @@ "c" :> 2

\* Two servers, the first with two accounts.
ConfigAccounts == {<<"A", 1>>, <<"A", 2>>, <<"B", 1>>}
PairedFirst == <<"A", 1>>

VARIABLE store  \* the store that changes

storesVars == <<store, vars, vaultVars, pairingVars, lockVars, pairVars, actionVars, publishVars,
                tailVars, historyVars, watchVars, definitionVars, configVars, hostedVars,
                trackVars>>

\* A store at rest starts in one state.
StoresInit ==
  /\ store \in {"journal", "vault", "pairing", "lock", "worker", "ledger", "publish", "tail",
                "history", "watch", "definition", "config", "hosted", "tracking"}
  /\ Init /\ VaultInit /\ PairingInit /\ LockInit /\ PairInit /\ ActionInit /\ TailInit
  /\ HistoryInit /\ HostedInit /\ TrackInit
  /\ PublishInit /\ (store = "publish" \/ tree = 1)
  /\ WatchInit /\ (store = "watch" \/ (topDir /\ dirs = {}))
  /\ DefinitionInit /\ (store = "definition" \/ text = Plain)
  /\ ConfigInit /\ (store = "config" \/ (~overriding /\ global.daemon = NoSettings))

Rests(s, v) == IF store = s THEN TRUE ELSE UNCHANGED v

Only(s) ==
  /\ store = s /\ UNCHANGED store
  /\ Rests("journal", vars) /\ Rests("vault", vaultVars) /\ Rests("pairing", pairingVars)
  /\ Rests("lock", lockVars) /\ Rests("worker", pairVars) /\ Rests("ledger", actionVars)
  /\ Rests("publish", publishVars) /\ Rests("tail", tailVars) /\ Rests("history", historyVars)
  /\ Rests("watch", watchVars) /\ Rests("definition", definitionVars)
  /\ Rests("config", configVars) /\ Rests("hosted", hostedVars)
  /\ Rests("tracking", trackVars)

StoresNext ==
  \/ Only("journal") /\ Next
  \/ Only("vault") /\ VaultNext
  \/ Only("pairing") /\ PairingNext
  \/ Only("lock") /\ LockNext
  \/ Only("worker") /\ PairNext
  \/ Only("ledger") /\ ActionNext
  \/ Only("publish") /\ PublishNext
  \/ Only("tail") /\ TailNext
  \/ Only("history") /\ HistoryNext
  \/ Only("watch") /\ WatchNext
  \/ Only("definition") /\ DefinitionNext
  \/ Only("config") /\ ConfigNext
  \/ Only("hosted") /\ HostedNext
  \/ Only("tracking") /\ TrackNext

\* The stores at rest are the same in every state: states are told apart by
\* the one that changes.
Changing ==
  <<store, CASE store = "journal" -> vars [] store = "vault" -> vaultVars
             [] store = "pairing" -> pairingVars [] store = "lock" -> lockVars
             [] store = "worker" -> pairVars [] store = "ledger" -> actionVars
             [] store = "publish" -> publishVars [] store = "tail" -> tailVars
             [] store = "history" -> historyVars [] store = "watch" -> watchVars
             [] store = "definition" -> definitionVars [] store = "config" -> configVars
             [] store = "hosted" -> hostedVars [] store = "tracking" -> trackVars>>

StoresSpec == StoresInit /\ [][StoresNext]_storesVars

(* The store that changes keeps to its types and caps: the ring and the
   journal to their sizes, the offers and bindings to theirs, a cursor to
   what the platform has received. *)
StoresTypeOK ==
  CASE store = "journal" -> TypeOK [] store = "vault" -> VaultTypeOK
    [] store = "pairing" -> PairingTypeOK [] store = "lock" -> LockTypeOK
    [] store = "worker" -> PairTypeOK [] store = "ledger" -> ActionTypeOK
    [] store = "publish" -> PublishTypeOK [] store = "tail" -> TailTypeOK
    [] store = "history" -> HistoryTypeOK [] store = "watch" -> WatchTypeOK
    [] store = "definition" -> DefinitionTypeOK [] store = "config" -> ConfigTypeOK
    [] store = "hosted" -> HostedTypeOK [] store = "tracking" -> TrackTypeOK

(* What the daemon knows of agents it did not start is what they wrote: the
   tailer passes on every line, the pages show the transcript, and every
   directory is watched; and of a session it tracks the branch holds what
   was committed, up to the gaps these properties name.  Each is checked of
   the store that changes. *)
DiscoveryFaithful ==
  CASE store = "tail" -> TailFaithful [] store = "history" -> HistoryFaithful
    [] store = "watch" -> WatchedWhenQuiet [] store = "tracking" -> TrackingHolds
    [] OTHER -> TRUE

(* A worker is what it was paired as: its identity, its section of the
   configuration and its pairing belong together, and what it runs for the
   platform uses the credentials of that lease and leaves none behind. *)
WorkerHolds ==
  CASE store = "worker" -> WorkerFilesHold [] store = "hosted" -> HostedHolds
    [] OTHER -> TRUE
=============================================================================
