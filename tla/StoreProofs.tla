----------------------------- MODULE StoreProofs ----------------------------
(***************************************************************************)
(* Proofs about what is kept in files: the worker's lock, the ledger of    *)
(* actions, the review of a publication, the pairing offers and the        *)
(* copies of a context repository.                                         *)
(***************************************************************************)
EXTENDS MCStores, ReplayProofs

(* The worker's lock *)

(* Who created the lock file, or holds it, is the one the file names, and a
   pid is in the file of the one that holds it, unless a file was removed
   that was not the stale one judged. *)
FileIsOwners ==
  raced \/ \A p \in Processes :
             /\ lockPc[p] \in {"created", "holds"} => lockFile.by = p
             /\ lockPc[p] = "created" => ~lockFile.written
             /\ lockPc[p] = "holds" => lockFile.written

(* What was judged stale for its pid is the lock of a process that ended. *)
JudgedEnded ==
  /\ lockFile.written => lockFile.by \in Processes
  /\ \A p \in Processes :
       /\ judged[p].written => judged[p].by \in Processes
       /\ lockPc[p] = "stopping" => judged[p].written
       /\ lockPc[p] \in {"stale", "stopping"} /\ judged[p].written
            => lockPc[judged[p].by] = "ended"

LockInv == LockTypeOK /\ FileIsOwners /\ JudgedEnded

(* The lock files a step makes are lock files. *)
LEMMA LockFilesMade ==
  /\ NoFile \in LockFiles /\ NoFile.by = 0 /\ ~NoFile.written
  /\ \A p \in Processes : [by |-> p, written |-> FALSE] \in LockFiles
  /\ \A f \in LockFiles : [f EXCEPT !.written = TRUE] \in LockFiles
  BY Zenon DEF NoFile, LockFiles

(* Every step keeps the types of the lock's variables. *)
LEMMA LockTypes == LockTypeOK /\ [LockNext]_lockVars => LockTypeOK'
  BY Zenon, LockFilesMade
  DEF LockTypeOK, LockNext, lockVars, At, Create, LockOpen, LockWrite, LockRead, LockRemove,
      LockReopen, LockRelease, LockCrash, StopInspects, StopRemoves

(* Every step of every process keeps the lock file its owner's. *)
LEMMA LockStep == LockInv /\ [LockNext]_lockVars => LockInv'
<1> SUFFICES ASSUME LockInv, [LockNext]_lockVars PROVE LockInv'
  OBVIOUS
<1>0. LockTypeOK'
  BY LockTypes DEF LockInv
<1> USE <1>0, Pids, LockFilesMade DEF LockInv, LockTypeOK, LockFiles, FileIsOwners, JudgedEnded
<1>1. ASSUME NEW p \in Processes, LockOpen(p) PROVE LockInv'
  BY <1>1 DEF LockOpen, Create, At
<1>2. ASSUME NEW p \in Processes, LockWrite(p) PROVE LockInv'
  BY <1>2 DEF LockWrite, At
<1>3. ASSUME NEW p \in Processes, LockRead(p) PROVE LockInv'
  BY <1>3 DEF LockRead, At, IsStale, IsAlive
<1>4. ASSUME NEW p \in Processes, LockRemove(p) PROVE LockInv'
  <2>1. JudgedEnded'
    BY <1>4 DEF LockRemove, At
  <2>2. CASE lockFile = NoFile
    BY <1>4, <2>1, <2>2 DEF LockRemove, At
  <2>3. CASE Races(p)
    BY Zenon, <1>4, <2>1, <2>3 DEF LockRemove
  <2>4. CASE lockFile # NoFile /\ ~Races(p)
    <3>1. lockFile.by \in Processes => lockPc[lockFile.by] = "ended"
      BY <1>4, <2>4 DEF LockRemove, At, Races, IsAlive
    <3> QED
      BY <1>4, <2>1, <3>1 DEF LockRemove, At
  <2> QED
    BY <2>2, <2>3, <2>4
<1>5. ASSUME NEW p \in Processes, LockReopen(p) PROVE LockInv'
  BY <1>5 DEF LockReopen, Create, At
<1>6. ASSUME NEW p \in Processes, LockRelease(p) PROVE LockInv'
  BY <1>6 DEF LockRelease, At
<1>7. ASSUME NEW p \in Processes, LockCrash(p) PROVE LockInv'
  BY <1>7 DEF LockCrash
<1>8. ASSUME NEW p \in Processes, StopInspects(p) PROVE LockInv'
  BY <1>8 DEF StopInspects, At, IsAlive
<1>9. ASSUME NEW p \in Processes, StopRemoves(p) PROVE LockInv'
  BY <1>9 DEF StopRemoves, At, Races, IsAlive
<1>10. CASE UNCHANGED lockVars
  BY <1>10 DEF lockVars
<1> QED
  BY <1>1, <1>2, <1>3, <1>4, <1>5, <1>6, <1>7, <1>8, <1>9, <1>10 DEF LockNext

(* While no wrong file was removed there is at most one holder: the file
   names it. *)
LEMMA OwnersAreOne == LockInv => LockExclusive
<1> SUFFICES ASSUME LockInv, ~raced PROVE LockExclusive
  BY DEF LockExclusive
<1> DEFINE S == {p \in Processes : lockPc[p] = "holds"}
<1>1. \A p, q \in S : p = q
  BY DEF LockInv, FileIsOwners
<1>2. S = {} \/ \E p \in S : S = {p}
  BY <1>1, Zenon
<1>3. Cardinality(S) <= 1
  BY <1>2, FS_EmptySet, FS_Singleton
<1> QED
  BY <1>3 DEF LockExclusive

(* Two workers hold the lock only after a file was removed that was not the
   dead worker's lock judged before: for any number of processes. *)
THEOREM LockIsExclusive == LockSpec => []LockExclusive
<1>1. LockInit => LockInv
  <2>1. LockInit => LockTypeOK
    BY Zenon, LockFilesMade DEF LockInit, LockTypeOK
  <2>2. LockInit => FileIsOwners /\ JudgedEnded
    BY DEF LockInit, FileIsOwners, JudgedEnded, NoFile
  <2> QED
    BY <2>1, <2>2 DEF LockInv
<1>2. LockInv /\ [LockNext]_lockVars => LockInv'
  BY LockStep
<1>3. LockInv => LockExclusive
  BY OwnersAreOne
<1> QED
  BY <1>1, <1>2, <1>3, PTL DEF LockSpec

-----------------------------------------------------------------------------
(* The ledger of actions *)

(* What a record says was performed was: an entry of the ledger, a node whose
   request was answered, and a completed one that was not left to the broker. *)
RecordsHonest ==
  /\ \A k \in ActionKeys :
       record.ledger[k] # NoProposal \/ recordSaved.ledger[k] # NoProposal => effects[k] >= 1
  /\ \A n \in ActionNodes :
       /\ NodeAt(n) \in {"performed", "answered"} => effects[KeyOf[n]] >= 1
       /\ \A r \in {record, recordSaved} :
            r.nodes[n].pc = "completed" =>
              \/ effects[KeyOf[n]] >= 1
              \/ n \in NeedsApproval /\ r.nodes[n].approved /\ r.nodes[n].granted

(* An entry of the ledger that is not saved yet is of a node that was
   answered and has yet to complete. *)
UnsavedAnswered ==
  \A k \in ActionKeys : record.ledger[k] # NoProposal /\ recordSaved.ledger[k] = NoProposal =>
    \E n \in ActionNodes : KeyOf[n] = k /\ NodeAt(n) = "answered"

InFlight(n) == NodeAt(n) \in {"looking", "sending", "performed"}

(* Of a key that is not in doubt the effect was performed once at most; once
   it was, the ledger has it or a node is about to enter it; and the node in
   flight for it is the only one and comes before the entry. *)
SureOnce ==
  \A k \in ActionKeys \ inDoubt :
    /\ effects[k] <= 1
    /\ effects[k] = 1 => \/ record.ledger[k] # NoProposal
                         \/ \E n \in ActionNodes : KeyOf[n] = k /\ NodeAt(n) = "performed"
    /\ \A n \in ActionNodes : KeyOf[n] = k /\ InFlight(n) =>
         /\ record.ledger[k] = NoProposal
         /\ \A m \in ActionNodes \ {n} : KeyOf[m] = k => ~InFlight(m)

ActionInv == ActionTypeOK /\ RecordsHonest /\ UnsavedAnswered /\ SureOnce


(* q is the record with node n at pc, approved as it was or not. *)
NodeReaches(n, pc, q) ==
  /\ q \in ActionRecords /\ q.nodes[n].pc = pc
  /\ \A m \in ActionNodes \ {n} : q.nodes[m] = record.nodes[m]
Stays(n, q) ==
  /\ q.nodes[n].approved = record.nodes[n].approved /\ q.nodes[n].granted = record.nodes[n].granted

(* The record with one node moved. *)
LEMMA MovedIs ==
  ASSUME record \in ActionRecords, NEW n \in ActionNodes, NEW pc \in ActionPcs
  PROVE  /\ NodeReaches(n, pc, Moved(n, pc)) /\ Stays(n, Moved(n, pc))
         /\ Moved(n, pc).ledger = record.ledger
         /\ Moved(n, pc).nodes[n].tries = record.nodes[n].tries
  BY Zenon DEF Moved, ActionRecords, NodeReaches, Stays

(* The record with one node started once more. *)
LEMMA TriedIs ==
  ASSUME record \in ActionRecords, NEW n \in ActionNodes, NEW t \in Nat
  PROVE  /\ NodeReaches(n, "started", Tried(n, t)) /\ Stays(n, Tried(n, t))
         /\ Tried(n, t).ledger = record.ledger /\ Tried(n, t).nodes[n].tries = t
<1>1. "started" \in ActionPcs
  BY DEF ActionPcs
<1>2. PICK r \in ActionRecords : r = Moved(n, "started")
  BY <1>1, MovedIs DEF NodeReaches
<1>3. LET q == [r EXCEPT !.nodes[n].tries = t] IN
      /\ q \in ActionRecords /\ q.ledger = r.ledger /\ q.nodes[n].tries = t
      /\ q.nodes[n].pc = r.nodes[n].pc /\ q.nodes[n].approved = r.nodes[n].approved
      /\ q.nodes[n].granted = r.nodes[n].granted
      /\ \A m \in ActionNodes \ {n} : q.nodes[m] = r.nodes[m]
  BY Zenon DEF ActionRecords
<1> QED
  BY <1>1, <1>2, <1>3, MovedIs DEF Tried, NodeReaches, Stays

(* The record with the entry of one node in the ledger. *)
LEMMA RememberedIs ==
  ASSUME record \in ActionRecords, NEW n \in ActionNodes
  PROVE  /\ NodeReaches(n, "answered", Remembered(n)) /\ Stays(n, Remembered(n))
         /\ Remembered(n).ledger = [record.ledger EXCEPT ![KeyOf[n]] = DigestOf[n]]
         /\ Remembered(n).nodes[n].tries = record.nodes[n].tries
<1>1. "answered" \in ActionPcs
  BY DEF ActionPcs
<1>2. PICK r \in ActionRecords : r = Moved(n, "answered")
  BY <1>1, MovedIs DEF NodeReaches
<1>3. LET q == [r EXCEPT !.ledger[KeyOf[n]] = DigestOf[n]] IN
      /\ q \in ActionRecords /\ q.ledger = [r.ledger EXCEPT ![KeyOf[n]] = DigestOf[n]]
      /\ q.nodes = r.nodes
  BY Zenon, ActionShapes DEF ActionRecords
<1> QED
  BY <1>1, <1>2, <1>3, MovedIs DEF Remembered, NodeReaches, Stays

(* The record with one node approved. *)
LEMMA ApprovedIs ==
  ASSUME record \in ActionRecords, NEW n \in ActionNodes, NEW grant \in BOOLEAN
  PROVE  /\ NodeReaches(n, "queued", Approved(n, grant))
         /\ Approved(n, grant).ledger = record.ledger
         /\ Approved(n, grant).nodes[n].tries = 0
  BY Zenon DEF Approved, ActionRecords, NodeReaches, ActionPcs, Settled

(* The record the daemon takes up after it died. *)
LEMMA ResumedIs ==
  ASSUME recordSaved \in ActionRecords
  PROVE  /\ Resumed \in ActionRecords /\ Resumed.ledger = recordSaved.ledger
         /\ \A n \in ActionNodes :
              /\ Resumed.nodes[n].pc \in Settled
              /\ Resumed.nodes[n].approved = recordSaved.nodes[n].approved
              /\ Resumed.nodes[n].granted = recordSaved.nodes[n].granted
              /\ Resumed.nodes[n].tries = recordSaved.nodes[n].tries
              /\ Resumed.nodes[n].pc = "completed" => recordSaved.nodes[n].pc = "completed"
  BY ZenonT(30) DEF Resumed, ActionRecords, ActionPcs, Settled
(* The places of a node, one by one. *)
LEMMA PcsAre ==
  ASSUME NEW pc \in {"queued", "awaiting", "completed", "failed", "started", "looking", "sending",
                     "performed", "answered"}
  PROVE  pc \in ActionPcs
  BY DEF ActionPcs, Settled

(* A node that failed, for good or to be tried again. *)
LEMMA RetriedIs ==
  ASSUME ActionTypeOK, NEW n \in ActionNodes, NEW q \in Retried(n)
  PROVE  /\ \E pc \in {"failed", "started"} : NodeReaches(n, pc, q)
         /\ Stays(n, q) /\ q.ledger = record.ledger /\ q.nodes[n].tries <= MaxTries[n]
<1>1. record \in ActionRecords /\ record.nodes[n].tries \in Nat
      /\ record.nodes[n].tries <= MaxTries[n] /\ MaxTries[n] \in Nat
  BY ActionShapes DEF ActionTypeOK, ActionRecords
<1>2. CASE q = Moved(n, "failed")
  BY <1>1, <1>2, MovedIs, PcsAre
<1>3. CASE record.nodes[n].tries < MaxTries[n] /\ q = Tried(n, record.nodes[n].tries + 1)
  BY <1>1, <1>3, TriedIs
<1> QED
  BY <1>2, <1>3 DEF Retried

(* A record in which no node was tried more often than it may be. *)
TriesFit(q) == q \in ActionRecords /\ \A m \in ActionNodes : q.nodes[m].tries <= MaxTries[m]

(* A step of one node leaves the tries of the others. *)
LEMMA OthersFit ==
  ASSUME ActionTypeOK, NEW n \in ActionNodes, NEW pc, NEW q, NodeReaches(n, pc, q),
         q.nodes[n].tries <= MaxTries[n]
  PROVE  TriesFit(q)
  BY DEF ActionTypeOK, NodeReaches, TriesFit

(* Every record a step makes fits. *)
LEMMA RecordsFit ==
  ASSUME ActionTypeOK, NEW n \in ActionNodes
  PROVE  /\ TriesFit(Tried(n, 1)) /\ TriesFit(Remembered(n))
         /\ \A pc \in ActionPcs : TriesFit(Moved(n, pc))
         /\ \A q \in Retried(n) : TriesFit(q)
         /\ \A grant \in BOOLEAN : TriesFit(Approved(n, grant))
<1>1. /\ record \in ActionRecords /\ record.nodes[n].tries <= MaxTries[n]
      /\ MaxTries[n] \in Nat /\ 1 <= MaxTries[n] /\ 0 <= MaxTries[n]
  BY ActionShapes DEF ActionTypeOK
<1>2. TriesFit(Tried(n, 1))
  BY <1>1, TriedIs, OthersFit
<1>3. TriesFit(Remembered(n))
  BY Zenon, <1>1, RememberedIs, OthersFit
<1>4. ASSUME NEW pc \in ActionPcs PROVE TriesFit(Moved(n, pc))
  BY <1>1, MovedIs, OthersFit
<1>5. ASSUME NEW q \in Retried(n) PROVE TriesFit(q)
  BY <1>1, RetriedIs, OthersFit
<1>6. ASSUME NEW grant \in BOOLEAN PROVE TriesFit(Approved(n, grant))
  BY <1>1, ApprovedIs, OthersFit
<1> QED
  BY <1>2, <1>3, <1>4, <1>5, <1>6

(* Every step keeps the types of the variables. *)
LEMMA ActionTypes == ASSUME ActionTypeOK, [ActionNext]_actionVars PROVE ActionTypeOK'
<1>0. /\ \A n \in ActionNodes : KeyOf[n] \in ActionKeys
      /\ TriesFit(record) /\ TriesFit(recordSaved) /\ effects \in [ActionKeys -> Nat]
      /\ inDoubt \subseteq ActionKeys
  BY ActionShapes DEF ActionTypeOK, TriesFit
<1>1. SUFFICES /\ TriesFit(record') /\ TriesFit(recordSaved')
               /\ effects' \in [ActionKeys -> Nat] /\ inDoubt' \subseteq ActionKeys
  BY DEF ActionTypeOK, TriesFit
<1>2. ASSUME NEW n \in ActionNodes,
             \/ ActionStart(n) \/ ActionDecide(n) \/ ActionLooks(n) \/ ProviderPerforms(n)
             \/ ActionAnswered(n) \/ ActionFails(n) \/ ActionCompletes(n) \/ ActionApproved(n)
      PROVE  /\ TriesFit(record') /\ TriesFit(recordSaved')
             /\ effects' \in [ActionKeys -> Nat] /\ inDoubt' \subseteq ActionKeys
  <2>1. /\ \A pc \in {"queued", "awaiting", "completed", "failed", "started", "looking", "sending",
                     "performed", "answered"} : TriesFit(Moved(n, pc))
        /\ TriesFit(Tried(n, 1)) /\ TriesFit(Remembered(n))
        /\ \A q \in Retried(n) : TriesFit(q)
        /\ \A grant \in BOOLEAN : TriesFit(Approved(n, grant))
    BY RecordsFit, PcsAre
  <2> QED
    BY <1>0, <1>2, <2>1
    DEF ActionStart, ActionDecide, ActionLooks, ProviderPerforms, ActionAnswered, ActionFails,
        ActionCompletes, ActionApproved, Save, Keep
<1>3. ASSUME ActionCrash
      PROVE  /\ TriesFit(record') /\ TriesFit(recordSaved')
             /\ effects' \in [ActionKeys -> Nat] /\ inDoubt' \subseteq ActionKeys
  <2>1. TriesFit(Resumed)
    BY <1>0, ResumedIs DEF TriesFit
  <2> QED
    BY <1>0, <1>3, <2>1 DEF ActionCrash, Save
<1>4. CASE UNCHANGED actionVars
  BY <1>0, <1>4 DEF actionVars
<1> QED
  BY <1>2, <1>3, <1>4 DEF ActionNext

(* A step of one node that performs nothing and enters nothing in the ledger
   keeps the invariant, when it goes into flight only alone and unperformed,
   and leaves flight after a performed request only in doubt. *)
LEMMA NodeMoves ==
  ASSUME ActionInv, ActionTypeOK', NEW n \in ActionNodes, NEW pc, NodeReaches(n, pc, record'),
         record'.ledger = record.ledger, recordSaved' \in {recordSaved, record'},
         effects' = effects, inDoubt \subseteq inDoubt',
         NodeAt(n) = "answered" => recordSaved' = record',
         NodeAt(n) = "performed" => KeyOf[n] \in inDoubt',
         pc \notin {"performed", "answered"},
         pc = "completed" => \/ effects[KeyOf[n]] >= 1
                             \/ /\ n \in NeedsApproval
                                /\ record'.nodes[n].approved /\ record'.nodes[n].granted,
         pc \in {"looking", "sending"} =>
           \/ KeyOf[n] \in inDoubt'
           \/ /\ record.ledger[KeyOf[n]] = NoProposal
              /\ \A m \in ActionNodes \ {n} : KeyOf[m] = KeyOf[n] => ~InFlight(m)
  PROVE  ActionInv'
<1> USE DEF ActionInv, NodeAt
<1>1. RecordsHonest'
  BY ActionShapes DEF NodeReaches, RecordsHonest
<1>2. UnsavedAnswered'
  BY DEF NodeReaches, UnsavedAnswered
<1>3. SureOnce'
  BY DEF NodeReaches, SureOnce, InFlight
<1> QED
  BY <1>1, <1>2, <1>3

(* The answer that enters a performed effect in the ledger. *)
LEMMA EntryMade ==
  ASSUME ActionInv, ActionTypeOK', NEW n \in ActionNodes, record' = Remembered(n),
         NodeAt(n) \in {"looking", "performed"}, effects[KeyOf[n]] >= 1,
         UNCHANGED <<recordSaved, effects, inDoubt>>
  PROVE  ActionInv'
<1>1. /\ NodeReaches(n, "answered", record') /\ Stays(n, record') /\ KeyOf[n] \in ActionKeys
      /\ record'.ledger[KeyOf[n]] # NoProposal
      /\ \A k \in ActionKeys \ {KeyOf[n]} : record'.ledger[k] = record.ledger[k]
  <2>1. record \in ActionRecords /\ record.ledger \in [ActionKeys -> Nat]
    BY DEF ActionInv, ActionTypeOK, ActionRecords
  <2>2. KeyOf[n] \in ActionKeys /\ DigestOf[n] # 0
    BY ActionShapes
  <2> QED
    BY Zenon, <2>1, <2>2, RememberedIs DEF NoProposal
<1> USE <1>1 DEF ActionInv, NodeAt
<1>2. RecordsHonest'
  BY DEF NodeReaches, Stays, RecordsHonest
<1>3. UnsavedAnswered'
  BY DEF NodeReaches, UnsavedAnswered
<1>4. SureOnce'
  BY DEF NodeReaches, SureOnce, InFlight
<1> QED
  BY <1>2, <1>3, <1>4

(* The effect itself: nobody performed it before, or the key is in doubt. *)
LEMMA EffectMade ==
  ASSUME ActionInv, ActionTypeOK', NEW n \in ActionNodes, ProviderPerforms(n)
  PROVE  ActionInv'
<1>1. /\ NodeReaches(n, "performed", record') /\ Stays(n, record') /\ record'.ledger = record.ledger
      /\ NodeAt(n) = "sending" /\ UNCHANGED <<recordSaved, inDoubt>>
  BY MovedIs, PcsAre DEF ProviderPerforms, Keep, ActionInv, ActionTypeOK
<1>2. /\ KeyOf[n] \in ActionKeys /\ effects \in [ActionKeys -> Nat]
      /\ effects' = [effects EXCEPT ![KeyOf[n]] = @ + 1]
  BY ActionShapes DEF ProviderPerforms, ActionInv, ActionTypeOK
<1> USE <1>1, <1>2 DEF ActionInv, NodeAt
<1>3. RecordsHonest'
  BY ActionShapes DEF NodeReaches, Stays, RecordsHonest
<1>4. UnsavedAnswered'
  BY DEF NodeReaches, UnsavedAnswered
<1>5. SureOnce'
  <2>1. KeyOf[n] \in inDoubt \/ effects[KeyOf[n]] = 0
    BY DEF SureOnce, InFlight
  <2> QED
    BY <2>1 DEF NodeReaches, SureOnce, InFlight
<1> QED
  BY <1>3, <1>4, <1>5

(* The daemon dies: what was performed and is not in the saved ledger is in
   doubt from then on. *)
LEMMA CrashForgets == ASSUME ActionInv, ActionTypeOK', ActionCrash PROVE ActionInv'
<1>1. /\ record' = Resumed /\ recordSaved' = Resumed /\ effects' = effects
      /\ record'.ledger = recordSaved.ledger
      /\ inDoubt \subseteq inDoubt'
      /\ \A n \in ActionNodes :
           NodeAt(n) \in {"performed", "answered"} /\ recordSaved.ledger[KeyOf[n]] = NoProposal
             => KeyOf[n] \in inDoubt'
  BY ResumedIs DEF ActionCrash, Save, ActionInv, ActionTypeOK
<1>2. /\ recordSaved \in ActionRecords /\ effects \in [ActionKeys -> Nat]
      /\ \A n \in ActionNodes : Resumed.nodes[n].pc \in Settled
  BY ResumedIs DEF ActionInv, ActionTypeOK
<1>3. RecordsHonest'
  BY <1>1, <1>2, ResumedIs DEF ActionInv, RecordsHonest, NodeAt, Settled
<1>4. UnsavedAnswered'
  BY <1>1 DEF UnsavedAnswered
<1>5. SureOnce'
  <2>1. ASSUME NEW k \in ActionKeys \ inDoubt', effects[k] = 1
        PROVE  recordSaved.ledger[k] # NoProposal
    BY <1>1, <2>1 DEF ActionInv, SureOnce, UnsavedAnswered, NodeAt
  <2>2. \A n \in ActionNodes : ~InFlight(n)'
    BY <1>1, <1>2 DEF InFlight, NodeAt, Settled
  <2> QED
    BY <1>1, <2>1, <2>2 DEF ActionInv, SureOnce
<1> QED
  BY <1>3, <1>4, <1>5 DEF ActionInv

(* Every step keeps the invariant. *)
LEMMA ActionStep == ASSUME ActionInv, [ActionNext]_actionVars PROVE ActionInv'
<1>0. /\ ActionTypeOK' /\ record \in ActionRecords
      /\ \A n \in ActionNodes : KeyOf[n] \in ActionKeys /\ DigestOf[n] # NoProposal
  BY ActionTypes, ActionShapes DEF ActionInv, ActionTypeOK, NoProposal
<1>1. ASSUME NEW n \in ActionNodes, ActionStart(n) PROVE ActionInv'
  BY <1>0, <1>1, TriedIs, NodeMoves DEF ActionStart, Save
<1>2. ASSUME NEW n \in ActionNodes, ActionDecide(n) PROVE ActionInv'
  <2>0. NodeAt(n) = "started" /\ UNCHANGED effects
    BY <1>2 DEF ActionDecide
  <2>1. ASSUME NEW q \in Retried(n), Save(q), UNCHANGED inDoubt PROVE ActionInv'
    <3>1. PICK pc \in {"failed", "started"} : NodeReaches(n, pc, record')
      BY <2>1, RetriedIs DEF Save, ActionInv
    <3>2. record'.ledger = record.ledger /\ recordSaved' = record'
      BY <2>1, RetriedIs DEF Save, ActionInv
    <3> QED
      BY <1>0, <2>0, <2>1, <3>1, <3>2, NodeMoves
  <2>2. ASSUME Save(Moved(n, "awaiting")), UNCHANGED inDoubt PROVE ActionInv'
    BY <1>0, <2>0, <2>2, MovedIs, PcsAre, NodeMoves DEF Save
  <2>3. ASSUME Suppressed(n) \/ Brokered(n), Save(Moved(n, "completed")), UNCHANGED inDoubt
        PROVE  ActionInv'
    <3>1. \/ effects[KeyOf[n]] >= 1
          \/ /\ n \in NeedsApproval
             /\ Moved(n, "completed").nodes[n].approved /\ Moved(n, "completed").nodes[n].granted
      BY <1>0, <2>3, MovedIs, PcsAre
      DEF Suppressed, Brokered, ActionInv, RecordsHonest, Stays
    <3> QED
      BY <1>0, <2>0, <2>3, <3>1, MovedIs, PcsAre, NodeMoves DEF Save
  <2>4. ASSUME ~Conflicts(n), ~Suppressed(n),
               Keep(Moved(n, IF n \in LooksFirst THEN "looking" ELSE "sending")),
               inDoubt' = IF \E m \in ActionNodes \ {n} :
                               KeyOf[m] = KeyOf[n] /\ NodeAt(m) \in {"looking", "sending", "performed"}
                          THEN inDoubt \cup {KeyOf[n]} ELSE inDoubt
        PROVE  ActionInv'
    <3>1. /\ record.ledger[KeyOf[n]] = NoProposal /\ inDoubt \subseteq inDoubt'
          /\ \/ KeyOf[n] \in inDoubt'
             \/ \A m \in ActionNodes \ {n} : KeyOf[m] = KeyOf[n] => ~InFlight(m)
      BY <2>4 DEF Conflicts, Suppressed, InFlight
    <3>2. PICK pc \in {"looking", "sending"} : record' = Moved(n, pc)
      BY <2>4 DEF Keep
    <3> QED
      BY <1>0, <2>0, <2>4, <3>1, <3>2, MovedIs, PcsAre, NodeMoves DEF Keep
  <2> QED
    BY <1>2, <2>1, <2>2, <2>3, <2>4 DEF ActionDecide
<1>3. ASSUME NEW n \in ActionNodes, ActionLooks(n) PROVE ActionInv'
  <2>1. NodeAt(n) = "looking" /\ UNCHANGED <<recordSaved, effects, inDoubt>>
    BY <1>3 DEF ActionLooks, Keep
  <2>2. CASE effects[KeyOf[n]] > 0 /\ Keep(Remembered(n))
    <3>1. effects[KeyOf[n]] >= 1
      BY <1>0, <2>2 DEF ActionInv, ActionTypeOK
    <3> QED
      BY <1>0, <2>1, <2>2, <3>1, EntryMade DEF Keep
  <2>3. CASE Keep(Moved(n, "sending"))
    <3>1. \/ KeyOf[n] \in inDoubt
          \/ /\ record.ledger[KeyOf[n]] = NoProposal
             /\ \A m \in ActionNodes \ {n} : KeyOf[m] = KeyOf[n] => ~InFlight(m)
      BY <1>0, <2>1 DEF ActionInv, SureOnce, InFlight
    <3> QED
      BY <1>0, <2>1, <2>3, <3>1, MovedIs, PcsAre, NodeMoves DEF Keep
  <2> QED
    BY <1>3, <2>2, <2>3 DEF ActionLooks
<1>4. ASSUME NEW n \in ActionNodes, ProviderPerforms(n) PROVE ActionInv'
  BY <1>0, <1>4, EffectMade
<1>5. ASSUME NEW n \in ActionNodes, ActionAnswered(n) PROVE ActionInv'
  <2>1. effects[KeyOf[n]] >= 1
    BY <1>5 DEF ActionAnswered, ActionInv, RecordsHonest
  <2> QED
    BY <1>0, <1>5, <2>1, EntryMade DEF ActionAnswered, Keep
<1>6. ASSUME NEW n \in ActionNodes, ActionFails(n) PROVE ActionInv'
  <2>1. PICK q \in Retried(n) : Save(q)
    BY <1>6 DEF ActionFails
  <2>2. PICK pc \in {"failed", "started"} : NodeReaches(n, pc, record')
    BY <2>1, RetriedIs DEF Save, ActionInv
  <2>3. record'.ledger = record.ledger /\ recordSaved' = record'
    BY <2>1, RetriedIs DEF Save, ActionInv
  <2> QED
    BY <1>0, <1>6, <2>2, <2>3, NodeMoves DEF ActionFails
<1>7. ASSUME NEW n \in ActionNodes, ActionCompletes(n) PROVE ActionInv'
  <2>1. effects[KeyOf[n]] >= 1
    BY <1>7 DEF ActionCompletes, ActionInv, RecordsHonest
  <2> QED
    BY <1>0, <1>7, <2>1, MovedIs, PcsAre, NodeMoves DEF ActionCompletes, Save
<1>8. ASSUME NEW n \in ActionNodes, ActionApproved(n) PROVE ActionInv'
  BY <1>0, <1>8, ApprovedIs, NodeMoves DEF ActionApproved, Save
<1>9. CASE ActionCrash
  BY <1>0, <1>9, CrashForgets
<1>10. CASE UNCHANGED actionVars
  BY <1>10
  DEF ActionInv, ActionTypeOK, RecordsHonest, UnsavedAnswered, SureOnce, InFlight, NodeAt, actionVars
<1> QED
  BY <1>1, <1>2, <1>3, <1>4, <1>5, <1>6, <1>7, <1>8, <1>9, <1>10 DEF ActionNext
(* The invariant holds of a new run. *)
LEMMA ActionsBegin == ActionInit => ActionInv
<1>1. NewRecord \in ActionRecords /\ NewRecord.ledger = [k \in ActionKeys |-> NoProposal]
      /\ \A n \in ActionNodes : NewRecord.nodes[n].pc = "queued" /\ NewRecord.nodes[n].tries = 0
  BY DEF NewRecord, NewNode, ActionRecords, NoProposal, ActionPcs, Settled
<1>2. \A n \in ActionNodes : 0 <= MaxTries[n]
  BY ActionShapes
<1> QED
  BY <1>1, <1>2
  DEF ActionInit, ActionInv, ActionTypeOK, RecordsHonest, UnsavedAnswered, SureOnce, InFlight, NodeAt

(* An effect is performed at most once per idempotency key unless it is in
   doubt, and a completed action was performed or left to the broker: for any
   nodes, keys, proposals, retries and crashes. *)
THEOREM ActionsHappenOnce == ActionSpec => []ActionOnce
<1>1. ActionInv /\ [ActionNext]_actionVars => ActionInv'
  BY ActionStep
<1>2. ActionInv => ActionOnce
  BY ActionShapes DEF ActionInv, SureOnce, RecordsHonest, ActionOnce, NodeAt, Brokered
<1> QED
  BY <1>1, <1>2, ActionsBegin, PTL DEF ActionSpec

-----------------------------------------------------------------------------
(* The review of a publication *)

(* An operator decides on a request that was made, and names its diff or
   none; a command decides only after it was consumed, and then once. *)
CommandsHonest ==
  \A c \in Commands :
    /\ commands[c].digest \in {NoDigest, commands[c].saw}
    /\ commands[c].status = "issued" => \E k \in 1 .. Len(asked) : commands[c].saw = asked[k]
    /\ c \in applying => commands[c].status = "issued" /\ decided[c] = 0
    /\ c \notin consumed.disk => decided[c] = 0
    /\ decided[c] <= 1

(* Before the first request nothing is approved; a node that is blocked with
   no approval invalidated is blocked by the first; and an approval that
   stands is of the diff an operator saw. *)
ApprovalsHonest ==
  /\ publish.status \in {"queued", "publishing"} /\ ~publish.approved => asked = << >>
  /\ publish.status = "blocked" =>
       /\ ~publish.approved
       /\ publish.invalid = NoDigest => Len(asked) = 1 /\ asked[1] = publish.facts
  /\ publish.approved /\ publish.facts \in Sensitive
       /\ (publish.invalid = NoDigest \/ publish.digest = publish.facts)
     => publish.facts \in seen

(* What is about to be pushed was reviewed. *)
AboutToPublish ==
  publish.status = "publishing" => tree \notin Sensitive \/ tree \in seen \/ slipped

PublishInv ==
  /\ PublishTypeOK /\ CommandsHonest /\ ApprovalsHonest /\ AboutToPublish
  /\ PublishedWasReviewed

(* The digests there are, by name. *)
LEMMA DigestsAre == 0 \in Digests /\ NoDigest \in Digests /\ Diffs \subseteq Digests
  BY DEF Digests

(* The node after a decision. *)
LEMMA NodeDecided ==
  ASSUME publish \in PublishNodes, NEW d \in Digests, NEW approve \in BOOLEAN
  PROVE  LET q == [publish EXCEPT !.status = IF approve THEN "queued" ELSE "failed",
                                  !.approved = approve, !.digest = d]
         IN  /\ q \in PublishNodes /\ q.status = IF approve THEN "queued" ELSE "failed"
             /\ q.facts = publish.facts /\ q.invalid = publish.invalid
             /\ q.approved = approve /\ q.digest = d
  BY Zenon DEF PublishNodes

(* The node that blocks for a review. *)
LEMMA NodeBlocks ==
  ASSUME publish \in PublishNodes, NEW d \in Digests, NEW x \in Digests
  PROVE  LET q == [publish EXCEPT !.status = "blocked", !.facts = d, !.invalid = x,
                                  !.approved = FALSE, !.digest = NoDigest]
         IN  /\ q \in PublishNodes /\ q.status = "blocked" /\ q.facts = d /\ q.invalid = x
             /\ ~q.approved /\ q.digest = NoDigest
  BY Zenon, DigestsAre DEF PublishNodes

(* The node that needs no approval. *)
LEMMA NodePublishes ==
  ASSUME publish \in PublishNodes, NEW d \in Digests
  PROVE  LET q == [publish EXCEPT !.status = "publishing", !.facts = d, !.invalid = NoDigest]
         IN  /\ q \in PublishNodes /\ q.status = "publishing" /\ q.facts = d
             /\ q.invalid = NoDigest
             /\ q.approved = publish.approved /\ q.digest = publish.digest
  BY Zenon, DigestsAre DEF PublishNodes

(* The node with an approval that stands. *)
LEMMA NodePasses ==
  ASSUME publish \in PublishNodes, NEW d \in Digests
  PROVE  LET q == [publish EXCEPT !.status = "publishing", !.invalid = NoDigest,
                                  !.facts = IF @ # NoDigest THEN @ ELSE d]
         IN  /\ q \in PublishNodes /\ q.status = "publishing" /\ q.invalid = NoDigest
             /\ q.facts = IF publish.facts # NoDigest THEN publish.facts ELSE d
             /\ q.approved = publish.approved /\ q.digest = publish.digest
  BY Zenon, DigestsAre DEF PublishNodes

(* What evaluating a worktree can lead to. *)
LEMMA NodeEvaluated ==
  ASSUME PublishTypeOK, Evaluate
  PROVE  /\ publish' \in PublishNodes /\ publish.status = "queued"
         /\ \/ /\ (~publish.approved /\ Required(tree)) \/ Invalidates(tree)
               /\ publish'.status = "blocked" /\ publish'.facts = tree /\ ~publish'.approved
               /\ publish'.invalid = IF Invalidates(tree) THEN tree ELSE NoDigest
               /\ asked' = Append(asked, tree) /\ Len(asked) < MaxAsked
            \/ /\ publish.approved /\ ~Invalidates(tree)
               /\ publish'.status = "publishing" /\ publish'.invalid = NoDigest
               /\ publish'.facts = IF publish.facts # NoDigest THEN publish.facts ELSE tree
               /\ publish'.approved /\ publish'.digest = publish.digest /\ asked' = asked
            \/ /\ ~publish.approved /\ ~Required(tree)
               /\ publish'.status = "publishing" /\ publish'.invalid = NoDigest
               /\ publish'.facts = tree /\ ~publish'.approved /\ asked' = asked
<1>1. publish \in PublishNodes /\ tree \in Digests /\ publish.approved \in BOOLEAN
  BY DigestsAre DEF PublishTypeOK, PublishNodes
<1>2. CASE (~publish.approved /\ Required(tree)) \/ Invalidates(tree)
  <2> DEFINE x == IF Invalidates(tree) THEN tree ELSE NoDigest
  <2>1. x \in Digests
    BY <1>1, DigestsAre
  <2>2. /\ publish.status = "queued" /\ asked' = Append(asked, tree) /\ Len(asked) < MaxAsked
        /\ publish' = [publish EXCEPT !.status = "blocked", !.facts = tree, !.invalid = x,
                                      !.approved = FALSE, !.digest = NoDigest]
    BY <1>2 DEF Evaluate
  <2> HIDE DEF x
  <2>3. /\ publish' \in PublishNodes /\ publish'.status = "blocked" /\ publish'.facts = tree
        /\ ~publish'.approved /\ publish'.invalid = x
    BY Zenon, <1>1, <2>1, <2>2, NodeBlocks
  <2> QED
    BY <1>2, <2>2, <2>3 DEF x
<1>3. CASE publish.approved /\ ~Invalidates(tree)
  BY Zenon, <1>1, <1>3, NodePasses DEF Evaluate
<1>4. CASE ~publish.approved /\ ~Required(tree) /\ ~Invalidates(tree)
  BY Zenon, <1>1, <1>4, NodePublishes DEF Evaluate
<1> QED
  BY <1>1, <1>2, <1>3, <1>4

(* Every step keeps the types of the variables. *)
LEMMA PublishTypes == PublishTypeOK /\ [PublishNext]_publishVars => PublishTypeOK'
<1> SUFFICES ASSUME PublishTypeOK, [PublishNext]_publishVars PROVE PublishTypeOK'
  OBVIOUS
<1> USE SensitiveDiffs, DigestsAre DEF PublishTypeOK
<1>1. ASSUME NEW d \in Diffs, TreeChanges(d) PROVE PublishTypeOK'
  BY <1>1 DEF TreeChanges
<1>2. CASE Evaluate
  BY <1>2, NodeEvaluated DEF Evaluate
<1>3. CASE Publish
  BY Zenon, <1>3 DEF Publish, PublishNodes
<1>4. CASE PublisherRestarts
  BY Zenon, <1>4 DEF PublisherRestarts, PublishNodes
<1>5. ASSUME NEW retry \in BOOLEAN, PushFails(retry) PROVE PublishTypeOK'
  BY Zenon, <1>5 DEF PushFails, PublishNodes
<1>6. ASSUME NEW c \in Commands, ApplyCommand(c) PROVE PublishTypeOK'
  BY <1>6 DEF ApplyCommand
<1>7. ASSUME NEW c \in Commands, DecideFromCommand(c) PROVE PublishTypeOK'
  <2>1. commands[c].saw \in Digests /\ commands[c].digest \in Digests
        /\ commands[c].approve \in BOOLEAN
    BY DEF PublishCommands
  <2> QED
    <3>1. CASE UNCHANGED <<publish, seen, decided>>
      BY <1>7, <3>1 DEF DecideFromCommand
    <3>2. CASE DecideApproval(commands[c].digest, commands[c].saw, commands[c].approve)
      <4>1. publish' \in PublishNodes /\ seen' \subseteq Digests
        BY Zenon, <2>1, <3>2, NodeDecided DEF DecideApproval
      <4>2. decided' \in [Commands -> Nat]
        BY <1>7 DEF DecideFromCommand
      <4> QED
        BY <1>7, <4>1, <4>2 DEF DecideFromCommand
    <3> QED
      BY <1>7, <3>1, <3>2 DEF DecideFromCommand
<1>8. ASSUME NEW c \in Commands, NEW k \in 1..MaxAsked, NEW named \in BOOLEAN,
             NEW tied \in BOOLEAN, NEW approve \in BOOLEAN, Issue(c, k, named, tied, approve)
      PROVE  PublishTypeOK'
  BY <1>8 DEF Issue, PublishCommands
<1>9. ASSUME NEW k \in 1..MaxAsked, NEW named \in BOOLEAN, NEW approve \in BOOLEAN,
             DecideLocally(k, named, approve)
      PROVE  PublishTypeOK'
  <2>1. asked[k] \in Digests /\ k \in 1 .. Len(asked)
    BY <1>9 DEF DecideLocally
  <2>2. PICK d \in Digests : d = IF named THEN asked[k] ELSE NoDigest
    BY Zenon, <2>1
  <2>3. publish' \in PublishNodes /\ seen' \subseteq Digests
    BY Zenon, <1>9, <2>1, <2>2, NodeDecided DEF DecideLocally, DecideApproval
  <2> QED
    BY Zenon, <1>9, <2>3 DEF DecideLocally
<1>10. CASE UNCHANGED publishVars
  BY <1>10 DEF publishVars
<1> QED
  BY <1>1, <1>2, <1>3, <1>4, <1>5, <1>6, <1>7, <1>8, <1>9, <1>10 DEF PublishNext

(* Every step keeps the invariant. *)
LEMMA PublishStep == PublishInv /\ [PublishNext]_publishVars => PublishInv'
<1> SUFFICES ASSUME PublishInv, [PublishNext]_publishVars PROVE PublishInv'
  OBVIOUS
<1>0. PublishTypeOK'
  BY PublishTypes DEF PublishInv
<1>0a. /\ publish \in PublishNodes /\ commands \in [Commands -> PublishCommands]
       /\ asked \in Seq(Digests) /\ decided \in [Commands -> Nat]
       /\ 0 \notin Sensitive /\ NoDigest \notin Sensitive
       /\ publish.approved \in BOOLEAN
  BY SensitiveDiffs DEF PublishInv, PublishTypeOK, NoDigest, PublishNodes
<1> USE <1>0, <1>0a
<1>1. ASSUME NEW d \in Diffs, TreeChanges(d) PROVE PublishInv'
  BY Zenon, <1>1
  DEF TreeChanges, PublishInv, CommandsHonest, ApprovalsHonest, AboutToPublish,
      PublishedWasReviewed
<1>2. CASE Evaluate
  <2>0. tree \in Digests /\ UNCHANGED <<tree, commands, consumed, applying, pushed, seen, decided, slipped>>
    BY <1>2, DigestsAre DEF Evaluate, PublishInv, PublishTypeOK
  <2>1. CommandsHonest'
    BY <2>0, NodeEvaluated, <1>2 DEF PublishInv, CommandsHonest
  <2>2. ApprovalsHonest'
    <3>1. CASE publish'.status = "blocked"
      <4>1. tree # NoDigest
        BY SensitiveDiffs DEF PublishInv, PublishTypeOK, NoDigest
      <4>2. publish'.invalid = NoDigest => asked = << >> /\ asked' = Append(asked, tree)
        BY <2>0, <3>1, <4>1, NodeEvaluated, <1>2
        DEF PublishInv, PublishTypeOK, ApprovalsHonest
      <4>3. publish'.facts = tree /\ ~publish'.approved
        BY <2>0, <3>1, NodeEvaluated, <1>2 DEF PublishInv
      <4>4. publish'.invalid = NoDigest => Len(asked') = 1 /\ asked'[1] = tree
        BY <2>0, <4>2
      <4> QED
        BY <2>0, <3>1, <4>3, <4>4 DEF ApprovalsHonest
    <3>2. CASE publish'.status = "publishing"
      BY <2>0, <3>2, NodeEvaluated, <1>2 DEF PublishInv, ApprovalsHonest, Invalidates, Required
    <3> QED
      BY <3>1, <3>2, NodeEvaluated, <1>2 DEF PublishInv
  <2>3. AboutToPublish'
    BY <2>0, NodeEvaluated, <1>2
    DEF PublishInv, ApprovalsHonest, AboutToPublish, Invalidates, Required
  <2>4. PublishedWasReviewed'
    BY <2>0 DEF PublishInv, PublishedWasReviewed
  <2> QED
    BY <2>1, <2>2, <2>3, <2>4 DEF PublishInv
<1>3. CASE Publish
  BY <1>3
  DEF Publish, PublishInv, PublishNodes, CommandsHonest, ApprovalsHonest, AboutToPublish,
      PublishedWasReviewed
<1>4. CASE PublisherRestarts
  BY <1>4
  DEF PublisherRestarts, PublishInv, PublishNodes, CommandsHonest, ApprovalsHonest,
      AboutToPublish, PublishedWasReviewed
<1>5. ASSUME NEW retry \in BOOLEAN, PushFails(retry) PROVE PublishInv'
  BY <1>5
  DEF PushFails, PublishInv, PublishNodes, CommandsHonest, ApprovalsHonest, AboutToPublish,
      PublishedWasReviewed
<1>6. ASSUME NEW c \in Commands, ApplyCommand(c) PROVE PublishInv'
  BY <1>6
  DEF ApplyCommand, PublishInv, CommandsHonest, ApprovalsHonest, AboutToPublish,
      PublishedWasReviewed
<1>7. ASSUME NEW c \in Commands, DecideFromCommand(c) PROVE PublishInv'
  <2>0. /\ commands[c].saw \in Digests /\ commands[c].digest \in Digests
        /\ commands[c].approve \in BOOLEAN /\ commands[c].digest \in {NoDigest, commands[c].saw}
        /\ \E k \in 1 .. Len(asked) : commands[c].saw = asked[k]
        /\ UNCHANGED <<tree, asked, commands, consumed, pushed, slipped>>
    BY <1>7 DEF DecideFromCommand, PublishInv, CommandsHonest, PublishCommands
  <2>1. CommandsHonest'
    BY <1>7, <2>0 DEF DecideFromCommand, PublishInv, PublishTypeOK, CommandsHonest
  <2>2. CASE UNCHANGED <<publish, seen>>
    BY <2>0, <2>1, <2>2 DEF PublishInv, ApprovalsHonest, AboutToPublish, PublishedWasReviewed
  <2>3. CASE DecideApproval(commands[c].digest, commands[c].saw, commands[c].approve)
    <3>0. PICK d \in Digests, saw \in Digests, approve \in BOOLEAN :
            /\ d = commands[c].digest /\ saw = commands[c].saw /\ approve = commands[c].approve
      BY <2>0
    <3>1. /\ publish.status = "blocked" /\ d \in {NoDigest, publish.facts}
          /\ publish' = [publish EXCEPT !.status = IF approve THEN "queued" ELSE "failed",
                                        !.approved = approve, !.digest = d]
          /\ seen' = IF approve THEN seen \cup {saw} ELSE seen
      BY <2>3, <3>0 DEF DecideApproval
    <3>2. /\ publish'.status = IF approve THEN "queued" ELSE "failed"
          /\ publish'.facts = publish.facts /\ publish'.invalid = publish.invalid
          /\ publish'.approved = approve /\ publish'.digest = d
      BY <3>1 DEF PublishNodes
    <3>3. ApprovalsHonest'
      BY <2>0, <3>0, <3>1, <3>2 DEF PublishInv, ApprovalsHonest
    <3> QED
      BY <2>0, <2>1, <3>1, <3>2, <3>3 DEF PublishInv, AboutToPublish, PublishedWasReviewed
  <2> QED
    BY <1>7, <2>2, <2>3 DEF DecideFromCommand
<1>8. ASSUME NEW c \in Commands, NEW k \in 1..MaxAsked, NEW named \in BOOLEAN,
             NEW tied \in BOOLEAN, NEW approve \in BOOLEAN, Issue(c, k, named, tied, approve)
      PROVE  PublishInv'
  BY <1>8
  DEF Issue, PublishCommands, PublishInv, CommandsHonest, ApprovalsHonest, AboutToPublish,
      PublishedWasReviewed
<1>9. ASSUME NEW k \in 1..MaxAsked, NEW named \in BOOLEAN, NEW approve \in BOOLEAN,
             DecideLocally(k, named, approve)
      PROVE  PublishInv'
  BY <1>9
  DEF DecideLocally, DecideApproval, PublishInv, CommandsHonest, ApprovalsHonest,
      AboutToPublish, PublishedWasReviewed
<1>10. CASE UNCHANGED publishVars
  BY <1>10
  DEF publishVars, PublishInv, CommandsHonest, ApprovalsHonest, AboutToPublish,
      PublishedWasReviewed
<1> QED
  BY <1>1, <1>2, <1>3, <1>4, <1>5, <1>6, <1>7, <1>8, <1>9, <1>10 DEF PublishNext

(* The invariant holds before the node first runs. *)
LEMMA PublishBegins == PublishInit => PublishInv
<1>1. /\ NoCommand \in PublishCommands /\ NoCommand.status = "none"
      /\ NoCommand.digest = NoDigest
  BY DigestsAre DEF NoCommand, PublishCommands
<1>2. [status |-> "queued", facts |-> NoDigest, invalid |-> NoDigest, approved |-> FALSE,
       digest |-> NoDigest] \in PublishNodes
  BY DigestsAre DEF PublishNodes
<1>3. PublishInit => PublishTypeOK
  <2> SUFFICES ASSUME PublishInit PROVE PublishTypeOK
    OBVIOUS
  <2>1. consumed \in [memory : SUBSET Commands, disk : SUBSET Commands]
    BY DEF PublishInit
  <2>2. asked \in Seq(Digests) /\ Len(asked) <= MaxAsked
    BY SensitiveDiffs DEF PublishInit
  <2>3. commands \in [Commands -> PublishCommands] /\ publish \in PublishNodes
    BY <1>1, <1>2 DEF PublishInit
  <2> QED
    BY Zenon, <2>1, <2>2, <2>3 DEF PublishInit, PublishTypeOK
<1>4. PublishInit => CommandsHonest
  BY <1>1 DEF PublishInit, CommandsHonest
<1>5. PublishInit => ApprovalsHonest /\ AboutToPublish /\ PublishedWasReviewed
  BY SensitiveDiffs
  DEF PublishInit, ApprovalsHonest, AboutToPublish, PublishedWasReviewed, NoDigest
<1> QED
  BY <1>3, <1>4, <1>5 DEF PublishInv

(* What is pushed needed no review or was approved by an operator who saw that
   very diff, unless the worktree changed after the check, and no command
   decides twice: for any diffs, rules, commands and numbers of requests. *)
THEOREM PublishedIsReviewed == PublishSpec => []ReviewHolds
<1>1. PublishInv => ReviewHolds
  BY DEF PublishInv, CommandsHonest, ReviewHolds, DecidedOnce
<1> QED
  BY <1>1, PublishBegins, PublishStep, PTL DEF PublishSpec

-----------------------------------------------------------------------------
(* The pairing offers *)

(* The shape of a stored offer. *)
OfferShape ==
  [id : Offers, revoked : BOOLEAN, redeemed : BOOLEAN, locked : BOOLEAN, failed : Nat]
PeerBindings == [peer : Peers, offer : Offers]

(* A list of offers, the file or what is about to be written, has each offer
   once; an offer in it was issued, and reads as redeemed if a redemption of it
   was written. *)
Listed(offers) ==
  /\ offers \in Seq(OfferShape)
  /\ \A i, j \in DOMAIN offers : offers[i].id = offers[j].id => i = j
  /\ \A i \in DOMAIN offers :
       /\ age[offers[i].id] # "unissued"
       /\ redeemedBy[offers[i].id] # {} => offers[i].redeemed

(* Its offers have counted the wrong secrets but those a crash forgot and those
   that are yet to be written, and are locked with the last one allowed. *)
Counted(offers, unwritten) ==
  \A i \in DOMAIN offers :
    /\ wrong[offers[i].id] <= offers[i].failed + restarts + unwritten
    /\ offers[i].failed <= MaxFailedRedeems
    /\ offers[i].locked \/ offers[i].failed < MaxFailedRedeems

Unwritten == IF \E r \in Requests : reqPc[r] = "writing" THEN 1 ELSE 0

PairingTypes ==
  /\ peerFile \in Seq(PeerBindings)
  /\ age \in [Offers -> {"unissued", "fresh", "expired", "old"}]
  /\ reqPc \in [Requests -> {"out", "writing", "binding"}]
  /\ draft \in [Requests -> Seq(OfferShape)]
  /\ binds \in [Requests -> PeerBindings \cup {NoBinding}]
  /\ redeemedBy \in [Offers -> SUBSET Peers] /\ wrong \in [Offers -> Nat]
  /\ restarts \in Nat

(* withStoreMutationLock keeps two operations apart. *)
OneWrites == \A r, s \in Requests : reqPc[r] # "out" /\ reqPc[s] # "out" => r = s

(* What is about to be written, and whom it binds. *)
DraftsListed ==
  \A r \in Requests : reqPc[r] = "writing" =>
    /\ Listed(draft[r]) /\ Counted(draft[r], 0)
    /\ binds[r] # NoBinding =>
         /\ redeemedBy[binds[r].offer] = {} /\ age[binds[r].offer] # "unissued"
         /\ \A i \in DOMAIN draft[r] : draft[r][i].id = binds[r].offer => draft[r][i].redeemed

BindingsRedeemed ==
  \A r \in Requests : reqPc[r] = "binding" =>
    binds[r] # NoBinding /\ binds[r].peer \in redeemedBy[binds[r].offer]

(* What is so of every offer, in the file or not. *)
OffersHold ==
  \A o \in Offers :
    /\ age[o] = "unissued" => redeemedBy[o] = {} /\ wrong[o] = 0
    /\ wrong[o] <= MaxFailedRedeems + restarts
    /\ \A p, q \in redeemedBy[o] : p = q

PeersRedeemed ==
  \A i \in DOMAIN peerFile : peerFile[i].peer \in redeemedBy[peerFile[i].offer]

PairingInv ==
  /\ PairingTypes /\ OneWrites /\ Listed(offerFile) /\ Counted(offerFile, Unwritten)
  /\ DraftsListed /\ BindingsRedeemed /\ OffersHold /\ PeersRedeemed

(* An offer that is replaced in a list. *)
LEMMA Replaced ==
  ASSUME NEW s \in Seq(OfferShape), NEW i \in DOMAIN s, NEW e \in OfferShape
  PROVE  /\ [s EXCEPT ![i] = e] \in Seq(OfferShape)
         /\ DOMAIN [s EXCEPT ![i] = e] = DOMAIN s
         /\ [s EXCEPT ![i] = e][i] = e
         /\ \A j \in DOMAIN s \ {i} : [s EXCEPT ![i] = e][j] = s[j]
  OBVIOUS

(* Compaction leaves some of the offers, each once. *)
LEMMA CompactedAre ==
  ASSUME NEW s \in Seq(OfferShape)
  PROVE  /\ CompactOffers(s) \in Seq(OfferShape)
         /\ \E f \in [DOMAIN CompactOffers(s) -> DOMAIN s] :
              /\ \A i \in DOMAIN CompactOffers(s) : CompactOffers(s)[i] = s[f[i]]
              /\ \A i, j \in DOMAIN CompactOffers(s) : f[i] = f[j] => i = j
<1> DEFINE P == {i \in DOMAIN s : age[s[i].id] # "old"}
           t == Selected(s, P)
           u == LastOf(t, MaxStoredOffers)
<1>0. P \in SUBSET DOMAIN s
  OBVIOUS
<1> HIDE DEF P
<1>1. t \in Seq(OfferShape)
      /\ \E f \in [DOMAIN t -> P] : /\ \A i \in DOMAIN f : t[i] = s[f[i]]
                                    /\ \A i, j \in DOMAIN f : i < j => f[i] < f[j]
  BY <1>0, SelectedIs
<1>2. CompactOffers(s) = u
  BY DEF CompactOffers, P
<1> HIDE DEF t
<1>3. PICK f \in [DOMAIN t -> P] : /\ \A i \in DOMAIN f : t[i] = s[f[i]]
                                   /\ \A i, j \in DOMAIN f : i < j => f[i] < f[j]
  BY <1>1
<1>4. /\ u \in Seq(OfferShape)
      /\ \E k \in Nat : \A i \in DOMAIN u : i + k \in DOMAIN t /\ u[i] = t[i + k]
  BY ZenonT(30), <1>1, PairingAssumption, LastIs
<1>5. PICK k \in Nat : \A i \in DOMAIN u : i + k \in DOMAIN t /\ u[i] = t[i + k]
  BY <1>4
<1>6. DOMAIN u \subseteq Nat /\ DOMAIN t \subseteq Nat /\ P \subseteq DOMAIN s /\ DOMAIN s \subseteq Nat
  BY <1>0, <1>1, <1>4
<1> HIDE DEF u
<1> DEFINE g == [i \in DOMAIN u |-> f[i + k]]
<1>7. g \in [DOMAIN u -> DOMAIN s]
  BY <1>3, <1>5, <1>6
<1>8. \A i \in DOMAIN u : u[i] = s[g[i]]
  BY <1>3, <1>5
<1>9. \A i, j \in DOMAIN u : g[i] = g[j] => i = j
  <2> SUFFICES ASSUME NEW i \in DOMAIN u, NEW j \in DOMAIN u, f[i + k] = f[j + k] PROVE i = j
    OBVIOUS
  <2>1. i \in Nat /\ j \in Nat /\ i + k \in DOMAIN f /\ j + k \in DOMAIN f
        /\ f[i + k] \in Nat /\ f[j + k] \in Nat
    BY <1>3, <1>5, <1>6
  <2>2. ~(i + k < j + k) /\ ~(j + k < i + k)
    BY <1>3, <2>1
  <2> QED
    BY <2>1, <2>2
<1> QED
  BY Zenon, <1>2, <1>4, <1>7, <1>8, <1>9

(* A peer that is bound is added to what is left of the bindings. *)
LEMMA UpsertedAre ==
  ASSUME NEW s \in Seq(PeerBindings), NEW b \in PeerBindings
  PROVE  /\ Upserted(s, b) \in Seq(PeerBindings)
         /\ \A i \in DOMAIN Upserted(s, b) :
              Upserted(s, b)[i] = b \/ \E j \in DOMAIN s : Upserted(s, b)[i] = s[j]
<1> DEFINE P == {i \in DOMAIN s : s[i].peer # b.peer}
           t == Selected(s, P)
           a == Append(t, b)
           u == LastOf(a, MaxBindings)
<1>3. P \in SUBSET DOMAIN s
  OBVIOUS
<1>2. Upserted(s, b) = u
  BY DEF Upserted
<1> HIDE DEF P
<1>1. t \in Seq(PeerBindings) /\ \E f \in [DOMAIN t -> P] : \A i \in DOMAIN f : t[i] = s[f[i]]
  BY <1>3, SelectedIs
<1> HIDE DEF t
<1>4. \A i \in DOMAIN t : \E j \in DOMAIN s : t[i] = s[j]
  BY <1>1, <1>3
<1>5. a \in Seq(PeerBindings) /\ \A i \in DOMAIN a : a[i] = b \/ (i \in DOMAIN t /\ a[i] = t[i])
  <2>1. t \in Seq(PeerBindings)
    BY <1>1
  <2>2. /\ a \in Seq(PeerBindings) /\ Len(a) = Len(t) + 1 /\ a[Len(t) + 1] = b
        /\ \A i \in 1..Len(t) : a[i] = t[i]
    BY <2>1
  <2>3. Len(t) \in Nat /\ DOMAIN t = 1..Len(t) /\ DOMAIN a = 1..(Len(t) + 1)
    BY <2>1, <2>2
  <2> HIDE DEF a
  <2>4. \A i \in DOMAIN a : i = Len(t) + 1 \/ i \in DOMAIN t
    BY <2>3
  <2>5. \A i \in DOMAIN a : a[i] = b \/ (i \in DOMAIN t /\ a[i] = t[i])
    <3>1. \A i \in DOMAIN t : a[i] = t[i]
      BY <2>2, <2>3
    <3>2. ASSUME NEW i \in DOMAIN a PROVE a[i] = b \/ (i \in DOMAIN t /\ a[i] = t[i])
      <4>1. CASE i = Len(t) + 1
        BY <2>2, <4>1
      <4>2. CASE i \in DOMAIN t
        BY <3>1, <4>2
      <4> QED
        BY <2>4, <4>1, <4>2
    <3> QED
      BY <3>2
  <2> QED
    BY <2>2, <2>5
<1> HIDE DEF a
<1>6. /\ u \in Seq(PeerBindings)
      /\ \E k \in Nat : \A i \in DOMAIN u : i + k \in DOMAIN a /\ u[i] = a[i + k]
  <2>1. a \in Seq(PeerBindings) /\ MaxBindings \in Nat
    BY Zenon, <1>5, PairingAssumption
  <2> QED
    BY <2>1, LastIs
<1> HIDE DEF u
<1> QED
  BY <1>2, <1>4, <1>5, <1>6

(* An operation that has read the file and is about to write it. *)
LEMMA WritesStep ==
  ASSUME PairingInv, NEW r \in Requests, NEW offers \in Seq(OfferShape),
         NEW b \in PeerBindings \cup {NoBinding}, Writes(r, offers, b),
         UNCHANGED <<offerFile, peerFile, restarts, redeemedBy>>,
         age' \in [Offers -> {"unissued", "fresh", "expired", "old"}], wrong' \in [Offers -> Nat],
         \A i, j \in DOMAIN offers : offers[i].id = offers[j].id => i = j,
         \A i \in DOMAIN offers :
           /\ age'[offers[i].id] # "unissued"
           /\ redeemedBy[offers[i].id] # {} => offers[i].redeemed
           /\ wrong'[offers[i].id] <= offers[i].failed + restarts
           /\ offers[i].failed <= MaxFailedRedeems
           /\ offers[i].locked \/ offers[i].failed < MaxFailedRedeems,
         b # NoBinding => /\ redeemedBy[b.offer] = {} /\ age'[b.offer] # "unissued"
                          /\ \A i \in DOMAIN offers : offers[i].id = b.offer => offers[i].redeemed,
         \A o \in Offers : /\ age[o] # "unissued" => age'[o] # "unissued"
                           /\ age'[o] = "unissued" => wrong'[o] = wrong[o]
                           /\ wrong'[o] <= wrong[o] + 1
                           /\ wrong'[o] <= MaxFailedRedeems + restarts
  PROVE  PairingInv'
<1>1. /\ \A s \in Requests : reqPc[s] = "out"
      /\ reqPc' = [reqPc EXCEPT ![r] = "writing"]
      /\ draft' = [draft EXCEPT ![r] = offers] /\ binds' = [binds EXCEPT ![r] = b]
  BY DEF Writes, MayEnter
<1>2. PairingTypes
  BY DEF PairingInv
<1>3. PairingTypes'
  BY <1>1, <1>2 DEF PairingTypes
<1>4. /\ reqPc'[r] = "writing" /\ draft'[r] = offers /\ binds'[r] = b
      /\ \A s \in Requests \ {r} : reqPc'[s] = "out"
  BY <1>1, <1>2 DEF PairingTypes
<1>5. OneWrites'
  BY <1>4 DEF OneWrites
<1>6. offerFile \in Seq(OfferShape) /\ \A i \in DOMAIN offerFile : offerFile[i].id \in Offers
        /\ offerFile[i].failed \in Nat
  <2>1. offerFile \in Seq(OfferShape)
    BY DEF PairingInv, Listed
  <2>2. \A i \in DOMAIN offerFile : offerFile[i] \in OfferShape
    BY <2>1
  <2> QED
    BY <2>1, <2>2 DEF OfferShape
<1>7. Listed(offerFile)'
  BY Zenon, <1>6 DEF PairingInv, Listed
<1>8. Unwritten = 0 /\ Unwritten' = 1
  BY <1>1, <1>4 DEF Unwritten
<1>9. Counted(offerFile, Unwritten)'
  <2>1. \A o \in Offers : wrong[o] \in Nat /\ wrong'[o] \in Nat /\ wrong'[o] <= wrong[o] + 1
    BY <1>2, <1>3 DEF PairingTypes
  <2>2. restarts \in Nat
    BY <1>2 DEF PairingTypes
  <2>3. \A i \in DOMAIN offerFile :
          /\ wrong[offerFile[i].id] <= offerFile[i].failed + restarts + 0
          /\ offerFile[i].failed <= MaxFailedRedeems
          /\ offerFile[i].locked \/ offerFile[i].failed < MaxFailedRedeems
    BY <1>8 DEF PairingInv, Counted
  <2>4. \A i \in DOMAIN offerFile :
          wrong'[offerFile[i].id] <= offerFile[i].failed + restarts + 1
    BY SMTT(30), <1>6, <2>1, <2>2, <2>3
  <2> QED
    BY <1>8, <2>3, <2>4 DEF Counted
<1>10. DraftsListed'
  <2>1. Listed(draft[r])'
    BY <1>4 DEF Listed
  <2>2. Counted(draft[r], 0)'
    <3>1. \A i \in DOMAIN offers : offers[i].failed \in Nat
      <4>1. \A i \in DOMAIN offers : offers[i] \in OfferShape
        OBVIOUS
      <4> QED
        BY <4>1 DEF OfferShape
    <3>2. restarts \in Nat
      BY <1>2 DEF PairingTypes
    <3> QED
      BY <1>4, <3>1, <3>2 DEF Counted
  <2> QED
    BY <1>4, <2>1, <2>2 DEF DraftsListed
<1>11. BindingsRedeemed'
  BY <1>4 DEF BindingsRedeemed
<1>12. OffersHold'
  BY DEF PairingInv, OffersHold
<1>13. PeersRedeemed'
  BY DEF PairingInv, PeersRedeemed
<1> QED
  BY <1>3, <1>5, <1>7, <1>9, <1>10, <1>11, <1>12, <1>13 DEF PairingInv

(* What every operation reads. *)
LEMMA ReadsFile ==
  ASSUME PairingInv, NEW r \in Requests, MayEnter(r)
  PROVE  /\ offerFile \in Seq(OfferShape) /\ restarts \in Nat
         /\ \A i, j \in DOMAIN offerFile : offerFile[i].id = offerFile[j].id => i = j
         /\ \A i \in DOMAIN offerFile :
              /\ offerFile[i] \in OfferShape
              /\ age[offerFile[i].id] # "unissued"
              /\ redeemedBy[offerFile[i].id] # {} => offerFile[i].redeemed
              /\ wrong[offerFile[i].id] <= offerFile[i].failed + restarts
              /\ offerFile[i].failed <= MaxFailedRedeems
              /\ offerFile[i].locked \/ offerFile[i].failed < MaxFailedRedeems
         /\ \A o \in Offers : wrong[o] \in Nat /\ wrong[o] <= MaxFailedRedeems + restarts
         /\ age \in [Offers -> {"unissued", "fresh", "expired", "old"}]
         /\ wrong \in [Offers -> Nat]
<1>1. Unwritten = 0
  BY DEF Unwritten, MayEnter
<1>2. offerFile \in Seq(OfferShape) /\ \A i \in DOMAIN offerFile : offerFile[i] \in OfferShape
  BY DEF PairingInv, Listed
<1>3. restarts \in Nat /\ wrong \in [Offers -> Nat]
      /\ age \in [Offers -> {"unissued", "fresh", "expired", "old"}]
  BY DEF PairingInv, PairingTypes
<1>4. \A i \in DOMAIN offerFile : offerFile[i].failed \in Nat
  BY <1>2 DEF OfferShape
<1>5. \A i \in DOMAIN offerFile :
        /\ wrong[offerFile[i].id] <= offerFile[i].failed + restarts + 0
        /\ offerFile[i].failed <= MaxFailedRedeems
        /\ offerFile[i].locked \/ offerFile[i].failed < MaxFailedRedeems
  BY <1>1 DEF PairingInv, Counted
<1>6. \A i \in DOMAIN offerFile : wrong[offerFile[i].id] <= offerFile[i].failed + restarts
  BY <1>3, <1>4, <1>5
<1>7. /\ \A i, j \in DOMAIN offerFile : offerFile[i].id = offerFile[j].id => i = j
      /\ \A i \in DOMAIN offerFile :
           /\ age[offerFile[i].id] # "unissued"
           /\ redeemedBy[offerFile[i].id] # {} => offerFile[i].redeemed
  BY DEF PairingInv, Listed
<1>8. \A o \in Offers : wrong[o] \in Nat /\ wrong[o] <= MaxFailedRedeems + restarts
  BY <1>3 DEF PairingInv, OffersHold
<1> QED
  BY <1>2, <1>3, <1>5, <1>6, <1>7, <1>8

(* An operation that changes one offer of the file, or counts a wrong secret. *)
LEMMA ChangesOffer ==
  ASSUME PairingInv, NEW r \in Requests, NEW o \in Offers, NEW i \in DOMAIN offerFile,
         offerFile[i].id = o, NEW e \in OfferShape, e.id = o,
         NEW b \in PeerBindings \cup {NoBinding}, Writes(r, [offerFile EXCEPT ![i] = e], b),
         UNCHANGED <<offerFile, peerFile, age, restarts, redeemedBy>>,
         wrong' \in [Offers -> Nat], \A x \in Offers \ {o} : wrong'[x] = wrong[x],
         wrong'[o] \in {wrong[o], wrong[o] + 1},
         offerFile[i].redeemed => e.redeemed,
         wrong'[o] <= e.failed + restarts,
         e.failed <= MaxFailedRedeems, e.locked \/ e.failed < MaxFailedRedeems,
         b # NoBinding => b.offer = o /\ redeemedBy[o] = {} /\ e.redeemed
  PROVE  PairingInv'
<1> DEFINE t == [offerFile EXCEPT ![i] = e]
<1>1. MayEnter(r)
  BY DEF Writes
<1>2. /\ offerFile \in Seq(OfferShape) /\ restarts \in Nat
      /\ \A j, k \in DOMAIN offerFile : offerFile[j].id = offerFile[k].id => j = k
      /\ \A j \in DOMAIN offerFile :
           /\ offerFile[j] \in OfferShape
           /\ age[offerFile[j].id] # "unissued"
           /\ redeemedBy[offerFile[j].id] # {} => offerFile[j].redeemed
           /\ wrong[offerFile[j].id] <= offerFile[j].failed + restarts
           /\ offerFile[j].failed <= MaxFailedRedeems
           /\ offerFile[j].locked \/ offerFile[j].failed < MaxFailedRedeems
      /\ \A x \in Offers : wrong[x] \in Nat /\ wrong[x] <= MaxFailedRedeems + restarts
      /\ age \in [Offers -> {"unissued", "fresh", "expired", "old"}]
  BY <1>1, ReadsFile
<1>3. t \in Seq(OfferShape) /\ DOMAIN t = DOMAIN offerFile /\ t[i] = e
      /\ \A j \in DOMAIN offerFile \ {i} : t[j] = offerFile[j]
  BY <1>2, Replaced
<1>4. Writes(r, t, b)
  OBVIOUS
<1> HIDE DEF t
<1>5. \A j, k \in DOMAIN t : t[j].id = t[k].id => j = k
  BY <1>2, <1>3
<1>6. \A j \in DOMAIN offerFile \ {i} : offerFile[j].id \in Offers \ {o}
  BY <1>2 DEF OfferShape
<1>7. \A j \in DOMAIN t :
        /\ age'[t[j].id] # "unissued"
        /\ redeemedBy[t[j].id] # {} => t[j].redeemed
        /\ wrong'[t[j].id] <= t[j].failed + restarts
        /\ t[j].failed <= MaxFailedRedeems
        /\ t[j].locked \/ t[j].failed < MaxFailedRedeems
  BY <1>2, <1>3, <1>6
<1>8. b # NoBinding =>
        /\ redeemedBy[b.offer] = {} /\ age'[b.offer] # "unissued"
        /\ \A j \in DOMAIN t : t[j].id = b.offer => t[j].redeemed
  <2> SUFFICES ASSUME b # NoBinding
               PROVE  /\ redeemedBy[b.offer] = {} /\ age'[b.offer] # "unissued"
                      /\ \A j \in DOMAIN t : t[j].id = b.offer => t[j].redeemed
    OBVIOUS
  <2>1. age'[o] = age[o] /\ age[o] # "unissued"
    BY <1>2
  <2>2. \A j \in DOMAIN t : t[j].id = o => t[j] = e
    BY <1>3, <1>5
  <2>3. b.offer = o /\ redeemedBy[o] = {} /\ e.redeemed
    OBVIOUS
  <2> QED
    BY <2>1, <2>2, <2>3
<1>9. e.failed \in Nat /\ wrong'[o] \in Nat /\ MaxFailedRedeems \in Nat
  BY Zenon, PairingAssumption DEF OfferShape
<1>10. \A x \in Offers :
        /\ age[x] # "unissued" => age'[x] # "unissued"
        /\ age'[x] = "unissued" => wrong'[x] = wrong[x]
        /\ wrong'[x] <= wrong[x] + 1
        /\ wrong'[x] <= MaxFailedRedeems + restarts
  <2>1. age[o] # "unissued"
    BY <1>2
  <2>2. wrong'[o] <= MaxFailedRedeems + restarts
    BY <1>2, <1>9
  <2> QED
    BY <1>2, <2>1, <2>2
<1>11. age' \in [Offers -> {"unissued", "fresh", "expired", "old"}]
  BY <1>2
<1>12. UNCHANGED <<offerFile, peerFile, restarts, redeemedBy>> /\ t \in Seq(OfferShape)
  BY <1>3
<1> HIDE DEF PairingInv
<1>13. b \in PeerBindings \cup {NoBinding} /\ wrong' \in [Offers -> Nat] /\ PairingInv
  OBVIOUS
<1>14. t \in Seq(OfferShape)
  BY <1>3
<1> QED
  BY <1>4, <1>5, <1>7, <1>8, <1>10, <1>11, <1>12, <1>13, <1>14, WritesStep, Zenon

(* A stored offer, and where it is. *)
LEMMA StoredAre ==
  ASSUME PairingInv, NEW o \in Offers, NEW i \in Stored(o)
  PROVE  i \in DOMAIN offerFile /\ offerFile[i] \in OfferShape /\ offerFile[i].id = o
<1>1. i \in DOMAIN offerFile /\ offerFile[i].id = o
  BY DEF Stored
<1>2. offerFile \in Seq(OfferShape)
  BY DEF PairingInv, Listed
<1> QED
  BY <1>1, <1>2

(* At first nothing was issued, and nothing is written. *)
LEMMA PairingStarts == PairingInit => PairingInv
<1> SUFFICES ASSUME PairingInit PROVE PairingInv
  OBVIOUS
<1> USE DEF PairingInit
<1>1. PairingTypes
  BY DEF PairingTypes
<1>2. OneWrites /\ DraftsListed /\ BindingsRedeemed /\ PeersRedeemed
  BY DEF OneWrites, DraftsListed, BindingsRedeemed, PeersRedeemed
<1>3. Listed(offerFile) /\ Counted(offerFile, Unwritten)
  BY DEF Listed, Counted
<1>4. OffersHold
  <2>1. \A o \in Offers : redeemedBy[o] = {} /\ wrong[o] = 0
    OBVIOUS
  <2>2. MaxFailedRedeems \in Nat /\ restarts = 0
    BY Zenon, PairingAssumption
  <2>3. 0 <= MaxFailedRedeems + restarts
    BY <2>2
  <2> QED
    BY <2>1, <2>3 DEF OffersHold
<1> QED
  BY <1>1, <1>2, <1>3, <1>4 DEF PairingInv

(* A new offer is appended: it is in no other place of the file, and nothing
   was redeemed of it. *)
LEMMA IssueStep ==
  ASSUME PairingInv, NEW r \in Requests, NEW o \in Offers, IssueOffer(r, o)
  PROVE  PairingInv'
<1> DEFINE t == Append(offerFile, NewOffer(o))
<1>1. MayEnter(r) /\ Writes(r, t, NoBinding) /\ age[o] = "unissued"
      /\ age' = [age EXCEPT ![o] = "fresh"]
      /\ UNCHANGED <<offerFile, peerFile, restarts, redeemedBy, wrong>>
  BY DEF IssueOffer, Writes
<1>2. /\ offerFile \in Seq(OfferShape) /\ restarts \in Nat
      /\ \A j, k \in DOMAIN offerFile : offerFile[j].id = offerFile[k].id => j = k
      /\ \A j \in DOMAIN offerFile :
           /\ offerFile[j] \in OfferShape
           /\ age[offerFile[j].id] # "unissued"
           /\ redeemedBy[offerFile[j].id] # {} => offerFile[j].redeemed
           /\ wrong[offerFile[j].id] <= offerFile[j].failed + restarts
           /\ offerFile[j].failed <= MaxFailedRedeems
           /\ offerFile[j].locked \/ offerFile[j].failed < MaxFailedRedeems
      /\ \A x \in Offers : wrong[x] \in Nat /\ wrong[x] <= MaxFailedRedeems + restarts
      /\ age \in [Offers -> {"unissued", "fresh", "expired", "old"}]
      /\ wrong \in [Offers -> Nat]
  BY Zenon, <1>1, ReadsFile
<1>3. redeemedBy[o] = {} /\ wrong[o] = 0
  BY <1>1 DEF PairingInv, OffersHold
<1>4. /\ NewOffer(o) \in OfferShape /\ NewOffer(o).id = o /\ NewOffer(o).failed = 0
      /\ MaxFailedRedeems \in Nat \ {0}
  BY Zenon, PairingAssumption DEF NewOffer, OfferShape
<1> DEFINE n == Len(offerFile) + 1
<1>5. /\ t \in Seq(OfferShape) /\ DOMAIN t = DOMAIN offerFile \cup {n} /\ n \notin DOMAIN offerFile
      /\ t[n] = NewOffer(o) /\ \A j \in DOMAIN offerFile : t[j] = offerFile[j]
  BY <1>2, <1>4
<1> HIDE DEF t, n
<1>6. \A j \in DOMAIN offerFile : offerFile[j].id \in Offers \ {o}
  BY <1>1, <1>2 DEF OfferShape
<1>7. \A j, k \in DOMAIN t : t[j].id = t[k].id => j = k
  BY <1>2, <1>4, <1>5, <1>6
<1>8. age' \in [Offers -> {"unissued", "fresh", "expired", "old"}] /\ age'[o] = "fresh"
      /\ \A x \in Offers \ {o} : age'[x] = age[x]
  BY <1>1, <1>2
<1>9. \A j \in DOMAIN t :
        /\ age'[t[j].id] # "unissued"
        /\ redeemedBy[t[j].id] # {} => t[j].redeemed
        /\ wrong'[t[j].id] <= t[j].failed + restarts
        /\ t[j].failed <= MaxFailedRedeems
        /\ t[j].locked \/ t[j].failed < MaxFailedRedeems
  <2>1. ASSUME NEW j \in DOMAIN offerFile
        PROVE  /\ age'[t[j].id] # "unissued"
               /\ redeemedBy[t[j].id] # {} => t[j].redeemed
               /\ wrong'[t[j].id] <= t[j].failed + restarts
               /\ t[j].failed <= MaxFailedRedeems
               /\ t[j].locked \/ t[j].failed < MaxFailedRedeems
    <3>1. t[j] = offerFile[j] /\ wrong' = wrong /\ age'[t[j].id] = age[offerFile[j].id]
      BY <1>1, <1>5, <1>6, <1>8
    <3> QED
      BY <1>2, <3>1
  <2>2. /\ age'[t[n].id] # "unissued" /\ redeemedBy[t[n].id] = {}
        /\ wrong'[t[n].id] = 0 /\ t[n].failed = 0
    BY <1>1, <1>3, <1>4, <1>5, <1>8
  <2>3. wrong'[t[n].id] <= t[n].failed + restarts /\ t[n].failed < MaxFailedRedeems
    BY <1>2, <1>4, <2>2
  <2>4. ASSUME NEW j \in DOMAIN t, j \notin DOMAIN offerFile PROVE j = n
    BY <1>5, <2>4
  <2>5. ASSUME NEW j \in DOMAIN t, j \notin DOMAIN offerFile
        PROVE  /\ age'[t[j].id] # "unissued"
               /\ redeemedBy[t[j].id] # {} => t[j].redeemed
               /\ wrong'[t[j].id] <= t[j].failed + restarts
               /\ t[j].failed <= MaxFailedRedeems
               /\ t[j].locked \/ t[j].failed < MaxFailedRedeems
    <3>1. j = n /\ t[n].failed <= MaxFailedRedeems
      BY <2>2, <2>4, <2>5, <1>4
    <3> QED
      BY <2>2, <2>3, <3>1
  <2> QED
    BY <2>1, <2>5
<1>10. NoBinding # NoBinding =>
         /\ redeemedBy[NoBinding.offer] = {} /\ age'[NoBinding.offer] # "unissued"
         /\ \A j \in DOMAIN t : t[j].id = NoBinding.offer => t[j].redeemed
  OBVIOUS
<1>11. \A x \in Offers :
        /\ age[x] # "unissued" => age'[x] # "unissued"
        /\ age'[x] = "unissued" => wrong'[x] = wrong[x]
        /\ wrong'[x] <= wrong[x] + 1
        /\ wrong'[x] <= MaxFailedRedeems + restarts
  BY <1>1, <1>2, <1>8
<1>12. UNCHANGED <<offerFile, peerFile, restarts, redeemedBy>> /\ wrong' \in [Offers -> Nat]
       /\ NoBinding \in PeerBindings \cup {NoBinding}
  BY <1>1, <1>2
<1>13. Writes(r, t, NoBinding)
  BY <1>1
<1>14. t \in Seq(OfferShape)
  BY <1>5
<1> QED
  BY <1>7, <1>8, <1>9, <1>10, <1>11, <1>12, <1>13, <1>14, WritesStep, Zenon

(* Revoking changes neither what was redeemed nor what was counted. *)
LEMMA RevokeStep ==
  ASSUME PairingInv, NEW r \in Requests, NEW o \in Offers, RevokeOffer(r, o)
  PROVE  PairingInv'
<1>1. PICK i \in Stored(o) :
        /\ Writes(r, [offerFile EXCEPT ![i].revoked = TRUE], NoBinding)
        /\ UNCHANGED <<offerFile, peerFile, age, restarts, redeemedBy, wrong>>
  BY Zenon DEF RevokeOffer
<1> DEFINE e == [offerFile[i] EXCEPT !.revoked = TRUE]
<1>2. i \in DOMAIN offerFile /\ offerFile[i] \in OfferShape /\ offerFile[i].id = o
  BY StoredAre
<1>3. e \in OfferShape /\ e.id = o /\ e.redeemed = offerFile[i].redeemed
      /\ e.failed = offerFile[i].failed /\ e.locked = offerFile[i].locked
  BY Zenon, <1>2 DEF OfferShape
<1>4. Writes(r, [offerFile EXCEPT ![i] = e], NoBinding)
  BY <1>1
<1> HIDE DEF e
<1>5. MayEnter(r)
  BY <1>4 DEF Writes
<1>6. /\ wrong[o] <= offerFile[i].failed + restarts /\ offerFile[i].failed <= MaxFailedRedeems
      /\ (offerFile[i].locked \/ offerFile[i].failed < MaxFailedRedeems)
      /\ wrong \in [Offers -> Nat]
  BY <1>2, <1>5, ReadsFile
<1>7. /\ wrong' \in [Offers -> Nat] /\ wrong'[o] \in {wrong[o], wrong[o] + 1}
      /\ \A x \in Offers \ {o} : wrong'[x] = wrong[x]
      /\ UNCHANGED <<offerFile, peerFile, age, restarts, redeemedBy>>
      /\ wrong'[o] <= e.failed + restarts /\ e.failed <= MaxFailedRedeems
      /\ NoBinding \in PeerBindings \cup {NoBinding}
  BY <1>1, <1>3, <1>6
<1>8. (offerFile[i].redeemed => e.redeemed) /\ (e.locked \/ e.failed < MaxFailedRedeems)
  BY <1>3, <1>6
<1>9. NoBinding # NoBinding => NoBinding.offer = o /\ redeemedBy[o] = {} /\ e.redeemed
  OBVIOUS
<1> QED
  BY <1>2, <1>3, <1>4, <1>7, <1>8, <1>9, ChangesOffer, Zenon

(* A wrong secret is counted in the draft before it counts in the history; the
   last one allowed locks the offer. *)
LEMMA WronglyStep ==
  ASSUME PairingInv, NEW r \in Requests, NEW o \in Offers, RedeemWrongly(r, o)
  PROVE  PairingInv'
<1>1. PICK i \in Stored(o) :
        /\ Redeemable(offerFile[i])
        /\ LET n == offerFile[i].failed + 1
           IN Writes(r, [offerFile EXCEPT ![i].failed = n, ![i].locked = (n >= MaxFailedRedeems)],
                     NoBinding)
        /\ wrong' = [wrong EXCEPT ![o] = @ + 1]
        /\ UNCHANGED <<offerFile, peerFile, age, restarts, redeemedBy>>
  BY Zenon DEF RedeemWrongly
<1> DEFINE n == offerFile[i].failed + 1
           l == n >= MaxFailedRedeems
           e == [offerFile[i] EXCEPT !.failed = n, !.locked = l]
<1>2. i \in DOMAIN offerFile /\ offerFile[i] \in OfferShape /\ offerFile[i].id = o
  BY StoredAre
<1>3. n \in Nat /\ l \in BOOLEAN
  BY <1>2 DEF OfferShape
<1>4. Writes(r, [offerFile EXCEPT ![i].failed = n, ![i].locked = l], NoBinding)
  BY <1>1
<1> HIDE DEF l
<1>5. [offerFile EXCEPT ![i].failed = n, ![i].locked = l] = [offerFile EXCEPT ![i] = e]
  BY Zenon, <1>2
<1>6. e \in OfferShape /\ e.id = o /\ e.redeemed = offerFile[i].redeemed /\ e.failed = n
  BY Zenon, <1>2, <1>3 DEF OfferShape
<1>7. e.locked <=> l
  BY <1>2 DEF OfferShape
<1>8. Writes(r, [offerFile EXCEPT ![i] = e], NoBinding)
  BY <1>4, <1>5
<1> HIDE DEF e
<1>9. MayEnter(r)
  BY <1>8 DEF Writes
<1>10. /\ wrong[o] <= offerFile[i].failed + restarts /\ offerFile[i].failed <= MaxFailedRedeems
       /\ (offerFile[i].locked \/ offerFile[i].failed < MaxFailedRedeems)
       /\ wrong \in [Offers -> Nat] /\ restarts \in Nat
  BY <1>2, <1>9, ReadsFile
<1>11. ~offerFile[i].locked
  BY <1>1 DEF Redeemable
<1>12. n <= MaxFailedRedeems /\ offerFile[i].failed \in Nat /\ MaxFailedRedeems \in Nat
  <2>1. offerFile[i].failed \in Nat
    BY <1>2 DEF OfferShape
  <2>2. offerFile[i].failed < MaxFailedRedeems
    BY <1>10, <1>11
  <2>3. MaxFailedRedeems \in Nat
    BY Zenon, PairingAssumption
  <2>4. offerFile[i].failed + 1 <= MaxFailedRedeems
    BY <2>1, <2>2, <2>3
  <2> QED
    BY <2>1, <2>3, <2>4
<1>13. /\ wrong' \in [Offers -> Nat] /\ wrong'[o] = wrong[o] + 1
       /\ \A x \in Offers \ {o} : wrong'[x] = wrong[x]
  BY <1>1, <1>10
<1>14. /\ wrong'[o] \in {wrong[o], wrong[o] + 1}
       /\ UNCHANGED <<offerFile, peerFile, age, restarts, redeemedBy>>
       /\ wrong'[o] <= e.failed + restarts /\ e.failed <= MaxFailedRedeems
       /\ NoBinding \in PeerBindings \cup {NoBinding}
  <2>1. wrong[o] \in Nat
    BY <1>10
  <2> QED
    BY <1>1, <1>6, <1>10, <1>12, <1>13, <2>1
<1>15. e.locked \/ e.failed < MaxFailedRedeems
  BY <1>6, <1>7, <1>12 DEF l
<1>16. offerFile[i].redeemed => e.redeemed
  BY <1>6
<1>17. NoBinding # NoBinding => NoBinding.offer = o /\ redeemedBy[o] = {} /\ e.redeemed
  OBVIOUS
<1> QED
  BY <1>2, <1>6, <1>8, <1>13, <1>14, <1>15, <1>16, <1>17, ChangesOffer, Zenon

(* An offer that can be redeemed was not: the draft has it redeemed. *)
LEMMA RedeemStep ==
  ASSUME PairingInv, NEW r \in Requests, NEW o \in Offers, NEW p \in Peers, RedeemOffer(r, o, p)
  PROVE  PairingInv'
<1> DEFINE b == [peer |-> p, offer |-> o]
<1>1. PICK i \in Stored(o) :
        /\ Redeemable(offerFile[i])
        /\ Writes(r, [offerFile EXCEPT ![i].redeemed = TRUE], b)
        /\ UNCHANGED <<offerFile, peerFile, age, restarts, redeemedBy, wrong>>
  BY Zenon DEF RedeemOffer
<1> DEFINE e == [offerFile[i] EXCEPT !.redeemed = TRUE]
<1>2. i \in DOMAIN offerFile /\ offerFile[i] \in OfferShape /\ offerFile[i].id = o
  BY StoredAre
<1>3. e \in OfferShape /\ e.id = o /\ e.redeemed = TRUE
      /\ e.failed = offerFile[i].failed /\ e.locked = offerFile[i].locked
  BY Zenon, <1>2 DEF OfferShape
<1>4. Writes(r, [offerFile EXCEPT ![i] = e], b)
  BY <1>1
<1> HIDE DEF e
<1>5. MayEnter(r)
  BY <1>4 DEF Writes
<1>6. /\ wrong[o] <= offerFile[i].failed + restarts /\ offerFile[i].failed <= MaxFailedRedeems
      /\ (offerFile[i].locked \/ offerFile[i].failed < MaxFailedRedeems)
      /\ wrong \in [Offers -> Nat]
      /\ redeemedBy[offerFile[i].id] # {} => offerFile[i].redeemed
  BY Zenon, <1>2, <1>5, ReadsFile
<1>7. /\ wrong' \in [Offers -> Nat] /\ wrong'[o] \in {wrong[o], wrong[o] + 1}
      /\ \A x \in Offers \ {o} : wrong'[x] = wrong[x]
      /\ UNCHANGED <<offerFile, peerFile, age, restarts, redeemedBy>>
      /\ wrong'[o] <= e.failed + restarts /\ e.failed <= MaxFailedRedeems
  BY <1>1, <1>3, <1>6
<1>8. (offerFile[i].redeemed => e.redeemed) /\ (e.locked \/ e.failed < MaxFailedRedeems)
  BY <1>3, <1>6
<1>9. redeemedBy[o] = {}
  BY <1>1, <1>2, <1>6 DEF Redeemable
<1>10. b \in PeerBindings \cup {NoBinding} /\ b.offer = o
  BY DEF PeerBindings
<1> HIDE DEF b
<1>11. b # NoBinding => b.offer = o /\ redeemedBy[o] = {} /\ e.redeemed
  BY <1>3, <1>9, <1>10
<1> QED
  BY <1>2, <1>3, <1>4, <1>7, <1>8, <1>10, <1>11, ChangesOffer, Zenon

(* What is written is what was drafted, less what compaction drops; the first
   redemption of the offer takes effect with it. *)
LEMMA WriteStep == ASSUME PairingInv, NEW r \in Requests, WriteOffers(r) PROVE PairingInv'
<1> DEFINE t == CompactOffers(draft[r])
<1>1. /\ reqPc[r] = "writing" /\ offerFile' = t /\ draft' = [draft EXCEPT ![r] = << >>]
      /\ IF binds[r] = NoBinding
         THEN reqPc' = [reqPc EXCEPT ![r] = "out"] /\ UNCHANGED redeemedBy
         ELSE /\ reqPc' = [reqPc EXCEPT ![r] = "binding"]
              /\ redeemedBy' = [redeemedBy EXCEPT ![binds[r].offer] = @ \cup {binds[r].peer}]
      /\ UNCHANGED <<peerFile, age, binds, restarts, wrong>>
  BY DEF WriteOffers
<1>2. PairingTypes
  BY DEF PairingInv
<1>3. binds[r] \in PeerBindings \cup {NoBinding} /\ draft[r] \in Seq(OfferShape)
  BY <1>2 DEF PairingTypes
<1>4. binds[r] # NoBinding => binds[r].peer \in Peers /\ binds[r].offer \in Offers
  BY <1>3 DEF PeerBindings
<1>5. redeemedBy' \in [Offers -> SUBSET Peers] /\ \A o \in Offers : redeemedBy[o] \subseteq redeemedBy'[o]
  <2>1. redeemedBy \in [Offers -> SUBSET Peers]
    BY <1>2 DEF PairingTypes
  <2>2. CASE binds[r] = NoBinding
    BY <1>1, <2>1, <2>2
  <2>3. CASE binds[r] # NoBinding
    BY <1>1, <1>4, <2>1, <2>3
  <2> QED
    BY <2>2, <2>3
<1>6. reqPc' \in [Requests -> {"out", "writing", "binding"}] /\ draft' \in [Requests -> Seq(OfferShape)]
  <2>1. reqPc \in [Requests -> {"out", "writing", "binding"}]
    BY <1>2 DEF PairingTypes
  <2>2. reqPc' \in [Requests -> {"out", "writing", "binding"}]
    BY <1>1, <2>1
  <2>3. draft \in [Requests -> Seq(OfferShape)] /\ << >> \in Seq(OfferShape)
    BY <1>2 DEF PairingTypes
  <2>4. draft' \in [Requests -> Seq(OfferShape)]
    BY <1>1, <2>3
  <2> QED
    BY <2>2, <2>4
<1>7. PairingTypes'
  BY <1>1, <1>2, <1>5, <1>6 DEF PairingTypes
<1>8. /\ reqPc'[r] \in {"out", "binding"} /\ (reqPc'[r] = "binding" => binds[r] # NoBinding)
      /\ \A s \in Requests \ {r} : reqPc'[s] = "out"
  BY <1>1, <1>2 DEF PairingInv, OneWrites, PairingTypes
<1>9. OneWrites'
  BY <1>8 DEF OneWrites
<1>10. Unwritten' = 0
  BY <1>8 DEF Unwritten
<1>11. PICK f \in [DOMAIN t -> DOMAIN draft[r]] :
         /\ \A i \in DOMAIN t : t[i] = draft[r][f[i]]
         /\ \A i, j \in DOMAIN t : f[i] = f[j] => i = j
  BY Zenon, <1>3, CompactedAre
<1>12. t \in Seq(OfferShape)
  BY <1>3, CompactedAre
<1> HIDE DEF t
<1>13. /\ \A i, j \in DOMAIN draft[r] : draft[r][i].id = draft[r][j].id => i = j
       /\ \A i \in DOMAIN draft[r] :
            /\ age[draft[r][i].id] # "unissued"
            /\ redeemedBy[draft[r][i].id] # {} => draft[r][i].redeemed
            /\ wrong[draft[r][i].id] <= draft[r][i].failed + restarts + 0
            /\ draft[r][i].failed <= MaxFailedRedeems
            /\ draft[r][i].locked \/ draft[r][i].failed < MaxFailedRedeems
       /\ binds[r] # NoBinding =>
            /\ redeemedBy[binds[r].offer] = {} /\ age[binds[r].offer] # "unissued"
            /\ \A i \in DOMAIN draft[r] : draft[r][i].id = binds[r].offer => draft[r][i].redeemed
  BY <1>1 DEF PairingInv, DraftsListed, Listed, Counted
<1>14. \A i \in DOMAIN draft[r] : draft[r][i].id \in Offers
  <2>1. \A i \in DOMAIN draft[r] : draft[r][i] \in OfferShape
    BY <1>3
  <2> QED
    BY <2>1 DEF OfferShape
<1>15. \A i \in DOMAIN draft[r] : redeemedBy'[draft[r][i].id] # {} => draft[r][i].redeemed
  <2> SUFFICES ASSUME NEW i \in DOMAIN draft[r], redeemedBy'[draft[r][i].id] # {}
               PROVE  draft[r][i].redeemed
    OBVIOUS
  <2>1. CASE binds[r] = NoBinding
    BY <1>1, <1>13, <2>1
  <2>2. CASE binds[r] # NoBinding /\ draft[r][i].id = binds[r].offer
    BY <1>13, <2>2
  <2>3. CASE binds[r] # NoBinding /\ draft[r][i].id # binds[r].offer
    <3>1. redeemedBy'[draft[r][i].id] = redeemedBy[draft[r][i].id]
      BY <1>1, <1>2, <1>14, <2>3 DEF PairingTypes
    <3> QED
      BY <1>13, <3>1
  <2> QED
    BY <2>1, <2>2, <2>3
<1>16. Listed(offerFile)'
  <2>1. \A i, j \in DOMAIN t : t[i].id = t[j].id => i = j
    BY <1>11, <1>13
  <2>2. \A i \in DOMAIN t : /\ age[t[i].id] # "unissued"
                            /\ redeemedBy'[t[i].id] # {} => t[i].redeemed
    BY <1>11, <1>13, <1>15
  <2> QED
    BY <1>1, <1>12, <2>1, <2>2 DEF Listed
<1>17. Counted(offerFile, Unwritten)'
  <2>1. \A i \in DOMAIN t : /\ wrong[t[i].id] <= t[i].failed + restarts + 0
                            /\ t[i].failed <= MaxFailedRedeems
                            /\ t[i].locked \/ t[i].failed < MaxFailedRedeems
    BY <1>11, <1>13
  <2> QED
    BY <1>1, <1>10, <2>1 DEF Counted
<1>18. DraftsListed'
  BY <1>8 DEF DraftsListed
<1>19. BindingsRedeemed'
  <2> SUFFICES ASSUME NEW s \in Requests, reqPc'[s] = "binding"
               PROVE  binds'[s] # NoBinding /\ binds'[s].peer \in redeemedBy'[binds'[s].offer]
    BY DEF BindingsRedeemed
  <2>1. s = r /\ binds[r] # NoBinding /\ binds' = binds
    BY <1>1, <1>8
  <2>2. redeemedBy' = [redeemedBy EXCEPT ![binds[r].offer] = @ \cup {binds[r].peer}]
    BY <1>1, <2>1
  <2>3. binds[r].peer \in redeemedBy'[binds[r].offer]
    BY <1>2, <1>4, <2>1, <2>2 DEF PairingTypes
  <2> QED
    BY <2>1, <2>3
<1>20. OffersHold'
  <2>1. \A o \in Offers : (age[o] = "unissued" => redeemedBy[o] = {} /\ wrong[o] = 0)
                         /\ wrong[o] <= MaxFailedRedeems + restarts
                         /\ \A p, q \in redeemedBy[o] : p = q
    BY DEF PairingInv, OffersHold
  <2>2. CASE binds[r] = NoBinding
    BY <1>1, <2>1, <2>2 DEF OffersHold
  <2>3. CASE binds[r] # NoBinding
    <3>1. redeemedBy' = [redeemedBy EXCEPT ![binds[r].offer] = @ \cup {binds[r].peer}]
      BY <1>1, <2>3
    <3>2. \A o \in Offers : redeemedBy'[o] = IF o = binds[r].offer THEN {binds[r].peer} ELSE redeemedBy[o]
      BY ZenonT(30), <1>2, <1>13, <2>3, <3>1 DEF PairingTypes
    <3>3. age[binds[r].offer] # "unissued"
      BY <1>13, <2>3
    <3> QED
      BY <1>1, <2>1, <3>2, <3>3 DEF OffersHold
  <2> QED
    BY <2>2, <2>3
<1>21. PeersRedeemed'
  <2>1. \A i \in DOMAIN peerFile : peerFile[i].offer \in Offers
    <3>1. \A i \in DOMAIN peerFile : peerFile[i] \in PeerBindings
      BY <1>2 DEF PairingTypes
    <3> QED
      BY <3>1 DEF PeerBindings
  <2> QED
    BY <1>1, <1>5, <2>1 DEF PairingInv, PeersRedeemed
<1> QED
  BY <1>7, <1>9, <1>16, <1>17, <1>18, <1>19, <1>20, <1>21 DEF PairingInv

(* The peer that is bound is the one that redeemed. *)
LEMMA UpsertStep == ASSUME PairingInv, NEW r \in Requests, UpsertPeerBinding(r) PROVE PairingInv'
<1> DEFINE t == Upserted(peerFile, binds[r])
<1>1. /\ reqPc[r] = "binding" /\ peerFile' = t /\ reqPc' = [reqPc EXCEPT ![r] = "out"]
      /\ binds' = [binds EXCEPT ![r] = NoBinding]
      /\ UNCHANGED <<offerFile, age, draft, restarts, redeemedBy, wrong>>
  BY DEF UpsertPeerBinding
<1>2. PairingTypes
  BY DEF PairingInv
<1>3. binds[r] \in PeerBindings /\ binds[r].peer \in redeemedBy[binds[r].offer]
  BY <1>1, <1>2 DEF PairingInv, BindingsRedeemed, PairingTypes
<1>4. peerFile \in Seq(PeerBindings)
  BY <1>2 DEF PairingTypes
<1>5. /\ t \in Seq(PeerBindings)
      /\ \A i \in DOMAIN t : t[i] = binds[r] \/ \E j \in DOMAIN peerFile : t[i] = peerFile[j]
  BY <1>3, <1>4, UpsertedAre
<1> HIDE DEF t
<1>6. PairingTypes'
  BY <1>1, <1>2, <1>5 DEF PairingTypes
<1>7. \A s \in Requests : reqPc'[s] = "out"
  BY <1>1, <1>2 DEF PairingInv, OneWrites, PairingTypes
<1>8. OneWrites' /\ DraftsListed' /\ BindingsRedeemed'
  BY <1>7 DEF OneWrites, DraftsListed, BindingsRedeemed
<1>9. Listed(offerFile)'
  BY <1>1 DEF PairingInv, Listed
<1>10. Unwritten = 0 /\ Unwritten' = 0
  BY <1>1, <1>7 DEF Unwritten, PairingInv, OneWrites
<1>11. Counted(offerFile, Unwritten)'
  <2>1. Counted(offerFile, 0)
    BY <1>10 DEF PairingInv
  <2> QED
    BY <1>1, <1>10, <2>1 DEF Counted
<1>12. OffersHold'
  BY <1>1 DEF PairingInv, OffersHold
<1>13. PeersRedeemed'
  BY <1>1, <1>3, <1>5 DEF PairingInv, PeersRedeemed
<1> QED
  BY <1>6, <1>8, <1>9, <1>11, <1>12, <1>13 DEF PairingInv

(* Time passes over offers that were issued. *)
LEMMA AgesStep == ASSUME PairingInv, NEW o \in Offers, Ages(o) PROVE PairingInv'
<1>1. /\ age \in [Offers -> {"unissued", "fresh", "expired", "old"}]
      /\ age' \in [Offers -> {"unissued", "fresh", "expired", "old"}]
      /\ \A x \in Offers : age'[x] = "unissued" <=> age[x] = "unissued"
      /\ UNCHANGED <<offerFile, peerFile, reqPc, draft, binds, restarts, redeemedBy, wrong>>
  BY Zenon DEF Ages, PairingInv, PairingTypes
<1>2. PairingTypes
  BY DEF PairingInv
<1>3. PairingTypes'
  BY <1>1, <1>2 DEF PairingTypes
<1>4. OneWrites' /\ BindingsRedeemed' /\ PeersRedeemed'
  BY <1>1 DEF PairingInv, OneWrites, BindingsRedeemed, PeersRedeemed
<1>5. ASSUME NEW s \in Seq(OfferShape) PROVE \A i \in DOMAIN s : s[i].id \in Offers
  <2>1. \A i \in DOMAIN s : s[i] \in OfferShape
    OBVIOUS
  <2> QED
    BY <2>1 DEF OfferShape
<1>6. Listed(offerFile)'
  <2>1. offerFile \in Seq(OfferShape)
    BY DEF PairingInv, Listed
  <2>2. \A i \in DOMAIN offerFile : offerFile[i].id \in Offers
    BY <1>5, <2>1
  <2> QED
    BY Zenon, <1>1, <2>2 DEF PairingInv, Listed
<1>7. Unwritten' = Unwritten
  BY <1>1 DEF Unwritten
<1>8. Counted(offerFile, Unwritten)'
  BY <1>1, <1>7 DEF PairingInv, Counted
<1>9. DraftsListed'
  <2> SUFFICES ASSUME NEW r \in Requests, reqPc[r] = "writing"
               PROVE  /\ Listed(draft[r])' /\ Counted(draft[r], 0)'
                      /\ binds[r] # NoBinding =>
                           /\ redeemedBy[binds[r].offer] = {} /\ age'[binds[r].offer] # "unissued"
                           /\ \A i \in DOMAIN draft[r] :
                                draft[r][i].id = binds[r].offer => draft[r][i].redeemed
    BY <1>1 DEF DraftsListed
  <2>1. /\ Listed(draft[r]) /\ Counted(draft[r], 0)
        /\ binds[r] # NoBinding =>
             /\ redeemedBy[binds[r].offer] = {} /\ age[binds[r].offer] # "unissued"
             /\ \A i \in DOMAIN draft[r] : draft[r][i].id = binds[r].offer => draft[r][i].redeemed
    BY DEF PairingInv, DraftsListed
  <2>2. \A i \in DOMAIN draft[r] : draft[r][i].id \in Offers
    BY <1>5, <2>1 DEF Listed
  <2>3. Listed(draft[r])'
    BY Zenon, <1>1, <2>1, <2>2 DEF Listed
  <2>4. Counted(draft[r], 0)'
    BY <1>1, <2>1 DEF Counted
  <2>5. binds[r] # NoBinding => binds[r].offer \in Offers
    BY <1>2 DEF PairingTypes, PeerBindings
  <2> QED
    BY <1>1, <2>1, <2>3, <2>4, <2>5
<1>10. OffersHold'
  BY <1>1 DEF PairingInv, OffersHold
<1> QED
  BY <1>3, <1>4, <1>6, <1>8, <1>9, <1>10 DEF PairingInv

(* A crash may empty a file, and forgets at most the count that was being
   written. *)
LEMMA CrashStep == ASSUME PairingInv, PairingCrash PROVE PairingInv'
<1>1. /\ restarts' = restarts + 1
      /\ reqPc' = [r \in Requests |-> "out"] /\ draft' = [r \in Requests |-> << >>]
      /\ binds' = [r \in Requests |-> NoBinding]
      /\ offerFile' \in {offerFile, << >>} /\ peerFile' \in {peerFile, << >>}
      /\ UNCHANGED <<age, redeemedBy, wrong>>
  BY DEF PairingCrash
<1>2. PairingTypes
  BY DEF PairingInv
<1>3. PairingTypes'
  <2>1. /\ peerFile \in Seq(PeerBindings) /\ << >> \in Seq(PeerBindings)
        /\ restarts \in Nat /\ << >> \in Seq(OfferShape)
    BY <1>2 DEF PairingTypes
  <2>2. peerFile' \in Seq(PeerBindings) /\ restarts' \in Nat
    <3>1. peerFile' = peerFile \/ peerFile' = << >>
      BY <1>1
    <3>2. peerFile' \in Seq(PeerBindings)
      BY Zenon, <2>1, <3>1
    <3>3. restarts' \in Nat
      BY <1>1, <2>1
    <3> QED
      BY <3>2, <3>3
  <2>3. draft' \in [Requests -> Seq(OfferShape)]
    BY <1>1, <2>1
  <2>4. /\ reqPc' \in [Requests -> {"out", "writing", "binding"}]
        /\ binds' \in [Requests -> PeerBindings \cup {NoBinding}]
    BY <1>1
  <2> QED
    BY <1>1, <1>2, <2>2, <2>3, <2>4 DEF PairingTypes
<1>4. OneWrites' /\ DraftsListed' /\ BindingsRedeemed'
  BY <1>1 DEF OneWrites, DraftsListed, BindingsRedeemed
<1>5. Unwritten' = 0
  BY <1>1 DEF Unwritten
<1>6. Listed(offerFile)'
  <2>1. CASE offerFile' = << >>
    BY <2>1 DEF Listed
  <2>2. CASE offerFile' = offerFile
    BY <1>1, <2>2 DEF PairingInv, Listed
  <2> QED
    BY <1>1, <2>1, <2>2
<1>7. Counted(offerFile, Unwritten)'
  <2>1. CASE offerFile' = << >>
    BY <2>1 DEF Counted
  <2>2. CASE offerFile' = offerFile
    <3>1. restarts \in Nat /\ wrong \in [Offers -> Nat] /\ Unwritten \in {0, 1}
      BY <1>2 DEF PairingTypes, Unwritten
    <3>2. \A i \in DOMAIN offerFile : offerFile[i] \in OfferShape
      BY DEF PairingInv, Listed
    <3>3. \A i \in DOMAIN offerFile : offerFile[i].id \in Offers /\ offerFile[i].failed \in Nat
      BY <3>2 DEF OfferShape
    <3>4. \A i \in DOMAIN offerFile :
            /\ wrong[offerFile[i].id] <= offerFile[i].failed + restarts + Unwritten
            /\ offerFile[i].failed <= MaxFailedRedeems
            /\ offerFile[i].locked \/ offerFile[i].failed < MaxFailedRedeems
      BY DEF PairingInv, Counted
    <3> HIDE DEF Unwritten
    <3>5. \A i \in DOMAIN offerFile :
            wrong[offerFile[i].id] <= offerFile[i].failed + (restarts + 1) + 0
      BY <3>1, <3>3, <3>4
    <3> QED
      BY <1>1, <1>5, <2>2, <3>4, <3>5 DEF Counted
  <2> QED
    BY <1>1, <2>1, <2>2
<1>8. OffersHold'
  <2>1. restarts \in Nat /\ MaxFailedRedeems \in Nat /\ \A o \in Offers : wrong[o] \in Nat
    BY Zenon, <1>2, PairingAssumption DEF PairingTypes
  <2>2. \A o \in Offers : wrong[o] <= MaxFailedRedeems + (restarts + 1)
    BY <2>1 DEF PairingInv, OffersHold
  <2> QED
    BY <1>1, <2>2 DEF PairingInv, OffersHold
<1>9. PeersRedeemed'
  BY <1>1 DEF PairingInv, PeersRedeemed
<1> QED
  BY <1>3, <1>4, <1>6, <1>7, <1>8, <1>9 DEF PairingInv

(* Every step keeps the invariant. *)
LEMMA PairingSteps == PairingInv /\ [PairingNext]_pairingVars => PairingInv'
<1> SUFFICES ASSUME PairingInv, [PairingNext]_pairingVars PROVE PairingInv'
  OBVIOUS
<1>1. CASE \E r \in Requests, o \in Offers :
             \/ IssueOffer(r, o) \/ RevokeOffer(r, o) \/ RedeemWrongly(r, o)
             \/ \E p \in Peers : RedeemOffer(r, o, p)
  BY <1>1, IssueStep, RevokeStep, WronglyStep, RedeemStep
<1>2. CASE \E r \in Requests : WriteOffers(r) \/ UpsertPeerBinding(r)
  BY <1>2, WriteStep, UpsertStep
<1>3. CASE \E o \in Offers : Ages(o)
  BY <1>3, AgesStep
<1>4. CASE PairingCrash
  BY <1>4, CrashStep
<1>5. CASE UNCHANGED pairingVars
  <2>1. UNCHANGED <<offerFile, peerFile, age, reqPc, draft, binds, restarts, redeemedBy, wrong>>
    BY <1>5 DEF pairingVars
  <2>2. PairingTypes'
    BY <2>1 DEF PairingInv, PairingTypes
  <2>3. OneWrites' /\ BindingsRedeemed' /\ OffersHold' /\ PeersRedeemed'
    BY <2>1 DEF PairingInv, OneWrites, BindingsRedeemed, OffersHold, PeersRedeemed
  <2>4. Listed(offerFile)' /\ Counted(offerFile, Unwritten)'
    BY <2>1 DEF PairingInv, Listed, Counted, Unwritten
  <2>5. DraftsListed'
    BY <2>1 DEF PairingInv, DraftsListed, Listed, Counted
  <2> QED
    BY <2>2, <2>3, <2>4, <2>5 DEF PairingInv
<1> QED
  BY <1>1, <1>2, <1>3, <1>4, <1>5 DEF PairingNext

(* Peers that are all equal are one at most. *)
LEMMA OfferOnceHolds == PairingInv => OfferRedeemedOnce
<1> SUFFICES ASSUME PairingInv PROVE OfferRedeemedOnce
  OBVIOUS
<1>1. ASSUME NEW o \in Offers PROVE Cardinality(redeemedBy[o]) <= 1
  <2>1. \A p, q \in redeemedBy[o] : p = q
    BY DEF PairingInv, OffersHold
  <2>2. CASE redeemedBy[o] = {}
    BY <2>2, FS_EmptySet
  <2>3. CASE redeemedBy[o] # {}
    <3>1. PICK p \in redeemedBy[o] : TRUE
      BY <2>3
    <3>2. redeemedBy[o] = {p}
      BY <2>1, <3>1
    <3>3. Cardinality({p}) = 1
      BY Zenon, FS_Singleton
    <3> QED
      BY <3>2, <3>3
  <2> QED
    BY <2>2, <2>3
<1>2. \A o \in Offers : wrong[o] <= MaxFailedRedeems + restarts
  BY DEF PairingInv, OffersHold
<1>3. \A i \in DOMAIN peerFile : peerFile[i].peer \in redeemedBy[peerFile[i].offer]
  BY DEF PairingInv, PeersRedeemed
<1> QED
  BY <1>1, <1>2, <1>3 DEF OfferRedeemedOnce

(* An offer pairs one peer and survives at most the allowed number of wrong
   secrets, one more per crash, and a peer bound by an offer redeemed it:
   OfferRedeemedOnce (redeemPairingOffer under withStoreMutationLock). *)
THEOREM OffersPairOnce == PairingInit /\ [][PairingNext]_pairingVars => []OfferRedeemedOnce
<1> QED
  BY PairingStarts, PairingSteps, OfferOnceHolds, PTL

-----------------------------------------------------------------------------
(* The context repository *)

IsPull(p) == p = [on |-> p.on, upto |-> p.upto, decided |-> p.decided, full |-> p.full,
                  todo |-> p.todo, notFound |-> p.notFound]
IsSealed(e) == e.kind \in {"grant", "candidate", "decided"}
IsVaultEvent(e) ==
  /\ IsSealed(e) \/ e.kind = "revoke"
  /\ e.epoch \in 1 .. MaxEpochs
  /\ IsSealed(e) => e.key # 0
  /\ e.kind = "revoke" => e.epoch + 1 \in 1 .. MaxEpochs
PerEdge(f) == f = [d \in Edges |-> f[d]]
VaultShapes ==
  /\ PerEdge(vault) /\ PerEdge(pull) /\ PerEdge(cursor) /\ PerEdge(epochNow) /\ PerEdge(keyring)
  /\ \A d \in Edges :
       /\ IsList(vault[d]) /\ \A i \in 1 .. Len(vault[d]) : IsVaultEvent(vault[d][i])
       /\ IsPull(pull[d]) /\ IsList(pull[d].todo)
       /\ cursor[d] \in 0 .. Len(received) /\ epochNow[d] \in 0 .. MaxEpochs
       /\ keyring[d] = [n \in 1 .. MaxEpochs |-> keyring[d][n]]
  /\ IsList(received)
  /\ \A i \in 1 .. Len(received) : received[i].kind = "decision" \/ IsVaultEvent(received[i])
  /\ made \in Nat \ {0}

(* What an edge has of what the platform received. *)
Recorded(v, c) == \E j \in 1 .. Len(v) : v[j].kind = "decided" /\ v[j].of = c
Holds(v, e) == \E j \in 1 .. Len(v) : v[j] = e
Covered(v, e) == IF e.kind = "decision" THEN Recorded(v, e.of) ELSE Holds(v, e)
CursorCovers ==
  \A d \in Edges \ jumped : \A i \in 1 .. cursor[d] : Covered(vault[d], received[i])

(* What a pull has fetched is there: the events it imported, and of the
   decisions those that are not still to be applied. *)
PullCovers(v, p, from) ==
  /\ p.upto \in 0 .. Len(received) /\ p.decided \in 0 .. Len(received)
  /\ \A i \in from + 1 .. Len(received) : received[i].kind # "decision" /\ i <= p.upto =>
       Holds(v, received[i])
  /\ \A i \in from + 1 .. Len(received) :
       received[i].kind = "decision" /\ (i <= p.upto \/ i <= p.decided) =>
         \/ p.notFound \/ Recorded(v, received[i].of)
         \/ \E j \in 1 .. Len(p.todo) : p.todo[j].of = received[i].of
  /\ ~p.full => \A i \in from + 1 .. Len(received) :
       received[i].kind # "decision" /\ i <= p.decided => i <= p.upto
PullsCover == \A d \in Edges : pull[d].on => PullCovers(vault[d], pull[d], cursor[d])

(* An edge holds the key of every grant to it, and some edge writes under the
   epoch of every event, or a later one. *)
GrantsHeld ==
  \A d \in Edges : \A i \in 1 .. Len(vault[d]) :
    vault[d][i].kind = "grant" /\ vault[d][i].to = d => keyring[d][vault[d][i].epoch] # 0
Reached(n) == \E d \in Edges : epochNow[d] >= n
EpochsReached ==
  /\ \A d \in Edges : \A i \in 1 .. Len(vault[d]) : Reached(vault[d][i].epoch)
  /\ \A i \in 1 .. Len(received) : received[i].kind # "decision" => Reached(received[i].epoch)

(* While no epoch forked it has one key, which seals its events and is what
   the edges that hold a key of it hold. *)
SealedBy(e, K) == IsSealed(e) => e.key = K[e.epoch]
KeysAre(K) ==
  /\ \A d \in Edges : \A n \in 1 .. MaxEpochs : keyring[d][n] \in {0, K[n]}
  /\ \A d \in Edges : \A i \in 1 .. Len(vault[d]) : SealedBy(vault[d][i], K)
  /\ \A i \in 1 .. Len(received) : SealedBy(received[i], K)
OneEpochKey == ~forked => \E K \in [1 .. MaxEpochs -> 1 .. made] : KeysAre(K)

VaultInv ==
  VaultShapes /\ CursorCovers /\ PullsCover /\ GrantsHeld /\ EpochsReached /\ OneEpochKey

-----------------------------------------------------------------------------
(* Of numbers up to one there is a greatest. *)
LEMMA GreatestNumber ==
  ASSUME NEW n \in Nat, NEW T \in SUBSET (0 .. n), T # {}
  PROVE  \E m \in T : \A j \in T : j <= m
<1> DEFINE U == {u \in Nat : \A j \in T : j <= u}
<1>1. n \in U
  OBVIOUS
<1>2. PICK u \in U : \A v \in U : u <= v
  BY Zenon, <1>1, LeastNumber
<1>3. CASE u \in T
  BY <1>2, <1>3
<1>4. CASE u \notin T
  <2>1. PICK j \in T : TRUE
    BY Zenon
  <2>2. u # 0
    BY <1>2, <1>4, <2>1
  <2>3. u - 1 \in U
    BY <1>2, <1>4, <2>2
  <2> QED
    BY <1>2, <2>3
<1> QED
  BY <1>3, <1>4

LEMMA At0Is ==
  ASSUME NEW n \in Nat, NEW T \in SUBSET (0 .. n)
  PROVE  At0(T) \in T \cup {0} /\ At0(T) \in 0 .. n /\ \A k \in T : k <= At0(T)
<1>1. \E m \in T \cup {0} : \A k \in T : k <= m
  <2>1. CASE T = {}
    BY <2>1
  <2>2. CASE T # {}
    BY Zenon, <2>2, GreatestNumber
  <2> QED
    BY <2>1, <2>2
<1>2. At0(T) \in T \cup {0} /\ \A k \in T : k <= At0(T)
  BY Zenon, <1>1 DEF At0
<1>3. T \cup {0} \subseteq 0 .. n
  OBVIOUS
<1> QED
  BY Zenon, <1>2, <1>3

(* The first so many of a set of numbers: unless it has them all, they are as
   many as that. *)
LEMMA FirstOnes ==
  ASSUME NEW n \in Nat, NEW T \in SUBSET (1 .. n), NEW l \in Nat,
         NEW P \in SUBSET T,
         \A i \in T : i \in P <=> Cardinality({j \in T : j <= i}) <= l,
         NEW b \in T, b \notin P
  PROVE  Cardinality(P) = l
<1> DEFINE Below(i) == {j \in T : j <= i}
<1>1. IsFiniteSet(T)
  <2>1. IsFiniteSet(1 .. n)
    BY FS_Interval
  <2> QED
    BY Zenon, <2>1, FS_Subset
<1>2. \A i \in T : IsFiniteSet(Below(i)) /\ Cardinality(Below(i)) \in Nat
  BY <1>1, FS_Subset, FS_CardinalityType
<1>a. T \subseteq Nat /\ P \subseteq T
  OBVIOUS
<1>b. \A i \in T : i \in P <=> Cardinality(Below(i)) <= l
  OBVIOUS
<1>3. PICK k \in T \ P : \A m \in T \ P : k <= m
  <2>1. T \ P \in SUBSET Nat /\ T \ P # {}
    BY <1>a
  <2> QED
    BY Zenon, <2>1, LeastNumber
<1>4. P = {j \in T : j < k}
  <2>1. ASSUME NEW j \in T, j < k PROVE j \in P
    BY <1>3, <2>1
  <2>2. ASSUME NEW j \in P PROVE j < k
    <3>1. SUFFICES ASSUME j >= k PROVE FALSE
      BY <1>3
    <3>2. Below(k) \subseteq Below(j) /\ j \in T
      <4>1. j \in Nat /\ k \in Nat /\ j \in T
        BY <1>3, <1>a
      <4>2. ASSUME NEW x \in Below(k) PROVE x \in Below(j)
        <5>1. x \in T /\ x \in Nat /\ x <= k
          BY <4>2, <1>a
        <5> QED
          BY <3>1, <4>1, <5>1
      <4> QED
        BY Zenon, <4>1, <4>2
    <3>3. Cardinality(Below(k)) <= Cardinality(Below(j)) /\ Cardinality(Below(j)) <= l
      BY <3>2, <1>2, <1>b, FS_Subset
    <3>4. Cardinality(Below(k)) <= l
      BY <3>2, <3>3, <1>2, <1>3
    <3> QED
      BY <3>4, <1>3, <1>b
  <2> QED
    BY Zenon, <2>1, <2>2
<1>5. IsFiniteSet(P) /\ Cardinality(P) \in Nat
  BY Zenon, <1>1, FS_Subset, FS_CardinalityType
<1>6. Cardinality(Below(k)) = Cardinality(P) + 1
  <2>1. k \in T /\ k \notin P /\ k \in Nat
    BY <1>3, <1>a
  <2>2. ASSUME NEW x \in T PROVE x <= k <=> x < k \/ x = k
    BY <2>1, <2>2, <1>a
  <2>3. Below(k) = P \cup {k}
    BY <2>1, <2>2, <1>4, Zenon
  <2> QED
    BY <2>1, <2>3, <1>5, FS_AddElement
<1>7. Cardinality(P) >= l
  <2>1. ~(Cardinality(Below(k)) <= l)
    BY <1>3, <1>b
  <2> QED
    BY <1>2, <1>3, <1>5, <1>6, <2>1
<1>8. Cardinality(P) <= l
  <2>1. CASE P = {}
    <3>1. Cardinality(P) = 0
      BY <2>1, FS_EmptySet
    <3> QED
      BY <3>1
  <2>2. CASE P # {}
    <3>1. P \in SUBSET (0 .. n)
      BY <1>a
    <3>2. PICK m \in P : \A j \in P : j <= m
      BY Zenon, <2>2, <3>1, GreatestNumber
    <3>3. Below(m) = P
      <4>1. m \in T /\ m \in Nat /\ m < k /\ k \in Nat
        BY <1>3, <1>4, <1>a, <3>2
      <4>2. ASSUME NEW x \in T, x <= m PROVE x \in P
        <5>1. x \in Nat /\ x < k
          BY <4>1, <4>2, <1>a
        <5> QED
          BY <1>4, <5>1
      <4> QED
        BY <3>2, <4>2, <1>a, Zenon
    <3> QED
      BY <1>b, <3>2, <3>3
  <2> QED
    BY <2>1, <2>2
<1> QED
  BY <1>5, <1>7, <1>8

-----------------------------------------------------------------------------
(* A list that grows keeps what it has. *)
Grown(v, w) == Len(v) <= Len(w) /\ \A i \in 1 .. Len(v) : w[i] = v[i]
LEMMA GrownHolds ==
  ASSUME NEW v, NEW w, IsList(v), IsList(w), Grown(v, w)
  PROVE  /\ \A e : Holds(v, e) => Holds(w, e)
         /\ \A c : Recorded(v, c) => Recorded(w, c)
         /\ \A e : Covered(v, e) => Covered(w, e)
<1>1. \A i \in 1 .. Len(v) : i \in 1 .. Len(w) /\ w[i] = v[i]
  BY DEF Grown, IsList
<1>2. \A e : Holds(v, e) => Holds(w, e)
  BY <1>1 DEF Holds
<1>3. \A c : Recorded(v, c) => Recorded(w, c)
  BY <1>1 DEF Recorded
<1> QED
  BY <1>2, <1>3 DEF Covered
LEMMA GrownJoined ==
  ASSUME NEW s, IsList(s), NEW t, IsList(t)
  PROVE  Grown(s, s \o t) /\ \A j \in 1 .. Len(t) : Holds(s \o t, t[j])
<1>1. Len(s) \in Nat /\ Len(t) \in Nat
  BY DEF IsList
<1>2. \A j \in 1 .. Len(t) : Len(s) + j \in 1 .. Len(s \o t) /\ (s \o t)[Len(s) + j] = t[j]
  BY <1>1, Joined
<1>3. Grown(s, s \o t)
  BY <1>1, Joined DEF Grown
<1> QED
  BY <1>2, <1>3 DEF Holds

(* As long as files and the platform only grow, what was covered is. *)
LEMMA CoversStay ==
  ASSUME VaultShapes, VaultShapes', CursorCovers, PullsCover, UNCHANGED <<cursor, pull, jumped>>,
         \A d \in Edges : Grown(vault[d], vault'[d]), Grown(received, received')
  PROVE  CursorCovers' /\ PullsCover'
<1>1. /\ \A d \in Edges : /\ IsList(vault[d]) /\ IsList(vault'[d]) /\ cursor[d] \in 0 .. Len(received)
      /\ Len(received) \in Nat /\ Len(received') \in Nat /\ Len(received) <= Len(received')
      /\ \A i \in 1 .. Len(received) : received'[i] = received[i]
  BY Zenon DEF VaultShapes, IsList, Grown
<1>2. ASSUME NEW d \in Edges \ jumped, NEW i \in 1 .. cursor[d]
      PROVE  Covered(vault'[d], received'[i])
  <2>1. Covered(vault[d], received[i])
    BY <1>2 DEF CursorCovers
  <2>2. received'[i] = received[i]
    BY <1>1, <1>2
  <2> QED
    BY <1>1, <2>1, <2>2, GrownHolds
<1>3. CursorCovers'
  BY <1>2 DEF CursorCovers
<1>4. ASSUME NEW d \in Edges, pull[d].on PROVE PullCovers(vault[d], pull[d], cursor[d])'
  <2> DEFINE p == pull[d]
             v == vault[d]
             w == vault'[d]
  <2>1. PullCovers(v, p, cursor[d])
    BY <1>4 DEF PullsCover
  <2>2. /\ \A e : Holds(v, e) => Holds(w, e)
        /\ \A c : Recorded(v, c) => Recorded(w, c)
    BY <1>1, GrownHolds
  <2>3. pull'[d] = p /\ cursor'[d] = cursor[d] /\ vault'[d] = w
    OBVIOUS
  <2> HIDE DEF p, v, w
  <2>4. p.upto \in 0 .. Len(received) /\ p.decided \in 0 .. Len(received)
    BY <2>1 DEF PullCovers
  <2>5. p.upto \in 0 .. Len(received') /\ p.decided \in 0 .. Len(received')
    BY <2>4, <1>1
  <2>6. \A i \in cursor[d] + 1 .. Len(received') : i <= p.upto \/ i <= p.decided =>
          i \in cursor[d] + 1 .. Len(received) /\ received'[i] = received[i]
    <3>1. cursor[d] \in Nat
      BY <1>1
    <3> QED
      BY <1>1, <2>4, <3>1
  <2>7. \A i \in cursor[d] + 1 .. Len(received') : received'[i].kind # "decision" /\ i <= p.upto =>
          Holds(w, received'[i])
    BY <2>1, <2>2, <2>6 DEF PullCovers
  <2>8. \A i \in cursor[d] + 1 .. Len(received') :
          received'[i].kind = "decision" /\ (i <= p.upto \/ i <= p.decided) =>
            \/ p.notFound \/ Recorded(w, received'[i].of)
            \/ \E j \in 1 .. Len(p.todo) : p.todo[j].of = received'[i].of
    BY <2>1, <2>2, <2>6 DEF PullCovers
  <2>9. ~p.full => \A i \in cursor[d] + 1 .. Len(received') :
          received'[i].kind # "decision" /\ i <= p.decided => i <= p.upto
    BY <2>1, <2>6 DEF PullCovers
  <2> QED
    BY <2>3, <2>5, <2>7, <2>8, <2>9 DEF PullCovers
<1>5. PullsCover'
  BY <1>4 DEF PullsCover
<1> QED
  BY <1>3, <1>5

-----------------------------------------------------------------------------
(* Events are appended to the file of one edge. *)
LongerVault(d, es) == [vault EXCEPT ![d] = @ \o es]
LEMMA VaultGrows ==
  ASSUME VaultShapes, NEW d \in Edges, NEW es, IsList(es),
         \A j \in 1 .. Len(es) : IsVaultEvent(es[j]), vault' = LongerVault(d, es)
  PROVE  /\ PerEdge(vault)'
         /\ \A e \in Edges :
              /\ IsList(vault'[e]) /\ Grown(vault[e], vault'[e])
              /\ \A i \in 1 .. Len(vault'[e]) :
                   /\ IsVaultEvent(vault'[e][i])
                   /\ \/ i \in 1 .. Len(vault[e]) /\ vault'[e][i] = vault[e][i]
                      \/ e = d /\ \E j \in 1 .. Len(es) : vault'[e][i] = es[j]
         /\ \A j \in 1 .. Len(es) : Holds(vault'[d], es[j])
<1>1. /\ IsList(vault[d]) /\ \A i \in 1 .. Len(vault[d]) : IsVaultEvent(vault[d][i])
      /\ vault = [e \in Edges |-> vault[e]]
  BY DEF VaultShapes, PerEdge
<1>2. PICK w : w = vault[d] \o es
  BY Zenon
<1>3. vault' = [e \in Edges |-> IF e = d THEN w ELSE vault[e]]
  BY Zenon, <1>1, <1>2 DEF LongerVault
<1>4. /\ vault' = [e \in Edges |-> vault'[e]] /\ vault'[d] = w
      /\ \A e \in Edges : e # d => vault'[e] = vault[e]
  BY <1>3
<1>5. /\ IsList(w) /\ Grown(vault[d], w) /\ \A j \in 1 .. Len(es) : Holds(w, es[j])
  BY <1>1, <1>2, Joined, GrownJoined
<1>6. \A i \in 1 .. Len(w) : \/ i \in 1 .. Len(vault[d]) /\ w[i] = vault[d][i]
                             \/ \E j \in 1 .. Len(es) : w[i] = es[j]
  BY <1>1, <1>2, Joined
<1>7. ASSUME NEW e \in Edges
      PROVE  /\ IsList(vault'[e]) /\ Grown(vault[e], vault'[e])
             /\ \A i \in 1 .. Len(vault'[e]) :
                  /\ IsVaultEvent(vault'[e][i])
                  /\ \/ i \in 1 .. Len(vault[e]) /\ vault'[e][i] = vault[e][i]
                     \/ e = d /\ \E j \in 1 .. Len(es) : vault'[e][i] = es[j]
  <2>1. CASE e = d
    BY <1>1, <1>4, <1>5, <1>6, <2>1
  <2>2. CASE e # d
    <3>1. IsList(vault[e]) /\ \A i \in 1 .. Len(vault[e]) : IsVaultEvent(vault[e][i])
      BY Zenon DEF VaultShapes
    <3>2. vault'[e] = vault[e] /\ Grown(vault[e], vault[e])
      BY <1>4, <2>2, <3>1 DEF Grown, IsList
    <3> QED
      BY <3>1, <3>2
  <2> QED
    BY <2>1, <2>2
<1> QED
  BY <1>4, <1>5, <1>7 DEF PerEdge

(* A key of the bound made so far is one of a later bound. *)
LEMMA KeysBelow ==
  ASSUME NEW m \in Nat, NEW n \in Nat, m <= n, NEW K \in [1 .. MaxEpochs -> 1 .. m]
  PROVE  K \in [1 .. MaxEpochs -> 1 .. n]
  OBVIOUS

(* An edge writes an event under its own epoch. *)
LEMMA OneWritten ==
  ASSUME VaultInv, NEW d \in Edges, NEW e, MayWrite(d), IsSealed(e), e.epoch = epochNow[d],
         e.key = keyring[d][epochNow[d]], ~(e.kind = "grant" /\ e.to = d),
         vault' = LongerVault(d, <<e>>), made' = made + 1,
         UNCHANGED <<epochNow, keyring, received, forked, cursor>>
  PROVE  /\ PerEdge(vault)'
         /\ \A x \in Edges : /\ IsList(vault'[x]) /\ Grown(vault[x], vault'[x])
                             /\ \A i \in 1 .. Len(vault'[x]) : IsVaultEvent(vault'[x][i])
         /\ Holds(vault'[d], e) /\ GrantsHeld' /\ EpochsReached' /\ OneEpochKey'
         /\ made' \in Nat \ {0}
<1>1. IsList(<<e>>) /\ Len(<<e>>) = 1 /\ <<e>>[1] = e
  BY OneList
<1>2. epochNow[d] \in 1 .. MaxEpochs /\ keyring[d][epochNow[d]] # 0 /\ made \in Nat \ {0}
  <2>1. epochNow[d] \in 0 .. MaxEpochs /\ made \in Nat \ {0}
    BY Zenon DEF VaultInv, VaultShapes
  <2>2. epochNow[d] > 0 /\ keyring[d][epochNow[d]] # 0
    BY DEF MayWrite
  <2>3. epochNow[d] \in 1 .. MaxEpochs
    BY <2>1, <2>2, VaultBounds
  <2> QED
    BY <2>1, <2>2, <2>3
<1>3. IsVaultEvent(e)
  BY <1>2 DEF IsVaultEvent, IsSealed
<1>4. /\ PerEdge(vault)'
      /\ \A x \in Edges :
           /\ IsList(vault'[x]) /\ Grown(vault[x], vault'[x])
           /\ \A i \in 1 .. Len(vault'[x]) :
                /\ IsVaultEvent(vault'[x][i])
                /\ \/ i \in 1 .. Len(vault[x]) /\ vault'[x][i] = vault[x][i]
                   \/ x = d /\ vault'[x][i] = e
      /\ Holds(vault'[d], e)
  <2>1. \A j \in 1 .. Len(<<e>>) : <<e>>[j] = e
    BY <1>1
  <2>2. PICK es : es = <<e>>
    OBVIOUS
  <2>3. /\ IsList(es) /\ 1 \in 1 .. Len(es) /\ vault' = LongerVault(d, es)
        /\ \A j \in 1 .. Len(es) : es[j] = e
    BY <1>1, <2>1, <2>2
  <2>4. VaultShapes /\ \A j \in 1 .. Len(es) : IsVaultEvent(es[j])
    BY <1>3, <2>3 DEF VaultInv
  <2>5. /\ PerEdge(vault)'
        /\ \A x \in Edges :
             /\ IsList(vault'[x]) /\ Grown(vault[x], vault'[x])
             /\ \A i \in 1 .. Len(vault'[x]) :
                  /\ IsVaultEvent(vault'[x][i])
                  /\ \/ i \in 1 .. Len(vault[x]) /\ vault'[x][i] = vault[x][i]
                     \/ x = d /\ \E j \in 1 .. Len(es) : vault'[x][i] = es[j]
        /\ \A j \in 1 .. Len(es) : Holds(vault'[d], es[j])
    BY Zenon, <2>3, <2>4, VaultGrows
  <2>6. Holds(vault'[d], e)
    BY Zenon, <2>3, <2>5
  <2>7. ASSUME NEW x \in Edges, NEW i \in 1 .. Len(vault'[x])
        PROVE  \/ i \in 1 .. Len(vault[x]) /\ vault'[x][i] = vault[x][i]
               \/ x = d /\ vault'[x][i] = e
    <3>1. \/ i \in 1 .. Len(vault[x]) /\ vault'[x][i] = vault[x][i]
          \/ x = d /\ \E j \in 1 .. Len(es) : vault'[x][i] = es[j]
      BY <2>5, <2>7
    <3>2. (\E j \in 1 .. Len(es) : vault'[x][i] = es[j]) => vault'[x][i] = e
      BY <2>3, Zenon
    <3> QED
      BY <3>1, <3>2
  <2> QED
    BY <2>5, <2>6, <2>7
<1>5. GrantsHeld'
  BY <1>4 DEF VaultInv, GrantsHeld
<1>6. EpochsReached'
  <2>1. Reached(epochNow[d])
    BY <1>2 DEF Reached
  <2>2. \A n : Reached(n)' = Reached(n)
    BY DEF Reached
  <2> QED
    BY <1>4, <2>1, <2>2 DEF VaultInv, EpochsReached
<1>7. OneEpochKey'
  <2>1. SUFFICES ASSUME ~forked PROVE \E K \in [1 .. MaxEpochs -> 1 .. made'] : KeysAre(K)'
    BY DEF OneEpochKey
  <2>2. PICK K \in [1 .. MaxEpochs -> 1 .. made] : KeysAre(K)
    BY <2>1 DEF VaultInv, OneEpochKey
  <2>3. K \in [1 .. MaxEpochs -> 1 .. made']
    BY <1>2, <2>2, KeysBelow
  <2>4. SealedBy(e, K)
    BY <1>2, <2>2 DEF KeysAre, SealedBy
  <2>5. KeysAre(K)'
    <3>1. \A x \in Edges : \A i \in 1 .. Len(vault'[x]) : SealedBy(vault'[x][i], K)
      BY <1>4, <2>2, <2>4 DEF KeysAre
    <3> QED
      BY <2>2, <3>1 DEF KeysAre
  <2> QED
    BY <2>3, <2>5
<1> QED
  BY <1>2, <1>4, <1>5, <1>6, <1>7

LEMMA WrittenKeeps ==
  ASSUME VaultInv, NEW d \in Edges, NEW e, MayWrite(d), IsSealed(e), e.epoch = epochNow[d],
         e.key = keyring[d][epochNow[d]], ~(e.kind = "grant" /\ e.to = d),
         vault' = LongerVault(d, <<e>>), made' = made + 1,
         UNCHANGED <<epochNow, keyring, cursor, pull, received, jumped, forked>>
  PROVE  VaultInv'
<1>1. /\ PerEdge(vault)'
      /\ \A x \in Edges : /\ IsList(vault'[x]) /\ Grown(vault[x], vault'[x])
                          /\ \A i \in 1 .. Len(vault'[x]) : IsVaultEvent(vault'[x][i])
      /\ GrantsHeld' /\ EpochsReached' /\ OneEpochKey' /\ made' \in Nat \ {0}
  BY OneWritten
<1>2. VaultShapes'
  BY Zenon, <1>1 DEF VaultInv, VaultShapes, PerEdge
<1>3. VaultShapes /\ CursorCovers /\ PullsCover /\ IsList(received)
  BY DEF VaultInv, VaultShapes
<1>4. Grown(received, received')
  BY <1>3 DEF Grown, IsList
<1>5. CursorCovers' /\ PullsCover'
  BY <1>1, <1>2, <1>3, <1>4, CoversStay
<1> QED
  BY <1>1, <1>2, <1>5 DEF VaultInv

LEMMA EntryStep ==
  ASSUME VaultInv, NEW d \in Edges, WriteEntry(d) PROVE VaultInv'
<1>1. PICK e : e = Event(made + 1, "candidate", 0, epochNow[d], keyring[d][epochNow[d]], 0)
  OBVIOUS
<1>2. /\ e.kind = "candidate" /\ e.epoch = epochNow[d] /\ e.key = keyring[d][epochNow[d]]
  BY <1>1 DEF Event
<1>3. IsSealed(e) /\ ~(e.kind = "grant" /\ e.to = d)
  BY <1>2 DEF IsSealed
<1>4. MayWrite(d) /\ vault' = LongerVault(d, <<e>>)
  BY <1>1 DEF WriteEntry, Appends, LongerVault
<1>5. Len(<<e>>) = 1
  BY OneList
<1>6. made' = made + 1 /\ UNCHANGED <<epochNow, keyring, cursor, pull, received, jumped, forked>>
  BY <1>1, <1>5 DEF WriteEntry, Appends
<1> QED
  BY <1>2, <1>3, <1>4, <1>6, WrittenKeeps

LEMMA MemberStep ==
  ASSUME VaultInv, NEW d \in Edges, NEW m \in Edges \ {d}, GrantMember(d, m) PROVE VaultInv'
<1>1. PICK e : e = Event(made + 1, "grant", m, epochNow[d], keyring[d][epochNow[d]], 0)
  OBVIOUS
<1>2. /\ e.kind = "grant" /\ e.to = m /\ e.epoch = epochNow[d]
      /\ e.key = keyring[d][epochNow[d]]
  BY <1>1 DEF Event
<1>3. IsSealed(e) /\ ~(e.kind = "grant" /\ e.to = d)
  BY <1>2 DEF IsSealed
<1>4. MayWrite(d) /\ vault' = LongerVault(d, <<e>>)
  BY <1>1 DEF GrantMember, Appends, LongerVault
<1>5. Len(<<e>>) = 1
  BY OneList
<1>6. made' = made + 1 /\ UNCHANGED <<epochNow, keyring, cursor, pull, received, jumped, forked>>
  BY <1>1, <1>5 DEF GrantMember, Appends
<1> QED
  BY <1>2, <1>3, <1>4, <1>6, WrittenKeeps

-----------------------------------------------------------------------------
(* A key for the next epoch. *)
Rekeyed(d, n, k) == [keyring EXCEPT ![d][n] = k]
LEMMA RekeyedIs ==
  ASSUME VaultShapes, NEW d \in Edges, NEW n \in 1 .. MaxEpochs, NEW k, keyring' = Rekeyed(d, n, k)
  PROVE  /\ PerEdge(keyring)'
         /\ \A e \in Edges : keyring'[e] = [m \in 1 .. MaxEpochs |-> keyring'[e][m]]
         /\ \A e \in Edges : \A m \in 1 .. MaxEpochs :
              keyring'[e][m] = IF e = d /\ m = n THEN k ELSE keyring[e][m]
<1>1. /\ keyring = [e \in Edges |-> keyring[e]]
      /\ \A e \in Edges : keyring[e] = [m \in 1 .. MaxEpochs |-> keyring[e][m]]
  BY DEF VaultShapes, PerEdge
<1>2. PICK r : r = [keyring[d] EXCEPT ![n] = k]
  BY Zenon
<1>3. keyring' = [e \in Edges |-> IF e = d THEN r ELSE keyring[e]]
  BY Zenon, <1>1, <1>2 DEF Rekeyed
<1>4. /\ r = [m \in 1 .. MaxEpochs |-> r[m]]
      /\ \A m \in 1 .. MaxEpochs : r[m] = IF m = n THEN k ELSE keyring[d][m]
  <2>1. PICK q : q = keyring[d]
    OBVIOUS
  <2>2. q = [m \in 1 .. MaxEpochs |-> q[m]] /\ r = [q EXCEPT ![n] = k]
    BY <1>1, <1>2, <2>1
  <2>3. r = [m \in 1 .. MaxEpochs |-> IF m = n THEN k ELSE q[m]]
    BY Zenon, <2>2
  <2> QED
    BY <2>1, <2>3
<1>5. /\ keyring' = [e \in Edges |-> keyring'[e]] /\ keyring'[d] = r
      /\ \A e \in Edges : e # d => keyring'[e] = keyring[e]
  BY <1>3
<1>6. \A e \in Edges : keyring'[e] = [m \in 1 .. MaxEpochs |-> keyring'[e][m]]
  BY Zenon, <1>1, <1>4, <1>5
<1>7. \A e \in Edges : \A m \in 1 .. MaxEpochs :
        keyring'[e][m] = IF e = d /\ m = n THEN k ELSE keyring[e][m]
  BY Zenon, <1>4, <1>5
<1> QED
  BY <1>5, <1>6, <1>7 DEF PerEdge

(* The members of a set, one after the other. *)
LEMMA SetListed ==
  ASSUME NEW T, IsFiniteSet(T)
  PROVE  \E n \in Nat : SetToSeq(T) \in [1 .. n -> T]
<1>1. Cardinality(T) \in Nat /\ ExistsBijection(1 .. Cardinality(T), T)
  BY FS_CardinalityType
<1>2. PICK f : f \in Bijection(1 .. Cardinality(T), T)
  BY <1>1 DEF ExistsBijection
<1>3. f \in [1 .. Cardinality(T) -> T] /\ \A a, b \in 1 .. Cardinality(T) : f[a] = f[b] => a = b
  BY <1>2 DEF Bijection, Injection, IsInjective
<1>4. DOMAIN f = 1 .. Cardinality(T)
  BY <1>3
<1>5. IsInjective(f)
  BY <1>3, <1>4 DEF IsInjective
<1>6. SetToSeq(T) \in [1 .. Cardinality(T) -> T]
  BY <1>3, <1>5 DEF SetToSeq
<1> QED
  BY <1>1, <1>6

LEMMA EventIs ==
  ASSUME NEW id, NEW kind, NEW to, NEW epoch, NEW k, NEW of, NEW e,
         e = Event(id, kind, to, epoch, k, of)
  PROVE  e.kind = kind /\ e.to = to /\ e.epoch = epoch /\ e.key = k /\ e.of = of
  BY DEF Event

(* A revocation, and grants of the next epoch's key. *)
Revoking(e, n, k) == \/ e.kind = "revoke" /\ e.epoch = n
                     \/ e.kind = "grant" /\ e.epoch = n + 1 /\ e.key = k
LEMMA RevokeWrites ==
  ASSUME VaultInv, NEW d \in Edges, NEW m \in Edges \ {d}, RevokeMember(d, m)
  PROVE  \E es : /\ IsList(es) /\ Len(es) >= 1
                 /\ \A j \in 1 .. Len(es) : Revoking(es[j], epochNow[d], made + 1)
                 /\ vault' = LongerVault(d, es) /\ made' = made + Len(es)
<1> DEFINE next == epochNow[d] + 1
           key == made + 1
           active == (ActiveRecipients(d) \ {m}) \cup {d}
           rotated(l) == [i \in DOMAIN l |-> Event(key + i, "grant", l[i], next, key, 0)]
<1>1. PICK reached \in SUBSET active :
        LET rotations == SetToSeq(reached)
        IN Appends(d, <<Event(key, "revoke", m, epochNow[d], 0, 0)>> \o
                      [i \in DOMAIN rotations |->
                         Event(key + i, "grant", rotations[i], next, key, 0)])
  BY DEF RevokeMember
<1>2. reached \subseteq Edges /\ IsFiniteSet(reached)
  <2>1. active \subseteq Edges
    BY DEF ActiveRecipients
  <2> QED
    BY <1>1, <2>1, VaultBounds, FS_Subset
<1>3. PICK l : l = SetToSeq(reached)
  OBVIOUS
<1>4. PICK n \in Nat : l \in [1 .. n -> reached]
  BY <1>2, <1>3, SetListed
<1>5. PICK t : t = rotated(l)
  BY Zenon
<1>6. PICK v : v = Event(key, "revoke", m, epochNow[d], 0, 0)
  OBVIOUS
<1>7. Appends(d, <<v>> \o t)
  BY <1>1, <1>3, <1>5, <1>6
<1>8. /\ IsList(t) /\ Len(t) = n
      /\ \A i \in 1 .. Len(t) : Revoking(t[i], epochNow[d], key)
  <2>1. DOMAIN l = 1 .. n
    BY <1>4
  <2>2. t = [i \in 1 .. n |-> Event(key + i, "grant", l[i], next, key, 0)]
    BY <1>5, <2>1
  <2>3. \A i \in 1 .. n : t[i] = Event(key + i, "grant", l[i], next, key, 0)
    BY <2>2
  <2>4. \A i \in 1 .. n : Revoking(t[i], epochNow[d], key)
    <3>1. ASSUME NEW i \in 1 .. n PROVE Revoking(t[i], epochNow[d], key)
      <4>1. t[i].kind = "grant" /\ t[i].epoch = next /\ t[i].key = key
        <5>1. t[i] = Event(key + i, "grant", l[i], next, key, 0)
          BY <2>3
        <5> HIDE DEF next, key
        <5> QED
          BY <5>1, EventIs
      <4> QED
        BY <4>1 DEF Revoking
    <3> QED
      BY <3>1
  <2>5. IsList(t) /\ Len(t) = n
    <3>1. t \in [1 .. n -> {t[i] : i \in 1 .. n}]
      BY <2>2
    <3>2. PICK S : S = {t[i] : i \in 1 .. n}
      BY Zenon
    <3>3. t \in Seq(S) /\ Len(t) = n
      BY <3>1, <3>2
    <3> QED
      BY <3>3, SeqIsList
  <2> QED
    BY <2>4, <2>5
<1>9. Revoking(v, epochNow[d], key)
  <2>1. v.kind = "revoke" /\ v.epoch = epochNow[d]
    BY <1>6 DEF Event
  <2> QED
    BY <2>1 DEF Revoking
<1>10. PICK u : u = <<v>>
  BY Zenon
<1>11. IsList(u) /\ Len(u) = 1 /\ \A j \in 1 .. Len(u) : u[j] = v
  BY <1>10, OneList
<1>12. PICK es : es = u \o t
  BY Zenon
<1>13. IsList(es) /\ Len(es) = 1 + n
  <2>1. IsList(u \o t) /\ Len(u \o t) = Len(u) + Len(t)
    BY Zenon, <1>8, <1>11, Joined
  <2> QED
    BY <1>8, <1>11, <1>12, <2>1
<1>14. \A j \in 1 .. Len(es) : Revoking(es[j], epochNow[d], key)
  <2>1. ASSUME NEW j \in 1 .. Len(es) PROVE es[j] = v \/ \E i \in 1 .. Len(t) : es[j] = t[i]
    <3>1. \A i \in 1 .. Len(u) + Len(t) :
            \/ i \in 1 .. Len(u) /\ (u \o t)[i] = u[i]
            \/ \E k \in 1 .. Len(t) : i = Len(u) + k /\ (u \o t)[i] = t[k]
      BY Zenon, <1>8, <1>11, Joined
    <3>2. j \in 1 .. Len(u) + Len(t)
      BY <1>8, <1>11, <1>13, <2>1
    <3>3. \/ j \in 1 .. Len(u) /\ es[j] = u[j]
          \/ \E k \in 1 .. Len(t) : es[j] = t[k]
      BY <1>12, <3>1, <3>2
    <3> QED
      BY <1>11, <3>3
  <2> QED
    BY <1>8, <1>9, <2>1
<1>15. vault' = LongerVault(d, es) /\ made' = made + Len(es)
  BY <1>7, <1>10, <1>12 DEF Appends, LongerVault
<1> QED
  BY <1>4, <1>13, <1>14, <1>15

LEMMA RevokesStep ==
  ASSUME VaultInv, NEW d \in Edges, NEW m \in Edges \ {d}, RevokeMember(d, m) PROVE VaultInv'
<1> DEFINE next == epochNow[d] + 1
           key == made + 1
<1>1. PICK es : /\ IsList(es) /\ Len(es) >= 1
                /\ \A j \in 1 .. Len(es) : Revoking(es[j], epochNow[d], key)
                /\ vault' = LongerVault(d, es) /\ made' = made + Len(es)
  BY RevokeWrites
<1>2. /\ epochNow[d] \in 1 .. MaxEpochs /\ next \in 1 .. MaxEpochs
      /\ made \in Nat \ {0} /\ made' \in Nat \ {0} /\ key \in 1 .. made' /\ made <= made'
  <2>1. epochNow[d] \in 0 .. MaxEpochs /\ made \in Nat \ {0}
    BY Zenon DEF VaultInv, VaultShapes
  <2>2. epochNow[d] > 0 /\ next <= MaxEpochs
    BY DEF RevokeMember
  <2>3. Len(es) \in Nat /\ Len(es) >= 1 /\ made' = made + Len(es)
    BY <1>1 DEF IsList
  <2> QED
    BY <2>1, <2>2, <2>3, VaultBounds
<1>3. /\ keyring' = Rekeyed(d, next, key) /\ epochNow' = [epochNow EXCEPT ![d] = next]
      /\ forked' = (forked \/ \E e \in Edges : keyring[e][next] # 0 \/ epochNow[e] >= next)
      /\ UNCHANGED <<cursor, pull, received, jumped>>
  BY DEF RevokeMember, Rekeyed
<1> HIDE DEF next, key
<1>4. /\ \A e \in Edges : epochNow'[e] = IF e = d THEN next ELSE epochNow[e]
      /\ epochNow' = [e \in Edges |-> epochNow'[e]]
  <2>1. epochNow = [e \in Edges |-> epochNow[e]]
    BY DEF VaultInv, VaultShapes, PerEdge
  <2> QED
    BY <1>3, <2>1
<1>5. /\ PerEdge(keyring)'
      /\ \A e \in Edges : keyring'[e] = [n \in 1 .. MaxEpochs |-> keyring'[e][n]]
      /\ \A e \in Edges : \A n \in 1 .. MaxEpochs :
           keyring'[e][n] = IF e = d /\ n = next THEN key ELSE keyring[e][n]
  BY <1>2, <1>3, RekeyedIs DEF VaultInv
<1>6. \A j \in 1 .. Len(es) :
        /\ IsVaultEvent(es[j])
        /\ \/ es[j].kind = "revoke" /\ es[j].epoch = epochNow[d]
           \/ es[j].kind = "grant" /\ es[j].epoch = next /\ es[j].key = key
  <2>1. ASSUME NEW j \in 1 .. Len(es)
        PROVE  /\ IsVaultEvent(es[j])
               /\ \/ es[j].kind = "revoke" /\ es[j].epoch = epochNow[d]
                  \/ es[j].kind = "grant" /\ es[j].epoch = next /\ es[j].key = key
    <3>1. PICK e : e = es[j]
      OBVIOUS
    <3>2. \/ e.kind = "revoke" /\ e.epoch = epochNow[d]
          \/ e.kind = "grant" /\ e.epoch = next /\ e.key = key
      BY <1>1, <3>1 DEF Revoking, next
    <3>3. CASE e.kind = "revoke" /\ e.epoch = epochNow[d]
      <4>1. e.epoch + 1 \in 1 .. MaxEpochs /\ e.epoch \in 1 .. MaxEpochs
        BY <1>2, <3>3 DEF next
      <4> QED
        BY <3>1, <3>2, <3>3, <4>1 DEF IsVaultEvent, IsSealed
    <3>4. CASE e.kind = "grant" /\ e.epoch = next /\ e.key = key
      <4>1. key # 0
        BY <1>2
      <4> QED
        BY <1>2, <3>1, <3>2, <3>4, <4>1 DEF IsVaultEvent, IsSealed
    <3> QED
      BY <3>2, <3>3, <3>4
  <2> QED
    BY <2>1
<1>7. /\ PerEdge(vault)'
      /\ \A e \in Edges :
           /\ IsList(vault'[e]) /\ Grown(vault[e], vault'[e])
           /\ \A i \in 1 .. Len(vault'[e]) :
                /\ IsVaultEvent(vault'[e][i])
                /\ \/ i \in 1 .. Len(vault[e]) /\ vault'[e][i] = vault[e][i]
                   \/ e = d /\ \E j \in 1 .. Len(es) : vault'[e][i] = es[j]
  <2>1. VaultShapes /\ \A j \in 1 .. Len(es) : IsVaultEvent(es[j])
    BY <1>6 DEF VaultInv
  <2> QED
    BY <1>1, <2>1, VaultGrows
<1>8. \A e \in Edges : \A i \in 1 .. Len(vault'[e]) :
        \/ i \in 1 .. Len(vault[e]) /\ vault'[e][i] = vault[e][i]
        \/ /\ e = d
           /\ \/ vault'[e][i].kind = "revoke" /\ vault'[e][i].epoch = epochNow[d]
              \/ /\ vault'[e][i].kind = "grant" /\ vault'[e][i].epoch = next
                 /\ vault'[e][i].key = key
  <2>1. ASSUME NEW e \in Edges, NEW i \in 1 .. Len(vault'[e])
        PROVE  \/ i \in 1 .. Len(vault[e]) /\ vault'[e][i] = vault[e][i]
               \/ e = d /\ \E j \in 1 .. Len(es) : vault'[e][i] = es[j]
    BY <1>7, <2>1
  <2>2. ASSUME NEW e \in Edges, NEW i \in 1 .. Len(vault'[e])
        PROVE  \/ i \in 1 .. Len(vault[e]) /\ vault'[e][i] = vault[e][i]
               \/ /\ e = d
                  /\ \/ vault'[e][i].kind = "revoke" /\ vault'[e][i].epoch = epochNow[d]
                     \/ /\ vault'[e][i].kind = "grant" /\ vault'[e][i].epoch = next
                        /\ vault'[e][i].key = key
    <3>1. CASE i \in 1 .. Len(vault[e]) /\ vault'[e][i] = vault[e][i]
      BY <3>1
    <3>2. CASE e = d /\ \E j \in 1 .. Len(es) : vault'[e][i] = es[j]
      <4>1. PICK j \in 1 .. Len(es) : vault'[e][i] = es[j]
        BY <3>2
      <4> QED
        BY <1>6, <3>2, <4>1
    <3> QED
      BY <2>1, <2>2, <3>1, <3>2
  <2> QED
    BY <2>2
<1>9. VaultShapes'
  <2>1. \A e \in Edges : epochNow'[e] \in 0 .. MaxEpochs
    <3>1. \A e \in Edges : epochNow[e] \in 0 .. MaxEpochs
      BY Zenon DEF VaultInv, VaultShapes
    <3> QED
      BY <1>2, <1>4, <3>1
  <2> QED
    BY <1>2, <1>3, <1>4, <1>5, <1>7, <2>1 DEF VaultInv, VaultShapes, PerEdge
<1>10. CursorCovers' /\ PullsCover'
  <2>1. Grown(received, received')
    BY <1>3 DEF Grown, IsList, VaultInv, VaultShapes
  <2> QED
    BY <1>3, <1>7, <1>9, <2>1, CoversStay DEF VaultInv
<1>11. GrantsHeld'
  <2>1. ASSUME NEW e \in Edges, NEW i \in 1 .. Len(vault'[e]),
               vault'[e][i].kind = "grant", vault'[e][i].to = e
        PROVE  keyring'[e][vault'[e][i].epoch] # 0
    <3>1. PICK n : n = vault'[e][i].epoch
      OBVIOUS
    <3>2. n \in 1 .. MaxEpochs
      BY <1>7, <2>1, <3>1 DEF IsVaultEvent
    <3>3. key # 0
      BY <1>2
    <3>4. CASE i \in 1 .. Len(vault[e]) /\ vault'[e][i] = vault[e][i]
      <4>1. keyring[e][n] # 0
        BY <2>1, <3>1, <3>4 DEF VaultInv, GrantsHeld
      <4> QED
        BY <1>5, <3>1, <3>2, <3>3, <4>1
    <3>5. CASE e = d /\ n = next
      BY <1>5, <3>1, <3>2, <3>3, <3>5
    <3> QED
      BY <1>8, <2>1, <3>1, <3>4, <3>5
  <2> QED
    BY <2>1 DEF GrantsHeld
<1>12. EpochsReached'
  <2>1. /\ \A n \in 1 .. MaxEpochs : Reached(n) => Reached(n)'
        /\ \A n \in 1 .. MaxEpochs : n <= next => Reached(n)'
    <3>1. \A e \in Edges : epochNow[e] \in Nat /\ epochNow'[e] \in Nat /\ epochNow[e] <= epochNow'[e]
      <4>1. \A e \in Edges : epochNow[e] \in Nat
        <5>1. \A e \in Edges : epochNow[e] \in 0 .. MaxEpochs
          BY Zenon DEF VaultInv, VaultShapes
        <5> QED
          BY <5>1
      <4> QED
        BY <1>2, <1>4, <4>1 DEF next
    <3>2. ASSUME NEW n \in 1 .. MaxEpochs, Reached(n) PROVE Reached(n)'
      <4>1. PICK e \in Edges : epochNow[e] >= n
        BY <3>2 DEF Reached
      <4>2. epochNow'[e] >= n
        BY <3>1, <4>1
      <4> QED
        BY <4>2 DEF Reached
    <3>3. ASSUME NEW n \in 1 .. MaxEpochs, n <= next PROVE Reached(n)'
      <4>1. epochNow'[d] >= n
        BY <1>2, <1>4, <3>3
      <4> QED
        BY <4>1 DEF Reached
    <3> QED
      BY <3>2, <3>3
  <2>2. epochNow[d] <= next
    BY <1>2 DEF next
  <2>3. ASSUME NEW e \in Edges, NEW i \in 1 .. Len(vault'[e])
        PROVE  \E n : n = vault'[e][i].epoch /\ Reached(n)'
    <3>1. PICK n : n = vault'[e][i].epoch
      OBVIOUS
    <3>2. n \in 1 .. MaxEpochs
      BY <1>7, <3>1 DEF IsVaultEvent
    <3>3. CASE i \in 1 .. Len(vault[e]) /\ vault'[e][i] = vault[e][i]
      <4>1. Reached(n)
        BY <3>1, <3>3 DEF VaultInv, EpochsReached
      <4> QED
        BY <2>1, <3>1, <3>2, <4>1
    <3>4. CASE n = next \/ n = epochNow[d]
      BY <1>2, <2>1, <2>2, <3>1, <3>2, <3>4
    <3> QED
      BY <1>8, <3>1, <3>3, <3>4
  <2>4. ASSUME NEW i \in 1 .. Len(received), received[i].kind # "decision"
        PROVE  \E n : n = received[i].epoch /\ Reached(n)'
    <3>1. received[i].epoch \in 1 .. MaxEpochs /\ Reached(received[i].epoch)
      BY <2>4 DEF VaultInv, VaultShapes, IsVaultEvent, EpochsReached
    <3> QED
      BY <2>1, <3>1
  <2> QED
    BY <1>3, <2>3, <2>4 DEF EpochsReached, Reached
<1>13. OneEpochKey'
  <2>1. SUFFICES ASSUME ~forked' PROVE \E K \in [1 .. MaxEpochs -> 1 .. made'] : KeysAre(K)'
    BY DEF OneEpochKey
  <2>2. ~forked /\ \A e \in Edges : keyring[e][next] = 0 /\ ~(epochNow[e] >= next)
    BY Zenon, <1>3, <2>1
  <2>3. PICK K \in [1 .. MaxEpochs -> 1 .. made] : KeysAre(K)
    BY <2>2 DEF VaultInv, OneEpochKey
  <2>4. PICK L : L = [K EXCEPT ![next] = key]
    BY Zenon
  <2>5. /\ L \in [1 .. MaxEpochs -> 1 .. made']
        /\ \A n \in 1 .. MaxEpochs : L[n] = IF n = next THEN key ELSE K[n]
    <3>1. K \in [1 .. MaxEpochs -> 1 .. made']
      BY <1>2, <2>3, KeysBelow
    <3> QED
      BY <1>2, <2>4, <3>1
  <2>6. \A n \in 1 .. MaxEpochs : Reached(n) => n # next
    BY <2>2 DEF Reached
  <2>7. ASSUME NEW e, IsVaultEvent(e), Reached(e.epoch), SealedBy(e, K) PROVE SealedBy(e, L)
    <3>1. e.epoch \in 1 .. MaxEpochs /\ e.epoch # next
      BY <2>6, <2>7 DEF IsVaultEvent
    <3>2. L[e.epoch] = K[e.epoch]
      BY <2>5, <3>1
    <3> QED
      BY <2>7, <3>2 DEF SealedBy
  <2>8. \A e \in Edges : \A n \in 1 .. MaxEpochs : keyring'[e][n] \in {0, L[n]}
    BY <1>5, <2>2, <2>3, <2>5 DEF KeysAre
  <2>9. ASSUME NEW x \in Edges, NEW i \in 1 .. Len(vault'[x]) PROVE SealedBy(vault'[x][i], L)
    <3>1. CASE i \in 1 .. Len(vault[x]) /\ vault'[x][i] = vault[x][i]
      <4>1. IsVaultEvent(vault[x][i]) /\ Reached(vault[x][i].epoch) /\ SealedBy(vault[x][i], K)
        BY Zenon, <2>3, <3>1 DEF KeysAre, VaultInv, VaultShapes, EpochsReached
      <4> QED
        BY <2>7, <3>1, <4>1
    <3>2. CASE vault'[x][i].kind = "revoke"
      BY <3>2 DEF SealedBy, IsSealed
    <3>3. CASE vault'[x][i].epoch = next /\ vault'[x][i].key = key
      BY <1>2, <2>5, <3>3 DEF SealedBy
    <3> QED
      BY <1>8, <2>9, <3>1, <3>2, <3>3
  <2>10. ASSUME NEW i \in 1 .. Len(received) PROVE SealedBy(received[i], L)
    <3>1. SealedBy(received[i], K)
      BY <2>3 DEF KeysAre
    <3>2. CASE received[i].kind = "decision"
      BY <3>2 DEF SealedBy, IsSealed
    <3>3. CASE received[i].kind # "decision"
      <4>1. IsVaultEvent(received[i]) /\ Reached(received[i].epoch)
        BY <3>3 DEF VaultInv, VaultShapes, EpochsReached
      <4> QED
        BY <2>7, <3>1, <4>1
    <3> QED
      BY <3>2, <3>3
  <2>11. KeysAre(L)'
    BY <1>3, <2>8, <2>9, <2>10 DEF KeysAre
  <2> QED
    BY <2>5, <2>11
<1> QED
  BY <1>9, <1>10, <1>11, <1>12, <1>13 DEF VaultInv

-----------------------------------------------------------------------------
(* What the platform receives is an edge's or a decision. *)
LEMMA PlatformGrows ==
  ASSUME VaultInv, NEW es, IsList(es), received' = received \o es,
         \A j \in 1 .. Len(es) : \/ es[j].kind = "decision"
                                 \/ \E d \in Edges : Holds(vault[d], es[j]),
         UNCHANGED <<vault, epochNow, keyring, cursor, pull, made, jumped, forked>>
  PROVE  VaultInv'
<1>1. IsList(received) /\ Len(received) \in Nat /\ Len(es) \in Nat
  BY DEF VaultInv, VaultShapes, IsList
<1>2. /\ IsList(received') /\ Len(received') = Len(received) + Len(es)
      /\ \A i \in 1 .. Len(received') : \/ i \in 1 .. Len(received) /\ received'[i] = received[i]
                                        \/ \E j \in 1 .. Len(es) : received'[i] = es[j]
  <2>1. PICK v, w : v = received /\ w = v \o es
    OBVIOUS
  <2>2. IsList(v) /\ Len(v) = Len(received) /\ received' = w
    BY <1>1, <2>1
  <2>3. IsList(w) /\ Len(w) = Len(v) + Len(es)
    BY <2>1, <2>2, Joined
  <2>4. \A i \in 1 .. Len(w) : \/ i \in 1 .. Len(v) /\ w[i] = v[i]
                               \/ \E j \in 1 .. Len(es) : w[i] = es[j]
    BY <2>1, <2>2, Joined
  <2> QED
    BY <2>1, <2>2, <2>3, <2>4
<1>3. Grown(received, received')
  BY <1>1, GrownJoined
<1>4. ASSUME NEW i \in 1 .. Len(received'), received'[i].kind # "decision"
      PROVE  \/ i \in 1 .. Len(received) /\ received'[i] = received[i]
             \/ \E d \in Edges : \E k \in 1 .. Len(vault[d]) : received'[i] = vault[d][k]
  BY ZenonT(30), <1>2, <1>4 DEF Holds
<1>5. VaultShapes'
  <2>1. \A d \in Edges : cursor[d] \in 0 .. Len(received')
    <3>1. \A d \in Edges : cursor[d] \in 0 .. Len(received)
      BY Zenon DEF VaultInv, VaultShapes
    <3> QED
      BY <1>1, <1>2, <3>1
  <2>2. \A i \in 1 .. Len(received') : received'[i].kind = "decision" \/ IsVaultEvent(received'[i])
    BY Zenon, <1>4 DEF VaultInv, VaultShapes
  <2> QED
    BY <1>2, <2>1, <2>2 DEF VaultInv, VaultShapes, PerEdge
<1>6. CursorCovers' /\ PullsCover'
  <2>1. \A d \in Edges : Grown(vault[d], vault'[d])
    BY DEF Grown, IsList, VaultInv, VaultShapes
  <2> QED
    BY <1>3, <1>5, <2>1, CoversStay DEF VaultInv
<1>7. GrantsHeld'
  BY DEF VaultInv, GrantsHeld
<1>8. EpochsReached'
  <2>1. ASSUME NEW i \in 1 .. Len(received'), received'[i].kind # "decision"
        PROVE  Reached(received'[i].epoch)
    BY Zenon, <1>2, <1>4, <2>1 DEF VaultInv, EpochsReached
  <2> QED
    BY <2>1 DEF VaultInv, EpochsReached, Reached
<1>9. OneEpochKey'
  <2>1. SUFFICES ASSUME ~forked PROVE \E K \in [1 .. MaxEpochs -> 1 .. made] : KeysAre(K)'
    BY DEF OneEpochKey
  <2>2. PICK K \in [1 .. MaxEpochs -> 1 .. made] : KeysAre(K)
    BY <2>1 DEF VaultInv, OneEpochKey
  <2>3. ASSUME NEW i \in 1 .. Len(received') PROVE SealedBy(received'[i], K)
    <3>1. CASE received'[i].kind = "decision"
      BY <3>1 DEF SealedBy, IsSealed
    <3>2. CASE received'[i].kind # "decision"
      BY <1>4, <2>2, <3>2 DEF KeysAre
    <3> QED
      BY <3>1, <3>2
  <2> QED
    BY Zenon, <2>2, <2>3 DEF KeysAre
<1> QED
  BY <1>5, <1>6, <1>7, <1>8, <1>9 DEF VaultInv

LEMMA PushStep ==
  ASSUME VaultInv, NEW d \in Edges, PushEvents(d) PROVE VaultInv'
<1>1. PICK P : P = {i \in DOMAIN vault[d] : ~Has(received, vault[d][i])}
  BY Zenon
<1>2. PICK es : es = Selected(vault[d], P)
  OBVIOUS
<1>3. received' = received \o es
  BY <1>1, <1>2 DEF PushEvents
<1>4. IsList(vault[d]) /\ P \in SUBSET (DOMAIN vault[d]) /\ DOMAIN vault[d] = 1 .. Len(vault[d])
  BY Zenon, <1>1, ListIn, SeqIsList DEF VaultInv, VaultShapes
<1>5. IsList(es) /\ \A j \in 1 .. Len(es) : Holds(vault[d], es[j])
  <2>1. /\ IsList(Selected(vault[d], P))
        /\ \A i \in 1 .. Len(Selected(vault[d], P)) :
             \E p \in P : Selected(vault[d], P)[i] = vault[d][p]
    BY <1>4, SelectedAll
  <2> QED
    BY <1>2, <1>4, <2>1 DEF Holds
<1>6. UNCHANGED <<vault, epochNow, keyring, cursor, pull, made, jumped, forked>>
  BY DEF PushEvents
<1> QED
  BY <1>3, <1>5, <1>6, PlatformGrows

LEMMA DecideStep ==
  ASSUME VaultInv, NEW i, DecideCandidate(i) PROVE VaultInv'
<1>1. PICK e : e = Event(0, "decision", 0, 0, 0, received[i].id)
  OBVIOUS
<1>2. e.kind = "decision"
  BY <1>1, EventIs
<1>3. IsList(received)
  BY DEF VaultInv, VaultShapes
<1>4. PICK es : es = <<e>>
  BY Zenon
<1>5. IsList(es) /\ Len(es) = 1 /\ \A j \in 1 .. Len(es) : es[j].kind = "decision"
  BY <1>2, <1>4, OneList
<1>6. received' = received \o es
  BY <1>1, <1>3, <1>4, AppendIs DEF DecideCandidate
<1>7. UNCHANGED <<vault, epochNow, keyring, cursor, pull, made, jumped, forked>>
  BY DEF DecideCandidate
<1> QED
  BY Zenon, <1>5, <1>6, <1>7, PlatformGrows

-----------------------------------------------------------------------------
LEMMA FiniteUpTo == ASSUME NEW m \in Nat, NEW S \in SUBSET (1 .. m) PROVE IsFiniteSet(S)
<1>1. IsFiniteSet(1 .. m)
  BY FS_Interval
<1> QED
  BY <1>1, FS_Subset

(* The events of a page are the first after the cursor, and a page that does
   not have them all is full. *)
LEMMA EventsPulled ==
  ASSUME VaultInv, NEW d \in Edges, NEW P, P = PulledEvents(d)
  PROVE  /\ P \in SUBSET (1 .. Len(received))
         /\ \A i \in P : received[i].kind # "decision"
         /\ \A i \in cursor[d] + 1 .. Len(received) : received[i].kind # "decision" =>
              /\ i \in P \/ Cardinality(P) = PullLimit
              /\ \A k \in P : i <= k => i \in P
<1> DEFINE n == Len(received)
           T == {i \in cursor[d] + 1 .. n : received[i].kind # "decision"}
           Below(i) == {j \in T : j <= i}
<1>1. n \in Nat /\ cursor[d] \in 0 .. n
  BY Zenon DEF VaultInv, VaultShapes, IsList
<1>2. T \in SUBSET (1 .. n) /\ PullLimit \in Nat
  BY <1>1, VaultBounds
<1>3. ASSUME NEW i \in T
      PROVE  Below(i) = {j \in cursor[d] + 1 .. i : ~IsDecision(received[j])}
  <2>1. \A j : j \in cursor[d] + 1 .. i <=> j \in cursor[d] + 1 .. n /\ j <= i
    BY <1>1, <1>3
  <2>2. \A j : ~IsDecision(received[j]) <=> received[j].kind # "decision"
    BY DEF IsDecision
  <2> QED
    BY <2>1, <2>2
<1>4. \A i : i \in P <=> i \in T /\ Cardinality(Below(i)) <= PullLimit
  <2>1. P = {i \in T : Cardinality(Below(i)) <= PullLimit}
    <3>1. ASSUME NEW i PROVE i \in P <=> /\ i \in cursor[d] + 1 .. n /\ ~IsDecision(received[i])
                                         /\ Cardinality({j \in cursor[d] + 1 .. i :
                                                           ~IsDecision(received[j])}) <= PullLimit
      BY DEF PulledEvents
    <3>2. ASSUME NEW i PROVE i \in P <=> i \in T /\ Cardinality(Below(i)) <= PullLimit
      <4>1. i \in T <=> i \in cursor[d] + 1 .. n /\ ~IsDecision(received[i])
        BY DEF IsDecision
      <4>2. CASE i \in T
        <5>1. Below(i) = {j \in cursor[d] + 1 .. i : ~IsDecision(received[j])}
          BY <1>3, <4>2
        <5> QED
          BY Zenon, <3>1, <4>1, <4>2, <5>1
      <4>3. CASE i \notin T
        BY Zenon, <3>1, <4>1, <4>3
      <4> QED
        BY <4>2, <4>3
    <3>3. \A i : i \in P => i \in T
      BY Zenon, <3>2
    <3> QED
      BY <3>2, <3>3
  <2> QED
    BY <2>1
<1>5. P \in SUBSET T
  BY Zenon, <1>4
<1>6. P \in SUBSET (1 .. n) /\ \A i \in P : received[i].kind # "decision"
  BY <1>2, <1>5
<1>7. ASSUME NEW i \in T, i \notin P PROVE Cardinality(P) = PullLimit
  <2>1. \A k \in T : k \in P <=> Cardinality({j \in T : j <= k}) <= PullLimit
    BY Zenon, <1>4
  <2>2. T \in SUBSET (1 .. n) /\ P \in SUBSET T /\ n \in Nat /\ PullLimit \in Nat
    BY <1>1, <1>2, <1>5
  <2> HIDE DEF T, n
  <2> QED
    BY <1>7, <2>1, <2>2, FirstOnes
<1>8. ASSUME NEW i \in T, NEW k \in P, i <= k PROVE i \in P
  <2>1. IsFiniteSet(T)
    <3> HIDE DEF T, n
    <3> QED
      BY <1>1, <1>2, FiniteUpTo
  <2>2. Below(i) \subseteq Below(k) /\ Below(k) \subseteq T
    <3>1. T \subseteq Nat /\ k \in Nat /\ i \in Nat
      BY <1>1, <1>2, <1>6, <1>8
    <3>2. ASSUME NEW j \in T, j <= i PROVE j <= k
      <4>1. j \in Nat
        BY <3>1, <3>2
      <4> QED
        BY <1>8, <3>1, <3>2, <4>1
    <3> HIDE DEF T
    <3> QED
      BY <3>2, Zenon
  <2>3. IsFiniteSet(Below(k)) /\ IsFiniteSet(Below(i))
    BY <2>1, <2>2, FS_Subset
  <2>4. /\ Cardinality(Below(i)) <= Cardinality(Below(k))
        /\ Cardinality(Below(i)) \in Nat /\ Cardinality(Below(k)) \in Nat
    BY <2>2, <2>3, FS_Subset, FS_CardinalityType
  <2>5. Cardinality(Below(k)) <= PullLimit
    BY Zenon, <1>4, <1>8
  <2>6. Cardinality(Below(i)) <= PullLimit
    BY <1>2, <2>4, <2>5
  <2> QED
    BY <1>4, <1>8, <2>6
<1>9. \A i \in cursor[d] + 1 .. n : received[i].kind # "decision" => i \in T
  OBVIOUS
<1> HIDE DEF T
<1> QED
  BY <1>6, <1>7, <1>8, <1>9

LEMMA DecisionsPulled ==
  ASSUME VaultInv, NEW d \in Edges, NEW P, P = PulledDecisions(d)
  PROVE  /\ P \in SUBSET (1 .. Len(received))
         /\ \A i \in P : received[i].kind = "decision"
         /\ \A i \in cursor[d] + 1 .. Len(received) : received[i].kind = "decision" => i \in P
<1>1. Len(received) \in Nat /\ cursor[d] \in 0 .. Len(received)
  BY Zenon DEF VaultInv, VaultShapes, IsList
<1>2. cursor[d] + 1 .. Len(received) \subseteq 1 .. Len(received)
  BY <1>1
<1> QED
  BY <1>2 DEF PulledDecisions, IsDecision

PutAt(f, d, v) == [f EXCEPT ![d] = v]
LEMMA EdgePut ==
  ASSUME NEW f, PerEdge(f), NEW d \in Edges, NEW v, NEW g, g = PutAt(f, d, v)
  PROVE  PerEdge(g) /\ g[d] = v /\ \A e \in Edges : e # d => g[e] = f[e]
<1>1. g = [e \in Edges |-> IF e = d THEN v ELSE f[e]]
  BY DEF PerEdge, PutAt
<1> QED
  BY <1>1 DEF PerEdge

(* The keys of an edge's grants. *)
FromGrants(v, d, keys, taken) ==
  \A n \in 1 .. MaxEpochs :
    \/ /\ taken[n] = keys[n]
       /\ ~\E i \in 1 .. Len(v) : v[i].kind = "grant" /\ v[i].to = d /\ v[i].epoch = n
    \/ \E i \in 1 .. Len(v) : /\ v[i].kind = "grant" /\ v[i].to = d /\ v[i].epoch = n
                              /\ taken[n] = v[i].key
LEMMA KeysTaken ==
  ASSUME NEW d, NEW es, IsList(es), NEW keys, NEW taken, taken = Materialized(d, es, keys)
  PROVE  /\ taken = [n \in 1 .. MaxEpochs |-> taken[n]]
         /\ FromGrants(es, d, keys, taken)
<1> DEFINE Mine(n) == {i \in DOMAIN es :
                         es[i].kind = "grant" /\ es[i].to = d /\ es[i].epoch = n}
           Latest(n) == CHOOSE i \in Mine(n) : \A j \in Mine(n) : j <= i
<1>1. taken = [n \in 1 .. MaxEpochs |-> IF Mine(n) = {} THEN keys[n] ELSE es[Latest(n)].key]
  BY DEF Materialized
<1>2. DOMAIN es = 1 .. Len(es) /\ Len(es) \in Nat
  BY DEF IsList
<1>3. ASSUME NEW n \in 1 .. MaxEpochs
      PROVE  \/ /\ taken[n] = keys[n]
                /\ ~\E i \in 1 .. Len(es) : es[i].kind = "grant" /\ es[i].to = d /\ es[i].epoch = n
             \/ \E i \in 1 .. Len(es) : /\ es[i].kind = "grant" /\ es[i].to = d
                                        /\ es[i].epoch = n /\ taken[n] = es[i].key
  <2>1. taken[n] = IF Mine(n) = {} THEN keys[n] ELSE es[Latest(n)].key
    BY <1>1
  <2>2. CASE Mine(n) = {}
    <3>1. \A i \in 1 .. Len(es) : ~(es[i].kind = "grant" /\ es[i].to = d /\ es[i].epoch = n)
      BY <1>2, <2>2
    <3> QED
      BY <2>1, <2>2, <3>1
  <2>3. CASE Mine(n) # {}
    <3>1. Mine(n) \in SUBSET (0 .. Len(es))
      BY <1>2
    <3>2. \E i \in Mine(n) : \A j \in Mine(n) : j <= i
      <4> HIDE DEF Mine
      <4> QED
        BY Zenon, <1>2, <2>3, <3>1, GreatestNumber
    <3>3. Latest(n) \in Mine(n)
      BY <3>2
    <3>4. PICK i : i = Latest(n)
      OBVIOUS
    <3>5. /\ i \in 1 .. Len(es) /\ es[i].kind = "grant" /\ es[i].to = d /\ es[i].epoch = n
      BY <1>2, <3>3, <3>4
    <3>6. taken[n] = es[i].key
      BY <2>1, <2>3, <3>4
    <3> QED
      BY <3>5, <3>6
  <2> QED
    BY <2>2, <2>3
<1>4. taken = [n \in 1 .. MaxEpochs |-> taken[n]]
  BY <1>1
<1> QED
  BY <1>3, <1>4 DEF FromGrants

(* The epoch of an edge without one is the latest the events speak of. *)
LEMMA EpochTaken ==
  ASSUME VaultInv, NEW d \in Edges, NEW es, IsList(es),
         \A i \in 1 .. Len(es) : IsVaultEvent(es[i]), NEW k, k = EnsureMetadata(d, es)
  PROVE  k \in 0 .. MaxEpochs /\ epochNow[d] <= k
<1>1. epochNow[d] \in 0 .. MaxEpochs /\ MaxEpochs \in Nat
  BY Zenon, VaultBounds DEF VaultInv, VaultShapes
<1>2. CASE epochNow[d] # 0 \/ es = << >>
  BY <1>1, <1>2 DEF EnsureMetadata
<1>3. CASE ~(epochNow[d] # 0 \/ es = << >>)
  <2> DEFINE epochs == {es[i].epoch + (IF es[i].kind = "revoke" THEN 1 ELSE 0) : i \in DOMAIN es}
  <2>1. DOMAIN es = 1 .. Len(es) /\ Len(es) \in Nat
    BY DEF IsList
  <2>2. 1 \in DOMAIN es
    <3>1. SUFFICES ASSUME Len(es) = 0 PROVE FALSE
      BY <2>1
    <3>2. es = [i \in 1 .. 0 |-> es[i]]
      BY <3>1 DEF IsList
    <3>3. es = << >>
      BY <3>2
    <3> QED
      BY <1>3, <3>3
  <2>3. ASSUME NEW i \in DOMAIN es
        PROVE  es[i].epoch + (IF es[i].kind = "revoke" THEN 1 ELSE 0) \in 0 .. MaxEpochs
    <3>1. IsVaultEvent(es[i])
      BY <2>1, <2>3
    <3>2. /\ es[i].epoch \in 1 .. MaxEpochs
          /\ es[i].kind = "revoke" => es[i].epoch + 1 \in 1 .. MaxEpochs
      BY <3>1 DEF IsVaultEvent
    <3> QED
      BY <1>1, <3>2
  <2>4. epochs \in SUBSET (0 .. MaxEpochs) /\ epochs # {}
    BY <2>2, <2>3
  <2>5. k = CHOOSE n \in epochs : \A m \in epochs : m <= n
    BY Zenon, <1>3 DEF EnsureMetadata
  <2> HIDE DEF epochs
  <2>6. \E n \in epochs : \A m \in epochs : m <= n
    BY Zenon, <1>1, <2>4, GreatestNumber
  <2>7. k \in epochs
    BY <2>5, <2>6
  <2> QED
    BY <1>1, <1>3, <2>4, <2>7
<1> QED
  BY <1>2, <1>3

LEMMA PullsStep ==
  ASSUME VaultInv, NEW d \in Edges, PullEvents(d) PROVE VaultInv'
<1>1. PICK P, D : P = PulledEvents(d) /\ D = PulledDecisions(d)
  OBVIOUS
<1>2. PICK news : news = Selected(received, P)
  OBVIOUS
<1>3. PICK New : New = {i \in DOMAIN news : ~Has(vault[d], news[i])}
  BY Zenon
<1>4. PICK es : es = Selected(news, New)
  OBVIOUS
<1>5. PICK events : events = vault[d] \o es
  BY Zenon
<1>6. PICK p : p = [on |-> TRUE, upto |-> At0(P), decided |-> At0(D),
                    full |-> Len(news) = PullLimit, todo |-> Selected(received, D),
                    notFound |-> FALSE]
  BY Zenon
<1>7. PICK k, keys : k = EnsureMetadata(d, news) /\ keys = Materialized(d, events, keyring[d])
  OBVIOUS
<1>8. /\ vault' = [vault EXCEPT ![d] = events] /\ epochNow' = [epochNow EXCEPT ![d] = k]
      /\ keyring' = [keyring EXCEPT ![d] = keys] /\ pull' = [pull EXCEPT ![d] = p]
      /\ UNCHANGED <<cursor, received, made, jumped, forked>>
  <2>1. vault' = [vault EXCEPT ![d] = events]
    BY <1>1, <1>2, <1>3, <1>4, <1>5 DEF PullEvents
  <2>2. epochNow' = [epochNow EXCEPT ![d] = k]
    BY <1>1, <1>2, <1>7 DEF PullEvents
  <2>3. keyring' = [keyring EXCEPT ![d] = keys]
    BY <1>1, <1>2, <1>3, <1>4, <1>5, <1>7 DEF PullEvents
  <2>4. pull' = [pull EXCEPT ![d] = p]
    BY <1>1, <1>2, <1>6 DEF PullEvents
  <2> QED
    BY Zenon, <2>1, <2>2, <2>3, <2>4 DEF PullEvents
<1>9. /\ IsList(received) /\ DOMAIN received = 1 .. Len(received) /\ Len(received) \in Nat
      /\ cursor[d] \in 0 .. Len(received)
  BY Zenon DEF VaultInv, VaultShapes, IsList
<1>10. /\ P \in SUBSET (1 .. Len(received)) /\ \A i \in P : received[i].kind # "decision"
       /\ \A i \in cursor[d] + 1 .. Len(received) : received[i].kind # "decision" =>
            /\ i \in P \/ Cardinality(P) = PullLimit
            /\ \A j \in P : i <= j => i \in P
  BY <1>1, EventsPulled
<1>11. /\ D \in SUBSET (1 .. Len(received))
       /\ \A i \in cursor[d] + 1 .. Len(received) : received[i].kind = "decision" => i \in D
  BY <1>1, DecisionsPulled
<1>12. /\ IsList(news) /\ DOMAIN news = 1 .. Len(news) /\ Len(news) = Cardinality(P)
       /\ \A i \in 1 .. Len(news) : \E j \in P : news[i] = received[j]
       /\ \A j \in P : \E i \in 1 .. Len(news) : news[i] = received[j]
  <2>1. P \in SUBSET (DOMAIN received)
    BY <1>9, <1>10
  <2>2. /\ IsList(news) /\ Len(news) = Cardinality(P)
        /\ \A i \in 1 .. Len(news) : \E j \in P : news[i] = received[j]
        /\ \A j \in P : \E i \in 1 .. Len(news) : news[i] = received[j]
    BY Zenon, <1>2, <1>9, <2>1, SelectedAll
  <2> QED
    BY <2>2 DEF IsList
<1>13. /\ IsList(es) /\ \A i \in 1 .. Len(es) : \E j \in 1 .. Len(news) : es[i] = news[j]
       /\ \A j \in New : \E i \in 1 .. Len(es) : es[i] = news[j]
  <2>1. New \in SUBSET (DOMAIN news) /\ DOMAIN news = 1 .. Len(news)
    BY <1>3, <1>12
  <2>2. /\ IsList(es) /\ \A i \in 1 .. Len(es) : \E j \in New : es[i] = news[j]
        /\ \A j \in New : \E i \in 1 .. Len(es) : es[i] = news[j]
    BY Zenon, <1>4, <1>12, <2>1, SelectedAll
  <2> QED
    BY <2>1, <2>2
<1>14. /\ \A i \in 1 .. Len(news) : IsVaultEvent(news[i])
       /\ \A i \in 1 .. Len(es) : /\ IsVaultEvent(es[i])
                                  /\ \E j \in P : es[i] = received[j]
  <2>1. \A j \in P : IsVaultEvent(received[j])
    BY <1>10 DEF VaultInv, VaultShapes
  <2>2. ASSUME NEW i \in 1 .. Len(news)
        PROVE  IsVaultEvent(news[i]) /\ \E j \in P : news[i] = received[j]
    <3>1. PICK j \in P : news[i] = received[j]
      BY <1>12, <2>2
    <3> QED
      BY <2>1, <3>1
  <2>3. ASSUME NEW i \in 1 .. Len(es)
        PROVE  IsVaultEvent(es[i]) /\ \E j \in P : es[i] = received[j]
    <3>1. PICK j \in 1 .. Len(news) : es[i] = news[j]
      BY <1>13, <2>3
    <3> QED
      BY <2>2, <3>1
  <2> QED
    BY <2>2, <2>3
<1>15. vault' = LongerVault(d, es)
  BY <1>5, <1>8 DEF LongerVault
<1>16. /\ PerEdge(vault)'
       /\ \A e \in Edges :
            /\ IsList(vault'[e]) /\ Grown(vault[e], vault'[e])
            /\ \A i \in 1 .. Len(vault'[e]) :
                 /\ IsVaultEvent(vault'[e][i])
                 /\ \/ i \in 1 .. Len(vault[e]) /\ vault'[e][i] = vault[e][i]
                    \/ e = d /\ \E j \in 1 .. Len(es) : vault'[e][i] = es[j]
       /\ \A j \in 1 .. Len(es) : Holds(vault'[d], es[j])
  <2>1. VaultShapes /\ \A j \in 1 .. Len(es) : IsVaultEvent(es[j])
    BY <1>14 DEF VaultInv
  <2> QED
    BY Zenon, <1>13, <1>15, <2>1, VaultGrows
<1>17. \A e \in Edges : \A i \in 1 .. Len(vault'[e]) :
         \/ i \in 1 .. Len(vault[e]) /\ vault'[e][i] = vault[e][i]
         \/ e = d /\ \E j \in P : vault'[e][i] = received[j]
  <2>1. ASSUME NEW e \in Edges, NEW i \in 1 .. Len(vault'[e])
        PROVE  \/ i \in 1 .. Len(vault[e]) /\ vault'[e][i] = vault[e][i]
               \/ e = d /\ \E j \in P : vault'[e][i] = received[j]
    <3>1. \/ i \in 1 .. Len(vault[e]) /\ vault'[e][i] = vault[e][i]
          \/ e = d /\ \E j \in 1 .. Len(es) : vault'[e][i] = es[j]
      BY <1>16, <2>1
    <3>2. (\E j \in 1 .. Len(es) : vault'[e][i] = es[j]) => \E j \in P : vault'[e][i] = received[j]
      BY <1>14, Zenon
    <3> QED
      BY <3>1, <3>2
  <2> QED
    BY <2>1
<1>18. \A j \in P : Holds(vault'[d], received[j])
  <2>1. ASSUME NEW j \in P PROVE Holds(vault'[d], received[j])
    <3>1. PICK i \in 1 .. Len(news) : news[i] = received[j]
      BY <1>12
    <3>2. CASE i \in New
      BY <1>13, <1>16, <3>1, <3>2
    <3>3. CASE i \notin New
      <4>1. Has(vault[d], news[i])
        BY <1>3, <1>12, <3>3
      <4>2. IsList(vault[d]) /\ DOMAIN vault[d] = 1 .. Len(vault[d])
        BY Zenon, ListIn, SeqIsList DEF VaultInv, VaultShapes
      <4>3. Holds(vault[d], received[j])
        BY <3>1, <4>1, <4>2 DEF Has, Holds
      <4> QED
        BY <1>16, <4>2, <4>3, GrownHolds
    <3> QED
      BY <3>2, <3>3
  <2> QED
    BY <2>1
<1>19. /\ PerEdge(epochNow)' /\ epochNow'[d] = k
       /\ \A e \in Edges : e # d => epochNow'[e] = epochNow[e]
  <2>1. PerEdge(epochNow) /\ epochNow' = PutAt(epochNow, d, k)
    BY <1>8 DEF VaultInv, VaultShapes, PutAt
  <2> QED
    BY <2>1, EdgePut
<1>20. /\ PerEdge(keyring)' /\ keyring'[d] = keys
       /\ \A e \in Edges : e # d => keyring'[e] = keyring[e]
  <2>1. PerEdge(keyring) /\ keyring' = PutAt(keyring, d, keys)
    BY <1>8 DEF VaultInv, VaultShapes, PutAt
  <2> QED
    BY <2>1, EdgePut
<1>21. /\ PerEdge(pull)' /\ pull'[d] = p /\ \A e \in Edges : e # d => pull'[e] = pull[e]
  <2>1. PerEdge(pull) /\ pull' = PutAt(pull, d, p)
    BY <1>8 DEF VaultInv, VaultShapes, PutAt
  <2> QED
    BY <2>1, EdgePut
<1>22. k \in 0 .. MaxEpochs /\ epochNow[d] <= k
  BY <1>7, <1>12, <1>14, EpochTaken
<1>23. /\ p.on /\ p.upto = At0(P) /\ p.decided = At0(D) /\ p.full = (Len(news) = PullLimit)
       /\ p.todo = Selected(received, D) /\ p.notFound = FALSE /\ IsPull(p)
  BY <1>6 DEF IsPull
<1>24. /\ IsList(p.todo)
       /\ \A i \in D : \E j \in 1 .. Len(p.todo) : p.todo[j] = received[i]
  <2>1. D \in SUBSET (DOMAIN received)
    BY <1>9, <1>11
  <2>2. PICK todo : todo = Selected(received, D)
    OBVIOUS
  <2>3. IsList(todo) /\ \A i \in D : \E j \in 1 .. Len(todo) : todo[j] = received[i]
    BY Zenon, <1>9, <2>1, <2>2, SelectedAll
  <2> QED
    BY <1>23, <2>2, <2>3
<1>25. events = vault'[d]
  <2>1. PerEdge(vault) /\ vault' = PutAt(vault, d, events)
    BY <1>8 DEF VaultInv, VaultShapes, PutAt
  <2> QED
    BY <2>1, EdgePut
<1>26. keys = [n \in 1 .. MaxEpochs |-> keys[n]] /\ FromGrants(vault'[d], d, keyring[d], keys)
  <2>1. IsList(events)
    BY <1>16, <1>25
  <2>2. PICK old : old = keyring[d]
    OBVIOUS
  <2>3. keys = Materialized(d, events, old)
    BY <1>7, <2>2
  <2>4. keys = [n \in 1 .. MaxEpochs |-> keys[n]] /\ FromGrants(events, d, old, keys)
    BY <2>1, <2>3, KeysTaken
  <2> QED
    BY <1>25, <2>2, <2>4
<1>27. VaultShapes'
  <2>1. \A e \in Edges : epochNow'[e] \in 0 .. MaxEpochs
    <3>1. \A e \in Edges : epochNow[e] \in 0 .. MaxEpochs
      BY Zenon DEF VaultInv, VaultShapes
    <3> QED
      BY <1>19, <1>22, <3>1
  <2>2. \A e \in Edges : IsPull(pull'[e]) /\ IsList(pull'[e].todo)
    <3>1. \A e \in Edges : IsPull(pull[e]) /\ IsList(pull[e].todo)
      BY Zenon DEF VaultInv, VaultShapes
    <3> QED
      BY <1>21, <1>23, <1>24, <3>1
  <2>3. \A e \in Edges : keyring'[e] = [n \in 1 .. MaxEpochs |-> keyring'[e][n]]
    <3>1. \A e \in Edges : keyring[e] = [n \in 1 .. MaxEpochs |-> keyring[e][n]]
      BY DEF VaultInv, VaultShapes
    <3> QED
      BY Zenon, <1>20, <1>26, <3>1
  <2>4. PerEdge(cursor)'
    BY <1>8 DEF VaultInv, VaultShapes, PerEdge
  <2> QED
    BY Zenon, <1>8, <1>16, <1>19, <1>20, <1>21, <2>1, <2>2, <2>3, <2>4 DEF VaultInv, VaultShapes
<1>28. CursorCovers'
  <2>1. ASSUME NEW e \in Edges \ jumped, NEW i \in 1 .. cursor[e]
        PROVE  Covered(vault'[e], received[i])
    <3>1. Covered(vault[e], received[i])
      BY <2>1 DEF VaultInv, CursorCovers
    <3>2. IsList(vault[e]) /\ IsList(vault'[e]) /\ Grown(vault[e], vault'[e])
      BY Zenon, <1>16 DEF VaultInv, VaultShapes
    <3> QED
      BY <3>1, <3>2, GrownHolds
  <2> QED
    BY <1>8, <2>1 DEF CursorCovers
<1>29. PullsCover'
  <2> DEFINE w == vault'[d]
  <2>1. /\ p.upto \in 0 .. Len(received) /\ p.decided \in 0 .. Len(received)
        /\ p.upto \in P \cup {0} /\ \A j \in P : j <= p.upto
        /\ \A j \in D : j <= p.decided
    <3>1. P \in SUBSET (0 .. Len(received)) /\ D \in SUBSET (0 .. Len(received))
      BY <1>9, <1>10, <1>11
    <3> QED
      BY <1>9, <1>23, <3>1, At0Is
  <2>2. ASSUME NEW i \in cursor[d] + 1 .. Len(received), received[i].kind # "decision", i <= p.upto
        PROVE  Holds(w, received[i])
    <3>1. i > 0
      BY <1>9, <2>2
    <3>2. p.upto \in P
      BY <2>1, <2>2, <3>1
    <3>3. i \in P
      BY Zenon, <1>10, <2>2, <3>2
    <3> QED
      BY <1>18, <3>3
  <2>3. ASSUME NEW i \in cursor[d] + 1 .. Len(received), received[i].kind = "decision"
        PROVE  \E j \in 1 .. Len(p.todo) : p.todo[j].of = received[i].of
    <3>1. PICK j \in 1 .. Len(p.todo) : p.todo[j] = received[i]
      BY <1>11, <1>24, <2>3
    <3> QED
      BY <3>1
  <2>4. ASSUME ~p.full, NEW i \in cursor[d] + 1 .. Len(received), received[i].kind # "decision"
        PROVE  i <= p.upto
    <3>1. Cardinality(P) # PullLimit
      BY Zenon, <1>12, <1>23, <2>4
    <3> QED
      BY <1>10, <2>1, <2>4, <3>1
  <2> HIDE DEF w
  <2>5. PullCovers(w, p, cursor[d])
    BY <2>1, <2>2, <2>3, <2>4 DEF PullCovers
  <2>6. PullCovers(vault[d], pull[d], cursor[d])'
    BY <1>8, <1>21, <2>5 DEF w, PullCovers
  <2>7. ASSUME NEW e \in Edges, e # d, pull'[e].on
        PROVE  PullCovers(vault[e], pull[e], cursor[e])'
    <3>1. vault'[e] = vault[e]
      <4>1. PerEdge(vault) /\ vault' = PutAt(vault, d, events)
        BY <1>8 DEF VaultInv, VaultShapes, PutAt
      <4> QED
        BY <2>7, <4>1, EdgePut
    <3>2. PullCovers(vault[e], pull[e], cursor[e])
      BY <1>21, <2>7 DEF VaultInv, PullsCover
    <3> QED
      BY <1>8, <1>21, <2>7, <3>1, <3>2 DEF PullCovers
  <2> QED
    BY <2>6, <2>7 DEF PullsCover
<1>30. GrantsHeld'
  <2>1. ASSUME NEW e \in Edges, NEW i \in 1 .. Len(vault'[e]),
               vault'[e][i].kind = "grant", vault'[e][i].to = e
        PROVE  keyring'[e][vault'[e][i].epoch] # 0
    <3>1. CASE e = d
      <4>1. PICK n : n = vault'[d][i].epoch
        OBVIOUS
      <4>2. n \in 1 .. MaxEpochs
        BY <1>16, <2>1, <3>1, <4>1 DEF IsVaultEvent
      <4>3. PICK j \in 1 .. Len(vault'[d]) : vault'[d][j].kind = "grant" /\ keys[n] = vault'[d][j].key
        BY <1>26, <2>1, <3>1, <4>1, <4>2 DEF FromGrants
      <4>4. vault'[d][j].key # 0
        BY <1>16, <4>3 DEF IsVaultEvent, IsSealed
      <4> QED
        BY <1>20, <3>1, <4>1, <4>3, <4>4
    <3>2. CASE e # d
      <4>1. i \in 1 .. Len(vault[e]) /\ vault'[e][i] = vault[e][i]
        BY <1>17, <2>1, <3>2
      <4>2. keyring[e][vault[e][i].epoch] # 0
        BY <2>1, <4>1 DEF VaultInv, GrantsHeld
      <4> QED
        BY <1>20, <3>2, <4>1, <4>2
    <3> QED
      BY <3>1, <3>2
  <2> QED
    BY <2>1 DEF GrantsHeld
<1>31. EpochsReached'
  <2>1. ASSUME NEW n \in 1 .. MaxEpochs, Reached(n) PROVE Reached(n)'
    <3>1. PICK e \in Edges : epochNow[e] >= n
      BY <2>1 DEF Reached
    <3>2. epochNow[e] \in 0 .. MaxEpochs /\ MaxEpochs \in Nat
      BY Zenon, VaultBounds DEF VaultInv, VaultShapes
    <3>3. epochNow'[e] >= n
      BY <1>19, <1>22, <3>1, <3>2
    <3> QED
      BY <3>3 DEF Reached
  <2>2. ASSUME NEW e, IsVaultEvent(e), Reached(e.epoch) PROVE Reached(e.epoch)'
    BY <2>1, <2>2 DEF IsVaultEvent
  <2>3. ASSUME NEW j \in 1 .. Len(received), received[j].kind # "decision"
        PROVE  IsVaultEvent(received[j]) /\ Reached(received[j].epoch)
    BY <2>3 DEF VaultInv, VaultShapes, EpochsReached
  <2>4. ASSUME NEW e \in Edges, NEW i \in 1 .. Len(vault'[e])
        PROVE  \E f : f = vault'[e][i] /\ Reached(f.epoch)'
    <3>1. CASE i \in 1 .. Len(vault[e]) /\ vault'[e][i] = vault[e][i]
      <4>1. IsVaultEvent(vault[e][i]) /\ Reached(vault[e][i].epoch)
        BY Zenon, <3>1 DEF VaultInv, VaultShapes, EpochsReached
      <4> QED
        BY <2>2, <3>1, <4>1
    <3>2. CASE \E j \in P : vault'[e][i] = received[j]
      <4>1. PICK j \in P : vault'[e][i] = received[j]
        BY <3>2
      <4>2. j \in 1 .. Len(received) /\ received[j].kind # "decision"
        BY <1>10, <4>1
      <4> QED
        BY <2>2, <2>3, <4>1, <4>2
    <3> QED
      BY <1>17, <2>4, <3>1, <3>2
  <2>5. ASSUME NEW j \in 1 .. Len(received), received[j].kind # "decision"
        PROVE  \E f : f = received[j] /\ Reached(f.epoch)'
    BY <2>2, <2>3, <2>5
  <2> QED
    BY <1>8, <2>4, <2>5 DEF EpochsReached, Reached
<1>32. OneEpochKey'
  <2>1. SUFFICES ASSUME ~forked PROVE \E K \in [1 .. MaxEpochs -> 1 .. made] : KeysAre(K)'
    BY <1>8 DEF OneEpochKey
  <2>2. PICK K \in [1 .. MaxEpochs -> 1 .. made] : KeysAre(K)
    BY <2>1 DEF VaultInv, OneEpochKey
  <2>3. ASSUME NEW e \in Edges, NEW i \in 1 .. Len(vault'[e]) PROVE SealedBy(vault'[e][i], K)
    <3>1. CASE i \in 1 .. Len(vault[e]) /\ vault'[e][i] = vault[e][i]
      BY <2>2, <3>1 DEF KeysAre
    <3>2. CASE \E j \in P : vault'[e][i] = received[j]
      BY <1>10, <2>2, <3>2 DEF KeysAre
    <3> QED
      BY <1>17, <2>3, <3>1, <3>2
  <2>4. ASSUME NEW e \in Edges, NEW n \in 1 .. MaxEpochs PROVE keyring'[e][n] \in {0, K[n]}
    <3>1. keyring[e][n] \in {0, K[n]}
      BY <2>2 DEF KeysAre
    <3>2. CASE e # d
      BY <1>20, <3>1, <3>2
    <3>3. CASE e = d /\ keys[n] = keyring[d][n]
      BY <1>20, <3>1, <3>3
    <3>4. CASE e = d /\ keys[n] # keyring[d][n]
      <4>1. PICK i \in 1 .. Len(vault'[d]) :
              /\ vault'[d][i].kind = "grant" /\ vault'[d][i].epoch = n
              /\ keys[n] = vault'[d][i].key
        BY <1>26, <3>4 DEF FromGrants
      <4>2. SealedBy(vault'[d][i], K)
        BY <2>3, <4>1
      <4> QED
        BY <1>20, <3>4, <4>1, <4>2 DEF SealedBy, IsSealed
    <3> QED
      BY <3>2, <3>3, <3>4
  <2> QED
    BY Zenon, <1>8, <2>2, <2>3, <2>4 DEF KeysAre
<1> QED
  BY <1>27, <1>28, <1>29, <1>30, <1>31, <1>32 DEF VaultInv

-----------------------------------------------------------------------------
(* The rest of a list. *)
LEMMA RestOf ==
  ASSUME NEW l, IsList(l), l # << >>, NEW t, t = Tail(l)
  PROVE  /\ IsList(t)
         /\ \A i \in 1 .. Len(l) : l[i] = Head(l) \/ \E j \in 1 .. Len(t) : t[j] = l[i]
<1>1. PICK S : l \in Seq(S)
  BY ListIn
<1>2. t \in Seq(S) /\ Len(t) = Len(l) - 1 /\ Len(l) \in Nat
  BY <1>1
<1>3. \A j \in 1 .. Len(t) : t[j] = l[j + 1]
  BY <1>1, <1>2
<1>4. ASSUME NEW i \in 1 .. Len(l) PROVE l[i] = Head(l) \/ \E j \in 1 .. Len(t) : t[j] = l[i]
  <2>1. CASE i = 1
    BY <1>1, <2>1
  <2>2. CASE i # 1
    <3>1. i - 1 \in 1 .. Len(t) /\ (i - 1) + 1 = i
      BY <1>2, <2>2
    <3> QED
      BY Zenon, <1>3, <3>1
  <2> QED
    BY <2>1, <2>2
<1> QED
  BY Zenon, <1>2, <1>4, SeqIsList

(* A decision is applied: it was recorded, or its candidate was not found. *)
LEMMA TodoTaken ==
  ASSUME NEW v, NEW w, IsList(v), IsList(w), Grown(v, w), NEW p, NEW q, NEW from,
         PullCovers(v, p, from), IsList(p.todo), p.todo # << >>,
         q.upto = p.upto, q.decided = p.decided, q.full = p.full, q.todo = Tail(p.todo),
         p.notFound => q.notFound, q.notFound \/ Recorded(w, Head(p.todo).of)
  PROVE  PullCovers(w, q, from)
<1>1. /\ \A e : Holds(v, e) => Holds(w, e)
      /\ \A c : Recorded(v, c) => Recorded(w, c)
  BY GrownHolds
<1>2. \A i \in 1 .. Len(p.todo) : \/ p.todo[i] = Head(p.todo)
                                  \/ \E j \in 1 .. Len(q.todo) : q.todo[j] = p.todo[i]
  BY SMTT(30), RestOf
<1>3. /\ q.upto \in 0 .. Len(received) /\ q.decided \in 0 .. Len(received)
      /\ \A i \in from + 1 .. Len(received) : received[i].kind # "decision" /\ i <= q.upto =>
           Holds(w, received[i])
  BY <1>1 DEF PullCovers
<1>4. ASSUME NEW i \in from + 1 .. Len(received), received[i].kind = "decision",
             i <= q.upto \/ i <= q.decided
      PROVE  \/ q.notFound \/ Recorded(w, received[i].of)
             \/ \E j \in 1 .. Len(q.todo) : q.todo[j].of = received[i].of
  <2>1. \/ p.notFound \/ Recorded(v, received[i].of)
        \/ \E j \in 1 .. Len(p.todo) : p.todo[j].of = received[i].of
    BY <1>4 DEF PullCovers
  <2>2. CASE p.notFound \/ Recorded(v, received[i].of)
    BY <1>1, <2>2
  <2>3. CASE \E j \in 1 .. Len(p.todo) : p.todo[j].of = received[i].of
    <3>1. PICK j \in 1 .. Len(p.todo) : p.todo[j].of = received[i].of
      BY <2>3
    <3>2. CASE p.todo[j] = Head(p.todo)
      BY <3>1, <3>2
    <3>3. CASE \E k \in 1 .. Len(q.todo) : q.todo[k] = p.todo[j]
      BY <3>1, <3>3
    <3> QED
      BY Zenon, <1>2, <3>2, <3>3
  <2> QED
    BY Zenon, <2>1, <2>2, <2>3
<1>5. ~q.full => \A i \in from + 1 .. Len(received) :
        received[i].kind # "decision" /\ i <= q.decided => i <= q.upto
  BY DEF PullCovers
<1> QED
  BY <1>3, <1>4, <1>5 DEF PullCovers

(* A pull of one edge goes on while the files only grow. *)
LEMMA PullGoesOn ==
  ASSUME VaultShapes, VaultShapes', CursorCovers, PullsCover, NEW d \in Edges, NEW q,
         pull' = PutAt(pull, d, q), q.on => PullCovers(vault'[d], q, cursor[d]),
         \A e \in Edges : Grown(vault[e], vault'[e]), UNCHANGED <<cursor, received, jumped>>
  PROVE  CursorCovers' /\ PullsCover'
<1>1. \A e \in Edges : IsList(vault[e]) /\ IsList(vault'[e])
  BY Zenon DEF VaultShapes
<1>2. pull'[d] = q /\ \A e \in Edges : e # d => pull'[e] = pull[e]
  BY EdgePut DEF VaultShapes
<1>3. CursorCovers'
  <2>1. ASSUME NEW e \in Edges \ jumped, NEW i \in 1 .. cursor[e]
        PROVE  Covered(vault'[e], received[i])
    <3>1. Covered(vault[e], received[i])
      BY <2>1 DEF CursorCovers
    <3> QED
      BY <1>1, <3>1, GrownHolds
  <2> QED
    BY <2>1 DEF CursorCovers
<1>4. ASSUME NEW e \in Edges, pull'[e].on PROVE PullCovers(vault[e], pull[e], cursor[e])'
  <2>1. CASE e = d
    <3>1. PullCovers(vault'[d], q, cursor[d])
      BY <1>2, <1>4, <2>1
    <3>2. PICK w : w = vault'[e]
      OBVIOUS
    <3>3. PullCovers(w, q, cursor[e])
      BY <2>1, <3>1, <3>2
    <3>4. pull'[e] = q /\ cursor'[e] = cursor[e] /\ received' = received
      BY <1>2, <2>1
    <3> QED
      BY <3>2, <3>3, <3>4 DEF PullCovers
  <2>2. CASE e # d
    <3>1. PullCovers(vault[e], pull[e], cursor[e])
      BY <1>2, <1>4, <2>2 DEF PullsCover
    <3>2. /\ \A f : Holds(vault[e], f) => Holds(vault'[e], f)
          /\ \A c : Recorded(vault[e], c) => Recorded(vault'[e], c)
      BY <1>1, GrownHolds
    <3>3. PullCovers(vault'[e], pull[e], cursor[e])
      BY <3>1, <3>2 DEF PullCovers
    <3>4. PICK w, p : w = vault'[e] /\ p = pull[e]
      OBVIOUS
    <3>5. PullCovers(w, p, cursor[e])
      BY <3>3, <3>4
    <3>6. pull'[e] = p /\ cursor'[e] = cursor[e] /\ received' = received
      BY <1>2, <2>2, <3>4
    <3> QED
      BY <3>4, <3>5, <3>6 DEF PullCovers
  <2> QED
    BY <2>1, <2>2
<1> QED
  BY <1>3, <1>4 DEF PullsCover

LEMMA VaultSame ==
  ASSUME VaultInv, UNCHANGED <<vault, epochNow, keyring, received, made, forked>>
  PROVE  GrantsHeld' /\ EpochsReached' /\ OneEpochKey'
<1>1. GrantsHeld'
  BY DEF VaultInv, GrantsHeld
<1>2. EpochsReached'
  BY DEF VaultInv, EpochsReached, Reached
<1>3. OneEpochKey'
  BY DEF VaultInv, OneEpochKey, KeysAre
<1> QED
  BY <1>1, <1>2, <1>3

LEMMA ApplyStep ==
  ASSUME VaultInv, NEW d \in Edges, ApplyDecision(d) PROVE VaultInv'
<1>1. PICK p : p = pull[d]
  OBVIOUS
<1>2. /\ p.on /\ p.todo # << >> /\ IsPull(p) /\ IsList(p.todo)
      /\ PullCovers(vault[d], p, cursor[d]) /\ IsList(vault[d]) /\ PerEdge(pull)
  BY Zenon, <1>1 DEF ApplyDecision, VaultInv, VaultShapes, PullsCover
<1>3. PICK c, rest, t : /\ c = Head(p.todo).of /\ t = Tail(p.todo)
                        /\ rest = [pull EXCEPT ![d].todo = t]
  BY Zenon
<1>4. PICK q : q = [p EXCEPT !.todo = t]
  BY Zenon
<1>5. PICK s : s = [q EXCEPT !.notFound = TRUE]
  BY Zenon
<1>6. /\ q.on /\ q.upto = p.upto /\ q.decided = p.decided /\ q.full = p.full
      /\ q.todo = t /\ q.notFound = p.notFound /\ IsPull(q)
  BY <1>2, <1>4 DEF IsPull
<1>7. /\ s.on /\ s.upto = p.upto /\ s.decided = p.decided /\ s.full = p.full
      /\ s.todo = t /\ s.notFound /\ IsPull(s)
  BY Zenon, <1>5, <1>6 DEF IsPull
<1>8. rest = PutAt(pull, d, q) /\ [rest EXCEPT ![d].notFound = TRUE] = PutAt(pull, d, s)
  <2>1. pull = [e \in Edges |-> pull[e]]
    BY <1>2 DEF PerEdge
  <2>2. rest = [e \in Edges |-> IF e = d THEN q ELSE pull[e]]
    BY Zenon, <1>1, <1>3, <1>4, <2>1
  <2>3. [rest EXCEPT ![d].notFound = TRUE] = [e \in Edges |-> IF e = d THEN s ELSE pull[e]]
    BY Zenon, <1>5, <2>2
  <2> QED
    BY Zenon, <2>1, <2>2, <2>3 DEF PutAt
<1>9. IsList(t)
  BY Zenon, <1>2, <1>3, RestOf
<1>10. UNCHANGED <<epochNow, keyring, cursor, received, jumped, forked>>
  BY DEF ApplyDecision
<1>11. \/ pull' = PutAt(pull, d, s) /\ UNCHANGED <<vault, made>>
       \/ DecidedOn(d, c) /\ pull' = PutAt(pull, d, q) /\ UNCHANGED <<vault, made>>
       \/ /\ MayWrite(d) /\ pull' = PutAt(pull, d, q)
          /\ Appends(d, <<Event(made + 1, "decided", 0, epochNow[d], keyring[d][epochNow[d]], c)>>)
  <2>1. LET cc == Head(pull[d].todo).of
            r == [pull EXCEPT ![d].todo = Tail(@)]
        IN \/ /\ pull' = [r EXCEPT ![d].notFound = TRUE] /\ UNCHANGED <<vault, made>>
           \/ DecidedOn(d, cc) /\ pull' = r /\ UNCHANGED <<vault, made>>
           \/ /\ MayWrite(d) /\ pull' = r
              /\ Appends(d, <<Event(made + 1, "decided", 0, epochNow[d],
                                    keyring[d][epochNow[d]], cc)>>)
    BY Zenon DEF ApplyDecision
  <2>2. [pull EXCEPT ![d].todo = Tail(@)] = rest
    BY <1>1, <1>3
  <2> QED
    BY Zenon, <1>1, <1>3, <1>8, <2>1, <2>2
<1>12. CASE /\ UNCHANGED <<vault, made>>
            /\ \E r \in {q, s} : pull' = PutAt(pull, d, r) /\ (r.notFound \/ Recorded(vault[d], c))
  <2>1. PICK r \in {q, s} : pull' = PutAt(pull, d, r) /\ (r.notFound \/ Recorded(vault[d], c))
    BY <1>12
  <2>2. IsPull(r) /\ r.todo = t /\ r.on /\ (p.notFound => r.notFound)
    BY <1>6, <1>7, <2>1
  <2>3. \A e \in Edges : Grown(vault[e], vault'[e])
    BY <1>12 DEF VaultInv, VaultShapes, Grown, IsList
  <2>4. VaultShapes'
    <3>1. PerEdge(pull)' /\ pull'[d] = r /\ \A e \in Edges : e # d => pull'[e] = pull[e]
      BY <1>2, <2>1, EdgePut
    <3>2. \A e \in Edges : IsPull(pull'[e]) /\ IsList(pull'[e].todo)
      BY Zenon, <1>9, <2>2, <3>1 DEF VaultInv, VaultShapes
    <3>3. PerEdge(vault)' /\ PerEdge(cursor)' /\ PerEdge(epochNow)' /\ PerEdge(keyring)'
      BY <1>10, <1>12 DEF VaultInv, VaultShapes, PerEdge
    <3> QED
      BY <1>10, <1>12, <3>1, <3>2, <3>3 DEF VaultInv, VaultShapes
  <2>5. PullCovers(vault[d], r, cursor[d])
    <3>1. Grown(vault[d], vault[d])
      BY <1>2 DEF Grown, IsList
    <3>2. r.upto = p.upto /\ r.decided = p.decided /\ r.full = p.full
      BY <1>6, <1>7, <2>1
    <3> QED
      BY <1>2, <1>3, <2>1, <2>2, <3>1, <3>2, TodoTaken
  <2>6. CursorCovers' /\ PullsCover'
    BY <1>10, <1>12, <2>1, <2>3, <2>4, <2>5, PullGoesOn DEF VaultInv
  <2>7. GrantsHeld' /\ EpochsReached' /\ OneEpochKey'
    BY <1>10, <1>12, VaultSame
  <2> QED
    BY <2>4, <2>6, <2>7 DEF VaultInv
<1>13. CASE /\ MayWrite(d) /\ pull' = PutAt(pull, d, q)
            /\ Appends(d, <<Event(made + 1, "decided", 0, epochNow[d], keyring[d][epochNow[d]], c)>>)
  <2>1. PICK e : e = Event(made + 1, "decided", 0, epochNow[d], keyring[d][epochNow[d]], c)
    OBVIOUS
  <2>2. /\ e.kind = "decided" /\ e.epoch = epochNow[d] /\ e.key = keyring[d][epochNow[d]]
        /\ e.of = c
    BY <2>1, EventIs
  <2>3. IsSealed(e) /\ ~(e.kind = "grant" /\ e.to = d)
    BY <2>2 DEF IsSealed
  <2>4. Len(<<e>>) = 1
    BY OneList
  <2>5. vault' = LongerVault(d, <<e>>) /\ made' = made + 1
    BY <1>13, <2>1, <2>4 DEF Appends, LongerVault
  <2>6. /\ PerEdge(vault)'
        /\ \A x \in Edges : /\ IsList(vault'[x]) /\ Grown(vault[x], vault'[x])
                            /\ \A i \in 1 .. Len(vault'[x]) : IsVaultEvent(vault'[x][i])
        /\ Holds(vault'[d], e) /\ GrantsHeld' /\ EpochsReached' /\ OneEpochKey'
        /\ made' \in Nat \ {0}
    BY <1>10, <1>13, <2>2, <2>3, <2>5, OneWritten
  <2>7. VaultShapes'
    <3>1. PerEdge(pull)' /\ pull'[d] = q /\ \A x \in Edges : x # d => pull'[x] = pull[x]
      BY <1>2, <1>13, EdgePut
    <3>2. \A x \in Edges : IsPull(pull'[x]) /\ IsList(pull'[x].todo)
      BY Zenon, <1>6, <1>9, <3>1 DEF VaultInv, VaultShapes
    <3>3. PerEdge(cursor)' /\ PerEdge(epochNow)' /\ PerEdge(keyring)'
      BY <1>10 DEF VaultInv, VaultShapes, PerEdge
    <3> QED
      BY <1>10, <2>6, <3>1, <3>2, <3>3 DEF VaultInv, VaultShapes
  <2>8. Recorded(vault'[d], c)
    BY <2>2, <2>6 DEF Holds, Recorded
  <2>9. PullCovers(vault'[d], q, cursor[d])
    BY <1>2, <1>3, <1>6, <2>6, <2>8, TodoTaken
  <2>10. CursorCovers' /\ PullsCover'
    BY <1>10, <1>13, <2>6, <2>7, <2>9, PullGoesOn DEF VaultInv
  <2> QED
    BY <2>6, <2>7, <2>10 DEF VaultInv
<1>14. DecidedOn(d, c) => Recorded(vault[d], c)
  <2>1. DOMAIN vault[d] = 1 .. Len(vault[d])
    BY <1>2 DEF IsList
  <2> QED
    BY <2>1 DEF DecidedOn, Recorded
<1> QED
  BY <1>7, <1>11, <1>12, <1>13, <1>14

-----------------------------------------------------------------------------
LEMMA NoPullIs == IsPull(NoPull) /\ ~NoPull.on /\ IsList(NoPull.todo)
<1>1. /\ ~NoPull.on /\ NoPull.todo = << >> /\ IsPull(NoPull)
  BY DEF NoPull, IsPull
<1>2. IsList(<< >>)
  <2>1. << >> \in Seq({})
    OBVIOUS
  <2> QED
    BY Zenon, <2>1, SeqIsList
<1> QED
  BY <1>1, <1>2

LEMMA FailStep ==
  ASSUME VaultInv, NEW d \in Edges, PullFails(d) PROVE VaultInv'
<1>1. PICK q : q = NoPull
  OBVIOUS
<1>2. pull' = PutAt(pull, d, q) /\ UNCHANGED <<vault, epochNow, keyring, cursor, received, made, jumped, forked>>
  BY <1>1 DEF PullFails, PutAt
<1>3. IsPull(q) /\ ~q.on /\ IsList(q.todo)
  BY <1>1, NoPullIs
<1>4. VaultShapes'
  <2>1. PerEdge(pull)' /\ pull'[d] = q /\ \A e \in Edges : e # d => pull'[e] = pull[e]
    BY <1>2, EdgePut DEF VaultInv, VaultShapes
  <2>2. \A e \in Edges : IsPull(pull'[e]) /\ IsList(pull'[e].todo)
    BY Zenon, <1>3, <2>1 DEF VaultInv, VaultShapes
  <2>3. PerEdge(vault)' /\ PerEdge(cursor)' /\ PerEdge(epochNow)' /\ PerEdge(keyring)'
    BY <1>2 DEF VaultInv, VaultShapes, PerEdge
  <2> QED
    BY <1>2, <2>1, <2>2, <2>3 DEF VaultInv, VaultShapes
<1>5. \A e \in Edges : Grown(vault[e], vault'[e])
  BY <1>2 DEF VaultInv, VaultShapes, Grown, IsList
<1>6. CursorCovers' /\ PullsCover'
  BY <1>2, <1>3, <1>4, <1>5, PullGoesOn DEF VaultInv
<1>7. GrantsHeld' /\ EpochsReached' /\ OneEpochKey'
  BY <1>2, VaultSame
<1> QED
  BY <1>4, <1>6, <1>7 DEF VaultInv

(* The new cursor: what was fetched, or the old one. *)
LEMMA CursorIs ==
  ASSUME VaultInv, NEW d \in Edges, pull[d].on, NEW k, k = NewCursor(d)
  PROVE  /\ k \in 0 .. Len(received)
         /\ \/ k = cursor[d]
            \/ k = pull[d].upto /\ (~pull[d].notFound => pull[d].decided <= k)
            \/ ~pull[d].notFound /\ k = pull[d].decided /\ pull[d].upto <= k
<1>1. /\ Len(received) \in Nat /\ cursor[d] \in 0 .. Len(received)
      /\ pull[d].upto \in 0 .. Len(received) /\ pull[d].decided \in 0 .. Len(received)
  BY Zenon DEF VaultInv, VaultShapes, IsList, PullsCover, PullCovers
<1>2. PICK T : T = {pull[d].upto} \cup (IF pull[d].notFound THEN {} ELSE {pull[d].decided})
  BY Zenon
<1>3. T \in SUBSET (0 .. Len(received))
  BY <1>1, <1>2
<1>4. PICK m : m = At0(T)
  OBVIOUS
<1>5. m \in T \cup {0} /\ m \in 0 .. Len(received) /\ \A j \in T : j <= m
  BY Zenon, <1>1, <1>3, <1>4, At0Is
<1>6. k = IF m = 0 THEN cursor[d] ELSE m
  BY <1>2, <1>4 DEF NewCursor
<1>7. CASE m = 0
  <2>1. k = cursor[d]
    BY <1>6, <1>7
  <2>2. cursor[d] \in 0 .. Len(received)
    BY <1>1
  <2> QED
    BY <2>1, <2>2, Zenon
<1>8. CASE m # 0
  <2>1. m \in T /\ k = m
    BY <1>5, <1>6, <1>8
  <2> QED
    BY <1>1, <1>2, <1>5, <2>1
<1> QED
  BY <1>7, <1>8

LEMMA EndsStep ==
  ASSUME VaultInv, NEW d \in Edges, PullEnds(d) PROVE VaultInv'
<1>1. PICK p, q, k : p = pull[d] /\ q = NoPull /\ k = NewCursor(d)
  OBVIOUS
<1>2. /\ p.on /\ p.todo = << >> /\ cursor' = PutAt(cursor, d, k) /\ pull' = PutAt(pull, d, q)
      /\ UNCHANGED <<vault, epochNow, keyring, received, made, forked>>
  BY <1>1 DEF PullEnds, PutAt
<1>3. /\ jumped \subseteq jumped'
      /\ d \notin jumped' => /\ ~(p.notFound /\ p.upto > 0)
                             /\ ~(~p.notFound /\ p.full /\ p.decided > p.upto)
  BY <1>1 DEF PullEnds
<1>4. IsPull(q) /\ ~q.on /\ IsList(q.todo)
  BY <1>1, NoPullIs
<1>5. /\ PerEdge(pull)' /\ pull'[d] = q /\ \A e \in Edges : e # d => pull'[e] = pull[e]
  BY <1>2, EdgePut DEF VaultInv, VaultShapes
<1>6. /\ PerEdge(cursor)' /\ cursor'[d] = k /\ \A e \in Edges : e # d => cursor'[e] = cursor[e]
  BY <1>2, EdgePut DEF VaultInv, VaultShapes
<1>7. /\ k \in 0 .. Len(received)
      /\ \/ k = cursor[d]
         \/ k = p.upto /\ (~p.notFound => p.decided <= k)
         \/ ~p.notFound /\ k = p.decided /\ p.upto <= k
  BY <1>1, <1>2, CursorIs
<1>8. /\ PullCovers(vault[d], p, cursor[d])
      /\ Len(received) \in Nat /\ cursor[d] \in 0 .. Len(received)
  BY Zenon, <1>1, <1>2 DEF VaultInv, VaultShapes, IsList, PullsCover
<1>9. VaultShapes'
  <2>1. \A e \in Edges : IsPull(pull'[e]) /\ IsList(pull'[e].todo)
    BY Zenon, <1>4, <1>5 DEF VaultInv, VaultShapes
  <2>2. \A e \in Edges : cursor'[e] \in 0 .. Len(received')
    <3>1. \A e \in Edges : cursor[e] \in 0 .. Len(received)
      BY Zenon DEF VaultInv, VaultShapes
    <3> QED
      BY <1>2, <1>6, <1>7, <3>1
  <2>3. PerEdge(vault)' /\ PerEdge(epochNow)' /\ PerEdge(keyring)'
    BY <1>2 DEF VaultInv, VaultShapes, PerEdge
  <2> QED
    BY <1>2, <1>5, <1>6, <2>1, <2>2, <2>3 DEF VaultInv, VaultShapes
<1>10. CursorCovers'
  <2>1. ASSUME d \notin jumped', NEW i \in 1 .. k PROVE Covered(vault[d], received[i])
    <3>1. CASE i <= cursor[d]
      <4>1. i \in 1 .. cursor[d]
        BY <1>7, <1>8, <3>1
      <4>2. d \in Edges \ jumped
        BY <1>3, <2>1
      <4> QED
        BY <4>1, <4>2 DEF VaultInv, CursorCovers
    <3>2. CASE i > cursor[d]
      <4>1. /\ i \in cursor[d] + 1 .. Len(received) /\ i <= k /\ i > 0 /\ i \in Nat
            /\ p.upto \in Nat /\ p.decided \in Nat /\ k # cursor[d] /\ k \in Nat
        <5>1. p.upto \in 0 .. Len(received) /\ p.decided \in 0 .. Len(received)
          BY <1>8 DEF PullCovers
        <5> QED
          BY <1>7, <1>8, <3>2, <5>1
      <4>2. ~p.notFound /\ (p.full => p.decided <= p.upto)
        BY <1>3, <1>7, <2>1, <4>1
      <4>3. CASE received[i].kind = "decision"
        <5>1. i <= p.upto \/ i <= p.decided
          BY <1>7, <4>1
        <5>2. Len(p.todo) = 0
          BY <1>2
        <5>3. Recorded(vault[d], received[i].of)
          BY <1>8, <4>1, <4>2, <4>3, <5>1, <5>2 DEF PullCovers
        <5> QED
          BY <4>3, <5>3 DEF Covered
      <4>4. CASE received[i].kind # "decision"
        <5>1. i <= p.upto
          <6>1. CASE p.decided <= p.upto
            BY <1>7, <4>1, <6>1
          <6>2. CASE p.decided > p.upto
            <7>1. ~p.full
              BY <4>1, <4>2, <6>2
            <7>2. i <= p.decided
              BY <1>7, <4>1, <6>2
            <7> QED
              BY <1>8, <4>1, <4>4, <7>1, <7>2 DEF PullCovers
          <6> QED
            BY <4>1, <6>1, <6>2
        <5>2. Holds(vault[d], received[i])
          BY <1>8, <4>1, <4>4, <5>1 DEF PullCovers
        <5> QED
          BY <4>4, <5>2 DEF Covered
      <4> QED
        BY <4>3, <4>4
    <3> QED
      BY <1>8, <2>1, <3>1, <3>2
  <2>2. ASSUME NEW e \in Edges \ jumped', NEW i \in 1 .. cursor'[e]
        PROVE  Covered(vault[e], received[i])
    <3>1. CASE e = d
      BY <1>6, <2>1, <2>2, <3>1
    <3>2. CASE e # d
      <4>1. e \in Edges \ jumped /\ i \in 1 .. cursor[e]
        BY <1>3, <1>6, <2>2, <3>2
      <4> QED
        BY <4>1 DEF VaultInv, CursorCovers
    <3> QED
      BY <3>1, <3>2
  <2> QED
    BY <1>2, <2>2 DEF CursorCovers
<1>11. PullsCover'
  <2>1. ASSUME NEW e \in Edges, pull'[e].on PROVE PullCovers(vault[e], pull[e], cursor[e])'
    <3>1. e # d
      BY <1>4, <1>5, <2>1
    <3>2. pull'[e] = pull[e] /\ cursor'[e] = cursor[e]
      BY <1>5, <1>6, <3>1
    <3>3. PullCovers(vault[e], pull[e], cursor[e])
      BY <2>1, <3>2 DEF VaultInv, PullsCover
    <3>4. PICK r, m : r = pull[e] /\ m = cursor[e]
      OBVIOUS
    <3>5. PullCovers(vault[e], r, m) /\ pull'[e] = r /\ cursor'[e] = m
      BY <3>2, <3>3, <3>4
    <3> QED
      BY <1>2, <3>5 DEF PullCovers
  <2> QED
    BY <2>1 DEF PullsCover
<1>12. GrantsHeld' /\ EpochsReached' /\ OneEpochKey'
  BY <1>2, VaultSame
<1> QED
  BY <1>9, <1>10, <1>11, <1>12 DEF VaultInv

-----------------------------------------------------------------------------
LEMMA VaultInitially == ASSUME VaultInit PROVE VaultInv
<1>1. PICK g : g = <<Event(1, "grant", Owner, 1, 1, 0)>>
  BY Zenon
<1>2. PICK e : e = Event(1, "grant", Owner, 1, 1, 0)
  OBVIOUS
<1>3. e.kind = "grant" /\ e.to = Owner /\ e.epoch = 1 /\ e.key = 1
  BY <1>2, EventIs
<1>4. 1 \in 1 .. MaxEpochs /\ Owner \in Edges /\ MaxEpochs \in Nat
  BY VaultBounds
<1>5. IsVaultEvent(e)
  BY <1>3, <1>4 DEF IsVaultEvent, IsSealed
<1>6. IsList(g) /\ Len(g) = 1 /\ g[1] = e
  BY <1>1, <1>2, OneList
<1>7. PICK none : none = << >>
  OBVIOUS
<1>8. IsList(none) /\ Len(none) = 0
  <2>1. << >> \in Seq({})
    OBVIOUS
  <2> QED
    BY Zenon, <1>7, <2>1, SeqIsList
<1>9. vault = [d \in Edges |-> IF d = Owner THEN g ELSE none]
  BY <1>1, <1>7 DEF VaultInit
<1>10. \A d \in Edges : vault[d] = IF d = Owner THEN g ELSE none
  BY <1>9
<1>11. ASSUME NEW d \in Edges
       PROVE  /\ IsList(vault[d])
              /\ \A i \in 1 .. Len(vault[d]) : d = Owner /\ vault[d][i] = e
  BY <1>6, <1>8, <1>10
<1>12. PICK idle : idle = NoPull
  OBVIOUS
<1>13. IsPull(idle) /\ ~idle.on /\ IsList(idle.todo)
  BY <1>12, NoPullIs
<1>14. /\ epochNow = [d \in Edges |-> IF d = Owner THEN 1 ELSE 0]
       /\ keyring = [d \in Edges |-> [n \in 1 .. MaxEpochs |-> IF d = Owner /\ n = 1 THEN 1 ELSE 0]]
       /\ cursor = [d \in Edges |-> 0] /\ pull = [d \in Edges |-> idle] /\ received = none
       /\ made = 1 /\ jumped = {} /\ forked = FALSE
  BY <1>7, <1>12 DEF VaultInit
<1>15. \A d \in Edges :
         /\ epochNow[d] = (IF d = Owner THEN 1 ELSE 0) /\ cursor[d] = 0 /\ pull[d] = idle
         /\ keyring[d] = [n \in 1 .. MaxEpochs |-> IF d = Owner /\ n = 1 THEN 1 ELSE 0]
  BY <1>14
<1>16. \A d \in Edges : \A n \in 1 .. MaxEpochs :
         keyring[d][n] = IF d = Owner /\ n = 1 THEN 1 ELSE 0
  BY Zenon, <1>15
<1>17. VaultShapes
  <2>1. PerEdge(vault) /\ PerEdge(pull) /\ PerEdge(cursor) /\ PerEdge(epochNow) /\ PerEdge(keyring)
    BY <1>9, <1>14 DEF PerEdge
  <2>2. \A d \in Edges : /\ IsList(vault[d])
                         /\ \A i \in 1 .. Len(vault[d]) : IsVaultEvent(vault[d][i])
    BY <1>5, <1>11
  <2>3. \A d \in Edges : epochNow[d] \in 0 .. MaxEpochs /\ cursor[d] \in 0 .. Len(received)
    BY <1>4, <1>8, <1>14, <1>15
  <2>4. \A d \in Edges : keyring[d] = [n \in 1 .. MaxEpochs |-> keyring[d][n]]
    BY <1>15, <1>16
  <2>5. \A d \in Edges : IsPull(pull[d]) /\ IsList(pull[d].todo)
    BY Zenon, <1>13, <1>15
  <2> QED
    BY <1>8, <1>14, <2>1, <2>2, <2>3, <2>4, <2>5 DEF VaultShapes
<1>18. CursorCovers /\ PullsCover
  <2>1. \A d \in Edges : cursor[d] = 0 /\ pull[d] = idle
    BY Zenon, <1>15
  <2>2. CursorCovers
    BY <2>1 DEF CursorCovers
  <2>3. PullsCover
    BY <1>13, <2>1 DEF PullsCover
  <2> QED
    BY <2>2, <2>3
<1>19. GrantsHeld
  BY <1>3, <1>4, <1>11, <1>16 DEF GrantsHeld
<1>20. EpochsReached
  <2>1. Reached(1)
    <3>1. epochNow[Owner] = 1
      BY Zenon, <1>4, <1>15
    <3>2. epochNow[Owner] >= 1
      BY <3>1
    <3> QED
      BY <1>4, <3>2 DEF Reached
  <2> QED
    BY <1>3, <1>8, <1>11, <1>14, <2>1 DEF EpochsReached
<1>21. OneEpochKey
  <2>1. PICK K : K = [n \in 1 .. MaxEpochs |-> 1]
    BY Zenon
  <2>2. K \in [1 .. MaxEpochs -> 1 .. made] /\ \A n \in 1 .. MaxEpochs : K[n] = 1
    BY <1>14, <2>1
  <2>3. KeysAre(K)
    BY <1>3, <1>4, <1>8, <1>11, <1>14, <1>16, <2>2 DEF KeysAre, SealedBy
  <2> QED
    BY <2>2, <2>3 DEF OneEpochKey
<1> QED
  BY <1>17, <1>18, <1>19, <1>20, <1>21 DEF VaultInv

LEMMA VaultStutters ==
  ASSUME VaultInv, UNCHANGED vaultVars PROVE VaultInv'
<1>1. /\ UNCHANGED <<vault, epochNow, keyring, received, made, forked>>
      /\ UNCHANGED <<cursor, pull, jumped>>
  BY DEF vaultVars
<1>2. VaultShapes'
  BY <1>1 DEF VaultInv, VaultShapes, PerEdge
<1>3. CursorCovers'
  BY <1>1 DEF VaultInv, CursorCovers
<1>4. PullsCover'
  BY <1>1 DEF VaultInv, PullsCover, PullCovers
<1>5. GrantsHeld' /\ EpochsReached' /\ OneEpochKey'
  BY <1>1, VaultSame
<1> QED
  BY <1>2, <1>3, <1>4, <1>5 DEF VaultInv

LEMMA VaultSteps == ASSUME VaultInv, [VaultNext]_vaultVars PROVE VaultInv'
<1>1. CASE UNCHANGED vaultVars
  BY <1>1, VaultStutters
<1>2. ASSUME NEW d \in Edges, WriteEntry(d) PROVE VaultInv'
  BY <1>2, EntryStep
<1>3. ASSUME NEW d \in Edges, PushEvents(d) PROVE VaultInv'
  BY <1>3, PushStep
<1>4. ASSUME NEW d \in Edges, PullEvents(d) PROVE VaultInv'
  BY <1>4, PullsStep
<1>5. ASSUME NEW d \in Edges, ApplyDecision(d) PROVE VaultInv'
  BY <1>5, ApplyStep
<1>6. ASSUME NEW d \in Edges, PullEnds(d) PROVE VaultInv'
  BY <1>6, EndsStep
<1>7. ASSUME NEW d \in Edges, PullFails(d) PROVE VaultInv'
  BY <1>7, FailStep
<1>8. ASSUME NEW d \in Edges, NEW m \in Edges \ {d}, GrantMember(d, m) PROVE VaultInv'
  BY <1>8, MemberStep
<1>9. ASSUME NEW d \in Edges, NEW m \in Edges \ {d}, RevokeMember(d, m) PROVE VaultInv'
  BY <1>9, RevokesStep
<1>10. ASSUME NEW i, DecideCandidate(i) PROVE VaultInv'
  BY <1>10, DecideStep
<1> QED
  BY <1>1, <1>2, <1>3, <1>4, <1>5, <1>6, <1>7, <1>8, <1>9, <1>10 DEF VaultNext

LEMMA VaultKept == ASSUME VaultInv PROVE VaultComplete
<1>1. /\ DOMAIN received = 1 .. Len(received)
      /\ \A d \in Edges : DOMAIN vault[d] = 1 .. Len(vault[d])
  BY DEF VaultInv, VaultShapes, IsList
<1>2. ASSUME NEW d \in Edges \ jumped, NEW i \in 1 .. cursor[d]
      PROVE  IF received[i].kind = "decision"
             THEN \E j \in DOMAIN vault[d] : /\ vault[d][j].kind = "decided"
                                             /\ vault[d][j].of = received[i].of
             ELSE Has(vault[d], received[i])
  <2>1. Covered(vault[d], received[i])
    BY <1>2 DEF VaultInv, CursorCovers
  <2> QED
    BY <1>1, <2>1 DEF Covered, Recorded, Holds, Has
<1>3. ASSUME ~forked, NEW d \in Edges, NEW i \in DOMAIN vault[d],
             vault[d][i].kind \in {"candidate", "decided"},
             NEW j \in DOMAIN vault[d], vault[d][j].kind = "grant", vault[d][j].to = d,
             vault[d][j].epoch = vault[d][i].epoch
      PROVE  Readable(d, vault[d][i])
  <2>1. PICK K \in [1 .. MaxEpochs -> 1 .. made] : KeysAre(K)
    BY <1>3 DEF VaultInv, OneEpochKey
  <2>2. PICK n : n = vault[d][i].epoch
    OBVIOUS
  <2>3. /\ IsSealed(vault[d][i]) /\ n \in 1 .. MaxEpochs /\ vault[d][i].key # 0
    BY Zenon, <1>1, <1>3, <2>2 DEF VaultInv, VaultShapes, IsVaultEvent, IsSealed
  <2>4. vault[d][i].key = K[n]
    BY Zenon, <1>1, <1>3, <2>1, <2>2, <2>3 DEF KeysAre, SealedBy
  <2>5. keyring[d][n] # 0
    BY <1>1, <1>3, <2>2 DEF VaultInv, GrantsHeld
  <2>6. keyring[d][n] = K[n]
    BY <2>1, <2>3, <2>5 DEF KeysAre
  <2> QED
    BY <2>2, <2>3, <2>4, <2>6 DEF Readable
<1> QED
  BY <1>2, <1>3 DEF VaultComplete

(* An edge has what the platform received up to its cursor and reads what was
   written under the epochs it was granted (VaultComplete of ContextVault),
   for any number of edges, any page limit, and whatever pulls fail, stop or
   are repeated in between. *)
THEOREM VaultIsComplete == VaultInit /\ [][VaultNext]_vaultVars => []VaultComplete
<1> QED
  BY VaultInitially, VaultSteps, VaultKept, PTL

-----------------------------------------------------------------------------
(* The stores together *)

(* What the files promise, they promise in the run of all the stores, where a
   store leaves the variables of the others alone: one worker holds the lock,
   an action is done once, what is published was reviewed, and an offer pairs
   one peer (the properties of MCStores' run). *)
THEOREM FilesKeepTheirPromises ==
  StoresSpec => [](LockExclusive /\ ActionOnce /\ ReviewHolds /\ OfferRedeemedOnce)
<1>1. StoresInit => LockInit /\ ActionInit /\ PublishInit /\ PairingInit
  BY DEF StoresInit
<1>2. [StoresNext]_storesVars =>
        /\ [LockNext]_lockVars /\ [ActionNext]_actionVars
        /\ [PublishNext]_publishVars /\ [PairingNext]_pairingVars
  <2>1. UNCHANGED storesVars =>
          UNCHANGED lockVars /\ UNCHANGED actionVars /\ UNCHANGED publishVars /\ UNCHANGED pairingVars
    BY DEF storesVars
  <2>2. ASSUME NEW s, Only(s)
        PROVE  /\ s # "lock" => UNCHANGED lockVars
               /\ s # "ledger" => UNCHANGED actionVars
               /\ s # "publish" => UNCHANGED publishVars
               /\ s # "pairing" => UNCHANGED pairingVars
    BY <2>2 DEF Only, Rests
  <2> QED
    BY <2>1, <2>2 DEF StoresNext
<1> QED
  BY <1>1, <1>2, LockIsExclusive, ActionsHappenOnce, PublishedIsReviewed, OffersPairOnce, PTL
  DEF StoresSpec, LockSpec, ActionSpec, PublishSpec

(* An edge's copy of a context repository is complete and readable
   (VaultComplete of ContextVault), in the run of all the stores. *)
THEOREM VaultStaysComplete == StoresSpec => []VaultComplete
<1>1. StoresInit => VaultInit
  BY DEF StoresInit
<1>2. [StoresNext]_storesVars => [VaultNext]_vaultVars
  <2>1. UNCHANGED storesVars => UNCHANGED vaultVars
    BY DEF storesVars
  <2>2. ASSUME NEW s, Only(s) PROVE s # "vault" => UNCHANGED vaultVars
    BY <2>2 DEF Only, Rests
  <2> QED
    BY <2>1, <2>2 DEF StoresNext
<1> QED
  BY <1>1, <1>2, VaultIsComplete, PTL DEF StoresSpec

(* The journal tells the updates as they were (JournalFaithful of Replay), in
   the run of all the stores. *)
THEOREM JournalStaysFaithful == StoresSpec => []JournalFaithful
<1>1. StoresInit => Init
  BY DEF StoresInit
<1>2. [StoresNext]_storesVars => [Next]_vars
  <2>1. UNCHANGED storesVars => UNCHANGED vars
    BY DEF storesVars
  <2>2. ASSUME NEW s, Only(s) PROVE s # "journal" => UNCHANGED vars
    BY <2>2 DEF Only, Rests
  <2> QED
    BY <2>1, <2>2 DEF StoresNext
<1> QED
  BY <1>1, <1>2, JournalIsFaithful, PTL DEF StoresSpec, Spec
=============================================================================
