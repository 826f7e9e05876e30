--------------------------- MODULE SharingProofs ----------------------------
(***************************************************************************)
(* Proofs about the keys that edges hold and share: the epochs of a user   *)
(* and of a team, how their keys reach other devices and members, and the  *)
(* keys of proposed plans; and about what the clients of the daemon's      *)
(* server are answered and sent.                                           *)
(***************************************************************************)
EXTENDS MCSharing, Selections

-----------------------------------------------------------------------------
(* Epochs made by two processes that share a file *)

Unstored(p) == op[p].pc \in {"accepted", "storing"}
ActiveIn(records) == {e \in records : e.active}
LocalEpochs == [epoch : Nat, key : Nat, active : BOOLEAN]

(* The shapes of the file, of what was read of it, and of an operation. *)
EpochShapes ==
  /\ epochFile \in [Subjects -> SUBSET LocalEpochs]
  /\ platformEpoch \in [Subjects -> [epoch : Nat, key : Nat]]
  /\ DOMAIN op = EpochProcs /\ keysMade \in Nat /\ lostKeys \subseteq Subjects
  /\ \A p \in EpochProcs :
       /\ op[p] = [pc |-> op[p].pc, s |-> op[p].s, epoch |-> op[p].epoch, key |-> op[p].key,
                   prev |-> op[p].prev, snap |-> op[p].snap]
       /\ op[p].pc \in {"idle", "posting", "accepted", "storing"}
       /\ op[p].pc # "idle" =>
            /\ op[p].s \in Subjects /\ op[p].epoch \in Nat \ {0}
            /\ op[p].key \in 1 .. keysMade /\ op[p].prev \in 0 .. keysMade
       /\ op[p].pc = "storing" => op[p].snap \in [Subjects -> SUBSET LocalEpochs]

(* The file, and every copy of it, has one active epoch of a subject at most. *)
OneActive(files) == \A s \in Subjects : \A e, f \in ActiveIn(files[s]) : e = f

(* No record of the files has a key; all keys in them were made. *)
Free(files, key) == \A s \in Subjects : \A e \in files[s] : e.key # key
KeysUpTo(files, n) == \A s \in Subjects : \A e \in files[s] : e.key \in 1 .. n

(* The key an operation has made is its own, and is in the file only once the
   operation is over. *)
OwnKey(p) ==
  /\ \A q \in EpochProcs \ {p} : op[q].pc # "idle" => op[q].key # op[p].key
  /\ \A q \in EpochProcs : op[q].pc # "idle" => op[q].prev # op[p].key
  /\ Free(epochFile, op[p].key)
  /\ \A q \in EpochProcs : op[q].pc = "storing" => Free(op[q].snap, op[p].key)

(* The key the platform accepted is that of the operation that has yet to store
   it, or else the active one in the file. *)
AcceptedIsKept ==
  \A s \in Subjects :
    /\ \A p \in EpochProcs : Unstored(p) /\ op[p].s = s =>
         platformEpoch[s] = [epoch |-> op[p].epoch, key |-> op[p].key]
    /\ s \notin lostKeys /\ (\A p \in EpochProcs : op[p].s = s => ~Unstored(p)) =>
         IF platformEpoch[s].epoch = 0 THEN ActiveIn(epochFile[s]) = {}
         ELSE ActiveIn(epochFile[s]) = {[epoch |-> platformEpoch[s].epoch,
                                         key |-> platformEpoch[s].key, active |-> TRUE]}

EpochInv ==
  /\ EpochShapes /\ OneActive(epochFile) /\ AcceptedIsKept /\ KeysUpTo(epochFile, keysMade)
  /\ \A p \in EpochProcs :
       /\ op[p].pc # "idle" => OwnKey(p)
       /\ op[p].pc = "storing" => OneActive(op[p].snap) /\ KeysUpTo(op[p].snap, keysMade)

(* Nothing is active and nothing accepted at first. *)
LEMMA EpochsStart == EpochInit => EpochInv
<1> SUFFICES ASSUME EpochInit PROVE EpochInv
  OBVIOUS
<1>1. EpochShapes
  BY DEF EpochInit, EpochShapes, NoOp
<1>2. \A p \in EpochProcs : op[p].pc = "idle"
  BY DEF EpochInit, NoOp
<1>3. \A s \in Subjects : epochFile[s] = {} /\ platformEpoch[s].epoch = 0
  BY DEF EpochInit
<1>4. AcceptedIsKept
  BY <1>2, <1>3 DEF AcceptedIsKept, ActiveIn, Unstored
<1>5. OneActive(epochFile) /\ KeysUpTo(epochFile, keysMade)
  BY <1>3 DEF OneActive, ActiveIn, KeysUpTo
<1> QED
  BY <1>1, <1>2, <1>4, <1>5 DEF EpochInv

(* A step that ends an operation, whatever it leaves for lost, and one that
   only tells its process how far it is, keep the rest. *)
LEMMA EpochsEnd ==
  ASSUME EpochInv, NEW p \in EpochProcs, op[p].pc # "idle", op' = [op EXCEPT ![p] = NoOp],
         UNCHANGED <<epochFile, platformEpoch, keysMade>>, lostKeys \subseteq lostKeys',
         lostKeys' \subseteq Subjects,
         op[p].pc # "posting" => op[p].s \in lostKeys'
  PROVE  EpochInv'
<1>1. /\ op'[p].pc = "idle" /\ \A q \in EpochProcs \ {p} : op'[q] = op[q]
      /\ \A q \in EpochProcs : op'[q].pc # "idle" => q # p /\ op'[q] = op[q]
      /\ DOMAIN op' = EpochProcs /\ op'[p] = NoOp
  BY DEF EpochInv, EpochShapes, NoOp
<1>2. EpochShapes'
  BY <1>1 DEF EpochInv, EpochShapes, NoOp
<1>3. AcceptedIsKept'
  <2>1. ASSUME NEW s \in Subjects, NEW q \in EpochProcs, Unstored(q)', op'[q].s = s
        PROVE  platformEpoch'[s] = [epoch |-> op'[q].epoch, key |-> op'[q].key]
    BY <1>1, <2>1 DEF EpochInv, AcceptedIsKept, Unstored
  <2>2. ASSUME NEW s \in Subjects, s \notin lostKeys',
               \A q \in EpochProcs : op'[q].s = s => ~Unstored(q)'
        PROVE  s \notin lostKeys /\ \A q \in EpochProcs : op[q].s = s => ~Unstored(q)
    BY <1>1, <2>2 DEF Unstored
  <2> QED
    BY <2>1, <2>2 DEF EpochInv, AcceptedIsKept
<1>4. ASSUME NEW q \in EpochProcs, op'[q].pc # "idle" PROVE OwnKey(q)'
  <2>1. OwnKey(q) /\ op'[q] = op[q]
    BY <1>1, <1>4 DEF EpochInv
  <2> QED
    BY <1>1, <1>4, <2>1 DEF OwnKey, Free
<1> QED
  BY <1>1, <1>2, <1>3, <1>4 DEF EpochInv, OneActive, ActiveIn, KeysUpTo

(* A key pair is made and its public half posted. *)
LEMMA EpochsPost ==
  ASSUME EpochInv, NEW p \in EpochProcs, NEW s \in Subjects, NEW n \in Nat \ {0},
         NEW prev \in 0 .. keysMade, Posting(p, s, n, prev),
         \A q \in EpochProcs : op[q].pc # "idle" => prev # op[q].key
  PROVE  EpochInv'
<1>1. /\ DOMAIN op' = EpochProcs /\ keysMade \in Nat /\ keysMade' = keysMade + 1
      /\ op'[p] = [pc |-> "posting", s |-> s, epoch |-> n, key |-> keysMade + 1, prev |-> prev,
                   snap |-> << >>]
      /\ \A q \in EpochProcs \ {p} : op'[q] = op[q]
      /\ op[p].pc = "idle"
      /\ UNCHANGED <<epochFile, platformEpoch, lostKeys>>
  BY DEF EpochInv, EpochShapes, Posting
<1>2. /\ op'[p].pc = "posting" /\ op'[p].s = s /\ op'[p].epoch = n /\ op'[p].key = keysMade + 1
      /\ op'[p].prev = prev
  BY <1>1
<1>3. EpochShapes'
  <2>1. ASSUME NEW q \in EpochProcs
        PROVE  /\ op'[q] = [pc |-> op'[q].pc, s |-> op'[q].s, epoch |-> op'[q].epoch,
                            key |-> op'[q].key, prev |-> op'[q].prev, snap |-> op'[q].snap]
               /\ op'[q].pc \in {"idle", "posting", "accepted", "storing"}
               /\ op'[q].pc = "storing" => op'[q].snap \in [Subjects -> SUBSET LocalEpochs]
    BY <1>1, <1>2 DEF EpochInv, EpochShapes
  <2>2. ASSUME NEW q \in EpochProcs, op'[q].pc # "idle"
        PROVE  /\ op'[q].s \in Subjects /\ op'[q].epoch \in Nat \ {0}
               /\ op'[q].key \in 1 .. keysMade' /\ op'[q].prev \in 0 .. keysMade'
    <3>1. CASE q = p
      BY <1>1, <1>2, <3>1
    <3>2. CASE q # p
      <4>1. op'[q] = op[q] /\ op[q].s \in Subjects /\ op[q].epoch \in Nat \ {0}
        BY <1>1, <2>2, <3>2 DEF EpochInv, EpochShapes
      <4>2. op[q].key \in 1 .. keysMade /\ op[q].prev \in 0 .. keysMade
        BY <1>1, <2>2, <3>2 DEF EpochInv, EpochShapes
      <4> QED
        BY <1>1, <4>1, <4>2
    <3> QED
      BY <3>1, <3>2
  <2> QED
    BY <1>1, <2>1, <2>2 DEF EpochInv, EpochShapes
<1>4. AcceptedIsKept'
  <2>1. \A q \in EpochProcs : Unstored(q)' => Unstored(q) /\ op'[q] = op[q]
    BY <1>1, <1>2 DEF Unstored
  <2>2. \A q \in EpochProcs : Unstored(q) => Unstored(q)' /\ op'[q] = op[q]
    BY <1>1, <1>2 DEF Unstored
  <2> QED
    BY <1>1, <2>1, <2>2 DEF EpochInv, AcceptedIsKept
<1>5. ASSUME NEW q \in EpochProcs, op'[q].pc # "idle" PROVE OwnKey(q)'
  <2>1. CASE q = p
    <3>1. \A r \in EpochProcs \ {p} :
             op'[r].pc # "idle" => op'[r].key # keysMade + 1 /\ op'[r].prev # keysMade + 1
      BY <1>1 DEF EpochInv, EpochShapes
    <3>2. prev # keysMade + 1
      BY <1>1
    <3>3. Free(epochFile, keysMade + 1)
      BY <1>1 DEF EpochInv, KeysUpTo, Free
    <3>4. \A r \in EpochProcs \ {p} : op'[r].pc = "storing" => Free(op'[r].snap, keysMade + 1)
      BY <1>1 DEF EpochInv, KeysUpTo, Free
    <3> QED
      BY <1>1, <1>2, <2>1, <3>1, <3>2, <3>3, <3>4 DEF OwnKey, Free
  <2>2. CASE q # p
    <3>1. OwnKey(q) /\ op'[q] = op[q] /\ op[q].pc # "idle" /\ op[q].key # keysMade + 1
      BY <1>1, <1>5, <2>2 DEF EpochInv, EpochShapes
    <3> QED
      BY <1>1, <1>2, <2>2, <3>1 DEF OwnKey, Free
  <2> QED
    BY <2>1, <2>2
<1>6. OneActive(epochFile)' /\ KeysUpTo(epochFile, keysMade)'
  BY <1>1 DEF EpochInv, OneActive, ActiveIn, KeysUpTo
<1>7. ASSUME NEW q \in EpochProcs, op'[q].pc = "storing"
      PROVE  OneActive(op[q].snap)' /\ KeysUpTo(op[q].snap, keysMade)'
  <2>1. op'[q] = op[q] /\ OneActive(op[q].snap) /\ KeysUpTo(op[q].snap, keysMade)
    BY <1>1, <1>2, <1>7 DEF EpochInv
  <2> QED
    BY <1>1, <2>1 DEF OneActive, ActiveIn, KeysUpTo
<1> QED
  BY <1>3, <1>4, <1>5, <1>6, <1>7 DEF EpochInv

(* The platform takes the successor of the epoch it has: then no operation on
   that subject was between the platform's answer and the file, for its key
   would be the one this operation signed with. *)
LEMMA EpochsAccept ==
  ASSUME EpochInv, NEW p \in EpochProcs, PlatformAccepts(p)
  PROVE  EpochInv'
<1> DEFINE t == op[p].s
<1>1. /\ DOMAIN op' = EpochProcs /\ op[p].pc = "posting" /\ t \in Subjects
      /\ op'[p] = [op[p] EXCEPT !.pc = "accepted"]
      /\ \A q \in EpochProcs \ {p} : op'[q] = op[q]
      /\ UNCHANGED <<epochFile, keysMade, lostKeys>>
      /\ platformEpoch \in [Subjects -> [epoch : Nat, key : Nat]]
      /\ platformEpoch' = [platformEpoch EXCEPT ![t] = [epoch |-> op[p].epoch, key |-> op[p].key]]
      /\ op[p].prev = platformEpoch[t].key
  BY DEF EpochInv, EpochShapes, PlatformAccepts, Acceptable
<1>2. op'[p] = [pc |-> "accepted", s |-> t, epoch |-> op[p].epoch, key |-> op[p].key,
                prev |-> op[p].prev, snap |-> op[p].snap]
  BY <1>1 DEF EpochInv, EpochShapes
<1>3. /\ op'[p].pc = "accepted" /\ op'[p].s = t /\ op'[p].epoch = op[p].epoch
      /\ op'[p].key = op[p].key /\ op'[p].prev = op[p].prev /\ op'[p].snap = op[p].snap
  BY <1>2
<1>4. /\ platformEpoch'[t] = [epoch |-> op[p].epoch, key |-> op[p].key]
      /\ \A s \in Subjects \ {t} : platformEpoch'[s] = platformEpoch[s]
  BY <1>1
<1>5. EpochShapes'
  <2>1. op[p].epoch \in Nat /\ op[p].key \in Nat
    BY <1>1 DEF EpochInv, EpochShapes
  <2>2. platformEpoch' \in [Subjects -> [epoch : Nat, key : Nat]]
    BY <1>1, <2>1
  <2>3. \A q \in EpochProcs :
          op'[q] = [pc |-> op'[q].pc, s |-> op'[q].s, epoch |-> op'[q].epoch,
                    key |-> op'[q].key, prev |-> op'[q].prev, snap |-> op'[q].snap]
    BY <1>1, <1>2, <1>3 DEF EpochInv, EpochShapes
  <2>4. \A q \in EpochProcs :
          /\ op'[q].pc \in {"idle", "posting", "accepted", "storing"}
          /\ op'[q].pc # "idle" =>
               /\ op'[q].s \in Subjects /\ op'[q].epoch \in Nat \ {0}
               /\ op'[q].key \in 1 .. keysMade /\ op'[q].prev \in 0 .. keysMade
          /\ op'[q].pc = "storing" => op'[q].snap \in [Subjects -> SUBSET LocalEpochs]
    BY <1>1, <1>3 DEF EpochInv, EpochShapes
  <2> QED
    BY <1>1, <2>2, <2>3, <2>4 DEF EpochInv, EpochShapes
<1>6. \A q \in EpochProcs \ {p} : Unstored(q) => op[q].s # t
  <2>1. ASSUME NEW q \in EpochProcs \ {p}, Unstored(q), op[q].s = t PROVE FALSE
    <3>1. platformEpoch[t].key = op[q].key
      BY <1>1, <2>1 DEF EpochInv, AcceptedIsKept
    <3>2. op[q].pc # "idle" /\ op[p].pc # "idle"
      BY <1>1, <2>1 DEF Unstored
    <3>3. op[p].prev # op[q].key
      BY <3>2 DEF EpochInv, OwnKey
    <3> QED
      BY <1>1, <3>1, <3>3
  <2> QED
    BY <2>1
<1>7. AcceptedIsKept'
  <2>1. ASSUME NEW s \in Subjects, NEW q \in EpochProcs, Unstored(q)', op'[q].s = s
        PROVE  platformEpoch'[s] = [epoch |-> op'[q].epoch, key |-> op'[q].key]
    <3>1. CASE q = p
      BY <1>3, <1>4, <2>1, <3>1
    <3>2. CASE q # p
      <4>1. Unstored(q) /\ op[q].s = s /\ op'[q] = op[q]
        BY <1>1, <2>1, <3>2 DEF Unstored
      <4> QED
        BY <1>4, <1>6, <3>2, <4>1 DEF EpochInv, AcceptedIsKept
    <3> QED
      BY <3>1, <3>2
  <2>2. ASSUME NEW s \in Subjects, s \notin lostKeys',
               \A q \in EpochProcs : op'[q].s = s => ~Unstored(q)'
        PROVE  /\ s \notin lostKeys /\ \A q \in EpochProcs : op[q].s = s => ~Unstored(q)
               /\ platformEpoch'[s] = platformEpoch[s]
    <3>1. Unstored(p)' /\ s # t
      BY <1>3, <2>2 DEF Unstored
    <3> QED
      BY <1>1, <1>4, <2>2, <3>1 DEF Unstored
  <2> QED
    BY <1>1, <2>1, <2>2 DEF EpochInv, AcceptedIsKept, ActiveIn
<1>8. ASSUME NEW q \in EpochProcs, op'[q].pc # "idle" PROVE OwnKey(q)'
  <2>1. \A r \in EpochProcs : /\ op'[r].key = op[r].key /\ op'[r].prev = op[r].prev
                              /\ op'[r].snap = op[r].snap
                              /\ op'[r].pc # "idle" => op[r].pc # "idle"
                              /\ op'[r].pc = "storing" => op[r].pc = "storing"
    BY <1>1, <1>3
  <2>2. OwnKey(q)
    BY <1>8, <2>1 DEF EpochInv
  <2> QED
    BY <1>1, <1>8, <2>1, <2>2 DEF OwnKey, Free
<1>9. OneActive(epochFile)' /\ KeysUpTo(epochFile, keysMade)'
  BY <1>1 DEF EpochInv, OneActive, ActiveIn, KeysUpTo
<1>10. ASSUME NEW q \in EpochProcs, op'[q].pc = "storing"
       PROVE  OneActive(op[q].snap)' /\ KeysUpTo(op[q].snap, keysMade)'
  <2>1. op'[q] = op[q] /\ OneActive(op[q].snap) /\ KeysUpTo(op[q].snap, keysMade)
    BY <1>1, <1>3, <1>10 DEF EpochInv
  <2> QED
    BY <1>1, <2>1 DEF OneActive, ActiveIn, KeysUpTo
<1> QED
  BY <1>5, <1>7, <1>8, <1>9, <1>10 DEF EpochInv

(* The file is read before it is written: what was read is the file. *)
LEMMA EpochsRead ==
  ASSUME EpochInv, NEW p \in EpochProcs, op[p].pc = "accepted",
         op' = [op EXCEPT ![p].pc = "storing", ![p].snap = epochFile],
         UNCHANGED <<epochFile, platformEpoch, keysMade, lostKeys>>
  PROVE  EpochInv'
<1> DEFINE o == op[p]
<1>0. /\ o = [pc |-> o.pc, s |-> o.s, epoch |-> o.epoch, key |-> o.key, prev |-> o.prev,
              snap |-> o.snap]
      /\ DOMAIN op = EpochProcs
  BY DEF EpochInv, EpochShapes
<1>1. /\ DOMAIN op' = EpochProcs /\ \A q \in EpochProcs \ {p} : op'[q] = op[q]
      /\ op'[p] = [pc |-> "storing", s |-> o.s, epoch |-> o.epoch, key |-> o.key,
                   prev |-> o.prev, snap |-> epochFile]
  <2>1. DOMAIN op' = EpochProcs /\ op'[p] = [o EXCEPT !.pc = "storing", !.snap = epochFile]
    BY <1>0
  <2>2. \A q \in EpochProcs \ {p} : op'[q] = op[q]
    BY <1>0
  <2> QED
    BY <1>0, <2>1, <2>2
<1>2. /\ op'[p].pc = "storing" /\ op'[p].s = op[p].s /\ op'[p].epoch = op[p].epoch
      /\ op'[p].key = op[p].key /\ op'[p].prev = op[p].prev /\ op'[p].snap = epochFile
  BY <1>1
<1>3. EpochShapes'
  <2>1. \A q \in EpochProcs :
          op'[q] = [pc |-> op'[q].pc, s |-> op'[q].s, epoch |-> op'[q].epoch,
                    key |-> op'[q].key, prev |-> op'[q].prev, snap |-> op'[q].snap]
    BY <1>1, <1>2 DEF EpochInv, EpochShapes
  <2>2. \A q \in EpochProcs :
          /\ op'[q].pc \in {"idle", "posting", "accepted", "storing"}
          /\ op'[q].pc # "idle" =>
               /\ op'[q].s \in Subjects /\ op'[q].epoch \in Nat \ {0}
               /\ op'[q].key \in 1 .. keysMade /\ op'[q].prev \in 0 .. keysMade
          /\ op'[q].pc = "storing" => op'[q].snap \in [Subjects -> SUBSET LocalEpochs]
    BY <1>1, <1>2 DEF EpochInv, EpochShapes
  <2> QED
    BY <1>1, <2>1, <2>2 DEF EpochInv, EpochShapes
<1>4. \A q \in EpochProcs : /\ (Unstored(q)' <=> Unstored(q)) /\ op'[q].s = op[q].s
                            /\ op'[q].epoch = op[q].epoch /\ op'[q].key = op[q].key
                            /\ op'[q].prev = op[q].prev
                            /\ (op'[q].pc # "idle" <=> op[q].pc # "idle")
  BY <1>1, <1>2 DEF Unstored
<1>5. AcceptedIsKept'
  <2>1. ASSUME NEW s \in Subjects, NEW q \in EpochProcs, Unstored(q)', op'[q].s = s
        PROVE  platformEpoch[s] = [epoch |-> op'[q].epoch, key |-> op'[q].key]
    <3>1. Unstored(q) /\ op[q].s = s /\ op'[q].epoch = op[q].epoch /\ op'[q].key = op[q].key
      BY <1>4, <2>1
    <3>2. platformEpoch[s] = [epoch |-> op[q].epoch, key |-> op[q].key]
      BY <3>1 DEF EpochInv, AcceptedIsKept
    <3> QED
      BY <3>1, <3>2
  <2>2. ASSUME NEW s \in Subjects, \A q \in EpochProcs : op'[q].s = s => ~Unstored(q)'
        PROVE  \A q \in EpochProcs : op[q].s = s => ~Unstored(q)
    BY <1>4, <2>2
  <2> QED
    BY <2>1, <2>2 DEF EpochInv, AcceptedIsKept, ActiveIn
<1>6. ASSUME NEW q \in EpochProcs, op'[q].pc # "idle" PROVE OwnKey(q)'
  <2>1. OwnKey(q)
    BY <1>4, <1>6 DEF EpochInv
  <2>2. ASSUME NEW r \in EpochProcs, op'[r].pc = "storing"
        PROVE  \A s \in Subjects : \A e \in op'[r].snap[s] : e.key # op[q].key
    BY <1>1, <1>2, <2>1, <2>2 DEF OwnKey, Free
  <2> QED
    BY <1>4, <1>6, <2>1, <2>2, ZenonT(30) DEF OwnKey, Free
<1>7. OneActive(epochFile)' /\ KeysUpTo(epochFile, keysMade)'
  BY DEF EpochInv, OneActive, ActiveIn, KeysUpTo
<1>8. ASSUME NEW q \in EpochProcs, op'[q].pc = "storing"
      PROVE  OneActive(op[q].snap)' /\ KeysUpTo(op[q].snap, keysMade)'
  BY <1>1, <1>2, <1>8 DEF EpochInv, OneActive, ActiveIn, KeysUpTo
<1> QED
  BY <1>3, <1>5, <1>6, <1>7, <1>8 DEF EpochInv

(* Storing an epoch makes it the active one of its subject. *)
LEMMA UpsertedEpochs ==
  ASSUME NEW records \in SUBSET LocalEpochs, NEW n \in Nat, NEW k \in Nat
  PROVE  /\ UpsertEpoch(records, n, k) \in SUBSET LocalEpochs
         /\ ActiveIn(UpsertEpoch(records, n, k)) = {[epoch |-> n, key |-> k, active |-> TRUE]}
         /\ \A e \in UpsertEpoch(records, n, k) : e.key = k \/ \E f \in records : e.key = f.key
<1>1. ASSUME NEW e \in records
      PROVE  /\ [e EXCEPT !.active = FALSE] \in LocalEpochs
             /\ [e EXCEPT !.active = FALSE].active = FALSE
             /\ [e EXCEPT !.active = FALSE].key = e.key
  BY DEF LocalEpochs
<1>2. [epoch |-> n, key |-> k, active |-> TRUE] \in LocalEpochs
  BY DEF LocalEpochs
<1> DEFINE new == [epoch |-> n, key |-> k, active |-> TRUE]
           old == {[e EXCEPT !.active = FALSE] : e \in records}
<1>3. UpsertEpoch(records, n, k) = old \cup {new}
  BY DEF UpsertEpoch
<1>4. \A f \in old : f \in LocalEpochs /\ f.active = FALSE /\ \E e \in records : f.key = e.key
  BY <1>1
<1>5. new \in LocalEpochs /\ new.active = TRUE /\ new.key = k
  BY <1>2
<1> HIDE DEF old, new
<1>6. ActiveIn(old \cup {new}) = {new}
  BY <1>4, <1>5 DEF ActiveIn
<1>7. /\ old \cup {new} \in SUBSET LocalEpochs
      /\ \A e \in old \cup {new} : e.key = k \/ \E f \in records : e.key = f.key
  BY <1>4, <1>5
<1> QED
  BY <1>3, <1>6, <1>7 DEF new

(* The whole file is written: if another process wrote it since it was read,
   what that one stored is gone, and otherwise one epoch is added to it. *)
LEMMA EpochsWrite ==
  ASSUME EpochInv, NEW p \in EpochProcs, StoreWrite(p)
  PROVE  EpochInv'
<1> DEFINE t == op[p].s
           new == [epoch |-> op[p].epoch, key |-> op[p].key, active |-> TRUE]
<1>1. /\ op[p].pc = "storing" /\ t \in Subjects /\ op[p].epoch \in Nat \ {0}
      /\ op[p].key \in 1 .. keysMade /\ op[p].key \in Nat /\ keysMade \in Nat
      /\ op[p].snap \in [Subjects -> SUBSET LocalEpochs]
  BY DEF EpochInv, EpochShapes, StoreWrite
<1>2. /\ DOMAIN op' = EpochProcs /\ op'[p] = NoOp /\ op'[p].pc = "idle"
      /\ \A q \in EpochProcs \ {p} : op'[q] = op[q]
      /\ \A q \in EpochProcs : op'[q].pc # "idle" => q # p /\ op'[q] = op[q]
      /\ UNCHANGED <<platformEpoch, keysMade>>
  BY DEF EpochInv, EpochShapes, StoreWrite, NoOp
<1>3. /\ epochFile' = [op[p].snap EXCEPT ![t] = UpsertEpoch(@, op[p].epoch, op[p].key)]
      /\ lostKeys' = IF epochFile = op[p].snap THEN lostKeys ELSE Subjects
  BY DEF StoreWrite
<1>4. /\ epochFile'[t] = UpsertEpoch(op[p].snap[t], op[p].epoch, op[p].key)
      /\ \A s \in Subjects \ {t} : epochFile'[s] = op[p].snap[s]
  BY <1>1, <1>3
<1>5. /\ epochFile'[t] \in SUBSET LocalEpochs /\ ActiveIn(epochFile'[t]) = {new}
      /\ \A e \in epochFile'[t] : e.key = op[p].key \/ \E f \in op[p].snap[t] : e.key = f.key
  <2>1. op[p].snap[t] \in SUBSET LocalEpochs /\ op[p].epoch \in Nat /\ op[p].key \in Nat
    BY <1>1
  <2>2. LET written == UpsertEpoch(op[p].snap[t], op[p].epoch, op[p].key)
        IN  /\ written \in SUBSET LocalEpochs /\ ActiveIn(written) = {new}
            /\ \A e \in written : e.key = op[p].key \/ \E f \in op[p].snap[t] : e.key = f.key
    BY <2>1, UpsertedEpochs
  <2> QED
    BY <1>4, <2>2
<1>6. EpochShapes'
  <2>1. epochFile' \in [Subjects -> SUBSET LocalEpochs]
    BY <1>1, <1>3, <1>4, <1>5
  <2>2. lostKeys' \subseteq Subjects
    BY <1>3 DEF EpochInv, EpochShapes
  <2> QED
    BY <1>2, <2>1, <2>2 DEF EpochInv, EpochShapes, NoOp
<1>7. OneActive(epochFile)'
  <2>1. OneActive(op[p].snap)
    BY <1>1 DEF EpochInv
  <2>2. ASSUME NEW s \in Subjects PROVE \A e, f \in ActiveIn(epochFile'[s]) : e = f
    <3>1. CASE s = t
      BY <1>5, <3>1
    <3>2. CASE s # t
      BY <1>4, <2>1, <3>2 DEF OneActive
    <3> QED
      BY <3>1, <3>2
  <2> QED
    BY <2>2 DEF OneActive, ActiveIn
<1>8. KeysUpTo(epochFile, keysMade)'
  <2>1. KeysUpTo(op[p].snap, keysMade)
    BY <1>1 DEF EpochInv
  <2>2. ASSUME NEW s \in Subjects, NEW e \in epochFile'[s] PROVE e.key \in 1 .. keysMade
    <3>1. CASE s = t
      BY <1>1, <1>5, <2>1, <2>2, <3>1 DEF KeysUpTo
    <3>2. CASE s # t
      BY <1>4, <2>1, <2>2, <3>2 DEF KeysUpTo
    <3> QED
      BY <3>1, <3>2
  <2> QED
    BY <1>2, <2>2 DEF KeysUpTo
<1>9. platformEpoch[t] = [epoch |-> op[p].epoch, key |-> op[p].key]
  BY <1>1 DEF EpochInv, AcceptedIsKept, Unstored
<1>10. AcceptedIsKept'
  <2>1. ASSUME NEW s \in Subjects, NEW q \in EpochProcs, Unstored(q)', op'[q].s = s
        PROVE  platformEpoch'[s] = [epoch |-> op'[q].epoch, key |-> op'[q].key]
    BY <1>2, <2>1 DEF EpochInv, AcceptedIsKept, Unstored
  <2>2. ASSUME NEW s \in Subjects, s \notin lostKeys',
               \A q \in EpochProcs : op'[q].s = s => ~Unstored(q)'
        PROVE  IF platformEpoch[s].epoch = 0 THEN ActiveIn(epochFile'[s]) = {}
               ELSE ActiveIn(epochFile'[s]) = {[epoch |-> platformEpoch[s].epoch,
                                                key |-> platformEpoch[s].key, active |-> TRUE]}
    <3>1. CASE s = t
      <4>1. platformEpoch[s].epoch = op[p].epoch /\ platformEpoch[s].key = op[p].key
        BY <1>9, <3>1
      <4> QED
        BY <1>1, <1>5, <3>1, <4>1
    <3>2. CASE s # t
      <4>1. epochFile = op[p].snap /\ s \notin lostKeys
        BY <1>3, <2>2
      <4>2. \A q \in EpochProcs : op[q].s = s => ~Unstored(q)
        BY <1>2, <2>2, <3>2 DEF Unstored
      <4> QED
        BY <1>4, <3>2, <4>1, <4>2 DEF EpochInv, AcceptedIsKept
    <3> QED
      BY <3>1, <3>2
  <2> QED
    BY <1>2, <2>1, <2>2 DEF AcceptedIsKept, ActiveIn
<1>11. ASSUME NEW q \in EpochProcs, op'[q].pc # "idle" PROVE OwnKey(q)'
  <2>1. q # p /\ OwnKey(q) /\ op'[q] = op[q] /\ op[q].key # op[p].key
    BY <1>1, <1>2, <1>11 DEF EpochInv, OwnKey
  <2>2. Free(op[p].snap, op[q].key)
    BY <1>1, <2>1 DEF OwnKey
  <2>3. Free(epochFile', op[q].key)
    <3>1. ASSUME NEW s \in Subjects, NEW e \in epochFile'[s] PROVE e.key # op[q].key
      <4>1. CASE s = t
        BY <1>1, <1>5, <2>1, <2>2, <3>1, <4>1 DEF Free
      <4>2. CASE s # t
        BY <1>4, <2>2, <3>1, <4>2 DEF Free
      <4> QED
        BY <4>1, <4>2
    <3> QED
      BY <3>1 DEF Free
  <2>4. \A r \in EpochProcs : op'[r].pc # "idle" => op'[r].prev # op'[q].key
    BY <1>2, <2>1 DEF OwnKey
  <2>5. \A r \in EpochProcs \ {q} : op'[r].pc # "idle" => op'[r].key # op'[q].key
    BY <1>2, <2>1 DEF OwnKey
  <2>6. \A r \in EpochProcs : op'[r].pc = "storing" => Free(op'[r].snap, op'[q].key)
    BY <1>2, <2>1 DEF OwnKey
  <2> QED
    BY <2>1, <2>3, <2>4, <2>5, <2>6 DEF OwnKey, Free
<1>12. ASSUME NEW q \in EpochProcs, op'[q].pc = "storing"
       PROVE  OneActive(op[q].snap)' /\ KeysUpTo(op[q].snap, keysMade)'
  <2>1. op'[q] = op[q] /\ OneActive(op[q].snap) /\ KeysUpTo(op[q].snap, keysMade)
    BY <1>2, <1>12 DEF EpochInv
  <2> QED
    BY <1>2, <2>1 DEF OneActive, ActiveIn, KeysUpTo
<1> QED
  BY <1>6, <1>7, <1>8, <1>10, <1>11, <1>12 DEF EpochInv

(* Every step keeps the invariant. *)
LEMMA EpochsStep == EpochInv /\ [EpochNext]_epochVars => EpochInv'
<1> SUFFICES ASSUME EpochInv, [EpochNext]_epochVars PROVE EpochInv'
  OBVIOUS
<1>1. CASE UNCHANGED epochVars
  BY <1>1 DEF epochVars, EpochInv, EpochShapes, OneActive, ActiveIn, AcceptedIsKept, KeysUpTo,
     OwnKey, Free, Unstored
<1>2. ASSUME NEW p \in EpochProcs, NEW s \in Subjects, EnsureEpoch(p, s) PROVE EpochInv'
  <2>1. Posting(p, s, 1, 0) /\ 1 \in Nat \ {0} /\ 0 \in 0 .. keysMade
    BY <1>2 DEF EnsureEpoch, EpochInv, EpochShapes
  <2>2. \A q \in EpochProcs : op[q].pc # "idle" => 0 # op[q].key
    BY DEF EpochInv, EpochShapes
  <2> QED
    BY <2>1, <2>2, EpochsPost
<1>3. ASSUME NEW p \in EpochProcs, NEW s \in Subjects, RotateEpoch(p, s) PROVE EpochInv'
  <2>1. PICK e \in NewestActive(s) : Posting(p, s, e.epoch + 1, e.key)
    BY <1>3 DEF RotateEpoch
  <2>2. e \in epochFile[s] /\ e \in LocalEpochs
    BY <2>1 DEF NewestActive, EpochInv, EpochShapes
  <2>3. e.key \in 0 .. keysMade
    BY <2>2 DEF EpochInv, EpochShapes, KeysUpTo
  <2>4. e.epoch + 1 \in Nat \ {0}
    BY <2>2 DEF LocalEpochs
  <2>5. \A q \in EpochProcs : op[q].pc # "idle" => e.key # op[q].key
    BY <2>2 DEF EpochInv, OwnKey, Free
  <2> QED
    BY <2>1, <2>3, <2>4, <2>5, EpochsPost
<1>4. ASSUME NEW p \in EpochProcs, PostFails(p) PROVE EpochInv'
  <2>1. op[p].s \in Subjects /\ lostKeys \subseteq Subjects
    BY <1>4 DEF EpochInv, EpochShapes, PostFails
  <2> QED
    BY <1>4, <2>1, EpochsEnd DEF PostFails
<1>5. ASSUME NEW p \in EpochProcs, StoreRead(p) PROVE EpochInv'
  <2>1. op[p].s \in Subjects /\ lostKeys \subseteq Subjects
    BY <1>5 DEF EpochInv, EpochShapes, StoreRead
  <2> QED
    BY <1>5, <2>1, EpochsEnd, EpochsRead DEF StoreRead
<1>6. ASSUME NEW p \in EpochProcs, EpochCrash(p) PROVE EpochInv'
  <2>1. op[p].s \in Subjects \/ op[p].pc = "idle"
    BY <1>6 DEF EpochInv, EpochShapes
  <2>2. lostKeys \subseteq Subjects
    BY DEF EpochInv, EpochShapes
  <2> QED
    BY <1>6, <2>1, <2>2, EpochsEnd DEF EpochCrash
<1> QED
  BY <1>1, <1>2, <1>3, <1>4, <1>5, <1>6, EpochsAccept, EpochsWrite DEF EpochNext

(* Between operations nothing is unstored, so what was accepted is active. *)
LEMMA EpochsHeld == EpochInv => EpochKeyHeld
<1> SUFFICES ASSUME EpochInv PROVE EpochKeyHeld
  OBVIOUS
<1>1. ASSUME NEW s \in Subjects PROVE Cardinality(ActiveIn(epochFile[s])) <= 1
  <2>1. CASE ActiveIn(epochFile[s]) = {}
    BY <2>1, FS_EmptySet
  <2>2. CASE ActiveIn(epochFile[s]) # {}
    <3>1. PICK e \in ActiveIn(epochFile[s]) : TRUE
      BY <2>2
    <3>2. ActiveIn(epochFile[s]) = {e}
      BY <3>1 DEF EpochInv, OneActive
    <3>3. Cardinality({e}) = 1
      BY FS_Singleton
    <3> QED
      BY <3>2, <3>3
  <2> QED
    BY <2>1, <2>2
<1>2. ASSUME NEW s \in Subjects, \A p \in EpochProcs : op[p].s = s => op[p].pc = "posting",
             s \notin lostKeys
      PROVE  IF platformEpoch[s].epoch = 0 THEN ActiveIn(epochFile[s]) = {}
             ELSE ActiveIn(epochFile[s]) = {[epoch |-> platformEpoch[s].epoch,
                                             key |-> platformEpoch[s].key, active |-> TRUE]}
  <2>1. \A p \in EpochProcs : op[p].s = s => ~Unstored(p)
    BY <1>2 DEF Unstored
  <2> QED
    BY <1>2, <2>1 DEF EpochInv, AcceptedIsKept
<1>3. ASSUME NEW s \in Subjects
      PROVE  LET active == {e \in epochFile[s] : e.active}
                 settled == \A p \in EpochProcs : op[p].s = s => op[p].pc = "posting"
             IN  /\ Cardinality(active) <= 1
                 /\ settled /\ s \notin lostKeys =>
                      IF platformEpoch[s].epoch = 0 THEN active = {}
                      ELSE active = {[epoch |-> platformEpoch[s].epoch,
                                      key |-> platformEpoch[s].key, active |-> TRUE]}
  <2>1. ActiveIn(epochFile[s]) = {e \in epochFile[s] : e.active}
    BY DEF ActiveIn
  <2> QED
    BY <1>1, <1>2, <2>1, Zenon
<1> QED
  BY <1>3 DEF EpochKeyHeld

(* The key of the epoch the platform has is in the file between operations. *)
THEOREM EpochKeysStay ==
  EpochInit /\ [][EpochNext]_epochVars => []EpochKeyHeld
  BY EpochsStart, EpochsStep, EpochsHeld, PTL

-----------------------------------------------------------------------------
(* How the keys of epochs reach other devices and members *)

TeamGrants == [team : Nat, user : Nat, done : BOOLEAN]
Loops == {<<"u", "v">>, <<"v", "u">>, <<"u">>, <<"v">>, << >>, Failed}

SharedShapes ==
  /\ newestUser \in [Users -> Nat] /\ newestTeam \in Nat
  /\ DOMAIN activeUser = Devices /\ teamActive \in [Devices -> Nat]
  /\ pins \in [Users -> SUBSET Nat] /\ granting \in Loops
  /\ grants \subseteq TeamGrants /\ \A g \in grants : g.team <= newestTeam
  /\ DOMAIN devOp = Devices
  /\ \A d \in Devices :
       /\ devOp[d] = [pc |-> devOp[d].pc, epoch |-> devOp[d].epoch, for |-> devOp[d].for,
                      list |-> devOp[d].list]
       /\ devOp[d].pc = "taking" =>
            /\ devOp[d].epoch \in Nat /\ devOp[d].epoch <= newestTeam
            /\ devOp[d].list \subseteq TeamGrants
            /\ \A g \in devOp[d].list : g.team <= newestTeam

(* The device's epoch is the newest, or it is known to be behind. *)
Current(d) == activeUser[d] \in {0, newestUser["u"]} \/ d \in behind

(* What is pinned of a user is an unbroken chain up to an epoch that exists. *)
Chained(u) == \A e, f \in pins[u] : f <= newestUser[u] /\ (e .. f) \subseteq pins[u]

(* Once user "u" had its turn in the owner's loop it has a grant of the newest. *)
LoopTells ==
  granting \in {<<"v">>, << >>} /\ ~changed =>
    \E g \in grants : g.team = newestTeam /\ g.user = newestUser["u"]

(* What a device was listed it has, or still has to come to. *)
ListHolds(d) ==
  devOp[d].pc = "taking" /\ d \notin reordered =>
    \/ teamActive[d] >= devOp[d].epoch
    \/ \E g \in devOp[d].list : Opens(d, g) /\ g.team >= devOp[d].epoch

SharedInv ==
  /\ SharedShapes /\ LoopTells /\ \A u \in Users : Chained(u)
  /\ \A d \in Devices : Current(d) /\ ListHolds(d)

(* A set of numbers with a bound has a greatest. *)
LEMMA GreatestNumber ==
  ASSUME NEW n \in Nat, NEW T \in SUBSET Nat, T # {}, \A t \in T : t <= n
  PROVE  \E t \in T : \A x \in T : x <= t
<1> DEFINE U == {n - t : t \in T}
<1>1. U \in SUBSET Nat /\ U # {}
  <2>1. \A t \in T : t \in Nat /\ t <= n /\ n - t \in Nat
    OBVIOUS
  <2> QED
    BY <2>1
<1>2. PICK m \in U : \A k \in U : m <= k
  BY <1>1, LeastNumber
<1>3. PICK t \in T : m = n - t
  BY <1>2
<1>4. ASSUME NEW x \in T PROVE x <= t
  <2>1. n - t <= n - x /\ x \in Nat /\ t \in Nat
    BY <1>2, <1>3
  <2> QED
    BY <2>1
<1> QED
  BY <1>4

(* The devices start with nothing taken, and the owner's loop has not run. *)
LEMMA SharingStarts == SharingInit => SharedInv
<1> SUFFICES ASSUME SharingInit PROVE SharedInv
  OBVIOUS
<1>1. /\ DOMAIN devOp = Devices /\ \A d \in Devices : devOp[d] = Resting /\ devOp[d].pc = "idle"
  BY DEF SharingInit, Resting
<1>2. /\ newestUser \in [Users -> Nat] /\ newestTeam \in Nat /\ newestUser["u"] = 1
      /\ DOMAIN activeUser = Devices /\ teamActive \in [Devices -> Nat]
      /\ pins \in [Users -> SUBSET Nat] /\ grants = {} /\ granting = << >>
      /\ changed = TRUE
  BY DEF SharingInit, Users
<1>3. SharedShapes
  BY <1>1, <1>2 DEF SharedShapes, Loops, Resting
<1>4. \A u \in Users : pins[u] = {}
  BY DEF SharingInit
<1>5. \A d \in Devices : activeUser[d] \in {0, newestUser["u"]}
  BY <1>2 DEF SharingInit
<1> QED
  BY <1>1, <1>2, <1>3, <1>4, <1>5 DEF SharedInv, LoopTells, Chained, Current, ListHolds

(* The device that has taken a step, and not to take a list. *)
Elsewhere(d) ==
  /\ DOMAIN devOp' = Devices
  /\ \A x \in Devices :
       /\ devOp'[x] = [pc |-> devOp'[x].pc, epoch |-> devOp'[x].epoch, for |-> devOp'[x].for,
                       list |-> devOp'[x].list]
       /\ devOp'[x].pc = "taking" => x # d /\ devOp'[x] = devOp[x]

(* A command that begins, goes on or ends is such a step. *)
LEMMA CommandsMove ==
  ASSUME SharedShapes, NEW d \in Devices, NEW pc, pc # "taking", NEW e, NEW f,
         Begin(d, pc, e, f) \/ Goes(d, pc) \/ Ends(d)
  PROVE  Elsewhere(d)
<1> DEFINE o == devOp[d]
<1>1. DOMAIN devOp = Devices /\ o = [pc |-> o.pc, epoch |-> o.epoch, for |-> o.for, list |-> o.list]
  BY DEF SharedShapes
<1>2. CASE Begin(d, pc, e, f)
  <2>1. DOMAIN devOp' = Devices /\ devOp'[d] = [pc |-> pc, epoch |-> e, for |-> f, list |-> {}]
    BY <1>1, <1>2 DEF Begin
  <2>2. \A x \in Devices \ {d} : devOp'[x] = devOp[x]
    BY <1>1, <1>2 DEF Begin
  <2> QED
    BY <2>1, <2>2 DEF Elsewhere, SharedShapes
<1>3. CASE Goes(d, pc)
  <2>1. DOMAIN devOp' = Devices /\ devOp'[d] = [o EXCEPT !.pc = pc]
    BY <1>1, <1>3 DEF Goes
  <2>2. devOp'[d] = [pc |-> pc, epoch |-> o.epoch, for |-> o.for, list |-> o.list]
    BY <1>1, <2>1
  <2>3. \A x \in Devices \ {d} : devOp'[x] = devOp[x]
    BY <1>1, <1>3 DEF Goes
  <2> QED
    BY <2>1, <2>2, <2>3 DEF Elsewhere, SharedShapes
<1>4. CASE Ends(d)
  <2>1. DOMAIN devOp' = Devices /\ devOp'[d] = [pc |-> "idle", epoch |-> 0, for |-> 0, list |-> {}]
    BY <1>1, <1>4 DEF Ends, Resting
  <2>2. \A x \in Devices \ {d} : devOp'[x] = devOp[x]
    BY <1>1, <1>4 DEF Ends
  <2> QED
    BY <2>1, <2>2 DEF Elsewhere, SharedShapes
<1> QED
  BY <1>2, <1>3, <1>4

(* What no step but the owner's grants and the taking of a list disturbs: the
   numbers of epochs grow, the loop ends in doubt or begins again. *)
EpochsGrow ==
  /\ newestUser' \in [Users -> Nat] /\ \A u \in Users : newestUser[u] <= newestUser'[u]
  /\ newestTeam' \in Nat /\ newestTeam <= newestTeam'
  /\ UNCHANGED <<pins, grants>>
  /\ granting' \in Loops
  /\ \/ changed' = TRUE \/ granting' \in {<<"u", "v">>, <<"v", "u">>, Failed}
     \/ UNCHANGED <<granting, changed, newestTeam>> /\ newestUser'["u"] = newestUser["u"]

(* Such a step keeps the invariant where no list that is being taken changes. *)
LEMMA SharedKept ==
  ASSUME SharedInv, EpochsGrow, DOMAIN activeUser' = Devices, teamActive' \in [Devices -> Nat],
         DOMAIN devOp' = Devices,
         \A d \in Devices :
           /\ Current(d)'
           /\ devOp'[d] = [pc |-> devOp'[d].pc, epoch |-> devOp'[d].epoch, for |-> devOp'[d].for,
                           list |-> devOp'[d].list]
           /\ devOp'[d].pc = "taking" =>
                /\ devOp'[d] = devOp[d] /\ activeUser'[d] = activeUser[d]
                /\ teamActive'[d] = teamActive[d] /\ (d \in reordered => d \in reordered')
  PROVE  SharedInv'
<1>1. SharedShapes'
  <2>1. newestTeam \in Nat /\ newestTeam' \in Nat /\ newestTeam <= newestTeam'
    BY DEF SharedInv, SharedShapes, EpochsGrow
  <2>2. \A g \in grants' : g \in TeamGrants /\ g.team <= newestTeam /\ g.team \in Nat
    BY DEF SharedInv, SharedShapes, EpochsGrow, TeamGrants
  <2>3. ASSUME NEW d \in Devices, devOp'[d].pc = "taking"
        PROVE  /\ devOp'[d].epoch \in Nat /\ devOp'[d].epoch <= newestTeam'
               /\ devOp'[d].list \subseteq TeamGrants
               /\ \A g \in devOp'[d].list : g.team <= newestTeam'
    <3>1. /\ devOp'[d].epoch \in Nat /\ devOp'[d].epoch <= newestTeam
          /\ devOp'[d].list \subseteq TeamGrants
          /\ \A g \in devOp'[d].list : g.team <= newestTeam
      BY <2>3 DEF SharedInv, SharedShapes
    <3>2. \A g \in devOp'[d].list : g.team \in Nat
      BY <3>1 DEF TeamGrants
    <3> QED
      BY <2>1, <3>1, <3>2
  <2>4. \A g \in grants' : g.team <= newestTeam'
    BY <2>1, <2>2
  <2>5. pins' \in [Users -> SUBSET Nat]
    BY DEF SharedInv, SharedShapes, EpochsGrow
  <2> QED
    BY <2>1, <2>2, <2>3, <2>4, <2>5 DEF SharedShapes, EpochsGrow
<1>2. LoopTells'
  <2>1. SUFFICES ASSUME granting' \in {<<"v">>, << >>}, ~changed'
                 PROVE  \E g \in grants : g.team = newestTeam' /\ g.user = newestUser'["u"]
    BY DEF LoopTells, EpochsGrow
  <2>2. granting' \notin {<<"u", "v">>, <<"v", "u">>, Failed}
    <3>1. <<"u", "v">> # <<"v">> /\ <<"v", "u">> # <<"v">> /\ <<"failed">> # <<"v">>
      OBVIOUS
    <3>2. <<"u", "v">> # << >> /\ <<"v", "u">> # << >> /\ <<"failed">> # << >>
      OBVIOUS
    <3> QED
      BY <2>1, <3>1, <3>2 DEF Failed
  <2>3. UNCHANGED <<granting, changed, newestTeam>> /\ newestUser'["u"] = newestUser["u"]
    BY <2>1, <2>2 DEF EpochsGrow
  <2> QED
    BY <2>1, <2>3 DEF SharedInv, LoopTells
<1>3. ASSUME NEW u \in Users PROVE Chained(u)'
  <2>1. newestUser[u] \in Nat /\ newestUser'[u] \in Nat /\ newestUser[u] <= newestUser'[u]
    BY DEF SharedInv, SharedShapes, EpochsGrow
  <2>2. pins'[u] = pins[u] /\ pins[u] \in SUBSET Nat
    BY DEF SharedInv, SharedShapes, EpochsGrow
  <2>3. Chained(u)
    BY DEF SharedInv
  <2> QED
    BY <2>1, <2>2, <2>3 DEF Chained
<1>4. ASSUME NEW d \in Devices PROVE ListHolds(d)'
  <2>1. ListHolds(d)
    BY DEF SharedInv
  <2> QED
    BY <2>1 DEF ListHolds, Opens
<1> QED
  BY <1>1, <1>2, <1>3, <1>4 DEF SharedInv

(* A step of one device that takes no list: the other devices, and what was
   granted, are as they were. *)
LEMMA DeviceKeeps ==
  ASSUME SharedInv, NEW d \in Devices, EpochsGrow, Elsewhere(d),
         DOMAIN activeUser' = Devices, teamActive' \in [Devices -> Nat],
         \A x \in Devices : Current(x)',
         \A x \in Devices \ {d} : /\ activeUser'[x] = activeUser[x]
                                  /\ teamActive'[x] = teamActive[x]
                                  /\ x \in reordered => x \in reordered'
  PROVE  SharedInv'
<1>1. DOMAIN devOp' = Devices
  BY DEF Elsewhere
<1>2. \A x \in Devices :
        /\ Current(x)'
        /\ devOp'[x] = [pc |-> devOp'[x].pc, epoch |-> devOp'[x].epoch, for |-> devOp'[x].for,
                        list |-> devOp'[x].list]
        /\ devOp'[x].pc = "taking" =>
             /\ devOp'[x] = devOp[x] /\ activeUser'[x] = activeUser[x]
             /\ teamActive'[x] = teamActive[x] /\ (x \in reordered => x \in reordered')
  BY DEF Elsewhere
<1> QED
  BY <1>1, <1>2, SharedKept, Zenon

(* The team's part is as it was. *)
LEMMA TeamRests ==
  ASSUME SharedInv, UNCHANGED <<newestUser, newestTeam, pins, grants, granting, changed>>
  PROVE  EpochsGrow
BY DEF SharedInv, SharedShapes, EpochsGrow, Users

(* Requests, approvals, receipts and backups, and commands that end. *)
LEMMA CommandKeeps ==
  ASSUME SharedInv, NEW d \in Devices, Elsewhere(d),
         UNCHANGED <<newestUser, userFiles, teamState, teamActive, reordered>>
  PROVE  SharedInv'
<1>1. /\ UNCHANGED <<newestUser, activeUser, behind, newestTeam, pins, grants, granting, changed,
                     teamActive, reordered>>
  BY DEF userFiles, teamState
<1>2. /\ DOMAIN activeUser' = Devices /\ teamActive' \in [Devices -> Nat]
      /\ \A x \in Devices : Current(x)'
  BY <1>1 DEF SharedInv, SharedShapes, Current
<1>3. EpochsGrow
  BY <1>1, TeamRests
<1> QED
  BY <1>1, <1>2, <1>3, DeviceKeeps

(* An epoch is stored as the active one, the newest or an older one. *)
LEMMA StoringKeeps ==
  ASSUME SharedInv, NEW d \in Devices, Elsewhere(d), NEW e, UpsertUser(d, e),
         behind' = IF e = newestUser["u"] THEN behind \ {d} ELSE behind \cup {d},
         UNCHANGED <<newestUser, teamState, teamActive, reordered>>
  PROVE  SharedInv'
<1>1. UNCHANGED <<newestUser, newestTeam, pins, grants, granting, changed, teamActive, reordered>>
  BY DEF teamState
<1>2. /\ DOMAIN activeUser' = Devices /\ activeUser'[d] = e
      /\ \A x \in Devices \ {d} : activeUser'[x] = activeUser[x]
  BY DEF SharedInv, SharedShapes, UpsertUser
<1>3. ASSUME NEW x \in Devices PROVE Current(x)'
  <2>1. Current(x)
    BY DEF SharedInv
  <2> QED
    BY <1>1, <1>2, <2>1 DEF Current
<1>4. teamActive' \in [Devices -> Nat]
  BY <1>1 DEF SharedInv, SharedShapes
<1>5. EpochsGrow
  BY <1>1, TeamRests
<1> QED
  BY <1>1, <1>2, <1>3, <1>4, <1>5, DeviceKeeps

(* A rotation leaves every other device that has an epoch behind. *)
LEMMA RotatingKeeps ==
  ASSUME SharedInv, NEW d \in Devices, Elsewhere(d), Rotated(d), UNCHANGED <<teamActive, reordered>>
  PROVE  SharedInv'
<1>1. /\ newestUser \in [Users -> Nat] /\ "u" \in Users
      /\ newestUser' = [newestUser EXCEPT !["u"] = @ + 1]
      /\ UNCHANGED <<newestTeam, pins, grants, granting>> /\ changed' = TRUE
      /\ behind' = (behind \cup {x \in Devices : activeUser[x] # 0}) \ {d}
  BY DEF SharedInv, SharedShapes, Users, Rotated
<1>2. /\ DOMAIN activeUser' = Devices /\ activeUser'[d] = newestUser["u"] + 1
      /\ \A x \in Devices \ {d} : activeUser'[x] = activeUser[x]
  BY DEF SharedInv, SharedShapes, UpsertUser, Rotated
<1>3. newestUser'["u"] = newestUser["u"] + 1
  BY <1>1
<1>4. \A x \in Devices : Current(x)'
  BY <1>1, <1>2, <1>3 DEF Current
<1>5. EpochsGrow
  <2>1. newestUser' \in [Users -> Nat] /\ \A u \in Users : newestUser[u] <= newestUser'[u]
    BY <1>1
  <2> QED
    BY <1>1, <2>1 DEF SharedInv, SharedShapes, EpochsGrow
<1>6. teamActive' \in [Devices -> Nat]
  BY DEF SharedInv, SharedShapes
<1> QED
  BY <1>2, <1>4, <1>5, <1>6, DeviceKeeps

(* A device without its files has no epoch that could be behind. *)
LEMMA LosingKeeps ==
  ASSUME SharedInv, NEW d \in Devices, FilesLost(d)
  PROVE  SharedInv'
<1>1. /\ UNCHANGED <<newestUser, newestTeam, pins, grants, granting, changed, devOp>>
      /\ devOp[d].pc = "idle" /\ behind' = behind \ {d} /\ reordered' = reordered \ {d}
  BY DEF FilesLost, teamState
<1>2. /\ DOMAIN activeUser' = Devices /\ activeUser'[d] = 0
      /\ \A x \in Devices \ {d} : activeUser'[x] = activeUser[x]
      /\ teamActive' \in [Devices -> Nat]
      /\ \A x \in Devices \ {d} : teamActive'[x] = teamActive[x]
  BY DEF SharedInv, SharedShapes, FilesLost
<1>3. ASSUME NEW x \in Devices PROVE Current(x)'
  <2>1. Current(x)
    BY DEF SharedInv
  <2> QED
    BY <1>1, <1>2, <2>1 DEF Current
<1>4. Elsewhere(d)
  BY <1>1 DEF Elsewhere, SharedInv, SharedShapes
<1>5. EpochsGrow
  BY <1>1, TeamRests
<1> QED
  BY <1>1, <1>2, <1>3, <1>4, <1>5, DeviceKeeps

(* The epochs of the team and of the other user, and the loop's start. *)
LEMMA OwnerKeeps ==
  ASSUME SharedInv, OtherUserRotates \/ RotateTeam \/ RotationRequested \/ GrantStarts \/ GrantFails
  PROVE  SharedInv'
<1>1. UNCHANGED <<activeUser, behind, pins, grants, teamActive, devOp, reordered>>
  BY DEF OtherUserRotates, RotateTeam, RotationRequested, GrantStarts, GrantFails, userFiles,
     teamState
<1>2. newestUser \in [Users -> Nat] /\ newestTeam \in Nat /\ granting \in Loops
  BY DEF SharedInv, SharedShapes
<1>3. EpochsGrow /\ newestUser'["u"] = newestUser["u"]
  <2>1. CASE OtherUserRotates
    <3>1. /\ newestUser' = [newestUser EXCEPT !["v"] = @ + 1]
          /\ UNCHANGED <<newestTeam, granting, changed>>
      BY <2>1 DEF OtherUserRotates, teamState
    <3>2. /\ newestUser' \in [Users -> Nat] /\ newestUser'["u"] = newestUser["u"]
          /\ \A u \in Users : newestUser[u] <= newestUser'[u]
      BY <1>2, <3>1 DEF Users
    <3> QED
      BY <1>1, <1>2, <3>1, <3>2 DEF EpochsGrow
  <2>2. CASE RotateTeam \/ RotationRequested \/ GrantStarts \/ GrantFails
    <3>1. newestUser' = newestUser /\ newestTeam' \in Nat /\ newestTeam <= newestTeam'
      BY <1>2, <2>2 DEF RotateTeam, RotationRequested, GrantStarts, GrantFails, teamState
    <3>2. \/ changed' = TRUE /\ granting' = granting
          \/ granting' \in {<<"u", "v">>, <<"v", "u">>, Failed}
      BY <2>2 DEF RotateTeam, RotationRequested, GrantStarts, GrantFails
    <3>3. \A u \in Users : newestUser[u] <= newestUser'[u]
      BY <1>2, <3>1
    <3>4. granting' \in Loops
      BY <1>2, <3>2 DEF Loops
    <3>5. changed' = TRUE \/ granting' \in {<<"u", "v">>, <<"v", "u">>, Failed}
      BY <3>2
    <3> QED
      BY <1>1, <1>2, <3>1, <3>3, <3>4, <3>5 DEF EpochsGrow
  <2> QED
    BY <2>1, <2>2
<1>4. /\ DOMAIN activeUser' = Devices /\ teamActive' \in [Devices -> Nat] /\ DOMAIN devOp' = Devices
      /\ \A d \in Devices :
           devOp'[d] = [pc |-> devOp'[d].pc, epoch |-> devOp'[d].epoch, for |-> devOp'[d].for,
                        list |-> devOp'[d].list]
  BY <1>1 DEF SharedInv, SharedShapes
<1>5. \A d \in Devices : Current(d)'
  BY <1>1, <1>3 DEF SharedInv, Current
<1> QED
  BY <1>1, <1>3, <1>4, <1>5, SharedKept

(* The owner pins the user's newest epoch: the one it has pinned, or the next. *)
LEMMA PinningKeeps ==
  ASSUME SharedInv, NEW u \in Users, Pinnable(u, newestUser[u]),
         pins' = [pins EXCEPT ![u] = @ \cup {newestUser[u]}], UNCHANGED newestUser
  PROVE  pins' \in [Users -> SUBSET Nat] /\ \A x \in Users : Chained(x)'
<1> DEFINE n == newestUser[u]
           P == pins[u]
<1>1. n \in Nat /\ P \in SUBSET Nat /\ Chained(u)
  BY DEF SharedInv, SharedShapes
<1>2. pins'[u] = P \cup {n} /\ \A x \in Users \ {u} : pins'[x] = pins[x]
  BY DEF SharedInv, SharedShapes
<1>3. pins' \in [Users -> SUBSET Nat]
  BY <1>1 DEF SharedInv, SharedShapes
<1>4. \A e \in P : e \in Nat /\ e <= n
  BY <1>1 DEF Chained
<1>5. P = {} \/ n \in P \/ n - 1 \in P
  <2>1. SUFFICES ASSUME P # {} PROVE n \in P \/ n - 1 \in P
    OBVIOUS
  <2>2. PICK t \in P : \A x \in P : x <= t
    BY <1>1, <1>4, <2>1, GreatestNumber
  <2>3. n = t \/ n = t + 1
    BY <2>2 DEF Pinnable, SignedBy
  <2> QED
    BY <1>4, <2>2, <2>3
<1>6. ASSUME NEW e \in P \cup {n}, NEW f \in P \cup {n}
      PROVE  f <= n /\ (e .. f) \subseteq P \cup {n}
  <2>1. e \in Nat /\ f \in Nat /\ e <= n /\ f <= n
    BY <1>1, <1>4, <1>6
  <2>2. ASSUME NEW m \in e .. f PROVE m \in P \cup {n}
    <3>1. m \in Nat /\ e <= m /\ m <= f /\ m <= n
      BY <2>1, <2>2, <1>1
    <3>2. CASE m = n
      BY <3>2
    <3>3. CASE m # n
      <4>1. e \in P
        BY <1>1, <1>6, <2>1, <3>1, <3>3
      <4>2. PICK g \in P : m <= g
        <5>1. CASE f \in P
          BY <3>1, <5>1
        <5>2. CASE f \notin P
          <6>1. f = n /\ n - 1 \in P /\ m <= n - 1
            BY <1>1, <1>5, <1>6, <3>1, <3>3, <4>1, <5>2
          <6> QED
            BY <6>1
        <5> QED
          BY <5>1, <5>2
      <4>3. (e .. g) \subseteq P /\ g \in Nat
        BY <1>1, <4>1, <4>2 DEF Chained
      <4> QED
        BY <2>1, <3>1, <4>2, <4>3
    <3> QED
      BY <3>2, <3>3
  <2> QED
    BY <2>1, <2>2
<1>7. ASSUME NEW x \in Users PROVE Chained(x)'
  <2>1. CASE x = u
    BY <1>2, <1>6, <2>1 DEF Chained
  <2>2. CASE x # u
    BY <1>2, <2>2 DEF SharedInv, Chained
  <2> QED
    BY <2>1, <2>2
<1> QED
  BY <1>3, <1>7

(* One user of the owner's loop is granted the team's newest epoch. *)
LEMMA GrantingKeeps == SharedInv /\ GrantNext => SharedInv'
<1> SUFFICES ASSUME SharedInv, GrantNext PROVE SharedInv'
  OBVIOUS
<1> DEFINE u == Head(granting)
           g == [team |-> newestTeam, user |-> newestUser[u], done |-> FALSE]
<1>1. /\ granting \in {<<"u", "v">>, <<"v", "u">>, <<"u">>, <<"v">>} /\ granting' = Tail(granting)
      /\ UNCHANGED <<newestUser, activeUser, behind, newestTeam, teamActive, devOp, changed,
                     reordered>>
      /\ Pinnable(u, newestUser[u]) /\ pins' = [pins EXCEPT ![u] = @ \cup {newestUser[u]}]
      /\ grants' = grants \cup
           (IF u = "u" /\ [team |-> newestTeam, user |-> newestUser[u], done |-> TRUE] \notin grants
            THEN {g} ELSE {})
  BY DEF SharedInv, SharedShapes, GrantNext, Loops, userFiles
<1>2. /\ u \in Users /\ granting' \in Loops
      /\ granting' \in {<<"v">>, << >>} => granting = <<"v">> \/ u = "u"
  <2>1. CASE granting = <<"u", "v">>
    BY <1>1, <2>1 DEF Loops, Users
  <2>2. CASE granting = <<"v", "u">>
    <3>1. granting' = <<"u">> /\ <<"u">> # <<"v">> /\ <<"u">> # << >> /\ u = "v"
      BY <1>1, <2>2
    <3> QED
      BY <3>1 DEF Loops, Users
  <2>3. CASE granting = <<"u">>
    BY <1>1, <2>3 DEF Loops, Users
  <2>4. CASE granting = <<"v">>
    BY <1>1, <2>4 DEF Loops, Users
  <2> QED
    BY <1>1, <2>1, <2>2, <2>3, <2>4
<1>3. pins' \in [Users -> SUBSET Nat] /\ \A x \in Users : Chained(x)'
  BY <1>1, <1>2, PinningKeeps
<1>4. /\ grants' \subseteq TeamGrants /\ \A h \in grants' : h.team <= newestTeam
  <2>1. newestTeam \in Nat /\ newestUser[u] \in Nat
    BY <1>2 DEF SharedInv, SharedShapes
  <2>2. g \in TeamGrants /\ g.team = newestTeam
    BY <2>1 DEF TeamGrants
  <2>3. \A h \in grants' : h \in grants \/ h = g
    BY <1>1
  <2>4. grants \subseteq TeamGrants /\ \A h \in grants : h.team <= newestTeam
    BY DEF SharedInv, SharedShapes
  <2> HIDE DEF g
  <2> QED
    BY <2>1, <2>2, <2>3, <2>4
<1>5. LoopTells'
  <2>1. SUFFICES ASSUME granting' \in {<<"v">>, << >>}, ~changed
                 PROVE  \E h \in grants' : h.team = newestTeam /\ h.user = newestUser["u"]
    BY <1>1 DEF LoopTells
  <2>2. CASE granting = <<"v">>
    <3>1. PICK h \in grants : h.team = newestTeam /\ h.user = newestUser["u"]
      BY <2>1, <2>2 DEF SharedInv, LoopTells
    <3> QED
      BY <1>1, <3>1
  <2>3. CASE u = "u"
    <3>1. PICK h \in grants' :
            h = g \/ h = [team |-> newestTeam, user |-> newestUser[u], done |-> TRUE]
      BY <1>1, <2>3
    <3> QED
      BY <2>3, <3>1
  <2> QED
    BY <1>2, <2>1, <2>2, <2>3
<1>6. SharedShapes'
  BY <1>1, <1>2, <1>3, <1>4 DEF SharedInv, SharedShapes
<1>7. ASSUME NEW d \in Devices PROVE Current(d)' /\ ListHolds(d)'
  BY <1>1 DEF SharedInv, Current, ListHolds, Opens
<1> QED
  BY <1>3, <1>5, <1>6, <1>7 DEF SharedInv

(* The newest team epoch in a list is one of the list, if it is any. *)
LEMMA BestIsListed ==
  ASSUME NEW d, NEW n \in Nat, NEW list \in SUBSET TeamGrants, \A g \in list : g.team <= n
  PROVE  /\ BestFor(d, list) \in Nat /\ BestFor(d, list) <= n
         /\ BestFor(d, list) = 0 \/ \E g \in list : Opens(d, g) /\ g.team = BestFor(d, list)
<1> DEFINE teams == {0} \cup {g.team : g \in {h \in list : Opens(d, h)}}
<1>1. teams \in SUBSET Nat /\ teams # {} /\ \A t \in teams : t <= n
  BY DEF TeamGrants
<1>2. \E t \in teams : \A x \in teams : x <= t
  <2> HIDE DEF teams
  <2> QED
    BY <1>1, GreatestNumber
<1>3. BestFor(d, list) \in teams
  <2>1. BestFor(d, list) = CHOOSE t \in teams : \A x \in teams : x <= t
    BY Zenon DEF BestFor
  <2> HIDE DEF teams
  <2> QED
    BY <1>2, <2>1
<1>4. BestFor(d, list) \in Nat /\ BestFor(d, list) <= n
  <2> HIDE DEF teams
  <2> QED
    BY <1>1, <1>3
<1> QED
  BY <1>3, <1>4

(* A device is listed grants that exist. *)
LEMMA ListingKeeps ==
  ASSUME SharedInv, NEW d \in Devices, TakesList(d)
  PROVE  SharedInv'
<1>1. PICK list \in {grants, {g \in grants : ~g.done}} :
        devOp' = [devOp EXCEPT ![d] = [pc |-> "taking", epoch |-> BestFor(d, list), for |-> 0,
                                       list |-> list]]
  BY DEF TakesList
<1> DEFINE best == BestFor(d, list)
<1>2. /\ UNCHANGED <<newestUser, activeUser, behind, newestTeam, pins, grants, granting, changed,
                     teamActive, reordered>>
  BY DEF TakesList, userFiles, teamState
<1>3. /\ DOMAIN devOp' = Devices /\ \A x \in Devices \ {d} : devOp'[x] = devOp[x]
      /\ devOp'[d] = [pc |-> "taking", epoch |-> best, for |-> 0, list |-> list]
  BY <1>1 DEF SharedInv, SharedShapes
<1>4. devOp'[d].pc = "taking" /\ devOp'[d].epoch = best /\ devOp'[d].list = list
      /\ devOp'[d].for = 0
  BY <1>3
<1>5. list \in SUBSET TeamGrants /\ newestTeam \in Nat /\ \A g \in list : g.team <= newestTeam
  <2>1. list \subseteq grants
    BY <1>1
  <2> QED
    BY <2>1 DEF SharedInv, SharedShapes
<1>6. /\ best \in Nat /\ best <= newestTeam
      /\ best = 0 \/ \E g \in list : Opens(d, g) /\ g.team = best
  BY <1>5, BestIsListed
<1> HIDE DEF best
<1>7. SharedShapes'
  <2>1. ASSUME NEW x \in Devices
        PROVE  /\ devOp'[x] = [pc |-> devOp'[x].pc, epoch |-> devOp'[x].epoch,
                               for |-> devOp'[x].for, list |-> devOp'[x].list]
               /\ devOp'[x].pc = "taking" =>
                    /\ devOp'[x].epoch \in Nat /\ devOp'[x].epoch <= newestTeam
                    /\ devOp'[x].list \subseteq TeamGrants
                    /\ \A g \in devOp'[x].list : g.team <= newestTeam
    <3>1. CASE x = d
      BY <1>3, <1>4, <1>5, <1>6, <3>1
    <3>2. CASE x # d
      BY <1>3, <3>2 DEF SharedInv, SharedShapes
    <3> QED
      BY <3>1, <3>2
  <2> QED
    BY <1>2, <1>3, <2>1 DEF SharedInv, SharedShapes
<1>8. ASSUME NEW x \in Devices PROVE ListHolds(x)'
  <2>1. CASE x = d
    <3>1. CASE best = 0
      <4>1. teamActive[d] \in Nat /\ teamActive' = teamActive
        BY <1>2 DEF SharedInv, SharedShapes
      <4> QED
        BY <1>4, <2>1, <3>1, <4>1 DEF ListHolds
    <3>2. CASE best # 0
      <4>1. PICK g \in list : Opens(d, g) /\ g.team = best
        BY <1>6, <3>2
      <4>2. Opens(d, g)' /\ g.team >= best
        BY <1>2, <1>6, <4>1 DEF Opens
      <4> QED
        BY <1>4, <2>1, <4>2 DEF ListHolds, Opens
    <3> QED
      BY <3>1, <3>2
  <2>2. CASE x # d
    BY <1>2, <1>3, <2>2 DEF SharedInv, ListHolds, Opens
  <2> QED
    BY <2>1, <2>2
<1>9. /\ LoopTells' /\ \A u \in Users : Chained(u)'
      /\ \A x \in Devices : Current(x)'
  BY <1>2 DEF SharedInv, LoopTells, Chained, Current
<1> QED
  BY <1>7, <1>8, <1>9 DEF SharedInv

(* A device comes to one of the grants it was listed. *)
LEMMA TakingKeeps ==
  ASSUME SharedInv, NEW d \in Devices, TakesGrant(d)
  PROVE  SharedInv'
<1> DEFINE o == devOp[d]
<1>1. PICK g \in o.list :
        IF ~Opens(d, g)
        THEN /\ devOp' = [devOp EXCEPT ![d].list = @ \ {g}]
             /\ UNCHANGED <<teamActive, grants, reordered>>
        ELSE /\ teamActive' = [teamActive EXCEPT ![d] = g.team]
             /\ reordered' = IF g.team < teamActive[d] THEN reordered \cup {d}
                             ELSE IF g.team = newestTeam THEN reordered \ {d} ELSE reordered
             /\ \/ /\ grants' = (grants \ {g}) \cup {[g EXCEPT !.done = TRUE]}
                   /\ devOp' = [devOp EXCEPT ![d].list = @ \ {g}]
                \/ Ends(d) /\ UNCHANGED grants
  BY DEF TakesGrant
<1>2. /\ UNCHANGED <<newestUser, activeUser, behind, newestTeam, pins, granting, changed>>
      /\ o.pc = "taking"
  BY DEF TakesGrant, userFiles
<1>3. /\ DOMAIN devOp = Devices
      /\ o = [pc |-> "taking", epoch |-> o.epoch, for |-> o.for, list |-> o.list]
      /\ o.epoch \in Nat /\ newestTeam \in Nat /\ o.epoch <= newestTeam
      /\ o.list \subseteq TeamGrants /\ \A h \in o.list : h.team <= newestTeam
      /\ teamActive \in [Devices -> Nat]
  BY <1>2 DEF SharedInv, SharedShapes
<1>4. g \in TeamGrants /\ g.team \in Nat /\ g.team <= newestTeam
  BY <1>1, <1>3 DEF TeamGrants
<1> DEFINE Shorter == [pc |-> "taking", epoch |-> o.epoch, for |-> o.for, list |-> o.list \ {g}]
<1>5. /\ DOMAIN devOp' = Devices /\ \A x \in Devices \ {d} : devOp'[x] = devOp[x]
      /\ devOp'[d] = Shorter \/ devOp'[d] = Resting
  <2>1. CASE devOp' = [devOp EXCEPT ![d].list = @ \ {g}]
    <3>1. devOp'[d] = [o EXCEPT !.list = @ \ {g}]
      BY <1>3, <2>1
    <3>2. devOp'[d] = Shorter
      BY <1>3, <3>1
    <3> QED
      BY <1>3, <2>1, <3>2
  <2>2. CASE Ends(d)
    BY <1>3, <2>2 DEF Ends
  <2> QED
    BY <1>1, <2>1, <2>2
<1>6. /\ Shorter.pc = "taking" /\ Shorter.epoch = o.epoch /\ Shorter.for = o.for
      /\ Shorter.list = o.list \ {g}
      /\ Resting.pc = "idle" /\ Resting.epoch = 0 /\ Resting.for = 0 /\ Resting.list = {}
  BY DEF Resting
<1> DEFINE marked == [g EXCEPT !.done = TRUE]
<1>7. marked \in TeamGrants /\ marked.team = g.team /\ marked.user = g.user
  BY <1>4 DEF TeamGrants
<1>8. grants' = grants \/ grants' = (grants \ {g}) \cup {marked}
  BY <1>1
<1>9. /\ grants' \subseteq TeamGrants /\ \A h \in grants' : h.team <= newestTeam
  <2>1. grants \subseteq TeamGrants /\ \A h \in grants : h.team <= newestTeam
    BY DEF SharedInv, SharedShapes
  <2> HIDE DEF marked
  <2> QED
    BY <1>4, <1>7, <1>8, <2>1
<1>10. LoopTells'
  <2>1. ASSUME NEW h \in grants PROVE \E k \in grants' : k.team = h.team /\ k.user = h.user
    <3>1. CASE h = g
      BY <1>7, <1>8, <2>1, <3>1
    <3>2. CASE h # g
      BY <1>8, <2>1, <3>2
    <3> QED
      BY <3>1, <3>2
  <2> QED
    BY <1>2, <2>1 DEF SharedInv, LoopTells
<1>11. /\ teamActive' \in [Devices -> Nat] /\ \A x \in Devices \ {d} : teamActive'[x] = teamActive[x]
  BY <1>1, <1>3, <1>4
<1>12. SharedShapes'
  <2>1. ASSUME NEW x \in Devices
        PROVE  /\ devOp'[x] = [pc |-> devOp'[x].pc, epoch |-> devOp'[x].epoch,
                               for |-> devOp'[x].for, list |-> devOp'[x].list]
               /\ devOp'[x].pc = "taking" =>
                    /\ devOp'[x].epoch \in Nat /\ devOp'[x].epoch <= newestTeam
                    /\ devOp'[x].list \subseteq TeamGrants
                    /\ \A h \in devOp'[x].list : h.team <= newestTeam
    <3>1. CASE x # d
      BY <1>5, <3>1 DEF SharedInv, SharedShapes
    <3>2. CASE x = d /\ devOp'[d] = Shorter
      BY <1>3, <1>6, <3>2
    <3>3. CASE x = d /\ devOp'[d] = Resting
      BY <1>6, <3>3 DEF Resting
    <3> QED
      BY <1>5, <3>1, <3>2, <3>3
  <2> QED
    BY <1>2, <1>5, <1>9, <1>11, <2>1 DEF SharedInv, SharedShapes
<1>13. ASSUME NEW x \in Devices PROVE ListHolds(x)'
  <2>1. CASE x # d
    <3>1. x \in reordered' <=> x \in reordered
      BY <1>1, <2>1
    <3>2. ListHolds(x) /\ devOp'[x] = devOp[x] /\ teamActive'[x] = teamActive[x]
      BY <1>5, <1>11, <2>1 DEF SharedInv
    <3> QED
      BY <1>2, <3>1, <3>2 DEF ListHolds, Opens
  <2>2. CASE x = d /\ devOp'[d] = Resting
    BY <1>6, <2>2 DEF ListHolds
  <2>3. CASE x = d /\ devOp'[d] = Shorter
    <3>1. SUFFICES ASSUME d \notin reordered'
                   PROVE  \/ teamActive'[d] >= o.epoch
                          \/ \E h \in o.list \ {g} : Opens(d, h) /\ h.team >= o.epoch
      BY <1>2, <1>6, <2>3 DEF ListHolds, Opens
    <3>2. ListHolds(d)
      BY DEF SharedInv
    <3>3. CASE ~Opens(d, g)
      <4>1. UNCHANGED <<teamActive, reordered>>
        BY <1>1, <3>3
      <4> QED
        BY <1>2, <3>1, <3>2, <3>3, <4>1 DEF ListHolds
    <3>4. CASE Opens(d, g)
      <4>1. teamActive'[d] = g.team /\ teamActive[d] \in Nat
        BY <1>1, <1>3, <3>4
      <4>2. /\ ~(g.team < teamActive[d])
            /\ g.team = newestTeam \/ d \notin reordered
        BY <1>1, <3>1, <3>4
      <4>3. CASE g.team = newestTeam
        BY <1>3, <4>1, <4>3
      <4>4. CASE d \notin reordered
        <5>1. CASE teamActive[d] >= o.epoch
          BY <1>3, <1>4, <4>1, <4>2, <5>1
        <5>2. CASE \E h \in o.list : Opens(d, h) /\ h.team >= o.epoch
          BY <4>1, <5>2
        <5> QED
          BY <1>2, <3>2, <4>4, <5>1, <5>2 DEF ListHolds
      <4> QED
        BY <4>2, <4>3, <4>4
    <3> QED
      BY <3>3, <3>4
  <2> QED
    BY <1>5, <2>1, <2>2, <2>3
<1>14. /\ \A u \in Users : Chained(u)'
       /\ \A x \in Devices : Current(x)'
  BY <1>2 DEF SharedInv, Chained, Current
<1> QED
  BY <1>10, <1>12, <1>13, <1>14 DEF SharedInv

(* Every command, and every step of the owner, keeps the invariant. *)
LEMMA SharedStep == SharedInv /\ [SharingNext]_sharingVars => SharedInv'
<1> SUFFICES ASSUME SharedInv, [SharingNext]_sharingVars PROVE SharedInv'
  OBVIOUS
<1>0. SharedShapes
  BY DEF SharedInv
<1>1. CASE UNCHANGED sharingVars
  BY <1>1 DEF sharingVars, SharedInv, SharedShapes, LoopTells, Chained, Current, ListHolds, Opens
<1>2. ASSUME NEW d \in Devices, devOp[d].pc # "taking", UNCHANGED devOp PROVE Elsewhere(d)
  BY <1>2 DEF SharedInv, SharedShapes, Elsewhere
<1>3. ASSUME NEW d \in Devices, RotateUser(d) \/ RestoreRotates(d) PROVE SharedInv'
  <2>1. Elsewhere(d)
    <3>1. CASE RotateUser(d)
      BY <1>2, <3>1 DEF RotateUser
    <3>2. CASE RestoreRotates(d)
      <4>1. Goes(d, "rotated")
        BY <3>2 DEF RestoreRotates
      <4> QED
        BY <1>0, <4>1, CommandsMove
    <3> QED
      BY <1>3, <3>1, <3>2
  <2> QED
    BY <1>3, <2>1, RotatingKeeps DEF RotateUser, RestoreRotates
<1>4. ASSUME NEW d \in Devices, StoresGranted(d) \/ RestoreStores(d) PROVE SharedInv'
  <2>1. CASE StoresGranted(d)
    <3>1. Goes(d, "receipt")
      BY <2>1 DEF StoresGranted
    <3>2. Elsewhere(d)
      BY <1>0, <3>1, CommandsMove
    <3> QED
      BY <2>1, <3>2, StoringKeeps DEF StoresGranted
  <2>2. CASE RestoreStores(d)
    <3>1. Begin(d, "restored", backup, 0)
      BY <2>2 DEF RestoreStores
    <3>2. Elsewhere(d)
      BY <1>0, <3>1, CommandsMove
    <3> QED
      BY <2>2, <3>2, StoringKeeps DEF RestoreStores
  <2> QED
    BY <1>4, <2>1, <2>2
<1>5. ASSUME NEW d \in Devices,
             \/ RequestEnrolment(d) \/ ApprovePosts(d) \/ AcceptFetches(d) \/ PostsReceipt(d)
             \/ BackUp(d) \/ CommandEnds(d) \/ TakesNoMore(d)
             \/ \E e \in Devices \ {d} : ApproveReads(d, e)
      PROVE  SharedInv'
  <2>1. \/ devOp[d].pc # "taking" /\ UNCHANGED devOp
        \/ Ends(d) \/ Begin(d, "accepting", enrolment[d].grant, 0)
        \/ \E e \in Devices : Begin(d, "approving", activeUser[d], e)
    BY <1>5 DEF RequestEnrolment, ApprovePosts, AcceptFetches, PostsReceipt, BackUp, CommandEnds,
       TakesNoMore, ApproveReads
  <2>2. UNCHANGED <<newestUser, userFiles, teamState, teamActive, reordered>>
    BY <1>5 DEF RequestEnrolment, ApprovePosts, AcceptFetches, PostsReceipt, BackUp, CommandEnds,
       TakesNoMore, ApproveReads
  <2>3. Elsewhere(d)
    BY <1>0, <1>2, <2>1, CommandsMove
  <2> QED
    BY <2>2, <2>3, CommandKeeps
<1> QED
  BY <1>1, <1>3, <1>4, <1>5, LosingKeeps, OwnerKeeps, GrantingKeeps, ListingKeeps, TakingKeeps
     DEF SharingNext

(* The invariant says what the devices and the owner were promised. *)
LEMMA SharingHeld == SharedInv => SharedEpochsHold
<1> SUFFICES ASSUME SharedInv PROVE SharedEpochsHold
  OBVIOUS
<1>1. granting = << >> /\ ~changed =>
        \E g \in grants : g.team = newestTeam /\ g.user = newestUser["u"]
  BY DEF SharedInv, LoopTells
<1>2. \A d \in Devices \ reordered :
        devOp[d].pc = "taking" /\ devOp[d].list = {} => teamActive[d] >= devOp[d].epoch
  BY DEF SharedInv, ListHolds
<1>3. \A u \in Users : \A e, f \in pins[u] : f <= newestUser[u] /\ (e .. f) \subseteq pins[u]
  BY DEF SharedInv, Chained
<1>4. \A d \in Devices : activeUser[d] \in {0, newestUser["u"]} \/ d \in behind
  BY DEF SharedInv, Current
<1> QED
  BY <1>1, <1>2, <1>3, <1>4 DEF SharedEpochsHold

(* What devices and members hand on to each other holds whatever is lost. *)
THEOREM EpochsShared == SharingSpec => []SharedEpochsHold
  BY SharingStarts, SharedStep, SharingHeld, PTL DEF SharingSpec

-----------------------------------------------------------------------------
(* The keys of proposed plans *)

SaveSteps == {"none", "encrypted", "keep", "keeping", "kept", "posted", "name", "naming",
              "named", "done"}

PlanShapes ==
  /\ DOMAIN saves = Saves /\ takenUp \subseteq Saves
  /\ \A s \in Saves :
       /\ saves[s] = [at |-> saves[s].at, of |-> saves[s].of, seen |-> saves[s].seen]
       /\ saves[s].at \in SaveSteps
  /\ openingPlan = [at |-> openingPlan.at, key |-> openingPlan.key, by |-> openingPlan.by,
                    granted |-> openingPlan.granted, seen |-> openingPlan.seen,
                    answer |-> openingPlan.answer, asked |-> openingPlan.asked]
  /\ file = [whole |-> file.whole, records |-> file.records]
  /\ \A k \in takenUp : saves[k].at \in {"posted", "name", "naming", "named", "done"}

(* The writers are the upserts that have truncated the file, and it is whole
   unless one of them, a crash or an overlap keeps it from being so. *)
Writing(w) ==
  \/ w \in Saves /\ saves[w].at \in {"keeping", "naming"}
  \/ w = Opener /\ openingPlan.at = "storing"
WritersWrite == \A w \in Saves \cup {Opener} : w \in writers <=> Writing(w)
WholeOrWritten ==
  /\ writers \subseteq Saves \cup {Opener}
  /\ file.whole \/ writers # {} \/ torn \/ overlapped # {}

(* What an upsert has read of the file. *)
SeenBy(w) == IF w = Opener THEN openingPlan.seen ELSE saves[w].seen

(* Upserts that are under way together know of each other ... *)
Apart == \A v, w \in InUpsert : v # w => v \in overlapped

(* ... so a key that was kept, and whose upsert met no other, is in the file and
   in what every upsert under way has read of it. *)
Kept(k) == k \in takenUp \/ saves[k].at \in {"kept", "posted", "name", "naming", "named"}
KeyStays(k) ==
  Kept(k) /\ k \notin overlapped =>
    /\ Record(k, {"source"}) \in file.records
    /\ \A w \in InUpsert : Record(k, {"source"}) \in SeenBy(w)

(* A proposal under way or stored, and not forgotten, is listed, and no other
   send has it. *)
SentOnce(k) ==
  (Live(k) \/ k \in takenUp) /\ saves[k].of \notin again =>
    /\ saves[k].of \in recent
    /\ \A j \in Saves : (Live(j) \/ j \in takenUp) /\ saves[j].of = saves[k].of => j = k

(* The client's request is for a key there is, and what it has stored is found. *)
Opening == openingPlan.key \in takenUp \cup {Foreign} /\ openingPlan.by \subseteq Names
StoredIsFound ==
  openingPlan.at = "find again" /\ openingPlan.by # {} /\ Opener \notin overlapped =>
    /\ Finds(file.records, openingPlan.key, openingPlan.by)
    /\ \A w \in InUpsert : Finds(SeenBy(w), openingPlan.key, openingPlan.by)

PlanInv ==
  /\ PlanShapes /\ WritersWrite /\ WholeOrWritten /\ Apart /\ Opening /\ StoredIsFound /\ GrantsOpen
  /\ \A k \in Saves : KeyStays(k) /\ SentOnce(k)

(* An upsert adds its record, and no record that names the source alone goes. *)
LEMMA UpsertAdds ==
  ASSUME NEW records, NEW k, NEW by \in SUBSET Names
  PROVE  /\ Record(k, by) \in Upserted(records, k, by)
         /\ \A j : Record(j, {"source"}) \in records =>
                    Record(j, {"source"}) \in Upserted(records, k, by)
<1>1. Record(k, by) \in Upserted(records, k, by)
  BY DEF Upserted
<1>2. ASSUME NEW j, Record(j, {"source"}) \in records
      PROVE  Record(j, {"source"}) \in Upserted(records, k, by)
  <2> DEFINE r == Record(j, {"source"})
  <2>1. r.key = j /\ r.by = {"source"}
    BY DEF Record
  <2>2. CASE r \notin Replaced(records, k, by)
    BY <1>2, <2>2 DEF Upserted
  <2>3. CASE r \in Replaced(records, k, by)
    <3>1. "plan" \notin r.by /\ r.by # {"plan"} /\ r # Record(k, {})
      BY <2>1 DEF Record
    <3>2. "plan" \notin by /\ by # {} /\ r.key = k
      BY <2>3, <3>1 DEF Replaced
    <3>3. by = {"source"} /\ j = k
      BY <2>1, <3>2 DEF Names
    <3> QED
      BY <1>1, <3>3
  <2> QED
    BY <2>2, <2>3
<1> QED
  BY <1>1, <1>2

(* What is found stays found when another key is stored, or both names of it. *)
LEMMA UpsertFinds ==
  ASSUME NEW records, NEW k, NEW by \in SUBSET Names, NEW key, NEW names \in SUBSET Names,
         names # {}, Finds(records, key, names), key # k \/ by = Names
  PROVE  Finds(Upserted(records, k, by), key, names)
<1>1. PICK r \in records : r.key = key /\ r.by \cap names # {}
  BY DEF Finds
<1>2. CASE r \notin Replaced(records, k, by)
  BY <1>1, <1>2 DEF Upserted, Finds
<1>3. CASE r \in Replaced(records, k, by)
  <2>1. r.key = k
    BY <1>3 DEF Replaced, Record
  <2>2. by = Names /\ key = k
    BY <1>1, <2>1
  <2>3. /\ Record(k, by) \in Upserted(records, k, by)
        /\ Record(k, by).key = k /\ Record(k, by).by = by
    BY UpsertAdds DEF Record
  <2>4. Record(k, by).by \cap names # {}
    BY <2>2, <2>3
  <2> QED
    BY <2>2, <2>3, <2>4 DEF Finds
<1> QED
  BY <1>2, <1>3

(* A send goes on to its next step. *)
LEMMA SendMoves ==
  ASSUME PlanShapes, NEW s \in Saves, NEW at \in SaveSteps, Step(s, at) \/ ReadAs(s, at)
  PROVE  /\ DOMAIN saves' = Saves /\ \A x \in Saves \ {s} : saves'[x] = saves[x]
         /\ saves'[s].at = at /\ saves'[s].of = saves[s].of
         /\ saves'[s] = [at |-> saves'[s].at, of |-> saves'[s].of, seen |-> saves'[s].seen]
         /\ ReadAs(s, at) => saves'[s].seen = file.records
         /\ Step(s, at) /\ at \in {"keeping", "naming"} => saves'[s].seen = saves[s].seen
         /\ \A x \in Saves : saves'[x].of = saves[x].of
<1> DEFINE o == saves[s]
<1>1. DOMAIN saves = Saves /\ o = [at |-> o.at, of |-> o.of, seen |-> o.seen]
  BY DEF PlanShapes
<1>2. ASSUME NEW z, saves' = [saves EXCEPT ![s].at = at, ![s].seen = z]
      PROVE  /\ DOMAIN saves' = Saves /\ \A x \in Saves \ {s} : saves'[x] = saves[x]
             /\ saves'[s] = [at |-> at, of |-> o.of, seen |-> z]
  <2>1. DOMAIN saves' = Saves /\ saves'[s] = [o EXCEPT !.at = at, !.seen = z]
    BY <1>1, <1>2
  <2>2. \A x \in Saves \ {s} : saves'[x] = saves[x]
    BY <1>1, <1>2
  <2> QED
    BY <1>1, <2>1, <2>2
<1>3. CASE ReadAs(s, at)
  <2>1. saves' = [saves EXCEPT ![s].at = at, ![s].seen = file.records]
    BY <1>3 DEF ReadAs
  <2>2. /\ DOMAIN saves' = Saves /\ \A x \in Saves \ {s} : saves'[x] = saves[x]
        /\ saves'[s] = [at |-> at, of |-> o.of, seen |-> file.records]
    BY <1>2, <2>1
  <2>3. saves'[s].seen = saves[s].seen \/ ~(Step(s, at) /\ at \in {"keeping", "naming"})
    <3>1. ASSUME Step(s, at), at \in {"keeping", "naming"} PROVE saves'[s].seen = saves[s].seen
      BY <1>1, <3>1 DEF Step
    <3> QED
      BY <3>1
  <2> QED
    BY <1>3, <2>2, <2>3
<1>4. CASE Step(s, at) /\ ~ReadAs(s, at)
  <2> DEFINE z == IF at \in {"keeping", "naming"} THEN o.seen ELSE {}
  <2>1. saves' = [saves EXCEPT ![s].at = at, ![s].seen = z]
    BY <1>1, <1>4 DEF Step
  <2> HIDE DEF z
  <2>2. /\ DOMAIN saves' = Saves /\ \A x \in Saves \ {s} : saves'[x] = saves[x]
        /\ saves'[s] = [at |-> at, of |-> o.of, seen |-> z]
    BY <1>2, <2>1
  <2> QED
    BY <1>4, <2>2 DEF z
<1> QED
  BY <1>3, <1>4

(* Nobody begins an upsert, and the records of the file stay: what upserts and
   the client's request know of the file stays true. *)
LEMMA RecordsRest ==
  ASSUME PlanInv, InUpsert' \subseteq InUpsert, \A w \in InUpsert' : SeenBy(w)' = SeenBy(w),
         overlapped \subseteq overlapped', file'.records = file.records,
         \A k \in Saves : Kept(k)' => Kept(k),
         openingPlan'.at = "find again" =>
           openingPlan.at = "find again" /\ openingPlan'.key = openingPlan.key
             /\ openingPlan'.by = openingPlan.by
  PROVE  Apart' /\ StoredIsFound' /\ \A k \in Saves : KeyStays(k)'
<1>1. Apart'
  BY DEF PlanInv, Apart
<1>2. StoredIsFound'
  <2>1. SUFFICES ASSUME openingPlan'.at = "find again", openingPlan'.by # {}, Opener \notin overlapped'
                 PROVE  /\ Finds(file'.records, openingPlan'.key, openingPlan'.by)
                        /\ \A w \in InUpsert' : Finds(SeenBy(w)', openingPlan'.key, openingPlan'.by)
    BY DEF StoredIsFound
  <2>2. openingPlan.at = "find again" /\ openingPlan.by # {} /\ Opener \notin overlapped
        /\ openingPlan'.key = openingPlan.key /\ openingPlan'.by = openingPlan.by
    BY <2>1
  <2>3. /\ Finds(file.records, openingPlan.key, openingPlan.by)
        /\ \A w \in InUpsert : Finds(SeenBy(w), openingPlan.key, openingPlan.by)
    BY <2>2 DEF PlanInv, StoredIsFound
  <2> QED
    BY <2>2, <2>3
<1>3. ASSUME NEW k \in Saves PROVE KeyStays(k)'
  <2>1. KeyStays(k)
    BY DEF PlanInv
  <2> QED
    BY <2>1 DEF KeyStays, Record
<1> QED
  BY <1>1, <1>2, <1>3

(* An upsert reads the file: it has seen all that is in it, and it and those
   that are under way know of each other. *)
LEMMA RecordsRead ==
  ASSUME PlanInv, NEW who \in Saves \cup {Opener}, who \notin InUpsert,
         InUpsert' = InUpsert \cup {who}, SeenBy(who)' = file.records,
         \A w \in InUpsert : SeenBy(w)' = SeenBy(w),
         Reads(who), file' = file, \A k \in Saves : Kept(k)' => Kept(k),
         openingPlan'.at = "find again" =>
           openingPlan.at = "find again" /\ openingPlan'.key = openingPlan.key
             /\ openingPlan'.by = openingPlan.by
  PROVE  Apart' /\ StoredIsFound' /\ \A k \in Saves : KeyStays(k)'
<1>1. /\ overlapped \subseteq overlapped'
      /\ InUpsert # {} => InUpsert \cup {who} \subseteq overlapped'
  BY DEF Reads, Meets
<1>2. Apart'
  BY <1>1 DEF PlanInv, Apart
<1>3. StoredIsFound'
  <2>1. SUFFICES ASSUME openingPlan'.at = "find again", openingPlan'.by # {}, Opener \notin overlapped'
                 PROVE  /\ Finds(file'.records, openingPlan'.key, openingPlan'.by)
                        /\ \A w \in InUpsert' : Finds(SeenBy(w)', openingPlan'.key, openingPlan'.by)
    BY DEF StoredIsFound
  <2>2. openingPlan.at = "find again" /\ openingPlan.by # {} /\ Opener \notin overlapped
        /\ openingPlan'.key = openingPlan.key /\ openingPlan'.by = openingPlan.by
    BY <1>1, <2>1
  <2>3. /\ Finds(file.records, openingPlan.key, openingPlan.by)
        /\ \A w \in InUpsert : Finds(SeenBy(w), openingPlan.key, openingPlan.by)
    BY <2>2 DEF PlanInv, StoredIsFound
  <2> QED
    BY <2>2, <2>3
<1>4. ASSUME NEW k \in Saves PROVE KeyStays(k)'
  <2>1. KeyStays(k)
    BY DEF PlanInv
  <2> QED
    BY <1>1, <2>1 DEF KeyStays, Record
<1> QED
  BY <1>2, <1>3, <1>4

(* An upsert writes the file: if another is under way, both are known to have
   met; if none is, what it had read is what the file was. *)
LEMMA RecordsWritten ==
  ASSUME PlanInv, NEW who \in InUpsert, NEW k0, NEW by0 \in SUBSET Names,
         InUpsert' = InUpsert \ {who}, \A w \in InUpsert' : SeenBy(w)' = SeenBy(w),
         file'.records = Upserted(SeenBy(who), k0, by0), UNCHANGED overlapped,
         \A k \in Saves : Kept(k)' => Kept(k) \/ (k = who /\ k = k0 /\ by0 = {"source"}),
         openingPlan'.key = openingPlan.key, openingPlan'.by = openingPlan.by,
         openingPlan'.at = "find again" =>
           \/ who = Opener /\ k0 = openingPlan.key /\ by0 = openingPlan.by
           \/ openingPlan.at = "find again" /\ (openingPlan.key # k0 \/ by0 = Names)
  PROVE  Apart' /\ StoredIsFound' /\ \A k \in Saves : KeyStays(k)'
<1> DEFINE old == SeenBy(who)
           new == Upserted(old, k0, by0)
<1>1. /\ Record(k0, by0) \in new
      /\ \A j : Record(j, {"source"}) \in old => Record(j, {"source"}) \in new
  <2> HIDE DEF old
  <2> QED
    BY UpsertAdds
<1>2. file'.records = new
  OBVIOUS
<1>3. who \notin overlapped => InUpsert' = {}
  <2>1. Apart
    BY DEF PlanInv
  <2>2. \A w \in InUpsert' : w \in InUpsert /\ w # who
    OBVIOUS
  <2>3. ASSUME NEW w \in InUpsert' PROVE who \in overlapped
    BY <2>1, <2>2 DEF Apart
  <2> QED
    BY <2>3
<1>4. Apart'
  BY DEF PlanInv, Apart
<1>5. StoredIsFound'
  <2>1. SUFFICES ASSUME openingPlan'.at = "find again", openingPlan.by # {}, Opener \notin overlapped
                 PROVE  /\ Finds(file'.records, openingPlan.key, openingPlan.by)
                        /\ \A w \in InUpsert' : Finds(SeenBy(w)', openingPlan.key, openingPlan.by)
    BY DEF StoredIsFound
  <2>2. openingPlan.by \in SUBSET Names
    BY DEF PlanInv, Opening
  <2>3. CASE who = Opener /\ k0 = openingPlan.key /\ by0 = openingPlan.by
    <3>1. Record(k0, by0) \in file'.records
      BY <1>1, <1>2
    <3>2. Record(k0, by0).key = k0 /\ Record(k0, by0).by \cap by0 # {}
      BY <2>1, <2>3 DEF Record
    <3>3. InUpsert' = {}
      BY <1>3, <2>1, <2>3
    <3> QED
      BY <2>3, <3>1, <3>2, <3>3 DEF Finds
  <2>4. CASE openingPlan.at = "find again" /\ (openingPlan.key # k0 \/ by0 = Names)
    <3>1. \A w \in InUpsert : Finds(SeenBy(w), openingPlan.key, openingPlan.by)
      BY <2>1, <2>4 DEF PlanInv, StoredIsFound
    <3>2. Finds(SeenBy(who), openingPlan.key, openingPlan.by)
      BY <3>1
    <3>3. Finds(Upserted(SeenBy(who), k0, by0), openingPlan.key, openingPlan.by)
      BY <2>1, <2>2, <2>4, <3>2, UpsertFinds
    <3> QED
      BY <3>1, <3>3
  <2> QED
    BY <2>1, <2>3, <2>4
<1>6. ASSUME NEW k \in Saves PROVE KeyStays(k)'
  <2>1. SUFFICES ASSUME Kept(k)', k \notin overlapped
                 PROVE  /\ Record(k, {"source"}) \in file'.records
                        /\ \A w \in InUpsert' : Record(k, {"source"}) \in SeenBy(w)'
    BY DEF KeyStays, Record
  <2>2. CASE Kept(k)
    <3>1. \A w \in InUpsert : Record(k, {"source"}) \in SeenBy(w)
      BY <2>1, <2>2 DEF PlanInv, KeyStays
    <3>2. Record(k, {"source"}) \in old
      BY <3>1
    <3>3. Record(k, {"source"}) \in file'.records
      <4> HIDE DEF old, new
      <4> QED
        BY <1>1, <1>2, <3>2
    <3> QED
      BY <3>1, <3>3
  <2>3. CASE k = who /\ k = k0 /\ by0 = {"source"}
    <3>1. InUpsert' = {}
      BY <1>3, <2>1, <2>3
    <3>2. Record(k, {"source"}) \in file'.records
      <4> HIDE DEF new
      <4> QED
        BY <1>1, <1>2, <2>3
    <3> QED
      BY <3>1, <3>2
  <2> QED
    BY <2>1, <2>2, <2>3
<1> QED
  BY <1>4, <1>5, <1>6

(* Sends that stay with their proposals, of which none is dropped. *)
LEMMA SendsRest ==
  ASSUME PlanInv, \A k \in Saves : saves'[k].of = saves[k].of,
         \A k \in Saves : Live(k)' \/ k \in takenUp' => Live(k) \/ k \in takenUp,
         recent' = recent, again \subseteq again'
  PROVE  \A k \in Saves : SentOnce(k)'
<1>1. ASSUME NEW k \in Saves PROVE SentOnce(k)'
  <2>1. SentOnce(k)
    BY DEF PlanInv
  <2>2. SUFFICES ASSUME Live(k)' \/ k \in takenUp', saves'[k].of \notin again'
                 PROVE  /\ saves'[k].of \in recent'
                        /\ \A j \in Saves : (Live(j)' \/ j \in takenUp') /\ saves'[j].of = saves'[k].of
                                              => j = k
    BY DEF SentOnce
  <2>3. (Live(k) \/ k \in takenUp) /\ saves[k].of \notin again
    BY <2>2
  <2> QED
    BY <2>1, <2>3 DEF SentOnce
<1> QED
  BY <1>1

(* A send that fails takes its proposal from the list: it was the only one with
   it, or the proposal may come again. *)
LEMMA SendDropped ==
  ASSUME PlanInv, NEW s \in Saves, Live(s), saves'[s].at = "done", takenUp \subseteq takenUp',
         takenUp' \subseteq takenUp \cup {s},
         \A k \in Saves \ {s} : saves'[k] = saves[k],
         \A k \in Saves : saves'[k].of = saves[k].of,
         recent' = recent \ {saves[s].of}, again \subseteq again',
         s \in takenUp' => saves[s].of \in again'
  PROVE  \A k \in Saves : SentOnce(k)'
<1>1. ASSUME NEW k \in Saves PROVE SentOnce(k)'
  <2>1. SentOnce(k) /\ SentOnce(s)
    BY DEF PlanInv
  <2>2. SUFFICES ASSUME Live(k)' \/ k \in takenUp', saves[k].of \notin again'
                 PROVE  /\ saves[k].of \in recent'
                        /\ \A j \in Saves : (Live(j)' \/ j \in takenUp') /\ saves[j].of = saves[k].of
                                              => j = k
    BY DEF SentOnce
  <2>3. k # s
    BY <2>2 DEF Live
  <2>4. \A j \in Saves : (Live(j)' \/ j \in takenUp') => (Live(j) \/ j \in takenUp)
    BY DEF Live
  <2>5. (Live(k) \/ k \in takenUp) /\ saves[k].of \notin again
    BY <2>2, <2>4
  <2>6. saves[s].of # saves[k].of
    BY <2>1, <2>3, <2>5 DEF SentOnce
  <2> QED
    BY <2>1, <2>4, <2>5, <2>6 DEF SentOnce
<1> QED
  BY <1>1

(* Nobody begins or ends to write. *)
LEMMA WritersRest ==
  ASSUME PlanInv, writers' = writers, \A w \in Saves \cup {Opener} : Writing(w)' <=> Writing(w),
         file'.whole = file.whole, torn' = torn, overlapped \subseteq overlapped'
  PROVE  WritersWrite' /\ WholeOrWritten'
<1>1. WritersWrite'
  BY DEF PlanInv, WritersWrite
<1>2. WholeOrWritten'
  BY DEF PlanInv, WholeOrWritten
<1> QED
  BY <1>1, <1>2

(* A writer that truncates the file is one of those that may have broken it. *)
LEMMA WriterBegins ==
  ASSUME PlanInv, NEW who \in Saves \cup {Opener}, Truncates(who),
         \A w \in Saves \cup {Opener} : Writing(w)' <=> Writing(w) \/ w = who
  PROVE  WritersWrite' /\ WholeOrWritten'
BY DEF PlanInv, WritersWrite, WholeOrWritten, Truncates

(* The last to write leaves the file whole, unless it met another. *)
LEMMA WriterEnds ==
  ASSUME PlanInv, NEW who \in Saves \cup {Opener}, Writing(who), NEW records, Fills(who, records),
         \A w \in Saves \cup {Opener} : Writing(w)' <=> Writing(w) /\ w # who,
         UNCHANGED <<torn, overlapped>>
  PROVE  WritersWrite' /\ WholeOrWritten' /\ file'.records = records
         /\ file' = [whole |-> file'.whole, records |-> file'.records]
<1>1. PICK entire \in (IF who \in overlapped THEN BOOLEAN ELSE {TRUE}) :
        file' = [whole |-> entire /\ writers = {who}, records |-> records]
  BY DEF Fills
<1>2. writers' = writers \ {who} /\ who \in writers
  BY DEF Fills, PlanInv, WritersWrite
<1>3. WritersWrite'
  BY <1>2 DEF PlanInv, WritersWrite
<1>4. WholeOrWritten'
  <2>1. CASE who \in overlapped
    BY <1>2, <2>1 DEF PlanInv, WholeOrWritten
  <2>2. CASE who \notin overlapped
    <3>1. file'.whole = (writers = {who})
      BY <1>1, <2>2
    <3> QED
      BY <1>2, <3>1 DEF PlanInv, WholeOrWritten
  <2> QED
    BY <2>1, <2>2
<1> QED
  BY <1>1, <1>3, <1>4

(* A send's step changes what it has read and whether it writes, and no other's. *)
LEMMA SendEffects ==
  ASSUME PlanInv, NEW s \in Saves, NEW at \in SaveSteps, Step(s, at) \/ ReadAs(s, at),
         UNCHANGED openingPlan
  PROVE  /\ InUpsert' = IF at \in {"keep", "keeping", "name", "naming"} THEN InUpsert \cup {s}
                        ELSE InUpsert \ {s}
         /\ \A w \in InUpsert : w # s => SeenBy(w)' = SeenBy(w)
         /\ SeenBy(s)' = saves'[s].seen /\ SeenBy(s) = saves[s].seen
         /\ \A w \in Saves \cup {Opener} : w # s => (Writing(w)' <=> Writing(w))
         /\ Writing(s)' <=> at \in {"keeping", "naming"}
         /\ s \in InUpsert <=> saves[s].at \in {"keep", "keeping", "name", "naming"}
         /\ Writing(s) <=> saves[s].at \in {"keeping", "naming"}
<1>1. /\ DOMAIN saves' = Saves /\ \A x \in Saves \ {s} : saves'[x] = saves[x]
      /\ saves'[s].at = at
  BY SendMoves DEF PlanInv
<1>2. s # Opener
  BY PlanNames
<1>3. \A w : w \in InUpsert <=> \/ w \in Saves /\ saves[w].at \in {"keep", "keeping", "name", "naming"}
                                \/ w = Opener /\ openingPlan.at \in {"store", "storing"}
  BY DEF InUpsert
<1>4. \A w : w \in InUpsert' <=> \/ w \in Saves /\ saves'[w].at \in {"keep", "keeping", "name", "naming"}
                                 \/ w = Opener /\ openingPlan.at \in {"store", "storing"}
  BY DEF InUpsert
<1>5. InUpsert' = IF at \in {"keep", "keeping", "name", "naming"} THEN InUpsert \cup {s}
                  ELSE InUpsert \ {s}
  BY <1>1, <1>2, <1>3, <1>4
<1>6. ASSUME NEW w \in InUpsert, w # s PROVE SeenBy(w)' = SeenBy(w)
  BY <1>1, <1>3, <1>6 DEF SeenBy
<1>7. SeenBy(s)' = saves'[s].seen /\ SeenBy(s) = saves[s].seen
  BY <1>2 DEF SeenBy
<1>8. \A w \in Saves \cup {Opener} : w # s => (Writing(w)' <=> Writing(w))
  BY <1>1 DEF Writing
<1>9. /\ Writing(s)' <=> at \in {"keeping", "naming"}
      /\ s \in InUpsert <=> saves[s].at \in {"keep", "keeping", "name", "naming"}
      /\ Writing(s) <=> saves[s].at \in {"keeping", "naming"}
  BY <1>1, <1>2, <1>3 DEF Writing
<1> QED
  BY <1>5, <1>6, <1>7, <1>8, <1>9

(* The client's request rests. *)
LEMMA ClientRests ==
  ASSUME PlanInv, UNCHANGED openingPlan, overlapped \subseteq overlapped', torn' = torn,
         takenUp \subseteq takenUp'
  PROVE  Opening' /\ GrantsOpen'
BY DEF PlanInv, Opening, GrantsOpen

(* The shapes of the sends, the file and the request stay. *)
LEMMA SendShapes ==
  ASSUME PlanInv, NEW s \in Saves, NEW at \in SaveSteps, Step(s, at) \/ ReadAs(s, at),
         UNCHANGED openingPlan, file' = [whole |-> file'.whole, records |-> file'.records],
         takenUp' \subseteq takenUp \cup {s},
         s \in takenUp' => at \in {"posted", "name", "naming", "named", "done"}
  PROVE  PlanShapes'
<1>1. /\ DOMAIN saves' = Saves /\ \A x \in Saves \ {s} : saves'[x] = saves[x]
      /\ saves'[s].at = at
      /\ saves'[s] = [at |-> saves'[s].at, of |-> saves'[s].of, seen |-> saves'[s].seen]
  BY SendMoves DEF PlanInv
<1>2. \A k \in takenUp' : saves'[k].at \in {"posted", "name", "naming", "named", "done"}
  BY <1>1 DEF PlanInv, PlanShapes
<1>3. ASSUME NEW x \in Saves
      PROVE  /\ saves'[x] = [at |-> saves'[x].at, of |-> saves'[x].of, seen |-> saves'[x].seen]
             /\ saves'[x].at \in SaveSteps
  <2>1. CASE x = s
    BY <1>1, <2>1
  <2>2. CASE x # s
    BY <1>1, <2>2 DEF PlanInv, PlanShapes
  <2> QED
    BY <2>1, <2>2
<1>4. takenUp' \subseteq Saves
  BY DEF PlanInv, PlanShapes
<1>5. openingPlan' = [at |-> openingPlan'.at, key |-> openingPlan'.key, by |-> openingPlan'.by,
                      granted |-> openingPlan'.granted, seen |-> openingPlan'.seen,
                      answer |-> openingPlan'.answer, asked |-> openingPlan'.asked]
  BY DEF PlanInv, PlanShapes
<1> QED
  BY <1>1, <1>2, <1>3, <1>4, <1>5 DEF PlanShapes

(* A step of a send that is in no upsert before or after it. *)
LEMMA SendOutside ==
  ASSUME PlanInv, NEW s \in Saves, NEW at \in {"posted", "done"}, Step(s, at),
         saves[s].at \in {"encrypted", "kept", "posted", "named"},
         UNCHANGED <<openingPlan, file, writers, torn>>, overlapped \subseteq overlapped',
         takenUp \subseteq takenUp', takenUp' \subseteq takenUp \cup {s},
         Kept(s)' => Kept(s), \A k \in Saves : SentOnce(k)'
  PROVE  PlanInv'
<1>1. at \in SaveSteps /\ at \notin {"keep", "keeping", "name", "naming"}
  BY DEF SaveSteps
<1>2. /\ DOMAIN saves' = Saves /\ \A x \in Saves \ {s} : saves'[x] = saves[x]
  BY <1>1, SendMoves DEF PlanInv
<1>3. /\ InUpsert' = InUpsert \ {s} /\ s \notin InUpsert
      /\ \A w \in InUpsert : w # s => SeenBy(w)' = SeenBy(w)
      /\ \A w \in Saves \cup {Opener} : w # s => (Writing(w)' <=> Writing(w))
      /\ ~Writing(s)' /\ ~Writing(s)
  BY <1>1, SendEffects
<1>4. file' = [whole |-> file'.whole, records |-> file'.records]
  BY DEF PlanInv, PlanShapes
<1>5. PlanShapes'
  BY <1>1, <1>4, SendShapes
<1>6. \A k \in Saves : Kept(k)' => Kept(k)
  BY <1>2 DEF Kept
<1>7. Apart' /\ StoredIsFound' /\ \A k \in Saves : KeyStays(k)'
  BY <1>3, <1>6, RecordsRest
<1>8. WritersWrite' /\ WholeOrWritten'
  BY <1>3, WritersRest
<1>9. Opening' /\ GrantsOpen'
  BY ClientRests
<1> QED
  BY <1>5, <1>7, <1>8, <1>9 DEF PlanInv

(* The plan is posted, or the save, the post or the browser fails. *)
LEMMA SaveFailsKeeps ==
  ASSUME PlanInv, NEW s \in Saves, saves[s].at \in {"encrypted", "kept", "posted", "named"},
         Step(s, "done"), recent' = recent \ {saves[s].of}, again \subseteq again',
         s \in takenUp' => saves[s].of \in again',
         UNCHANGED <<openingPlan, file, writers, torn>>, overlapped \subseteq overlapped',
         takenUp \subseteq takenUp', takenUp' \subseteq takenUp \cup {s},
         saves[s].at = "encrypted" => takenUp' = takenUp
  PROVE  PlanInv'
<1>1. "done" \in SaveSteps
  BY DEF SaveSteps
<1>2. /\ DOMAIN saves' = Saves /\ \A x \in Saves \ {s} : saves'[x] = saves[x]
      /\ saves'[s].at = "done" /\ \A x \in Saves : saves'[x].of = saves[x].of
  BY <1>1, SendMoves DEF PlanInv
<1>3. Live(s)
  BY DEF Live
<1>4. \A k \in Saves : SentOnce(k)'
  BY <1>2, <1>3, SendDropped
<1>5. Kept(s)' => Kept(s)
  BY <1>2 DEF Kept
<1> QED
  BY <1>4, <1>5, SendOutside

(* The platform stores the plan, with or without its answer, or refuses. *)
LEMMA PostKeeps ==
  ASSUME PlanInv, NEW s \in Saves, Post(s)
  PROVE  PlanInv'
<1>1. /\ saves[s].at = "kept" /\ UNCHANGED <<openingPlan, file, writers, torn>>
      /\ overlapped' = overlapped
  BY DEF Post
<1>2. CASE takenUp' = takenUp \cup {s} /\ Step(s, "posted") /\ UNCHANGED <<recent, again>>
  <2>1. "posted" \in SaveSteps
    BY DEF SaveSteps
  <2>2. /\ DOMAIN saves' = Saves /\ \A x \in Saves \ {s} : saves'[x] = saves[x]
        /\ saves'[s].at = "posted" /\ \A x \in Saves : saves'[x].of = saves[x].of
    BY <1>2, <2>1, SendMoves DEF PlanInv
  <2>3. ASSUME NEW k \in Saves, Live(k)' \/ k \in takenUp' PROVE Live(k) \/ k \in takenUp
    BY <1>1, <1>2, <2>2, <2>3 DEF Live
  <2>4. \A k \in Saves : SentOnce(k)'
    BY <1>2, <2>2, <2>3, SendsRest
  <2>5. Kept(s)
    BY <1>1 DEF Kept
  <2> QED
    BY <1>1, <1>2, <2>4, <2>5, SendOutside
<1>3. CASE takenUp' = takenUp \cup {s} /\ Step(s, "done")
           /\ recent' = recent \ {saves[s].of} /\ again' = again \cup {saves[s].of}
  BY <1>1, <1>3, SaveFailsKeeps
<1>4. CASE SaveFails(s) /\ UNCHANGED takenUp
  BY <1>1, <1>4, SaveFailsKeeps DEF SaveFails
<1> QED
  BY <1>2, <1>3, <1>4 DEF Post

(* The browser opens or not. *)
LEMMA BrowserKeeps ==
  ASSUME PlanInv, NEW s \in Saves, OpensBrowser(s)
  PROVE  PlanInv'
<1>1. /\ saves[s].at = "named" /\ UNCHANGED <<openingPlan, file, writers, torn, takenUp>>
      /\ overlapped' = overlapped
  BY DEF OpensBrowser
<1>2. CASE Step(s, "done") /\ UNCHANGED <<recent, again>>
  <2>1. "done" \in SaveSteps
    BY DEF SaveSteps
  <2>2. /\ DOMAIN saves' = Saves /\ \A x \in Saves \ {s} : saves'[x] = saves[x]
        /\ saves'[s].at = "done" /\ \A x \in Saves : saves'[x].of = saves[x].of
    BY <1>2, <2>1, SendMoves DEF PlanInv
  <2>3. ASSUME NEW k \in Saves, Live(k)' \/ k \in takenUp' PROVE Live(k) \/ k \in takenUp
    BY <1>1, <2>2, <2>3 DEF Live
  <2>4. \A k \in Saves : SentOnce(k)'
    BY <1>2, <2>2, <2>3, SendsRest
  <2>5. Kept(s)' => Kept(s)
    BY <1>1, <2>2 DEF Kept
  <2> QED
    BY <1>1, <1>2, <2>4, <2>5, SendOutside
<1>3. CASE SaveFails(s)
  BY <1>1, <1>3, SaveFailsKeeps DEF SaveFails
<1> QED
  BY <1>2, <1>3 DEF OpensBrowser

(* A send reads the file for an upsert, truncates it and fills it. *)
LEMMA SaveReadsKeeps ==
  ASSUME PlanInv, NEW s \in Saves, SaveReads(s)
  PROVE  PlanInv'
<1>1. /\ saves[s].at \in {"encrypted", "posted"} /\ Reads(s)
      /\ UNCHANGED <<openingPlan, file, writers, torn>> /\ takenUp' = takenUp
      /\ overlapped \subseteq overlapped'
  BY DEF SaveReads, Reads
<1>2. CASE ~file.whole
  <2>1. SaveFails(s)
    BY <1>2 DEF SaveReads
  <2> QED
    BY <1>1, <2>1, SaveFailsKeeps DEF SaveFails
<1>3. CASE file.whole
  <2> DEFINE at == IF saves[s].at = "encrypted" THEN "keep" ELSE "name"
  <2>1. ReadAs(s, at) /\ UNCHANGED <<recent, again>>
    BY <1>3 DEF SaveReads
  <2>2. at \in SaveSteps /\ at \in {"keep", "name"}
    BY DEF SaveSteps
  <2>3. saves[s].at = "encrypted" <=> at = "keep"
    BY <1>1
  <2> HIDE DEF at
  <2>4. /\ DOMAIN saves' = Saves /\ \A x \in Saves \ {s} : saves'[x] = saves[x]
        /\ saves'[s].at = at /\ \A x \in Saves : saves'[x].of = saves[x].of
        /\ saves'[s].seen = file.records
    BY <2>1, <2>2, SendMoves DEF PlanInv
  <2>5. /\ InUpsert' = InUpsert \cup {s} /\ s \notin InUpsert
        /\ \A w \in InUpsert : SeenBy(w)' = SeenBy(w)
        /\ SeenBy(s)' = file.records
        /\ \A w \in Saves \cup {Opener} : w # s => (Writing(w)' <=> Writing(w))
        /\ ~Writing(s)' /\ ~Writing(s)
    BY <1>1, <2>1, <2>2, <2>4, SendEffects
  <2>6. PlanShapes'
    <3>1. file' = [whole |-> file'.whole, records |-> file'.records]
      BY <1>1 DEF PlanInv, PlanShapes
    <3>2. s \in takenUp => at = "name"
      BY <1>1, <2>2, <2>3 DEF PlanInv, PlanShapes
    <3> QED
      BY <1>1, <2>1, <2>2, <3>1, <3>2, SendShapes
  <2>7. ASSUME NEW k \in Saves, Kept(k)' PROVE Kept(k)
    <3>1. CASE k = s
      BY <1>1, <2>2, <2>3, <2>4, <2>7, <3>1 DEF Kept
    <3>2. CASE k # s
      BY <1>1, <2>4, <2>7, <3>2 DEF Kept
    <3> QED
      BY <3>1, <3>2
  <2>8. Apart' /\ StoredIsFound' /\ \A k \in Saves : KeyStays(k)'
    BY <1>1, <2>5, <2>7, RecordsRead
  <2>9. WritersWrite' /\ WholeOrWritten'
    BY <1>1, <2>5, WritersRest
  <2>10. \A k \in Saves : SentOnce(k)'
    <3>1. ASSUME NEW k \in Saves, Live(k)' \/ k \in takenUp' PROVE Live(k) \/ k \in takenUp
      BY <1>1, <2>4, <3>1 DEF Live
    <3> QED
      BY <2>1, <2>4, <3>1, SendsRest
  <2>11. Opening' /\ GrantsOpen'
    BY <1>1, ClientRests
  <2> QED
    BY <2>6, <2>8, <2>9, <2>10, <2>11 DEF PlanInv
<1> QED
  BY <1>2, <1>3

(* It truncates the file: nobody has read it since, or both are known. *)
LEMMA SaveTruncatesKeeps ==
  ASSUME PlanInv, NEW s \in Saves, SaveTruncates(s)
  PROVE  PlanInv'
<1>1. PICK at \in {"keeping", "naming"} :
        /\ Step(s, at) /\ saves[s].at = IF at = "keeping" THEN "keep" ELSE "name"
  BY DEF SaveTruncates
<1>2. /\ Truncates(s) /\ UNCHANGED openingPlan
      /\ recent' = recent /\ takenUp' = takenUp /\ again' = again
      /\ overlapped' = overlapped /\ torn' = torn
  BY DEF SaveTruncates
<1>3. at \in SaveSteps
  BY DEF SaveSteps
<1>4. /\ DOMAIN saves' = Saves /\ \A x \in Saves \ {s} : saves'[x] = saves[x]
      /\ saves'[s].at = at /\ \A x \in Saves : saves'[x].of = saves[x].of
      /\ saves'[s].seen = saves[s].seen
  BY <1>1, <1>3, SendMoves DEF PlanInv
<1>5. /\ InUpsert' = InUpsert
      /\ \A w \in InUpsert : SeenBy(w)' = SeenBy(w)
      /\ \A w \in Saves \cup {Opener} : w # s => (Writing(w)' <=> Writing(w))
      /\ Writing(s)'
  BY <1>1, <1>2, <1>3, <1>4, SendEffects
<1>6. file' = [whole |-> file'.whole, records |-> file'.records] /\ file'.records = file.records
  <2>1. file = [whole |-> file.whole, records |-> file.records]
    BY DEF PlanInv, PlanShapes
  <2>2. file' = [file EXCEPT !.whole = FALSE]
    BY <1>2 DEF Truncates
  <2>3. file' = [whole |-> FALSE, records |-> file.records]
    BY <2>1, <2>2
  <2> QED
    BY <2>3
<1>7. PlanShapes'
  <2>1. s \in takenUp => at = "naming"
    BY <1>1 DEF PlanInv, PlanShapes
  <2> QED
    BY <1>1, <1>2, <1>3, <1>6, <2>1, SendShapes
<1>8. ASSUME NEW k \in Saves, Kept(k)' PROVE Kept(k)
  BY <1>1, <1>2, <1>4, <1>8 DEF Kept
<1>9. Apart' /\ StoredIsFound' /\ \A k \in Saves : KeyStays(k)'
  BY <1>2, <1>5, <1>6, <1>8, RecordsRest
<1>10. WritersWrite' /\ WholeOrWritten'
  BY <1>2, <1>5, WriterBegins
<1>11. \A k \in Saves : SentOnce(k)'
  <2>1. ASSUME NEW k \in Saves, Live(k)' \/ k \in takenUp' PROVE Live(k) \/ k \in takenUp
    BY <1>1, <1>2, <1>4, <2>1 DEF Live
  <2> QED
    BY <1>2, <1>4, <2>1, SendsRest
<1>12. Opening' /\ GrantsOpen'
  BY <1>2, ClientRests
<1> QED
  BY <1>7, <1>9, <1>10, <1>11, <1>12 DEF PlanInv

(* It fills the file: from here on its key is kept. *)
LEMMA SaveFillsKeeps ==
  ASSUME PlanInv, NEW s \in Saves, SaveFills(s)
  PROVE  PlanInv'
<1>1. PICK at \in {"kept", "named"} :
        /\ Step(s, at) /\ saves[s].at = IF at = "kept" THEN "keeping" ELSE "naming"
        /\ Fills(s, Upserted(saves[s].seen, s, IF at = "kept" THEN {"source"} ELSE Names))
  BY DEF SaveFills
<1> DEFINE by == IF at = "kept" THEN {"source"} ELSE Names
<1>2. /\ UNCHANGED openingPlan
      /\ recent' = recent /\ takenUp' = takenUp /\ again' = again
      /\ overlapped' = overlapped /\ torn' = torn
  BY DEF SaveFills
<1>3. at \in SaveSteps /\ at \notin {"keep", "keeping", "name", "naming"}
  BY DEF SaveSteps
<1>4. /\ DOMAIN saves' = Saves /\ \A x \in Saves \ {s} : saves'[x] = saves[x]
      /\ saves'[s].at = at /\ \A x \in Saves : saves'[x].of = saves[x].of
  BY <1>1, <1>3, SendMoves DEF PlanInv
<1>5. /\ InUpsert' = InUpsert \ {s} /\ s \in InUpsert
      /\ \A w \in InUpsert : w # s => SeenBy(w)' = SeenBy(w)
      /\ SeenBy(s) = saves[s].seen
      /\ \A w \in Saves \cup {Opener} : w # s => (Writing(w)' <=> Writing(w))
      /\ ~Writing(s)' /\ Writing(s)
  BY <1>1, <1>2, <1>3, SendEffects
<1>6. /\ WritersWrite' /\ WholeOrWritten'
      /\ file'.records = Upserted(SeenBy(s), s, by)
      /\ file' = [whole |-> file'.whole, records |-> file'.records]
  BY <1>1, <1>2, <1>5, WriterEnds
<1>7. by \in SUBSET Names /\ (at = "named" => by = Names) /\ (at = "kept" => by = {"source"})
  BY DEF Names
<1> HIDE DEF by
<1>8. s \in takenUp => at = "named"
  BY <1>1 DEF PlanInv, PlanShapes
<1>9. PlanShapes'
  BY <1>1, <1>2, <1>3, <1>6, <1>8, SendShapes
<1>10. ASSUME NEW k \in Saves, Kept(k)' PROVE Kept(k) \/ (k = s /\ by = {"source"})
  BY <1>1, <1>2, <1>4, <1>7, <1>10 DEF Kept
<1>11. openingPlan.key # s \/ by = Names
  BY <1>7, <1>8, PlanNames DEF PlanInv, Opening
<1>12. Apart' /\ StoredIsFound' /\ \A k \in Saves : KeyStays(k)'
  <2>1. s \in InUpsert /\ InUpsert' = InUpsert \ {s} /\ UNCHANGED overlapped
    BY <1>2, <1>5
  <2>2. \A w \in InUpsert' : SeenBy(w)' = SeenBy(w)
    BY <1>5
  <2>3. file'.records = Upserted(SeenBy(s), s, by)
    BY <1>6
  <2>4. \A k \in Saves : Kept(k)' => Kept(k) \/ (k = s /\ k = s /\ by = {"source"})
    BY <1>10
  <2>5. openingPlan'.key = openingPlan.key /\ openingPlan'.by = openingPlan.by
    BY <1>2
  <2>6. openingPlan'.at = "find again" =>
          \/ s = Opener /\ s = openingPlan.key /\ by = openingPlan.by
          \/ openingPlan.at = "find again" /\ (openingPlan.key # s \/ by = Names)
    BY <1>2, <1>11
  <2> QED
    BY <1>7, <2>1, <2>2, <2>3, <2>4, <2>5, <2>6, RecordsWritten, Zenon
<1>13. \A k \in Saves : SentOnce(k)'
  <2>1. ASSUME NEW k \in Saves, Live(k)' \/ k \in takenUp' PROVE Live(k) \/ k \in takenUp
    BY <1>1, <1>2, <1>4, <2>1 DEF Live
  <2> QED
    BY <1>2, <1>4, <2>1, SendsRest
<1>14. Opening' /\ GrantsOpen'
  BY <1>2, ClientRests
<1> QED
  BY <1>6, <1>9, <1>12, <1>13, <1>14 DEF PlanInv

(* A proposal that is not listed is sent: whatever had it is forgotten. *)
LEMMA SendKeeps ==
  ASSUME PlanInv, NEW s \in Saves, NEW p, NEW old \in SUBSET recent, Send(s, p, old)
  PROVE  PlanInv'
<1>1. /\ saves[s] = NoSave /\ saves[s].at = "none" /\ p \notin recent \ old
      /\ recent' = (recent \ old) \cup {p} /\ again' = again \cup old
      /\ saves' = [saves EXCEPT ![s] = [NoSave EXCEPT !.at = "encrypted", !.of = p]]
      /\ UNCHANGED <<openingPlan, file, writers, torn>>
      /\ takenUp' = takenUp /\ overlapped' = overlapped
  BY DEF Send, NoSave
<1>2. /\ DOMAIN saves' = Saves /\ \A x \in Saves \ {s} : saves'[x] = saves[x]
      /\ saves'[s] = [at |-> "encrypted", of |-> p, seen |-> {}]
  BY <1>1 DEF PlanInv, PlanShapes, NoSave
<1>3. saves'[s].at = "encrypted" /\ saves'[s].of = p /\ s # Opener /\ s \notin takenUp
  BY <1>1, <1>2, PlanNames DEF PlanInv, PlanShapes
<1>4. PlanShapes'
  BY <1>1, <1>2, <1>3 DEF PlanInv, PlanShapes, SaveSteps
<1>5. /\ InUpsert' = InUpsert
      /\ \A w \in InUpsert : SeenBy(w)' = SeenBy(w)
      /\ \A w \in Saves \cup {Opener} : Writing(w)' <=> Writing(w)
  <2>1. \A w : w \in InUpsert <=> \/ w \in Saves /\ saves[w].at \in {"keep", "keeping", "name", "naming"}
                                  \/ w = Opener /\ openingPlan.at \in {"store", "storing"}
    BY DEF InUpsert
  <2>2. \A w : w \in InUpsert' <=> \/ w \in Saves /\ saves'[w].at \in {"keep", "keeping", "name", "naming"}
                                   \/ w = Opener /\ openingPlan.at \in {"store", "storing"}
    BY <1>1 DEF InUpsert
  <2>3. InUpsert' = InUpsert
    BY <1>1, <1>2, <1>3, <2>1, <2>2
  <2>4. ASSUME NEW w \in InUpsert PROVE SeenBy(w)' = SeenBy(w)
    BY <1>1, <1>2, <1>3, <2>1, <2>4 DEF SeenBy
  <2>5. \A w \in Saves \cup {Opener} : Writing(w)' <=> Writing(w)
    BY <1>1, <1>2, <1>3 DEF Writing
  <2> QED
    BY <2>3, <2>4, <2>5
<1>6. \A k \in Saves : Kept(k)' => Kept(k)
  BY <1>1, <1>2, <1>3 DEF Kept
<1>7. Apart' /\ StoredIsFound' /\ \A k \in Saves : KeyStays(k)'
  BY <1>1, <1>5, <1>6, RecordsRest
<1>8. WritersWrite' /\ WholeOrWritten'
  BY <1>1, <1>5, WritersRest
<1>9. Opening' /\ GrantsOpen'
  BY <1>1, ClientRests
<1>10. ASSUME NEW k \in Saves PROVE SentOnce(k)'
  <2>1. SUFFICES ASSUME Live(k)' \/ k \in takenUp', saves'[k].of \notin again'
                 PROVE  /\ saves'[k].of \in recent'
                        /\ \A j \in Saves : (Live(j)' \/ j \in takenUp') /\ saves'[j].of = saves'[k].of
                                              => j = k
    BY DEF SentOnce
  <2>2. \A j \in Saves \ {s} : (Live(j)' \/ j \in takenUp') =>
          /\ Live(j) \/ j \in takenUp
          /\ saves'[j].of = saves[j].of
    BY <1>1, <1>2 DEF Live
  <2>3. \A j \in Saves \ {s} : (Live(j)' \/ j \in takenUp') /\ saves[j].of \notin again =>
          saves[j].of \in recent
    BY <2>2 DEF PlanInv, SentOnce
  <2>4. CASE k = s
    <3>1. p \notin again /\ p \notin old /\ p \notin recent
      BY <1>1, <1>3, <2>1, <2>4
    <3>2. \A j \in Saves \ {s} : (Live(j)' \/ j \in takenUp') => saves'[j].of # p
      BY <2>2, <2>3, <3>1
    <3> QED
      BY <1>1, <1>3, <2>4, <3>2
  <2>5. CASE k # s
    <3>1. saves'[k].of = saves[k].of /\ saves[k].of \notin again /\ saves[k].of \notin old
      BY <1>1, <2>1, <2>2, <2>5
    <3>2. saves[k].of \in recent /\ saves[k].of # p
      BY <1>1, <2>1, <2>3, <2>5, <3>1
    <3>3. SentOnce(k) /\ (Live(k) \/ k \in takenUp)
      BY <2>1, <2>2, <2>5 DEF PlanInv
    <3>4. \A j \in Saves : (Live(j) \/ j \in takenUp) /\ saves[j].of = saves[k].of => j = k
      BY <3>1, <3>3 DEF SentOnce
    <3>5. ASSUME NEW j \in Saves, Live(j)' \/ j \in takenUp', saves'[j].of = saves'[k].of
          PROVE  j = k
      <4>1. j # s
        BY <1>3, <3>1, <3>2, <3>5
      <4> QED
        BY <2>2, <3>1, <3>4, <3>5, <4>1
    <3> QED
      BY <1>1, <3>1, <3>2, <3>5
  <2> QED
    BY <2>4, <2>5
<1> QED
  BY <1>4, <1>7, <1>8, <1>9, <1>10 DEF PlanInv

(* A step of the client's request changes what it has read and whether it
   writes, and no send's. *)
LEMMA ClientEffects ==
  ASSUME PlanInv, NEW at, NEW k, NEW by, NEW granted, NEW z, NEW answer, NEW asks,
         openingPlan' = [at |-> at, key |-> k, by |-> by, granted |-> granted, seen |-> z,
                         answer |-> answer, asked |-> asks],
         UNCHANGED <<saves, recent, takenUp, again>>,
         file' = [whole |-> file'.whole, records |-> file'.records]
  PROVE  /\ InUpsert' = IF at \in {"store", "storing"} THEN InUpsert \cup {Opener}
                        ELSE InUpsert \ {Opener}
         /\ \A w \in InUpsert : w # Opener => SeenBy(w)' = SeenBy(w)
         /\ SeenBy(Opener)' = z /\ SeenBy(Opener) = openingPlan.seen
         /\ \A w \in Saves : Writing(w)' <=> Writing(w)
         /\ Writing(Opener)' <=> at = "storing"
         /\ Opener \in InUpsert <=> openingPlan.at \in {"store", "storing"}
         /\ Writing(Opener) <=> openingPlan.at = "storing"
         /\ openingPlan'.at = at /\ openingPlan'.key = k /\ openingPlan'.by = by
         /\ openingPlan'.granted = granted /\ openingPlan'.answer = answer
         /\ PlanShapes' /\ \A s \in Saves : SentOnce(s)' /\ (Kept(s)' => Kept(s))
<1>1. /\ openingPlan'.at = at /\ openingPlan'.key = k /\ openingPlan'.by = by
      /\ openingPlan'.granted = granted /\ openingPlan'.seen = z /\ openingPlan'.answer = answer
      /\ openingPlan'.asked = asks
  OBVIOUS
<1>2. Opener \notin Saves
  BY PlanNames
<1>3. \A w : w \in InUpsert <=> \/ w \in Saves /\ saves[w].at \in {"keep", "keeping", "name", "naming"}
                                \/ w = Opener /\ openingPlan.at \in {"store", "storing"}
  BY DEF InUpsert
<1>4. \A w : w \in InUpsert' <=> \/ w \in Saves /\ saves[w].at \in {"keep", "keeping", "name", "naming"}
                                 \/ w = Opener /\ at \in {"store", "storing"}
  BY <1>1 DEF InUpsert
<1>5. InUpsert' = IF at \in {"store", "storing"} THEN InUpsert \cup {Opener}
                  ELSE InUpsert \ {Opener}
  BY <1>2, <1>3, <1>4
<1>6. ASSUME NEW w \in InUpsert, w # Opener PROVE SeenBy(w)' = SeenBy(w)
  BY <1>6 DEF SeenBy
<1>7. SeenBy(Opener)' = z /\ SeenBy(Opener) = openingPlan.seen
  BY <1>1 DEF SeenBy
<1>8. \A w \in Saves : Writing(w)' <=> Writing(w)
  BY <1>2 DEF Writing
<1>9. /\ Writing(Opener)' <=> at = "storing"
      /\ Opener \in InUpsert <=> openingPlan.at \in {"store", "storing"}
      /\ Writing(Opener) <=> openingPlan.at = "storing"
  BY <1>1, <1>2, <1>3 DEF Writing
<1>10. PlanShapes'
  <2>1. openingPlan' = [at |-> openingPlan'.at, key |-> openingPlan'.key, by |-> openingPlan'.by,
                        granted |-> openingPlan'.granted, seen |-> openingPlan'.seen,
                        answer |-> openingPlan'.answer, asked |-> openingPlan'.asked]
    BY <1>1
  <2> QED
    BY <2>1 DEF PlanInv, PlanShapes
<1>11. \A s \in Saves : SentOnce(s)' /\ (Kept(s)' => Kept(s))
  BY DEF PlanInv, SentOnce, Live, Kept
<1> QED
  BY <1>1, <1>5, <1>6, <1>7, <1>8, <1>9, <1>10, <1>11

(* A client asks for the key of a plan. *)
LEMMA AskKeeps ==
  ASSUME PlanInv, NEW k \in takenUp \cup {Foreign}, NEW q \in GrantRequests, Asks(k, q)
  PROVE  PlanInv'
<1>1. /\ openingPlan.at = "none"
      /\ openingPlan' = [at |-> "find", key |-> k, by |-> q.by, granted |-> q.granted, seen |-> {},
                         answer |-> "none", asked |-> openingPlan.asked + 1]
      /\ UNCHANGED <<saves, recent, takenUp, again, file, writers, overlapped, torn>>
  BY DEF Asks, NoOpening
<1>2. file' = [whole |-> file'.whole, records |-> file'.records]
  BY <1>1 DEF PlanInv, PlanShapes
<1>3. /\ InUpsert' = InUpsert \ {Opener} /\ Opener \notin InUpsert
      /\ \A w \in InUpsert : w # Opener => SeenBy(w)' = SeenBy(w)
      /\ \A w \in Saves : Writing(w)' <=> Writing(w)
      /\ ~Writing(Opener)' /\ ~Writing(Opener)
      /\ openingPlan'.at = "find" /\ openingPlan'.key = k /\ openingPlan'.by = q.by
      /\ openingPlan'.answer = "none"
      /\ PlanShapes' /\ \A s \in Saves : SentOnce(s)' /\ (Kept(s)' => Kept(s))
  BY <1>1, <1>2, ClientEffects
<1>4. Apart' /\ StoredIsFound' /\ \A s \in Saves : KeyStays(s)'
  BY <1>1, <1>3, RecordsRest
<1>5. WritersWrite' /\ WholeOrWritten'
  BY <1>1, <1>3, WritersRest
<1>6. q.by \subseteq Names
  BY PlanNames DEF Names
<1>7. Opening' /\ GrantsOpen'
  BY <1>1, <1>3, <1>6 DEF Opening, GrantsOpen
<1> QED
  BY <1>3, <1>4, <1>5, <1>7 DEF PlanInv

(* The request finds its key, unwraps a grant, or is refused for a reason. *)
LEMMA OpenReadsKeeps ==
  ASSUME PlanInv, OpenReads
  PROVE  PlanInv'
<1> DEFINE o == openingPlan
<1>1. /\ o.at \in {"find", "upsert", "find again"} /\ Reads(Opener)
      /\ UNCHANGED <<saves, recent, takenUp, again, file, writers, torn>>
      /\ overlapped \subseteq overlapped'
      /\ o = [at |-> o.at, key |-> o.key, by |-> o.by, granted |-> o.granted, seen |-> o.seen,
              answer |-> o.answer, asked |-> o.asked]
      /\ file' = [whole |-> file'.whole, records |-> file'.records]
      /\ o.key \in takenUp \cup {Foreign} /\ o.by \subseteq Names
  BY DEF OpenReads, Reads, PlanInv, PlanShapes, Opening
<1>2. \/ ~file.whole /\ Answers("error")
      \/ /\ file.whole /\ o.at = "upsert"
         /\ openingPlan' = [o EXCEPT !.at = "store", !.seen = file.records]
      \/ /\ Answers("opened")
      \/ /\ o.at = "find" /\ openingPlan' = [o EXCEPT !.at = "upsert"]
      \/ /\ ~Finds(file.records, o.key, o.by) /\ (o.at = "find again" \/ ~o.granted)
         /\ Answers("refused")
  BY DEF OpenReads
<1>3. CASE o.at = "upsert" /\ openingPlan' = [o EXCEPT !.at = "store", !.seen = file.records]
  <2>1. openingPlan' = [at |-> "store", key |-> o.key, by |-> o.by, granted |-> o.granted,
                        seen |-> file.records, answer |-> o.answer, asked |-> o.asked]
    BY <1>1, <1>3
  <2>2. /\ InUpsert' = InUpsert \cup {Opener} /\ Opener \notin InUpsert
        /\ \A w \in InUpsert : w # Opener => SeenBy(w)' = SeenBy(w)
        /\ SeenBy(Opener)' = file.records
        /\ \A w \in Saves : Writing(w)' <=> Writing(w)
        /\ ~Writing(Opener)' /\ ~Writing(Opener)
        /\ openingPlan'.at = "store" /\ openingPlan'.key = o.key /\ openingPlan'.by = o.by
        /\ openingPlan'.granted = o.granted /\ openingPlan'.answer = o.answer
        /\ PlanShapes' /\ \A s \in Saves : SentOnce(s)' /\ (Kept(s)' => Kept(s))
    BY <1>1, <1>3, <2>1, ClientEffects, ZenonT(30)
  <2>3. Apart' /\ StoredIsFound' /\ \A s \in Saves : KeyStays(s)'
    <3>1. \A w \in InUpsert : SeenBy(w)' = SeenBy(w)
      BY <2>2
    <3>2. ~(openingPlan'.at = "find again")
      BY <2>2
    <3>3. \A s \in Saves : Kept(s)' => Kept(s)
      BY <2>2
    <3> QED
      BY <1>1, <2>2, <3>1, <3>2, <3>3, RecordsRead
  <2>4. WritersWrite' /\ WholeOrWritten'
    BY <1>1, <2>2, WritersRest
  <2>5. Opening' /\ GrantsOpen'
    BY <1>1, <2>2 DEF PlanInv, Opening, GrantsOpen
  <2> QED
    BY <2>2, <2>3, <2>4, <2>5 DEF PlanInv
<1>4. ASSUME NEW at \in {"none", "upsert"}, NEW answer,
             openingPlan' = [at |-> at, key |-> o.key, by |-> o.by, granted |-> o.granted,
                             seen |-> o.seen, answer |-> answer, asked |-> o.asked],
             answer = "refused" /\ o.granted => o.by = {} \/ Opener \in overlapped',
             answer = "error" => torn \/ overlapped' # {}
      PROVE  PlanInv'
  <2>1. /\ InUpsert' = InUpsert \ {Opener} /\ Opener \notin InUpsert
        /\ \A w \in InUpsert : w # Opener => SeenBy(w)' = SeenBy(w)
        /\ \A w \in Saves : Writing(w)' <=> Writing(w)
        /\ ~Writing(Opener)' /\ ~Writing(Opener)
        /\ openingPlan'.at = at /\ openingPlan'.key = o.key /\ openingPlan'.by = o.by
        /\ openingPlan'.granted = o.granted /\ openingPlan'.answer = answer
        /\ PlanShapes' /\ \A s \in Saves : SentOnce(s)' /\ (Kept(s)' => Kept(s))
    <3>1. at \notin {"store", "storing"} /\ at # "storing" /\ o.at \notin {"store", "storing"}
      BY <1>1, <1>4
    <3>2. UNCHANGED <<saves, recent, takenUp, again>>
      BY <1>1
    <3>3. file' = [whole |-> file'.whole, records |-> file'.records]
      BY <1>1
    <3> HIDE DEF o
    <3>4. openingPlan' = [at |-> at, key |-> o.key, by |-> o.by, granted |-> o.granted,
                          seen |-> o.seen, answer |-> answer, asked |-> o.asked]
      BY <1>4
    <3> QED
      BY <3>1, <3>2, <3>3, <3>4, ClientEffects DEF o
  <2>2. Apart' /\ StoredIsFound' /\ \A s \in Saves : KeyStays(s)'
    BY <1>1, <2>1, RecordsRest
  <2>3. WritersWrite' /\ WholeOrWritten'
    BY <1>1, <2>1, WritersRest
  <2>4. Opening' /\ GrantsOpen'
    BY <1>1, <1>4, <2>1 DEF Opening, GrantsOpen
  <2> QED
    BY <2>1, <2>2, <2>3, <2>4 DEF PlanInv
<1>5. ASSUME NEW a, Answers(a)
      PROVE  openingPlan' = [at |-> "none", key |-> o.key, by |-> o.by, granted |-> o.granted,
                             seen |-> o.seen, answer |-> a, asked |-> o.asked]
  BY <1>1, <1>5 DEF Answers
<1>6. CASE ~file.whole /\ Answers("error")
  <2>1. torn \/ overlapped' # {}
    <3>1. CASE writers = {}
      BY <1>1, <1>6, <3>1 DEF PlanInv, WholeOrWritten
    <3>2. CASE writers # {}
      <4>1. PICK w \in writers : w \in Saves \cup {Opener}
        BY <3>2 DEF PlanInv, WholeOrWritten
      <4>2. w \in Saves /\ saves[w].at \in {"keeping", "naming"}
        BY <1>1, <4>1 DEF PlanInv, WritersWrite, Writing
      <4>3. w \in InUpsert \ {Opener}
        BY <4>2, PlanNames DEF InUpsert
      <4> QED
        BY <1>1, <4>3 DEF Reads, Meets
    <3> QED
      BY <3>1, <3>2
  <2> QED
    BY <1>4, <1>5, <1>6, <2>1
<1>7. CASE Answers("opened")
  BY <1>4, <1>5, <1>7
<1>8. CASE openingPlan' = [o EXCEPT !.at = "upsert"]
  <2>1. openingPlan' = [at |-> "upsert", key |-> o.key, by |-> o.by, granted |-> o.granted,
                        seen |-> o.seen, answer |-> o.answer, asked |-> o.asked]
    BY <1>1, <1>8
  <2>2. /\ o.answer = "refused" /\ o.granted => o.by = {} \/ Opener \in overlapped'
        /\ o.answer = "error" => torn \/ overlapped' # {}
    BY <1>1 DEF PlanInv, GrantsOpen
  <2> QED
    BY <1>4, <2>1, <2>2
<1>9. CASE /\ ~Finds(file.records, o.key, o.by) /\ (o.at = "find again" \/ ~o.granted)
           /\ Answers("refused")
  <2>1. o.granted => o.by = {} \/ Opener \in overlapped'
    BY <1>1, <1>9 DEF PlanInv, StoredIsFound
  <2>2. openingPlan' = [at |-> "none", key |-> o.key, by |-> o.by, granted |-> o.granted,
                        seen |-> o.seen, answer |-> "refused", asked |-> o.asked]
    BY <1>5, <1>9
  <2>3. "refused" # "error" /\ "none" \in {"none", "upsert"}
    OBVIOUS
  <2> QED
    BY <1>4, <2>1, <2>2, <2>3
<1> QED
  BY <1>2, <1>3, <1>6, <1>7, <1>8, <1>9

(* The request truncates the file as an upsert does. *)
LEMMA OpenTruncatesKeeps ==
  ASSUME PlanInv, OpenTruncates
  PROVE  PlanInv'
<1> DEFINE o == openingPlan
<1>1. /\ o.at = "store" /\ Truncates(Opener) /\ openingPlan' = [o EXCEPT !.at = "storing"]
      /\ UNCHANGED <<saves, recent, takenUp, again, overlapped, torn>>
      /\ o = [at |-> o.at, key |-> o.key, by |-> o.by, granted |-> o.granted, seen |-> o.seen,
              answer |-> o.answer, asked |-> o.asked]
      /\ file = [whole |-> file.whole, records |-> file.records]
      /\ o.key \in takenUp \cup {Foreign} /\ o.by \subseteq Names
  BY DEF OpenTruncates, PlanInv, PlanShapes, Opening
<1>2. /\ file' = [whole |-> file'.whole, records |-> file'.records]
      /\ file'.records = file.records
  <2>1. file' = [whole |-> FALSE, records |-> file.records]
    BY <1>1 DEF Truncates
  <2> QED
    BY <2>1
<1>3. openingPlan' = [at |-> "storing", key |-> o.key, by |-> o.by, granted |-> o.granted,
                      seen |-> o.seen, answer |-> o.answer, asked |-> o.asked]
  BY <1>1
<1>4. /\ InUpsert' = InUpsert \cup {Opener} /\ Opener \in InUpsert
      /\ \A w \in InUpsert : w # Opener => SeenBy(w)' = SeenBy(w)
      /\ SeenBy(Opener)' = SeenBy(Opener)
      /\ \A w \in Saves : Writing(w)' <=> Writing(w)
      /\ Writing(Opener)'
      /\ openingPlan'.at = "storing" /\ openingPlan'.key = o.key /\ openingPlan'.by = o.by
      /\ openingPlan'.granted = o.granted /\ openingPlan'.answer = o.answer
      /\ PlanShapes' /\ \A s \in Saves : SentOnce(s)' /\ (Kept(s)' => Kept(s))
  BY <1>1, <1>2, <1>3, ClientEffects
<1>5. Apart' /\ StoredIsFound' /\ \A s \in Saves : KeyStays(s)'
  BY <1>1, <1>2, <1>4, RecordsRest
<1>6. WritersWrite' /\ WholeOrWritten'
  <2>1. \A w \in Saves \cup {Opener} : Writing(w)' <=> Writing(w) \/ w = Opener
    BY <1>4
  <2> QED
    BY <1>1, <2>1, WriterBegins
<1>7. Opening' /\ GrantsOpen'
  BY <1>1, <1>4 DEF PlanInv, Opening, GrantsOpen
<1> QED
  BY <1>4, <1>5, <1>6, <1>7 DEF PlanInv

(* The request fills the file: what it has stored is found from here on. *)
LEMMA OpenFillsKeeps ==
  ASSUME PlanInv, OpenFills
  PROVE  PlanInv'
<1> DEFINE o == openingPlan
<1>1. /\ o.at = "storing" /\ Fills(Opener, Upserted(o.seen, o.key, o.by))
      /\ openingPlan' = [o EXCEPT !.at = "find again", !.seen = {}]
      /\ UNCHANGED <<saves, recent, takenUp, again>> /\ overlapped' = overlapped /\ torn' = torn
      /\ o = [at |-> o.at, key |-> o.key, by |-> o.by, granted |-> o.granted, seen |-> o.seen,
              answer |-> o.answer, asked |-> o.asked]
      /\ o.key \in takenUp \cup {Foreign} /\ o.by \subseteq Names
  BY DEF OpenFills, PlanInv, PlanShapes, Opening
<1>2. openingPlan' = [at |-> "find again", key |-> o.key, by |-> o.by, granted |-> o.granted,
                      seen |-> {}, answer |-> o.answer, asked |-> o.asked]
  BY <1>1
<1>3. file' = [whole |-> file'.whole, records |-> file'.records]
  <2>1. PICK entire \in (IF Opener \in overlapped THEN BOOLEAN ELSE {TRUE}) :
          file' = [whole |-> entire /\ writers = {Opener}, records |-> Upserted(o.seen, o.key, o.by)]
    BY <1>1 DEF Fills
  <2> QED
    BY <2>1
<1>4. /\ InUpsert' = InUpsert \ {Opener} /\ Opener \in InUpsert
      /\ \A w \in InUpsert : w # Opener => SeenBy(w)' = SeenBy(w)
      /\ SeenBy(Opener) = o.seen
      /\ \A w \in Saves : Writing(w)' <=> Writing(w)
      /\ ~Writing(Opener)' /\ Writing(Opener)
      /\ openingPlan'.at = "find again" /\ openingPlan'.key = o.key /\ openingPlan'.by = o.by
      /\ openingPlan'.granted = o.granted /\ openingPlan'.answer = o.answer
      /\ PlanShapes' /\ \A s \in Saves : SentOnce(s)' /\ (Kept(s)' => Kept(s))
  BY <1>1, <1>2, <1>3, ClientEffects, ZenonT(30)
<1>5. WritersWrite' /\ WholeOrWritten' /\ file'.records = Upserted(SeenBy(Opener), o.key, o.by)
  <2>1. \A w \in Saves \cup {Opener} : Writing(w)' <=> Writing(w) /\ w # Opener
    BY <1>4, PlanNames
  <2>2. Fills(Opener, Upserted(SeenBy(Opener), o.key, o.by))
    BY <1>1, <1>4
  <2>3. UNCHANGED <<torn, overlapped>>
    BY <1>1
  <2> QED
    BY <1>4, <2>1, <2>2, <2>3, WriterEnds
<1>6. Apart' /\ StoredIsFound' /\ \A s \in Saves : KeyStays(s)'
  <2>1. \A w \in InUpsert' : SeenBy(w)' = SeenBy(w)
    BY <1>4
  <2>2. \A s \in Saves : Kept(s)' => Kept(s) \/ (s = Opener /\ s = o.key /\ o.by = {"source"})
    BY <1>4
  <2>3. openingPlan'.at = "find again" =>
          \/ Opener = Opener /\ o.key = o.key /\ o.by = o.by
          \/ o.at = "find again" /\ (o.key # o.key \/ o.by = Names)
    OBVIOUS
  <2>4. UNCHANGED overlapped /\ o.by \in SUBSET Names
    BY <1>1
  <2> QED
    BY <1>4, <1>5, <2>1, <2>2, <2>3, <2>4, RecordsWritten, Zenon
<1>7. Opening' /\ GrantsOpen'
  BY <1>1, <1>4 DEF PlanInv, Opening, GrantsOpen
<1> QED
  BY <1>4, <1>5, <1>6, <1>7 DEF PlanInv

(* The daemon dies: its upserts and writes are over, the file is as it was. *)
LEMMA DyingKeeps ==
  ASSUME PlanInv, PlanDaemonDies
  PROVE  PlanInv'
<1> DEFINE o == openingPlan
<1>1. /\ saves' = [s \in Saves |-> IF Live(s) THEN [saves[s] EXCEPT !.at = "done", !.seen = {}]
                                   ELSE saves[s]]
      /\ openingPlan' = [NoOpening EXCEPT !.asked = o.asked] /\ recent' = {} /\ writers' = {}
      /\ again' = again \cup {saves[s].of : s \in takenUp}
      /\ torn' = (torn \/ writers # {})
      /\ file' = file /\ takenUp' = takenUp /\ overlapped' = overlapped
  BY DEF PlanDaemonDies
<1>2. openingPlan' = [at |-> "none", key |-> Foreign, by |-> {}, granted |-> FALSE, seen |-> {},
                      answer |-> "none", asked |-> o.asked]
  BY <1>1 DEF NoOpening
<1>3. /\ openingPlan'.at = "none" /\ openingPlan'.key = Foreign /\ openingPlan'.by = {}
      /\ openingPlan'.answer = "none"
  BY <1>2
<1>4. ASSUME NEW s \in Saves
      PROVE  /\ Live(s) => saves'[s] = [at |-> "done", of |-> saves[s].of, seen |-> {}]
             /\ ~Live(s) => saves'[s] = saves[s]
  <2>1. saves[s] = [at |-> saves[s].at, of |-> saves[s].of, seen |-> saves[s].seen]
    BY DEF PlanInv, PlanShapes
  <2> QED
    BY <1>1, <2>1
<1>5. ASSUME NEW s \in Saves
      PROVE  /\ saves'[s].of = saves[s].of /\ saves'[s].at \in {"none", "done"}
             /\ saves'[s].at = "none" => saves[s].at = "none"
             /\ saves'[s] = [at |-> saves'[s].at, of |-> saves'[s].of, seen |-> saves'[s].seen]
  <2>1. CASE Live(s)
    <3>1. saves'[s] = [at |-> "done", of |-> saves[s].of, seen |-> {}]
      BY <1>4, <2>1
    <3> QED
      BY <3>1
  <2>2. CASE ~Live(s)
    <3>1. saves'[s] = saves[s] /\ saves[s].at \in {"none", "done"}
      BY <1>4, <2>2 DEF Live
    <3> QED
      BY <3>1 DEF PlanInv, PlanShapes
  <2> QED
    BY <2>1, <2>2
<1>6. PlanShapes'
  <2>1. DOMAIN saves' = Saves /\ takenUp' \subseteq Saves
    BY <1>1 DEF PlanInv, PlanShapes
  <2>2. \A s \in Saves : saves'[s].at \in SaveSteps
    BY <1>5 DEF SaveSteps
  <2>3. \A k \in takenUp' : saves'[k].at \in {"posted", "name", "naming", "named", "done"}
    BY <1>1, <1>5 DEF PlanInv, PlanShapes
  <2>4. openingPlan' = [at |-> openingPlan'.at, key |-> openingPlan'.key, by |-> openingPlan'.by,
                        granted |-> openingPlan'.granted, seen |-> openingPlan'.seen,
                        answer |-> openingPlan'.answer, asked |-> openingPlan'.asked]
    BY <1>2
  <2>5. file' = [whole |-> file'.whole, records |-> file'.records]
    BY <1>1 DEF PlanInv, PlanShapes
  <2> QED
    BY <1>5, <2>1, <2>2, <2>3, <2>4, <2>5 DEF PlanShapes
<1>7. InUpsert' = {} /\ \A w \in Saves \cup {Opener} : ~Writing(w)'
  BY <1>3, <1>5 DEF InUpsert, Writing
<1>8. WritersWrite' /\ WholeOrWritten'
  BY <1>1, <1>7 DEF WritersWrite, WholeOrWritten, PlanInv
<1>9. Apart' /\ StoredIsFound'
  BY <1>3, <1>7 DEF Apart, StoredIsFound
<1>10. ASSUME NEW k \in Saves PROVE KeyStays(k)'
  <2>1. Kept(k)' => Kept(k)
    BY <1>1, <1>5 DEF Kept
  <2>2. KeyStays(k)
    BY DEF PlanInv
  <2> QED
    BY <1>1, <1>7, <2>1, <2>2 DEF KeyStays, Record
<1>11. ASSUME NEW k \in Saves PROVE SentOnce(k)'
  <2>1. ~Live(k)'
    BY <1>5 DEF Live
  <2>2. again' = again \cup {saves[s].of : s \in takenUp} /\ takenUp' = takenUp
    BY <1>1
  <2>3. saves'[k].of = saves[k].of
    BY <1>5
  <2>4. k \in takenUp' => saves'[k].of \in again'
    BY <2>2, <2>3
  <2> QED
    BY <2>1, <2>4 DEF SentOnce
<1>12. Opening' /\ GrantsOpen'
  BY <1>3 DEF Opening, GrantsOpen
<1> QED
  BY <1>6, <1>8, <1>9, <1>10, <1>11, <1>12 DEF PlanInv

(* Nothing is proposed and nothing is stored at first. *)
LEMMA PlansStart == PlansInit => PlanInv
<1> SUFFICES ASSUME PlansInit PROVE PlanInv
  OBVIOUS
<1>1. /\ saves = [s \in Saves |-> NoSave] /\ openingPlan = NoOpening
      /\ file = [whole |-> TRUE, records |-> {}] /\ writers = {} /\ takenUp = {} /\ again = {}
  BY DEF PlansInit
<1>2. /\ openingPlan.at = "none" /\ openingPlan.key = Foreign /\ openingPlan.by = {}
      /\ openingPlan.answer = "none" /\ file.whole
      /\ \A s \in Saves : saves[s] = NoSave /\ saves[s].at = "none"
  BY <1>1 DEF NoSave, NoOpening
<1>3. PlanShapes
  BY <1>1, <1>2 DEF PlanShapes, NoSave, NoOpening, SaveSteps
<1>4. InUpsert = {} /\ \A w \in Saves \cup {Opener} : ~Writing(w)
  BY <1>2 DEF InUpsert, Writing
<1>5. WritersWrite /\ WholeOrWritten /\ Apart /\ StoredIsFound
  BY <1>1, <1>2, <1>4 DEF WritersWrite, WholeOrWritten, Apart, StoredIsFound
<1>6. Opening /\ GrantsOpen
  BY <1>2 DEF Opening, GrantsOpen
<1>7. ASSUME NEW k \in Saves PROVE KeyStays(k) /\ SentOnce(k)
  BY <1>1, <1>2 DEF KeyStays, SentOnce, Kept, Live
<1> QED
  BY <1>3, <1>5, <1>6, <1>7 DEF PlanInv

(* Every step of a send, of the request and of the daemon keeps the invariant. *)
LEMMA PlansStep == PlanInv /\ [PlansNext]_planVars => PlanInv'
<1> SUFFICES ASSUME PlanInv, [PlansNext]_planVars PROVE PlanInv'
  OBVIOUS
<1>1. CASE UNCHANGED planVars
  <2>1. UNCHANGED <<saves, openingPlan, recent, file, writers, takenUp, again, overlapped, torn>>
    BY <1>1 DEF planVars
  <2>2. PlanShapes' /\ WritersWrite' /\ WholeOrWritten' /\ Opening' /\ GrantsOpen'
    BY <2>1 DEF PlanInv, PlanShapes, WritersWrite, WholeOrWritten, Writing, Opening, GrantsOpen
  <2>3. InUpsert' = InUpsert /\ \A w \in InUpsert' : SeenBy(w)' = SeenBy(w)
    BY <2>1 DEF InUpsert, SeenBy
  <2>4. \A k \in Saves : Kept(k)' => Kept(k)
    BY <2>1 DEF Kept
  <2>5. Apart' /\ StoredIsFound' /\ \A k \in Saves : KeyStays(k)'
    BY <2>1, <2>3, <2>4, RecordsRest
  <2>6. \A k \in Saves : SentOnce(k)'
    BY <2>1 DEF PlanInv, SentOnce, Live
  <2> QED
    BY <2>2, <2>5, <2>6 DEF PlanInv
<1> QED
  BY <1>1, SendKeeps, SaveReadsKeeps, SaveTruncatesKeeps, SaveFillsKeeps, PostKeeps, BrowserKeeps,
     AskKeeps, OpenReadsKeeps, OpenTruncatesKeeps, OpenFillsKeeps, DyingKeeps DEF PlansNext

(* The invariant says what the daemon promises of the plans it saves. *)
LEMMA PlansHeld == PlanInv => PlansHold
<1> SUFFICES ASSUME PlanInv PROVE PlansHold
  OBVIOUS
<1>1. KeysKept
  <2>1. ASSUME NEW k \in takenUp, k \notin overlapped PROVE Finds(file.records, k, Names)
    <3>1. Record(k, {"source"}) \in file.records
      BY <2>1 DEF PlanInv, PlanShapes, KeyStays, Kept
    <3>2. Record(k, {"source"}).key = k /\ Record(k, {"source"}).by \cap Names # {}
      BY DEF Record, Names
    <3> QED
      BY <3>1, <3>2 DEF Finds
  <2> QED
    BY <2>1 DEF KeysKept, PlanInv, WholeOrWritten
<1>2. StoredOnce
  <2>1. ASSUME NEW p \in Proposed, p \notin again
        PROVE  Cardinality({k \in takenUp : saves[k].of = p}) <= 1
    <3> DEFINE K == {k \in takenUp : saves[k].of = p}
    <3>1. CASE K = {}
      BY <3>1, FS_EmptySet
    <3>2. CASE K # {}
      <4>1. PICK k \in K : TRUE
        BY <3>2
      <4>2. \A j \in K : j \in Saves /\ j \in takenUp /\ saves[j].of = saves[k].of
        BY <4>1 DEF PlanInv, PlanShapes
      <4>3. SentOnce(k) /\ k \in takenUp /\ saves[k].of \notin again
        BY <2>1, <4>1, <4>2 DEF PlanInv
      <4>4. K = {k}
        BY <4>1, <4>2, <4>3 DEF SentOnce
      <4>5. Cardinality({k}) = 1
        BY FS_Singleton
      <4> QED
        BY <4>4, <4>5
    <3> QED
      BY <3>1, <3>2
  <2> QED
    BY <2>1 DEF StoredOnce
<1> QED
  BY <1>1, <1>2 DEF PlansHold, PlanInv

(* The key of every plan that is stored is kept, and it is stored once. *)
THEOREM PlansAreHeld == PlansSpec => []PlansHold
  BY PlansStart, PlansStep, PlansHeld, PTL DEF PlansSpec

-----------------------------------------------------------------------------
(* Pages of a transcript *)

PageTold == shown \cup counted

(* What lies between where the next page begins and what was told is told. *)
ToldDownTo(first, said) == \A n \in said : \A m \in first .. n : m \in said

PagesInv ==
  /\ messages \in Seq(MessageSizes) /\ Len(messages) > 0
  /\ offset \in 0 .. Len(messages) /\ more \in BOOLEAN
  /\ PageTold \subseteq 1 .. Len(messages) /\ (offset > 0 => PageTold # {})
  /\ ToldDownTo(Len(messages) - offset + 1, PageTold)
  /\ (~more => PageTold # {} /\ ToldDownTo(1, PageTold))

(* The transcript has a message at first, and nothing of it is told. *)
LEMMA PagesStart == PagesInit => PagesInv
<1> SUFFICES ASSUME PagesInit PROVE PagesInv
  OBVIOUS
<1>1. PICK n \in 1 .. MaxMessages : messages \in [1 .. n -> MessageSizes]
  BY DEF PagesInit
<1>2. n \in Nat /\ n > 0
  BY <1>1
<1>3. messages \in Seq(MessageSizes) /\ Len(messages) = n
  BY <1>1, <1>2
<1>4. offset = 0 /\ more = TRUE /\ PageTold = {}
  BY DEF PagesInit, PageTold
<1> QED
  BY <1>2, <1>3, <1>4 DEF PagesInv, ToldDownTo

(* A page is the newest messages but those of the pages before it. *)
LEMMA PageIs ==
  ASSUME PagesInv, NEW limit \in PageLimits
  PROVE  /\ Cardinality(Page(limit)) \in 0 .. (Len(messages) - offset)
         /\ Page(limit) = (Len(messages) - offset - Cardinality(Page(limit)) + 1)
                            .. (Len(messages) - offset)
         /\ (Len(messages) > offset => Cardinality(Page(limit)) > 0)
<1> DEFINE older == Len(messages) - offset
           size == IF limit < older THEN limit ELSE older
<1>1. older \in Nat /\ limit \in Nat /\ limit > 0
  BY LimitsAssumption DEF PagesInv
<1>2. Page(limit) = (older - size + 1) .. older
  BY <1>1 DEF Page
<1>3. size \in 0 .. older /\ (older > 0 => size > 0)
  BY <1>1
<1> HIDE DEF older, size
<1>4. Cardinality((older - size + 1) .. older) = size
  <2>1. older - size + 1 \in Int /\ older \in Int
    BY <1>1, <1>3
  <2> DEFINE low == older - size + 1
  <2>2. Cardinality(low .. older) = IF low > older THEN 0 ELSE older - low + 1
    BY <2>1, FS_Interval
  <2> QED
    BY <1>1, <1>3, <2>2
<1>5. Cardinality(Page(limit)) = size
  BY <1>2, <1>4, Zenon
<1>6. Page(limit) = (older - Cardinality(Page(limit)) + 1) .. older
  BY <1>2, <1>5, Zenon
<1>7. Cardinality(Page(limit)) \in 0 .. older
  BY <1>3, <1>5, Zenon
<1>8. older > 0 => Cardinality(Page(limit)) > 0
  BY <1>3, <1>5, Zenon
<1>9. Len(messages) > offset => older > 0
  BY DEF older, PagesInv
<1> QED
  BY <1>6, <1>7, <1>8, <1>9, Zenon DEF older

LEMMA FitIs == ASSUME NEW ns PROVE Fit(ns) \subseteq ns
  BY DEF Fit, Newest

LEMMA ReadPageKeeps ==
  ASSUME PagesInv, NEW limit \in PageLimits, ReadPage(limit)
  PROVE  PagesInv'
<1> DEFINE len == Len(messages)
           size == Cardinality(Page(limit))
           fit == Fit(Page(limit))
<1>1. /\ len \in Nat /\ size \in 0 .. (len - offset) /\ offset \in 0 .. len
      /\ Page(limit) = (len - offset - size + 1) .. (len - offset)
      /\ (len > offset => size > 0)
  BY PageIs DEF PagesInv
<1>2. /\ offset' = offset + size /\ more' = (len - offset > size \/ Page(limit) # fit)
      /\ shown' = shown \cup fit /\ counted' = counted \cup (Page(limit) \ fit)
      /\ messages' = messages
  BY DEF ReadPage, NextOffset
<1>3. fit \subseteq Page(limit)
  BY FitIs
<1> HIDE DEF size, fit
<1>4. PageTold' = PageTold \cup Page(limit)
  BY <1>2, <1>3 DEF PageTold
<1>5. PageTold \subseteq 1 .. len /\ ToldDownTo(len - offset + 1, PageTold)
      /\ (offset > 0 => PageTold # {}) /\ messages \in Seq(MessageSizes) /\ len > 0
  BY DEF PagesInv
<1>6. /\ PageTold' \subseteq 1 .. len /\ (offset' > 0 => PageTold' # {})
      /\ offset' \in 0 .. len /\ more' \in BOOLEAN
  <2>1. more' \in BOOLEAN
    BY <1>2, Zenon
  <2>2. PageTold' \subseteq 1 .. len
    <3>1. \A n \in Page(limit) : n \in 1 .. len
      BY <1>1
    <3> QED
      BY <1>4, <1>5, <3>1, Zenon
  <2>3. offset' \in 0 .. len
    BY <1>1, <1>2
  <2>4. ASSUME offset' > 0 PROVE PageTold' # {}
    <3>1. CASE offset > 0
      BY <1>4, <1>5, <3>1
    <3>2. CASE ~(offset > 0)
      <4>1. size > 0 /\ offset = 0
        BY <1>1, <1>5, <3>2
      <4>2. len \in Page(limit)
        BY <1>1, <4>1
      <4> QED
        BY <1>4, <4>2
    <3> QED
      BY <3>1, <3>2
  <2> QED
    BY <2>1, <2>2, <2>3, <2>4
<1>7. ToldDownTo(len - offset' + 1, PageTold')
  BY <1>1, <1>2, <1>4, <1>5 DEF ToldDownTo
<1>8. ASSUME ~more' PROVE PageTold' # {} /\ ToldDownTo(1, PageTold')
  <2>1. size = len - offset
    <3>1. ~(len - offset > size)
      BY <1>2, <1>8, Zenon
    <3> QED
      BY <1>1, <3>1
  <2>2. len - offset' + 1 = 1
    BY <1>1, <1>2, <2>1
  <2> QED
    BY <1>1, <1>2, <1>4, <1>5, <1>7, <2>1, <2>2
<1> QED
  BY <1>1, <1>2, <1>5, <1>6, <1>7, <1>8 DEF PagesInv

LEMMA WrittenKeeps ==
  ASSUME PagesInv, NEW size \in MessageSizes, MessageWritten(size)
  PROVE  PagesInv'
<1>1. messages' = Append(messages, size) /\ UNCHANGED <<offset, more, shown, counted>>
  BY DEF MessageWritten
<1>2. messages' \in Seq(MessageSizes) /\ Len(messages') = Len(messages) + 1 /\ Len(messages) \in Nat
  BY <1>1 DEF PagesInv
<1>3. PageTold' = PageTold
  BY <1>1 DEF PageTold
<1>4. ToldDownTo(Len(messages') - offset' + 1, PageTold')
  BY <1>1, <1>2, <1>3 DEF PagesInv, ToldDownTo
<1>5. PageTold' \subseteq 1 .. Len(messages') /\ offset' \in 0 .. Len(messages')
  BY <1>1, <1>2, <1>3 DEF PagesInv
<1> QED
  BY <1>1, <1>2, <1>3, <1>4, <1>5 DEF PagesInv

LEMMA PagesStep == PagesInv /\ [PagesNext]_pagesVars => PagesInv'
<1> SUFFICES ASSUME PagesInv, [PagesNext]_pagesVars PROVE PagesInv'
  OBVIOUS
<1>1. CASE UNCHANGED pagesVars
  BY <1>1 DEF pagesVars, PagesInv, PageTold
<1> QED
  BY <1>1, ReadPageKeeps, WrittenKeeps DEF PagesNext

LEMMA PagesHeld == PagesInv => PagesTell
  BY DEF PagesInv, PagesTell, PageTold, ToldDownTo

THEOREM PagesAreTold == PagesSpec => []PagesTell
  BY PagesStart, PagesStep, PagesHeld, PTL DEF PagesSpec

-----------------------------------------------------------------------------
(* What clients follow *)

Links == {"off", "on", "dead"}

StreamShapes ==
  /\ link \in [Viewers -> Links] /\ load \in [Viewers -> 0 .. 2]
  /\ latestSeq \in [Streams -> Nat] /\ streaming \in [Streams -> BOOLEAN]
  /\ openSubs \in [Viewers -> Seq(Streams)]
  /\ seen \in [Viewers -> [Streams -> Nat]]
  /\ whole = [v \in Viewers |-> [s \in Streams |-> whole[v][s]]]

(* A client that is gone follows nothing, and no client has what is to come. *)
StreamInv ==
  /\ StreamShapes /\ StreamWhole
  /\ \A v \in Viewers : link[v] = "off" => openSubs[v] = << >>
  /\ \A v \in Viewers, s \in Streams : seen[v][s] <= latestSeq[s]

(* The greatest number of a set that has one. *)
LEMMA MaxIs ==
  ASSUME NEW T, T \subseteq Int, NEW n \in T, \A m \in T : m <= n
  PROVE  Max(T) = n
<1>1. n \in T /\ \A m \in T : n >= m
  OBVIOUS
<1>2. Max(T) \in T /\ \A m \in T : Max(T) >= m
  BY <1>1 DEF Max
<1>3. PICK x \in T : x = Max(T)
  BY <1>2
<1>4. x \in Int /\ n \in Int /\ n >= x /\ x >= n
  BY <1>1, <1>2, <1>3
<1>5. x = n
  BY <1>4
<1> QED
  BY <1>3, <1>5

(* A set of numbers up to n that is not empty has a greatest. *)
LEMMA MaxExists ==
  ASSUME NEW n \in Nat, NEW T \in SUBSET (0 .. n), T # {}
  PROVE  Max(T) \in 0 .. n
<1> DEFINE above == {n - t : t \in T}
<1>1. above \in SUBSET Nat /\ above # {}
  <2>1. \A t \in T : t \in 0 .. n
    OBVIOUS
  <2>2. \A d \in above : d \in Nat
    BY <2>1
  <2>3. PICK t \in T : TRUE
    OBVIOUS
  <2>4. n - t \in above
    OBVIOUS
  <2> QED
    BY <2>2, <2>4
<1>2. PICK d \in above : \A e \in above : d <= e
  BY <1>1, LeastNumber
<1>3. PICK t \in T : d = n - t
  BY <1>2
<1>4. \A m \in T : m \in Int /\ m <= t
  <2> SUFFICES ASSUME NEW m \in T PROVE m \in Int /\ m <= t
    OBVIOUS
  <2>1. m \in 0 .. n /\ t \in 0 .. n /\ n - m \in above
    OBVIOUS
  <2>2. d <= n - m
    BY <1>2, <2>1
  <2> QED
    BY <1>3, <2>1, <2>2
<1> HIDE DEF above
<1>5. Max(T) = t
  <2>1. T \subseteq Int
    BY <1>4
  <2> QED
    BY <1>3, <1>4, <2>1, MaxIs
<1> QED
  BY <1>3, <1>5

(* Nothing is missing up to the last update when all that came after the first
   are there. *)
LEMMA UptoLast ==
  ASSUME NEW from \in Nat, NEW last \in Nat, from <= last, NEW sent,
         sent \subseteq 1 .. last, (from + 1) .. last \subseteq sent
  PROVE  Upto(from, sent) = last
<1> DEFINE T == {from} \cup {n \in sent : \A m \in (from + 1) .. n : m \in sent}
<1>1. T \subseteq Int /\ \A m \in T : m <= last
  <2>1. \A m \in sent : m \in 1 .. last
    OBVIOUS
  <2>2. \A m \in T : m \in Int /\ m <= last
    BY <2>1
  <2> QED
    BY <2>2
<1>2. last \in T
  <2>1. CASE from = last
    BY <2>1
  <2>2. CASE from # last
    BY <2>2
  <2> QED
    BY <2>1, <2>2
<1> HIDE DEF T
<1>3. Max(T) = last
  BY <1>1, <1>2, MaxIs
<1> QED
  BY <1>3 DEF Upto, T

(* A client that is sent something it cannot take is terminated; no other
   connection changes. *)
LinkFalls ==
  /\ link' \in [Viewers -> Links]
  /\ \A v \in Viewers : link'[v] = link[v] \/ (link[v] = "on" /\ link'[v] = "dead")

LEMMA SentFalls ==
  ASSUME StreamShapes, NEW vs, SentTo(vs)
  PROVE  /\ LinkFalls
         /\ \A v \in Viewers : v \in vs /\ link'[v] = "on" => link[v] = "on" /\ load[v] # 2
<1>1. link' = [v \in Viewers |-> IF v \in vs /\ link[v] = "on" /\ load[v] = 2
                                 THEN "dead" ELSE link[v]]
  BY DEF SentTo
<1>2. link \in [Viewers -> Links]
  BY DEF StreamShapes
<1>3. \A v \in Viewers :
        link'[v] = IF v \in vs /\ link[v] = "on" /\ load[v] = 2 THEN "dead" ELSE link[v]
  BY <1>1
<1>4. link' \in [Viewers -> Links]
  BY <1>1, <1>2 DEF Links
<1>5. \A v \in Viewers : link'[v] = link[v] \/ (link[v] = "on" /\ link'[v] = "dead")
  BY <1>3
<1>6. \A v \in Viewers : v \in vs /\ link'[v] = "on" => link[v] = "on" /\ load[v] # 2
  BY <1>3
<1> QED
  BY <1>4, <1>5, <1>6, Zenon DEF LinkFalls

(* What is no update and no subscription. *)
LEMMA QuietKeeps ==
  ASSUME StreamInv, LinkFalls, load' \in [Viewers -> 0 .. 2],
         UNCHANGED <<latestSeq, streaming, openSubs, seen, whole>>
  PROVE  StreamInv'
<1>1. StreamShapes'
  BY DEF StreamInv, StreamShapes, LinkFalls
<1>2. ASSUME NEW v \in Viewers PROVE link'[v] = "off" => openSubs'[v] = << >>
  BY DEF StreamInv, LinkFalls
<1>3. StreamWhole'
  BY DEF StreamInv, StreamWhole, LinkFalls
<1>4. \A v \in Viewers, s \in Streams : seen'[v][s] <= latestSeq'[s]
  BY DEF StreamInv
<1> QED
  BY <1>1, <1>2, <1>3, <1>4 DEF StreamInv

LEMMA ConnectStreams ==
  ASSUME StreamInv, NEW v \in Viewers, Connect(v)
  PROVE  StreamInv'
<1>1. /\ link[v] = "off" /\ link' = [link EXCEPT ![v] = "on"] /\ load' = load
      /\ UNCHANGED <<latestSeq, streaming, openSubs, seen, whole>>
  BY DEF Connect, streamVars, followVars
<1>2. StreamShapes'
  BY <1>1 DEF StreamInv, StreamShapes, Links
<1>3. openSubs[v] = << >> /\ \A s \in Streams : ~Contains(openSubs[v], s)
  BY <1>1 DEF StreamInv, Contains
<1>4. \A w \in Viewers : link'[w] = IF w = v THEN "on" ELSE link[w]
  BY <1>1 DEF StreamInv, StreamShapes
<1>5. StreamWhole'
  BY <1>1, <1>3, <1>4 DEF StreamInv, StreamWhole
<1>6. \A w \in Viewers : link'[w] = "off" => openSubs'[w] = << >>
  BY <1>1, <1>4 DEF StreamInv
<1> QED
  BY <1>1, <1>2, <1>5, <1>6 DEF StreamInv

LEMMA ClosesStreams ==
  ASSUME StreamInv, NEW v \in Viewers, ViewerCloses(v)
  PROVE  StreamInv'
<1>1. /\ link' = [link EXCEPT ![v] = "off"] /\ openSubs' = [openSubs EXCEPT ![v] = << >>]
      /\ load' = [load EXCEPT ![v] = 0] /\ whole' = [whole EXCEPT ![v] = Nowhere]
      /\ UNCHANGED <<latestSeq, streaming, seen>>
  BY DEF ViewerCloses, streamVars
<1>2. << >> \in Seq(Streams) /\ Nowhere = [s \in Streams |-> -1]
  BY DEF Nowhere
<1>3. link' \in [Viewers -> Links] /\ load' \in [Viewers -> 0 .. 2]
      /\ openSubs' \in [Viewers -> Seq(Streams)]
  BY <1>1, <1>2 DEF StreamInv, StreamShapes, Links
<1>4. /\ whole' = [w \in Viewers |-> IF w = v THEN Nowhere ELSE whole[w]]
      /\ \A w \in Viewers : whole[w] = [s \in Streams |-> whole[w][s]]
  BY <1>1 DEF StreamInv, StreamShapes
<1>5. whole' = [w \in Viewers |-> [s \in Streams |-> whole'[w][s]]]
  BY <1>2, <1>4
<1>6. StreamShapes'
  BY <1>1, <1>3, <1>5 DEF StreamInv, StreamShapes
<1>7. \A w \in Viewers : /\ link'[w] = IF w = v THEN "off" ELSE link[w]
                         /\ openSubs'[w] = IF w = v THEN << >> ELSE openSubs[w]
                         /\ w # v => whole'[w] = whole[w]
  BY <1>1 DEF StreamInv, StreamShapes
<1>8. StreamWhole'
  BY <1>1, <1>7 DEF StreamInv, StreamWhole
<1>9. \A w \in Viewers : link'[w] = "off" => openSubs'[w] = << >>
  BY <1>7 DEF StreamInv
<1> QED
  BY <1>1, <1>6, <1>8, <1>9 DEF StreamInv


(* A subscription more: what was followed may make room, and nothing else is
   added. *)
LEMMA AddedIs ==
  ASSUME NEW q \in Seq(Streams), NEW s \in Streams
  PROVE  Added(q, s) \in Seq(Streams)
         /\ \A x \in Streams : Contains(Added(q, s), x) => x = s \/ Contains(q, x)
<1>1. CASE Contains(q, s)
  BY <1>1 DEF Added
<1>2. CASE ~Contains(q, s)
  <2> DEFINE rest == IF Len(q) >= MaxSubscriptions THEN Tail(q) ELSE q
  <2>1. rest \in Seq(Streams) /\ \A i \in 1 .. Len(rest) : \E j \in 1 .. Len(q) : rest[i] = q[j]
    <3>1. CASE Len(q) >= MaxSubscriptions
      <4>1. q # << >>
        BY <3>1, SubscriptionsAssumption
      <4>2. rest = Tail(q) /\ Tail(q) \in Seq(Streams) /\ Len(Tail(q)) = Len(q) - 1
        BY <3>1, <4>1
      <4>3. \A i \in 1 .. Len(Tail(q)) : Tail(q)[i] = q[i + 1] /\ i + 1 \in 1 .. Len(q)
        <5> SUFFICES ASSUME NEW i \in 1 .. Len(Tail(q))
                     PROVE  Tail(q)[i] = q[i + 1] /\ i + 1 \in 1 .. Len(q)
          OBVIOUS
        <5> DEFINE n == Len(Tail(q))
        <5>0. n = Len(q) - 1 /\ i \in 1 .. n
          BY <4>2, Zenon
        <5>3. Len(q) \in Nat
          OBVIOUS
        <5> HIDE DEF n
        <5>1. i \in 1 .. (Len(q) - 1) /\ Len(q) \in Nat
          BY <5>0, <5>3
        <5>2. i + 1 \in 1 .. Len(q)
          BY <5>1
        <5> QED
          BY <4>1, <5>1, <5>2
      <4> QED
        BY <4>2, <4>3
    <3>2. CASE ~(Len(q) >= MaxSubscriptions)
      BY <3>2
    <3> QED
      BY <3>1, <3>2, SMTT(30)
  <2>2. Added(q, s) = Append(rest, s)
    BY <1>2 DEF Added
  <2> HIDE DEF rest
  <2>3. Append(rest, s) \in Seq(Streams) /\ Len(Append(rest, s)) = Len(rest) + 1
    BY <2>1
  <2>4. \A i \in 1 .. Len(rest) + 1 : Append(rest, s)[i] = IF i \in 1 .. Len(rest) THEN rest[i] ELSE s
    BY <2>1
  <2>5. ASSUME NEW x \in Streams, Contains(Append(rest, s), x) PROVE x = s \/ Contains(q, x)
    <3>1. PICK i \in 1 .. Len(rest) + 1 : Append(rest, s)[i] = x
      BY <2>3, <2>5 DEF Contains
    <3>2. CASE i \in 1 .. Len(rest)
      BY <2>1, <2>4, <3>1, <3>2 DEF Contains
    <3> QED
      BY <2>4, <3>1, <3>2
  <2> QED
    BY <2>2, <2>3, <2>5
<1> QED
  BY <1>1, <1>2

(* What is replayed to a client that has all up to some update is all that
   came after it, but what is older than the buffer. *)
LEMMA ReplayedIs ==
  ASSUME NEW s \in Streams, latestSeq[s] \in Nat, NEW from \in 0 .. latestSeq[s]
  PROVE  /\ Upto(from, ((1 .. latestSeq[s]) \ Held(s)) \cup Replayed(s, from)) = latestSeq[s]
         /\ Replayed(s, from) \subseteq 1 .. latestSeq[s]
<1> DEFINE sent == ((1 .. latestSeq[s]) \ Held(s)) \cup Replayed(s, from)
<1>1. \A n \in Held(s) : n \in 1 .. latestSeq[s]
  BY DEF Held
<1>2. \A n : n \in Replayed(s, from) <=> n \in Held(s) /\ n > from
  BY DEF Replayed
<1>3. sent \subseteq 1 .. latestSeq[s] /\ Replayed(s, from) \subseteq 1 .. latestSeq[s]
  BY <1>1, <1>2
<1>4. (from + 1) .. latestSeq[s] \subseteq sent
  <2> SUFFICES ASSUME NEW n \in (from + 1) .. latestSeq[s] PROVE n \in sent
    OBVIOUS
  <2>1. n \in 1 .. latestSeq[s] /\ n > from
    OBVIOUS
  <2> QED
    BY <1>2, <2>1, Zenon
<1> HIDE DEF sent
<1>5. Upto(from, sent) = latestSeq[s]
  <2>1. from \in Nat /\ from <= latestSeq[s]
    OBVIOUS
  <2> QED
    BY <1>3, <1>4, <2>1, UptoLast
<1> QED
  BY <1>3, <1>5 DEF sent

LEMMA FollowsKeeps ==
  ASSUME StreamInv, LinkFalls, NEW v \in Viewers, NEW s \in Streams, link[v] # "off",
         NEW from \in 0 .. latestSeq[s], Follows(v, s, from),
         UNCHANGED <<latestSeq, streaming, load>>
  PROVE  StreamInv'
<1> DEFINE subs == Added(openSubs[v], s)
           got == Replayed(s, from)
<1>1. /\ openSubs \in [Viewers -> Seq(Streams)] /\ seen \in [Viewers -> [Streams -> Nat]]
      /\ whole = [w \in Viewers |-> [x \in Streams |-> whole[w][x]]]
      /\ latestSeq[s] \in Nat
  BY DEF StreamInv, StreamShapes
<1>2. subs \in Seq(Streams) /\ \A x \in Streams : Contains(subs, x) => x = s \/ Contains(openSubs[v], x)
  BY <1>1, AddedIs
<1>3. openSubs' = [openSubs EXCEPT ![v] = subs]
  BY DEF Follows
<1>4. whole' = [whole EXCEPT ![v] = [x \in Streams |->
        IF x = s THEN Upto(from, ((1 .. latestSeq[s]) \ Held(s)) \cup got)
        ELSE IF Contains(openSubs'[v], x) THEN whole[v][x] ELSE -1]]
  BY DEF Follows
<1>5. seen' = seen \/ seen' = [seen EXCEPT ![v][s] = Max({seen[v][s]} \cup got)]
  BY DEF Follows
<1>6. /\ Upto(from, ((1 .. latestSeq[s]) \ Held(s)) \cup got) = latestSeq[s]
      /\ got \subseteq 1 .. latestSeq[s]
  BY <1>1, ReplayedIs
<1> HIDE DEF subs, got
<1>7. openSubs' \in [Viewers -> Seq(Streams)] /\ openSubs'[v] = subs
      /\ \A w \in Viewers : w # v => openSubs'[w] = openSubs[w]
  BY <1>1, <1>2, <1>3
<1>8. whole' = [whole EXCEPT ![v] = [x \in Streams |->
        IF x = s THEN latestSeq[s] ELSE IF Contains(subs, x) THEN whole[v][x] ELSE -1]]
  BY <1>4, <1>6, <1>7
<1>9. /\ whole' = [w \in Viewers |-> [x \in Streams |-> whole'[w][x]]]
      /\ \A w \in Viewers : w # v => whole'[w] = whole[w]
      /\ whole'[v] = [x \in Streams |->
           IF x = s THEN latestSeq[s] ELSE IF Contains(subs, x) THEN whole[v][x] ELSE -1]
  <2> DEFINE fresh == [x \in Streams |->
           IF x = s THEN latestSeq[s] ELSE IF Contains(subs, x) THEN whole[v][x] ELSE -1]
  <2>1. fresh = [x \in Streams |-> fresh[x]]
    OBVIOUS
  <2>2. whole' = [whole EXCEPT ![v] = fresh]
    BY <1>8
  <2> HIDE DEF fresh
  <2>3. whole'[v] = fresh /\ \A w \in Viewers : w # v => whole'[w] = whole[w]
    BY <1>1, <2>2
  <2>4. whole' = [w \in Viewers |-> whole'[w]]
    BY <1>1, <2>2
  <2>5. \A w \in Viewers : whole[w] = [x \in Streams |-> whole[w][x]]
    BY <1>1
  <2>6. \A w \in Viewers : whole'[w] = [x \in Streams |-> whole'[w][x]]
    BY <2>1, <2>3, <2>5
  <2> QED
    BY <2>3, <2>4, <2>6 DEF fresh
<1>10. seen' \in [Viewers -> [Streams -> Nat]]
       /\ \A w \in Viewers, x \in Streams : seen'[w][x] <= latestSeq'[x]
  <2>1. seen[v][s] \in 0 .. latestSeq[s]
    BY <1>1 DEF StreamInv
  <2>2. Max({seen[v][s]} \cup got) \in 0 .. latestSeq[s]
    <3>1. {seen[v][s]} \cup got \in SUBSET (0 .. latestSeq[s])
      BY <1>1, <1>6, <2>1
    <3> QED
      BY <1>1, <3>1, MaxExists
  <2> DEFINE n == Max({seen[v][s]} \cup got)
  <2>3. n \in 0 .. latestSeq[s] /\ n \in Nat
    BY <1>1, <2>2
  <2>4. seen' = seen \/ seen' = [seen EXCEPT ![v][s] = n]
    BY <1>5
  <2> HIDE DEF n
  <2>5. CASE seen' = seen
    BY <1>1, <2>5 DEF StreamInv
  <2>6. CASE seen' = [seen EXCEPT ![v][s] = n]
    <3>1. seen' \in [Viewers -> [Streams -> Nat]]
      BY <1>1, <2>3, <2>6
    <3>2. \A w \in Viewers, x \in Streams :
            seen'[w][x] = IF w = v /\ x = s THEN n ELSE seen[w][x]
      BY <1>1, <2>6
    <3>3. n <= latestSeq[s]
      BY <1>1, <2>3
    <3> QED
      BY <3>1, <3>2, <3>3 DEF StreamInv
  <2> QED
    BY <2>4, <2>5, <2>6
<1>11. StreamShapes'
  BY <1>7, <1>9, <1>10 DEF StreamInv, StreamShapes, LinkFalls
<1>12. \A w \in Viewers : link'[w] = "off" => w # v /\ openSubs'[w] = << >>
  BY <1>7 DEF StreamInv, LinkFalls
<1>13. ASSUME NEW w \in Viewers, NEW x \in Streams, link'[w] = "on", Contains(openSubs'[w], x)
       PROVE  whole'[w][x] = latestSeq'[x]
  <2>1. link[w] = "on"
    BY <1>13 DEF LinkFalls
  <2>2. CASE w # v
    BY <1>7, <1>9, <1>13, <2>1, <2>2, SMTT(30) DEF StreamInv, StreamWhole
  <2>3. CASE w = v /\ x = s
    BY <1>9, <2>3
  <2>4. CASE w = v /\ x # s
    <3>1. Contains(subs, x) /\ Contains(openSubs[v], x)
      BY <1>2, <1>7, <1>13, <2>4
    <3>2. whole'[w][x] = whole[v][x]
      BY <1>9, <2>4, <3>1
    <3> QED
      BY <2>1, <2>4, <3>1, <3>2 DEF StreamInv, StreamWhole
  <2> QED
    BY <2>2, <2>3, <2>4
<1> QED
  BY <1>10, <1>11, <1>12, <1>13 DEF StreamInv, StreamWhole


LEMMA UnsubscribeKeeps ==
  ASSUME StreamInv, LinkFalls, NEW v \in Viewers, NEW s \in Streams, Unsubscribe(v, s)
  PROVE  StreamInv'
<1>1. /\ openSubs' = [openSubs EXCEPT ![v] = Unfollowed(openSubs[v], s)]
      /\ whole' = [whole EXCEPT ![v][s] = -1]
      /\ UNCHANGED <<latestSeq, streaming, load, seen>>
  BY DEF Unsubscribe, AtOnce, streamVars
<1>2. /\ openSubs \in [Viewers -> Seq(Streams)] /\ openSubs[v] \in Seq(Streams)
      /\ whole = [w \in Viewers |-> [x \in Streams |-> whole[w][x]]]
  BY DEF StreamInv, StreamShapes
<1>3. Unfollowed(openSubs[v], s) \in Seq(Streams)
      /\ ~Contains(Unfollowed(openSubs[v], s), s)
      /\ \A x \in Streams : Contains(Unfollowed(openSubs[v], s), x) => Contains(openSubs[v], x)
  <2> DEFINE q == openSubs[v]
             P == {i \in DOMAIN q : q[i] # s}
             staying == Selected(q, P)
  <2>1. P \in SUBSET (DOMAIN q) /\ q \in Seq(Streams)
    BY <1>2
  <2>0. staying = Selected(q, P) /\ \A i \in P : i \in DOMAIN q /\ q[i] # s
    OBVIOUS
  <2> HIDE DEF staying, P
  <2>2. /\ staying \in Seq(Streams)
        /\ \E f \in [DOMAIN staying -> P] : \A i \in DOMAIN f : staying[i] = q[f[i]]
    BY <2>0, <2>1, SelectedIs, Zenon
  <2>3. \A i \in DOMAIN staying : staying[i] # s /\ \E j \in DOMAIN q : staying[i] = q[j]
    <3>1. PICK f \in [DOMAIN staying -> P] : \A i \in DOMAIN f : staying[i] = q[f[i]]
      BY <2>2
    <3>2. \A i \in DOMAIN staying : f[i] \in P /\ staying[i] = q[f[i]]
      BY <3>1
    <3> QED
      BY <2>0, <3>2
  <2>4. Unfollowed(openSubs[v], s) = staying
    BY DEF Unfollowed, staying, P
  <2>5. DOMAIN staying = 1 .. Len(staying) /\ DOMAIN q = 1 .. Len(q)
    BY <2>1, <2>2
  <2> QED
    BY <2>2, <2>3, <2>4, <2>5 DEF Contains
<1> DEFINE staying == Unfollowed(openSubs[v], s)
<1> HIDE DEF staying
<1>4. openSubs' = [openSubs EXCEPT ![v] = staying] /\ staying \in Seq(Streams)
  BY <1>1, <1>3 DEF staying
<1>5. openSubs' \in [Viewers -> Seq(Streams)]
      /\ \A w \in Viewers : openSubs'[w] = IF w = v THEN staying ELSE openSubs[w]
  BY <1>2, <1>4
<1>6. \A w \in Viewers, x \in Streams : ~(w = v /\ x = s) => whole'[w][x] = whole[w][x]
  BY <1>1, <1>2
<1>7. whole' = [w \in Viewers |-> [x \in Streams |-> whole'[w][x]]]
  <2>1. whole' = [whole EXCEPT ![v] = [whole[v] EXCEPT ![s] = -1]]
    BY <1>1
  <2>2. \A w \in Viewers : whole[w] = [x \in Streams |-> whole[w][x]]
    BY <1>2
  <2> QED
    BY <1>2, <2>1, <2>2
<1>8. StreamShapes'
  BY <1>1, <1>5, <1>7 DEF StreamInv, StreamShapes, LinkFalls
<1>9. \A w \in Viewers : link'[w] = "off" => link[w] = "off"
  BY DEF LinkFalls
<1>10. \A w \in Viewers : link'[w] = "off" => openSubs'[w] = << >>
  <2> SUFFICES ASSUME NEW w \in Viewers, link'[w] = "off" PROVE openSubs'[w] = << >>
    OBVIOUS
  <2>1. openSubs[w] = << >>
    BY <1>9 DEF StreamInv
  <2>2. CASE w # v
    BY <1>5, <2>1, <2>2
  <2>3. CASE w = v
    <3>1. staying \in Seq(Streams) /\ \A x \in Streams : ~Contains(staying, x)
      BY <1>3, <2>1, <2>3 DEF staying, Contains
    <3>2. ASSUME Len(staying) > 0 PROVE FALSE
      <4>1. 1 \in 1 .. Len(staying) /\ staying[1] \in Streams
        BY <3>1, <3>2
      <4> QED
        BY <3>1, <4>1 DEF Contains
    <3>3. staying = << >>
      BY <3>1, <3>2
    <3> QED
      BY <1>5, <2>3, <3>3
  <2> QED
    BY <2>2, <2>3
<1>11. ASSUME NEW w \in Viewers, NEW x \in Streams, link'[w] = "on", Contains(openSubs'[w], x)
       PROVE  whole'[w][x] = latestSeq'[x]
  <2>1. link[w] = "on" /\ Contains(openSubs[w], x) /\ ~(w = v /\ x = s)
    BY <1>3, <1>5, <1>11 DEF LinkFalls, staying
  <2> QED
    BY <1>1, <1>6, <2>1 DEF StreamInv, StreamWhole
<1> QED
  BY <1>1, <1>8, <1>10, <1>11 DEF StreamInv, StreamWhole

(* Updates of a session: a client that follows it is sent each of them, or was
   behind when they were chunks, or is terminated. *)
LEMMA EmitKeeps ==
  ASSUME StreamInv, NEW s \in Streams, NEW updates \in Seq(BOOLEAN), NEW alert,
         Emit(s, updates, alert), streaming' \in [Streams -> BOOLEAN]
  PROVE  StreamInv'
<1> DEFINE now == latestSeq[s]
           last == now + Len(updates)
           Sent(v) == {now + k : k \in {j \in DOMAIN updates : ~Skips(v, updates[j])}}
           Behind(v) == {now + k : k \in {j \in DOMAIN updates : updates[j] /\ load[v] >= 1}}
           heard == {v \in Listeners(s) : ViewerReached(v) /\ Sent(v) # {}}
           Got(v) == Behind(v) \cup (IF v \in heard THEN Sent(v) ELSE {})
<1>1. /\ latestSeq' = [latestSeq EXCEPT ![s] = last]
      /\ SentTo({v \in Viewers : \/ v \in Listeners(s) /\ Sent(v) # {}
                                 \/ alert /\ link[v] # "off"})
      /\ seen' = [v \in Viewers |-> IF v \in heard THEN [seen[v] EXCEPT ![s] = Max(Sent(v))]
                                    ELSE seen[v]]
      /\ whole' = [v \in Viewers |-> IF v \in Listeners(s)
                     THEN [whole[v] EXCEPT ![s] = Upto(whole[v][s], Got(v))] ELSE whole[v]]
      /\ UNCHANGED <<openSubs, load>>
  BY DEF Emit
<1>2. /\ now \in Nat /\ Len(updates) \in Nat /\ last \in Nat /\ now <= last
      /\ DOMAIN updates = 1 .. Len(updates)
      /\ latestSeq \in [Streams -> Nat] /\ seen \in [Viewers -> [Streams -> Nat]]
      /\ load \in [Viewers -> 0 .. 2] /\ StreamShapes
  BY DEF StreamInv, StreamShapes
<1>3. /\ LinkFalls
      /\ \A v \in Viewers : v \in Listeners(s) /\ Sent(v) # {} /\ link'[v] = "on"
                              => link[v] = "on" /\ load[v] # 2
  BY <1>1, <1>2, SentFalls
<1>4. latestSeq' \in [Streams -> Nat] /\ latestSeq'[s] = last
      /\ \A x \in Streams : x # s => latestSeq'[x] = latestSeq[x]
  BY <1>1, <1>2
<1>5. \A v : Sent(v) \subseteq 1 .. last /\ Behind(v) \subseteq (now + 1) .. last
  BY <1>2
<1>6. ASSUME NEW v \in Viewers, v \in Listeners(s), link'[v] = "on"
      PROVE  Got(v) = (now + 1) .. last
  <2>1. ASSUME NEW k \in 1 .. Len(updates) PROVE now + k \in Got(v)
    <3>1. CASE Skips(v, updates[k])
      <4>1. updates[k] /\ load[v] >= 1
        BY <3>1 DEF Skips
      <4>2. k \in {j \in DOMAIN updates : updates[j] /\ load[v] >= 1}
        BY <1>2, <4>1
      <4> QED
        BY <4>2
    <3>2. CASE ~Skips(v, updates[k])
      <4>1. now + k \in Sent(v)
        BY <1>2, <3>2
      <4>2. link[v] = "on" /\ load[v] # 2 /\ load[v] \in 0 .. 2
        BY <1>2, <1>3, <1>6, <4>1
      <4>3. v \in heard
        BY <1>6, <4>1, <4>2 DEF ViewerReached
      <4> QED
        BY <4>1, <4>3
    <3> QED
      BY <3>1, <3>2
  <2>2. \A n \in (now + 1) .. last : n - now \in 1 .. Len(updates) /\ now + (n - now) = n
    BY <1>2
  <2>3. (now + 1) .. last \subseteq Got(v)
    <3> SUFFICES ASSUME NEW n \in (now + 1) .. last PROVE n \in Got(v)
      OBVIOUS
    <3>1. n - now \in 1 .. Len(updates) /\ now + (n - now) = n
      BY <2>2
    <3> HIDE DEF Got
    <3>2. now + (n - now) \in Got(v)
      BY <2>1, <3>1
    <3> QED
      BY <3>1, <3>2, Zenon
  <2>4. Sent(v) \subseteq (now + 1) .. last
    BY <1>2
  <2> QED
    BY <1>5, <2>3, <2>4
<1>7. \A v \in heard : Max(Sent(v)) \in 0 .. last
  <2> SUFFICES ASSUME NEW v \in heard PROVE Max(Sent(v)) \in 0 .. last
    OBVIOUS
  <2>1. Sent(v) \in SUBSET (0 .. last) /\ Sent(v) # {}
    BY <1>2, <1>5
  <2> HIDE DEF last, heard, Sent
  <2> QED
    BY <1>2, <2>1, MaxExists
<1> HIDE DEF heard, Sent, Behind, Got, last, now
<1>8. seen' \in [Viewers -> [Streams -> Nat]]
  <2>1. ASSUME NEW v \in Viewers
        PROVE  (IF v \in heard THEN [seen[v] EXCEPT ![s] = Max(Sent(v))] ELSE seen[v])
                 \in [Streams -> Nat]
    <3>1. CASE v \in heard
      <4>1. Max(Sent(v)) \in Nat /\ seen[v] \in [Streams -> Nat]
        BY <1>2, <1>7, <3>1
      <4> QED
        BY <3>1, <4>1
    <3>2. CASE v \notin heard
      BY <1>2, <3>2
    <3> QED
      BY <3>1, <3>2
  <2> QED
    BY <1>1, <2>1
<1>9. \A v \in Viewers, x \in Streams : seen'[v][x] <= latestSeq'[x]
  <2> SUFFICES ASSUME NEW v \in Viewers, NEW x \in Streams PROVE seen'[v][x] <= latestSeq'[x]
    OBVIOUS
  <2>1. seen[v] \in [Streams -> Nat] /\ seen[v][x] \in Nat /\ seen[v][x] <= latestSeq[x]
    BY <1>2 DEF StreamInv
  <2>2. latestSeq[x] <= latestSeq'[x] /\ latestSeq[x] \in Nat /\ latestSeq'[x] \in Nat
    <3>1. CASE x = s
      BY <1>2, <1>4, <3>1 DEF now
    <3>2. CASE x # s
      <4>1. latestSeq'[x] = latestSeq[x] /\ latestSeq[x] \in Nat
        BY <1>2, <1>4, <3>2
      <4> QED
        BY <4>1
    <3> QED
      BY <3>1, <3>2
  <2>3. CASE v \in heard /\ x = s
    <3>1. seen'[v][x] = Max(Sent(v))
      BY <1>1, <2>1, <2>3
    <3> QED
      BY <1>2, <1>4, <1>7, <2>3, <3>1
  <2>4. CASE ~(v \in heard /\ x = s)
    <3>1. seen'[v][x] = seen[v][x]
      BY <1>1, <2>1, <2>4
    <3> QED
      BY <2>1, <2>2, <3>1
  <2> QED
    BY <2>3, <2>4
<1>10. \A v \in Viewers : whole[v] = [x \in Streams |-> whole[v][x]]
  BY <1>2 DEF StreamShapes
<1>11. \A v \in Viewers : whole'[v] = IF v \in Listeners(s)
         THEN [whole[v] EXCEPT ![s] = Upto(whole[v][s], Got(v))] ELSE whole[v]
  BY <1>1
<1>12. whole' = [v \in Viewers |-> [x \in Streams |-> whole'[v][x]]]
  <2>1. whole' = [v \in Viewers |-> whole'[v]]
    BY <1>1
  <2>2. ASSUME NEW v \in Viewers PROVE whole'[v] = [x \in Streams |-> whole'[v][x]]
    <3> DEFINE u == Upto(whole[v][s], Got(v))
    <3>1. whole'[v] = [whole[v] EXCEPT ![s] = u] \/ whole'[v] = whole[v]
      BY <1>11
    <3> HIDE DEF u
    <3> QED
      BY <1>10, <3>1
  <2> QED
    BY <2>1, <2>2
<1>13. StreamShapes'
  BY <1>1, <1>2, <1>3, <1>4, <1>8, <1>12 DEF StreamShapes, LinkFalls
<1>14. \A v \in Viewers : link'[v] = "off" => openSubs'[v] = << >>
  BY <1>1, <1>3 DEF StreamInv, LinkFalls
<1>15. ASSUME NEW v \in Viewers, NEW x \in Streams, link'[v] = "on", Contains(openSubs'[v], x)
       PROVE  whole'[v][x] = latestSeq'[x]
  <2>1. link[v] = "on" /\ Contains(openSubs[v], x) /\ whole[v][x] = latestSeq[x]
    BY <1>1, <1>3, <1>15 DEF LinkFalls, StreamInv, StreamWhole
  <2>2. CASE x # s
    <3>1. whole'[v][x] = whole[v][x]
      BY <1>10, <1>11, <2>2
    <3> QED
      BY <1>4, <2>1, <2>2, <3>1
  <2>3. CASE x = s
    <3>1. v \in Listeners(s)
      BY <2>1, <2>3 DEF Listeners
    <3>2. Got(v) = (now + 1) .. last
      BY <1>6, <1>15, <3>1
    <3>3. Upto(now, (now + 1) .. last) = last
      <4>1. (now + 1) .. last \subseteq 1 .. last
        BY <1>2
      <4> QED
        BY <1>2, <4>1, UptoLast
    <3>4. whole'[v][s] = Upto(whole[v][s], Got(v))
      BY <1>10, <1>11, <3>1
    <3>5. whole[v][s] = now
      BY <2>1, <2>3 DEF now
    <3> QED
      BY <1>4, <2>3, <3>2, <3>3, <3>4, <3>5
  <2> QED
    BY <2>2, <2>3
<1> QED
  BY <1>9, <1>13, <1>14, <1>15 DEF StreamInv, StreamWhole


-----------------------------------------------------------------------------
(* What clients are answered *)

(* What the viewer of a command that has not ended heard of it, if nothing was
   lost: a streamed read is acknowledged at once, and a late command has its
   error. *)
HeardSoFar(kind, isLate) ==
  IF kind = "streamed" THEN IF isLate THEN <<"ok", "error">> ELSE <<"ok">>
  ELSE IF isLate THEN <<"error">> ELSE << >>

(* A command whose handler has not ended: it has done nothing, and its viewer
   is there unless it has been cut off. *)
UnderWay(c) ==
  /\ c = [viewer |-> c.viewer, kind |-> c.kind, session |-> c.session, cut |-> c.cut,
          acks |-> c.acks, late |-> c.late, did |-> c.did, lost |-> c.lost]
  /\ c.viewer \in Viewers /\ c.cut \in BOOLEAN /\ c.late \in BOOLEAN /\ c.lost \in BOOLEAN
  /\ c.did = FALSE /\ (c.kind \in {"launch", "resume"} => c.session \in Streams)
  /\ (c.lost \/ c.acks = HeardSoFar(c.kind, c.late))
  /\ (link[c.viewer] = "off" => c.cut)

AskedInv ==
  /\ Len(asked) \in Nat /\ asked = [i \in 1 .. Len(asked) |-> asked[i]]
  /\ \A i \in 1 .. Len(asked) : UnderWay(asked[i])

(* The answers to a command that has ended. *)
EndsWell(c) ==
  \/ c.lost \/ c.acks = <<"ok">>
  \/ (c.acks \in {<<"error">>, <<"error", "error">>} /\ c.did = FALSE)
  \/ (c.acks = <<"error", "ok">> /\ c.late)
  \/ (c.acks = <<"ok", "error">> /\ c.kind = "streamed" /\ c.late)

(* What AnswersTrue says of one answer. *)
AnswerTrue(c) ==
  LET Said(status) == {k \in DOMAIN c.acks : c.acks[k] = status} IN
  /\ c.acks # << >> /\ Cardinality(Said("ok")) <= 1
  /\ c.did /\ Said("error") # {} => c.late
  /\ \A j \in Said("ok"), k \in Said("error") : j < k => c.kind = "streamed" /\ c.late

LEMMA AnswerIsTrue ==
  ASSUME NEW c, EndsWell(c), ~c.lost
  PROVE  AnswerTrue(c)
<1> DEFINE Said(status) == {k \in DOMAIN c.acks : c.acks[k] = status}
<1>1. Cardinality({}) = 0 /\ Cardinality({1}) = 1 /\ Cardinality({2}) = 1
  BY FS_EmptySet, FS_Singleton
<1>2. CASE c.acks = <<"ok">>
  <2>1. Said("ok") = {1} /\ Said("error") = {} /\ c.acks # << >>
    BY <1>2
  <2> QED
    BY <1>1, <1>2, <2>1 DEF AnswerTrue
<1>3. CASE c.acks = <<"error">> /\ c.did = FALSE
  <2>1. Said("ok") = {} /\ c.acks # << >>
    BY <1>3
  <2> QED
    BY <1>1, <1>3, <2>1 DEF AnswerTrue
<1>4. CASE c.acks = <<"error", "error">> /\ c.did = FALSE
  <2>1. Said("ok") = {} /\ c.acks # << >>
    BY <1>4
  <2> QED
    BY <1>1, <1>4, <2>1 DEF AnswerTrue
<1>5. CASE c.acks = <<"error", "ok">> /\ c.late
  <2>1. Said("ok") = {2} /\ Said("error") = {1} /\ c.acks # << >>
    BY <1>5
  <2> QED
    BY <1>1, <1>5, <2>1 DEF AnswerTrue
<1>6. CASE c.acks = <<"ok", "error">> /\ c.kind = "streamed" /\ c.late
  <2>1. Said("ok") = {1} /\ Said("error") = {2} /\ c.acks # << >>
    BY <1>6
  <2> QED
    BY <1>1, <1>6, <2>1 DEF AnswerTrue
<1> QED
  BY <1>2, <1>3, <1>4, <1>5, <1>6 DEF EndsWell

(* What is told of a command that ended well is true. *)
LEMMA ToldIsTrue ==
  ASSUME NEW c, EndsWell(c), acked' = Told(c)
  PROVE  AnswersTrue'
<1>1. CASE c.lost
  BY <1>1 DEF Told, AnswersTrue
<1>2. CASE ~c.lost
  <2> DEFINE a == [kind |-> c.kind, acks |-> c.acks, late |-> c.late, did |-> c.did]
  <2>1. acked' = {a}
    BY <1>2 DEF Told
  <2>2. a.kind = c.kind /\ a.acks = c.acks /\ a.late = c.late /\ a.did = c.did
    OBVIOUS
  <2>3. AnswerTrue(c)
    BY <1>2, AnswerIsTrue
  <2> HIDE DEF a
  <2>4. AnswerTrue(a)
    BY <2>2, <2>3 DEF AnswerTrue
  <2> QED
    BY <2>1, <2>4 DEF AnswersTrue, AnswerTrue
<1> QED
  BY <1>1, <1>2

(* A status is heard, or the answer is lost. *)
LEMMA AckedIs ==
  ASSUME NEW c, NEW status, UnderWay(c)
  PROVE  LET d == Acked(c, status) IN
         /\ d = [viewer |-> c.viewer, kind |-> c.kind, session |-> c.session, cut |-> c.cut,
                 acks |-> d.acks, late |-> c.late, did |-> c.did, lost |-> d.lost]
         /\ d.lost \in BOOLEAN
         /\ d.lost \/ (~c.lost /\ d.acks = Append(HeardSoFar(c.kind, c.late), status))
<1>1. CASE ViewerReached(c.viewer) /\ ~c.cut
  <2>1. Acked(c, status) = [c EXCEPT !.acks = Append(c.acks, status)]
    BY <1>1 DEF Acked
  <2> QED
    BY <2>1 DEF UnderWay
<1>2. CASE ~(ViewerReached(c.viewer) /\ ~c.cut)
  <2>1. Acked(c, status) = [c EXCEPT !.lost = TRUE]
    BY <1>2, Zenon DEF Acked
  <2> QED
    BY <2>1 DEF UnderWay
<1> QED
  BY <1>1, <1>2

(* A new command. *)
LEMMA AskedIs ==
  ASSUME NEW v \in Viewers, NEW kind, NEW s, link[v] # "off", kind # "streamed",
         kind \in {"launch", "resume"} => s \in Streams
  PROVE  UnderWay(Asked(v, kind, s))
  BY DEF UnderWay, Asked, HeardSoFar

(* A command stays under way while no connection ends. *)
LEMMA UnderWayStays ==
  ASSUME NEW c, UnderWay(c), \A v \in Viewers : link'[v] = "off" => link[v] = "off"
  PROVE  UnderWay(c)'
  BY DEF UnderWay

(* The handlers that are under way when nothing is asked and none ends. *)
LEMMA AskedRests ==
  ASSUME AskedInv, \A v \in Viewers : link'[v] = "off" => link[v] = "off", asked' = asked
  PROVE  AskedInv'
<1>1. \A i \in 1 .. Len(asked) : UnderWay(asked[i])'
  <2> SUFFICES ASSUME NEW i \in 1 .. Len(asked) PROVE UnderWay(asked[i])'
    OBVIOUS
  <2>1. PICK c : c = asked[i]
    OBVIOUS
  <2>2. UnderWay(c)'
    BY <2>1, UnderWayStays DEF AskedInv
  <2> QED
    BY <2>1, <2>2
<1> QED
  BY <1>1 DEF AskedInv

(* Commands in a list: one more, one less, and one that is changed. *)
LEMMA ListAppended ==
  ASSUME NEW l, Len(l) \in Nat, l = [i \in 1 .. Len(l) |-> l[i]], NEW e
  PROVE  LET m == Append(l, e) IN
         /\ Len(m) = Len(l) + 1 /\ m = [i \in 1 .. Len(m) |-> m[i]]
         /\ \A i \in 1 .. Len(m) : m[i] = IF i = Len(l) + 1 THEN e ELSE l[i]
<1> DEFINE S == {l[i] : i \in 1 .. Len(l)} \cup {e}
<1>1. l \in [1 .. Len(l) -> S]
  OBVIOUS
<1>2. l \in Seq(S) /\ e \in S
  BY <1>1
<1> HIDE DEF S
<1> DEFINE m == Append(l, e)
<1>3. m \in Seq(S) /\ Len(m) = Len(l) + 1
  BY <1>2
<1>4. \A i \in 1 .. Len(l) + 1 : m[i] = IF i = Len(l) + 1 THEN e ELSE l[i]
  BY <1>2
<1> HIDE DEF m
<1>5. m = [i \in 1 .. Len(m) |-> m[i]]
  BY <1>3
<1> QED
  BY <1>3, <1>4, <1>5 DEF m

LEMMA ListWithout ==
  ASSUME NEW l, Len(l) \in Nat, l = [i \in 1 .. Len(l) |-> l[i]], NEW n \in 1 .. Len(l)
  PROVE  LET m == RemoveAt(l, n) IN
         /\ Len(m) \in Nat /\ m = [i \in 1 .. Len(m) |-> m[i]]
         /\ \A i \in 1 .. Len(m) : \E j \in 1 .. Len(l) : m[i] = l[j]
<1> DEFINE S == {l[i] : i \in 1 .. Len(l)}
<1>1. l \in [1 .. Len(l) -> S]
  OBVIOUS
<1>2. l \in Seq(S)
  BY <1>1
<1> HIDE DEF S
<1>3. SubSeq(l, 1, n - 1) \in Seq(S) /\ SubSeq(l, n + 1, Len(l)) \in Seq(S)
  BY <1>2
<1>4. RemoveAt(l, n) \in Seq(S)
  BY <1>3 DEF RemoveAt
<1> DEFINE m == RemoveAt(l, n)
<1>5. m \in Seq(S)
  BY <1>4
<1> HIDE DEF m
<1>6. Len(m) \in Nat /\ m = [i \in 1 .. Len(m) |-> m[i]] /\ \A i \in 1 .. Len(m) : m[i] \in S
  BY <1>5
<1> QED
  BY <1>6 DEF m, S

(* A command comes. *)
LEMMA AwaitsAsked ==
  ASSUME AskedInv, NEW c, UnderWay(c), LinkFalls, Awaits(c)
  PROVE  AskedInv' /\ AnswersTrue'
<1>1. asked' = Append(asked, c) /\ acked' = {}
  BY DEF Awaits
<1>2. \A v \in Viewers : link'[v] = "off" => link[v] = "off"
  BY DEF LinkFalls
<1>3. /\ Len(asked') = Len(asked) + 1 /\ asked' = [i \in 1 .. Len(asked') |-> asked'[i]]
      /\ \A i \in 1 .. Len(asked') : asked'[i] = IF i = Len(asked) + 1 THEN c ELSE asked[i]
  BY <1>1, ListAppended DEF AskedInv
<1>4. \A i \in 1 .. Len(asked') : UnderWay(asked[i])'
  <2> SUFFICES ASSUME NEW i \in 1 .. Len(asked') PROVE UnderWay(asked[i])'
    OBVIOUS
  <2>1. PICK d : d = asked'[i]
    OBVIOUS
  <2>2. UnderWay(d)
    BY <1>3, <2>1 DEF AskedInv
  <2>3. UnderWay(d)'
    BY <1>2, <2>2, UnderWayStays
  <2> QED
    BY <2>1, <2>3
<1> QED
  BY <1>1, <1>3, <1>4 DEF AskedInv, AnswersTrue

(* A handler ends. *)
LEMMA OverAsked ==
  ASSUME AskedInv, NEW n \in 1 .. Len(asked), NEW c, EndsWell(c), LinkFalls, Over(n, c)
  PROVE  AskedInv' /\ AnswersTrue'
<1>1. asked' = RemoveAt(asked, n) /\ acked' = Told(c)
  BY DEF Over
<1>2. \A v \in Viewers : link'[v] = "off" => link[v] = "off"
  BY DEF LinkFalls
<1>3. /\ Len(asked') \in Nat /\ asked' = [i \in 1 .. Len(asked') |-> asked'[i]]
      /\ \A i \in 1 .. Len(asked') : \E j \in 1 .. Len(asked) : asked'[i] = asked[j]
  BY <1>1, ListWithout DEF AskedInv
<1>4. \A i \in 1 .. Len(asked') : UnderWay(asked[i])'
  <2> SUFFICES ASSUME NEW i \in 1 .. Len(asked') PROVE UnderWay(asked[i])'
    OBVIOUS
  <2>1. PICK d : d = asked'[i]
    OBVIOUS
  <2>2. UnderWay(d)
    BY <1>3, <2>1 DEF AskedInv
  <2>3. UnderWay(d)'
    BY <1>2, <2>2, UnderWayStays
  <2> QED
    BY <2>1, <2>3
<1>5. AnswersTrue'
  BY <1>1, ToldIsTrue
<1> QED
  BY <1>3, <1>4, <1>5 DEF AskedInv

(* The close event cuts the handlers of the client off. *)
LEMMA ClosesAsked ==
  ASSUME AskedInv, link \in [Viewers -> Links], NEW v \in Viewers, ViewerCloses(v)
  PROVE  AskedInv' /\ AnswersTrue'
<1>1. /\ link' = [link EXCEPT ![v] = "off"] /\ acked' = {}
      /\ asked' = [i \in DOMAIN asked |-> IF asked[i].viewer = v
                                          THEN [asked[i] EXCEPT !.cut = TRUE] ELSE asked[i]]
  BY DEF ViewerCloses
<1>2. DOMAIN asked = 1 .. Len(asked) /\ Len(asked) \in Nat
  BY DEF AskedInv
<1>3. Len(asked') = Len(asked) /\ asked' = [i \in 1 .. Len(asked') |-> asked'[i]]
      /\ \A i \in 1 .. Len(asked) : asked'[i] = IF asked[i].viewer = v
                                          THEN [asked[i] EXCEPT !.cut = TRUE] ELSE asked[i]
  <2> DEFINE len == Len(asked)
  <2>1. /\ asked' = [i \in 1 .. len |-> asked'[i]] /\ len \in Nat
        /\ \A i \in 1 .. len : asked'[i] = IF asked[i].viewer = v
                                          THEN [asked[i] EXCEPT !.cut = TRUE] ELSE asked[i]
    BY <1>1, <1>2
  <2> HIDE DEF len
  <2>2. Len(asked') = len
    BY <2>1
  <2> QED
    BY <2>1, <2>2 DEF len
<1>4. \A w \in Viewers : link'[w] = IF w = v THEN "off" ELSE link[w]
  BY <1>1
<1>5. \A i \in 1 .. Len(asked') : UnderWay(asked[i])'
  <2> SUFFICES ASSUME NEW i \in 1 .. Len(asked') PROVE UnderWay(asked[i])'
    OBVIOUS
  <2>1. PICK c : c = asked[i]
    OBVIOUS
  <2>2. PICK d : d = asked'[i]
    OBVIOUS
  <2>3. UnderWay(c) /\ d = IF c.viewer = v THEN [c EXCEPT !.cut = TRUE] ELSE c
    BY <1>3, <2>1, <2>2 DEF AskedInv
  <2>4. CASE c.viewer = v
    <3>1. d = [c EXCEPT !.cut = TRUE]
      BY <2>3, <2>4
    <3> QED
      BY <2>2, <2>3, <3>1 DEF UnderWay
  <2>5. CASE c.viewer # v
    <3>1. UnderWay(d)'
      BY <1>4, <2>3, <2>5 DEF UnderWay
    <3> QED
      BY <2>2, <3>1
  <2> QED
    BY <2>4, <2>5
<1> QED
  BY <1>1, <1>2, <1>3, <1>5 DEF AskedInv, AnswersTrue

(* The time limit of a command comes before its handler ends. *)
LEMMA TimesOutAsked ==
  ASSUME AskedInv, NEW n \in 1 .. Len(asked), LinkFalls, TimesOut(n)
  PROVE  AskedInv' /\ AnswersTrue'
<1>1. PICK c : c = asked[n]
  OBVIOUS
<1>2. UnderWay(c)
  BY <1>1 DEF AskedInv
<1> DEFINE d == [Acked(c, "error") EXCEPT !.late = TRUE]
<1>3. ~c.late /\ asked' = [asked EXCEPT ![n] = d] /\ acked' = {}
  BY <1>1 DEF TimesOut
<1>4. \A v \in Viewers : link'[v] = "off" => link[v] = "off"
  BY DEF LinkFalls
<1>5. UnderWay(d)
  <2>1. PICK a : a = Acked(c, "error")
    OBVIOUS
  <2>2. /\ a = [viewer |-> c.viewer, kind |-> c.kind, session |-> c.session, cut |-> c.cut,
                acks |-> a.acks, late |-> c.late, did |-> c.did, lost |-> a.lost]
        /\ a.lost \in BOOLEAN
        /\ a.lost \/ (~c.lost /\ a.acks = Append(HeardSoFar(c.kind, c.late), "error"))
    BY <1>2, <2>1, AckedIs, Zenon
  <2>3. d = [a EXCEPT !.late = TRUE]
    BY <2>1
  <2>4. Append(HeardSoFar(c.kind, FALSE), "error") = HeardSoFar(c.kind, TRUE)
    <3>1. Append(<<"ok">>, "error") = <<"ok", "error">> /\ Append(<< >>, "error") = <<"error">>
      <4>1. <<"ok">> \in Seq({"ok", "error"}) /\ << >> \in Seq({"ok", "error"})
        OBVIOUS
      <4> DEFINE one == Append(<< >>, "error")
                 two == Append(<<"ok">>, "error")
      <4>2. /\ one \in Seq({"ok", "error"}) /\ Len(one) = 1 /\ one[1] = "error"
        BY <4>1
      <4>3. /\ two \in Seq({"ok", "error"}) /\ Len(two) = 2 /\ two[1] = "ok" /\ two[2] = "error"
        BY <4>1
      <4> HIDE DEF one, two
      <4>4. one = <<"error">> /\ two = <<"ok", "error">>
        BY <4>2, <4>3
      <4> QED
        BY <4>4 DEF one, two
    <3>2. CASE c.kind = "streamed"
      BY <3>1, <3>2 DEF HeardSoFar
    <3>3. CASE c.kind # "streamed"
      BY <3>1, <3>3 DEF HeardSoFar
    <3> QED
      BY <3>2, <3>3
  <2> HIDE DEF d
  <2>7. PICK acks, lost : acks = a.acks /\ lost = a.lost
    OBVIOUS
  <2>8. a = [viewer |-> c.viewer, kind |-> c.kind, session |-> c.session, cut |-> c.cut,
             acks |-> acks, late |-> c.late, did |-> c.did, lost |-> lost]
    BY <2>2, <2>7
  <2>9. d = [viewer |-> c.viewer, kind |-> c.kind, session |-> c.session, cut |-> c.cut,
             acks |-> acks, late |-> TRUE, did |-> c.did, lost |-> lost]
    BY <2>3, <2>8
  <2>5. d = [viewer |-> c.viewer, kind |-> c.kind, session |-> c.session, cut |-> c.cut,
             acks |-> a.acks, late |-> TRUE, did |-> c.did, lost |-> a.lost]
    BY <2>7, <2>9, Zenon
  <2>6. c.late = FALSE
    BY <1>2, <1>3 DEF UnderWay
  <2> QED
    BY <1>2, <2>2, <2>4, <2>5, <2>6 DEF UnderWay
<1> HIDE DEF d
<1>6. Len(asked') = Len(asked) /\ asked' = [i \in 1 .. Len(asked') |-> asked'[i]]
      /\ \A i \in 1 .. Len(asked) : asked'[i] = IF i = n THEN d ELSE asked[i]
  <2> DEFINE len == Len(asked)
  <2>1. /\ asked' = [i \in 1 .. len |-> asked'[i]] /\ len \in Nat
        /\ \A i \in 1 .. len : asked'[i] = IF i = n THEN d ELSE asked[i]
    BY <1>3 DEF AskedInv
  <2> HIDE DEF len
  <2>2. Len(asked') = len
    BY <2>1
  <2> QED
    BY <2>1, <2>2 DEF len
<1>7. \A i \in 1 .. Len(asked') : UnderWay(asked[i])'
  <2> SUFFICES ASSUME NEW i \in 1 .. Len(asked') PROVE UnderWay(asked[i])'
    OBVIOUS
  <2>1. PICK e : e = asked'[i]
    OBVIOUS
  <2>2. UnderWay(e)
    BY <1>5, <1>6, <2>1 DEF AskedInv
  <2>3. UnderWay(e)'
    BY <1>4, <2>2, UnderWayStays
  <2> QED
    BY <2>1, <2>3
<1> QED
  BY <1>3, <1>6, <1>7 DEF AskedInv, AnswersTrue


(* One status more. *)
LEMMA Statuses ==
  /\ Append(<< >>, "ok") = <<"ok">> /\ Append(<< >>, "error") = <<"error">>
  /\ Append(<<"error">>, "ok") = <<"error", "ok">>
  /\ Append(<<"error">>, "error") = <<"error", "error">>
<1> DEFINE S == {"ok", "error"}
           a == Append(<< >>, "ok")
           b == Append(<< >>, "error")
           c == Append(<<"error">>, "ok")
           d == Append(<<"error">>, "error")
<1>1. << >> \in Seq(S) /\ <<"error">> \in Seq(S)
  OBVIOUS
<1>2. a \in Seq(S) /\ Len(a) = 1 /\ a[1] = "ok"
  BY <1>1
<1>3. b \in Seq(S) /\ Len(b) = 1 /\ b[1] = "error"
  BY <1>1
<1>4. c \in Seq(S) /\ Len(c) = 2 /\ c[1] = "error" /\ c[2] = "ok"
  BY <1>1
<1>5. d \in Seq(S) /\ Len(d) = 2 /\ d[1] = "error" /\ d[2] = "error"
  BY <1>1
<1> HIDE DEF a, b, c, d
<1>6. a = <<"ok">> /\ b = <<"error">>
  BY <1>2, <1>3
<1>7. c = <<"error", "ok">>
  BY <1>4
<1>8. d = <<"error", "error">>
  BY <1>5
<1> QED
  BY <1>6, <1>7, <1>8 DEF a, b, c, d

(* A command that fails ends well, and so does one that is done. *)
LEMMA FailsWell ==
  ASSUME NEW c, UnderWay(c)
  PROVE  /\ c.kind # "streamed" => EndsWell(Acked(c, "error"))
         /\ (c.kind = "streamed" \/ c.late) => EndsWell(c)
<1>1. c.lost \/ c.acks = HeardSoFar(c.kind, c.late)
  BY DEF UnderWay
<1>2. c.late \in BOOLEAN /\ c.did = FALSE
  BY DEF UnderWay
<1>3. ASSUME c.kind = "streamed" \/ c.late PROVE EndsWell(c)
  BY <1>1, <1>2, <1>3 DEF HeardSoFar, EndsWell
<1>4. ASSUME c.kind # "streamed" PROVE EndsWell(Acked(c, "error"))
  <2>1. PICK d : d = Acked(c, "error")
    OBVIOUS
  <2>2. d.did = c.did /\ (d.lost \/ d.acks = Append(HeardSoFar(c.kind, c.late), "error"))
    <3>1. /\ d = [viewer |-> c.viewer, kind |-> c.kind, session |-> c.session, cut |-> c.cut,
                  acks |-> d.acks, late |-> c.late, did |-> c.did, lost |-> d.lost]
          /\ d.lost \/ (~c.lost /\ d.acks = Append(HeardSoFar(c.kind, c.late), "error"))
      BY <2>1, AckedIs, Zenon
    <3> QED
      BY <3>1
  <2>3. HeardSoFar(c.kind, c.late) \in {<< >>, <<"error">>}
    BY <1>4 DEF HeardSoFar
  <2>4. d.lost \/ d.acks \in {<<"error">>, <<"error", "error">>}
    BY <2>2, <2>3, Statuses
  <2>5. EndsWell(d)
    BY <1>2, <2>2, <2>4 DEF EndsWell
  <2> QED
    BY <2>1, <2>5
<1> QED
  BY <1>3, <1>4

LEMMA DoneWell ==
  ASSUME NEW c, UnderWay(c), c.kind # "streamed"
  PROVE  EndsWell([Acked(c, "ok") EXCEPT !.did = TRUE])
<1>1. PICK a : a = Acked(c, "ok")
  OBVIOUS
<1>2. /\ a = [viewer |-> c.viewer, kind |-> c.kind, session |-> c.session, cut |-> c.cut,
              acks |-> a.acks, late |-> c.late, did |-> c.did, lost |-> a.lost]
      /\ a.lost \/ (~c.lost /\ a.acks = Append(HeardSoFar(c.kind, c.late), "ok"))
  BY <1>1, AckedIs, Zenon
<1> DEFINE d == [a EXCEPT !.did = TRUE]
<1>3. d.acks = a.acks /\ d.late = c.late /\ d.lost = a.lost
  BY <1>2
<1> HIDE DEF d
<1>4. CASE c.late
  <2>1. HeardSoFar(c.kind, c.late) = <<"error">>
    BY <1>4 DEF HeardSoFar
  <2>2. d.lost \/ d.acks = <<"error", "ok">>
    BY <1>2, <1>3, <2>1, Statuses
  <2> QED
    BY <1>1, <1>3, <1>4, <2>2 DEF EndsWell, d
<1>5. CASE ~c.late
  <2>1. HeardSoFar(c.kind, c.late) = << >>
    BY <1>5 DEF HeardSoFar
  <2>2. d.lost \/ d.acks = <<"ok">>
    BY <1>2, <1>3, <2>1, Statuses
  <2> QED
    BY <1>1, <1>3, <2>2 DEF EndsWell, d
<1> QED
  BY <1>4, <1>5

(* A new command that is answered at once. *)
LEMMA AtOnceWell ==
  ASSUME NEW v \in Viewers, NEW kind, NEW s, link[v] # "off", kind \notin {"streamed", "launch", "resume"},
         NEW status \in {"ok", "error"}
  PROVE  EndsWell(Acked(Asked(v, kind, s), status))
<1>1. PICK c : c = Asked(v, kind, s)
  OBVIOUS
<1>2. UnderWay(c) /\ c.kind = kind /\ c.late = FALSE /\ c.did = FALSE
  <2>1. UnderWay(c)
    BY <1>1, AskedIs
  <2> QED
    BY <1>1, <2>1 DEF Asked
<1>3. PICK d : d = Acked(c, status)
  OBVIOUS
<1>4. /\ d = [viewer |-> c.viewer, kind |-> c.kind, session |-> c.session, cut |-> c.cut,
              acks |-> d.acks, late |-> c.late, did |-> c.did, lost |-> d.lost]
      /\ d.lost \/ (~c.lost /\ d.acks = Append(HeardSoFar(c.kind, c.late), status))
  BY <1>2, <1>3, AckedIs, Zenon
<1>5. HeardSoFar(c.kind, c.late) = << >> /\ d.did = FALSE
  BY <1>2, <1>4 DEF HeardSoFar
<1>6. d.lost \/ d.acks = <<status>>
  BY <1>4, <1>5, Statuses
<1>7. EndsWell(d)
  BY <1>5, <1>6 DEF EndsWell
<1> QED
  BY <1>1, <1>3, <1>7

-----------------------------------------------------------------------------
(* The steps of clients, commands and sessions *)

ConnectionsInv == StreamInv /\ AskedInv /\ AnswersTrue

LEMMA ConnectKeeps ==
  ASSUME ConnectionsInv, NEW v \in Viewers, Connect(v)
  PROVE  ConnectionsInv'
<1>1. StreamInv'
  BY ConnectStreams DEF ConnectionsInv
<1>2. link' = [link EXCEPT ![v] = "on"] /\ asked' = asked /\ acked' = {}
  BY DEF Connect
<1>3. \A w \in Viewers : link'[w] = "off" => link[w] = "off"
  BY <1>2 DEF ConnectionsInv, StreamInv, StreamShapes
<1>4. AskedInv'
  BY <1>2, <1>3, AskedRests DEF ConnectionsInv
<1> QED
  BY <1>1, <1>2, <1>4 DEF ConnectionsInv, AnswersTrue

LEMMA ClosesKeeps ==
  ASSUME ConnectionsInv, NEW v \in Viewers, ViewerCloses(v)
  PROVE  ConnectionsInv'
<1>1. StreamInv'
  BY ClosesStreams DEF ConnectionsInv
<1>2. AskedInv' /\ AnswersTrue'
  BY ClosesAsked DEF ConnectionsInv, StreamInv, StreamShapes
<1> QED
  BY <1>1, <1>2 DEF ConnectionsInv

LEMMA LoadKeeps ==
  ASSUME ConnectionsInv, NEW v \in Viewers, LoadChanges(v)
  PROVE  ConnectionsInv'
<1>1. PICK n \in {load[v] + 1, 0} : n <= 2 /\ load' = [load EXCEPT ![v] = n]
  BY DEF LoadChanges
<1>2. load \in [Viewers -> 0 .. 2] /\ link \in [Viewers -> Links]
  BY DEF ConnectionsInv, StreamInv, StreamShapes
<1>3. n \in 0 .. 2
  BY <1>1, <1>2
<1>4. load' \in [Viewers -> 0 .. 2]
  BY <1>1, <1>2, <1>3
<1>5. UNCHANGED <<link, latestSeq, streaming, openSubs, seen, whole, asked>> /\ acked' = {}
  BY DEF LoadChanges, streamVars, followVars
<1>6. LinkFalls
  BY <1>2, <1>5 DEF LinkFalls
<1>7. StreamInv'
  BY <1>4, <1>5, <1>6, QuietKeeps DEF ConnectionsInv
<1>8. AskedInv'
  BY <1>5, AskedRests DEF ConnectionsInv
<1> QED
  BY <1>5, <1>7, <1>8 DEF ConnectionsInv, AnswersTrue

(* What is sent to all, and updates. *)
LEMMA BroadcastKeeps == ASSUME ConnectionsInv, Broadcast PROVE ConnectionsInv'
<1>1. /\ SentTo(Viewers) /\ acked' = {}
      /\ UNCHANGED <<load, latestSeq, streaming, openSubs, seen, whole, asked>>
  BY DEF Broadcast, streamVars, followVars
<1>2. LinkFalls
  BY <1>1, SentFalls DEF ConnectionsInv, StreamInv
<1>3. load' \in [Viewers -> 0 .. 2]
  BY <1>1 DEF ConnectionsInv, StreamInv, StreamShapes
<1>4. StreamInv'
  BY <1>1, <1>2, <1>3, QuietKeeps DEF ConnectionsInv
<1>5. \A w \in Viewers : link'[w] = "off" => link[w] = "off"
  BY <1>2 DEF LinkFalls
<1>6. AskedInv'
  BY <1>1, <1>5, AskedRests DEF ConnectionsInv
<1> QED
  BY <1>1, <1>4, <1>6 DEF ConnectionsInv, AnswersTrue

LEMMA UpdatesKeep ==
  ASSUME ConnectionsInv, NEW s \in Streams, NEW updates \in Seq(BOOLEAN), NEW alert \in BOOLEAN,
         Emit(s, updates, alert), streaming' \in [Streams -> BOOLEAN]
  PROVE  ConnectionsInv'
<1>1. StreamInv'
  BY EmitKeeps DEF ConnectionsInv
<1>2. PICK vs : SentTo(vs)
  BY DEF Emit
<1>3. LinkFalls
  BY <1>2, SentFalls DEF ConnectionsInv, StreamInv
<1>4. acked' = {} /\ asked' = asked
  BY DEF Emit
<1>5. \A w \in Viewers : link'[w] = "off" => link[w] = "off"
  BY <1>3 DEF LinkFalls
<1>6. AskedInv'
  BY <1>4, <1>5, AskedRests DEF ConnectionsInv
<1> QED
  BY <1>1, <1>4, <1>6 DEF ConnectionsInv, AnswersTrue

LEMMA SessionKeeps ==
  ASSUME ConnectionsInv, NEW s \in Streams,
         Attention(s) \/ ViewerCommandEnds(s) \/ \E chunk \in BOOLEAN : Message(s, chunk)
  PROVE  ConnectionsInv'
<1>1. streaming \in [Streams -> BOOLEAN]
  BY DEF ConnectionsInv, StreamInv, StreamShapes
<1>2. /\ <<FALSE>> \in Seq(BOOLEAN) /\ <<FALSE, FALSE>> \in Seq(BOOLEAN)
      /\ \A chunk \in BOOLEAN : <<chunk>> \in Seq(BOOLEAN) /\ <<chunk, FALSE>> \in Seq(BOOLEAN)
  OBVIOUS
<1>3. CASE Attention(s)
  <2>1. Emit(s, <<FALSE>>, TRUE) /\ streaming' \in [Streams -> BOOLEAN]
    BY <1>1, <1>3 DEF Attention
  <2> QED
    BY <1>2, <2>1, UpdatesKeep
<1>4. CASE ViewerCommandEnds(s)
  <2>1. Emit(s, <<FALSE, FALSE>>, TRUE) /\ streaming' = [streaming EXCEPT ![s] = FALSE]
    BY <1>4 DEF ViewerCommandEnds
  <2>2. streaming' \in [Streams -> BOOLEAN]
    BY <1>1, <2>1
  <2> QED
    BY <1>2, <2>1, <2>2, UpdatesKeep
<1>5. ASSUME NEW chunk \in BOOLEAN, Message(s, chunk) PROVE ConnectionsInv'
  <2>1. PICK updates : updates = (IF streaming[s] = chunk THEN <<chunk>> ELSE <<chunk, FALSE>>)
    OBVIOUS
  <2>2. Emit(s, updates, FALSE) /\ streaming' = [streaming EXCEPT ![s] = chunk]
    BY <1>5, <2>1 DEF Message
  <2>3. streaming' \in [Streams -> BOOLEAN]
    BY <1>1, <2>2
  <2>4. updates \in Seq(BOOLEAN)
    BY <1>2, <2>1
  <2> QED
    BY <2>2, <2>3, <2>4, UpdatesKeep
<1> QED
  BY <1>3, <1>4, <1>5

(* A command that its handler answers at once. *)
LEMMA AtOnceStands ==
  ASSUME ConnectionsInv, NEW c, c.viewer \in Viewers, EndsWell(c), AtOnce(c)
  PROVE  /\ LinkFalls /\ AskedInv' /\ AnswersTrue'
         /\ UNCHANGED <<load, latestSeq, streaming>>
<1>1. /\ SentTo({c.viewer}) /\ acked' = Told(c) /\ asked' = asked
      /\ UNCHANGED <<load, latestSeq, streaming>>
  BY DEF AtOnce, streamVars
<1>2. LinkFalls
  BY <1>1, SentFalls DEF ConnectionsInv, StreamInv
<1>3. \A w \in Viewers : link'[w] = "off" => link[w] = "off"
  BY <1>2 DEF LinkFalls
<1>4. AskedInv'
  BY <1>1, <1>3, AskedRests DEF ConnectionsInv
<1>5. AnswersTrue'
  BY <1>1, ToldIsTrue
<1> QED
  BY <1>1, <1>2, <1>4, <1>5

(* An answer goes to the viewer that asked. *)
LEMMA AnswersViewer == \A v, kind, x, status : Acked(Asked(v, kind, x), status).viewer = v
  BY DEF Acked, Asked

LEMMA RefuseKeeps == ASSUME ConnectionsInv, NEW v \in Viewers, Refuse(v) PROVE ConnectionsInv'
<1>1. load \in [Viewers -> 0 .. 2]
  BY DEF ConnectionsInv, StreamInv, StreamShapes
<1>2. PICK c : c = Acked(Asked(v, "refused", NoStream), "error")
  OBVIOUS
<1>3. AtOnce(c) /\ c.viewer = v /\ UNCHANGED <<openSubs, seen, whole>>
  BY AnswersViewer, <1>2 DEF Refuse, followVars
<1>4. link[v] # "off"
  BY <1>3 DEF AtOnce
<1>5. EndsWell(c)
  BY <1>2, <1>4, AtOnceWell
<1>6. LinkFalls /\ AskedInv' /\ AnswersTrue' /\ UNCHANGED <<load, latestSeq, streaming>>
  BY <1>3, <1>5, AtOnceStands
<1>7. StreamInv'
  BY <1>1, <1>3, <1>6, QuietKeeps DEF ConnectionsInv
<1> QED
  BY <1>6, <1>7 DEF ConnectionsInv

LEMMA SubscriptionKeeps ==
  ASSUME ConnectionsInv, NEW v \in Viewers, NEW s \in Streams,
         ViewerSubscribes(v, s) \/ Unsubscribe(v, s)
  PROVE  ConnectionsInv'
<1>1. CASE ViewerSubscribes(v, s)
  <2>1. PICK c : c = Acked(Asked(v, "subscribe", s), "ok")
    OBVIOUS
  <2>2. AtOnce(c) /\ c.viewer = v /\ Follows(v, s, seen[v][s])
    BY AnswersViewer, <1>1, <2>1 DEF ViewerSubscribes
  <2>3. link[v] # "off"
    BY <2>2 DEF AtOnce
  <2>4. EndsWell(c)
    BY <2>1, <2>3, AtOnceWell
  <2>5. LinkFalls /\ AskedInv' /\ AnswersTrue' /\ UNCHANGED <<load, latestSeq, streaming>>
    BY <2>2, <2>4, AtOnceStands
  <2>6. seen[v][s] \in 0 .. latestSeq[s]
    BY DEF ConnectionsInv, StreamInv, StreamShapes
  <2>7. StreamInv'
    BY <2>2, <2>3, <2>5, <2>6, FollowsKeeps DEF ConnectionsInv
  <2> QED
    BY <2>5, <2>7 DEF ConnectionsInv
<1>2. CASE Unsubscribe(v, s)
  <2>1. PICK c : c = Acked(Asked(v, "unsubscribe", s), "ok")
    OBVIOUS
  <2>2. AtOnce(c) /\ c.viewer = v
    BY AnswersViewer, <1>2, <2>1 DEF Unsubscribe
  <2>3. link[v] # "off"
    BY <2>2 DEF AtOnce
  <2>4. EndsWell(c)
    BY <2>1, <2>3, AtOnceWell
  <2>5. LinkFalls /\ AskedInv' /\ AnswersTrue'
    BY <2>2, <2>4, AtOnceStands
  <2>6. StreamInv'
    BY <1>2, <2>5, UnsubscribeKeeps DEF ConnectionsInv
  <2> QED
    BY <2>5, <2>6 DEF ConnectionsInv
<1> QED
  BY <1>1, <1>2

(* A command that its handler awaits the daemon for. *)
LEMMA AskKeepsStreams ==
  ASSUME ConnectionsInv, NEW c, UnderWay(c), LinkFalls, Awaits(c)
  PROVE  ConnectionsInv'
<1>1. AskedInv' /\ AnswersTrue'
  BY AwaitsAsked DEF ConnectionsInv
<1>2. UNCHANGED <<load, latestSeq, streaming, openSubs, seen, whole>>
  BY DEF Awaits, streamVars, followVars
<1>3. load' \in [Viewers -> 0 .. 2]
  BY <1>2 DEF ConnectionsInv, StreamInv, StreamShapes
<1>4. StreamInv'
  BY <1>2, <1>3, QuietKeeps DEF ConnectionsInv
<1> QED
  BY <1>1, <1>4 DEF ConnectionsInv

LEMMA CallKeeps ==
  ASSUME ConnectionsInv, NEW v \in Viewers,
         SessionCall(v) \/ ContextCall(v) \/ \E decides \in BOOLEAN : WorkflowCall(v, decides)
  PROVE  ConnectionsInv'
<1>1. PICK kind \in {"call", "caught"} : Awaits(Asked(v, kind, NoStream)) /\ link' = link
  BY DEF SessionCall, ContextCall, WorkflowCall
<1>2. link[v] # "off"
  BY <1>1 DEF Awaits, Asked
<1>3. UnderWay(Asked(v, kind, NoStream))
  BY <1>2, AskedIs
<1>4. LinkFalls
  BY <1>1 DEF LinkFalls, ConnectionsInv, StreamInv, StreamShapes
<1> QED
  BY <1>1, <1>3, <1>4, AskKeepsStreams

LEMMA StartAskedKeeps ==
  ASSUME ConnectionsInv, NEW v \in Viewers, NEW s \in Streams, Launch(v, s) \/ Resume(v, s)
  PROVE  ConnectionsInv'
<1>1. PICK kind \in {"launch", "resume"} : Awaits(Asked(v, kind, s)) /\ link' = link
  BY DEF Launch, Resume
<1>2. link[v] # "off"
  BY <1>1 DEF Awaits, Asked
<1>3. UnderWay(Asked(v, kind, s))
  BY <1>2, AskedIs
<1>4. LinkFalls
  BY <1>1 DEF LinkFalls, ConnectionsInv, StreamInv, StreamShapes
<1> QED
  BY <1>1, <1>3, <1>4, AskKeepsStreams

(* A streamed read is acknowledged before it is read. *)
LEMMA ReadStreamedKeeps ==
  ASSUME ConnectionsInv, NEW v \in Viewers, ReadStreamed(v)
  PROVE  ConnectionsInv'
<1>1. PICK c : c = Asked(v, "streamed", NoStream)
  OBVIOUS
<1>2. PICK d : d = Acked(c, "ok")
  OBVIOUS
<1>3. Awaits(d) /\ SentTo({v})
  BY <1>1, <1>2 DEF ReadStreamed
<1>4. /\ c = [viewer |-> v, kind |-> "streamed", session |-> NoStream, cut |-> FALSE,
              acks |-> << >>, late |-> FALSE, did |-> FALSE, lost |-> FALSE]
  BY <1>1 DEF Asked
<1>5. d = [c EXCEPT !.acks = Append(c.acks, "ok")] \/ d = [c EXCEPT !.lost = TRUE]
  BY <1>2 DEF Acked
<1>6. \/ d = [viewer |-> v, kind |-> "streamed", session |-> NoStream, cut |-> FALSE,
              acks |-> <<"ok">>, late |-> FALSE, did |-> FALSE, lost |-> FALSE]
      \/ d = [viewer |-> v, kind |-> "streamed", session |-> NoStream, cut |-> FALSE,
              acks |-> << >>, late |-> FALSE, did |-> FALSE, lost |-> TRUE]
  BY <1>4, <1>5, Statuses
<1>7. link[v] # "off"
  <2>1. d.viewer = v
    BY <1>6
  <2> QED
    BY <1>3, <2>1 DEF Awaits
<1>8. UnderWay(d)
  <2>1. HeardSoFar("streamed", FALSE) = <<"ok">>
    BY DEF HeardSoFar
  <2>2. /\ d.viewer = v /\ d.kind = "streamed" /\ d.cut = FALSE /\ d.late = FALSE
        /\ d.did = FALSE /\ d.lost \in BOOLEAN /\ (d.lost \/ d.acks = <<"ok">>)
    <3> DEFINE Read(acks, lost) ==
          [viewer |-> v, kind |-> "streamed", session |-> NoStream, cut |-> FALSE,
           acks |-> acks, late |-> FALSE, did |-> FALSE, lost |-> lost]
    <3>1. PICK acks, lost : d = Read(acks, lost) /\ lost \in BOOLEAN /\ (lost \/ acks = <<"ok">>)
      BY <1>6
    <3> QED
      BY <3>1
  <2>3. d = [viewer |-> d.viewer, kind |-> d.kind, session |-> d.session, cut |-> d.cut,
             acks |-> d.acks, late |-> d.late, did |-> d.did, lost |-> d.lost]
    BY <1>6
  <2> QED
    BY <1>7, <2>1, <2>2, <2>3 DEF UnderWay
<1>9. LinkFalls
  BY <1>3, SentFalls DEF ConnectionsInv, StreamInv
<1> QED
  BY <1>3, <1>8, <1>9, AskKeepsStreams

(* A handler that ends, with what it has done. *)
LEMMA OverStands ==
  ASSUME ConnectionsInv, NEW n \in 1 .. Len(asked), NEW c, EndsWell(c), Over(n, c)
  PROVE  LinkFalls /\ AskedInv' /\ AnswersTrue' /\ load' = load
<1>1. PICK vs : SentTo(vs)
  BY DEF Over
<1>2. LinkFalls
  BY <1>1, SentFalls DEF ConnectionsInv, StreamInv
<1>3. AskedInv' /\ AnswersTrue'
  BY <1>2, OverAsked DEF ConnectionsInv
<1>4. load' = load
  BY DEF Over
<1> QED
  BY <1>2, <1>3, <1>4

LEMMA QuietEndKeeps ==
  ASSUME ConnectionsInv, NEW n \in 1 .. Len(asked), NEW c, EndsWell(c), Over(n, c),
         UNCHANGED <<latestSeq, streaming, openSubs, seen, whole>>
  PROVE  ConnectionsInv'
<1>1. LinkFalls /\ AskedInv' /\ AnswersTrue' /\ load' = load
  BY OverStands
<1>2. load' \in [Viewers -> 0 .. 2]
  BY <1>1 DEF ConnectionsInv, StreamInv, StreamShapes
<1>3. StreamInv'
  BY <1>1, <1>2, QuietKeeps DEF ConnectionsInv
<1> QED
  BY <1>1, <1>3 DEF ConnectionsInv

LEMMA EndsKeep ==
  ASSUME ConnectionsInv, NEW i \in 1 .. Len(asked), CommandFails(i) \/ Starts(i) \/ Returns(i)
  PROVE  ConnectionsInv'
<1>1. PICK c : c = asked[i]
  OBVIOUS
<1>2. UnderWay(c)
  BY <1>1 DEF ConnectionsInv, AskedInv
<1>3. PICK a : a = [Acked(c, "ok") EXCEPT !.did = TRUE]
  OBVIOUS
<1>4. c.kind # "streamed" => EndsWell(a)
  BY <1>2, <1>3, DoneWell
<1>5. CASE CommandFails(i)
  <2>1. PICK d : /\ Over(i, d)
                 /\ \/ d = c /\ (c.kind = "streamed" \/ c.late)
                    \/ d = Acked(c, "error") /\ c.kind # "streamed"
    BY <1>1, <1>5 DEF CommandFails
  <2>2. EndsWell(d)
    BY <1>2, <2>1, FailsWell
  <2>3. UNCHANGED <<latestSeq, streaming, openSubs, seen, whole>>
    BY <1>5 DEF CommandFails, streamVars, followVars
  <2> QED
    BY <2>1, <2>2, <2>3, QuietEndKeeps
<1>6. CASE Returns(i)
  <2>1. PICK d : Over(i, d) /\ ((d = c /\ c.kind = "streamed") \/ (d = a /\ c.kind # "streamed"))
    BY <1>1, <1>3, <1>6 DEF Returns
  <2>2. EndsWell(d)
    BY <1>2, <1>4, <2>1, FailsWell
  <2>3. UNCHANGED <<latestSeq, streaming, openSubs, seen, whole>>
    BY <1>6 DEF Returns, streamVars, followVars
  <2> QED
    BY <2>1, <2>2, <2>3, QuietEndKeeps
<1>7. CASE Starts(i)
  <2>1. /\ c.kind \in {"launch", "resume"} /\ Over(i, a)
        /\ UNCHANGED <<latestSeq, streaming>>
        /\ IF c.cut THEN UNCHANGED followVars ELSE Follows(c.viewer, c.session, 0)
    BY <1>1, <1>3, <1>7 DEF Starts
  <2>2. c.viewer \in Viewers /\ c.session \in Streams /\ (link[c.viewer] = "off" => c.cut)
    BY <1>2, <2>1 DEF UnderWay
  <2>3. EndsWell(a)
    BY <1>4, <2>1
  <2>4. LinkFalls /\ AskedInv' /\ AnswersTrue' /\ load' = load
    BY <2>1, <2>3, OverStands
  <2>5. CASE c.cut
    <3>1. UNCHANGED <<latestSeq, streaming, openSubs, seen, whole>>
      BY <2>1, <2>5 DEF followVars
    <3> QED
      BY <2>1, <2>3, <3>1, QuietEndKeeps
  <2>6. CASE ~c.cut
    <3>1. PICK v \in Viewers, s \in Streams : Follows(v, s, 0) /\ link[v] # "off"
      BY <2>1, <2>2, <2>6
    <3>2. 0 \in 0 .. latestSeq[s]
      BY DEF ConnectionsInv, StreamInv, StreamShapes
    <3>3. StreamInv'
      BY <2>1, <2>4, <3>1, <3>2, FollowsKeeps DEF ConnectionsInv
    <3> QED
      BY <2>4, <3>3 DEF ConnectionsInv
  <2> QED
    BY <2>5, <2>6
<1> QED
  BY <1>5, <1>6, <1>7

LEMMA TimesOutKeeps ==
  ASSUME ConnectionsInv, NEW i \in 1 .. Len(asked), TimesOut(i)
  PROVE  ConnectionsInv'
<1>1. /\ UNCHANGED <<load, latestSeq, streaming, openSubs, seen, whole>>
      /\ \E vs : SentTo(vs)
  BY DEF TimesOut, streamVars, followVars
<1>2. LinkFalls
  BY <1>1, SentFalls DEF ConnectionsInv, StreamInv
<1>3. AskedInv' /\ AnswersTrue'
  BY <1>2, TimesOutAsked DEF ConnectionsInv
<1>4. load' \in [Viewers -> 0 .. 2]
  BY <1>1 DEF ConnectionsInv, StreamInv, StreamShapes
<1>5. StreamInv'
  BY <1>1, <1>2, <1>4, QuietKeeps DEF ConnectionsInv
<1> QED
  BY <1>3, <1>5 DEF ConnectionsInv

(* No one is connected at first. *)
LEMMA ConnectionsStart == ConnectionsInit => ConnectionsInv
<1> SUFFICES ASSUME ConnectionsInit PROVE ConnectionsInv
  OBVIOUS
<1>1. << >> \in Seq(Streams) /\ Len(<< >>) = 0
  OBVIOUS
<1>2. StreamShapes
  BY <1>1 DEF ConnectionsInit, StreamShapes, Links, Nowhere
<1>3. StreamInv
  BY <1>2 DEF ConnectionsInit, StreamInv, StreamWhole
<1>4. AskedInv /\ AnswersTrue
  <2>1. asked = << >> /\ acked = {}
    BY DEF ConnectionsInit
  <2>2. Len(asked) = 0 /\ asked = [i \in 1 .. 0 |-> asked[i]]
    BY <2>1
  <2> QED
    BY <2>1, <2>2 DEF AskedInv, AnswersTrue
<1> QED
  BY <1>3, <1>4 DEF ConnectionsInv

LEMMA ConnectionsStep == ConnectionsInv /\ [ConnectionsNext]_connectionVars => ConnectionsInv'
<1> SUFFICES ASSUME ConnectionsInv, [ConnectionsNext]_connectionVars PROVE ConnectionsInv'
  OBVIOUS
<1>1. CASE UNCHANGED connectionVars
  <2>1. UNCHANGED <<link, openSubs, load, latestSeq, streaming, asked, acked, seen, whole>>
    BY <1>1 DEF connectionVars
  <2>2. StreamInv'
    BY <2>1 DEF ConnectionsInv, StreamInv, StreamShapes, StreamWhole
  <2>3. AskedInv' /\ AnswersTrue'
    BY <2>1, AskedRests DEF ConnectionsInv, AnswersTrue
  <2> QED
    BY <2>2, <2>3 DEF ConnectionsInv
<1>2. ASSUME NEW v \in Viewers,
             \/ Connect(v) \/ ViewerCloses(v) \/ LoadChanges(v)
             \/ Refuse(v) \/ ReadStreamed(v) \/ SessionCall(v) \/ ContextCall(v)
             \/ \E decides \in BOOLEAN : WorkflowCall(v, decides)
             \/ \E s \in Streams :
                  ViewerSubscribes(v, s) \/ Unsubscribe(v, s) \/ Launch(v, s) \/ Resume(v, s)
      PROVE  ConnectionsInv'
  <2>1. ASSUME Refuse(v) PROVE ConnectionsInv'
    BY <2>1, RefuseKeeps
  <2>2. ASSUME SessionCall(v) \/ ContextCall(v) \/ \E decides \in BOOLEAN : WorkflowCall(v, decides)
        PROVE  ConnectionsInv'
    BY <2>2, CallKeeps
  <2>3. ASSUME NEW s \in Streams, ViewerSubscribes(v, s) \/ Unsubscribe(v, s)
        PROVE  ConnectionsInv'
    BY <2>3, SubscriptionKeeps
  <2>4. ASSUME NEW s \in Streams, Launch(v, s) \/ Resume(v, s) PROVE ConnectionsInv'
    BY <2>4, StartAskedKeeps
  <2> QED
    BY <1>2, <2>1, <2>2, <2>3, <2>4, ConnectKeeps, ClosesKeeps, LoadKeeps, ReadStreamedKeeps
<1> QED
  BY <1>1, <1>2, SessionKeeps, BroadcastKeeps, TimesOutKeeps, EndsKeep DEF ConnectionsNext

LEMMA ConnectionsServed == ConnectionsInv => ConnectionsHold
  BY DEF ConnectionsInv, StreamInv, ConnectionsHold

(* Clients are answered truly and miss nothing of what they follow. *)
THEOREM ConnectionsAreServed == ConnectionsSpec => []ConnectionsHold
  BY ConnectionsStart, ConnectionsStep, ConnectionsServed, PTL DEF ConnectionsSpec

-----------------------------------------------------------------------------
(* The three together: a part that rests keeps its invariant. *)

(* Every part starts as it does by itself. *)
LEMMA HeldAtFirst == PartsInit => EpochInv /\ SharedInv /\ PlanInv
  BY EpochsStart, SharingStarts, PlansStart DEF PartsInit

(* A step of a part is a step of it, and the others rest. *)
LEMMA HeldByParts ==
  [PartsNext]_partVars => [EpochNext]_epochVars /\ [SharingNext]_sharingVars /\ [PlansNext]_planVars
<1> SUFFICES ASSUME [PartsNext]_partVars
             PROVE  [EpochNext]_epochVars /\ [SharingNext]_sharingVars /\ [PlansNext]_planVars
  OBVIOUS
<1>1. CASE UNCHANGED partVars
  BY <1>1 DEF partVars
<1>2. CASE Only("epochs") /\ EpochNext
  BY <1>2 DEF Only, Rests
<1>3. CASE Only("sharing") /\ SharingNext
  BY <1>3 DEF Only, Rests
<1>4. CASE Only("plans") /\ PlansNext
  BY <1>4 DEF Only, Rests
<1>5. ASSUME NEW p \in {"grants", "review", "contracts", "context", "connections", "pages"}, Only(p)
      PROVE  UNCHANGED <<epochVars, sharingVars, planVars>>
  BY <1>5 DEF Only, Rests
<1> QED
  BY <1>1, <1>2, <1>3, <1>4, <1>5 DEF PartsNext

(* What edges hold keys for they can open, whichever part takes steps. *)
THEOREM KeysAreHeld == PartsSpec => []KeysHeld
<1>1. EpochInv /\ SharedInv /\ PlanInv => KeysHeld
  <2>1. EpochInv => EpochKeyHeld
    BY EpochsHeld
  <2>2. SharedInv => SharedEpochsHold
    BY SharingHeld
  <2>3. PlanInv => PlansHold
    BY PlansHeld
  <2> QED
    BY <2>1, <2>2, <2>3 DEF KeysHeld
<1> QED
  BY <1>1, HeldAtFirst, HeldByParts, EpochsStep, SharedStep, PlansStep, PTL DEF PartsSpec

(* And what clients are served, when their connections or their pages take
   steps. *)
LEMMA ServedByParts ==
  [PartsNext]_partVars => [ConnectionsNext]_connectionVars /\ [PagesNext]_pagesVars
<1> SUFFICES ASSUME [PartsNext]_partVars
             PROVE  [ConnectionsNext]_connectionVars /\ [PagesNext]_pagesVars
  OBVIOUS
<1>1. CASE UNCHANGED partVars
  BY <1>1 DEF partVars
<1>2. CASE Only("connections") /\ ConnectionsNext
  BY <1>2 DEF Only, Rests
<1>3. CASE Only("pages") /\ PagesNext
  BY <1>3 DEF Only, Rests
<1>4. ASSUME NEW p \in {"epochs", "sharing", "grants", "review", "plans", "contracts", "context"},
             Only(p)
      PROVE  UNCHANGED <<connectionVars, pagesVars>>
  BY <1>4 DEF Only, Rests
<1> QED
  BY <1>1, <1>2, <1>3, <1>4 DEF PartsNext

(* Clients are answered truly, miss nothing of what they follow, and page
   through whole transcripts, whichever part takes steps. *)
THEOREM ClientsAreServed == PartsSpec => []ClientsServed
<1>1. PartsInit => ConnectionsInv /\ PagesInv
  BY ConnectionsStart, PagesStart DEF PartsInit
<1>2. ConnectionsInv /\ PagesInv => ClientsServed
  <2>1. ConnectionsInv => ConnectionsHold
    BY ConnectionsServed
  <2>2. PagesInv => PagesTell
    BY PagesHeld
  <2> QED
    BY <2>1, <2>2 DEF ClientsServed
<1> QED
  BY <1>1, <1>2, ServedByParts, ConnectionsStep, PagesStep, PTL DEF PartsSpec
=============================================================================
