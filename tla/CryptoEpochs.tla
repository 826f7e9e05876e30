---------------------------- MODULE CryptoEpochs ----------------------------
(***************************************************************************)
(* The key epochs of a user and of a team (security/epoch-sync.ts,         *)
(* security/epoch-store.ts).  A process makes a key pair, posts its public *)
(* half and writes the private half to epochs.json only when the platform  *)
(* has answered; the CLI and the daemon share the file without a lock.     *)
(***************************************************************************)
EXTENDS Integers, FiniteSets, Sequences

CONSTANTS EpochProcs, Subjects, MaxKeys

VARIABLES
  epochFile,   \* the records of each subject: [epoch, key, active]
  unreadable,  \* a write was cut short: every later read throws
  platformEpoch, \* the newest epoch the platform accepted for each subject
  op,          \* per process: the operation it is in the middle of
  keysMade,
  lostKeys     \* history: subjects whose accepted key may be in no file

epochVars == <<epochFile, unreadable, platformEpoch, op, keysMade, lostKeys>>

NoOp == [pc |-> "idle", s |-> "", epoch |-> 0, key |-> 0, prev |-> 0, snap |-> << >>]

EpochInit ==
  /\ epochFile = [s \in Subjects |-> {}] /\ unreadable = FALSE
  /\ platformEpoch = [s \in Subjects |-> [epoch |-> 0, key |-> 0]]
  /\ op = [p \in EpochProcs |-> NoOp] /\ keysMade = 0 /\ lostKeys = {}

\* getActiveLocalUserEpoch, getActiveLocalTeamEpoch: the newest active record.
NewestActive(s) ==
  {e \in epochFile[s] : e.active /\ \A f \in epochFile[s] : f.active => f.epoch <= e.epoch}

Posting(p, s, epoch, prev) ==
  /\ op[p].pc = "idle" /\ ~unreadable /\ keysMade < MaxKeys /\ keysMade' = keysMade + 1
  /\ op' = [op EXCEPT ![p] = [pc |-> "posting", s |-> s, epoch |-> epoch,
                              key |-> keysMade + 1, prev |-> prev, snap |-> << >>]]
  /\ UNCHANGED <<epochFile, unreadable, platformEpoch, lostKeys>>

EnsureEpoch(p, s) == NewestActive(s) = {} /\ Posting(p, s, 1, 0)

RotateEpoch(p, s) == \E e \in NewestActive(s) : Posting(p, s, e.epoch + 1, e.key)

\* The platform takes the successor of the epoch it has, signed with its key.
Acceptable(o) ==
  o.epoch = platformEpoch[o.s].epoch + 1 /\ o.prev = platformEpoch[o.s].key

PlatformAccepts(p) ==
  /\ op[p].pc = "posting" /\ Acceptable(op[p])
  /\ platformEpoch' = [platformEpoch EXCEPT ![op[p].s] = [epoch |-> op[p].epoch, key |-> op[p].key]]
  /\ op' = [op EXCEPT ![p].pc = "accepted"]
  /\ UNCHANGED <<epochFile, unreadable, keysMade, lostKeys>>

\* postJson throws, on a refusal or because no answer comes: the key is dropped.
PostFails(p) ==
  /\ \/ op[p].pc = "posting" /\ UNCHANGED lostKeys
     \/ op[p].pc = "accepted" /\ lostKeys' = lostKeys \cup {op[p].s}
  /\ op' = [op EXCEPT ![p] = NoOp]
  /\ UNCHANGED <<epochFile, unreadable, platformEpoch, keysMade>>

StoreRead(p) ==
  /\ op[p].pc = "accepted"
  /\ IF unreadable
     THEN op' = [op EXCEPT ![p] = NoOp] /\ lostKeys' = lostKeys \cup {op[p].s}
     ELSE op' = [op EXCEPT ![p].pc = "storing", ![p].snap = epochFile] /\ UNCHANGED lostKeys
  /\ UNCHANGED <<epochFile, unreadable, platformEpoch, keysMade>>

\* Variant for mutation testing: the records before it stay active.
UpsertEpochOnly(records, epoch, key) ==
  records \cup {[epoch |-> epoch, key |-> key, active |-> TRUE]}

\* upsertLocalUserEpoch, upsertLocalTeamEpoch: every active record is
\* superseded and the new one added.
UpsertEpoch(records, epoch, key) ==
  {[e EXCEPT !.active = FALSE] : e \in records}
    \cup {[epoch |-> epoch, key |-> key, active |-> TRUE]}

\* The whole file is written; what another process wrote since the read is gone.
StoreWrite(p) ==
  /\ op[p].pc = "storing" /\ unreadable' = FALSE
  /\ epochFile' = [op[p].snap EXCEPT ![op[p].s] = UpsertEpoch(@, op[p].epoch, op[p].key)]
  /\ op' = [op EXCEPT ![p] = NoOp]
  /\ lostKeys' = IF epochFile = op[p].snap THEN lostKeys ELSE Subjects
  /\ UNCHANGED <<platformEpoch, keysMade>>

EpochCrash(p) ==
  /\ op[p].pc # "idle" /\ op' = [op EXCEPT ![p] = NoOp]
  /\ \/ op[p].pc = "posting" /\ UNCHANGED <<lostKeys, unreadable>>
     \/ op[p].pc # "posting" /\ lostKeys' = lostKeys \cup {op[p].s} /\ UNCHANGED unreadable
     \/ op[p].pc = "storing" /\ lostKeys' = Subjects /\ unreadable' = TRUE
  /\ UNCHANGED <<epochFile, platformEpoch, keysMade>>

EpochNext ==
  \E p \in EpochProcs :
    \/ \E s \in Subjects : EnsureEpoch(p, s) \/ RotateEpoch(p, s)
    \/ PlatformAccepts(p) \/ PostFails(p) \/ StoreRead(p) \/ StoreWrite(p) \/ EpochCrash(p)

EpochRecords == [epoch : 1 .. MaxKeys, key : 1 .. MaxKeys, active : BOOLEAN]

EpochTypeOK ==
  /\ epochFile \in [Subjects -> SUBSET EpochRecords] /\ unreadable \in BOOLEAN
  /\ platformEpoch \in [Subjects -> [epoch : 0 .. MaxKeys, key : 0 .. MaxKeys]]
  /\ \A p \in EpochProcs : op[p].pc \in {"idle", "posting", "accepted", "storing"}
  /\ keysMade \in 0 .. MaxKeys /\ lostKeys \subseteq Subjects

(* Between operations the one active local epoch of a subject is the epoch
   the platform has, with the same key, unless a process died or lost the
   answer after the platform had accepted, or overwrote another's write. *)
EpochKeyHeld ==
  \A s \in Subjects :
    LET active == {e \in epochFile[s] : e.active}
        settled == \A p \in EpochProcs : op[p].s = s => op[p].pc = "posting"
    IN /\ Cardinality(active) <= 1
       /\ settled /\ s \notin lostKeys =>
            IF platformEpoch[s].epoch = 0 THEN active = {}
            ELSE active = {[epoch |-> platformEpoch[s].epoch, key |-> platformEpoch[s].key,
                            active |-> TRUE]}

-----------------------------------------------------------------------------
(***************************************************************************)
(* How an epoch's private keys reach other devices and members: a device   *)
(* enrols and is granted the user's epoch (security/epoch-enrollment.ts),  *)
(* an epoch is backed up and restored (security/epoch-recovery.ts), and a  *)
(* team's epoch is granted to the members' epochs                          *)
(* (security/team-epoch-grants.ts), whose public halves the granter pins   *)
(* (security/epoch-public-pins.ts).  The platform accepts the successor of *)
(* the epoch it has, so a number names an epoch and its key; the file of   *)
(* each device has one writer here (CryptoEpochs has two).  User "u" has   *)
(* Devices, user "v" rotates elsewhere; the team's owner is a third user.  *)
(***************************************************************************)

CONSTANTS Devices, FirstDevice, MaxUserEpoch, MaxTeamEpoch, MaxCommands

ASSUME FirstDeviceKnown == FirstDevice \in Devices

VARIABLES
  newestUser,  \* per user: the epoch the platform has
  held,        \* per device: the user epochs its file has the private keys of
  activeUser,  \* per device: the one that is active, 0 for none
  enrolment,   \* per device: the newest enrolment: [status, kept, grant]
  backup,      \* the epoch of the latest recovery backup, 0 for none
  newestTeam,  \* the team's epoch, active in the owner's file
  pins,        \* per user: the epochs the owner has pinned
  grants,      \* the team grants: [team, user, done]
  granting,    \* the owner's loop: the users still to come, or Failed
  teamActive,  \* per device: the team epoch that is active, 0 for none
  devOp,       \* per device: the command in progress
  commands,    \* how many commands were given
  changed,     \* history: an epoch was rotated after the owner's loop began
  behind,      \* history: devices whose epoch another one, or an old copy, replaced
  reordered    \* history: devices that took an older team grant after a newer one

sharingVars == <<newestUser, held, activeUser, enrolment, backup, newestTeam, pins, grants,
                 granting, teamActive, devOp, commands, changed, behind, reordered>>

Users == {"u", "v"}
Failed == <<"failed">>
Resting == [pc |-> "idle", epoch |-> 0, for |-> 0, list |-> {}]
NoEnrolment == [status |-> "none", kept |-> FALSE, grant |-> 0]

SharingInit ==
  /\ newestUser = [u \in Users |-> 1] /\ newestTeam = 1
  /\ held = [d \in Devices |-> IF d = FirstDevice THEN {1} ELSE {}]
  /\ activeUser = [d \in Devices |-> IF d = FirstDevice THEN 1 ELSE 0]
  /\ enrolment = [d \in Devices |-> NoEnrolment] /\ backup = 0
  /\ pins = [u \in Users |-> {}] /\ grants = {} /\ granting = << >>
  /\ teamActive = [d \in Devices |-> 0] /\ devOp = [d \in Devices |-> Resting]
  /\ commands = 0 /\ changed = TRUE /\ behind = {} /\ reordered = {}

userFiles == <<held, activeUser, behind>>
teamState == <<newestTeam, pins, grants, granting, changed>>

\* upsertLocalUserEpoch: every active record is superseded, this one is active.
UpsertUser(d, e) ==
  /\ held' = [held EXCEPT ![d] = @ \cup {e}]
  /\ activeUser' = [activeUser EXCEPT ![d] = e]

Command == commands < MaxCommands /\ commands' = commands + 1

Begin(d, pc, e, f) ==
  /\ Command /\ devOp[d].pc = "idle"
  /\ devOp' = [devOp EXCEPT ![d] = [pc |-> pc, epoch |-> e, for |-> f, list |-> {}]]
Goes(d, pc) == devOp' = [devOp EXCEPT ![d].pc = pc]
Ends(d) == devOp' = [devOp EXCEPT ![d] = Resting]

\* rotateUserCryptoEpoch: the platform takes a successor of the epoch it has,
\* signed with that epoch's key, and refuses any other.
Rotated(d) ==
  /\ activeUser[d] = newestUser["u"] /\ newestUser["u"] < MaxUserEpoch
  /\ newestUser' = [newestUser EXCEPT !["u"] = @ + 1]
  /\ UpsertUser(d, newestUser["u"] + 1)
  /\ behind' = (behind \cup {x \in Devices : activeUser[x] # 0}) \ {d}
  /\ changed' = TRUE /\ UNCHANGED <<newestTeam, pins, grants, granting>>

RotateUser(d) ==
  /\ Command /\ devOp[d].pc = "idle" /\ Rotated(d)
  /\ UNCHANGED <<enrolment, backup, teamActive, devOp, reordered>>

OtherUserRotates ==
  /\ Command /\ newestUser["v"] < MaxUserEpoch
  /\ newestUser' = [newestUser EXCEPT !["v"] = @ + 1]
  /\ UNCHANGED <<userFiles, enrolment, backup, teamState, teamActive, devOp, reordered>>

---------------------------------------------------------------------------
(* A device enrols. *)

\* requestDeviceEpochEnrollment: the key is kept only after the answer.
RequestEnrolment(d) ==
  /\ Command /\ devOp[d].pc = "idle"
  /\ \E kept \in BOOLEAN :
       enrolment' = [enrolment EXCEPT ![d] = [status |-> "pending", kept |-> kept, grant |-> 0]]
  /\ UNCHANGED <<newestUser, userFiles, backup, teamState, teamActive, devOp, reordered>>

\* approveDeviceEpochEnrollment reads the active epoch first and posts it,
\* wrapped for the device, when the enrolment has been fetched.
ApproveReads(a, d) ==
  /\ activeUser[a] # 0 /\ enrolment[d].status = "pending" /\ Begin(a, "approving", activeUser[a], d)
  /\ UNCHANGED <<newestUser, userFiles, enrolment, backup, teamState, teamActive, reordered>>

ApprovePosts(a) ==
  /\ devOp[a].pc = "approving"
  /\ \/ /\ enrolment[devOp[a].for].status = "pending"
        /\ enrolment' = [enrolment EXCEPT ![devOp[a].for].status = "approved",
                                          ![devOp[a].for].grant = devOp[a].epoch]
     \/ UNCHANGED enrolment  \* refused, or no answer
  /\ Ends(a)
  /\ UNCHANGED <<newestUser, userFiles, backup, teamState, teamActive, commands, reordered>>

\* acceptDeviceEpochEnrollment: needs the key of the request and a grant; it
\* may be repeated, also after it was accepted.
AcceptFetches(d) ==
  /\ enrolment[d].kept /\ enrolment[d].grant # 0 /\ Begin(d, "accepting", enrolment[d].grant, 0)
  /\ UNCHANGED <<newestUser, userFiles, enrolment, backup, teamState, teamActive, reordered>>

\* The granted epoch becomes the active one whatever the device had.
StoresGranted(d) ==
  /\ devOp[d].pc = "accepting" /\ UpsertUser(d, devOp[d].epoch)
  /\ behind' = IF devOp[d].epoch = newestUser["u"] THEN behind \ {d} ELSE behind \cup {d}
  /\ Goes(d, "receipt")
  /\ UNCHANGED <<newestUser, enrolment, backup, teamState, teamActive, commands, reordered>>

\* The local record is marked, then the receipt is posted, or not.
PostsReceipt(d) ==
  /\ devOp[d].pc = "receipt"
  /\ enrolment' \in {enrolment, [enrolment EXCEPT ![d].status = "accepted"]}
  /\ Ends(d)
  /\ UNCHANGED <<newestUser, userFiles, backup, teamState, teamActive, commands, reordered>>

---------------------------------------------------------------------------
(* An epoch is backed up and restored. *)

\* createUserEpochRecoveryBackup
BackUp(d) ==
  /\ activeUser[d] # 0
  /\ \/ devOp[d].pc = "idle" /\ Command /\ UNCHANGED devOp
     \/ devOp[d].pc = "rotated" /\ Ends(d) /\ UNCHANGED commands
  /\ backup' = activeUser[d]
  /\ UNCHANGED <<newestUser, userFiles, enrolment, teamState, teamActive, reordered>>

\* restoreUserEpochFromRecoveryBackup: the restored epoch is stored as the
\* active one, then rotated, then the new one is backed up.
RestoreStores(d) ==
  /\ backup # 0 /\ Begin(d, "restored", backup, 0) /\ UpsertUser(d, backup)
  /\ behind' = IF backup = newestUser["u"] THEN behind \ {d} ELSE behind \cup {d}
  /\ UNCHANGED <<newestUser, enrolment, backup, teamState, teamActive, reordered>>

RestoreRotates(d) ==
  /\ devOp[d].pc = "restored" /\ Rotated(d) /\ Goes(d, "rotated")
  /\ UNCHANGED <<enrolment, backup, teamActive, commands, reordered>>

\* A request fails or the process is killed: what is stored stays stored.
CommandEnds(d) ==
  /\ devOp[d].pc # "idle" /\ Ends(d)
  /\ UNCHANGED <<newestUser, userFiles, enrolment, backup, teamState, teamActive, commands, reordered>>

FilesLost(d) ==
  /\ Command /\ devOp[d].pc = "idle" /\ held[d] # {}
  /\ held' = [held EXCEPT ![d] = {}] /\ activeUser' = [activeUser EXCEPT ![d] = 0]
  /\ teamActive' = [teamActive EXCEPT ![d] = 0]
  /\ enrolment' = [enrolment EXCEPT ![d] = NoEnrolment]
  /\ behind' = behind \ {d} /\ reordered' = reordered \ {d}
  /\ UNCHANGED <<newestUser, backup, teamState, devOp>>

---------------------------------------------------------------------------
(* The team's epoch. *)

RotateTeam ==
  /\ Command /\ granting \in {<< >>, Failed} /\ newestTeam < MaxTeamEpoch /\ newestTeam' = newestTeam + 1
  /\ changed' = TRUE
  /\ UNCHANGED <<newestUser, userFiles, enrolment, backup, pins, grants, granting, teamActive,
                 devOp, reordered>>

\* Variant for mutation testing: a later epoch need not continue the pinned one.
PinnableForward(u, e) == \A p \in pins[u] : p <= e

\* assertSignedContinuity: its transition is signed with the pinned epoch's key.
SignedBy(pinned, e) == e = pinned + 1

\* validateAndPinPublicEpoch: the first is trusted, none goes back, and a new
\* one is signed by the newest that is pinned.
Pinnable(u, e) ==
  \A newest \in {p \in pins[u] : \A q \in pins[u] : q <= p} : e = newest \/ SignedBy(newest, e)

\* grantTeamEpochToWorkspaceUserEpochs: one user after the other.
GrantStarts ==
  /\ Command /\ granting \in {<< >>, Failed} /\ granting' \in {<<"u", "v">>, <<"v", "u">>}
  /\ changed' = FALSE
  /\ UNCHANGED <<newestUser, userFiles, enrolment, backup, newestTeam, pins, grants, teamActive,
                 devOp, reordered>>

\* processPendingCryptoRotationRequests: the team's epoch is rotated and the
\* new one granted to the recipients of the request.
RotationRequested ==
  /\ Command /\ granting \in {<< >>, Failed} /\ newestTeam < MaxTeamEpoch
  /\ newestTeam' = newestTeam + 1 /\ granting' \in {<<"u", "v">>, <<"v", "u">>}
  /\ changed' = FALSE
  /\ UNCHANGED <<newestUser, userFiles, enrolment, backup, pins, grants, teamActive, devOp,
                 reordered>>

\* grantTeamEpochToUserEpoch pins the epoch and posts the wrapped key.
GrantNext ==
  /\ granting \notin {<< >>, Failed}
  /\ LET u == Head(granting)
         e == newestUser[u]
     IN /\ Pinnable(u, e) /\ pins' = [pins EXCEPT ![u] = @ \cup {e}]
        /\ grants' = grants \cup
             (IF u = "u" /\ [team |-> newestTeam, user |-> e, done |-> TRUE] \notin grants
              THEN {[team |-> newestTeam, user |-> e, done |-> FALSE]} ELSE {})
        /\ granting' = Tail(granting)
  /\ UNCHANGED <<newestUser, userFiles, enrolment, backup, newestTeam, teamActive, devOp,
                 commands, changed, reordered>>

\* A member whose epoch cannot be pinned, or an error that is not "not a team
\* member", ends the loop: the users after it get no grant.
GrantFails ==
  /\ granting \notin {<< >>, Failed} /\ granting' = Failed
  /\ UNCHANGED <<newestUser, userFiles, enrolment, backup, newestTeam, pins, grants, teamActive,
                 devOp, commands, changed, reordered>>

\* The file has the private key of the grant's recipient, as the active epoch.
Opens(d, g) == g.user = activeUser[d]

\* The newest team epoch among the grants the device can open.
BestFor(d, list) ==
  LET teams == {0} \cup {g.team : g \in {h \in list : Opens(d, h)}}
  IN CHOOSE t \in teams : \A x \in teams : x <= t

\* acceptTeamEpochMemberGrants: what the platform lists, in the order listed.
TakesList(d) ==
  /\ Command /\ devOp[d].pc = "idle"
  /\ \E list \in {grants, {g \in grants : ~g.done}} :
       devOp' = [devOp EXCEPT ![d] = [pc |-> "taking", epoch |-> BestFor(d, list), for |-> 0,
                                      list |-> list]]
  /\ UNCHANGED <<newestUser, userFiles, enrolment, backup, teamState, teamActive, reordered>>

\* A grant that cannot be opened is passed over; the last one taken is active.
TakesGrant(d) ==
  /\ devOp[d].pc = "taking"
  /\ \E g \in devOp[d].list :
       IF ~Opens(d, g)
       THEN devOp' = [devOp EXCEPT ![d].list = @ \ {g}] /\ UNCHANGED <<teamActive, grants, reordered>>
       ELSE /\ teamActive' = [teamActive EXCEPT ![d] = g.team]
            /\ reordered' = IF g.team < teamActive[d] THEN reordered \cup {d}
                            ELSE IF g.team = newestTeam THEN reordered \ {d} ELSE reordered
            /\ \/ /\ grants' = (grants \ {g}) \cup {[g EXCEPT !.done = TRUE]}
                  /\ devOp' = [devOp EXCEPT ![d].list = @ \ {g}]
               \/ Ends(d) /\ UNCHANGED grants  \* the receipt is not taken
  /\ UNCHANGED <<newestUser, userFiles, enrolment, backup, newestTeam, pins, granting, commands, changed>>

TakesNoMore(d) ==
  /\ devOp[d].pc = "taking" /\ devOp[d].list = {} /\ Ends(d)
  /\ UNCHANGED <<newestUser, userFiles, enrolment, backup, teamState, teamActive, commands, reordered>>

SharingNext ==
  \/ \E d \in Devices :
       \/ RotateUser(d) \/ RequestEnrolment(d) \/ ApprovePosts(d) \/ AcceptFetches(d)
       \/ StoresGranted(d) \/ PostsReceipt(d) \/ BackUp(d) \/ RestoreStores(d)
       \/ RestoreRotates(d) \/ CommandEnds(d) \/ FilesLost(d) \/ TakesList(d)
       \/ TakesGrant(d) \/ TakesNoMore(d)
       \/ \E e \in Devices \ {d} : ApproveReads(d, e)
  \/ OtherUserRotates \/ RotateTeam \/ RotationRequested \/ GrantStarts \/ GrantNext \/ GrantFails

SharingSpec == SharingInit /\ [][SharingNext]_sharingVars

DeviceSteps == {"idle", "approving", "accepting", "receipt", "restored", "rotated", "taking"}

SharingTypeOK ==
  /\ newestUser \in [Users -> 1 .. MaxUserEpoch] /\ newestTeam \in 1 .. MaxTeamEpoch
  /\ held \in [Devices -> SUBSET (1 .. MaxUserEpoch)]
  /\ activeUser \in [Devices -> 0 .. MaxUserEpoch] /\ backup \in 0 .. MaxUserEpoch
  /\ \A d \in Devices : devOp[d].pc \in DeviceSteps /\ activeUser[d] \in held[d] \cup {0}
  /\ commands \in 0 .. MaxCommands /\ behind \subseteq Devices /\ reordered \subseteq Devices

(* A device's active epoch is the platform's newest unless another device
   rotated or an older grant or backup was stored over it; what the owner has
   pinned of a user is one unbroken chain, no newer than the platform's;
   when the owner's loop ends well, the members' newest epochs have grants of
   the team's newest; and a device that was listed a team epoch ends with it or
   a newer one active, unless an older one was listed after it. *)
SharedEpochsHold ==
  /\ \A d \in Devices : activeUser[d] \in {0, newestUser["u"]} \/ d \in behind
  /\ \A u \in Users : \A e, f \in pins[u] : f <= newestUser[u] /\ (e .. f) \subseteq pins[u]
  /\ granting = << >> /\ ~changed =>
       \E g \in grants : g.team = newestTeam /\ g.user = newestUser["u"]
  /\ \A d \in Devices \ reordered :
       devOp[d].pc = "taking" /\ devOp[d].list = {} => teamActive[d] >= devOp[d].epoch
=============================================================================
