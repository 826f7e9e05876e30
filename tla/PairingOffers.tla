---------------------------- MODULE PairingOffers ----------------------------
(***************************************************************************)
(* Pairing offers and the peers bound by them (server/pairing-offers.ts,   *)
(* server/pairing-peer-bindings.ts).  Every operation reads the whole file *)
(* and writes it back; a promise chain keeps two of them apart.  A write   *)
(* cut short by a crash leaves a file that reads as empty.                 *)
(***************************************************************************)
EXTENDS Selections, Integers, Sequences, FiniteSets

CONSTANTS Offers, Peers, Requests,
  MaxStoredOffers,   \* MAX_STORED_OFFERS
  MaxFailedRedeems,  \* MAX_FAILED_REDEEM_ATTEMPTS
  MaxBindings,       \* pairingPeerBindingsMax()
  MaxRestarts        \* bound on crashes

\* A peer's name is not empty; the caps are those of the code.
ASSUME PairingAssumption ==
  /\ "" \notin Peers /\ MaxStoredOffers \in Nat /\ MaxBindings \in Nat
  /\ MaxFailedRedeems \in Nat \ {0}

VARIABLES
  offerFile,  \* the stored offers, oldest first
  peerFile,   \* the stored bindings, the one paired last at the end
  age,        \* per offer: "unissued", "fresh", "expired", "old" (a day expired)
  reqPc,      \* per request: "out", "writing" (between read and write), "binding"
  draft,      \* per request: what it is about to write
  binds,      \* per request: the binding it makes once the offers are written
  restarts,
  redeemedBy, \* history: per offer, the peers whose redemption was written
  wrong       \* history: per offer, the wrong secrets that were compared

pairingVars == <<offerFile, peerFile, age, reqPc, draft, binds, restarts, redeemedBy, wrong>>

NoBinding == [peer |-> "", offer |-> 0]

PairingInit ==
  /\ offerFile = << >> /\ peerFile = << >> /\ age = [o \in Offers |-> "unissued"]
  /\ reqPc = [r \in Requests |-> "out"] /\ draft = [r \in Requests |-> << >>]
  /\ binds = [r \in Requests |-> NoBinding] /\ restarts = 0
  /\ redeemedBy = [o \in Offers |-> {}] /\ wrong = [o \in Offers |-> 0]

\* Variant for mutation testing: operations are not kept apart.
MayEnterAnyTime(r) == reqPc[r] = "out"

\* withStoreMutationLock: an operation starts once the one before it is through.
MayEnter(r) == \A s \in Requests : reqPc[s] = "out"

\* compactOffers: offers expired for a day go, then the oldest beyond the cap.
CompactOffers(s) ==
  LastOf(Selected(s, {i \in DOMAIN s : age[s[i].id] # "old"}), MaxStoredOffers)

NewOffer(o) == [id |-> o, revoked |-> FALSE, redeemed |-> FALSE, locked |-> FALSE, failed |-> 0]

Stored(o) == {i \in DOMAIN offerFile : offerFile[i].id = o}

Writes(r, offers, binding) ==
  /\ MayEnter(r) /\ reqPc' = [reqPc EXCEPT ![r] = "writing"]
  /\ draft' = [draft EXCEPT ![r] = offers] /\ binds' = [binds EXCEPT ![r] = binding]

IssueOffer(r, o) ==
  /\ age[o] = "unissued" /\ Writes(r, Append(offerFile, NewOffer(o)), NoBinding)
  /\ age' = [age EXCEPT ![o] = "fresh"]
  /\ UNCHANGED <<offerFile, peerFile, restarts, redeemedBy, wrong>>

RevokeOffer(r, o) ==
  \E i \in Stored(o) :
    /\ ~offerFile[i].revoked /\ Writes(r, [offerFile EXCEPT ![i].revoked = TRUE], NoBinding)
    /\ UNCHANGED <<offerFile, peerFile, age, restarts, redeemedBy, wrong>>

\* Conditions under which redeemPairingOffer gets as far as the secret.
Redeemable(e) == age[e.id] = "fresh" /\ ~(e.revoked \/ e.redeemed \/ e.locked)

\* A wrong secret is counted, and the last one allowed locks the offer.
RedeemWrongly(r, o) ==
  \E i \in Stored(o) :
    /\ Redeemable(offerFile[i])
    /\ LET n == offerFile[i].failed + 1
       IN Writes(r, [offerFile EXCEPT ![i].failed = n, ![i].locked = (n >= MaxFailedRedeems)],
                 NoBinding)
    /\ wrong' = [wrong EXCEPT ![o] = @ + 1]
    /\ UNCHANGED <<offerFile, peerFile, age, restarts, redeemedBy>>

RedeemOffer(r, o, p) ==
  \E i \in Stored(o) :
    /\ Redeemable(offerFile[i])
    /\ Writes(r, [offerFile EXCEPT ![i].redeemed = TRUE], [peer |-> p, offer |-> o])
    /\ UNCHANGED <<offerFile, peerFile, age, restarts, redeemedBy, wrong>>

WriteOffers(r) ==
  /\ reqPc[r] = "writing" /\ offerFile' = CompactOffers(draft[r])
  /\ draft' = [draft EXCEPT ![r] = << >>]
  /\ IF binds[r] = NoBinding
     THEN reqPc' = [reqPc EXCEPT ![r] = "out"] /\ UNCHANGED redeemedBy
     ELSE /\ reqPc' = [reqPc EXCEPT ![r] = "binding"]
          /\ redeemedBy' = [redeemedBy EXCEPT ![binds[r].offer] = @ \cup {binds[r].peer}]
  /\ UNCHANGED <<peerFile, age, binds, restarts, wrong>>

\* upsertPeerBinding: the peer's binding is replaced, the oldest beyond the cap go.
Upserted(s, b) ==
  LastOf(Append(Selected(s, {i \in DOMAIN s : s[i].peer # b.peer}), b), MaxBindings)

UpsertPeerBinding(r) ==
  /\ reqPc[r] = "binding" /\ peerFile' = Upserted(peerFile, binds[r])
  /\ reqPc' = [reqPc EXCEPT ![r] = "out"] /\ binds' = [binds EXCEPT ![r] = NoBinding]
  /\ UNCHANGED <<offerFile, age, draft, restarts, redeemedBy, wrong>>

Ages(o) ==
  /\ \/ age[o] = "fresh" /\ age' = [age EXCEPT ![o] = "expired"]
     \/ age[o] = "expired" /\ age' = [age EXCEPT ![o] = "old"]
  /\ UNCHANGED <<offerFile, peerFile, reqPc, draft, binds, restarts, redeemedBy, wrong>>

\* The daemon dies and restarts; the file being written may be left torn.
PairingCrash ==
  /\ restarts < MaxRestarts /\ restarts' = restarts + 1
  /\ reqPc' = [r \in Requests |-> "out"] /\ draft' = [r \in Requests |-> << >>]
  /\ binds' = [r \in Requests |-> NoBinding]
  /\ offerFile' \in {offerFile} \cup (IF \E r \in Requests : reqPc[r] = "writing" THEN {<< >>} ELSE {})
  /\ peerFile' \in {peerFile} \cup (IF \E r \in Requests : reqPc[r] = "binding" THEN {<< >>} ELSE {})
  /\ UNCHANGED <<age, redeemedBy, wrong>>

PairingNext ==
  \/ \E r \in Requests, o \in Offers :
       \/ IssueOffer(r, o) \/ RevokeOffer(r, o) \/ RedeemWrongly(r, o)
       \/ \E p \in Peers : RedeemOffer(r, o, p)
  \/ \E r \in Requests : WriteOffers(r) \/ UpsertPeerBinding(r)
  \/ \E o \in Offers : Ages(o)
  \/ PairingCrash

OfferRecords ==
  [id : Offers, revoked : BOOLEAN, redeemed : BOOLEAN, locked : BOOLEAN,
   failed : 0 .. MaxFailedRedeems]

PairingTypeOK ==
  /\ offerFile \in Seq(OfferRecords) /\ Len(offerFile) <= MaxStoredOffers
  /\ peerFile \in Seq([peer : Peers, offer : Offers]) /\ Len(peerFile) <= MaxBindings
  /\ reqPc \in [Requests -> {"out", "writing", "binding"}]
  /\ age \in [Offers -> {"unissued", "fresh", "expired", "old"}]

(* An offer pairs one peer and survives at most the allowed number of wrong
   secrets, however requests overlap; a crash before the write forgets at most
   the one attempt it cut short.  A peer bound by an offer redeemed it. *)
OfferRedeemedOnce ==
  /\ \A o \in Offers : Cardinality(redeemedBy[o]) <= 1
  /\ \A o \in Offers : wrong[o] <= MaxFailedRedeems + restarts
  /\ \A i \in DOMAIN peerFile : peerFile[i].peer \in redeemedBy[peerFile[i].offer]
=============================================================================
