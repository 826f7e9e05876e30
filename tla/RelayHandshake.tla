--------------------------- MODULE RelayHandshake ---------------------------
(***************************************************************************)
(* The key exchanges between a client and a daemon over the relay          *)
(* (relay/bridge-noise-v3.ts, both ends; bridge-key-exchange.ts, the       *)
(* daemon's end of version 2, whose client is external).  Cryptography is  *)
(* symbolic: a hash, a derived key or a ciphertext is the tuple of what it *)
(* is made from, a shared secret the set of its two private keys.  Frames  *)
(* are lost, repeated and delayed; the daemon's identity and the secret of *)
(* the pairing may be replaced while an exchange is under way.             *)
(***************************************************************************)
EXTENDS Integers, FiniteSets

CONSTANTS
  MaxExchanges,  \* bound: exchanges a client begins
  MaxAnswers     \* bound: sessions the daemon derives

ASSUME HandshakeAssumption == MaxExchanges \in Nat /\ MaxAnswers \in Nat

VARIABLES
  required,    \* requiredProfile
  identity,    \* the number of the daemon's static key
  binding,     \* the number of the pairing secret the daemon holds
  trusted,     \* the client's copies of both
  pending,     \* the client's NoiseV3InitState records, and their like of version 2
  initFrames, answerFrames,   \* frames sent
  daemonSessions, clientSessions

handshakeVars == <<required, identity, binding, trusted, pending, initFrames, answerFrames,
                   daemonSessions, clientSessions>>

Profiles == {"noise-ik", "noise-ikpsk2"}
Strength(profile) == IF profile = "noise-ikpsk2" THEN 2 ELSE 1

HandshakeInit ==
  /\ required \in Profiles
  /\ identity = 1 /\ binding = 1 /\ trusted = [key |-> 1, secret |-> 1]
  /\ pending = {} /\ initFrames = {} /\ answerFrames = {}
  /\ daemonSessions = {} /\ clientSessions = {}

-----------------------------------------------------------------------------
(* The symmetric state of Noise: chaining key, transcript hash, key, nonce. *)

DaemonKey(n) == <<"daemon", n>>
ClientStatic(n) == <<"static", n>>
ClientEphemeral(n) == <<"ephemeral", n>>
DaemonEphemeral(n) == <<"answer", n>>
Secret(n) == <<"psk", n>>
Shared(a, b) == <<"dh", {a, b}>>
Kdf(i, ck, input) == <<"kdf", i, ck, input>>

\* initializeHandshakeState.
Initialized(profile, daemonKey) ==
  [ck |-> <<"name", profile>>, k |-> <<"null">>, n |-> 0,
   h |-> <<"hash", <<"hash", <<"name", profile>>, <<"prologue">>>>, daemonKey>>]

MixHash(s, data) == [s EXCEPT !.h = <<"hash", @, data>>]
MixKey(s, input) == [s EXCEPT !.ck = Kdf(1, @, input), !.k = Kdf(2, s.ck, input), !.n = 0]
MixKeyAndHash(s, input) ==
  [MixHash(s, Kdf(2, s.ck, input)) EXCEPT
     !.ck = Kdf(1, @, input), !.k = Kdf(3, s.ck, input), !.n = 0]

Encrypted(s, plain) == <<"aead", s.k, s.n, s.h, plain>>
AfterText(s, text) == [MixHash(s, text) EXCEPT !.n = @ + 1]
Decrypts(s, text) == text = Encrypted(s, text[5])

\* split and deriveSessionKey.
SessionKey(s, profile, session, epoch) ==
  <<"session", Kdf(1, s.ck, <<"empty">>), Kdf(2, s.ck, <<"empty">>), s.h, profile, session, epoch>>

-----------------------------------------------------------------------------
(* Version 3.                                                              *)

\* createNoiseV3Init: the state before and after the client's static key.
InitKeyed(profile, n, daemonKey) ==
  MixKey(MixHash(Initialized(profile, daemonKey), ClientEphemeral(n)),
         Shared(ClientEphemeral(n), daemonKey))
InitText(profile, n, daemonKey) ==
  Encrypted(InitKeyed(profile, n, daemonKey), ClientStatic(n))
InitSent(profile, n, daemonKey) ==
  MixKey(AfterText(InitKeyed(profile, n, daemonKey), InitText(profile, n, daemonKey)),
         Shared(ClientStatic(n), daemonKey))

\* Variant for mutation testing: the static key is mixed in first.
AnsweredStaticFirst(s, eph, client, static, profile, secret) ==
  LET mixed == MixKey(MixKey(MixHash(s, eph), Shared(static, eph)), Shared(client, eph))
  IN IF profile = "noise-ikpsk2" THEN MixKeyAndHash(mixed, secret) ELSE mixed

\* deriveNoiseV3SessionFromInit: what the daemon mixes in with its answer.
Answered(s, eph, client, static, profile, secret) ==
  LET mixed == MixKey(MixKey(MixHash(s, eph), Shared(client, eph)), Shared(static, eph))
  IN IF profile = "noise-ikpsk2" THEN MixKeyAndHash(mixed, secret) ELSE mixed

\* The daemon's state once it has read the client's static key.
DaemonRead(f) ==
  LET dk == DaemonKey(identity)
      keyed == MixKey(MixHash(Initialized(f.profile, dk), f.ephemeral),
                      Shared(f.ephemeral, dk))
  IN [ok |-> Decrypts(keyed, f.text),
      state |-> MixKey(AfterText(keyed, f.text), Shared(f.text[5], dk))]

\* finalizeNoiseV3Response, up to the encrypted metadata.
ClientRead(p, f) ==
  LET mixed == MixKey(MixKey(MixHash(p.state, f.ephemeral),
                             Shared(ClientEphemeral(p.request), f.ephemeral)),
                      Shared(ClientStatic(p.request), f.ephemeral))
  IN IF p.profile = "noise-ikpsk2" THEN MixKeyAndHash(mixed, Secret(p.secret)) ELSE mixed

-----------------------------------------------------------------------------
(* Version 2: one shared secret, two nonces, two proofs.  The request's     *)
(* number stands for the client's nonce.                                    *)

Material(n, daemonKey, profile, secret) ==
  <<"material", Shared(ClientStatic(n), daemonKey),
    IF profile = "noise-ikpsk2" THEN secret ELSE <<"none">>>>
InitProof(n, daemonKey, profile, secret) ==
  <<"initproof", Material(n, daemonKey, profile, secret), n, profile, daemonKey>>
SessionKey2(n, daemonKey, profile, secret, session, epoch) ==
  <<"session2", Material(n, daemonKey, profile, secret), n, session, profile, epoch>>

-----------------------------------------------------------------------------
\* createNoiseV3Init, and the client of version 2 (external).
BeginExchange(version, profile) ==
  LET n == Cardinality(pending) + 1
      dk == DaemonKey(trusted.key)
  IN /\ n <= MaxExchanges
     /\ pending' = pending \cup {[version |-> version, profile |-> profile, request |-> n,
          secret |-> trusted.secret, key |-> trusted.key,
          state |-> InitSent(profile, n, dk)]}
     /\ initFrames' = initFrames \cup {[version |-> version, profile |-> profile,
          request |-> n, ephemeral |-> ClientEphemeral(n),
          text |-> IF version = 3 THEN InitText(profile, n, dk)
                   ELSE InitProof(n, dk, profile, Secret(trusted.secret))]}
     /\ UNCHANGED <<required, identity, binding, trusted, answerFrames, daemonSessions, clientSessions>>

\* handleKeyExchangeInitV3 for a first session: an init that cannot be read
\* is refused without a trace.
DeriveSession3(f) ==
  LET id == Cardinality(daemonSessions) + 1
      s == Answered(DaemonRead(f).state, DaemonEphemeral(id), f.ephemeral, f.text[5],
                    f.profile, Secret(binding))
      meta == Encrypted(s, <<"meta", id, 1>>)
      done == AfterText(s, meta)
  IN /\ f.version = 3 /\ id <= MaxAnswers /\ DaemonRead(f).ok
     /\ daemonSessions' = daemonSessions \cup {[profile |-> f.profile, session |-> id,
          request |-> f.request, secret |-> binding, key |-> SessionKey(done, f.profile, id, 1)]}
     /\ answerFrames' = answerFrames \cup {[version |-> 3, profile |-> f.profile,
          request |-> f.request, session |-> id, epoch |-> 1,
          ephemeral |-> DaemonEphemeral(id), text |-> meta, proof |-> done.h]}

\* deriveSessionFromKeyExchange; the session's name stands for the daemon's
\* nonce as well.
DeriveSession2(f) ==
  LET id == Cardinality(daemonSessions) + 1
      dk == DaemonKey(identity)
      key == SessionKey2(f.request, dk, f.profile, Secret(binding), id, 1)
  IN /\ f.version = 2 /\ id <= MaxAnswers
     /\ f.text = InitProof(f.request, dk, f.profile, Secret(binding))
     /\ daemonSessions' = daemonSessions \cup {[profile |-> f.profile, session |-> id,
          request |-> f.request, secret |-> binding, key |-> key]}
     /\ answerFrames' = answerFrames \cup {[version |-> 2, profile |-> f.profile,
          request |-> f.request, session |-> id, epoch |-> 1,
          ephemeral |-> DaemonEphemeral(id), text |-> <<"none">>, proof |-> <<"proof", key>>]}

\* isCompatibleProfile refuses a weaker profile.  A frame may come again, and
\* late.
InitArrives(f) ==
  /\ Strength(f.profile) >= Strength(required)
  /\ DeriveSession3(f) \/ DeriveSession2(f)
  /\ UNCHANGED <<required, identity, binding, trusted, pending, initFrames, clientSessions>>

\* finalizeNoiseV3Response: every refusal is a thrown error.
Finalizes(p, f) ==
  LET s == ClientRead(p, f)
  IN /\ f.version = p.version /\ f.request = p.request /\ f.profile = p.profile
     /\ IF p.version = 3
        THEN /\ Decrypts(s, f.text)
             /\ f.text[5] = <<"meta", f.session, f.epoch>>
             /\ f.proof = AfterText(s, f.text).h
        ELSE f.proof = <<"proof", SessionKey2(p.request, DaemonKey(p.key), p.profile,
                                              Secret(p.secret), f.session, f.epoch)>>

ClientKey(p, f) ==
  IF p.version = 3
  THEN SessionKey(AfterText(ClientRead(p, f), f.text), f.profile, f.session, f.epoch)
  ELSE SessionKey2(p.request, DaemonKey(p.key), p.profile, Secret(p.secret), f.session, f.epoch)

AnswerArrives(p, f) ==
  /\ Finalizes(p, f)
  /\ clientSessions' = clientSessions \cup {[profile |-> f.profile, session |-> f.session,
       request |-> p.request, secret |-> p.secret, key |-> ClientKey(p, f)]}
  /\ UNCHANGED <<required, identity, binding, trusted, pending, initFrames, answerFrames, daemonSessions>>

\* The daemon makes itself a new identity, the pairing is made anew; the
\* client hears of both later.
IdentityReplaced ==
  /\ identity = 1 /\ identity' = 2
  /\ UNCHANGED <<required, binding, trusted, pending, initFrames, answerFrames, daemonSessions, clientSessions>>
PairedAgain ==
  /\ binding = 1 /\ binding' = 2
  /\ UNCHANGED <<required, identity, trusted, pending, initFrames, answerFrames, daemonSessions, clientSessions>>
ClientLearns ==
  /\ trusted' = [key |-> identity, secret |-> binding]
  /\ UNCHANGED <<required, identity, binding, pending, initFrames, answerFrames, daemonSessions, clientSessions>>

HandshakeNext ==
  \/ \E v \in {2, 3}, profile \in Profiles : BeginExchange(v, profile)
  \/ \E f \in initFrames : InitArrives(f)
  \/ \E p \in pending, f \in answerFrames : AnswerArrives(p, f)
  \/ IdentityReplaced \/ PairedAgain \/ ClientLearns

HandshakeSpec == HandshakeInit /\ [][HandshakeNext]_handshakeVars

-----------------------------------------------------------------------------
HandshakeTypeOK ==
  /\ identity \in {1, 2} /\ binding \in {1, 2} /\ trusted \in [key : {1, 2}, secret : {1, 2}]
  /\ Cardinality(pending) <= MaxExchanges /\ Cardinality(daemonSessions) <= MaxAnswers

(* Both ends of a session agree: whatever the client takes as a session the
   daemon holds with the same key, profile and pairing secret, and was made for
   the client's request; no two sessions of the daemon share a key, though an
   init came twice, and none has less than the required profile; an answer made
   with the secrets the client began with is never refused. *)
KeysAgree ==
  /\ \A c \in clientSessions : \E d \in daemonSessions :
       /\ d.key = c.key /\ d.session = c.session /\ d.profile = c.profile
       /\ d.request = c.request
       /\ c.profile = "noise-ikpsk2" => d.secret = c.secret
  /\ \A d, e \in daemonSessions : d.key = e.key => d = e
  /\ \A d \in daemonSessions : Strength(d.profile) >= Strength(required)
  /\ \A p \in pending, f \in answerFrames, d \in daemonSessions :
       (/\ f.request = p.request /\ d.session = f.session
        /\ p.profile = "noise-ikpsk2" => d.secret = p.secret) => Finalizes(p, f)
=============================================================================
