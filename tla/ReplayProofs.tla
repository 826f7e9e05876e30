---------------------------- MODULE ReplayProofs ----------------------------
(***************************************************************************)
(* Proofs about the journal of a session's updates: what a client that     *)
(* comes back is sent is what was broadcast.                               *)
(***************************************************************************)
EXTENDS Replay

(* The numbers of entries rise along a list of them. *)
Rising(s) == \A i, j \in 1 .. Len(s) : i < j => s[i].n < s[j].n
(* An entry is an update of the history, and so is each of a list. *)
OfLog(l, e) == e.id \in 1 .. Len(l) /\ l[e.id] = e
AllOfLog(l, s) == IsList(s) /\ \A k \in 1 .. Len(s) : OfLog(l, s[k])

(* Numbers are allocated upwards. *)
LogIs(l) ==
  /\ IsList(l) /\ Rising(l)
  /\ \A i \in 1 .. Len(l) : l[i].id = i /\ l[i].n \in Nat \ {0}
LogHolds == LogIs(log) /\ expired \in Nat /\ since \in Nat

(* A journal holds every durable update that is not too old, from some number on. *)
JournalTells(l, x, es) ==
  /\ AllOfLog(l, es) /\ Rising(es)
  /\ \A i \in 1 .. Len(l) : l[i].dur /\ i > x =>
       \/ \E k \in 1 .. Len(es) : es[k].id = i
       \/ Len(es) > 0 /\ l[i].n < es[1].n

(* The ring is the end of the history. *)
RingTells(l, r) ==
  /\ IsList(r) /\ Len(r) <= Len(l)
  /\ \A k \in 1 .. Len(r) : r[k] = l[Len(l) - Len(r) + k]

(* What a write makes of the journal and the number in the metadata. *)
IsWrite(t) == t.kind \in {"meta", "append", "rewrite"}
AfterWrite(t, f) ==
  <<IF t.kind = "append" THEN Append(f[1], t.e) ELSE IF t.kind = "rewrite" THEN t.es ELSE f[1],
    IF t.kind = "meta" THEN t.n ELSE f[2]>>
WritesLead(q, f, g) ==
  /\ IsList(q) /\ \A k \in 1 .. Len(q) : IsWrite(q[k])
  /\ \E F : /\ F[0] = f /\ F[Len(q)] = g
            /\ \A k \in 1 .. Len(q) : F[k] = AfterWrite(q[k], F[k - 1])

(* No number is above that of the metadata. *)
Numbered(m) ==
  m \in Nat /\ client.last <= m /\ \A i \in 1 .. Len(log) : log[i].n <= m
(* The writes under way lead to a journal and a number that tell the history. *)
Kept(q, es, m) ==
  /\ WritesLead(q, <<disk.journal, disk.meta>>, <<es, m>>)
  /\ JournalTells(log, expired, es) /\ Numbered(m)

IsBuffer(b) == b = [on |-> b.on, seq |-> b.seq, ring |-> b.ring, durable |-> b.durable,
                    disabled |-> b.disabled]
IsFiles(d) == d = [meta |-> d.meta, journal |-> d.journal, open |-> d.open]
IsViewer(c) == c = [sub |-> c.sub, net |-> c.net, last |-> c.last]
BufferTells(b, q) ==
  IsBuffer(b) /\ b.on /\ ~b.disabled /\ RingTells(log, b.ring) /\ Kept(q, b.durable, b.seq)

(* What a client was sent follows what it has; of what it was sent, and while it
   is subscribed of all there is, it has or is sent every durable update. *)
SentTo(c) == IF Len(c.net) = 0 THEN c.last ELSE c.net[Len(c.net)].n
Caught ==
  ~told => \A i \in 1 .. Len(log) :
    /\ log[i].dur /\ i > expired /\ since < log[i].n
    /\ client.sub \/ log[i].n <= SentTo(client)
    => i \in got \/ \E k \in 1 .. Len(client.net) : client.net[k].id = i
ViewerHolds ==
  /\ IsViewer(client) /\ client.last \in Nat
  /\ AllOfLog(log, client.net) /\ Rising(client.net)
  /\ \A k \in 1 .. Len(client.net) : client.last < client.net[k].n

JournalSound ==
  /\ LogHolds /\ IsFiles(disk) /\ ~disk.open /\ ViewerHolds /\ Caught
  /\ buf.on => zombie = <<>> /\ BufferTells(buf, queue)
  /\ ~buf.on => queue = <<>> /\ \E es, m : Kept(zombie, es, m)

(* The strengthening of JournalFaithful: unless a write was lost or late, the
   writes under way lead to what the buffer holds, and what the buffer and the
   client hold tells the history. *)
JournalInv == lossy \/ JournalSound

-----------------------------------------------------------------------------
(* The writes under way *)

LEMMA LeadsNowhere == ASSUME NEW f PROVE WritesLead(<<>>, f, f)
<1>1. IsList(<<>>) /\ Len(<<>>) = 0
  BY DEF IsList
<1> DEFINE F == [k \in {0} |-> f]
<1>2. F[0] = f
  OBVIOUS
<1> HIDE DEF F
<1>3. F[Len(<<>>)] = f /\ 1 .. Len(<<>>) = {}
  BY <1>1, <1>2
<1>4. \A k \in 1 .. Len(<<>>) : IsWrite(<<>>[k]) /\ F[k] = AfterWrite(<<>>[k], F[k - 1])
  BY <1>3
<1> QED
  BY <1>1, <1>2, <1>3, <1>4 DEF WritesLead

LEMMA LeadsAlone == ASSUME NEW t, IsWrite(t), NEW f PROVE WritesLead(<<t>>, f, AfterWrite(t, f))
<1> DEFINE F == [k \in 0 .. 1 |-> IF k = 0 THEN f ELSE AfterWrite(t, f)]
<1>1. IsList(<<t>>) /\ Len(<<t>>) = 1 /\ <<t>>[1] = t
  BY OneList
<1>2. F[0] = f /\ F[1] = AfterWrite(t, f)
  OBVIOUS
<1> HIDE DEF F
<1>3. \A k \in 1 .. 1 : F[k] = AfterWrite(t, F[k - 1])
  BY <1>2
<1> QED
  BY <1>1, <1>2, <1>3 DEF WritesLead

LEMMA LeadsOn ==
  ASSUME NEW p, NEW q, NEW f, NEW g, NEW h, WritesLead(p, f, g), WritesLead(q, g, h)
  PROVE  WritesLead(p \o q, f, h)
<1>1. IsList(p) /\ IsList(q) /\ Len(p) \in Nat /\ Len(q) \in Nat
  BY DEF WritesLead, IsList
<1>2. PICK F : /\ F[0] = f /\ F[Len(p)] = g
               /\ \A k \in 1 .. Len(p) : F[k] = AfterWrite(p[k], F[k - 1])
  BY DEF WritesLead
<1>3. PICK G : /\ G[0] = g /\ G[Len(q)] = h
               /\ \A k \in 1 .. Len(q) : G[k] = AfterWrite(q[k], G[k - 1])
  BY DEF WritesLead
<1>4. /\ IsList(p \o q) /\ Len(p \o q) = Len(p) + Len(q)
      /\ \A i \in 1 .. Len(p) : (p \o q)[i] = p[i]
      /\ \A i \in 1 .. Len(q) : (p \o q)[Len(p) + i] = q[i]
  <2>1. IsList(p \o q) /\ Len(p \o q) = Len(p) + Len(q)
    BY <1>1, Joined
  <2>2. \A i \in 1 .. Len(p) : (p \o q)[i] = p[i]
    BY <1>1, Joined
  <2>3. \A i \in 1 .. Len(q) : (p \o q)[Len(p) + i] = q[i]
    BY <1>1, Joined
  <2> QED
    BY <2>1, <2>2, <2>3
<1> DEFINE a == Len(p)
           b == Len(q)
           H == [k \in 0 .. (a + b) |-> IF k <= a THEN F[k] ELSE G[k - a]]
<1>5. \A k \in 0 .. a : H[k] = F[k]
  BY <1>1
<1>6. \A k \in 1 .. b : H[a + k] = G[k]
  <2> SUFFICES ASSUME NEW k \in 1 .. b PROVE H[a + k] = G[k]
    OBVIOUS
  <2>1. a + k \in 0 .. (a + b) /\ ~(a + k <= a) /\ (a + k) - a = k
    BY <1>1
  <2> QED
    BY <2>1
<1>7. H[0] = f /\ H[a] = g
  BY <1>1, <1>2, <1>5
<1>8. H[a + b] = h
  <2>1. CASE b = 0
    BY <1>1, <1>3, <1>7, <2>1
  <2>2. CASE b # 0
    BY <1>1, <1>3, <1>6, <2>2
  <2> QED
    BY <2>1, <2>2
<1> HIDE DEF a, b, H
<1>9. ASSUME NEW k \in 1 .. (a + b) PROVE H[k] = AfterWrite((p \o q)[k], H[k - 1]) /\ IsWrite((p \o q)[k])
  <2>1. a \in Nat /\ b \in Nat
    BY <1>1 DEF a, b
  <2>2. CASE k <= a
    <3>1. k \in 1 .. a /\ k \in 0 .. a /\ k - 1 \in 0 .. a
      BY <2>1, <2>2
    <3>2. H[k] = F[k] /\ H[k - 1] = F[k - 1] /\ (p \o q)[k] = p[k]
      BY <1>4, <1>5, <3>1 DEF a
    <3> QED
      BY <1>2, <3>1, <3>2 DEF a, WritesLead
  <2>3. CASE k > a
    <3>1. k - a \in 1 .. b /\ k = a + (k - a)
      BY <2>1, <2>3
    <3> DEFINE j == k - a
    <3>2. j \in 1 .. b /\ k = a + j /\ k - 1 = a + (j - 1) /\ (j # 1 => j - 1 \in 1 .. b)
      BY <2>1, <3>1
    <3> HIDE DEF j
    <3>3. H[k] = G[j] /\ (p \o q)[k] = q[j]
      BY <1>4, <1>6, <3>2 DEF a, b
    <3>4. H[k - 1] = G[j - 1]
      <4>1. CASE j = 1
        BY <1>3, <1>7, <2>1, <3>2, <4>1
      <4>2. CASE j # 1
        BY <1>6, <3>2, <4>2
      <4> QED
        BY <4>1, <4>2
    <3> QED
      BY <1>3, <3>2, <3>3, <3>4 DEF b, WritesLead
  <2>4. k <= a \/ k > a
    BY <2>1
  <2> QED
    BY <2>2, <2>3, <2>4
<1> QED
  BY <1>4, <1>7, <1>8, <1>9 DEF WritesLead, a, b

LEMMA LeadsAfterFirst ==
  ASSUME NEW q, NEW f, NEW g, WritesLead(q, f, g), q # <<>>
  PROVE  IsWrite(Head(q)) /\ WritesLead(Tail(q), AfterWrite(Head(q), f), g)
<1>1. IsList(q) /\ Len(q) \in Nat /\ \A k \in 1 .. Len(q) : IsWrite(q[k])
  BY DEF WritesLead, IsList
<1>2. PICK S : q \in Seq(S)
  BY <1>1, ListIn
<1>3. PICK F : /\ F[0] = f /\ F[Len(q)] = g
               /\ \A k \in 1 .. Len(q) : F[k] = AfterWrite(q[k], F[k - 1])
  BY DEF WritesLead
<1> DEFINE n == Len(q) - 1
           t == Tail(q)
           G == [k \in 0 .. n |-> F[k + 1]]
<1>4. /\ n \in Nat /\ t \in Seq(S) /\ Len(t) = n /\ Head(q) = q[1]
      /\ \A k \in 1 .. n : t[k] = q[k + 1]
  BY <1>2
<1>5. \A k \in 0 .. n : G[k] = F[k + 1]
  OBVIOUS
<1>6. IsList(t)
  BY <1>4, SeqIsList
<1>7. Len(q) = n + 1
  BY <1>1
<1> HIDE DEF n, t, G
<1>8. 1 \in 1 .. Len(q) /\ G[0] = F[1] /\ F[1] = AfterWrite(Head(q), f)
  <2>1. 1 \in 1 .. Len(q) /\ 0 \in 0 .. n /\ 1 - 1 = 0 /\ 0 + 1 = 1
    BY <1>4, <1>7
  <2>2. F[1] = AfterWrite(q[1], F[0]) /\ G[0] = F[1]
    BY <1>3, <1>5, <2>1
  <2> QED
    BY <1>3, <1>4, <2>1, <2>2
<1>9. G[n] = g
  BY <1>3, <1>4, <1>5, <1>7
<1>10. ASSUME NEW k \in 1 .. n PROVE G[k] = AfterWrite(t[k], G[k - 1]) /\ IsWrite(t[k])
  <2>1. k + 1 \in 1 .. Len(q) /\ k \in 0 .. n /\ k - 1 \in 0 .. n /\ (k - 1) + 1 = k /\ (k + 1) - 1 = k
    BY <1>4, <1>7
  <2>2. G[k] = F[k + 1] /\ G[k - 1] = F[k] /\ t[k] = q[k + 1]
    BY <1>4, <1>5, <2>1
  <2>3. F[k + 1] = AfterWrite(q[k + 1], F[k])
    BY <1>3, <2>1
  <2> QED
    BY <1>1, <2>1, <2>2, <2>3
<1> QED
  BY <1>1, <1>4, <1>6, <1>8, <1>9, <1>10 DEF WritesLead, t

LEMMA LeadsDone == ASSUME NEW f, NEW g, WritesLead(<<>>, f, g) PROVE f = g
<1>1. Len(<<>>) = 0
  OBVIOUS
<1> QED
  BY <1>1 DEF WritesLead

LEMMA LeadsRewrite ==
  ASSUME NEW q, NEW f, NEW es, NEW m, WritesLead(q, f, <<es, m>>), NEW kept
  PROVE  WritesLead(q \o RewriteIf(kept # es, kept), f, <<kept, m>>)
<1>1. WritesLead(RewriteIf(kept # es, kept), <<es, m>>, <<kept, m>>)
  <2>1. CASE kept = es
    BY <2>1, LeadsNowhere DEF RewriteIf
  <2>2. CASE kept # es
    <3> DEFINE t == [kind |-> "rewrite", es |-> kept]
    <3>1. IsWrite(t) /\ AfterWrite(t, <<es, m>>) = <<kept, m>>
      BY DEF IsWrite, AfterWrite
    <3>2. RewriteIf(kept # es, kept) = <<t>>
      BY <2>2 DEF RewriteIf
    <3> HIDE DEF t
    <3> QED
      BY <3>1, <3>2, LeadsAlone
  <2> QED
    BY <2>1, <2>2
<1> QED
  BY <1>1, LeadsOn

LEMMA LeadsMeta ==
  ASSUME NEW q, NEW f, NEW es, NEW m, WritesLead(q, f, <<es, m>>), NEW n
  PROVE  /\ WritesLead(q \o <<[kind |-> "meta", n |-> n]>>, f, <<es, n>>)
         /\ WritesLead(Append(q, [kind |-> "meta", n |-> n]), f, <<es, n>>)
<1> DEFINE t == [kind |-> "meta", n |-> n]
<1>1. IsWrite(t) /\ AfterWrite(t, <<es, m>>) = <<es, n>>
  BY DEF IsWrite, AfterWrite
<1>2. IsList(q)
  BY DEF WritesLead
<1> HIDE DEF t
<1>3. WritesLead(q \o <<t>>, f, <<es, n>>)
  BY <1>1, LeadsAlone, LeadsOn
<1>4. Append(q, t) = q \o <<t>>
  BY <1>2, AppendIs
<1> QED
  BY <1>3, <1>4 DEF t

LEMMA LeadsAppend ==
  ASSUME NEW q, NEW f, NEW es, NEW m, WritesLead(q, f, <<es, m>>), NEW e
  PROVE  WritesLead(q \o <<[kind |-> "append", e |-> e]>>, f, <<Append(es, e), m>>)
<1> DEFINE t == [kind |-> "append", e |-> e]
<1>1. IsWrite(t) /\ AfterWrite(t, <<es, m>>) = <<Append(es, e), m>>
  BY DEF IsWrite, AfterWrite
<1> HIDE DEF t
<1>2. WritesLead(q \o <<t>>, f, <<Append(es, e), m>>)
  BY <1>1, LeadsAlone, LeadsOn
<1> QED
  BY <1>2 DEF t

-----------------------------------------------------------------------------
(* Lists of updates *)

(* What is selected of a list keeps its order. *)
LEMMA SelectedRises ==
  ASSUME NEW s, IsList(s), Rising(s), NEW P \in SUBSET (DOMAIN s)
  PROVE  Rising(Selected(s, P))
<1>1. PICK S : s \in Seq(S)
  BY ListIn
<1> DEFINE t == Selected(s, P)
<1>2. /\ t \in Seq(S)
      /\ \E f \in [DOMAIN t -> P] : /\ \A i \in DOMAIN f : t[i] = s[f[i]]
                                    /\ \A i, j \in DOMAIN f : i < j => f[i] < f[j]
  BY <1>1, SelectedIs
<1> HIDE DEF t
<1>3. PICK f \in [DOMAIN t -> P] : /\ \A i \in DOMAIN f : t[i] = s[f[i]]
                                   /\ \A i, j \in DOMAIN f : i < j => f[i] < f[j]
  BY <1>2
<1>4. DOMAIN t = 1 .. Len(t) /\ DOMAIN s = 1 .. Len(s) /\ DOMAIN f = DOMAIN t
  BY <1>1, <1>2
<1>5. ASSUME NEW i \in 1 .. Len(t), NEW j \in 1 .. Len(t), i < j PROVE t[i].n < t[j].n
  <2>1. f[i] \in 1 .. Len(s) /\ f[j] \in 1 .. Len(s) /\ f[i] < f[j]
    BY <1>3, <1>4, <1>5
  <2>2. t[i] = s[f[i]] /\ t[j] = s[f[j]]
    BY <1>3, <1>4
  <2> QED
    BY <2>1, <2>2 DEF Rising
<1> QED
  BY <1>5 DEF Rising, t

(* In a list that rises the first is least. *)
LEMMA FirstLeast ==
  ASSUME NEW l, LogIs(l), NEW s, AllOfLog(l, s), Rising(s), NEW k \in 1 .. Len(s)
  PROVE  1 \in 1 .. Len(s) /\ s[1].n <= s[k].n
<1>1. Len(s) \in Nat
  BY DEF AllOfLog, IsList
<1>2. 1 \in 1 .. Len(s)
  BY <1>1
<1>3. s[1].n \in Nat /\ s[k].n \in Nat
  BY <1>2 DEF AllOfLog, OfLog, LogIs
<1>4. k = 1 \/ 1 < k
  BY <1>1
<1> QED
  BY <1>2, <1>3, <1>4 DEF Rising

(* Updates of the history follow each other as their numbers do. *)
LEMMA NumbersFollow ==
  ASSUME NEW l, LogIs(l), NEW i \in 1 .. Len(l), NEW j \in 1 .. Len(l)
  PROVE  /\ i < j <=> l[i].n < l[j].n
         /\ i = j <=> l[i].n = l[j].n
<1>1. Len(l) \in Nat /\ l[i].n \in Nat /\ l[j].n \in Nat
  BY DEF LogIs, IsList
<1>2. i < j => l[i].n < l[j].n
  BY DEF LogIs, Rising
<1>3. j < i => l[j].n < l[i].n
  BY DEF LogIs, Rising
<1> QED
  BY <1>1, <1>2, <1>3

(* What is selected tells as much, if only what is too old is left out. *)
LEMMA SelectedTells ==
  ASSUME NEW l, LogIs(l), expired \in Nat, NEW es, JournalTells(l, expired, es), NEW P \in SUBSET (DOMAIN es),
         \A k \in 1 .. Len(es) : es[k].id > expired => k \in P
  PROVE  JournalTells(l, expired, Selected(es, P))
<1> DEFINE t == Selected(es, P)
<1>1. IsList(es) /\ Rising(es) /\ AllOfLog(l, es)
  BY DEF JournalTells, AllOfLog
<1>2. /\ IsList(t)
      /\ \A i \in 1 .. Len(t) : \E p \in P : t[i] = es[p]
      /\ \A p \in P : \E i \in 1 .. Len(t) : t[i] = es[p]
  BY <1>1, SelectedAll
<1>3. Rising(t)
  BY <1>1, SelectedRises
<1>4. DOMAIN es = 1 .. Len(es)
  BY <1>1 DEF IsList
<1> HIDE DEF t
<1>5. AllOfLog(l, t)
  BY <1>1, <1>2, <1>4 DEF AllOfLog
<1>6. ASSUME NEW i \in 1 .. Len(l), l[i].dur, i > expired
      PROVE  \/ \E k \in 1 .. Len(t) : t[k].id = i
             \/ Len(t) > 0 /\ l[i].n < t[1].n
  <2>1. CASE \E k \in 1 .. Len(es) : es[k].id = i
    <3>1. PICK k \in 1 .. Len(es) : es[k].id = i
      BY <2>1
    <3>2. k \in P
      BY <1>6, <3>1
    <3> QED
      BY <1>2, <3>1, <3>2
  <2>2. CASE Len(es) > 0 /\ l[i].n < es[1].n
    <3>1. 1 \in 1 .. Len(es) /\ Len(es) \in Nat
      BY <1>1, <2>2 DEF IsList
    <3>2. es[1].id \in 1 .. Len(l) /\ l[es[1].id] = es[1]
      BY <1>1, <3>1 DEF AllOfLog, OfLog
    <3>3. i < es[1].id
      BY <2>2, <3>2, NumbersFollow
    <3>4. es[1].id > expired
      BY <1>6, <3>2, <3>3 DEF LogIs, IsList
    <3>5. PICK j \in 1 .. Len(t) : t[j] = es[1]
      BY <1>2, <3>1, <3>4
    <3>6. 1 \in 1 .. Len(t) /\ t[1].n <= t[j].n /\ Len(t) \in Nat
      BY <1>2, <1>3, <1>5, FirstLeast DEF IsList
    <3>7. PICK p \in P : t[1] = es[p]
      BY <1>2, <3>6
    <3>8. es[1].n <= t[1].n
      BY <1>1, <1>4, <3>7, FirstLeast
    <3>9. l[i].n \in Nat /\ es[1].n \in Nat /\ t[1].n \in Nat
      BY <1>5, <3>2, <3>6 DEF LogIs, AllOfLog, OfLog
    <3> QED
      BY SMTT(30), <2>2, <3>6, <3>8, <3>9
  <2> QED
    BY <1>6, <2>1, <2>2 DEF JournalTells
<1> QED
  BY <1>3, <1>5, <1>6 DEF JournalTells, t

(* The newest tell as much, if there is room for one. *)
LEMMA LastTells ==
  ASSUME NEW l, LogIs(l), expired \in Nat, NEW es, JournalTells(l, expired, es), NEW n \in Nat \ {0}
  PROVE  JournalTells(l, expired, LastOf(es, n))
<1>1. IsList(es) /\ Rising(es) /\ AllOfLog(l, es) /\ Len(es) \in Nat
  BY DEF JournalTells, AllOfLog, IsList
<1>2. CASE Len(es) <= n
  BY <1>2 DEF LastOf
<1>3. CASE ~(Len(es) <= n)
  <2> DEFINE m == Len(es) - n
             t == SubSeq(es, m + 1, Len(es))
  <2>1. PICK S : es \in Seq(S)
    BY <1>1, ListIn
  <2>0. m \in Nat /\ m + n = Len(es)
    BY <1>1, <1>3
  <2>2. /\ m \in Nat /\ m + n = Len(es) /\ t \in Seq(S) /\ Len(t) = n
        /\ \A i \in 1 .. n : t[i] = es[m + i]
    <3>1. t \in Seq(S) /\ Len(t) = n /\ \A i \in 1 .. n : t[i] = es[i + m]
      BY <1>1, <1>3, <2>1
    <3>2. \A i \in 1 .. n : i + m = m + i
      BY <2>0
    <3> QED
      BY <2>0, <3>1, <3>2
  <2>3. LastOf(es, n) = t
    BY <1>3, <1>1, <2>2 DEF LastOf
  <2>4. IsList(t)
    BY <2>2, SeqIsList
  <2> HIDE DEF m, t
  <2>5. AllOfLog(l, t)
    <3>1. \A i \in 1 .. n : m + i \in 1 .. Len(es)
      BY <2>2
    <3> QED
      BY <1>1, <2>2, <2>4, <3>1 DEF AllOfLog
  <2>6. Rising(t)
    <3>1. ASSUME NEW i \in 1 .. n, NEW j \in 1 .. n, i < j PROVE t[i].n < t[j].n
      <4>1. m + i \in 1 .. Len(es) /\ m + j \in 1 .. Len(es) /\ m + i < m + j
        BY <2>2, <3>1
      <4> QED
        BY <1>1, <2>2, <4>1 DEF Rising
    <3> QED
      BY <2>2, <3>1 DEF Rising
  <2>7. 1 \in 1 .. n /\ m + 1 \in 1 .. Len(es) /\ t[1] = es[m + 1]
    BY <2>2
  <2>8. \A k \in 1 .. Len(es) : es[k].n \in Nat
    BY <1>1 DEF AllOfLog, OfLog, LogIs
  <2>9. ASSUME NEW i \in 1 .. Len(l), l[i].dur, i > expired
        PROVE  \/ \E k \in 1 .. Len(t) : t[k].id = i
               \/ Len(t) > 0 /\ l[i].n < t[1].n
    <3>1. l[i].n \in Nat
      BY DEF LogIs
    <3>2. ASSUME NEW k \in 1 .. Len(es), es[k].id = i
          PROVE  \/ \E j \in 1 .. Len(t) : t[j].id = i
                 \/ Len(t) > 0 /\ l[i].n < t[1].n
      <4>1. CASE k > m
        <5>1. k - m \in 1 .. n /\ m + (k - m) = k
          BY <2>2, <4>1
        <5>2. t[k - m] = es[k]
          BY <2>2, <5>1
        <5> QED
          BY <2>2, <3>2, <5>1, <5>2
      <4>2. CASE ~(k > m)
        <5>1. k < m + 1
          BY <2>2, <4>2
        <5>2. es[k].n < t[1].n
          BY <1>1, <2>7, <5>1 DEF Rising
        <5>3. es[k].n = l[i].n
          BY <1>1, <3>2 DEF AllOfLog, OfLog
        <5> QED
          BY <2>2, <5>2, <5>3
      <4> QED
        BY <4>1, <4>2
    <3>3. ASSUME Len(es) > 0, l[i].n < es[1].n PROVE Len(t) > 0 /\ l[i].n < t[1].n
      <4>1. 1 \in 1 .. Len(es) /\ es[1].n <= es[m + 1].n
        BY <1>1, <2>7, FirstLeast
      <4>2. es[1].n \in Nat /\ es[m + 1].n \in Nat
        BY <2>7, <2>8, <4>1
      <4> QED
        BY <2>2, <2>7, <3>1, <3>3, <4>1, <4>2
    <3> QED
      BY <2>9, <3>2, <3>3 DEF JournalTells
  <2> QED
    BY <2>3, <2>5, <2>6, <2>9 DEF JournalTells
<1> QED
  BY <1>2, <1>3

(* What the TTL and the cap leave of a journal, and what is read of its lines,
   tells as much. *)
LEMMA RetainedTells ==
  ASSUME NEW l, LogIs(l), expired \in Nat, NEW es, JournalTells(l, expired, es)
  PROVE  JournalTells(l, expired, Retained(es))
<1> DEFINE P == {i \in DOMAIN es : es[i].id > expired}
<1>1. DOMAIN es = 1 .. Len(es)
  BY DEF JournalTells, AllOfLog, IsList
<1>2. P \in SUBSET (DOMAIN es) /\ \A k \in 1 .. Len(es) : es[k].id > expired => k \in P
  BY <1>1
<1>3. Retained(es) = LastOf(Selected(es, P), MaxDurable)
  BY DEF Retained
<1> HIDE DEF P
<1>4. JournalTells(l, expired, Selected(es, P))
  BY <1>2, SelectedTells
<1>5. MaxDurable \in Nat \ {0}
  BY ReplayAssumption
<1> QED
  BY <1>3, <1>4, <1>5, LastTells

LEMMA ParsedTells ==
  ASSUME NEW l, LogIs(l), expired \in Nat, NEW es, JournalTells(l, expired, es)
  PROVE  JournalTells(l, expired, Parsed(es))
<1> DEFINE P == {i \in DOMAIN es : es[i].n > 0 /\ \A j \in 1 .. (i - 1) : es[j].n < es[i].n}
<1>1. DOMAIN es = 1 .. Len(es) /\ Len(es) \in Nat
  BY DEF JournalTells, AllOfLog, IsList
<1>2. ASSUME NEW i \in 1 .. Len(es) PROVE i \in P
  <2>1. es[i].n > 0
    BY DEF JournalTells, AllOfLog, OfLog, LogIs
  <2>2. ASSUME NEW j \in 1 .. (i - 1) PROVE es[j].n < es[i].n
    <3>1. j \in 1 .. Len(es) /\ j < i
      BY <1>1
    <3> QED
      BY <3>1 DEF JournalTells, Rising
  <2> QED
    BY <1>1, <2>1, <2>2
<1>3. P \in SUBSET (DOMAIN es) /\ Parsed(es) = Selected(es, P)
  BY DEF Parsed
<1> HIDE DEF P
<1> QED
  BY <1>2, <1>3, SelectedTells

-----------------------------------------------------------------------------
(* The buffer *)

(* A list that rises goes on rising with an update above all numbers. *)
LEMMA AppendRises ==
  ASSUME NEW s, IsList(s), Rising(s), NEW e, \A k \in 1 .. Len(s) : s[k].n < e.n
  PROVE  Rising(Append(s, e))
<1> DEFINE n == Len(s)
           t == Append(s, e)
<1>1. /\ n \in Nat /\ Len(t) = n + 1 /\ t[n + 1] = e
      /\ \A i \in 1 .. n : t[i] = s[i]
  BY AppendedIs
<1> HIDE DEF t
<1>2. ASSUME NEW i \in 1 .. n + 1, NEW j \in 1 .. n + 1, i < j PROVE t[i].n < t[j].n
  <2>1. i \in 1 .. n /\ t[i] = s[i]
    BY <1>1, <1>2
  <2>2. CASE j = n + 1
    BY <1>1, <2>1, <2>2
  <2>3. CASE j # n + 1
    <3>1. j \in 1 .. n /\ t[j] = s[j]
      BY <1>1, <2>3
    <3> QED
      BY <1>2, <2>1, <3>1 DEF Rising
  <2> QED
    BY <2>2, <2>3
<1> QED
  BY <1>1, <1>2 DEF Rising, t

(* A history that grows by an update above all numbers: what was told is. *)
LEMMA HistoryGrows ==
  ASSUME LogIs(log), NEW e, e.n \in Nat \ {0}, e.id = Len(log) + 1,
         \A i \in 1 .. Len(log) : log[i].n < e.n, log' = Append(log, e)
  PROVE  /\ LogIs(log') /\ Len(log') = Len(log) + 1 /\ log'[Len(log) + 1] = e
         /\ Len(log) \in Nat /\ \A i \in 1 .. Len(log) : log'[i] = log[i]
         /\ \A d : OfLog(log, d) => OfLog(log', d)
         /\ \A s : AllOfLog(log, s) => AllOfLog(log', s)
         /\ OfLog(log', e)
<1> DEFINE n == Len(log)
           h == log'
<1>1. /\ n \in Nat /\ IsList(h) /\ Len(h) = n + 1 /\ h[n + 1] = e /\ Rising(h)
      /\ \A i \in 1 .. n : h[i] = log[i]
      /\ \A i \in 1 .. n + 1 : i \in 1 .. n \/ i = n + 1
  <2>1. IsList(log) /\ Rising(log)
    BY DEF LogIs
  <2> QED
    BY <2>1, AppendedIs, AppendRises
<1> HIDE DEF h
<1>2. \A i \in 1 .. n + 1 : h[i].id = i /\ h[i].n \in Nat \ {0}
  BY <1>1 DEF LogIs
<1>3. LogIs(h)
  BY <1>1, <1>2 DEF LogIs
<1>4. \A d : OfLog(log, d) => OfLog(h, d)
  BY <1>1 DEF OfLog
<1>5. OfLog(h, e)
  BY <1>1 DEF OfLog
<1>6. \A s : AllOfLog(log, s) => AllOfLog(h, s)
  BY <1>4 DEF AllOfLog
<1> QED
  BY <1>1, <1>3, <1>4, <1>5, <1>6 DEF h

(* The journal goes on telling the history, with the update if it is durable. *)
LEMMA JournalGrows ==
  ASSUME LogIs(log), NEW es, JournalTells(log, expired, es),
         NEW e, e.n \in Nat \ {0}, e.id = Len(log) + 1, e.dur \in BOOLEAN,
         \A i \in 1 .. Len(log) : log[i].n < e.n, log' = Append(log, e)
  PROVE  JournalTells(log', expired, IF e.dur THEN Append(es, e) ELSE es)
<1> DEFINE h == log'
<1>1. /\ LogIs(h) /\ Len(h) = Len(log) + 1 /\ h[Len(log) + 1] = e /\ Len(log) \in Nat
      /\ \A i \in 1 .. Len(log) : h[i] = log[i]
      /\ AllOfLog(h, es) /\ OfLog(h, e)
  BY HistoryGrows DEF JournalTells
<1> HIDE DEF h
<1>2. Len(es) \in Nat /\ IsList(es) /\ Rising(es) /\ AllOfLog(log, es)
  BY DEF IsList, JournalTells, AllOfLog
<1>3. ASSUME NEW i \in 1 .. Len(log), log[i].dur, i > expired
      PROVE  \/ \E k \in 1 .. Len(es) : es[k].id = i
             \/ Len(es) > 0 /\ log[i].n < es[1].n
  BY <1>3 DEF JournalTells
<1>4. \A i \in 1 .. Len(h) :
        (i \in 1 .. Len(log) /\ h[i] = log[i]) \/ (i = Len(log) + 1 /\ h[i] = e)
  BY <1>1
<1>5. CASE e.dur
  <2> DEFINE s == Append(es, e)
  <2>1. \A k \in 1 .. Len(es) : es[k].n < e.n
    BY <1>2 DEF AllOfLog, OfLog
  <2>2. /\ IsList(s) /\ Len(s) = Len(es) + 1 /\ Rising(s) /\ s[Len(es) + 1] = e
        /\ \A i \in 1 .. Len(es) : s[i] = es[i]
    BY <1>2, <2>1, AppendedIs, AppendRises
  <2> HIDE DEF s
  <2>3. AllOfLog(h, s)
    BY <1>1, <1>2, <2>2 DEF AllOfLog
  <2>4. ASSUME NEW i \in 1 .. Len(h), h[i].dur, i > expired
        PROVE  \/ \E k \in 1 .. Len(s) : s[k].id = i
               \/ Len(s) > 0 /\ h[i].n < s[1].n
    <3>1. CASE i = Len(log) + 1 /\ h[i] = e
      <4>1. Len(es) + 1 \in 1 .. Len(s) /\ s[Len(es) + 1].id = i
        BY <1>2, <2>2, <3>1
      <4> QED
        BY <4>1
    <3>2. CASE i \in 1 .. Len(log) /\ h[i] = log[i]
      <4>1. \A k \in 1 .. Len(es) : k \in 1 .. Len(s) /\ s[k] = es[k]
        BY <1>2, <2>2
      <4>2. Len(es) > 0 => 1 \in 1 .. Len(es) /\ Len(s) > 0
        BY <1>2, <2>2
      <4> QED
        BY <1>3, <2>4, <3>2, <4>1, <4>2
    <3> QED
      BY <1>4, <3>1, <3>2
  <2>5. JournalTells(h, expired, s)
    BY <2>2, <2>3, <2>4 DEF JournalTells
  <2> QED
    BY <1>5, <2>5 DEF s, h
<1>6. CASE ~e.dur
  <2>1. \A i \in 1 .. Len(h) : h[i].dur => i \in 1 .. Len(log) /\ h[i] = log[i]
    BY <1>4, <1>6
  <2>2. JournalTells(h, expired, es)
    BY <1>1, <1>2, <1>3, <2>1 DEF JournalTells
  <2> QED
    BY <1>6, <2>2 DEF h
<1> QED
  BY <1>5, <1>6 DEF h

(* The ring goes on being the end of the history. *)
LEMMA RingGrows ==
  ASSUME IsList(log), NEW r, RingTells(log, r), NEW e, log' = Append(log, e)
  PROVE  RingTells(log', IF Len(Append(r, e)) > MaxSize THEN Tail(Append(r, e)) ELSE Append(r, e))
<1> DEFINE h == log'
           s == Append(r, e)
           t == Tail(s)
           n == Len(log)
           m == Len(r)
<1>1. /\ n \in Nat /\ Len(h) = n + 1 /\ h[n + 1] = e
      /\ \A i \in 1 .. n : h[i] = log[i]
  BY AppendedIs
<1>2. IsList(r) /\ m <= n /\ \A k \in 1 .. m : r[k] = log[n - m + k]
  BY DEF RingTells
<1>3. /\ IsList(s) /\ m \in Nat /\ Len(s) = m + 1 /\ s[m + 1] = e
      /\ \A i \in 1 .. m : s[i] = r[i]
  BY <1>2, AppendedIs
<1> HIDE DEF h, s
<1>4. /\ IsList(t) /\ Len(t) = m /\ \A i \in 1 .. m : t[i] = s[i + 1]
  <2>1. s # <<>>
    BY <1>3, EmptyIs
  <2>2. /\ IsList(t) /\ Len(t) = Len(s) - 1 /\ \A i \in 1 .. Len(s) - 1 : t[i] = s[i + 1]
    BY <1>3, <2>1, TailIs
  <2>3. Len(s) - 1 = m
    BY <1>3
  <2> QED
    BY <2>2, <2>3
<1> HIDE DEF t, n, m
<1>5. \A k \in 1 .. m + 1 : s[k] = h[n - m + k]
  <2> SUFFICES ASSUME NEW k \in 1 .. m + 1 PROVE s[k] = h[n - m + k]
    OBVIOUS
  <2>1. CASE k = m + 1
    <3>1. n - m + k = n + 1
      BY <1>1, <1>3, <2>1
    <3> QED
      BY <1>1, <1>3, <2>1, <3>1
  <2>2. CASE k # m + 1
    <3>1. k \in 1 .. m /\ n - m + k \in 1 .. n
      BY <1>1, <1>2, <1>3, <2>2
    <3> QED
      BY <1>1, <1>2, <1>3, <3>1
  <2> QED
    BY <2>1, <2>2
<1>6. RingTells(h, s)
  <2>0. n \in Nat /\ m \in Nat
    BY <1>1, <1>3
  <2>1. \A k \in 1 .. m + 1 : (n + 1) - (m + 1) + k = n - m + k
    BY <2>0
  <2>2. m + 1 <= n + 1
    BY <1>1, <1>2, <1>3
  <2>3. \A k \in 1 .. m + 1 : s[k] = h[(n + 1) - (m + 1) + k]
    BY Zenon, <1>5, <2>1
  <2> QED
    BY <1>1, <1>3, <2>2, <2>3 DEF RingTells
<1>7. RingTells(h, t)
  <2>1. n \in Nat /\ m \in Nat
    BY <1>1, <1>3
  <2>2. m <= n + 1
    BY <1>1, <1>2, <1>3
  <2>3. ASSUME NEW k \in 1 .. m PROVE t[k] = h[(n + 1) - m + k]
    <3>1. k + 1 \in 1 .. m + 1 /\ n - m + (k + 1) = (n + 1) - m + k
      BY <2>1
    <3>2. t[k] = s[k + 1]
      BY Zenon, <1>4
    <3>3. s[k + 1] = h[n - m + (k + 1)]
      BY Zenon, <1>5, <3>1
    <3> QED
      BY Zenon, <3>1, <3>2, <3>3
  <2> QED
    BY <1>1, <1>4, <2>2, <2>3 DEF RingTells
<1> QED
  BY <1>6, <1>7 DEF h, s, t

(* A buffer made from the files tells the history if the files do. *)
LEMMA LoadedTells ==
  ASSUME JournalSound, ~buf.on, zombie = <<>>, NEW dir \in BOOLEAN
  PROVE  BufferTells(Loaded(disk.meta, dir).buf, Loaded(disk.meta, dir).queue)
<1> DEFINE f == <<disk.journal, disk.meta>>
           es == Parsed(disk.journal)
           kept == Retained(es)
           m == disk.meta
<1>0. LogIs(log) /\ LogHolds /\ expired \in Nat
  BY DEF JournalSound, LogHolds
<1>1. JournalTells(log, expired, disk.journal) /\ Numbered(m)
  <2>1. PICK e, n : Kept(zombie, e, n)
    BY DEF JournalSound
  <2>2. e = disk.journal /\ n = disk.meta
    <3>1. f = <<e, n>>
      BY <2>1, LeadsDone DEF Kept
    <3> QED
      BY <3>1
  <2> QED
    BY <2>1, <2>2 DEF Kept
<1>2. JournalTells(log, expired, es) /\ JournalTells(log, expired, kept)
  BY <1>0, <1>1, ParsedTells, RetainedTells
<1>3. LastOr0(es) <= m /\ LastOr0(es) \in Nat
  <2>1. CASE es = <<>>
    BY <1>1, <2>1 DEF LastOr0, Numbered
  <2>2. CASE es # <<>>
    <3>1. Len(es) \in Nat /\ IsList(es) /\ AllOfLog(log, es)
      BY <1>2 DEF JournalTells, AllOfLog, IsList
    <3>2. Len(es) # 0
      <4>1. PICK S : es \in Seq(S)
        BY <3>1, ListIn
      <4> HIDE DEF es
      <4> QED
        BY <2>2, <4>1
    <3>3. Len(es) \in 1 .. Len(es)
      BY <3>1, <3>2
    <3>4. OfLog(log, es[Len(es)])
      BY <3>1, <3>3 DEF AllOfLog
    <3>5. LastOr0(es) = es[Len(es)].n
      BY <2>2 DEF LastOr0, Last
    <3> HIDE DEF es, m
    <3>6. es[Len(es)].id \in 1 .. Len(log) /\ log[es[Len(es)].id] = es[Len(es)]
      BY <3>4 DEF OfLog
    <3> QED
      BY <1>0, <1>1, <3>5, <3>6 DEF Numbered, LogHolds, LogIs
  <2> QED
    BY <2>1, <2>2
<1>4. (IF m > LastOr0(es) THEN m ELSE LastOr0(es)) = m
  BY <1>1, <1>3 DEF Numbered
<1> DEFINE q1 == RewriteIf(es # disk.journal, es)
           q2 == RewriteIf(kept # es, kept)
           q3 == IF dir THEN <<[kind |-> "meta", n |-> m]>> ELSE <<>>
           b == [on |-> TRUE, seq |-> m, ring |-> <<>>, durable |-> kept, disabled |-> FALSE]
<1>5. Loaded(disk.meta, dir) = [buf |-> b, queue |-> q1 \o q2 \o q3]
  BY <1>4 DEF Loaded, LoadedAs
<1>6. WritesLead(q1, f, <<es, m>>)
  <2>1. WritesLead(<<>>, f, <<disk.journal, m>>)
    BY LeadsNowhere
  <2>2. WritesLead(<<>> \o q1, f, <<es, m>>)
    <3>1. PICK g, j, n, k : g = f /\ j = disk.journal /\ n = m /\ k = es
      OBVIOUS
    <3> HIDE DEF f, es, m
    <3>2. WritesLead(<<>>, g, <<j, n>>)
      BY <2>1, <3>1
    <3>3. WritesLead(<<>> \o RewriteIf(k # j, k), g, <<k, n>>)
      BY Zenon, <3>2, LeadsRewrite
    <3> QED
      BY <3>1, <3>3
  <2>3. <<>> \o q1 = q1
    <3>1. q1 = <<>> \/ q1 = <<[kind |-> "rewrite", es |-> es]>>
      BY DEF RewriteIf
    <3> HIDE DEF q1, es
    <3> QED
      BY <3>1
  <2> QED
    BY <2>2, <2>3
<1> HIDE DEF q1
<1>7. WritesLead(q1 \o q2, f, <<kept, m>>)
  BY <1>6, LeadsRewrite
<1> HIDE DEF q2
<1>8. WritesLead(q1 \o q2 \o q3, f, <<kept, m>>)
  <2>1. CASE dir
    BY <1>7, <2>1, LeadsMeta
  <2>2. CASE ~dir
    BY <1>7, <2>2, LeadsNowhere, LeadsOn
  <2> QED
    BY <2>1, <2>2
<1> HIDE DEF q3, es, kept
<1>9. Kept(q1 \o q2 \o q3, kept, m)
  BY <1>1, <1>2, <1>8 DEF Kept
<1>10. RingTells(log, <<>>)
  <2>1. Len(<<>>) = 0 /\ IsList(<<>>)
    BY DEF IsList
  <2> QED
    BY <1>0, <2>1 DEF RingTells, LogHolds, LogIs, IsList
<1>11. IsBuffer(b) /\ b.on /\ ~b.disabled /\ b.ring = <<>> /\ b.durable = kept /\ b.seq = m
  BY DEF IsBuffer
<1> HIDE DEF b, m
<1>12. BufferTells(b, q1 \o q2 \o q3)
  BY <1>9, <1>10, <1>11 DEF BufferTells
<1> QED
  BY <1>5, <1>12

(* The buffer the server has or makes, unless what it tells is not to be relied on. *)
LEMMA GottenTells ==
  ASSUME JournalSound, NEW b \in GetOrCreate, ~Late, ~b.buf.disabled
  PROVE  zombie = <<>> /\ BufferTells(b.buf, b.queue)
<1>1. CASE buf.on
  <2>1. b = [buf |-> buf, queue |-> queue]
    BY <1>1 DEF GetOrCreate
  <2> QED
    BY <1>1, <2>1 DEF JournalSound
<1>2. CASE ~buf.on
  <2>1. zombie = <<>>
    BY <1>2 DEF Late
  <2>2. MetaReads = {disk.meta}
    BY <2>1 DEF MetaReads
  <2>3. b # MemoryOnly
    <3>1. MemoryOnly.buf.disabled = TRUE
      BY DEF MemoryOnly, NoBuffer
    <3> QED
      BY <3>1
  <2>4. PICK dir \in BOOLEAN : b = Loaded(disk.meta, dir)
    BY <1>2, <2>2, <2>3 DEF GetOrCreate
  <2> QED
    BY <1>2, <2>1, <2>4, LoadedTells
<1> QED
  BY <1>1, <1>2

-----------------------------------------------------------------------------
(* What a client is told when it subscribes *)

(* Journal and ring together tell the history as the journal does. *)
LEMMA MergedTells ==
  ASSUME LogHolds, NEW b, NEW q, BufferTells(b, q)
  PROVE  JournalTells(log, expired, Merged(b))
<1> DEFINE es == b.durable
           r == b.ring
           old == ToSet(es)
           all == old \cup {e \in ToSet(r) : \A d \in old : d.n # e.n}
           K == {e.n : e \in all}
           order == CHOOSE f \in Listings(K) : TRUE
           M == [i \in DOMAIN order |-> CHOOSE e \in all : e.n = order[i]]
           c == Cardinality(K)
<1>0. LogIs(log)
  BY DEF LogHolds
<1>1. /\ JournalTells(log, expired, es) /\ AllOfLog(log, es) /\ Numbered(b.seq) /\ b.seq \in Nat
      /\ RingTells(log, r) /\ Len(log) \in Nat /\ Len(r) \in Nat /\ Len(es) \in Nat
  BY DEF BufferTells, Kept, JournalTells, RingTells, LogHolds, LogIs, IsList, AllOfLog, Numbered
<1>2. old = {es[k] : k \in 1 .. Len(es)} /\ ToSet(r) = {r[k] : k \in 1 .. Len(r)}
  <2>1. DOMAIN es = 1 .. Len(es) /\ DOMAIN r = 1 .. Len(r)
    BY <1>1 DEF AllOfLog, IsList, RingTells
  <2> QED
    BY <2>1 DEF ToSet
<1>3. Merged(b) = M
  BY DEF Merged
<1> HIDE DEF es, r
<1>4. ASSUME NEW k \in 1 .. Len(r)
      PROVE  Len(log) - Len(r) + k \in 1 .. Len(log) /\ r[k] = log[Len(log) - Len(r) + k] /\ OfLog(log, r[k])
  <2>1. Len(log) - Len(r) + k \in 1 .. Len(log)
    BY <1>1 DEF RingTells
  <2>2. r[k] = log[Len(log) - Len(r) + k]
    BY <1>1 DEF RingTells
  <2> QED
    BY <2>1, <2>2 DEF OfLog, LogHolds, LogIs
<1>5. \A e \in old : OfLog(log, e)
  BY <1>1, <1>2 DEF AllOfLog
<1> HIDE DEF old
<1>6. \A e \in all : OfLog(log, e)
  BY <1>2, <1>4, <1>5
<1>7. K \in SUBSET (1 .. b.seq)
  <2> SUFFICES ASSUME NEW e \in all PROVE e.n \in 1 .. b.seq
    OBVIOUS
  <2>1. e.id \in 1 .. Len(log) /\ log[e.id] = e
    BY <1>6 DEF OfLog
  <2>2. e.n \in Nat \ {0} /\ e.n <= b.seq
    BY <1>1, <2>1 DEF LogHolds, LogIs, Numbered
  <2> QED
    BY <1>1, <2>2
<1>8. \A e \in all : e.n \in K
  OBVIOUS
<1>9. \A p \in K : \E e \in all : e.n = p
  OBVIOUS
<1> HIDE DEF K, all
<1>10. order \in Listings(K)
  <2>1. Listings(K) # {}
    BY <1>1, <1>7, ListingExists
  <2> QED
    BY <2>1
<1> HIDE DEF order
<1>11. /\ c \in Nat /\ order \in [1 .. c -> K]
       /\ \A i, j \in 1 .. c : i < j => order[i] < order[j]
       /\ \A p \in K : \E i \in 1 .. c : order[i] = p
  BY ZenonT(30), <1>1, <1>7, <1>10, ListingOnto
<1> HIDE DEF c
<1>12. DOMAIN order = 1 .. c
  BY <1>11
<1>13. ASSUME NEW i \in 1 .. c PROVE M[i] \in all /\ M[i].n = order[i]
  <2>1. \E e \in all : e.n = order[i]
    BY <1>9, <1>11
  <2>2. M[i] = CHOOSE e \in all : e.n = order[i]
    BY <1>12
  <2> QED
    BY <2>1, <2>2
<1>14. M \in [1 .. c -> all]
  BY <1>12, <1>13
<1> HIDE DEF M
<1>15. IsList(M) /\ Len(M) = c
  <2>1. M \in Seq(all) /\ Len(M) = c
    BY <1>11, <1>14
  <2> QED
    BY <2>1, SeqIsList
<1>16. AllOfLog(log, M)
  BY <1>6, <1>13, <1>15 DEF AllOfLog
<1>17. Rising(M)
  BY <1>11, <1>13, <1>15 DEF Rising
<1>18. ASSUME NEW i \in 1 .. Len(log), log[i].n \in K PROVE \E k \in 1 .. Len(M) : M[k].id = i
  <2>1. PICK k \in 1 .. c : order[k] = log[i].n
    BY <1>11, <1>18
  <2>2. M[k].n = log[i].n /\ M[k].id \in 1 .. Len(log) /\ log[M[k].id] = M[k]
    BY <1>13, <1>15, <1>16, <2>1 DEF AllOfLog, OfLog
  <2>3. M[k].id = i
    BY <1>0, <2>2, NumbersFollow
  <2> QED
    BY <1>15, <2>3
<1>19. \A k \in 1 .. Len(es) : es[k] \in all
  BY <1>2 DEF all
<1>20. \A k \in 1 .. Len(r) : r[k].n \in K
  <2> SUFFICES ASSUME NEW k \in 1 .. Len(r) PROVE \E e \in all : e.n = r[k].n
    BY <1>8
  <2> QED
    BY <1>2 DEF all
<1>21. ASSUME NEW i \in 1 .. Len(log), log[i].dur, i > expired
       PROVE  \/ \E k \in 1 .. Len(M) : M[k].id = i
              \/ Len(M) > 0 /\ log[i].n < M[1].n
  <2>1. CASE \E k \in 1 .. Len(es) : es[k].id = i
    <3>1. PICK k \in 1 .. Len(es) : es[k].id = i
      BY <2>1
    <3>2. es[k] \in all /\ es[k] = log[i]
      BY <1>1, <1>19, <3>1 DEF AllOfLog, OfLog
    <3>3. log[i].n \in K
      BY <1>8, <3>2
    <3> QED
      BY <1>18, <3>3
  <2>2. CASE Len(es) > 0 /\ log[i].n < es[1].n
    <3>1. 1 \in 1 .. Len(es) /\ es[1] \in all
      BY <1>1, <1>19, <2>2
    <3>2. es[1].n \in K
      BY <1>8, <3>1
    <3>3. PICK k \in 1 .. c : order[k] = es[1].n
      BY <1>11, <3>2
    <3>4. 1 \in 1 .. c /\ Len(M) > 0
      BY <1>11, <1>15, <3>3
    <3>5. M[1] \in all /\ OfLog(log, M[1])
      BY <1>13, <1>15, <1>16, <3>4 DEF AllOfLog
    <3>6. CASE M[1] \in old
      <4>1. PICK j \in 1 .. Len(es) : M[1] = es[j]
        BY <1>2, <3>6
      <4>2. es[1].n <= M[1].n
        <5>1. Rising(es)
          BY <1>1 DEF JournalTells
        <5> QED
          BY <1>0, <1>1, <4>1, <5>1, FirstLeast
      <4>3. log[i].n \in Nat /\ es[1].n \in Nat /\ M[1].n \in Nat
        BY <1>1, <3>1, <3>5 DEF AllOfLog, OfLog, LogHolds, LogIs
      <4> QED
        BY SMTT(30), <2>2, <3>4, <4>2, <4>3
    <3>7. CASE M[1] \notin old
      <4>1. PICK j \in 1 .. Len(r) : M[1] = r[j]
        BY <1>2, <3>5, <3>7 DEF all
      <4> DEFINE g == Len(log) - Len(r) + j
      <4>2. g \in 1 .. Len(log) /\ M[1] = log[g]
        BY <1>4, <4>1
      <4>3. CASE i < g
        BY <1>0, <3>4, <4>2, <4>3, NumbersFollow
      <4>4. CASE ~(i < g)
        <5>1. i - (Len(log) - Len(r)) \in 1 .. Len(r)
          BY <1>1, <4>1, <4>4 DEF RingTells
        <5> DEFINE h == i - (Len(log) - Len(r))
        <5>2. h \in 1 .. Len(r) /\ Len(log) - Len(r) + h = i
          BY <1>1, <5>1
        <5> HIDE DEF h
        <5>3. r[h] = log[i]
          BY <1>4, <5>2
        <5> QED
          BY <1>18, <1>20, <5>2, <5>3
      <4> QED
        BY <4>3, <4>4
    <3> QED
      BY <3>6, <3>7
  <2> QED
    BY <1>1, <1>21, <2>1, <2>2 DEF JournalTells
<1> QED
  BY <1>3, <1>16, <1>17, <1>21 DEF JournalTells

(* What a client that last had a number is sent: every durable update above it
   that is not too old, unless it is told of the gap or begins after it. *)
LEMMA WindowTells ==
  ASSUME LogHolds, NEW b, NEW q, BufferTells(b, q), NEW x \in Nat
  PROVE  /\ AllOfLog(log, Window(b, x).entries) /\ Rising(Window(b, x).entries)
         /\ \A k \in 1 .. Len(Window(b, x).entries) : x < Window(b, x).entries[k].n
         /\ Window(b, x).earliest \in Nat
         /\ \A i \in 1 .. Len(log) : log[i].dur /\ i > expired /\ x < log[i].n =>
              \/ \E k \in 1 .. Len(Window(b, x).entries) : Window(b, x).entries[k].id = i
              \/ Window(b, x).dropped
              \/ x = 0 /\ Window(b, x).earliest > 0 /\ log[i].n < Window(b, x).earliest
<1> DEFINE es == Merged(b)
           first == IF es = <<>> THEN 0 ELSE es[1].n
           P == {i \in DOMAIN es : es[i].n > x}
           t == Selected(es, P)
           w == Window(b, x)
<1>1. w = [dropped |-> x > 0 /\ first > 0 /\ x < first - 1, earliest |-> first, entries |-> t]
  BY DEF Window
<1>2. /\ w.entries = t /\ w.earliest = first
      /\ w.dropped = (x > 0 /\ first > 0 /\ x < first - 1)
  <2> HIDE DEF t, first
  <2> QED
    BY <1>1
<1> HIDE DEF w
<1>3. JournalTells(log, expired, es) /\ LogIs(log)
  BY MergedTells DEF LogHolds
<1> HIDE DEF es
<1>4. IsList(es) /\ Rising(es) /\ AllOfLog(log, es) /\ Len(es) \in Nat /\ DOMAIN es = 1 .. Len(es)
  BY <1>3 DEF JournalTells, AllOfLog, IsList
<1>5. es = <<>> <=> Len(es) = 0
  BY <1>4, EmptyIs
<1>6. P \in SUBSET (DOMAIN es) /\ \A i \in 1 .. Len(es) : i \in P <=> es[i].n > x
  BY <1>4
<1> HIDE DEF P
<1>7. /\ IsList(t) /\ Rising(t)
      /\ \A i \in 1 .. Len(t) : \E p \in P : t[i] = es[p]
      /\ \A p \in P : \E i \in 1 .. Len(t) : t[i] = es[p]
  BY <1>4, <1>6, SelectedAll, SelectedRises
<1> HIDE DEF t
<1>8. AllOfLog(log, t) /\ \A k \in 1 .. Len(t) : x < t[k].n
  <2>1. ASSUME NEW k \in 1 .. Len(t) PROVE OfLog(log, t[k]) /\ x < t[k].n
    <3>1. PICK p \in P : t[k] = es[p]
      BY <1>7
    <3>2. p \in 1 .. Len(es) /\ es[p].n > x
      BY <1>4, <1>6, <3>1
    <3>3. OfLog(log, es[p])
      BY <1>4, <3>2 DEF AllOfLog
    <3>4. es[p].n \in Nat
      BY <1>3, <3>3 DEF OfLog, LogIs
    <3> QED
      BY <3>1, <3>2, <3>3, <3>4
  <2> QED
    BY <1>7, <2>1 DEF AllOfLog
<1>9. first \in Nat
  <2>1. CASE es = <<>>
    BY <2>1
  <2>2. CASE es # <<>>
    <3>1. 1 \in 1 .. Len(es)
      BY <1>4, <1>5, <2>2
    <3>2. es[1].id \in 1 .. Len(log) /\ log[es[1].id] = es[1]
      BY <1>4, <3>1 DEF AllOfLog, OfLog
    <3> QED
      BY <1>3, <2>2, <3>2 DEF LogIs
  <2> QED
    BY <2>1, <2>2
<1>10. ASSUME NEW i \in 1 .. Len(log), log[i].dur, i > expired, x < log[i].n
       PROVE  \/ \E k \in 1 .. Len(t) : t[k].id = i
              \/ x > 0 /\ first > 0 /\ x < first - 1
              \/ x = 0 /\ first > 0 /\ log[i].n < first
  <2>1. log[i].n \in Nat
    BY <1>3 DEF LogIs
  <2>2. ASSUME NEW k \in 1 .. Len(es), es[k].id = i PROVE \E j \in 1 .. Len(t) : t[j].id = i
    <3>1. es[k] = log[i]
      BY <1>4, <2>2 DEF AllOfLog, OfLog
    <3>2. k \in P
      BY <1>6, <1>10, <2>1, <3>1
    <3> QED
      BY <1>7, <2>2, <3>2
  <2>3. ASSUME Len(es) > 0, log[i].n < es[1].n
        PROVE  \/ x > 0 /\ first > 0 /\ x < first - 1
               \/ x = 0 /\ first > 0 /\ log[i].n < first
    <3>1. first = es[1].n
      BY <1>5, <2>3
    <3> HIDE DEF first
    <3> QED
      BY <1>9, <1>10, <2>1, <2>3, <3>1
  <2> QED
    BY <1>3, <1>10, <2>2, <2>3 DEF JournalTells
<1> HIDE DEF first
<1> QED
  BY <1>2, <1>7, <1>8, <1>9, <1>10 DEF w

-----------------------------------------------------------------------------
(* The server and its client *)

LEMMA JournalStart == Init => JournalInv
<1> SUFFICES ASSUME Init PROVE JournalSound
  BY DEF JournalInv
<1>1. /\ buf.on = FALSE /\ queue = <<>> /\ zombie = <<>> /\ log = <<>> /\ since = 0 /\ expired = 0
      /\ disk = [meta |-> 0, journal |-> <<>>, open |-> FALSE]
      /\ client = [sub |-> FALSE, net |-> <<>>, last |-> 0]
  BY DEF Init, NoBuffer
<1>2. IsList(<<>>) /\ Len(<<>>) = 0
  BY DEF IsList
<1>3. LogHolds /\ ViewerHolds /\ Caught /\ IsFiles(disk) /\ ~disk.open
  BY <1>1, <1>2 DEF LogHolds, LogIs, Rising, ViewerHolds, IsViewer, AllOfLog, Caught, IsFiles
<1>4. Kept(zombie, <<>>, 0)
  <2>1. WritesLead(<<>>, <<<<>>, 0>>, <<<<>>, 0>>)
    BY LeadsNowhere
  <2>2. JournalTells(log, expired, <<>>) /\ Numbered(0)
    BY <1>1, <1>2 DEF JournalTells, AllOfLog, Rising, Numbered
  <2> QED
    BY <1>1, <2>1, <2>2 DEF Kept
<1> QED
  BY <1>1, <1>3, <1>4 DEF JournalSound

(* An update is numbered, kept and sent. *)
LEMMA PushKeeps ==
  ASSUME JournalSound, NEW dur \in BOOLEAN, NEW slow \in BOOLEAN, Push(dur, slow), ~lossy'
  PROVE  JournalSound'
<1>1. PICK b \in GetOrCreate :
        LET e == Entry(b.buf.seq + 1, Len(log) + 1, dur)
            p == Pushed(b, e)
        IN  /\ buf' = p.buf /\ queue' = p.queue
            /\ log' = Append(log, e)
            /\ client' = IF client.sub /\ ~slow
                         THEN [client EXCEPT !.net = Append(@, e)] ELSE client
            /\ lossy' = (lossy \/ Late \/ b.buf.disabled)
  BY DEF Push
<1> DEFINE e == Entry(b.buf.seq + 1, Len(log) + 1, dur)
           p == Pushed(b, e)
           all == IF e.dur THEN Append(b.buf.durable, e) ELSE b.buf.durable
           kept == IF e.dur THEN Retained(all) ELSE all
           s == Append(b.buf.ring, e)
           ring == IF Len(s) > MaxSize THEN Tail(s) ELSE s
           f == <<disk.journal, disk.meta>>
           q1 == Append(b.queue, [kind |-> "meta", n |-> e.n])
           q2 == IF e.dur THEN <<[kind |-> "append", e |-> e]>> ELSE <<>>
           q == q1 \o q2 \o RewriteIf(kept # all, kept)
<1>2. /\ buf' = p.buf /\ queue' = p.queue /\ log' = Append(log, e)
      /\ client' = IF client.sub /\ ~slow THEN [client EXCEPT !.net = Append(@, e)] ELSE client
      /\ ~Late /\ ~b.buf.disabled
  BY <1>1
<1>3. UNCHANGED <<zombie, disk, got, since, told, expired>> /\ (slow => ~dur)
  BY DEF Push
<1>4. zombie = <<>> /\ BufferTells(b.buf, b.queue)
  BY <1>2, GottenTells
<1>5. /\ LogIs(log) /\ expired \in Nat /\ since \in Nat /\ Numbered(b.buf.seq)
      /\ JournalTells(log, expired, b.buf.durable) /\ RingTells(log, b.buf.ring)
      /\ WritesLead(b.queue, f, <<b.buf.durable, b.buf.seq>>) /\ IsBuffer(b.buf) /\ b.buf.on
  BY <1>4 DEF BufferTells, Kept, JournalSound, LogHolds
<1>6. /\ e.n = b.buf.seq + 1 /\ e.id = Len(log) + 1 /\ e.dur = dur
      /\ e.n \in Nat \ {0} /\ \A i \in 1 .. Len(log) : log[i].n < e.n
      /\ client.last < e.n
  <2>1. e.n = b.buf.seq + 1 /\ e.id = Len(log) + 1 /\ e.dur = dur
    BY DEF Entry
  <2>2. b.buf.seq \in Nat /\ client.last \in Nat /\ \A i \in 1 .. Len(log) : log[i].n \in Nat
    BY <1>5 DEF Numbered, LogIs, JournalSound, ViewerHolds
  <2> HIDE DEF e
  <2>3. \A i \in 1 .. Len(log) : log[i].n <= b.buf.seq
    BY <1>5 DEF Numbered
  <2>4. client.last <= b.buf.seq
    BY <1>5 DEF Numbered
  <2>5. e.n = b.buf.seq + 1 /\ b.buf.seq \in Nat /\ client.last \in Nat
    BY Zenon, <2>1, <2>2
  <2>6. client.last < e.n /\ e.n \in Nat \ {0}
    BY <2>4, <2>5
  <2>7. ASSUME NEW i \in 1 .. Len(log) PROVE log[i].n < e.n
    <3>1. log[i].n \in Nat /\ log[i].n <= b.buf.seq
      BY Zenon, <2>2, <2>3
    <3> QED
      BY <2>5, <3>1
  <2> QED
    BY Zenon, <2>1, <2>6, <2>7
<1>7. p.buf = [b.buf EXCEPT !.seq = e.n, !.durable = kept, !.ring = ring] /\ p.queue = q
  BY <1>2 DEF Pushed
<1> HIDE DEF e, p
<1>8. /\ LogIs(log') /\ Len(log') = Len(log) + 1 /\ log'[Len(log) + 1] = e /\ Len(log) \in Nat
      /\ \A i \in 1 .. Len(log) : log'[i] = log[i]
      /\ \A d : AllOfLog(log, d) => AllOfLog(log', d)
      /\ OfLog(log', e)
  BY <1>2, <1>5, <1>6, HistoryGrows
<1>9. JournalTells(log', expired, all)
  BY <1>2, <1>5, <1>6, JournalGrows
<1>10. JournalTells(log', expired, kept)
  <2> HIDE DEF all
  <2> QED
    BY <1>5, <1>8, <1>9, RetainedTells
<1>11. RingTells(log', ring)
  <2>1. IsList(log)
    BY <1>5 DEF LogIs
  <2> QED
    BY <1>2, <1>5, <2>1, RingGrows
<1>12. WritesLead(q, f, <<kept, e.n>>)
  <2>1. WritesLead(q1, f, <<b.buf.durable, e.n>>)
    BY <1>5, LeadsMeta
  <2> HIDE DEF q1
  <2>2. WritesLead(q1 \o q2, f, <<all, e.n>>)
    <3>1. CASE e.dur
      BY <2>1, <3>1, LeadsAppend
    <3>2. CASE ~e.dur
      <4>1. WritesLead(q1 \o <<>>, f, <<b.buf.durable, e.n>>)
        BY <2>1, LeadsNowhere, LeadsOn
      <4> QED
        BY <3>2, <4>1
    <3> QED
      BY <3>1, <3>2
  <2> HIDE DEF q2, all, kept
  <2> QED
    BY <2>2, LeadsRewrite
<1> HIDE DEF ring, all, kept, s, q1, q2, q
<1>13. /\ IsBuffer(buf') /\ buf'.on /\ ~buf'.disabled /\ buf'.ring = ring /\ buf'.durable = kept
       /\ buf'.seq = e.n /\ queue' = q
  BY <1>2, <1>5, <1>7 DEF IsBuffer
<1>14. ViewerHolds /\ Caught /\ LogHolds /\ IsFiles(disk) /\ ~disk.open
  BY DEF JournalSound
<1>15. /\ IsViewer(client') /\ client'.last = client.last /\ client'.sub = client.sub
       /\ \/ client'.net = Append(client.net, e) /\ client.sub /\ ~slow
          \/ client'.net = client.net /\ (client.sub => slow)
  BY <1>2, <1>14 DEF IsViewer, ViewerHolds
<1>16. \A i \in 1 .. Len(log') :
         (i \in 1 .. Len(log) /\ log'[i] = log[i]) \/ (i = Len(log) + 1 /\ log'[i] = e)
  BY <1>8
<1>17. e.n \in Nat /\ client'.last <= e.n /\ \A i \in 1 .. Len(log') : log'[i].n <= e.n
  <2>1. \A i \in 1 .. Len(log') : log'[i].n <= e.n
    <3>1. \A i \in 1 .. Len(log) : log[i].n \in Nat
      BY <1>5 DEF LogIs
    <3> QED
      BY <1>6, <1>16, <3>1
  <2> QED
    BY <1>6, <1>14, <1>15, <2>1 DEF ViewerHolds
<1>18. BufferTells(buf, queue)'
  BY <1>3, <1>10, <1>11, <1>12, <1>13, <1>17 DEF BufferTells, Kept, Numbered
<1>19. ViewerHolds' /\ Caught'
  <2> DEFINE net == client.net
  <2>0. /\ IsList(net) /\ Len(net) \in Nat /\ AllOfLog(log, net) /\ Rising(net) /\ client.last \in Nat
        /\ \A k \in 1 .. Len(net) : client.last < net[k].n /\ net[k].n < e.n /\ net[k].n \in Nat
    <3>1. \A k \in 1 .. Len(net) : OfLog(log, net[k])
      BY <1>14 DEF ViewerHolds, AllOfLog
    <3> QED
      BY ZenonT(30), <1>5, <1>6, <1>14, <3>1 DEF ViewerHolds, AllOfLog, IsList, OfLog, LogIs
  <2>1. SentTo(client) < e.n /\ SentTo(client) \in Nat
    <3>1. Len(net) # 0 => Len(net) \in 1 .. Len(net)
      BY <2>0
    <3> QED
      BY <1>6, <2>0, <3>1 DEF SentTo
  <2> HIDE DEF net
  <2>2. CASE client'.net = Append(net, e) /\ client.sub /\ ~slow
    <3> DEFINE t == Append(net, e)
    <3>1. /\ IsList(t) /\ Len(t) = Len(net) + 1 /\ Rising(t) /\ t[Len(net) + 1] = e
          /\ \A i \in 1 .. Len(net) : t[i] = net[i]
          /\ \A i \in 1 .. Len(net) + 1 : i \in 1 .. Len(net) \/ i = Len(net) + 1
      BY <2>0, AppendedIs, AppendRises
    <3> HIDE DEF t
    <3>2. AllOfLog(log', t)
      <4>1. AllOfLog(log', net)
        BY <1>8, <2>0
      <4> QED
        BY <1>8, <3>1, <4>1 DEF AllOfLog
    <3>3. \A k \in 1 .. Len(t) : client.last < t[k].n
      BY <1>6, <2>0, <3>1
    <3>4. ViewerHolds'
      BY <1>15, <2>0, <2>2, <3>1, <3>2, <3>3 DEF ViewerHolds, t
    <3>5. ASSUME ~told, NEW i \in 1 .. Len(log'), log'[i].dur, i > expired, since < log'[i].n
          PROVE  i \in got \/ \E k \in 1 .. Len(t) : t[k].id = i
      <4>1. CASE i = Len(log) + 1
        <5>1. Len(net) + 1 \in 1 .. Len(t) /\ t[Len(net) + 1].id = i
          BY <1>6, <2>0, <3>1, <4>1
        <5> QED
          BY <5>1
      <4>2. CASE i \in 1 .. Len(log) /\ log'[i] = log[i]
        <5>1. i \in got \/ \E k \in 1 .. Len(net) : net[k].id = i
          BY <1>14, <2>2, <3>5, <4>2 DEF Caught, net
        <5>2. \A k \in 1 .. Len(net) : k \in 1 .. Len(t) /\ t[k] = net[k]
          BY <2>0, <3>1
        <5> QED
          BY <5>1, <5>2
      <4> QED
        BY <1>16, <4>1, <4>2
    <3>6. Caught'
      BY <1>3, <2>2, <3>5 DEF Caught, t
    <3> QED
      BY <3>4, <3>6
  <2>3. CASE client'.net = net /\ (client.sub => slow)
    <3>1. ViewerHolds'
      BY <1>8, <1>15, <2>0, <2>3 DEF ViewerHolds
    <3>2. ASSUME ~told, NEW i \in 1 .. Len(log'), log'[i].dur, i > expired, since < log'[i].n,
                 client.sub \/ log'[i].n <= SentTo(client)
          PROVE  i \in got \/ \E k \in 1 .. Len(net) : net[k].id = i
      <4>1. CASE i = Len(log) + 1 /\ log'[i] = e
        <5>1. client.sub
          BY <1>6, <2>1, <3>2, <4>1
        <5> QED
          BY <1>3, <1>6, <2>3, <3>2, <4>1, <5>1
      <4>2. CASE i \in 1 .. Len(log) /\ log'[i] = log[i]
        BY <1>14, <3>2, <4>2 DEF Caught, net
      <4> QED
        BY <1>16, <4>1, <4>2
    <3>3. SentTo(client') = SentTo(client)
      BY <1>15, <2>3 DEF SentTo, net
    <3>4. Caught'
      BY <1>3, <1>15, <2>3, <3>2, <3>3 DEF Caught, SentTo
    <3> QED
      BY <3>1, <3>4
  <2> QED
    BY <1>15, <2>2, <2>3 DEF net
<1>20. LogHolds'
  BY <1>3, <1>5, <1>8 DEF LogHolds
<1> QED
  BY <1>3, <1>4, <1>13, <1>14, <1>18, <1>19, <1>20 DEF JournalSound, IsFiles

(* A client that subscribes is sent the window. *)
LEMMA SubscribeKeeps == ASSUME JournalSound, Subscribe, ~lossy' PROVE JournalSound'
<1>1. PICK b \in GetOrCreate :
        LET w == Window(b.buf, client.last)
        IN  /\ buf' = b.buf /\ queue' = b.queue
            /\ client' = [client EXCEPT !.sub = TRUE, !.net = w.entries]
            /\ told' = (told \/ w.dropped)
            /\ since' = IF client.last = 0
                        THEN (IF w.earliest = 0 THEN b.buf.seq ELSE w.earliest - 1)
                        ELSE since
            /\ lossy' = (lossy \/ Late \/ b.buf.disabled)
  BY DEF Subscribe
<1> DEFINE w == Window(b.buf, client.last)
           es == w.entries
<1>2. /\ buf' = b.buf /\ queue' = b.queue
      /\ client' = [client EXCEPT !.sub = TRUE, !.net = es]
      /\ told' = (told \/ w.dropped)
      /\ since' = IF client.last = 0
                  THEN (IF w.earliest = 0 THEN b.buf.seq ELSE w.earliest - 1) ELSE since
      /\ ~Late /\ ~b.buf.disabled
  BY <1>1
<1>3. UNCHANGED <<zombie, disk, log, got, expired>> /\ ~client.sub /\ client.net = <<>>
  BY DEF Subscribe
<1>4. zombie = <<>> /\ BufferTells(b.buf, b.queue)
  BY <1>2, GottenTells
<1>5. LogHolds /\ ViewerHolds /\ Caught /\ IsFiles(disk) /\ ~disk.open /\ client.last \in Nat
  BY DEF JournalSound, ViewerHolds
<1>6. /\ AllOfLog(log, es) /\ Rising(es) /\ w.earliest \in Nat
      /\ \A k \in 1 .. Len(es) : client.last < es[k].n
      /\ \A i \in 1 .. Len(log) : log[i].dur /\ i > expired /\ client.last < log[i].n =>
           \/ \E k \in 1 .. Len(es) : es[k].id = i
           \/ w.dropped
           \/ client.last = 0 /\ w.earliest > 0 /\ log[i].n < w.earliest
  BY <1>4, <1>5, WindowTells
<1> HIDE DEF w, es
<1>7. /\ IsViewer(client') /\ client'.sub /\ client'.net = es /\ client'.last = client.last
  BY <1>2, <1>5 DEF IsViewer, ViewerHolds
<1>8. ViewerHolds'
  BY <1>3, <1>5, <1>6, <1>7 DEF ViewerHolds
<1>9. Numbered(b.buf.seq) /\ b.buf.seq \in Nat /\ b.buf.on
  BY <1>4 DEF BufferTells, Kept, Numbered
<1>10. BufferTells(buf, queue)'
  <2>1. Numbered(b.buf.seq)'
    BY <1>3, <1>7, <1>9 DEF Numbered
  <2> QED
    BY <1>2, <1>3, <1>4, <2>1 DEF BufferTells, Kept
<1>11. LogHolds'
  <2>1. since' \in Nat
    BY <1>2, <1>5, <1>6, <1>9 DEF LogHolds
  <2> QED
    BY <1>3, <1>5, <2>1 DEF LogHolds
<1>12. Caught'
  <2>1. ASSUME ~told', NEW i \in 1 .. Len(log), log[i].dur, i > expired, since' < log[i].n
        PROVE  i \in got \/ \E k \in 1 .. Len(es) : es[k].id = i
    <3>1. log[i].n \in Nat /\ SentTo(client) = client.last /\ ~\E k \in 1 .. Len(client.net) : TRUE
      <4>1. Len(client.net) = 0
        BY <1>3
      <4> QED
        BY <1>5, <4>1 DEF LogHolds, LogIs, SentTo
    <3>2. CASE client.last < log[i].n
      <4>1. CASE client.last = 0 /\ w.earliest > 0 /\ log[i].n < w.earliest
        BY <1>2, <1>6, <2>1, <3>1, <4>1
      <4> QED
        BY <1>2, <1>6, <2>1, <3>2, <4>1
    <3>3. CASE ~(client.last < log[i].n)
      <4>1. client.last # 0
        BY <1>5, <3>1, <3>3 DEF LogHolds, LogIs
      <4>2. ~told /\ since < log[i].n
        BY <1>2, <2>1, <4>1
      <4>3. log[i].n <= SentTo(client)
        BY <1>5, <3>1, <3>3
      <4> QED
        BY <1>5, <2>1, <3>1, <4>2, <4>3 DEF Caught
    <3> QED
      BY <3>2, <3>3
  <2> QED
    BY <1>3, <1>7, <2>1 DEF Caught
<1> QED
  BY <1>2, <1>3, <1>4, <1>5, <1>8, <1>9, <1>10, <1>11, <1>12 DEF JournalSound

(* What only the client takes or leaves. *)
LEMMA ReceiveKeeps == ASSUME JournalSound, Receive PROVE JournalSound'
<1> DEFINE net == client.net
           e == Head(net)
           t == Tail(net)
<1>1. /\ net # <<>> /\ client' = [client EXCEPT !.net = t, !.last = e.n] /\ got' = got \cup {e.id}
      /\ UNCHANGED <<buf, queue, zombie, disk, log, since, told, lossy, expired>>
  BY DEF Receive, server
<1>2. /\ LogHolds /\ ViewerHolds /\ Caught /\ IsFiles(disk) /\ ~disk.open
      /\ IsList(net) /\ AllOfLog(log, net) /\ Rising(net)
  BY DEF JournalSound, ViewerHolds, AllOfLog
<1>3. /\ e = net[1] /\ IsList(t) /\ Len(net) \in Nat \ {0} /\ Len(t) = Len(net) - 1
      /\ \A i \in 1 .. Len(net) - 1 : t[i] = net[i + 1]
  BY <1>1, <1>2, TailIs
<1>4. /\ IsViewer(client') /\ client'.sub = client.sub /\ client'.net = t /\ client'.last = e.n
  BY <1>1, <1>2 DEF IsViewer, ViewerHolds
<1>5. 1 \in 1 .. Len(net) /\ Len(net) \in 1 .. Len(net)
  BY <1>3
<1>6. OfLog(log, e) /\ e.n \in Nat /\ e.id \in 1 .. Len(log)
  BY <1>2, <1>3, <1>5 DEF AllOfLog, OfLog, LogHolds, LogIs
<1> HIDE DEF e, t, net
<1>7. \A k \in 1 .. Len(t) : k + 1 \in 1 .. Len(net) /\ 1 < k + 1 /\ t[k] = net[k + 1]
  BY <1>3
<1>8. ViewerHolds'
  <2>1. AllOfLog(log, t)
    BY <1>2, <1>3, <1>7 DEF AllOfLog
  <2>2. ASSUME NEW i \in 1 .. Len(t), NEW j \in 1 .. Len(t), i < j PROVE t[i].n < t[j].n
    <3>1. i + 1 < j + 1
      BY <2>2
    <3> QED
      BY <1>2, <1>7, <3>1 DEF Rising
  <2>3. \A k \in 1 .. Len(t) : e.n < t[k].n
    BY <1>2, <1>3, <1>5, <1>7 DEF Rising
  <2> QED
    BY <1>1, <1>4, <1>6, <2>1, <2>2, <2>3 DEF ViewerHolds, Rising
<1>9. SentTo(client') = SentTo(client)
  <2>1. SentTo(client) = net[Len(net)].n
    BY <1>3 DEF SentTo, net
  <2>2. CASE Len(net) = 1
    BY <1>3, <1>4, <2>1, <2>2 DEF SentTo
  <2>3. CASE Len(net) # 1
    <3>1. Len(t) # 0 /\ Len(t) \in 1 .. Len(t) /\ Len(t) + 1 = Len(net)
      BY <1>3, <2>3
    <3>2. t[Len(t)] = net[Len(net)]
      BY <1>7, <3>1
    <3> QED
      BY <1>4, <2>1, <3>1, <3>2 DEF SentTo
  <2> QED
    BY <2>2, <2>3
<1>10. Caught'
  <2>1. ASSUME ~told, NEW i \in 1 .. Len(log), log[i].dur, i > expired, since < log[i].n,
               client.sub \/ log[i].n <= SentTo(client)
        PROVE  i \in got' \/ \E k \in 1 .. Len(t) : t[k].id = i
    <3>1. i \in got \/ \E k \in 1 .. Len(net) : net[k].id = i
      BY <1>2, <2>1 DEF Caught, net
    <3>2. ASSUME NEW k \in 1 .. Len(net), net[k].id = i
          PROVE  i \in got' \/ \E j \in 1 .. Len(t) : t[j].id = i
      <4>1. CASE k = 1
        BY <1>1, <1>3, <3>2, <4>1
      <4>2. CASE k # 1
        <5>1. k - 1 \in 1 .. Len(t) /\ (k - 1) + 1 = k
          BY <1>3, <4>2
        <5>2. t[k - 1] = net[k]
          BY <1>7, <5>1
        <5> QED
          BY <3>2, <5>1, <5>2
      <4> QED
        BY <4>1, <4>2
    <3> QED
      BY <1>1, <3>1, <3>2
  <2> QED
    BY <1>1, <1>4, <1>9, <2>1 DEF Caught
<1>11. LogHolds'
  BY <1>1, <1>2 DEF LogHolds
<1>12. ASSUME NEW m, Numbered(m) PROVE Numbered(m)'
  BY <1>1, <1>4, <1>6, <1>12 DEF Numbered, OfLog
<1>13. ASSUME NEW q, NEW es, NEW m, Kept(q, es, m) PROVE Kept(q, es, m)'
  BY <1>1, <1>12, <1>13 DEF Kept
<1> QED
  BY <1>1, <1>2, <1>8, <1>10, <1>11, <1>13 DEF JournalSound, BufferTells

(* The client stops to listen, with or without what is under way. *)
LEMMA ClientLeaves ==
  ASSUME LogHolds, ViewerHolds, Caught, UNCHANGED <<log, got, since, told, expired>>,
         \/ client' = [client EXCEPT !.sub = FALSE]
         \/ client' = [client EXCEPT !.sub = FALSE, !.net = <<>>]
  PROVE  LogHolds' /\ ViewerHolds' /\ Caught' /\ client'.last = client.last
<1>1. /\ IsViewer(client') /\ client'.sub = FALSE /\ client'.last = client.last
      /\ client'.net = client.net \/ client'.net = <<>>
  BY DEF ViewerHolds, IsViewer
<1>2. IsList(<<>>) /\ Len(<<>>) = 0
  BY DEF IsList
<1>3. ViewerHolds'
  BY <1>1, <1>2 DEF ViewerHolds, AllOfLog, Rising
<1>4. LogHolds'
  BY DEF LogHolds
<1>5. CASE client'.net = client.net
  <2>1. SentTo(client') = SentTo(client)
    BY <1>1, <1>5 DEF SentTo
  <2>2. ASSUME ~told, NEW i \in 1 .. Len(log), log[i].dur, i > expired, since < log[i].n,
               log[i].n <= SentTo(client)
        PROVE  i \in got \/ \E k \in 1 .. Len(client.net) : client.net[k].id = i
    BY <2>2 DEF Caught
  <2>3. Caught'
    BY <1>1, <1>5, <2>1, <2>2 DEF Caught
  <2> QED
    BY <1>1, <1>3, <1>4, <2>3
<1>6. CASE client'.net = <<>>
  <2>1. SentTo(client') = client.last
    BY <1>1, <1>2, <1>6 DEF SentTo
  <2>2. ASSUME ~told, NEW i \in 1 .. Len(log), log[i].dur, i > expired, since < log[i].n,
               log[i].n <= client.last
        PROVE  i \in got
    <3> DEFINE net == client.net
    <3>1. log[i].n \in Nat /\ client.last \in Nat
      BY DEF LogHolds, LogIs, ViewerHolds
    <3>2. \A k \in 1 .. Len(net) : OfLog(log, net[k]) /\ client.last < net[k].n
      BY DEF ViewerHolds, AllOfLog
    <3>3. \A k \in 1 .. Len(net) : net[k].n \in Nat
      BY <3>2 DEF OfLog, LogHolds, LogIs
    <3>4. client.last <= SentTo(client) /\ SentTo(client) \in Nat
      <4>1. Len(net) \in Nat
        BY DEF ViewerHolds, AllOfLog, IsList
      <4>2. Len(net) # 0 => Len(net) \in 1 .. Len(net)
        BY <4>1
      <4> QED
        BY <3>1, <3>2, <3>3, <4>2 DEF SentTo
    <3>5. i \in got \/ \E k \in 1 .. Len(net) : net[k].id = i
      <4>1. log[i].n <= SentTo(client)
        BY <2>2, <3>1, <3>4
      <4> QED
        BY <2>2, <4>1 DEF Caught
    <3>6. ASSUME NEW k \in 1 .. Len(net), net[k].id = i PROVE FALSE
      <4>1. net[k] = log[i]
        BY <3>2, <3>6 DEF OfLog
      <4> QED
        BY <2>2, <3>1, <3>2, <4>1
    <3> QED
      BY <3>5, <3>6
  <2>3. Caught'
    BY <1>1, <2>1, <2>2 DEF Caught
  <2> QED
    BY <1>1, <1>3, <1>4, <2>3
<1> QED
  BY <1>5, <1>6, <1>1

LEMMA LeaveKeeps == ASSUME JournalSound, Unsubscribe \/ Disconnect PROVE JournalSound'
<1>1. /\ UNCHANGED <<buf, queue, zombie, disk, log, got, since, told, expired>>
      /\ \/ client' = [client EXCEPT !.sub = FALSE]
         \/ client' = [client EXCEPT !.sub = FALSE, !.net = <<>>]
  BY DEF Unsubscribe, Disconnect, server
<1>2. LogHolds' /\ ViewerHolds' /\ Caught' /\ client'.last = client.last
  BY <1>1, ClientLeaves DEF JournalSound
<1>3. ASSUME NEW q, NEW es, NEW m, Kept(q, es, m) PROVE Kept(q, es, m)'
  BY <1>1, <1>2, <1>3 DEF Kept, Numbered
<1> QED
  BY <1>1, <1>2, <1>3 DEF JournalSound, BufferTells

(* A write completes: those left lead to the same. *)
LEMMA WrittenLeads ==
  ASSUME IsFiles(disk), ~disk.open, NEW q, NEW es, NEW m, Kept(q, es, m), q # <<>>,
         disk' = Written(Head(q)), UNCHANGED <<log, client, expired>>
  PROVE  /\ IsFiles(disk') /\ ~disk'.open
         /\ WritesLead(Tail(q), <<disk'.journal, disk'.meta>>, <<es, m>>)
         /\ JournalTells(log', expired', es) /\ Numbered(m)'
<1> DEFINE t == Head(q)
           f == <<disk.journal, disk.meta>>
<1>1. IsWrite(t) /\ WritesLead(Tail(q), AfterWrite(t, f), <<es, m>>)
  BY LeadsAfterFirst DEF Kept
<1>2. disk' = Written(t)
  OBVIOUS
<1> HIDE DEF t
<1>3. /\ IsFiles(disk') /\ ~disk'.open
      /\ <<disk'.journal, disk'.meta>> = AfterWrite(t, f)
  <2>1. CASE t.kind = "meta"
    <3>1. disk' = [disk EXCEPT !.meta = t.n]
      BY <1>2, <2>1 DEF Written
    <3> QED
      BY <2>1, <3>1 DEF IsFiles, AfterWrite
  <2>2. CASE t.kind = "append"
    <3>1. disk' = [disk EXCEPT !.journal = Append(disk.journal, t.e), !.open = FALSE]
      BY <1>2, <2>2 DEF Written, LinesWith
    <3> QED
      BY <2>2, <3>1 DEF IsFiles, AfterWrite
  <2>3. CASE t.kind = "rewrite"
    <3>1. disk' = [disk EXCEPT !.journal = t.es, !.open = FALSE]
      BY <1>2, <2>3 DEF Written
    <3> QED
      BY <2>3, <3>1 DEF IsFiles, AfterWrite
  <2> QED
    BY <1>1, <2>1, <2>2, <2>3 DEF IsWrite
<1>4. JournalTells(log', expired', es) /\ Numbered(m)'
  BY DEF Kept, Numbered
<1> QED
  BY <1>1, <1>3, <1>4

LEMMA PersistKeeps == ASSUME JournalSound, Persist \/ PersistZombie PROVE JournalSound'
<1>1. /\ LogHolds /\ ViewerHolds /\ Caught /\ IsFiles(disk) /\ ~disk.open
      /\ UNCHANGED <<buf, client, log, got, since, told, expired>>
  BY DEF JournalSound, Persist, PersistZombie
<1>2. LogHolds' /\ ViewerHolds' /\ Caught'
  BY <1>1 DEF LogHolds, ViewerHolds, Caught
<1>3. CASE Persist
  <2>1. /\ queue # <<>> /\ queue' = Tail(queue) /\ disk' = Written(Head(queue)) /\ zombie' = zombie
    BY <1>3 DEF Persist
  <2>2. buf.on /\ zombie = <<>> /\ BufferTells(buf, queue)
    BY <2>1 DEF JournalSound
  <2>3. PICK q, es, m : q = queue /\ es = buf.durable /\ m = buf.seq
    OBVIOUS
  <2>4. Kept(q, es, m)
    BY <2>2, <2>3 DEF BufferTells
  <2>5. /\ IsFiles(disk') /\ ~disk'.open
        /\ WritesLead(Tail(q), <<disk'.journal, disk'.meta>>, <<es, m>>)
        /\ JournalTells(log', expired', es) /\ Numbered(m)'
    BY <1>1, <2>1, <2>3, <2>4, WrittenLeads
  <2>6. Numbered(buf.seq)'
    BY <1>1, <2>3, <2>5 DEF Numbered
  <2>7. BufferTells(buf, queue)'
    BY <1>1, <2>1, <2>2, <2>3, <2>5, <2>6 DEF BufferTells, Kept
  <2> QED
    BY <1>1, <1>2, <2>1, <2>2, <2>5, <2>7 DEF JournalSound
<1>4. CASE PersistZombie
  <2>1. /\ zombie # <<>> /\ zombie' = Tail(zombie) /\ disk' = Written(Head(zombie)) /\ queue' = queue
    BY <1>4 DEF PersistZombie
  <2>2. ~buf.on /\ queue = <<>>
    BY <2>1 DEF JournalSound
  <2>3. PICK es, m : Kept(zombie, es, m)
    BY <2>2 DEF JournalSound
  <2>4. PICK q : q = zombie
    OBVIOUS
  <2>5. /\ IsFiles(disk') /\ ~disk'.open
        /\ WritesLead(Tail(q), <<disk'.journal, disk'.meta>>, <<es, m>>)
        /\ JournalTells(log', expired', es) /\ Numbered(m)'
    BY <1>1, <2>1, <2>3, <2>4, WrittenLeads
  <2>6. Kept(zombie, es, m)'
    BY <2>1, <2>4, <2>5 DEF Kept
  <2> QED
    BY <1>1, <1>2, <2>1, <2>2, <2>5, <2>6 DEF JournalSound
<1> QED
  BY <1>3, <1>4

(* The buffer is dropped, and its writes go on. *)
LEMMA EvictKeeps == ASSUME JournalSound, Evict PROVE JournalSound'
<1>1. /\ buf.on /\ buf' = NoBuffer /\ queue' = <<>> /\ zombie' = queue
      /\ UNCHANGED <<disk, client, log, got, since, told, expired>>
  BY DEF Evict
<1>2. LogHolds' /\ ViewerHolds' /\ Caught' /\ IsFiles(disk)' /\ ~disk'.open
  BY <1>1 DEF JournalSound, LogHolds, ViewerHolds, Caught, IsFiles
<1>3. ~buf'.on
  BY <1>1 DEF NoBuffer
<1>4. PICK es, m : es = buf.durable /\ m = buf.seq
  OBVIOUS
<1>5. Kept(queue, es, m)
  BY <1>1, <1>4 DEF JournalSound, BufferTells
<1>6. Kept(zombie, es, m)'
  BY <1>1, <1>5 DEF Kept, Numbered
<1> QED
  BY <1>1, <1>2, <1>3, <1>6 DEF JournalSound

(* The process ends when every write is done; else a write is lost. *)
LEMMA StopKeeps ==
  ASSUME JournalSound, ~lossy', NEW files, Stop(files), queue = <<>> => files = disk
  PROVE  JournalSound'
<1>1. /\ buf' = NoBuffer /\ queue' = <<>> /\ zombie' = <<>> /\ disk' = files
      /\ client' = [client EXCEPT !.sub = FALSE, !.net = <<>>]
      /\ lossy' = (lossy \/ queue # <<>> \/ zombie # <<>> \/ buf.disabled)
      /\ UNCHANGED <<log, got, since, told, expired>>
  BY DEF Stop
<1>2. queue = <<>> /\ zombie = <<>> /\ disk' = disk
  BY <1>1
<1>3. LogHolds' /\ ViewerHolds' /\ Caught' /\ client'.last = client.last
  BY <1>1, ClientLeaves DEF JournalSound
<1>4. PICK es, m : Kept(<<>>, es, m)
  BY <1>2 DEF JournalSound, BufferTells
<1>5. Kept(zombie, es, m)'
  BY <1>1, <1>2, <1>3, <1>4 DEF Kept, Numbered
<1>6. ~buf'.on /\ IsFiles(disk)' /\ ~disk'.open
  BY <1>1, <1>2 DEF NoBuffer, JournalSound, IsFiles
<1> QED
  BY <1>1, <1>2, <1>3, <1>5, <1>6 DEF JournalSound

(* An update that grows too old is asked of nobody. *)
LEMMA AgeKeeps == ASSUME JournalSound, Age PROVE JournalSound'
<1>1. /\ expired' = expired + 1
      /\ UNCHANGED <<buf, queue, zombie, disk, client, log, got, since, told>>
  BY DEF Age, server
<1>2. expired \in Nat /\ expired' \in Nat /\ Len(log) \in Nat
  BY <1>1 DEF JournalSound, LogHolds, LogIs, IsList
<1>3. \A i \in 1 .. Len(log) : i > expired' => i > expired
  BY <1>1, <1>2
<1>4. LogHolds' /\ ViewerHolds' /\ Caught'
  BY <1>1, <1>2, <1>3 DEF JournalSound, LogHolds, ViewerHolds, Caught
<1>5. ASSUME NEW es, JournalTells(log, expired, es) PROVE JournalTells(log', expired', es)
  BY <1>1, <1>3, <1>5 DEF JournalTells
<1>6. ASSUME NEW q, NEW es, NEW m, Kept(q, es, m) PROVE Kept(q, es, m)'
  BY <1>1, <1>5, <1>6 DEF Kept, Numbered
<1> QED
  BY <1>1, <1>4, <1>6 DEF JournalSound, BufferTells, IsFiles

LEMMA JournalStep == JournalInv /\ [Next]_vars => JournalInv'
<1> SUFFICES ASSUME JournalInv, [Next]_vars, ~lossy' PROVE JournalSound'
  BY DEF JournalInv
<1>1. CASE UNCHANGED vars
  <2>1. UNCHANGED <<buf, queue, zombie, disk, client, log, got, since, told, lossy, expired>>
    BY <1>1 DEF vars, server
  <2>2. JournalSound
    BY <2>1 DEF JournalInv
  <2> QED
    BY <2>1, <2>2 DEF JournalSound, LogHolds, ViewerHolds, Caught, BufferTells, Kept, Numbered
<1>2. ASSUME Next PROVE ~lossy
  <2>1. lossy => lossy'
    BY <1>2 DEF Next, Push, Subscribe, Receive, Unsubscribe, Disconnect, Persist, PersistFails,
      PersistZombie, EvictEnded, EvictOldest, Evict, Crash, Close, Stop, Age
  <2> QED
    BY <2>1
<1>3. ASSUME Next PROVE JournalSound
  BY <1>2, <1>3 DEF JournalInv
<1>4. ASSUME NEW dur \in BOOLEAN, NEW slow \in BOOLEAN, Next, Push(dur, slow) PROVE JournalSound'
  BY <1>3, <1>4, PushKeeps
<1>5. ASSUME Next, Crash PROVE JournalSound'
  <2>1. PICK files \in Torn : Stop(files)
    BY <1>5 DEF Crash
  <2>2. queue = <<>> => files = disk
    BY DEF Torn
  <2> QED
    BY <1>3, <1>5, <2>1, <2>2, StopKeeps
<1>6. ASSUME Next, Close PROVE JournalSound'
  <2>1. PICK files : files = disk
    OBVIOUS
  <2> QED
    BY <1>3, <1>6, <2>1, StopKeeps DEF Close
<1>7. ASSUME Next, PersistFails PROVE FALSE
  BY <1>7 DEF PersistFails
<1>8. ASSUME Next, Subscribe \/ Receive \/ Unsubscribe \/ Disconnect \/ Persist \/ PersistZombie
                   \/ EvictEnded \/ EvictOldest \/ Age
      PROVE  JournalSound'
  BY <1>3, <1>8, SubscribeKeeps, ReceiveKeeps, LeaveKeeps, PersistKeeps, EvictKeeps, AgeKeeps
  DEF EvictEnded, EvictOldest
<1> QED
  BY <1>1, <1>4, <1>5, <1>6, <1>7, <1>8 DEF Next

LEMMA JournalKept == JournalInv => JournalFaithful
<1> SUFFICES ASSUME JournalInv PROVE JournalFaithful
  OBVIOUS
<1>1. CASE lossy
  BY <1>1 DEF JournalFaithful, NumbersUnique, ReplayComplete, FilesFollowBuffer
<1>2. CASE JournalSound
  <2>1. DOMAIN log = 1 .. Len(log) /\ LogHolds /\ ViewerHolds /\ Caught
    BY <1>2 DEF JournalSound, LogHolds, LogIs, IsList
  <2>2. NumbersUnique
    BY <2>1 DEF NumbersUnique, LogHolds, LogIs, Rising
  <2>3. ReplayComplete
    <3> SUFFICES ASSUME ~told, NEW i \in 1 .. Len(log), log[i].dur, i > expired, i \notin got,
                        since < log[i].n, log[i].n <= client.last
                 PROVE  FALSE
      BY <2>1 DEF ReplayComplete, Missed
    <3> DEFINE net == client.net
    <3>1. log[i].n \in Nat /\ client.last \in Nat
      BY <2>1 DEF LogHolds, LogIs, ViewerHolds
    <3>2. \A k \in 1 .. Len(net) : OfLog(log, net[k]) /\ client.last < net[k].n
      BY <2>1 DEF ViewerHolds, AllOfLog
    <3>3. \A k \in 1 .. Len(net) : net[k].n \in Nat
      BY <2>1, <3>2 DEF OfLog, LogHolds, LogIs
    <3>4. log[i].n <= SentTo(client)
      <4>1. Len(net) \in Nat
        BY <2>1 DEF ViewerHolds, AllOfLog, IsList
      <4>2. Len(net) # 0 => Len(net) \in 1 .. Len(net)
        BY <4>1
      <4> QED
        BY <3>1, <3>2, <3>3, <4>2 DEF SentTo
    <3>5. PICK k \in 1 .. Len(net) : net[k].id = i
      BY <2>1, <3>4 DEF Caught
    <3>6. net[k] = log[i]
      BY <3>2, <3>5 DEF OfLog
    <3> QED
      BY <3>1, <3>2, <3>6
  <2>4. FilesFollowBuffer
    <3> SUFFICES ASSUME buf.on, queue = <<>> PROVE disk.journal = buf.durable /\ disk.meta = buf.seq
      BY DEF FilesFollowBuffer
    <3>1. WritesLead(<<>>, <<disk.journal, disk.meta>>, <<buf.durable, buf.seq>>)
      BY <1>2 DEF JournalSound, BufferTells, Kept
    <3>2. <<disk.journal, disk.meta>> = <<buf.durable, buf.seq>>
      BY <3>1, LeadsDone
    <3> QED
      BY <3>2
  <2> QED
    BY <2>2, <2>3, <2>4 DEF JournalFaithful
<1> QED
  BY <1>1, <1>2 DEF JournalInv

(* While no write was lost or late, numbers are given once, a client that
   returns is sent or told of all it lacks, and the files end as what the buffer
   holds (JournalFaithful of Replay), for any sizes of the ring and the journal,
   any number of updates, evictions, crashes, and any updates too old to keep. *)
THEOREM JournalIsFaithful == Spec => []JournalFaithful
  BY JournalStart, JournalStep, JournalKept, PTL DEF Spec
=============================================================================
