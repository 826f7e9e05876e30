---------------------------- MODULE ContextNodes -----------------------------
(***************************************************************************)
(* How a prompt or context node of a workflow gets its context             *)
(* (workflows/context-node-resolver.ts, platform-context-client.ts): the   *)
(* references in force for the node, the sources they or the platform's    *)
(* policies name, what is found there and in the session's memory and      *)
(* mailbox, what of it the prompt is given, and the receipts the run and   *)
(* the platform keep of that.  A failed node may be tried again.           *)
(***************************************************************************)
EXTENDS Integers, Sequences, FiniteSets, SequencesExt

CONSTANTS
  Sources,          \* sources of the run's resource manifest
  ContextRequests,  \* what workflows and nodes may ask for
  MaxContextTries

VARIABLES
  asking,    \* the attempt: [pc, request, policies, sources, left]
  items,     \* what was found, in the order it will be cut
  selected,  \* what the prompt is given
  runReceipts,  \* run.contextReceipts of the node
  reported,  \* what the platform was told, by source
  produced,  \* whether the node an output is asked of has completed
  tries

contextVars == <<asking, items, selected, runReceipts, reported, produced, tries>>

\* References: to a source by its name or by another spelling of it, to a file
\* in a repository of which a source is made up, to the output of a node, to
\* memory and mailbox, and to nothing there is.
Spellings == Sources \X {"id", "uri"}
Refs == Spellings \cup {<<"git", "uri">>, <<"out", "output">>, <<"memory", "uri">>,
                        <<"mailbox", "uri">>, <<"nowhere", "id">>}
Named(ref) == ref[1]
ContextIdle == [pc |-> "idle", request |-> << >>, policies |-> {}, sources |-> << >>, left |-> {}]

ContextInit ==
  /\ asking = ContextIdle /\ items = << >> /\ selected = << >> /\ runReceipts = {}
  /\ reported = [s \in Sources \cup {"git"} |-> << >>]
  /\ produced \in BOOLEAN /\ tries = 0

ContextGoes(pc) == asking' = [asking EXCEPT !.pc = pc]
Fails == ContextGoes("failed")

\* workflowProducedContextRef: only a completed node's output is one.
IsProduced(r) == Named(r.ref) = "out" /\ produced
IsMemory(r) == Named(r.ref) = "memory"
IsMailbox(r) == Named(r.ref) = "mailbox"

\* effectivePromptContext: the node's own references or the workflow's,
\* without the excluded ones; they are compared as they are spelled.
Effective(q) ==
  LET include == IF q.include = << >> THEN q.defaults ELSE q.include
  IN SelectSeq(include, LAMBDA r : r.ref \notin q.exclude)

\* References of the node that the workflow does not have.
Expanded(q) ==
  {r \in ToSet(Effective(q)) : ~IsProduced(r)
                                 /\ \A d \in ToSet(q.defaults) : d.ref # r.ref}
ExpandsUnasked(q) == q.defaults # << >> /\ q.include # << >> /\ ~q.expand /\ Expanded(q) # {}

\* An attempt at the node: nothing is asked, or too much, or the references
\* are to be resolved.
Attempts(q) ==
  /\ asking.pc \in {"idle", "failed"} /\ tries < MaxContextTries /\ tries' = tries + 1
  /\ asking.request \in {<< >>, q} /\ items' = << >> /\ selected' = << >>
  /\ asking' = [ContextIdle EXCEPT !.request = q,
       !.pc = CASE ExpandsUnasked(q) -> "failed"
                [] Effective(q) = << >> /\ ~q.contextNode -> "done"
                [] OTHER -> "policy"]
  /\ UNCHANGED <<runReceipts, reported, produced>>

\* A context node takes every reference for a source's.
ProviderRefs(q) ==
  SelectSeq(Effective(q), LAMBDA r :
    q.contextNode \/ (~IsProduced(r) /\ ~IsMemory(r) /\ ~IsMailbox(r)))

\* matchesProviderRef.
SourceMatches(s, r) == Named(r.ref) = s
IsSource(r) == Named(r.ref) \in Sources \cup {"git"}

\* contextRefProviders: each source once, in the order of the references:
\* those of the manifest, then those made up of a git reference.  A context
\* node has selectProviders alone: none is made up, and without a reference
\* it is given all there are.
RefSources(q) ==
  LET refs == ProviderRefs(q)
      Firsts(P(_)) ==
        LET at == {i \in DOMAIN refs : P(refs[i]) /\ \A j \in 1 .. i - 1 :
                     Named(refs[j].ref) # Named(refs[i].ref)}
        IN [k \in 1 .. Cardinality(at) |->
              Named(refs[CHOOSE i \in at : Cardinality({j \in at : j <= i}) = k].ref)]
      known == Firsts(LAMBDA r : Named(r.ref) \in Sources)
  IN CASE ~q.contextNode -> known \o Firsts(LAMBDA r : Named(r.ref) = "git")
       [] q.contextNode /\ refs = << >> -> SetToSeq(Sources)
       [] OTHER -> known

\* platformPolicyProviders: the sources the policies name, whatever the
\* references do.
PolicySources(policies) == SetToSeq(policies)

\* missingRequiredRefs.
Missing(q, sources) ==
  \E r \in ToSet(ProviderRefs(q)) : r.required /\ \A s \in ToSet(sources) : ~SourceMatches(s, r)

Sourced(policies, sources) ==
  /\ asking' = [asking EXCEPT !.policies = policies, !.sources = sources,
       !.pc = IF Missing(asking.request, sources) THEN "failed" ELSE "search"]
  /\ UNCHANGED <<items, selected, runReceipts, reported, produced, tries>>

\* resolveNodePolicy: the platform's policies; none without a target, for
\* another runtime target or for an answer of another schema.
PoliciesCome(policies) ==
  /\ asking.pc = "policy" /\ policies # {} /\ ~asking.request.contextNode
  /\ Sourced(policies, PolicySources(policies))
NoPolicies ==
  asking.pc = "policy" /\ Sourced({}, RefSources(asking.request))

\* The request is refused or times out, a source may not be used, a search or
\* a required retrieval throws.
ContextThrows ==
  /\ asking.pc \in {"policy", "search", "memory", "mailbox"} /\ Fails
  /\ UNCHANGED <<items, selected, runReceipts, reported, produced, tries>>

\* An item: where it came from, and whose it is said to be.
Item(from, by) == [from |-> from, by |-> by]

\* refMaxItemsForProvider: the cap of the first reference that matches.
Cap(s) ==
  LET refs == Effective(asking.request)
      at == {i \in DOMAIN refs : SourceMatches(s, refs[i])}
      cap == IF at = {} THEN 0 ELSE refs[CHOOSE i \in at : \A j \in at : i <= j].cap
  IN IF cap = 0 THEN 2 ELSE cap

Outputs ==
  IF asking.request.contextNode THEN << >>
  ELSE [i \in 1 .. Len(SelectSeq(Effective(asking.request), IsProduced)) |-> Item("out", "out")]

\* Every source in turn, those that cannot be searched left out; each gives
\* some items (here up to two), of which the cap is kept.
Searches ==
  /\ asking.pc = "search"
  /\ \E found \in [ToSet(asking.sources) -> 0 .. 2] :
       items' = Outputs \o FlattenSeq([i \in DOMAIN asking.sources |->
         LET s == asking.sources[i]
         IN [k \in 1 .. (IF found[s] < Cap(s) THEN found[s] ELSE Cap(s)) |-> Item(s, s)]])
  /\ ContextGoes("memory")
  /\ UNCHANGED <<selected, runReceipts, reported, produced, tries>>

AsksContext(service) ==
  ~asking.request.contextNode
    /\ \E r \in ToSet(Effective(asking.request)) : Named(r.ref) = service

\* What is found in memory is said to be the source's the platform names; of
\* the mailbox only messages with a text are items.
MemoryItems == {<< >>} \cup {<<Item("memory", s)>> : s \in Sources \cup {"memory"}}
MailboxItems == {<< >>, <<Item("mailbox", "mailbox")>>}

\* resolveSessionMemoryContext: a retrieval that fails though it was not required, or that
\* has no result though it was, is skipped.
Remembers ==
  /\ asking.pc = "memory" /\ ContextGoes("mailbox")
  /\ IF AsksContext("memory")
     THEN \E found \in MemoryItems : items' = items \o found
     ELSE UNCHANGED items
  /\ UNCHANGED <<selected, runReceipts, reported, produced, tries>>

\* Variant for mutation testing: the receipts of earlier attempts are kept.
ReceiptsAdded(found) == runReceipts \cup ToSet(found)

\* The receipts of the run for the node: those there were are replaced.
Receipts(found) == ToSet(found)

\* resolveSessionMailboxContext, and the cut at the node's cap.
ReadsMailbox ==
  /\ asking.pc = "mailbox"
  /\ \E found \in IF AsksContext("mailbox") THEN MailboxItems ELSE {<< >>} :
       LET all == items \o found
           max == asking.request.max
           kept == IF max = 0 \/ Len(all) <= max THEN all ELSE SubSeq(all, 1, max)
       IN items' = all /\ selected' = kept /\ runReceipts' = Receipts(kept)
  /\ asking' = [asking EXCEPT !.left = asking.policies,
                               !.pc = IF asking.policies = {} THEN "done" ELSE "report"]
  /\ UNCHANGED <<reported, produced, tries>>

\* The items whose source the policy matches.
PolicyItems(s) == SelectSeq(selected, LAMBDA i : i.by = s)

\* reportCustomerManagedReceipt, a policy after the other.
ReportsReceipt(s) ==
  /\ asking.pc = "report" /\ s \in asking.left
  /\ reported' = [reported EXCEPT ![s] = PolicyItems(s)]
  /\ asking' = [asking EXCEPT !.left = @ \ {s}, !.pc = IF asking.left = {s} THEN "done" ELSE @]
  /\ UNCHANGED <<items, selected, runReceipts, produced, tries>>

\* It throws, taken by the platform or not.
ReportThrows(s) ==
  /\ asking.pc = "report" /\ s \in asking.left /\ Fails
  /\ reported' \in {reported, [reported EXCEPT ![s] = PolicyItems(s)]}
  /\ UNCHANGED <<items, selected, runReceipts, produced, tries>>

ContextNext ==
  \/ \E q \in ContextRequests : Attempts(q)
  \/ \E policies \in SUBSET (Sources \cup {"git"}) : PoliciesCome(policies)
  \/ NoPolicies \/ ContextThrows \/ Searches \/ Remembers \/ ReadsMailbox
  \/ \E s \in Sources \cup {"git"} : ReportsReceipt(s) \/ ReportThrows(s)

ContextSpec == ContextInit /\ [][ContextNext]_contextVars

ContextTypeOK ==
  /\ asking.pc \in {"idle", "policy", "search", "memory", "mailbox", "report", "done", "failed"}
  /\ asking.policies \subseteq Sources \cup {"git"} /\ asking.left \subseteq asking.policies
  /\ tries \in 0 .. MaxContextTries

(* A prompt is given only what was asked for: an item is a source's that an
   unexcluded reference of the node names, or the memory's, the mailbox's or
   a node's output if one is asked for; no source gives more than its first
   reference allows, and all of them together no more than the node does.
   Where the platform has policies for the node, they choose the sources in
   place of the references, excluded or not. *)
PromptsBounded ==
  LET q == asking.request
  IN asking.pc = "done" /\ Effective(q) # << >> =>
       /\ \A i \in ToSet(selected) : q.contextNode \/
            (asking.policies # {} /\ i.from \in asking.policies) \/
            \E r \in ToSet(Effective(q)) : Named(r.ref) = i.from /\ r.ref \notin q.exclude
       /\ q.max # 0 => Len(selected) <= q.max
       /\ \A s \in Sources : \A r \in ToSet(Effective(q)) :
            (r.cap # 0 /\ \A o \in ToSet(Effective(q)) : SourceMatches(s, o) => o.cap = r.cap)
              => Len(SelectSeq(selected, LAMBDA i : i.from = s)) <= r.cap
       /\ (q.defaults # << >> /\ ~q.expand /\ asking.policies = {}) =>
            \A i \in ToSet(selected) :
              i.from = "out" \/ \E d \in ToSet(q.defaults) : Named(d.ref) = i.from

(* A node that goes on has looked into every source it required. *)
RequiredSearched ==
  asking.pc = "done" =>
    \A r \in ToSet(Effective(asking.request)) :
      r.required /\ IsSource(r) => \E s \in ToSet(asking.sources) : SourceMatches(s, r)

(* The receipts of a node that goes on are of what its prompt was given, in
   the run and, source by source, at the platform: also after attempts that
   failed having reported some of theirs. *)
ReceiptsTell ==
  asking.pc = "done" /\ Effective(asking.request) # << >> =>
    /\ runReceipts = ToSet(selected)
    /\ \A s \in asking.policies :
         Len(reported[s]) = Len(SelectSeq(selected, LAMBDA i : i.by = s))

ContextHolds == PromptsBounded /\ RequiredSearched /\ ReceiptsTell
=============================================================================
