----------------------------- MODULE MCSharing ------------------------------
(***************************************************************************)
(* What edges share through the platform, epoch keys, the grants and the   *)
(* candidates of a context repository, and plans; what a repository says   *)
(* of the context it uses and what a node is given of it; and what the     *)
(* clients of the daemon's server are shown.  They share no state; the     *)
(* initial state chooses which of them takes steps.                        *)
(***************************************************************************)
EXTENDS CryptoEpochs, ContextSharing, PlanSaves, RepoContracts, ContextNodes,
  ClientConnections

\* One session has updates, the other none.
OneStreams == [s \in Streams |-> IF s = "s" THEN 4 ELSE 0]

\* One process synchronises each edge.
OnePerEdge == {<<1, 1>>, <<2, 1>>}

\* A request by the plan's id, one by nothing, and one without a grant.
PlanRequests == {[by |-> {"plan"}, granted |-> TRUE], [by |-> {}, granted |-> TRUE],
                 [by |-> Names, granted |-> FALSE]}
PlanEvent(kind, plan, marked, planned) ==
  [kind |-> kind, plan |-> plan, marked |-> marked, planned |-> planned]
SeenEvents == {PlanEvent("tool", "p", "no", TRUE), PlanEvent("stop", "q", "well", FALSE),
               PlanEvent("stop", "q", "badly", FALSE)}

\* Files of the working directory, of its parent and of two children: none,
\* one that is no resource file, or one provider; and a child's that is bad.
VaultNamed(v) == [kind |-> "vault", of |-> v, base |-> "x"]
RepoNamed(r) == [kind |-> "github", of |-> r, base |-> "x"]
ContractFile(what, vis) == File("config", <<Entry(what, <<"x", 1>>, TRUE, FALSE)>>, << >>, vis)
PlainFile == File("plain", << >>, << >>, "none")
ContractLayouts ==
  {<<Here, "yaml">> :> h[1] @@ <<Here, "json">> :> h[2] @@ <<Up, "yaml">> :> h[3]
     @@ <<1, "yaml">> :> k[1] @@ <<2, "yaml">> :> k[2] @@ [p \in Paths |-> NoFile] :
   h \in {<<NoFile, NoFile, NoFile>>, <<PlainFile, NoFile, NoFile>>,
          <<ContractFile(VaultNamed("v"), "none"), NoFile, NoFile>>,
          <<NoFile, ContractFile(VaultNamed("w"), "none"), NoFile>>,
          <<NoFile, NoFile, ContractFile(RepoNamed("r"), "none")>>,
          <<NoFile, PlainFile, ContractFile(VaultNamed("v"), "none")>>},
   k \in {<<NoFile, NoFile>>, <<ContractFile(VaultNamed("w"), "team"),
          ContractFile(RepoNamed("r"), "private")>>,
          <<NoFile, File("bad", << >>, << >>, "none")>>}}
AttachWhat == {VaultNamed("v"), VaultNamed("w"), RepoNamed("r")}
AttachHow == {[named |-> v[1], required |-> v[2], guide |-> v[3]] :
                v \in {<<FALSE, TRUE, FALSE>>, <<TRUE, TRUE, TRUE>>, <<FALSE, FALSE, TRUE>>}}

\* Nodes that ask for a source twice, for one they name, and for memory.
Ref(r, required, cap) == [ref |-> r, required |-> required, cap |-> cap]
SourceA == <<"a", "id">>
Request(defaults, include, exclude, expand, max, node) ==
  [defaults |-> defaults, include |-> include, exclude |-> exclude, expand |-> expand,
   max |-> max, contextNode |-> node]
AskedContext ==
  {Request(<<Ref(SourceA, TRUE, v[1]), Ref(r, FALSE, 0)>>, << >>, v[3], FALSE, v[2], FALSE) :
     r \in Refs, v \in {<<1, 0, {}>>, <<0, 1, {}>>, <<0, 0, {SourceA}>>}}
  \cup {Request(<<Ref(SourceA, FALSE, 0)>>, <<Ref(r, TRUE, 0)>>, {}, x, 0, FALSE) :
          r \in Refs, x \in BOOLEAN}
  \cup {Request(<<Ref(r, req, 1)>>, << >>, {}, FALSE, 0, TRUE) : r \in Refs, req \in BOOLEAN}
  \cup {Request(<< >>, << >>, {}, FALSE, 0, TRUE)}

VARIABLE part  \* the part that takes steps

partVars == <<part, epochVars, sharingVars, grantVars, reviewVars, planVars, contractVars,
              contextVars, connectionVars, pagesVars>>

\* A part at rest starts in one state.
PartsInit ==
  /\ part \in {"epochs", "sharing", "grants", "review", "plans", "contracts", "context",
              "connections", "pages"}
  /\ EpochInit /\ SharingInit /\ PlansInit /\ ConnectionsInit
  /\ GrantsInit /\ (part = "grants" \/ \A m \in Pulling : ~members[m].active)
  /\ ReviewInit /\ (part = "review" \/ posted = << >>)
  /\ ContractInit /\ (part = "contracts" \/
       (readdir = <<1, 2>> /\ contracts = [p \in Paths |-> NoFile]))
  /\ ContextInit /\ (part = "context" \/ ~produced)
  /\ PagesInit /\ (part = "pages" \/ messages = <<1>>)

Rests(p, v) == IF part = p THEN TRUE ELSE UNCHANGED v

Only(p) ==
  /\ part = p /\ UNCHANGED part
  /\ Rests("epochs", epochVars) /\ Rests("sharing", sharingVars) /\ Rests("grants", grantVars)
  /\ Rests("review", reviewVars) /\ Rests("plans", planVars)
  /\ Rests("contracts", contractVars) /\ Rests("context", contextVars)
  /\ Rests("connections", connectionVars) /\ Rests("pages", pagesVars)

PartsNext ==
  \/ Only("epochs") /\ EpochNext
  \/ Only("sharing") /\ SharingNext
  \/ Only("grants") /\ GrantsNext
  \/ Only("review") /\ ReviewNext
  \/ Only("plans") /\ PlansNext
  \/ Only("contracts") /\ ContractNext
  \/ Only("context") /\ ContextNext
  \/ Only("connections") /\ ConnectionsNext
  \/ Only("pages") /\ PagesNext

\* The parts at rest are the same in every state: states are told apart by the
\* one that takes steps.
Stepping ==
  <<part, CASE part = "epochs" -> epochVars [] part = "sharing" -> sharingVars
            [] part = "grants" -> grantVars [] part = "review" -> reviewVars
            [] part = "plans" -> planVars [] part = "contracts" -> contractVars
            [] part = "context" -> contextVars
            [] part = "connections" -> connectionVars [] part = "pages" -> pagesVars>>

PartsSpec == PartsInit /\ [][PartsNext]_partVars

(* The part that takes steps keeps to its types and caps. *)
SharingTypesOK ==
  CASE part = "epochs" -> EpochTypeOK [] part = "sharing" -> SharingTypeOK
    [] part = "grants" -> GrantsTypeOK [] part = "review" -> ReviewTypeOK
    [] part = "plans" -> PlansTypeOK [] part = "contracts" -> ContractTypeOK
    [] part = "context" -> ContextTypeOK
    [] part = "connections" -> ConnectionsTypeOK
    [] part = "pages" -> PagesTypeOK

(* What an edge holds keys for it can open: epoch keys that are announced are
   held, what devices and teams hand on to each other is what was pinned, and
   a plan that is stored is stored once, with a key that opens it.  Each is
   checked of the part that takes steps. *)
KeysHeld ==
  CASE part = "epochs" -> EpochKeyHeld [] part = "sharing" -> SharedEpochsHold
    [] part = "plans" -> PlansHold [] OTHER -> TRUE

(* What edges share of a context repository: grants follow the queue of
   requests, and the edges agree on the candidates that were decided; and of
   a repository: what is attached to its contract is in it.  Each is checked
   of the part that takes steps. *)
ContextShared ==
  CASE part = "grants" -> ContextGrantsHold [] part = "review" -> ReviewsHold
    [] part = "contracts" -> ContractsHold [] OTHER -> TRUE

(* A client of the daemon's server sees whole streams and whole pages. *)
ClientsServed ==
  CASE part = "connections" -> ConnectionsHold [] part = "pages" -> PagesTell [] OTHER -> TRUE
=============================================================================
