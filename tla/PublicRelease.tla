---------------------------- MODULE PublicRelease ----------------------------
(***************************************************************************)
(* The public release: DatasetPreparationService computes what a version   *)
(* needs to be shown, PublicReleaseService makes it the one that new demo  *)
(* sessions are pinned to, and every session goes on being served from the *)
(* version that was public when it began.                                  *)
(*                                                                         *)
(* Publishing compares and sets the public version in one transaction      *)
(* under an advisory lock, with the idempotency receipt of the request; a  *)
(* failed request looks the receipt up before it reports its failure.      *)
(* Readiness is read before the transaction and not again: the operator    *)
(* and the preparation of other versions go on meanwhile.                  *)
(*                                                                         *)
(* A calculation is one step here (AnalysisRun shows that it is completed  *)
(* or leaves nothing behind), and so is a request about a card             *)
(* (ActionCards).  Of the action cards of a version there is the one that  *)
(* the preparation drafts, reviews and approves itself.  The forecast      *)
(* never keeps a version from being ready, and is left out.                *)
(***************************************************************************)
EXTENDS Naturals, Sequences, SequencesExt

CONSTANTS
  Releasable,       \* complete dataset versions
  Eligible,         \* those whose artifacts and import is_release_eligible accepts
  Reorders,         \* those whose replenishment proposes a reorder
  Stores,           \* the scopes a version is prepared for
  Publishers,       \* threads with requests to publish
  PublishRequests,  \* these requests: idempotency key, version, and the version expected
  Preparers,        \* threads that prepare a version
  SeedVersion,      \* the version that the bootstrap has prepared and published
  SeedKey,          \* its key
  NoVersion,        \* no version is public
  MaxAdjustments,   \* bound: how often a card is adjusted, which makes a revision
  MaxReleaseFaults  \* bound: failed calls, transactions in doubt, and crashes

ASSUME ReleaseSets ==
  Eligible \cup Reorders \cup {SeedVersion} \subseteq Releasable
ASSUME NoVersionIsNone == NoVersion \notin Releasable
ASSUME RequestsNameVersions ==
  \A r \in PublishRequests :
    r = [key |-> r.key, version |-> r.version, expected |-> r.expected]
ASSUME SeedKeyIsSpent == \A r \in PublishRequests : r.key # SeedKey
ASSUME ReleaseBounds == MaxAdjustments \in Nat /\ MaxReleaseFaults \in Nat

VARIABLES
  releases,     \* public_releases, in the order of activation
  receipts,     \* idempotency receipts of public_release_publish
  publisher,    \* local state of each publishing thread
  prepared,     \* calculations of each version that are stored
  seedCard,     \* the card that the preparation of a version and scope drafts
  preparer,     \* local state of each preparing thread
  releaseFaults \* faults injected so far

releaseTables == <<releases, receipts>>
releaseVars ==
  <<releaseTables, publisher, prepared, seedCard, preparer, releaseFaults>>

PublishKeys == {r.key : r \in PublishRequests} \cup {SeedKey}

\* DOMAIN_ORDER without the forecast.
Calculations == {"sales_ads", "inventory", "profit"}
DomainOrder == <<"sales_ads", "inventory", "profit", "actions">>

NoReceipt == [created |-> FALSE]
ReceiptOf(request, created, previous) ==
  [created |-> created, request |-> request, previous |-> previous]
IdlePublisher ==
  [at |-> "idle",
   request |-> [key |-> SeedKey, version |-> SeedVersion, expected |-> NoVersion]]
IdlePreparer == [at |-> "idle", version |-> NoVersion, todo |-> <<>>]

\* seeded: the decisions whose receipts the preparation's own keys have.
NoCard == [status |-> "absent", revision |-> 0, seeded |-> {}]

SeededCard ==
  [status |-> "approved", revision |-> 1, seeded |-> {"create", "review", "approve"}]

\* As the bootstrap leaves it.
ReleaseInit ==
  /\ releases = <<[key |-> SeedKey, version |-> SeedVersion, active |-> TRUE]>>
  /\ receipts = [k \in PublishKeys |->
       IF k = SeedKey THEN ReceiptOf(IdlePublisher.request, TRUE, NoVersion) ELSE NoReceipt]
  /\ publisher = [p \in Publishers |-> IdlePublisher]
  /\ prepared = [v \in Releasable |->
       IF v = SeedVersion THEN Calculations \X Stores ELSE {}]
  /\ seedCard = [vs \in Releasable \X Stores |->
       IF vs[1] = SeedVersion THEN SeededCard ELSE NoCard]
  /\ preparer = [p \in Preparers |-> IdlePreparer]
  /\ releaseFaults = 0

ReleaseFault(o) ==
  \/ o = "ok" /\ UNCHANGED releaseFaults
  \/ o # "ok" /\ releaseFaults < MaxReleaseFaults /\ releaseFaults' = releaseFaults + 1

-----------------------------------------------------------------------------
(***************************************************************************)
(* Readiness                                                               *)
(***************************************************************************)
\* DemoActionAuthority.ready: some card of the version and scope is approved.
ActionReady(v, s) == seedCard[v, s].status = "approved"

\* readiness: every domain but the forecast, in every scope.
Ready(v) == \A s \in Stores : Calculations \X {s} \subseteq prepared[v] /\ ActionReady(v, s)

-----------------------------------------------------------------------------
(***************************************************************************)
(* Preparation                                                             *)
(***************************************************************************)
InOrder == SetToSeq(Stores)

\* A domain is done for all scopes before the next.
Items ==
  FlattenSeq([d \in 1..Len(DomainOrder) |->
    [n \in 1..Len(InOrder) |-> <<DomainOrder[d], InOrder[n]>>]])

\* To prepare what is ready changes nothing, and is left out.
Prepare(p, v) ==
  /\ preparer[p].at = "idle"
  /\ ~Ready(v)
  /\ preparer' = [preparer EXCEPT ![p] = [at |-> "item", version |-> v, todo |-> Items]]
  /\ UNCHANGED <<releaseTables, publisher, prepared, seedCard, releaseFaults>>

\* The item is over, done or not: a failure of one does not stop the others.
ItemOver(p) ==
  LET rest == Tail(preparer[p].todo) IN
  preparer' = [preparer EXCEPT ![p] =
    IF rest = <<>> THEN IdlePreparer ELSE [@ EXCEPT !.at = "item", !.todo = rest]]

Item(p) == Head(preparer[p].todo)
Working(p, at) == preparer[p].at = at
GoOn(p, at) == preparer' = [preparer EXCEPT ![p].at = at]

\* _ensure_analysis, _ensure_bridge: what is stored is not calculated again.
CalculateItem(p, o) ==
  LET v == preparer[p].version IN
  /\ Working(p, "item")
  /\ Item(p)[1] \in Calculations
  /\ ReleaseFault(o)
  /\ prepared' = IF o = "fail" THEN prepared
                 ELSE [prepared EXCEPT ![v] = @ \cup {Item(p)}]
  /\ ItemOver(p)
  /\ UNCHANGED <<releaseTables, publisher, seedCard>>

\* What the card proposes is taken from the replenishment, or from the bridge if that
\* proposes nothing.
HasSource(v, s) ==
  /\ <<"inventory", s>> \in prepared[v]
  /\ v \in Reorders \/ <<"profit", s>> \in prepared[v]

BeginActions(p) ==
  LET v == preparer[p].version s == Item(p)[2] IN
  /\ Working(p, "item")
  /\ Item(p)[1] = "actions"
  /\ IF ActionReady(v, s) \/ ~HasSource(v, s) THEN ItemOver(p) ELSE GoOn(p, "create")
  /\ UNCHANGED <<releaseTables, publisher, prepared, seedCard, releaseFaults>>

\* The three requests of ensure, with keys of their own: a repeated one is answered
\* from its receipt; a review or an approval names the revision that was created.
Seeds(command) ==
  CASE command = "create"  -> [from |-> "absent", to |-> "new", next |-> "review"]
    [] command = "review"  -> [from |-> "new", to |-> "reviewed", next |-> "approve"]
    [] command = "approve" -> [from |-> "reviewed", to |-> "approved", next |-> "item"]

SeedCommand(p, o) ==
  \E command \in {"create", "review", "approve"} :
    LET v == preparer[p].version s == Item(p)[2]
        card == seedCard[v, s] seed == Seeds(command)
        repeated == command \in card.seeded
        accepted == card.status = seed.from /\ card.revision <= 1
    IN
    /\ Working(p, command)
    /\ ReleaseFault(o)
    /\ seedCard' = IF repeated \/ ~accepted \/ o = "fail" THEN seedCard
                   ELSE [seedCard EXCEPT ![<<v, s>>] =
                          [status |-> seed.to, revision |-> 1,
                           seeded |-> @.seeded \cup {command}]]
    /\ IF o = "ok" /\ (repeated \/ accepted) /\ command # "approve"
       THEN GoOn(p, seed.next) ELSE ItemOver(p)
    /\ UNCHANGED <<releaseTables, publisher, prepared>>

PreparerDies(p) ==
  /\ preparer[p].at # "idle"
  /\ ReleaseFault("fail")
  /\ preparer' = [preparer EXCEPT ![p] = IdlePreparer]
  /\ UNCHANGED <<releaseTables, publisher, prepared, seedCard>>

\* The operator finds the card among the others and decides on it: TRANSITIONS, in
\* which nothing leaves an approved card.
CanDecide(status, command) ==
  \/ status = "new" /\ command = "review"
  \/ status = "reviewed" /\ command \in {"adjust", "approve", "dismiss"}

Decided(command) ==
  CASE command \in {"review", "adjust"} -> "reviewed"
    [] command = "approve" -> "approved"
    [] command = "dismiss" -> "dismissed"

OperatorDecides(v, s, command) ==
  /\ CanDecide(seedCard[v, s].status, command)
  /\ command = "adjust" => seedCard[v, s].revision <= MaxAdjustments
  /\ seedCard' = [seedCard EXCEPT ![<<v, s>>].status = Decided(command),
                                 ![<<v, s>>].revision = @ + (IF command = "adjust" THEN 1 ELSE 0)]
  /\ UNCHANGED <<releaseTables, publisher, prepared, preparer, releaseFaults>>

-----------------------------------------------------------------------------
(***************************************************************************)
(* Publishing                                                              *)
(***************************************************************************)
\* current_release: an index admits one active row.
Public ==
  IF \E n \in DOMAIN releases : releases[n].active
  THEN releases[CHOOSE n \in DOMAIN releases : releases[n].active].version
  ELSE NoVersion

Asks(p) == publisher[p].request
ReceiptFor(p) == receipts[Asks(p).key]

\* IdempotencyRepository.check
Disposition(p) ==
  CASE ReceiptFor(p) = NoReceipt -> "new"
    [] ReceiptFor(p) # NoReceipt /\ ReceiptFor(p).request = Asks(p) -> "replay"
    [] OTHER -> "conflict"

Publishing(p, at) == publisher[p].at = at
Proceed(p, at) == publisher' = [publisher EXCEPT ![p].at = at]
\* The answer is that of the receipt, or a refusal, which changes nothing.
Reply(p) == publisher' = [publisher EXCEPT ![p] = IdlePublisher]

AskToPublish(p, request) ==
  /\ Publishing(p, "idle")
  /\ publisher' = [publisher EXCEPT ![p] = [at |-> "receipt", request |-> request]]
  /\ UNCHANGED <<releaseTables, prepared, seedCard, preparer, releaseFaults>>

\* _replay, before anything else.
LookForReceipt(p) ==
  /\ Publishing(p, "receipt")
  /\ IF Disposition(p) = "new" THEN Proceed(p, "readiness") ELSE Reply(p)
  /\ UNCHANGED <<releaseTables, prepared, seedCard, preparer, releaseFaults>>

MayBePublic(v) == v \in Eligible /\ Ready(v)

CheckReadiness(p) ==
  /\ Publishing(p, "readiness")
  /\ IF MayBePublic(Asks(p).version) THEN Proceed(p, "publish") ELSE Reply(p)
  /\ UNCHANGED <<releaseTables, prepared, seedCard, preparer, releaseFaults>>

\* activate_release: the others are retired.  The release is named by the key.
Activated(k, v) ==
  Append([n \in DOMAIN releases |-> [releases[n] EXCEPT !.active = FALSE]],
         [key |-> k, version |-> v, active |-> TRUE])

\* The comparison in the transaction.
AsExpected_Unchecked(p) == TRUE   \* mutant: any public version is displaced
AsExpected(p) == Public = Asks(p).expected

\* The transaction that holds the advisory lock; an error in it is raised only after
\* another look for the receipt.
Release(p, o) ==
  LET request == Asks(p)
      created == Public # request.version
      publishes == o # "fail" /\ Disposition(p) = "new" /\ AsExpected(p)
  IN
  /\ Publishing(p, "publish")
  /\ ReleaseFault(o)
  /\ releases' = IF publishes /\ created
                 THEN Activated(request.key, request.version) ELSE releases
  /\ receipts' = IF publishes
                 THEN [receipts EXCEPT ![request.key] = ReceiptOf(request, created, Public)]
                 ELSE receipts
  /\ IF o = "ok" /\ (publishes \/ Disposition(p) = "replay")
     THEN Reply(p) ELSE Proceed(p, "look_again")
  /\ UNCHANGED <<prepared, seedCard, preparer>>

\* _replay, after an error: the receipt is answered, or the error.
LookAgain(p) ==
  /\ Publishing(p, "look_again")
  /\ Reply(p)
  /\ UNCHANGED <<releaseTables, prepared, seedCard, preparer, releaseFaults>>

PublisherDies(p) ==
  /\ ~Publishing(p, "idle")
  /\ ReleaseFault("fail")
  /\ Reply(p)
  /\ UNCHANGED <<releaseTables, prepared, seedCard, preparer>>

ReleaseNext ==
  \/ \E p \in Preparers, v \in Releasable : Prepare(p, v)
  \/ \E p \in Preparers :
       \/ \E o \in {"ok", "lost", "fail"} : CalculateItem(p, o)
       \/ \E o \in {"ok", "lost", "fail"} : SeedCommand(p, o)
       \/ BeginActions(p) \/ PreparerDies(p)
  \/ \E v \in Releasable, s \in Stores, c \in {"review", "adjust", "approve", "dismiss"} :
       OperatorDecides(v, s, c)
  \/ \E p \in Publishers, request \in PublishRequests : AskToPublish(p, request)
  \/ \E p \in Publishers :
       \/ LookForReceipt(p) \/ CheckReadiness(p) \/ LookAgain(p) \/ PublisherDies(p)
       \/ \E o \in {"ok", "lost", "fail"} : Release(p, o)

ReleaseSpec == ReleaseInit /\ [][ReleaseNext]_releaseVars

-----------------------------------------------------------------------------
\* The releases form a chain: each was asked for by the request of its receipt, and
\* displaced the version which that request expected; the last one is public.
ReleasesFollowRequests ==
  \A n \in DOMAIN releases :
    LET r == releases[n]
        before == IF n = 1 THEN NoVersion ELSE releases[n - 1].version
        request == [key |-> r.key, version |-> r.version, expected |-> before]
    IN /\ receipts[r.key] = ReceiptOf(request, TRUE, before)
       /\ r.active <=> n = Len(releases)
       /\ r.version # before

\* Whatever was ever public can be served to the sessions pinned to it, and be made
\* public again: readiness is not read again in the transaction and need not be.
ReleasedIsReady == \A n \in DOMAIN releases : Ready(releases[n].version)

\* Publishing (public_release_service.py:213-278) is a comparison and exchange of the
\* public version whose receipt tells what it displaced, and only what can be served,
\* and stays so, is published.
ReleasesHold == ReleasesFollowRequests /\ ReleasedIsReady
=============================================================================
