---------------------------- MODULE ActionCards ----------------------------
(***************************************************************************)
(* One action card and the viewers who try it out (ActionService without   *)
(* its export): the operator drafts the card, reviews, adjusts, approves   *)
(* or dismisses it and records outcomes; a viewer whose session began      *)
(* after the approval repeats the decisions in a sandbox of his own.       *)
(*                                                                         *)
(* An operator's request is a transaction between the times when its       *)
(* clock is read and when it commits, and a lookup if it does not know     *)
(* whether it did.  It holds the row of the card in the transaction, and   *)
(* the entry lock throughout, unless the connection of the lock is lost.   *)
(* A viewer's transaction holds the row of his session from its first      *)
(* statement on and reads of the card only what no longer changes: it is   *)
(* one step.                                                               *)
(***************************************************************************)
EXTENDS Naturals, Sequences, FiniteSets

CONSTANTS
  CardKeys,      \* idempotency keys of the operator
  SandboxKeys,   \* idempotency keys of viewers
  Viewers,       \* demo sessions
  Clerks,        \* threads with requests of the operator
  NoClerk,       \* nobody
  MaxRevisions,  \* bound: revisions of the card
  MaxTime,       \* bound: readings of the clock
  MaxEpochs,     \* bound: how often a viewer clears his chat
  MaxCardFaults  \* bound: failed transactions and reads, lost locks, and crashes

ASSUME NobodyIsNoClerk == NoClerk \notin Clerks
ASSUME CardBoundsAssumption ==
  /\ MaxRevisions \in Nat \ {0} /\ MaxTime \in Nat
  /\ MaxEpochs \in Nat /\ MaxCardFaults \in Nat

VARIABLES
  card,       \* action_cards: status, current revision, terminal_at
  decisions,  \* action_decisions, by ordinal
  outcomes,   \* action_outcomes, by outcome revision
  entryLock,  \* holder of the lock of the card
  lockLost,   \* ghost: whether its connection was ever lost
  clerk,      \* requests of the operator
  answered,   \* ghost: answers given, with the request
  viewer,     \* demo_sessions
  overlays,   \* demo_action_overlays of each session
  now,        \* the clock
  cardFaults  \* bound: faults so far

record == <<card, decisions, outcomes>>
sandbox == <<viewer, overlays>>
cardsVars == <<record, entryLock, lockLost, clerk, answered, sandbox, now, cardFaults>>

Times == 0..MaxTime
Revisions == 1..MaxRevisions

\* TRANSITIONS, without the commands that append a record of their own.
Commands == {"review", "adjust", "approve", "dismiss"}
CanApply(status, command) ==
  IF status = "new" THEN command = "review"
  ELSE status = "reviewed" /\ command \in {"adjust", "approve", "dismiss"}
Applied(command) ==
  CASE command \in {"review", "adjust"} -> "reviewed"
    [] command = "approve" -> "approved"
    [] command = "dismiss" -> "dismissed"
IsTerminal(status) == status \in {"approved", "dismissed"}

\* A request of the operator: what its hash is made of.  The card is named after
\* the key of its creation, which needs no other name.
Creation == [op |-> "create", revision |-> 1]
CardRequest == [op : {"outcome"} \cup Commands, revision : Revisions]

IdleClerk == [pc |-> "idle", key |-> "no key", request |-> Creation, at |-> 0]
Absent == [status |-> "absent", revision |-> 0, at |-> 0]
NoSession == [status |-> "absent", since |-> 0, epoch |-> 0]

CardsInit ==
  /\ card = Absent
  /\ decisions = <<>>
  /\ outcomes = <<>>
  /\ entryLock = NoClerk
  /\ lockLost = FALSE
  /\ clerk = [c \in Clerks |-> IdleClerk]
  /\ answered = {}
  /\ viewer = [v \in Viewers |-> NoSession]
  /\ overlays = [v \in Viewers |-> <<>>]
  /\ now = 0
  /\ cardFaults = 0

-----------------------------------------------------------------------------
CardFault == cardFaults < MaxCardFaults /\ cardFaults' = cardFaults + 1

\* lost: the change was made, but the caller sees an exception.
CardOutcome(o) ==
  \/ o = "ok" /\ UNCHANGED cardFaults
  \/ o \in {"lost", "fail"} /\ CardFault

ToStep(c, pc) == clerk' = [clerk EXCEPT ![c].pc = pc]

\* The request ends, in whatever way.
Holds(c) == entryLock = c
Dismissed(c) ==
  /\ clerk' = [clerk EXCEPT ![c] = IdleClerk]
  /\ entryLock' = IF Holds(c) THEN NoClerk ELSE entryLock

-----------------------------------------------------------------------------
(***************************************************************************)
(* The card                                                                *)
(***************************************************************************)

DecisionOf(k) == {n \in DOMAIN decisions : decisions[n].key = k}
OutcomeOf(k) == {n \in DOMAIN outcomes : outcomes[n].key = k}

\* The record of the key, if it has one: find_create, find_decision,
\* find_outcome_record.
OnRecord(c) ==
  CASE clerk[c].request.op = "create" -> card # Absent
    [] clerk[c].request.op = "outcome" -> OutcomeOf(clerk[c].key) # {}
    [] OTHER -> DecisionOf(clerk[c].key) # {}

\* Its stored request hash is that of the request.
SameRequest(c) ==
  LET k == clerk[c].key
      r == clerk[c].request
  IN  CASE r.op = "create" -> TRUE
        [] r.op = "outcome" ->
             \E n \in OutcomeOf(k) : outcomes[n].revision = r.revision
        [] OTHER ->
             \E n \in DecisionOf(k) : decisions[n].request = r

Response_Current(c) ==   \* mutant: the card as it is now
  IF clerk[c].request.op = "outcome"
  THEN [outcome |-> CHOOSE n \in OutcomeOf(clerk[c].key) : TRUE]
  ELSE [status |-> card.status, revision |-> card.revision, decisions |-> decisions]
\* _create_response, _decision_response and the outcome: the card as the request
\* left it.
Response(c) ==
  LET k == clerk[c].key
      op == clerk[c].request.op
  IN  CASE op = "create" ->
             [status |-> "new", revision |-> 1, decisions |-> <<>>]
        [] op = "outcome" -> [outcome |-> CHOOSE n \in OutcomeOf(k) : TRUE]
        [] OTHER ->
             LET n == CHOOSE d \in DecisionOf(k) : TRUE
             IN  [status |-> Applied(decisions[n].request.op),
                  revision |-> decisions[n].revision,
                  decisions |-> SubSeq(decisions, 1, n)]

\* The answer of a request that has just committed: the card is read again.
CurrentAnswer(c) ==
  IF clerk[c].request.op = "outcome" THEN [outcome |-> Len(outcomes)]
  ELSE [status |-> card.status, revision |-> card.revision,
        decisions |-> decisions]

\* _release: what was computed is returned only if the lock was held to the end.
Released(c) == Holds(c)

Answer(c, response) ==
  /\ answered' = IF Released(c)
       THEN answered \cup {[key |-> clerk[c].key, request |-> clerk[c].request,
                            response |-> response]}
       ELSE answered
  /\ Dismissed(c)

Ask(c, k, r) ==
  /\ clerk[c].pc = "idle"
  /\ entryLock = NoClerk
  /\ entryLock' = c
  /\ clerk' = [clerk EXCEPT ![c] = [pc |-> "decide", key |-> k, request |-> r, at |-> 0]]
  /\ UNCHANGED <<record, lockLost, answered, sandbox, now, cardFaults>>

\* The connection of the lock is lost: the request goes on.
LoseEntry(c) ==
  /\ Holds(c)
  /\ CardFault
  /\ entryLock' = NoClerk
  /\ lockLost' = TRUE
  /\ UNCHANGED <<record, clerk, answered, sandbox, now>>

\* SELECT ... FOR UPDATE of the card.  With it, the triggers of 0005_actions.py
\* refuse nothing that was not refused before.
RowFree_NotHeld == TRUE   \* mutant: the card is read without FOR UPDATE
RowFree ==
  \A c \in Clerks : clerk[c].pc = "commit" => clerk[c].request = Creation

\* create validates its source; a decision and an outcome name the current
\* revision.
Accepted(r) ==
  CASE r.op = "create" -> card = Absent
    [] r.op = "outcome" -> card.status = "approved" /\ card.revision = r.revision
    [] OTHER ->
         /\ card.revision = r.revision
         /\ CanApply(card.status, r.op)
         /\ r.op = "adjust" => card.revision < MaxRevisions

\* The statements of the transaction up to its last: it replays, refuses, or has
\* something to commit, stamped with the time it read.
Decide(c) ==
  /\ clerk[c].pc = "decide"
  /\ clerk[c].request = Creation \/ RowFree
  /\ IF OnRecord(c)
     THEN IF SameRequest(c) THEN Answer(c, Response(c))
          ELSE Dismissed(c) /\ UNCHANGED answered
     ELSE /\ UNCHANGED answered
          /\ IF Accepted(clerk[c].request)
             THEN /\ clerk' = [clerk EXCEPT ![c].pc = "commit", ![c].at = now]
                  /\ UNCHANGED entryLock
             ELSE Dismissed(c)
  /\ UNCHANGED <<record, lockLost, sandbox, now, cardFaults>>

\* apply_decision: the card, a revision if it was adjusted, and the decision.
NextRevision(c) ==
  clerk[c].request.revision + (IF clerk[c].request.op = "adjust" THEN 1 ELSE 0)

Written(c) ==
  LET r == clerk[c].request IN
  CASE r.op = "create" ->
         /\ card' = [status |-> "new", revision |-> 1, at |-> 0]
         /\ UNCHANGED <<decisions, outcomes>>
    [] r.op = "outcome" ->
         /\ outcomes' = Append(outcomes, [key |-> clerk[c].key, revision |-> r.revision])
         /\ UNCHANGED <<card, decisions>>
    [] OTHER ->
         /\ card' = [status |-> Applied(r.op), revision |-> NextRevision(c),
                     at |-> IF IsTerminal(Applied(r.op)) THEN clerk[c].at ELSE 0]
         /\ decisions' = Append(decisions, [key |-> clerk[c].key, request |-> r,
                                            revision |-> NextRevision(c)])
         /\ UNCHANGED outcomes

\* The card was created twice at a time: its primary key refuses the second.
Clashes(c) == clerk[c].request = Creation /\ card # Absent

Commit(c, o) ==
  /\ clerk[c].pc = "commit"
  /\ CardOutcome(o)
  /\ IF o = "fail" \/ Clashes(c) THEN UNCHANGED record ELSE Written(c)
  /\ ToStep(c, IF o = "ok" /\ ~Clashes(c) THEN "reread" ELSE "lookup")
  /\ UNCHANGED <<entryLock, lockLost, answered, sandbox, now>>

\* self.get; an outcome is returned as it was stored.
Reread(c) ==
  /\ clerk[c].pc = "reread"
  /\ \/ Answer(c, CurrentAnswer(c)) /\ UNCHANGED cardFaults
     \/ CardFault /\ ToStep(c, "lookup") /\ UNCHANGED <<entryLock, answered>>
  /\ UNCHANGED <<record, lockLost, sandbox, now>>

\* _create_authority, _decision_authority, _outcome_authority.
Lookup(c) ==
  /\ clerk[c].pc = "lookup"
  /\ \/ /\ UNCHANGED cardFaults
        /\ IF OnRecord(c) /\ SameRequest(c) THEN Answer(c, Response(c))
           ELSE Dismissed(c) /\ UNCHANGED answered
     \/ CardFault /\ Dismissed(c) /\ UNCHANGED answered
  /\ UNCHANGED <<record, lockLost, sandbox, now>>

\* The process dies: PostgreSQL rolls back and drops the lock.
CrashClerk(c) ==
  /\ clerk[c].pc # "idle"
  /\ CardFault
  /\ Dismissed(c)
  /\ UNCHANGED <<record, lockLost, answered, sandbox, now>>

-----------------------------------------------------------------------------
(***************************************************************************)
(* Viewers                                                                 *)
(***************************************************************************)

\* The time of the request is the time of the session, which is inserted later.
Arrive(v) ==
  /\ viewer[v].status = "absent"
  /\ viewer' = [viewer EXCEPT ![v] = [status |-> "arriving", since |-> now, epoch |-> 0]]
  /\ UNCHANGED <<record, lockLost, entryLock, clerk, answered, overlays, now, cardFaults>>

OpenSession(v) ==
  /\ viewer[v].status = "arriving"
  /\ viewer' = [viewer EXCEPT ![v].status = "active"]
  /\ UNCHANGED <<record, lockLost, entryLock, clerk, answered, overlays, now, cardFaults>>

\* lock_demo_chat_epoch, with the epoch of the resolved principal.
EpochHolds_Ignored(v, e) ==   \* mutant: the epoch is not compared
  viewer[v].status = "active"
EpochHolds(v, e) == viewer[v].status = "active" /\ viewer[v].epoch = e

\* viewer_template_eligible and the trigger on overlays.
Eligible(v) == card.status = "approved" /\ card.at < viewer[v].since

SandboxStatus(v) ==
  IF overlays[v] = <<>> THEN "new" ELSE overlays[v][Len(overlays[v])].status

\* simulate.  A replay, or a key of another request, changes nothing.
Simulate(v, e, k, command) ==
  /\ EpochHolds(v, e)
  /\ Eligible(v)
  /\ \A n \in DOMAIN overlays[v] : overlays[v][n].key # k
  /\ CanApply(SandboxStatus(v), command)
  /\ overlays' = [overlays EXCEPT ![v] = Append(@,
       [key |-> k, epoch |-> e, base |-> card.revision, command |-> command,
        status |-> Applied(command)])]
  /\ UNCHANGED <<record, lockLost, entryLock, clerk, answered, viewer, now, cardFaults>>

ResetSandbox(v, e) ==
  /\ EpochHolds(v, e)
  /\ overlays' = [overlays EXCEPT ![v] = <<>>]
  /\ UNCHANGED <<record, lockLost, entryLock, clerk, answered, viewer, now, cardFaults>>

\* delete_demo_session of the chat.
ClearSandbox(v, e) ==
  /\ EpochHolds(v, e)
  /\ viewer[v].epoch < MaxEpochs
  /\ viewer' = [viewer EXCEPT ![v].epoch = @ + 1]
  /\ overlays' = [overlays EXCEPT ![v] = <<>>]
  /\ UNCHANGED <<record, lockLost, entryLock, clerk, answered, now, cardFaults>>

\* The session passes its idle or absolute time.
Lapse(v) ==
  /\ viewer[v].status = "active"
  /\ viewer' = [viewer EXCEPT ![v].status = "lapsed"]
  /\ UNCHANGED <<record, lockLost, entryLock, clerk, answered, overlays, now, cardFaults>>

\* end_demo_session, or expire_demo_sessions after it has lapsed.
EndViewer(v) ==
  /\ viewer[v].status \in {"active", "lapsed"}
  /\ viewer' = [viewer EXCEPT ![v].status = "ended"]
  /\ overlays' = [overlays EXCEPT ![v] = <<>>]
  /\ UNCHANGED <<record, lockLost, entryLock, clerk, answered, now, cardFaults>>

Tick ==
  /\ now < MaxTime
  /\ now' = now + 1
  /\ UNCHANGED <<record, lockLost, entryLock, clerk, answered, sandbox, cardFaults>>

Clerical(c) ==
  \/ Ask(c, "no key", Creation)
  \/ \E k \in CardKeys, r \in CardRequest : Ask(c, k, r)
  \/ LoseEntry(c)
  \/ Decide(c)
  \/ \E o \in {"ok", "lost", "fail"} : Commit(c, o)
  \/ Reread(c) \/ Lookup(c) \/ CrashClerk(c)

Viewing(v) ==
  \/ Arrive(v) \/ OpenSession(v) \/ Lapse(v) \/ EndViewer(v)
  \/ \E e \in 0..MaxEpochs :
       \/ ResetSandbox(v, e) \/ ClearSandbox(v, e)
       \/ \E k \in SandboxKeys, command \in Commands : Simulate(v, e, k, command)

CardsNext ==
  \/ \E c \in Clerks : Clerical(c)
  \/ \E v \in Viewers : Viewing(v)
  \/ Tick

CardsSpec == CardsInit /\ [][CardsNext]_cardsVars
-----------------------------------------------------------------------------
(***************************************************************************)
(* Properties                                                              *)
(***************************************************************************)
CardStatuses == {"absent", "new", "reviewed", "approved", "dismissed"}
Decision == [key : CardKeys, request : CardRequest, revision : Revisions]
Outcome == [key : CardKeys, revision : Revisions]
Overlay == [key : SandboxKeys, epoch : 0..MaxEpochs, base : Revisions,
            command : Commands, status : CardStatuses]

\* The tables and the requests have the values the code knows.
CardsTypeOK ==
  /\ card \in [status : CardStatuses, revision : 0..MaxRevisions, at : Times]
  /\ decisions \in Seq(Decision)
  /\ outcomes \in Seq(Outcome)
  /\ entryLock \in Clerks \cup {NoClerk} /\ lockLost \in BOOLEAN
  /\ clerk \in [Clerks -> [pc : {"idle", "decide", "commit", "reread", "lookup"},
                           key : CardKeys \cup {"no key"},
                           request : CardRequest \cup {Creation},
                           at : Times]]
  /\ viewer \in [Viewers -> [status : {"absent", "arriving", "active", "lapsed", "ended"},
                             since : Times, epoch : 0..MaxEpochs]]
  /\ overlays \in [Viewers -> Seq(Overlay)]
  /\ now \in Times
  /\ cardFaults \in 0..MaxCardFaults

\* The row of the card is what its decisions make of it: each was allowed after the
\* one before, each adjustment made one revision, and nothing follows an approval or
\* a dismissal, although the entry lock can be lost.  The compare-and-set on the revision alone would not do: a review,
\* an approval and a dismissal leave the revision.
StatusAfter(n) == IF n = 0 THEN "new" ELSE Applied(decisions[n].request.op)
RevisionAfter(n) == IF n = 0 THEN 1 ELSE decisions[n].revision
CardFollowsDecisions ==
  /\ decisions # <<>> => card # Absent
  /\ card # Absent => /\ card.status = StatusAfter(Len(decisions))
                      /\ card.revision = RevisionAfter(Len(decisions))
  /\ \A n \in DOMAIN decisions :
       LET op == decisions[n].request.op IN
       /\ CanApply(StatusAfter(n - 1), op)
       /\ decisions[n].revision =
            RevisionAfter(n - 1) + (IF op = "adjust" THEN 1 ELSE 0)

\* However often a request is repeated, by whatever way its answer is found and
\* whatever was decided since, it gets one answer, unless a request lost the lock
\* and went on next to others.
RepeatsGetOneAnswer ==
  lockLost \/ \A a, b \in answered :
    a.key = b.key /\ a.request = b.request => a.response = b.response

\* A sandbox shows what the viewer did since he last cleared it, in this session, on
\* the approved card that was there before he came.
SandboxIsCurrent ==
  \A v \in Viewers : overlays[v] # <<>> =>
    /\ viewer[v].status \in {"active", "lapsed"}
    /\ Eligible(v)
    /\ \A n \in DOMAIN overlays[v] :
         /\ overlays[v][n].epoch = viewer[v].epoch
         /\ overlays[v][n].base = card.revision
         /\ CanApply(IF n = 1 THEN "new" ELSE overlays[v][n - 1].status,
                     overlays[v][n].command)
=============================================================================
