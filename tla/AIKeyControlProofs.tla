------------------------- MODULE AIKeyControlProofs -------------------------
(***************************************************************************)
(* Theorems about AIKeyControl, for any number of threads, keys, mutations *)
(* and faults: the bound key is a qualified one, a success that was        *)
(* answered is true, a repeated mutation succeeds once, each revision is   *)
(* one audited mutation, and a key is served as it was accepted.           *)
(***************************************************************************)
EXTENDS AIKeyControl, TLAPS

Receipts ==
  {NoReceipt} \cup
    [mutation : Mutations, code : {None} \cup Failures,
     projection : [revision : Nat, operator : BOOLEAN, demo : BOOLEAN,
                   secret : Secrets \cup {NoSecret}]]

-----------------------------------------------------------------------------
(***************************************************************************)
(* The invariant                                                           *)
(***************************************************************************)
\* A row that names a version names one that was stored and accepted.
Sound(row) ==
  IF Configured(row)
  THEN row.version \in qualified /\ vault[row.version] = row.secret
  ELSE ~row.operator /\ ~row.demo

\* The row was the row of the workspace once.
Past(row) ==
  row.revision + 1 \in 1..Len(history) /\ history[row.revision + 1] = row

Stored(r) ==
  r.version \in 1..Len(vault) /\ vault[r.version] = r.mutation.secret

\* What a request without a failure may write into the row.
Ready(r) ==
  IF r.mutation.kind = "rotate"
  THEN Stored(r) /\ r.version \in qualified
  ELSE r.mutation.operator \/ r.mutation.demo => Configured(r.prior)

RotationStages ==
  {"previous", "validate", "write", "readback", "revalidate", "compensate",
   "reconcile", "restore"}

\* What a request knows at each of its steps.
Knows(r) ==
  /\ r.pc # "lock" => Sound(r.prior) /\ Past(r.prior)
  /\ r.pc \in RotationStages => r.mutation.kind = "rotate"
  /\ r.pc = "previous" => Configured(r.prior)
  /\ r.pc = "qualify" => r.mutation.kind = "channels" /\ Configured(r.prior)
  /\ r.pc \in {"readback", "revalidate"} => Stored(r)
  /\ r.pc = "compensate" => r.code # None
  /\ r.pc \in {"record", "commit"} /\ r.code = None => Ready(r)
  /\ r.pc = "commit" => r.tx = Transaction(r)
  /\ r.pc = "reconcile" => r.code = None /\ Stored(r)

\* A transaction that may be applied to the row as it is.
Fits(tx) ==
  /\ tx.receipt # NoReceipt
  /\ receipts[Slot(tx.receipt.mutation)] = NoReceipt
  /\ Sound(tx.row)
  /\ IF tx.receipt.code = None
     THEN /\ tx.row.revision = control.revision + 1
          /\ tx.receipt.projection = Projection(tx.row)
          /\ Did(tx.receipt.mutation, control, tx.row)
     ELSE tx.row = control

\* A success that names a revision at which the mutation was done.
Holds(a) ==
  LET r == a.projection.revision
  IN  /\ r \in 1..control.revision
      /\ a.projection = Projection(history[r + 1])
      /\ Did(a.mutation, history[r], history[r + 1])

HistoryIsControl ==
  Len(history) = control.revision + 1 /\ history[control.revision + 1] = control

\* Before and after the transaction.
Outside == {"idle", "lock", "reconcile", "restore"}

\* Who holds the row has read it, and nobody has used his key.
HolderIsCurrent ==
  \A w \in Workers : lock = w =>
    /\ request[w].pc \notin Outside
    /\ request[w].prior = control
    /\ ReceiptOf(w) = NoReceipt

ReceiptsHold ==
  \A o \in Kinds \X Keys : receipts[o].code = None =>
    Holds(receipts[o]) /\ Slot(receipts[o].mutation) = o

\* An answered success is the one of the receipt.
AnswersAreReceipts ==
  \A a \in answers :
    /\ a.mutation \in Mutations
    /\ a.code = None => receipts[Slot(a.mutation)] = a

\* A request that has written a version which may still become the bound one.
Owns(r) ==
  \/ r.pc \in {"readback", "revalidate"}
  \/ /\ r.pc \in {"record", "commit", "reconcile"}
     /\ r.mutation.kind = "rotate" /\ r.code = None

\* A receipt of that request's activation.
IsActivation(receipt, r) ==
  /\ receipt # NoReceipt
  /\ receipt.code = None
  /\ receipt.mutation = r.mutation
  /\ receipt.projection.revision = r.prior.revision + 1
Recorded(r) == IsActivation(receipts[Slot(r.mutation)], r)

\* A version has one owner; if the row names it, or a commit in doubt does, this is
\* the owner's doing.
VersionsAreOwned ==
  \A w \in Workers : ~At(w, "idle") /\ Owns(request[w]) =>
    /\ \A v \in Workers \ {w} :
         ~At(v, "idle") /\ Owns(request[v]) => request[v].version # request[w].version
    /\ control.version = request[w].version => Recorded(request[w])
    /\ lock = Server /\ doubt.row.version = request[w].version =>
         Recorded(request[w]) \/ IsActivation(doubt.receipt, request[w])

KeyInv ==
  /\ KeyTypeOK
  /\ receipts \in [Kinds \X Keys -> Receipts]
  /\ Sound(control)
  /\ HistoryIsControl
  /\ \A w \in Workers : ~At(w, "idle") => Knows(request[w])
  /\ HolderIsCurrent
  /\ lock = Server => Fits(doubt)
  /\ ReceiptsHold
  /\ AnswersAreReceipts
  /\ VersionsAreOwned

-----------------------------------------------------------------------------
(***************************************************************************)
(* What grows                                                              *)
(***************************************************************************)
\* The secret store, what was accepted and the history of the row only grow.
Grows ==
  /\ Len(vault) <= Len(vault')
  /\ \A i \in 1..Len(vault) : vault'[i] = vault[i]
  /\ qualified \subseteq qualified'
  /\ Len(history) <= Len(history')
  /\ \A i \in 1..Len(history) : history'[i] = history[i]

\* A running request has the fields of one.
LEMMA RunningTyped ==
  ASSUME KeyTypeOK, NEW w \in Workers, ~At(w, "idle")
  PROVE  request[w] \in Running
BY DEF KeyTypeOK, At, Idle

\* The slot of a mutation names a receipt (ReceiptOf).
LEMMA SlotTyped ==
  ASSUME NEW m \in Mutations
  PROVE  Slot(m) \in Kinds \X Keys /\ m.kind \in Kinds /\ m.key \in Keys
BY DEF Mutations, Rotations, Switches, Slot, Kinds

\* A sound row stays sound (Sound).
LEMMA SoundGrows ==
  ASSUME KeyTypeOK, Grows, NEW row \in Control, Sound(row)
  PROVE  Sound(row)'
BY DEF KeyTypeOK, Grows, Sound, Configured

\* What a request knows it goes on knowing (Knows).
LEMMA KnowsGrows ==
  ASSUME KeyTypeOK, Grows, NEW r \in Running, Knows(r)
  PROVE  Knows(r)'
<1>1. r.prior \in Control /\ r.version \in Nat
  BY DEF Running
<1>2. r.pc # "lock" => Sound(r.prior)'
  BY <1>1, SoundGrows DEF Knows
<1>3. r.pc # "lock" => Past(r.prior)'
  BY <1>1 DEF Knows, Past, Grows, KeyTypeOK
<1>4. Stored(r) => Stored(r)'
  BY <1>1 DEF Stored, Grows, KeyTypeOK
<1>5. Ready(r) => Ready(r)'
  BY <1>4 DEF Ready, Grows
<1> QED BY <1>2, <1>3, <1>4, <1>5 DEF Knows

\* A version more is nothing less (Store).
LEMMA StoreGrows ==
  ASSUME KeyTypeOK, NEW s \in Secrets, Store(s)
  PROVE  /\ vault' \in Seq(Secrets)
         /\ Len(vault') = Len(vault) + 1
         /\ \A i \in 1..Len(vault) : vault'[i] = vault[i]
         /\ vault'[Len(vault) + 1] = s
BY DEF KeyTypeOK, Store


\* Steps that leave the database alone: what holds of the tables, of other
\* requests and of answers goes on to hold.
LEMMA TablesStay ==
  ASSUME KeyInv, UNCHANGED Database, Grows, vault' \in Seq(Secrets)
  PROVE  /\ receipts' \in [Kinds \X Keys -> Receipts]
         /\ Sound(control)'
         /\ HistoryIsControl'
         /\ ReceiptsHold'
         /\ \A tx : Fits(tx) /\ tx.row \in Control => Fits(tx)'
<1>1. /\ control' = control /\ receipts' = receipts /\ history' = history
      /\ control \in Control
  BY DEF Database, KeyInv, KeyTypeOK
<1>2. Sound(control)'
  <2>1. PICK c \in Control : c = control
    BY <1>1
  <2>2. Sound(c)'
    BY <2>1, SoundGrows DEF KeyInv
  <2> QED BY <1>1, <2>1, <2>2 DEF Sound
<1>3. HistoryIsControl'
  BY <1>1 DEF KeyInv, HistoryIsControl
<1>4. ReceiptsHold'
  BY <1>1 DEF KeyInv, ReceiptsHold, Holds, Projection
<1>5. ASSUME NEW tx, Fits(tx), tx.row \in Control PROVE Fits(tx)'
  <2>1. Sound(tx.row)'
    BY <1>5, SoundGrows DEF KeyInv, Fits
  <2> QED BY <1>1, <1>5, <2>1 DEF Fits
<1> QED BY <1>1, <1>2, <1>3, <1>4, <1>5 DEF KeyInv

\* The same of what other requests know.
LEMMA OthersKnow ==
  ASSUME KeyInv, Grows, NEW w \in Workers, NEW r, r.pc # "idle" => Knows(r)',
         request' = [request EXCEPT ![w] = r]
  PROVE  \A v \in Workers : ~At(v, "idle")' => Knows(request[v])'
<1> SUFFICES ASSUME NEW v \in Workers, request'[v].pc # "idle"
             PROVE  Knows(request[v])'
  BY DEF At
<1>1. request \in [Workers -> Running \cup {Idle}]
  BY DEF KeyInv, KeyTypeOK
<1>2. CASE v = w
  <2>1. request'[v] = r
    BY <1>1, <1>2
  <2> QED BY <2>1 DEF Knows
<1>3. CASE v # w
  <2>1. PICK q : q = request[v]
    OBVIOUS
  <2>2. request'[v] = q
    BY <1>1, <1>3, <2>1
  <2>3. ~At(v, "idle")
    BY <2>1, <2>2 DEF At
  <2>4. q \in Running /\ Knows(q)
    BY <2>1, <2>3, RunningTyped DEF KeyInv
  <2>5. Knows(q)'
    BY <2>4, KnowsGrows DEF KeyInv
  <2> QED BY <2>2, <2>5
<1> QED BY <1>2, <1>3


-----------------------------------------------------------------------------
(***************************************************************************)
(* Steps that leave the database alone                                     *)
(***************************************************************************)
\* The row stays with its holder, is let go, or is taken by a request that read it.
LockMoves(w, r) ==
  \/ /\ lock' = lock
     /\ lock = w => /\ r.pc \notin Outside
                    /\ r.prior = request[w].prior
                    /\ r.mutation = request[w].mutation
  \/ lock = w /\ lock' = NoWorker
  \/ /\ lock = NoWorker /\ lock' = w
     /\ r.pc \notin Outside
     /\ r.prior = control
     /\ receipts[Slot(r.mutation)] = NoReceipt

\* An owner has a new version or the one it had.
KeepsVersion(w, r) ==
  r.pc # "idle" /\ Owns(r) =>
    \/ r.version = Len(vault) + 1
    \/ /\ ~At(w, "idle")
       /\ Owns(request[w])
       /\ r.version = request[w].version
       /\ r.prior = request[w].prior
       /\ r.mutation = request[w].mutation

\* The versions that a table or a request names were stored.
LEMMA VersionsExist ==
  ASSUME KeyInv
  PROVE  /\ control.version \in 0..Len(vault)
         /\ lock = Server => doubt.row.version \in 0..Len(vault)
         /\ \A v \in Workers : ~At(v, "idle") /\ Owns(request[v]) =>
              request[v].version \in 1..Len(vault)
<1>1. KeyTypeOK /\ control \in Control /\ doubt.row \in Control
  BY DEF KeyInv, KeyTypeOK, Transactions
<1>2. ASSUME NEW row \in Control, Sound(row) PROVE row.version \in 0..Len(vault)
  BY <1>1, <1>2 DEF Sound, Configured, KeyTypeOK, Control
<1>3. ASSUME NEW v \in Workers, ~At(v, "idle"), Owns(request[v])
      PROVE  request[v].version \in 1..Len(vault)
  <2>1. Knows(request[v])
    BY <1>3 DEF KeyInv
  <2>2. Stored(request[v])
    BY <1>3, <2>1 DEF Knows, Owns, Ready
  <2> QED BY <2>2 DEF Stored
<1> QED BY <1>1, <1>2, <1>3 DEF KeyInv, Fits

\* The holder of the row goes on to hold it as he read it (LockMoves).
LEMMA HolderStays ==
  ASSUME KeyInv, UNCHANGED Database, NEW w \in Workers, NEW r,
         request' = [request EXCEPT ![w] = r], LockMoves(w, r)
  PROVE  HolderIsCurrent' /\ (lock' = Server => lock = Server)
<1> USE NullAssumption
<1>1. request \in [Workers -> Running \cup {Idle}]
  BY DEF KeyInv, KeyTypeOK
<1>2. control' = control /\ receipts' = receipts
  BY DEF Database
<1>3. ASSUME NEW v \in Workers, lock' = v
      PROVE  /\ request'[v].pc \notin Outside
             /\ request'[v].prior = control
             /\ receipts[Slot(request'[v].mutation)] = NoReceipt
  <2>1. CASE v = w
    <3>1. request'[v] = r
      BY <1>1, <2>1
    <3>2. lock = w => /\ request[w].prior = control
                      /\ receipts[Slot(request[w].mutation)] = NoReceipt
      BY DEF KeyInv, HolderIsCurrent, ReceiptOf
    <3> QED BY <1>3, <2>1, <3>1, <3>2 DEF LockMoves
  <2>2. CASE v # w
    <3>1. request'[v] = request[v]
      BY <1>1, <2>2
    <3>2. lock = v
      BY <1>3, <2>2 DEF LockMoves
    <3> QED BY <3>1, <3>2 DEF KeyInv, HolderIsCurrent, ReceiptOf, At
  <2> QED BY <2>1, <2>2
<1>4. HolderIsCurrent'
  BY <1>2, <1>3 DEF HolderIsCurrent, ReceiptOf, At
<1> QED BY <1>4 DEF LockMoves

\* A version keeps its one owner (KeepsVersion).
LEMMA OwnersStay ==
  ASSUME KeyInv, UNCHANGED <<Database, doubt>>, NEW w \in Workers, NEW r,
         request' = [request EXCEPT ![w] = r], KeepsVersion(w, r),
         lock' = Server => lock = Server
  PROVE  VersionsAreOwned'
<1>1. request \in [Workers -> Running \cup {Idle}]
  BY DEF KeyInv, KeyTypeOK
<1>2. control' = control /\ receipts' = receipts /\ doubt' = doubt
  BY DEF Database
<1>3. Len(vault) \in Nat
  BY DEF KeyInv, KeyTypeOK
<1> DEFINE Owner(q) == q.pc # "idle" /\ Owns(q)
           Mine(q) ==
             /\ control.version = q.version => Recorded(q)
             /\ lock = Server /\ doubt.row.version = q.version =>
                  Recorded(q) \/ IsActivation(doubt.receipt, q)
<1>4. \A v \in Workers : Owner(request[v]) => Mine(request[v])
  BY DEF KeyInv, VersionsAreOwned, At
<1>5. \A u, v \in Workers : u # v /\ Owner(request[u]) /\ Owner(request[v]) =>
        request[u].version # request[v].version
  BY DEF KeyInv, VersionsAreOwned, At
<1>6. Owner(r) => \/ r.version = Len(vault) + 1
                  \/ /\ Owner(request[w])
                     /\ r.version = request[w].version
                     /\ r.prior = request[w].prior
                     /\ r.mutation = request[w].mutation
  BY DEF KeepsVersion, At
<1>7. Owner(r) => Mine(r)
  <2>1. CASE r.version = Len(vault) + 1
    BY <1>3, <2>1, VersionsExist
  <2>2. CASE Owner(r) /\ r.version # Len(vault) + 1
    BY <1>4, <1>6, <2>2 DEF Recorded, IsActivation
  <2> QED BY <2>1, <2>2
<1>8. \A v \in Workers \ {w} : Owner(r) /\ Owner(request[v]) =>
        request[v].version # r.version
  BY <1>3, <1>5, <1>6, VersionsExist DEF At
<1> HIDE DEF Owner, Mine
<1>9. \A v \in Workers : request'[v] = IF v = w THEN r ELSE request[v]
  BY <1>1
<1>10. \A v \in Workers : Owner(request'[v]) => Mine(request'[v])
  BY <1>4, <1>7, <1>9
<1>11. \A u, v \in Workers : u # v /\ Owner(request'[u]) /\ Owner(request'[v]) =>
        request'[u].version # request'[v].version
  BY <1>5, <1>8, <1>9
<1> QED BY <1>2, <1>10, <1>11
        DEF VersionsAreOwned, Owner, Mine, At, Owns, Recorded, IsActivation


\* What a step adds to the answers is a failure or what a receipt says.
AnswersMove ==
  \A a \in answers' : a \in answers \/
    (a.mutation \in Mutations /\ (a.code = None => receipts[Slot(a.mutation)] = a))

\* The step of a thread that leaves the database alone keeps the invariant.
LEMMA LocalStep ==
  ASSUME KeyInv, NEW w \in Workers, NEW r \in Running \cup {Idle},
         request' = [request EXCEPT ![w] = r],
         UNCHANGED <<Database, doubt>>, Grows,
         vault' \in Seq(Secrets), qualified' \subseteq 1..Len(vault'),
         gap' \in BOOLEAN, started' \in 0..MaxRequests, faults' \in 0..MaxFaults,
         LockMoves(w, r), r.pc # "idle" => Knows(r)', KeepsVersion(w, r),
         AnswersMove
  PROVE  KeyInv'
<1>1. control' = control /\ receipts' = receipts /\ history' = history
        /\ doubt' = doubt
  BY DEF Database
<1>2. HolderIsCurrent' /\ (lock' = Server => lock = Server)
  BY HolderStays
<1>3. VersionsAreOwned'
  BY <1>2, OwnersStay
<1>4. \A v \in Workers : ~At(v, "idle")' => Knows(request[v])'
  BY OthersKnow
<1>5. lock' \in Workers \cup {NoWorker, Server}
  BY DEF LockMoves, KeyInv, KeyTypeOK
<1>6. request' \in [Workers -> Running \cup {Idle}]
  BY DEF KeyInv, KeyTypeOK
<1>7. KeyTypeOK'
  BY <1>1, <1>5, <1>6 DEF KeyInv, KeyTypeOK
<1>8. (lock = Server => Fits(doubt))'
  <2>1. SUFFICES ASSUME lock' = Server PROVE Fits(doubt)'
    OBVIOUS
  <2>2. PICK tx : tx = doubt
    OBVIOUS
  <2>3. Fits(tx) /\ tx.row \in Control
    BY <1>2, <2>1, <2>2 DEF KeyInv, KeyTypeOK, Transactions
  <2>4. Fits(tx)'
    BY <2>3, TablesStay
  <2> QED BY <1>1, <2>2, <2>4 DEF Fits
<1>9. AnswersAreReceipts'
  BY <1>1 DEF AnswersMove, KeyInv, AnswersAreReceipts
<1> QED BY <1>2, <1>3, <1>4, <1>7, <1>8, <1>9, TablesStay DEF KeyInv


\* What is unchanged grows.
LEMMA SameGrows ==
  ASSUME KeyTypeOK, UNCHANGED <<Database, vault, qualified>>
  PROVE  /\ Grows
         /\ vault' \in Seq(Secrets) /\ qualified' \subseteq 1..Len(vault')
BY DEF KeyTypeOK, Grows, Database

\* The empty transaction is one.
LEMMA NoTxTyped == NoTx \in Transactions
<1> USE NullAssumption
<1>1. Unconfigured \in Control
  BY DEF Unconfigured, Control
<1> QED BY <1>1 DEF NoTx, Transactions

\* Faults are counted up to their bound (Fault).
LEMMA FaultTyped ==
  ASSUME KeyTypeOK, Fault
  PROVE  faults' \in 0..MaxFaults
BY KeyBoundsAssumption DEF Fault, KeyTypeOK

\* A request that answers leaves, and lets go of the row if it has it (Answer).
LEMMA AnswerStep ==
  ASSUME KeyInv, NEW w \in Workers, ~At(w, "idle"), NEW code, NEW projection,
         Answer(w, code, projection),
         code = None => receipts[Slot(request[w].mutation)] =
           [mutation |-> request[w].mutation, code |-> code,
            projection |-> projection],
         UNCHANGED <<Database, doubt, qualified, started>>, Grows,
         vault' \in Seq(Secrets), qualified' \subseteq 1..Len(vault'),
         gap' \in BOOLEAN, faults' \in 0..MaxFaults,
         IF lock = w THEN lock' = NoWorker ELSE lock' = lock
  PROVE  KeyInv'
<1>1. request[w].mutation \in Mutations
  BY RunningTyped DEF KeyInv, Running
<1>2. request' = [request EXCEPT ![w] = Idle]
  BY DEF Answer, Set
<1>3. AnswersMove
  <2>1. PICK a : a = [mutation |-> request[w].mutation, code |-> code,
                      projection |-> projection]
    OBVIOUS
  <2>2. answers' = answers \cup {a}
    BY <2>1 DEF Answer
  <2>3. a.mutation = request[w].mutation /\ a.code = code
    BY <2>1
  <2> QED BY <1>1, <2>1, <2>2, <2>3 DEF AnswersMove
<1>4. LockMoves(w, Idle) /\ KeepsVersion(w, Idle) /\ Idle.pc = "idle"
  BY DEF LockMoves, KeepsVersion, Idle
<1>5. started' \in 0..MaxRequests
  BY DEF KeyInv, KeyTypeOK
<1> QED BY <1>2, <1>3, <1>4, <1>5, LocalStep

\* A refusal is no success (Refuse).
LEMMA RefuseStep ==
  ASSUME KeyInv, NEW w \in Workers, ~At(w, "idle"), NEW code, code # None,
         Refuse(w, code),
         UNCHANGED <<Database, doubt, qualified, started>>, Grows,
         vault' \in Seq(Secrets), qualified' \subseteq 1..Len(vault'),
         gap' \in BOOLEAN, faults' \in 0..MaxFaults,
         IF lock = w THEN lock' = NoWorker ELSE lock' = lock
  PROVE  KeyInv'
BY AnswerStep DEF Refuse

\* A request that goes on with the same mutation, against the same row (Set).
LEMMA GoStep ==
  ASSUME KeyInv, NEW w \in Workers, ~At(w, "idle"), NEW r \in Running,
         request' = [request EXCEPT ![w] = r],
         r.pc # "lock", r.prior = request[w].prior,
         r.mutation = request[w].mutation,
         UNCHANGED <<Database, doubt, answers, started>>, Grows,
         vault' \in Seq(Secrets), qualified' \subseteq 1..Len(vault'),
         gap' \in BOOLEAN, faults' \in 0..MaxFaults,
         IF lock = w THEN lock' \in {lock, NoWorker} ELSE lock' = lock,
         lock' = w => r.pc \notin Outside,
         Knows(r)', KeepsVersion(w, r)
  PROVE  KeyInv'
<1>1. r.pc # "idle"
  BY DEF Running, Stages
<1>2. LockMoves(w, r)
  BY <1>1 DEF LockMoves
<1>3. AnswersMove
  BY DEF AnswersMove
<1>4. started' \in 0..MaxRequests
  BY DEF KeyInv, KeyTypeOK
<1> QED BY <1>2, <1>3, <1>4, LocalStep

-----------------------------------------------------------------------------
(***************************************************************************)
(* The actions that leave the database alone                               *)
(***************************************************************************)
\* A form is submitted (Begin).
LEMMA KeepBegin ==
  ASSUME KeyInv, NEW w \in Workers, Begin(w)
  PROVE  KeyInv'
<1>1. PICK m \in [kind : {"rotate"}, key : Keys,
                  expected : 0..control.revision, secret : Secrets]
        \cup [kind : {"channels"}, key : Keys, expected : 0..control.revision,
              operator : BOOLEAN, demo : BOOLEAN] :
        Set(w, [pc |-> "lock", mutation |-> m, prior |-> Unconfigured,
                previous |-> NoSecret, wrote |-> FALSE, version |-> 0,
                code |-> None, checked |-> 0, tx |-> NoTx])
  BY DEF Begin
<1>2. m \in Mutations
  BY DEF Mutations, Rotations, Switches
<1>3. PICK r : r = [pc |-> "lock", mutation |-> m, prior |-> Unconfigured,
                    previous |-> NoSecret, wrote |-> FALSE, version |-> 0,
                    code |-> None, checked |-> 0, tx |-> NoTx]
  OBVIOUS
<1>4. r \in Running
  <2>1. Unconfigured \in Control
    BY DEF Unconfigured, Control
  <2> QED BY <1>2, <1>3, <2>1, NoTxTyped DEF Running, Stages
<1>5. request' = [request EXCEPT ![w] = r]
  BY <1>1, <1>3 DEF Set
<1>6. r.pc = "lock"
  BY <1>3
<1>7. Knows(r)'
  BY <1>6 DEF Knows, RotationStages
<1>8. KeepsVersion(w, r)
  BY <1>6 DEF KeepsVersion, Owns
<1>9. lock # w /\ lock' = lock
  BY DEF KeyInv, HolderIsCurrent, Begin, At, Outside
<1>10. LockMoves(w, r)
  BY <1>9 DEF LockMoves
<1>11. /\ UNCHANGED <<Database, doubt, vault, qualified>>
       /\ gap' \in BOOLEAN /\ faults' \in 0..MaxFaults
       /\ AnswersMove
  BY DEF Begin, KeyInv, KeyTypeOK, AnswersMove
<1>12. started' \in 0..MaxRequests
  BY KeyBoundsAssumption DEF Begin, KeyInv, KeyTypeOK
<1>13. Grows /\ vault' \in Seq(Secrets) /\ qualified' \subseteq 1..Len(vault')
  BY <1>11, SameGrows DEF KeyInv
<1> QED BY <1>4, <1>5, <1>7, <1>8, <1>10, <1>11, <1>12, <1>13, LocalStep

\* A request that cannot have the row, or comes too late, is refused, and one that
\* was answered is answered again (Busy, Replay, Stale).
LEMMA KeepEarly ==
  ASSUME KeyInv, NEW w \in Workers, Busy(w) \/ Replay(w) \/ Stale(w)
  PROVE  KeyInv'
<1>1. /\ At(w, "lock") /\ ~At(w, "idle")
      /\ UNCHANGED <<Database, lock, vault, doubt, qualified, gap, started, faults>>
  BY DEF Busy, Replay, Stale, At
<1>2. lock # w
  BY <1>1 DEF KeyInv, HolderIsCurrent, Outside, At
<1>3. /\ Grows /\ vault' \in Seq(Secrets) /\ qualified' \subseteq 1..Len(vault')
      /\ gap' \in BOOLEAN /\ faults' \in 0..MaxFaults
  BY <1>1, SameGrows DEF KeyInv, KeyTypeOK
<1>4. ASSUME NEW code \in {"busy", "conflict"}, Refuse(w, code) PROVE KeyInv'
  <2>1. code # None
    BY DEF None
  <2> QED BY <1>1, <1>2, <1>3, <1>4, <2>1, RefuseStep
<1>5. CASE Busy(w) \/ Stale(w)
  BY <1>4, <1>5 DEF Busy, Stale
<1>6. CASE Replay(w) /\ ~Refuse(w, "conflict")
  <2>1. PICK receipt : receipt = ReceiptOf(w)
    OBVIOUS
  <2>2. /\ receipt # NoReceipt /\ receipt.mutation = request[w].mutation
        /\ Answer(w, receipt.code, receipt.projection)
    BY <1>6, <2>1 DEF Replay
  <2>3. receipt \in Receipts
    <3>1. request[w].mutation \in Mutations
      BY <1>1, RunningTyped DEF KeyInv, Running
    <3> QED BY <2>1, <3>1, SlotTyped DEF ReceiptOf, KeyInv
  <2>4. receipt = [mutation |-> request[w].mutation, code |-> receipt.code,
                   projection |-> receipt.projection]
    BY <2>2, <2>3 DEF Receipts
  <2> QED BY <1>1, <1>2, <1>3, <2>1, <2>2, <2>4, AnswerStep DEF ReceiptOf
<1> QED BY <1>4, <1>5, <1>6

\* The row is read and held; what comes next depends on it (Lock).
LEMMA KeepLock ==
  ASSUME KeyInv, NEW w \in Workers, Lock(w)
  PROVE  KeyInv'
<1>1. /\ At(w, "lock") /\ ~At(w, "idle") /\ lock = NoWorker /\ lock' = w
      /\ ReceiptOf(w) = NoReceipt
      /\ UNCHANGED <<Database, vault, doubt, answers, qualified, gap, started, faults>>
  BY DEF Lock, At
<1>2. request[w] \in Running /\ control \in Control
  BY <1>1, RunningTyped DEF KeyInv, KeyTypeOK
<1> DEFINE m == request[w].mutation
           Next1(pc, code) ==
             \/ pc = "previous" /\ code = None /\ m.kind = "rotate" /\ Configured(control)
             \/ pc = "validate" /\ code = None /\ m.kind = "rotate"
             \/ pc = "record" /\ code = "secret_unavailable"
             \/ /\ pc \in {"qualify", "record"} /\ code = None /\ m.kind = "channels"
                /\ m.operator \/ m.demo => Configured(control)
                /\ pc = "qualify" => Configured(control)
<1>3. m \in Mutations /\ m.kind \in Kinds
  BY <1>2, SlotTyped DEF Running
<1>4. PICK pc, code : /\ Next1(pc, code)
                      /\ Set(w, [request[w] EXCEPT !.pc = pc, !.code = code,
                                                   !.prior = control])
  BY <1>3 DEF Lock, TurnsOn, Kinds
<1>5. PICK r : r = [request[w] EXCEPT !.pc = pc, !.code = code, !.prior = control]
  OBVIOUS
<1>6. pc \in Stages \ {"lock"} /\ code \in {None} \cup Failures
  BY <1>4 DEF Stages, Failures
<1>7. /\ r \in Running
      /\ r.pc = pc /\ r.code = code /\ r.prior = control /\ r.mutation = m
  BY <1>2, <1>5, <1>6 DEF Running
<1>8. r.pc \notin Outside
  BY <1>4, <1>7 DEF Outside
<1>9. LockMoves(w, r)
  BY <1>1, <1>7, <1>8 DEF LockMoves, ReceiptOf
<1>10. Sound(control) /\ Past(control)
  BY <1>2 DEF KeyInv, HistoryIsControl, Past, Control
<1>11. Knows(r)
  BY <1>4, <1>7, <1>10 DEF Knows, Ready, RotationStages, Failures, None
<1>12. /\ Grows /\ vault' \in Seq(Secrets) /\ qualified' \subseteq 1..Len(vault')
       /\ gap' \in BOOLEAN /\ started' \in 0..MaxRequests /\ faults' \in 0..MaxFaults
  BY <1>1, SameGrows DEF KeyInv, KeyTypeOK
<1>13. Knows(r)'
  BY <1>7, <1>11, <1>12, KnowsGrows DEF KeyInv
<1>14. KeepsVersion(w, r)
  BY <1>4, <1>7 DEF KeepsVersion, Owns, None
<1>15. request' = [request EXCEPT ![w] = r] /\ AnswersMove
  BY <1>1, <1>4, <1>5 DEF Set, AnswersMove
<1> QED BY <1>1, <1>7, <1>9, <1>12, <1>13, <1>14, <1>15, LocalStep

\* What every step of a running request may assume of it.
LEMMA RequestFacts ==
  ASSUME KeyInv, NEW w \in Workers, ~At(w, "idle")
  PROVE  /\ request[w] \in Running /\ Knows(request[w])
         /\ request[w].mutation \in Mutations
         /\ request[w].mutation.kind \in Kinds
         /\ request[w].prior \in Control
BY RunningTyped, SlotTyped DEF KeyInv, Running

\* A step that only moves a request on, perhaps with a failure, while the store,
\* the lock and what was accepted stay as they are (Goto, FailAt).
LEMMA MoveStep ==
  ASSUME KeyInv, NEW w \in Workers, ~At(w, "idle"),
         NEW pc \in Stages \ {"lock"}, NEW code \in {None} \cup Failures,
         request' = [request EXCEPT ![w] =
                       [request[w] EXCEPT !.pc = pc, !.code = code]],
         UNCHANGED <<Database, doubt, vault, answers, qualified, started>>,
         gap' \in BOOLEAN, faults' \in 0..MaxFaults,
         IF lock = w THEN lock' \in {lock, NoWorker} ELSE lock' = lock,
         lock' = w => pc \notin Outside,
         Knows([request[w] EXCEPT !.pc = pc, !.code = code]),
         KeepsVersion(w, [request[w] EXCEPT !.pc = pc, !.code = code])
  PROVE  KeyInv'
<1>1. PICK r : r = [request[w] EXCEPT !.pc = pc, !.code = code]
  OBVIOUS
<1>2. request[w] \in Running
  BY RequestFacts
<1>3. /\ r \in Running
      /\ r.pc = pc /\ r.prior = request[w].prior /\ r.mutation = request[w].mutation
  BY <1>1, <1>2 DEF Running
<1>4. Grows /\ vault' \in Seq(Secrets) /\ qualified' \subseteq 1..Len(vault')
  BY SameGrows DEF KeyInv
<1>5. Knows(r)'
  BY <1>1, <1>3, <1>4, KnowsGrows DEF KeyInv
<1> QED BY <1>1, <1>3, <1>4, <1>5, GoStep DEF Outside

\* A step on that claims nothing: the request only owned what it goes on to own.
LEMMA FailStep ==
  ASSUME KeyInv, NEW w \in Workers, ~At(w, "idle"), ~At(w, "lock"),
         NEW pc \in {"record", "compensate", "validate", "write"},
         NEW code \in {None} \cup Failures,
         pc \in {"record", "compensate"} => code # None,
         pc \in RotationStages => request[w].mutation.kind = "rotate",
         request' = [request EXCEPT ![w] =
                       [request[w] EXCEPT !.pc = pc, !.code = code]],
         UNCHANGED <<Database, doubt, vault, lock, answers, qualified, started>>,
         gap' \in BOOLEAN, faults' \in 0..MaxFaults
  PROVE  KeyInv'
<1>1. PICK r : r = [request[w] EXCEPT !.pc = pc, !.code = code]
  OBVIOUS
<1>2. request[w] \in Running /\ Knows(request[w])
  BY RequestFacts
<1>3. /\ r.pc = pc /\ r.code = code /\ r.prior = request[w].prior
      /\ r.mutation = request[w].mutation
  BY <1>1, <1>2 DEF Running
<1>4. Knows(r)
  BY <1>2, <1>3 DEF Knows, At
<1>5. KeepsVersion(w, r)
  BY <1>3 DEF KeepsVersion, Owns
<1>6. pc \in Stages \ {"lock"} /\ pc \notin Outside
  BY DEF Stages, Outside
<1> QED BY <1>1, <1>4, <1>5, <1>6, MoveStep

\* The previous value is read, for it may have to be put back (ReadPrevious).
LEMMA KeepReadPrevious ==
  ASSUME KeyInv, NEW w \in Workers, ReadPrevious(w)
  PROVE  KeyInv'
<1>1. /\ At(w, "previous") /\ ~At(w, "idle") /\ ~At(w, "lock")
      /\ UNCHANGED <<Database, lock, vault, doubt, answers, qualified, gap, started>>
  BY DEF ReadPrevious, At
<1>2. request[w] \in Running /\ Knows(request[w])
  BY <1>1, RequestFacts
<1>3. request[w].mutation.kind = "rotate" /\ Sound(request[w].prior)
        /\ Configured(request[w].prior)
  BY <1>1, <1>2 DEF Knows, At, RotationStages
<1>4. gap' \in BOOLEAN
  BY <1>1 DEF KeyInv, KeyTypeOK
<1>5. CASE /\ Set(w, [request[w] EXCEPT !.pc = "validate",
                                        !.previous = vault[request[w].prior.version]])
           /\ UNCHANGED faults
  <2>1. PICK r : r = [request[w] EXCEPT !.pc = "validate",
                                        !.previous = vault[request[w].prior.version]]
    OBVIOUS
  <2>2. vault[request[w].prior.version] \in Secrets
    <3>1. request[w].prior.version \in qualified
      BY <1>3 DEF Sound
    <3>2. vault \in Seq(Secrets) /\ request[w].prior.version \in 1..Len(vault)
      BY <3>1 DEF KeyInv, KeyTypeOK
    <3>3. \A s \in Seq(Secrets) : \A i \in 1..Len(s) : s[i] \in Secrets
      OBVIOUS
    <3> QED BY <3>2, <3>3
  <2>3. /\ r \in Running /\ r.pc = "validate" /\ r.prior = request[w].prior
        /\ r.mutation = request[w].mutation
    BY <1>2, <2>1, <2>2 DEF Running, Stages
  <2>4. Grows /\ vault' \in Seq(Secrets) /\ qualified' \subseteq 1..Len(vault')
    BY <1>1, SameGrows DEF KeyInv
  <2>5. Knows(r)
    BY <1>1, <1>2, <1>3, <2>3 DEF Knows, At
  <2>6. Knows(r)' /\ KeepsVersion(w, r)
    BY <2>3, <2>4, <2>5, KnowsGrows DEF KeyInv, KeepsVersion, Owns
  <2>7. request' = [request EXCEPT ![w] = r]
    BY <1>5, <2>1 DEF Set
  <2>8. faults' \in 0..MaxFaults
    BY <1>5 DEF KeyInv, KeyTypeOK
  <2> QED BY <1>1, <1>4, <2>3, <2>4, <2>6, <2>7, <2>8, GoStep DEF Outside
<1>6. CASE Fault /\ FailAt(w, "record", "secret_unavailable")
  <2>1. faults' \in 0..MaxFaults
    BY <1>6, FaultTyped DEF KeyInv
  <2>2. "secret_unavailable" \in Failures /\ "secret_unavailable" # None
    BY DEF Failures, None
  <2>3. request' = [request EXCEPT ![w] = [request[w] EXCEPT
                      !.pc = "record", !.code = "secret_unavailable"]]
    BY <1>6 DEF FailAt, Set
  <2> QED BY <1>1, <1>4, <2>1, <2>2, <2>3, FailStep DEF RotationStages
<1> QED BY <1>5, <1>6 DEF ReadPrevious

\* The provider's verdict on the candidate (Validate).
LEMMA KeepValidate ==
  ASSUME KeyInv, NEW w \in Workers, Validate(w)
  PROVE  KeyInv'
<1>1. /\ At(w, "validate") /\ ~At(w, "idle") /\ ~At(w, "lock")
      /\ UNCHANGED <<Database, lock, vault, doubt, answers, qualified, gap, started,
                     faults>>
  BY DEF Validate, At
<1>2. PICK code \in Verdicts :
        FailAt(w, IF code = None THEN "write" ELSE "record", code)
  BY DEF Validate
<1>3. code \in {None} \cup Failures
  BY DEF Verdicts, Failures
<1>4. request[w].mutation.kind = "rotate"
  BY <1>1, RequestFacts DEF Knows, At, RotationStages
<1>5. gap' \in BOOLEAN /\ faults' \in 0..MaxFaults
  BY <1>1 DEF KeyInv, KeyTypeOK
<1>6. CASE code = None
  <2>1. request' = [request EXCEPT ![w] = [request[w] EXCEPT
                      !.pc = "write", !.code = code]]
    BY <1>2, <1>6 DEF FailAt, Set
  <2> QED BY <1>1, <1>3, <1>4, <1>5, <2>1, FailStep
<1>7. CASE code # None
  <2>1. request' = [request EXCEPT ![w] = [request[w] EXCEPT
                      !.pc = "record", !.code = code]]
    BY <1>2, <1>7 DEF FailAt, Set
  <2> QED BY <1>1, <1>3, <1>4, <1>5, <1>7, <2>1, FailStep
<1> QED BY <1>6, <1>7

\* What is stored makes everything grow; nothing is accepted yet (Store).
LEMMA StoredGrows ==
  ASSUME KeyInv, NEW s \in Secrets, Store(s) \/ UNCHANGED vault,
         UNCHANGED <<Database, qualified>>
  PROVE  /\ Grows
         /\ vault' \in Seq(Secrets) /\ qualified' \subseteq 1..Len(vault')
<1>1. CASE Store(s)
  <2>1. /\ vault' \in Seq(Secrets) /\ Len(vault') = Len(vault) + 1
        /\ \A i \in 1..Len(vault) : vault'[i] = vault[i]
    BY <1>1, StoreGrows DEF KeyInv
  <2> QED BY <2>1 DEF Grows, KeyInv, KeyTypeOK, Database
<1>2. CASE UNCHANGED vault
  BY <1>2, SameGrows DEF KeyInv
<1> QED BY <1>1, <1>2

\* The candidate is written, and has a version of its own (Write).
LEMMA KeepWrite ==
  ASSUME KeyInv, NEW w \in Workers, Write(w)
  PROVE  KeyInv'
<1>1. /\ At(w, "write") /\ ~At(w, "idle") /\ ~At(w, "lock")
      /\ UNCHANGED <<Database, lock, doubt, answers, qualified, gap, started>>
  BY DEF Write, At
<1>2. request[w] \in Running /\ Knows(request[w])
  BY <1>1, RequestFacts
<1>3. request[w].mutation.kind = "rotate" /\ request[w].mutation.secret \in Secrets
  <2>1. request[w].mutation.kind = "rotate"
    BY <1>1, <1>2 DEF Knows, At, RotationStages
  <2> QED BY <1>2, <2>1 DEF Running, Mutations, Rotations, Switches
<1>4. gap' \in BOOLEAN /\ (Store(request[w].mutation.secret) \/ UNCHANGED vault)
  BY <1>1 DEF KeyInv, KeyTypeOK, Write
<1>5. Grows /\ vault' \in Seq(Secrets) /\ qualified' \subseteq 1..Len(vault')
  BY <1>1, <1>3, <1>4, StoredGrows
<1>6. CASE /\ Store(request[w].mutation.secret)
           /\ Set(w, [request[w] EXCEPT !.pc = "readback", !.wrote = TRUE,
                                        !.version = Len(vault) + 1])
           /\ UNCHANGED faults
  <2>1. PICK r : r = [request[w] EXCEPT !.pc = "readback", !.wrote = TRUE,
                                        !.version = Len(vault) + 1]
    OBVIOUS
  <2>2. Len(vault) + 1 \in Nat
    BY DEF KeyInv, KeyTypeOK
  <2>3. /\ r \in Running /\ r.pc = "readback" /\ r.prior = request[w].prior
        /\ r.mutation = request[w].mutation /\ r.version = Len(vault) + 1
    BY <1>2, <2>1, <2>2 DEF Running, Stages
  <2>4. Stored(r)'
    BY <1>3, <1>6, <2>2, <2>3, StoreGrows DEF Stored, KeyInv
  <2>5. Sound(r.prior)' /\ Past(r.prior)'
    <3>1. r.prior \in Control /\ Sound(r.prior) /\ Past(r.prior)
      BY <1>1, <1>2, <2>3 DEF Knows, At, Running
    <3>2. Sound(r.prior)'
      BY <1>5, <3>1, SoundGrows DEF KeyInv
    <3> QED BY <1>5, <3>1, <3>2 DEF Past, Grows, KeyInv, KeyTypeOK
  <2>6. Knows(r)'
    BY <1>3, <2>3, <2>4, <2>5 DEF Knows
  <2>7. KeepsVersion(w, r)
    BY <2>3 DEF KeepsVersion
  <2>8. request' = [request EXCEPT ![w] = r] /\ faults' \in 0..MaxFaults
    BY <1>6, <2>1 DEF Set, KeyInv, KeyTypeOK
  <2> QED BY <1>1, <1>4, <1>5, <2>3, <2>6, <2>7, <2>8, GoStep DEF Outside
<1>7. CASE /\ Fault
           /\ Set(w, [request[w] EXCEPT !.pc = "compensate", !.wrote = TRUE,
                                        !.code = "secret_unavailable"])
  <2>1. PICK r : r = [request[w] EXCEPT !.pc = "compensate", !.wrote = TRUE,
                                        !.code = "secret_unavailable"]
    OBVIOUS
  <2>2. /\ r \in Running /\ r.pc = "compensate" /\ r.prior = request[w].prior
        /\ r.mutation = request[w].mutation /\ r.code # None
    BY <1>2, <2>1 DEF Running, Stages, Failures, None
  <2>3. Knows(r)
    BY <1>1, <1>2, <1>3, <2>2 DEF Knows, At
  <2>4. Knows(r)' /\ KeepsVersion(w, r)
    BY <1>5, <2>2, <2>3, KnowsGrows DEF KeyInv, KeepsVersion, Owns
  <2>5. faults' \in 0..MaxFaults
    BY <1>7, FaultTyped DEF KeyInv
  <2>6. request' = [request EXCEPT ![w] = r]
    BY <1>7, <2>1 DEF Set
  <2> QED BY <1>1, <1>4, <1>5, <2>2, <2>4, <2>5, <2>6, GoStep DEF Outside
<1> QED BY <1>6, <1>7 DEF Write

\* The stored value is read back (ReadBack).
LEMMA KeepReadBack ==
  ASSUME KeyInv, NEW w \in Workers, ReadBack(w)
  PROVE  KeyInv'
<1>1. /\ At(w, "readback") /\ ~At(w, "idle") /\ ~At(w, "lock")
      /\ UNCHANGED <<Database, lock, vault, doubt, answers, qualified, gap, started>>
  BY DEF ReadBack, At
<1>2. request[w] \in Running /\ Knows(request[w])
  BY <1>1, RequestFacts
<1>3. request[w].mutation.kind = "rotate" /\ Stored(request[w])
  BY <1>1, <1>2 DEF Knows, At, RotationStages
<1>4. gap' \in BOOLEAN
  BY <1>1 DEF KeyInv, KeyTypeOK
<1>5. CASE Goto(w, "revalidate") /\ UNCHANGED faults
  <2>1. PICK r : r = [request[w] EXCEPT !.pc = "revalidate"]
    OBVIOUS
  <2>2. /\ r \in Running /\ r.pc = "revalidate" /\ r.prior = request[w].prior
        /\ r.mutation = request[w].mutation /\ r.version = request[w].version
    BY <1>2, <2>1 DEF Running, Stages
  <2>3. Knows(r)
    BY <1>1, <1>2, <1>3, <2>2 DEF Knows, At, Stored
  <2>4. Grows /\ vault' \in Seq(Secrets) /\ qualified' \subseteq 1..Len(vault')
    BY <1>1, SameGrows DEF KeyInv
  <2>5. Knows(r)' /\ KeepsVersion(w, r)
    BY <1>1, <2>2, <2>3, <2>4, KnowsGrows DEF KeyInv, KeepsVersion, Owns, At
  <2>6. request' = [request EXCEPT ![w] = r] /\ faults' \in 0..MaxFaults
    BY <1>5, <2>1 DEF Goto, Set, KeyInv, KeyTypeOK
  <2> QED BY <1>1, <1>4, <2>2, <2>4, <2>5, <2>6, GoStep DEF Outside
<1>6. CASE Fault /\ FailAt(w, "compensate", "secret_unavailable")
  <2>1. faults' \in 0..MaxFaults
    BY <1>6, FaultTyped DEF KeyInv
  <2>2. "secret_unavailable" \in Failures /\ "secret_unavailable" # None
    BY DEF Failures, None
  <2>3. request' = [request EXCEPT ![w] = [request[w] EXCEPT
                      !.pc = "compensate", !.code = "secret_unavailable"]]
    BY <1>6 DEF FailAt, Set
  <2> QED BY <1>1, <1>3, <1>4, <2>1, <2>2, <2>3, FailStep
<1> QED BY <1>5, <1>6 DEF ReadBack

\* The provider accepts the stored version, or not (Revalidate).
LEMMA KeepRevalidate ==
  ASSUME KeyInv, NEW w \in Workers, Revalidate(w)
  PROVE  KeyInv'
<1>1. /\ At(w, "revalidate") /\ ~At(w, "idle") /\ ~At(w, "lock")
      /\ UNCHANGED <<Database, lock, vault, doubt, answers, gap, started, faults>>
  BY DEF Revalidate, At
<1>2. request[w] \in Running /\ Knows(request[w])
  BY <1>1, RequestFacts
<1>3. request[w].mutation.kind = "rotate" /\ Stored(request[w])
  BY <1>1, <1>2 DEF Knows, At, RotationStages
<1>4. gap' \in BOOLEAN /\ faults' \in 0..MaxFaults
  BY <1>1 DEF KeyInv, KeyTypeOK
<1>5. CASE Goto(w, "record") /\ qualified' = qualified \cup {request[w].version}
  <2>1. PICK r : r = [request[w] EXCEPT !.pc = "record"]
    OBVIOUS
  <2>2. /\ r \in Running /\ r.pc = "record" /\ r.prior = request[w].prior
        /\ r.mutation = request[w].mutation /\ r.version = request[w].version
    BY <1>2, <2>1 DEF Running, Stages
  <2>3. Grows /\ vault' \in Seq(Secrets) /\ qualified' \subseteq 1..Len(vault')
    <3>1. PICK i : i = request[w].version
      OBVIOUS
    <3>2. i \in 1..Len(vault) /\ qualified' = qualified \cup {i}
      BY <1>3, <1>5, <3>1 DEF Stored
    <3>3. vault' = vault /\ history' = history
      BY <1>1 DEF Database
    <3> QED BY <3>2, <3>3 DEF Grows, KeyInv, KeyTypeOK
  <2>4. Sound(r.prior)' /\ Past(r.prior)'
    <3>1. r.prior \in Control /\ Sound(r.prior) /\ Past(r.prior)
      BY <1>1, <1>2, <2>2 DEF Knows, At, Running
    <3>2. Sound(r.prior)'
      BY <2>3, <3>1, SoundGrows DEF KeyInv
    <3> QED BY <2>3, <3>1, <3>2 DEF Past, Grows, KeyInv, KeyTypeOK
  <2>5. Ready(r)'
    BY <1>1, <1>3, <1>5, <2>2 DEF Ready, Stored
  <2>6. Knows(r)'
    BY <2>2, <2>4, <2>5 DEF Knows, RotationStages
  <2>7. KeepsVersion(w, r)
    BY <1>1, <2>2 DEF KeepsVersion, Owns, At
  <2>8. request' = [request EXCEPT ![w] = r]
    BY <1>5, <2>1 DEF Goto, Set
  <2> QED BY <1>1, <1>4, <2>2, <2>3, <2>6, <2>7, <2>8, GoStep DEF Outside
<1>6. ASSUME NEW code \in Verdicts, code # None, FailAt(w, "compensate", code),
             UNCHANGED qualified
      PROVE  KeyInv'
  <2>1. request' = [request EXCEPT ![w] = [request[w] EXCEPT
                      !.pc = "compensate", !.code = code]]
    BY <1>6 DEF FailAt, Set
  <2>2. code \in {None} \cup Failures
    BY <1>6 DEF Verdicts, Failures
  <2> QED BY <1>1, <1>3, <1>4, <1>6, <2>1, <2>2, FailStep
<1> QED BY <1>5, <1>6 DEF Revalidate

\* The provider is asked about the bound key (Qualify).
LEMMA KeepQualify ==
  ASSUME KeyInv, NEW w \in Workers, Qualify(w)
  PROVE  KeyInv'
<1>1. /\ At(w, "qualify") /\ ~At(w, "idle") /\ ~At(w, "lock")
      /\ UNCHANGED <<Database, lock, vault, doubt, answers, qualified, gap, started>>
  BY DEF Qualify, At
<1>2. request[w] \in Running /\ Knows(request[w])
  BY <1>1, RequestFacts
<1>3. request[w].mutation.kind = "channels" /\ Configured(request[w].prior)
  BY <1>1, <1>2 DEF Knows, At
<1>4. gap' \in BOOLEAN
  BY <1>1 DEF KeyInv, KeyTypeOK
<1>5. ASSUME NEW code \in Verdicts, UNCHANGED faults,
             Set(w, [request[w] EXCEPT !.pc = "record", !.code = code,
                       !.checked = IF code = None
                                   THEN request[w].prior.version ELSE 0])
      PROVE  KeyInv'
  <2>1. PICK r : r = [request[w] EXCEPT !.pc = "record", !.code = code,
                        !.checked = IF code = None
                                    THEN request[w].prior.version ELSE 0]
    OBVIOUS
  <2>2. (IF code = None THEN request[w].prior.version ELSE 0) \in Nat
    BY <1>2 DEF Running, Control
  <2>3. code \in {None} \cup Failures
    BY DEF Verdicts, Failures
  <2>4. /\ r \in Running /\ r.pc = "record" /\ r.prior = request[w].prior
        /\ r.mutation = request[w].mutation /\ r.version = request[w].version
    BY <1>2, <2>1, <2>2, <2>3 DEF Running, Stages
  <2>5. Knows(r)
    BY <1>1, <1>2, <1>3, <2>4 DEF Knows, At, Ready, RotationStages
  <2>6. Grows /\ vault' \in Seq(Secrets) /\ qualified' \subseteq 1..Len(vault')
    BY <1>1, SameGrows DEF KeyInv
  <2>7. Knows(r)' /\ KeepsVersion(w, r)
    BY <1>3, <2>4, <2>5, <2>6, KnowsGrows DEF KeyInv, KeepsVersion, Owns
  <2>8. request' = [request EXCEPT ![w] = r] /\ faults' \in 0..MaxFaults
    BY <1>5, <2>1 DEF Set, KeyInv, KeyTypeOK
  <2> QED BY <1>1, <1>4, <2>4, <2>6, <2>7, <2>8, GoStep DEF Outside
<1>6. CASE Fault /\ FailAt(w, "record", "secret_unavailable")
  <2>1. faults' \in 0..MaxFaults
    BY <1>6, FaultTyped DEF KeyInv
  <2>2. "secret_unavailable" \in Failures /\ "secret_unavailable" # None
    BY DEF Failures, None
  <2>3. request' = [request EXCEPT ![w] = [request[w] EXCEPT
                      !.pc = "record", !.code = "secret_unavailable"]]
    BY <1>6 DEF FailAt, Set
  <2> QED BY <1>1, <1>4, <2>1, <2>2, <2>3, FailStep DEF RotationStages
<1> QED BY <1>5, <1>6 DEF Qualify

\* Whatever _compensate does, the store only grows (PutBack).
LEMMA PutBackGrows ==
  ASSUME KeyInv, NEW w \in Workers, ~At(w, "idle"),
         NEW alone \in BOOLEAN, NEW restored \in BOOLEAN, NEW failed \in BOOLEAN,
         PutBack(w, alone, restored, failed), UNCHANGED <<Database, qualified>>
  PROVE  /\ Grows
         /\ vault' \in Seq(Secrets) /\ qualified' \subseteq 1..Len(vault')
         /\ gap' \in BOOLEAN /\ faults' \in 0..MaxFaults
         /\ restored \/ failed
<1>1. request[w].previous \in Secrets \cup {NoSecret}
  BY RequestFacts DEF Running
<1>2. gap \in BOOLEAN /\ faults \in 0..MaxFaults /\ KeyTypeOK
  BY DEF KeyInv, KeyTypeOK
<1>3. Grows /\ vault' \in Seq(Secrets) /\ qualified' \subseteq 1..Len(vault')
  <2>1. CASE request[w].previous = NoSecret
    BY <1>2, <2>1, SameGrows DEF PutBack
  <2>2. CASE request[w].previous # NoSecret
    BY <1>1, <2>2, StoredGrows DEF PutBack
  <2> QED BY <2>1, <2>2
<1> QED BY <1>2, <1>3, FaultTyped DEF PutBack

\* The previous value is put back while the row is locked (Compensate).
LEMMA KeepCompensate ==
  ASSUME KeyInv, NEW w \in Workers, Compensate(w)
  PROVE  KeyInv'
<1>1. /\ At(w, "compensate") /\ ~At(w, "idle") /\ ~At(w, "lock")
      /\ UNCHANGED <<Database, lock, doubt, answers, qualified, started>>
  BY DEF Compensate, At
<1>2. request[w] \in Running /\ Knows(request[w])
  BY <1>1, RequestFacts
<1> DEFINE failure == IF request[w].previous = NoSecret
                      THEN "reconciliation_required" ELSE "secret_unavailable"
           restored == Goto(w, "record")
           failed == FailAt(w, "record", failure)
           alone == lock = w
<1>3. PutBack(w, alone, restored, failed)
  BY DEF Compensate
<1>4. alone \in BOOLEAN /\ restored \in BOOLEAN /\ failed \in BOOLEAN
  BY DEF Goto, FailAt, Set
<1>5. failure \in Failures /\ failure # None
  BY DEF Failures, None
<1> HIDE DEF failure, restored, failed, alone
<1>6. /\ Grows /\ vault' \in Seq(Secrets) /\ qualified' \subseteq 1..Len(vault')
      /\ gap' \in BOOLEAN /\ faults' \in 0..MaxFaults /\ (restored \/ failed)
  BY <1>1, <1>3, <1>4, PutBackGrows
<1>7. PICK code \in Failures \ {None} :
        request' = [request EXCEPT ![w] = [request[w] EXCEPT
                      !.pc = "record", !.code = code]]
  <2>1. CASE restored
    <3>1. request[w].code \in Failures \ {None}
      BY <1>1, <1>2 DEF Knows, At, Running
    <3>2. [request[w] EXCEPT !.pc = "record"] =
            [request[w] EXCEPT !.pc = "record", !.code = request[w].code]
      BY <1>2 DEF Running
    <3> QED BY <2>1, <3>1, <3>2 DEF restored, Goto, Set
  <2>2. CASE failed
    BY <1>5, <2>2 DEF failed, FailAt, Set
  <2> QED BY <1>6, <2>1, <2>2
<1>8. PICK r : r = [request[w] EXCEPT !.pc = "record", !.code = code]
  OBVIOUS
<1>9. /\ r \in Running /\ r.pc = "record" /\ r.prior = request[w].prior
      /\ r.mutation = request[w].mutation /\ r.code # None
  BY <1>2, <1>8 DEF Running, Stages
<1>10. Knows(r)
  BY <1>1, <1>2, <1>9 DEF Knows, At, RotationStages
<1>11. Knows(r)' /\ KeepsVersion(w, r)
  BY <1>6, <1>9, <1>10, KnowsGrows DEF KeyInv, KeepsVersion, Owns
<1>12. request' = [request EXCEPT ![w] = r]
  BY <1>7, <1>8
<1> QED BY <1>1, <1>6, <1>9, <1>11, <1>12, GoStep DEF Outside

\* The previous value is put back after a rollback (Restore).
LEMMA KeepRestore ==
  ASSUME KeyInv, NEW w \in Workers, Restore(w)
  PROVE  KeyInv'
<1>1. /\ At(w, "restore") /\ ~At(w, "idle") /\ ~At(w, "lock")
      /\ UNCHANGED <<Database, lock, doubt, qualified, started>>
  BY DEF Restore, At
<1> DEFINE code == IF request[w].previous = NoSecret
                   THEN "reconciliation_required" ELSE "secret_unavailable"
           refuse == Refuse(w, code)
           alone == lock = NoWorker /\ control = request[w].prior
<1>2. PutBack(w, alone, refuse, refuse)
  BY DEF Restore
<1>3. alone \in BOOLEAN /\ refuse \in BOOLEAN
  BY DEF Refuse, Answer, Set
<1>4. code # None
  BY DEF None
<1> HIDE DEF code, refuse, alone
<1>5. /\ Grows /\ vault' \in Seq(Secrets) /\ qualified' \subseteq 1..Len(vault')
      /\ gap' \in BOOLEAN /\ faults' \in 0..MaxFaults /\ refuse
  BY <1>1, <1>2, <1>3, PutBackGrows
<1>6. lock # w
  BY <1>1 DEF KeyInv, HolderIsCurrent, Outside, At
<1> QED BY <1>1, <1>4, <1>5, <1>6, RefuseStep DEF refuse

\* A row that is moved on is a row (Changed).
LEMMA ChangedTyped ==
  ASSUME NEW r \in Running
  PROVE  Changed(r) \in Control
<1>1. r.mutation \in Mutations /\ r.prior \in Control /\ r.version \in Nat
  BY DEF Running
<1>2. PICK n \in Nat : n = r.prior.revision + 1
  BY <1>1 DEF Control
<1>3. PICK p \in Control : p = r.prior
  BY <1>1
<1>4. CASE r.mutation.kind = "rotate"
  <2>1. PICK k \in Secrets : k = r.mutation.secret
    BY <1>1, <1>4 DEF Mutations, Rotations, Switches
  <2>2. PICK v \in Nat : v = r.version
    BY <1>1
  <2>3. [p EXCEPT !.version = v, !.secret = k, !.revision = n] \in Control
    BY DEF Control
  <2>4. Changed(r) = [p EXCEPT !.version = v, !.secret = k, !.revision = n]
    BY <1>2, <1>3, <1>4, <2>1, <2>2 DEF Changed
  <2> QED BY <2>3, <2>4
<1>5. CASE r.mutation.kind # "rotate"
  <2>1. PICK o \in BOOLEAN, d \in BOOLEAN :
          o = r.mutation.operator /\ d = r.mutation.demo
    BY <1>1, <1>5 DEF Mutations, Rotations, Switches
  <2>2. [p EXCEPT !.operator = o, !.demo = d, !.revision = n] \in Control
    BY DEF Control
  <2>3. Changed(r) = [p EXCEPT !.operator = o, !.demo = d, !.revision = n]
    BY <1>2, <1>3, <1>5, <2>1 DEF Changed
  <2> QED BY <2>2, <2>3
<1> QED BY <1>4, <1>5

\* What a request writes in one transaction is a transaction (Transaction).
LEMMA TransactionTyped ==
  ASSUME NEW r \in Running
  PROVE  Transaction(r) \in Transactions
<1>1. /\ r.mutation \in Mutations /\ r.prior \in Control
      /\ r.code \in {None} \cup Failures /\ r.checked \in Nat
  BY DEF Running
<1> DEFINE Some == [mutation : Mutations, code : {None} \cup Failures,
                    projection : [revision : Nat, operator : BOOLEAN, demo : BOOLEAN,
                                  secret : Secrets \cup {NoSecret}]]
           Events == [mutation : Mutations, code : {None} \cup Failures,
                      prior : Nat, resulting : Nat, checked : Nat]
<1>2. PICK row \in Control : row = IF r.code = None THEN Changed(r) ELSE r.prior
  BY <1>1, ChangedTyped
<1>3. Receipt(r.mutation, r.code, row) \in Some
  BY <1>1 DEF Receipt, Projection, Control
<1>4. Event(r.mutation, r.code, r.prior, row, r.checked) \in Events
  BY <1>1 DEF Event, Control
<1> HIDE DEF Some, Events
<1>5. PICK receipt \in Some : receipt = Receipt(r.mutation, r.code, row)
  BY <1>3
<1>6. PICK event \in Events : event = Event(r.mutation, r.code, r.prior, row, r.checked)
  BY <1>4
<1>7. PICK events \in Seq(Events) :
        Transaction(r) = [row |-> row, receipt |-> receipt, events |-> events]
  <2>1. <<>> \in Seq(Events) /\ <<event>> \in Seq(Events)
    OBVIOUS
  <2>2. \/ Transaction(r) = [row |-> row, receipt |-> receipt, events |-> <<>>]
        \/ Transaction(r) = [row |-> row, receipt |-> receipt, events |-> <<event>>]
    BY <1>2, <1>5, <1>6 DEF Transaction
  <2> QED BY <2>1, <2>2
<1>8. Transactions = [row : Control, receipt : {NoReceipt} \cup Some, events : Seq(Events)]
  BY DEF Transactions, Some, Events
<1> QED BY <1>7, <1>8

\* The statements of the transaction are executed (Record).
LEMMA KeepRecord ==
  ASSUME KeyInv, NEW w \in Workers, Record(w)
  PROVE  KeyInv'
<1>1. /\ At(w, "record") /\ ~At(w, "idle")
      /\ UNCHANGED <<Database, lock, vault, doubt, answers, qualified, gap, started,
                     faults>>
      /\ Set(w, [request[w] EXCEPT !.pc = "commit", !.tx = Transaction(request[w])])
  BY DEF Record, At
<1>2. request[w] \in Running /\ Knows(request[w])
  BY <1>1, RequestFacts
<1>3. PICK r : r = [request[w] EXCEPT !.pc = "commit", !.tx = Transaction(request[w])]
  OBVIOUS
<1>4. /\ r \in Running /\ r.pc = "commit" /\ r.prior = request[w].prior
      /\ r.mutation = request[w].mutation /\ r.version = request[w].version
      /\ r.code = request[w].code /\ r.checked = request[w].checked
      /\ r.tx = Transaction(request[w])
  BY <1>2, <1>3, TransactionTyped DEF Running, Stages
<1>5. r.tx = Transaction(r)
  BY <1>4 DEF Transaction, Changed
<1>6. Ready(request[w]) => Ready(r)
  BY <1>4 DEF Ready, Stored
<1>7. Knows(r)
  BY <1>1, <1>2, <1>4, <1>5, <1>6 DEF Knows, At, RotationStages
<1>8. Grows /\ vault' \in Seq(Secrets) /\ qualified' \subseteq 1..Len(vault')
  BY <1>1, SameGrows DEF KeyInv
<1>9. Knows(r)' /\ KeepsVersion(w, r)
  BY <1>1, <1>4, <1>7, <1>8, KnowsGrows DEF KeyInv, KeepsVersion, Owns, At
<1>10. request' = [request EXCEPT ![w] = r]
  BY <1>1, <1>3 DEF Set
<1>11. gap' \in BOOLEAN /\ faults' \in 0..MaxFaults
  BY <1>1 DEF KeyInv, KeyTypeOK
<1> QED BY <1>1, <1>4, <1>8, <1>9, <1>10, <1>11, GoStep DEF Outside

\* A rotation without a failure goes on to look after its written key (RolledBack,
\* AfterLostCommit).
LEMMA LookAfter ==
  ASSUME KeyInv, NEW w \in Workers, At(w, "record") \/ At(w, "commit"),
         Rotating(w), request[w].code = None,
         NEW pc \in {"restore", "reconcile"}, Goto(w, pc),
         UNCHANGED <<Database, vault, doubt, answers, qualified, gap, started>>,
         faults' \in 0..MaxFaults, Unlock(w)
  PROVE  KeyInv'
<1> USE NullAssumption
<1>1. ~At(w, "idle") /\ gap' \in BOOLEAN
  BY DEF At, KeyInv, KeyTypeOK
<1>2. request[w] \in Running /\ Knows(request[w])
  BY <1>1, RequestFacts
<1>3. PICK r : r = [request[w] EXCEPT !.pc = pc]
  OBVIOUS
<1>4. /\ r \in Running /\ r.pc = pc /\ r.prior = request[w].prior
      /\ r.mutation = request[w].mutation /\ r.version = request[w].version
      /\ r.code = None
  BY <1>2, <1>3 DEF Running, Stages
<1>5. Stored(r)
  BY <1>2, <1>4 DEF Knows, At, Ready, Stored, Rotating
<1>6. Knows(r)
  BY <1>2, <1>4, <1>5 DEF Knows, At, Rotating
<1>7. Grows /\ vault' \in Seq(Secrets) /\ qualified' \subseteq 1..Len(vault')
  BY SameGrows DEF KeyInv
<1>8. Knows(r)' /\ KeepsVersion(w, r)
  BY <1>1, <1>4, <1>6, <1>7, KnowsGrows DEF KeyInv, KeepsVersion, Owns, At, Rotating
<1>9. request' = [request EXCEPT ![w] = r]
  BY <1>3 DEF Goto, Set
<1>10. /\ IF lock = w THEN lock' \in {lock, NoWorker} ELSE lock' = lock
       /\ lock' # w
  BY DEF Unlock
<1>11. r.pc # "lock"
  BY <1>4
<1> QED BY <1>1, <1>4, <1>7, <1>8, <1>9, <1>10, <1>11, GoStep

\* A statement fails (RecordFails).
LEMMA KeepRecordFails ==
  ASSUME KeyInv, NEW w \in Workers, RecordFails(w)
  PROVE  KeyInv'
<1>1. /\ At(w, "record") /\ ~At(w, "idle") /\ Unlock(w) /\ RolledBack(w)
      /\ UNCHANGED <<Database, vault, doubt, qualified, gap, started>>
  BY DEF RecordFails, At
<1>2. faults' \in 0..MaxFaults
  BY FaultTyped DEF RecordFails, KeyInv, KeyTypeOK
<1>3. CASE Rotating(w) /\ request[w].code = None
  BY <1>1, <1>2, <1>3, LookAfter DEF RolledBack
<1>4. CASE ~(Rotating(w) /\ request[w].code = None)
  <2>1. PICK code : code # None /\ Refuse(w, code)
    BY <1>1, <1>4 DEF RolledBack, None
  <2>2. /\ Grows /\ vault' \in Seq(Secrets) /\ qualified' \subseteq 1..Len(vault')
        /\ gap' \in BOOLEAN
    BY <1>1, SameGrows DEF KeyInv, KeyTypeOK
  <2>3. IF lock = w THEN lock' = NoWorker ELSE lock' = lock
    BY <1>1 DEF Unlock
  <2> QED BY <1>1, <1>2, <2>1, <2>2, <2>3, RefuseStep
<1> QED BY <1>3, <1>4

\* The commit fails and nothing was written (CommitFails).
LEMMA KeepLostCommit ==
  ASSUME KeyInv, NEW w \in Workers, At(w, "commit"), AfterLostCommit(w), Unlock(w),
         faults' \in 0..MaxFaults,
         UNCHANGED <<Database, vault, doubt, qualified, gap, started>>
  PROVE  KeyInv'
<1>1. ~At(w, "idle")
  BY DEF At
<1>2. CASE Rotating(w) /\ request[w].code = None
  BY <1>2, LookAfter DEF AfterLostCommit
<1>3. CASE ~(Rotating(w) /\ request[w].code = None)
  <2>1. PICK code : code # None /\ Refuse(w, code)
    BY <1>3 DEF AfterLostCommit, None
  <2>2. /\ Grows /\ vault' \in Seq(Secrets) /\ qualified' \subseteq 1..Len(vault')
        /\ gap' \in BOOLEAN
    BY SameGrows DEF KeyInv, KeyTypeOK
  <2>3. IF lock = w THEN lock' = NoWorker ELSE lock' = lock
    BY DEF Unlock
  <2> QED BY <1>1, <2>1, <2>2, <2>3, RefuseStep
<1> QED BY <1>2, <1>3

\* A reconciliation answers what the receipt says, or refuses (Reconcile).
LEMMA KeepReconcile ==
  ASSUME KeyInv, NEW w \in Workers, Reconcile(w)
  PROVE  KeyInv'
<1>1. /\ At(w, "reconcile") /\ ~At(w, "idle")
      /\ UNCHANGED <<Database, lock, vault, doubt, qualified, started>>
  BY DEF Reconcile, At
<1>2. /\ request[w] \in Running /\ Knows(request[w])
      /\ request[w].mutation \in Mutations
  BY <1>1, RequestFacts
<1>3. /\ Grows /\ vault' \in Seq(Secrets) /\ qualified' \subseteq 1..Len(vault')
  BY <1>1, SameGrows DEF KeyInv
<1>4. lock # w
  BY <1>1 DEF KeyInv, HolderIsCurrent, Outside, At
<1>5. gap \in BOOLEAN /\ faults \in 0..MaxFaults
  BY DEF KeyInv, KeyTypeOK
<1>6. CASE /\ Activated(request[w])
           /\ Answer(w, None, Projection(control))
           /\ UNCHANGED <<gap, faults>>
  <2>1. Owns(request[w])
    BY <1>1, <1>2 DEF Knows, Owns, At, RotationStages
  <2>2. Recorded(request[w])
    BY <1>1, <1>6, <2>1 DEF KeyInv, VersionsAreOwned, Activated
  <2>3. PICK receipt : receipt = receipts[Slot(request[w].mutation)]
    OBVIOUS
  <2>4. /\ receipt # NoReceipt /\ receipt.code = None
        /\ receipt.mutation = request[w].mutation
        /\ receipt.projection.revision = control.revision
    BY <1>6, <2>2, <2>3 DEF Recorded, IsActivation, Activated
  <2>5. receipt \in Receipts /\ Slot(request[w].mutation) \in Kinds \X Keys
    BY <1>2, <2>3, SlotTyped DEF KeyInv
  <2>6. Holds(receipt)
    BY <2>3, <2>4, <2>5 DEF KeyInv, ReceiptsHold
  <2>7. receipt.projection = Projection(control)
    BY <2>4, <2>6 DEF Holds, KeyInv, HistoryIsControl
  <2>8. receipt = [mutation |-> request[w].mutation, code |-> None,
                   projection |-> Projection(control)]
    BY <2>4, <2>5, <2>7 DEF Receipts
  <2> QED BY <1>1, <1>3, <1>4, <1>5, <1>6, <2>3, <2>8, AnswerStep
<1>7. CASE Goto(w, "restore") /\ UNCHANGED <<answers, gap, faults>>
  <2>1. PICK r : r = [request[w] EXCEPT !.pc = "restore"]
    OBVIOUS
  <2>2. /\ r \in Running /\ r.pc = "restore" /\ r.prior = request[w].prior
        /\ r.mutation = request[w].mutation
    BY <1>2, <2>1 DEF Running, Stages
  <2>3. Knows(r)
    BY <1>1, <1>2, <2>2 DEF Knows, At, RotationStages
  <2>4. Knows(r)' /\ KeepsVersion(w, r)
    BY <1>3, <2>2, <2>3, KnowsGrows DEF KeyInv, KeepsVersion, Owns
  <2>5. request' = [request EXCEPT ![w] = r]
    BY <1>7, <2>1 DEF Goto, Set
  <2> QED BY <1>1, <1>3, <1>4, <1>5, <1>7, <2>2, <2>4, <2>5, GoStep
<1>8. CASE /\ Refuse(w, "secret_unavailable") /\ gap' = TRUE
           /\ (UNCHANGED faults \/ Fault)
  <2>1. faults' \in 0..MaxFaults
    BY <1>5, <1>8, FaultTyped DEF KeyInv
  <2>2. "secret_unavailable" # None
    BY DEF None
  <2> QED BY <1>1, <1>3, <1>4, <1>8, <2>1, <2>2, RefuseStep
<1> QED BY <1>6, <1>7, <1>8 DEF Reconcile

\* The server lets go of the row of a request that waits (LoseConnection).
LEMMA KeepLoseConnection ==
  ASSUME KeyInv, NEW w \in Workers, LoseConnection(w)
  PROVE  KeyInv'
<1>1. /\ lock = w /\ lock' = NoWorker /\ Fault
      /\ UNCHANGED <<Database, vault, doubt, request, answers, qualified, gap, started>>
  BY DEF LoseConnection
<1>2. ~At(w, "idle")
  BY <1>1 DEF KeyInv, HolderIsCurrent, Outside, At
<1>3. PICK r : r = request[w]
  OBVIOUS
<1>4. r \in Running /\ Knows(r)
  BY <1>2, <1>3, RequestFacts
<1>5. request' = [request EXCEPT ![w] = r]
  BY <1>1, <1>3 DEF KeyInv, KeyTypeOK
<1>6. /\ Grows /\ vault' \in Seq(Secrets) /\ qualified' \subseteq 1..Len(vault')
      /\ gap' \in BOOLEAN /\ faults' \in 0..MaxFaults /\ started' \in 0..MaxRequests
  BY <1>1, SameGrows, FaultTyped DEF KeyInv, KeyTypeOK
<1>7. Knows(r)' /\ KeepsVersion(w, r) /\ LockMoves(w, r) /\ AnswersMove
  BY <1>1, <1>2, <1>3, <1>4, <1>6, KnowsGrows
     DEF KeyInv, KeepsVersion, LockMoves, AnswersMove
<1> QED BY <1>1, <1>4, <1>5, <1>6, <1>7, LocalStep

\* A request disappears, and its transaction with it (Crash).
LEMMA KeepCrash ==
  ASSUME KeyInv, NEW w \in Workers, Crash(w)
  PROVE  KeyInv'
<1>1. /\ ~At(w, "idle") /\ Unlock(w) /\ Fault
      /\ UNCHANGED <<Database, vault, doubt, answers, qualified, started>>
  BY DEF Crash
<1>2. request[w] \in Running
  BY <1>1, RequestFacts
<1>3. gap' \in BOOLEAN
  BY <1>2 DEF Crash, Running, KeyInv, KeyTypeOK
<1>4. /\ Grows /\ vault' \in Seq(Secrets) /\ qualified' \subseteq 1..Len(vault')
      /\ faults' \in 0..MaxFaults /\ started' \in 0..MaxRequests
  BY <1>1, SameGrows, FaultTyped DEF KeyInv, KeyTypeOK
<1>5. /\ LockMoves(w, Idle) /\ KeepsVersion(w, Idle) /\ Idle.pc = "idle"
      /\ AnswersMove
  BY <1>1 DEF LockMoves, KeepsVersion, Idle, Unlock, AnswersMove
<1>6. request' = [request EXCEPT ![w] = Idle]
  BY DEF Crash, Set
<1> QED BY <1>1, <1>3, <1>4, <1>5, <1>6, LocalStep

-----------------------------------------------------------------------------
(***************************************************************************)
(* The steps that change the database                                      *)
(***************************************************************************)
\* An owner of the version that the transaction binds finds his receipt, before the
\* transaction or in it.
Covers(tx) ==
  \A v \in Workers :
    ~At(v, "idle") /\ Owns(request[v]) /\ tx.row.version = request[v].version =>
      Recorded(request[v]) \/ IsActivation(tx.receipt, request[v])

\* What a request at its commit has written may be applied (Transaction).
LEMMA TransactionFits ==
  ASSUME KeyInv, NEW w \in Workers, At(w, "commit"), lock = w
  PROVE  /\ request[w].tx \in Transactions
         /\ Fits(request[w].tx)
         /\ Covers(request[w].tx)
         /\ request[w].tx.receipt =
              Receipt(request[w].mutation, request[w].code, request[w].tx.row)
<1>1. ~At(w, "idle")
  BY DEF At
<1>2. PICK r : r = request[w]
  OBVIOUS
<1>3. /\ r \in Running /\ Knows(r) /\ r.mutation \in Mutations
      /\ r.mutation.kind \in Kinds /\ r.prior \in Control
  BY <1>1, <1>2, RequestFacts
<1>4. r.prior = control /\ receipts[Slot(r.mutation)] = NoReceipt
  BY <1>2 DEF KeyInv, HolderIsCurrent, ReceiptOf
<1>5. PICK tx \in Transactions : tx = r.tx
  BY <1>3 DEF Running
<1>6. /\ tx = Transaction(r) /\ r.pc = "commit" /\ Sound(r.prior)
      /\ r.code = None => Ready(r)
  BY <1>2, <1>3, <1>5 DEF Knows, At
<1>7. PICK row \in Control : row = IF r.code = None THEN Changed(r) ELSE r.prior
  BY <1>3, ChangedTyped
<1>8. tx.row = row /\ tx.receipt = Receipt(r.mutation, r.code, row)
  BY <1>6, <1>7 DEF Transaction
<1>9. /\ tx.receipt.mutation = r.mutation /\ tx.receipt.code = r.code
      /\ tx.receipt.projection = Projection(row)
      /\ tx.receipt.projection.revision = row.revision
  BY <1>8 DEF Receipt, Projection
<1>10. tx.receipt # NoReceipt
  <2>1. r.code # "missing"
    BY <1>3 DEF Running, Failures, None
  <2> QED BY <1>9, <2>1 DEF NoReceipt
<1>11. r.code = None =>
         IF r.mutation.kind = "rotate"
         THEN /\ row.version = r.version /\ row.secret = r.mutation.secret
              /\ row.operator = r.prior.operator /\ row.demo = r.prior.demo
              /\ row.revision = r.prior.revision + 1
         ELSE /\ row.version = r.prior.version /\ row.secret = r.prior.secret
              /\ row.operator = r.mutation.operator /\ row.demo = r.mutation.demo
              /\ row.revision = r.prior.revision + 1
  BY <1>3, <1>7 DEF Changed, Control
<1>12. Sound(row)
  <2>1. CASE r.code # None
    BY <1>6, <1>7, <2>1
  <2>2. CASE r.code = None /\ r.mutation.kind = "rotate"
    <3>1. Stored(r) /\ r.version \in qualified
      BY <1>6, <2>2 DEF Ready
    <3>2. r.version # 0
      BY <3>1 DEF KeyInv, KeyTypeOK
    <3> QED BY <1>11, <2>2, <3>1, <3>2 DEF Sound, Configured, Stored
  <2>3. CASE r.code = None /\ r.mutation.kind # "rotate"
    <3>1. r.mutation.operator \in BOOLEAN /\ r.mutation.demo \in BOOLEAN
      BY <1>3, <2>3 DEF Mutations, Rotations, Switches
    <3> QED BY <1>6, <1>11, <2>3, <3>1 DEF Sound, Configured, Ready
  <2> QED BY <2>1, <2>2, <2>3
<1>13. IF r.code = None
       THEN row.revision = control.revision + 1 /\ Did(r.mutation, control, row)
       ELSE row = control
  BY <1>4, <1>7, <1>11 DEF Did
<1>14. Fits(tx)
  BY <1>4, <1>8, <1>9, <1>10, <1>12, <1>13 DEF Fits
<1>15. Covers(tx)
  <2>1. SUFFICES ASSUME NEW v \in Workers, ~At(v, "idle"), Owns(request[v]),
                        row.version = request[v].version
                 PROVE  Recorded(request[v]) \/ IsActivation(tx.receipt, request[v])
    BY <1>8 DEF Covers
  <2>2. CASE r.code # None \/ r.mutation.kind # "rotate"
    <3>1. row.version = control.version
      BY <1>4, <1>7, <1>11, <2>2
    <3> QED BY <2>1, <3>1 DEF KeyInv, VersionsAreOwned
  <2>3. CASE r.code = None /\ r.mutation.kind = "rotate"
    <3>1. Owns(r) /\ row.version = r.version /\ row.revision = r.prior.revision + 1
      BY <1>6, <1>11, <2>3 DEF Owns
    <3>2. v = w
      BY <1>1, <1>2, <2>1, <3>1 DEF KeyInv, VersionsAreOwned
    <3> QED BY <1>2, <1>9, <1>10, <2>3, <3>1, <3>2 DEF IsActivation
  <2> QED BY <2>2, <2>3
<1> QED BY <1>2, <1>5, <1>8, <1>14, <1>15

\* A transaction that fits moves the row on by one revision, or not at all (Apply).
LEMMA ApplyGrows ==
  ASSUME KeyInv, NEW tx \in Transactions, Fits(tx), Apply(tx),
         UNCHANGED <<vault, qualified>>
  PROVE  /\ Grows
         /\ control' = tx.row /\ control' \in Control /\ history' \in Seq(Control)
         /\ control.revision <= control'.revision
         /\ HistoryIsControl'
         /\ tx.receipt.code = None =>
              /\ control'.revision = control.revision + 1
              /\ history'[control.revision + 1] = control
<1>1. PICK row \in Control : row = tx.row
  BY DEF Transactions
<1>2. control' = row /\ history' = IF row = control THEN history ELSE Append(history, row)
  BY <1>1 DEF Apply
<1>3. /\ control \in Control /\ history \in Seq(Control) /\ control.revision \in Nat
      /\ Len(history) = control.revision + 1 /\ history[control.revision + 1] = control
  BY DEF KeyInv, KeyTypeOK, HistoryIsControl, Control
<1>4. Len(vault) <= Len(vault') /\ \A i \in 1..Len(vault) : vault'[i] = vault[i]
  BY DEF KeyInv, KeyTypeOK
<1>5. CASE tx.receipt.code = None
  <2>1. row.revision = control.revision + 1
    BY <1>1, <1>5 DEF Fits
  <2>2. row # control
    BY <1>3, <2>1
  <2>3. history' = Append(history, row)
    BY <1>2, <2>2
  <2>4. /\ history' \in Seq(Control) /\ Len(history') = control.revision + 2
        /\ \A i \in 1..Len(history) : history'[i] = history[i]
        /\ history'[control.revision + 2] = row
    BY <1>3, <2>3
  <2>5. Grows
    BY <1>3, <1>4, <2>4 DEF Grows
  <2>6. HistoryIsControl'
    BY <1>2, <1>3, <2>1, <2>4 DEF HistoryIsControl
  <2>7. history'[control.revision + 1] = control
    BY <1>3, <2>4
  <2> QED BY <1>1, <1>2, <1>3, <2>1, <2>4, <2>5, <2>6, <2>7
<1>6. CASE tx.receipt.code # None
  <2>1. row = control
    BY <1>1, <1>6 DEF Fits
  <2>2. history' = history /\ control' = control
    BY <1>2, <2>1
  <2> QED BY <1>1, <1>2, <1>3, <1>4, <1>6, <2>2 DEF Grows, HistoryIsControl
<1> QED BY <1>5, <1>6

\* Receipts stay, and the one of the transaction comes where none was (Apply).
LEMMA ApplyReceipts ==
  ASSUME KeyInv, NEW tx \in Transactions, Fits(tx), Apply(tx),
         UNCHANGED <<vault, qualified>>
  PROVE  /\ receipts' \in [Kinds \X Keys -> Receipts]
         /\ tx.receipt.mutation \in Mutations
         /\ receipts'[Slot(tx.receipt.mutation)] = tx.receipt
         /\ \A o \in Kinds \X Keys :
              receipts[o] # NoReceipt => receipts'[o] = receipts[o]
         /\ ReceiptsHold'
<1>1. tx.receipt \in Receipts /\ tx.receipt # NoReceipt
  BY DEF Transactions, Receipts, Fits
<1>2. tx.receipt.mutation \in Mutations
  BY <1>1 DEF Receipts
<1>3. PICK slot \in Kinds \X Keys : slot = Slot(tx.receipt.mutation)
  BY <1>2, SlotTyped
<1>4. receipts' = [receipts EXCEPT ![slot] = tx.receipt]
        /\ receipts[slot] = NoReceipt
  BY <1>3 DEF Apply, Fits
<1>5. receipts \in [Kinds \X Keys -> Receipts]
  BY DEF KeyInv
<1>6. /\ receipts' \in [Kinds \X Keys -> Receipts]
      /\ receipts'[slot] = tx.receipt
      /\ \A o \in Kinds \X Keys : o # slot => receipts'[o] = receipts[o]
  BY <1>1, <1>4, <1>5
<1>7. /\ Grows /\ HistoryIsControl' /\ control' = tx.row
      /\ control \in Control /\ control' \in Control
      /\ control.revision <= control'.revision
      /\ Len(history) = control.revision + 1
      /\ tx.receipt.code = None =>
              /\ control'.revision = control.revision + 1
              /\ history'[control.revision + 1] = control
  BY ApplyGrows DEF KeyInv, KeyTypeOK, HistoryIsControl
<1>8. ASSUME NEW o \in Kinds \X Keys, receipts'[o].code = None
      PROVE  Holds(receipts[o])' /\ Slot(receipts'[o].mutation) = o
  <2>1. CASE o = slot
    <3>1. PICK a : a = tx.receipt
      OBVIOUS
    <3>2. a.code = None /\ a = receipts'[o]
      BY <1>6, <1>8, <2>1, <3>1
    <3>3. /\ a.projection = Projection(control') /\ Did(a.mutation, control, control')
          /\ control'.revision = control.revision + 1
      BY <1>7, <3>1, <3>2 DEF Fits
    <3>4. a.projection.revision = control'.revision
      BY <3>3 DEF Projection
    <3>5. control.revision \in Nat
      BY <1>7 DEF Control
    <3>6. /\ a.projection.revision \in 1..control'.revision
          /\ history'[a.projection.revision] = control
          /\ history'[a.projection.revision + 1] = control'
      BY <1>7, <3>1, <3>2, <3>3, <3>4, <3>5 DEF HistoryIsControl
    <3>7. Holds(a)'
      BY <3>3, <3>6 DEF Holds, Projection, Did
    <3> QED BY <1>3, <2>1, <3>1, <3>2, <3>7 DEF Holds, Projection, Did
  <2>2. CASE o # slot
    <3>1. PICK a : a = receipts[o]
      OBVIOUS
    <3>2. a = receipts'[o] /\ a.code = None
      BY <1>6, <1>8, <2>2, <3>1
    <3>3. Holds(a) /\ Slot(a.mutation) = o
      BY <3>1, <3>2 DEF KeyInv, ReceiptsHold
    <3>4. PICK r : r = a.projection.revision
      OBVIOUS
    <3>5. r \in 1..control.revision /\ control.revision \in Nat /\ control'.revision \in Nat
      BY <1>7, <3>3, <3>4 DEF Holds, Control
    <3>6. /\ history'[r] = history[r] /\ history'[r + 1] = history[r + 1]
          /\ r \in 1..control'.revision
      <4>1. r \in 1..Len(history) /\ r + 1 \in 1..Len(history)
        BY <1>7, <3>5
      <4>2. control.revision <= control'.revision
        BY <1>7
      <4> QED BY <1>7, <3>5, <4>1, <4>2 DEF Grows
    <3>7. Holds(a)'
      BY <3>3, <3>4, <3>6 DEF Holds, Projection, Did
    <3> QED BY <3>2, <3>3, <3>7 DEF Holds, Projection, Did
  <2> QED BY <2>1, <2>2
<1>9. ReceiptsHold'
  BY <1>8 DEF ReceiptsHold
<1> QED BY <1>2, <1>3, <1>4, <1>6, <1>9

\* Who owns a version after the step has owned it before.
OwnersFollow ==
  \A v \in Workers : ~At(v, "idle")' /\ Owns(request'[v]) =>
    /\ ~At(v, "idle") /\ Owns(request[v])
    /\ request'[v].version = request[v].version
    /\ request'[v].prior = request[v].prior
    /\ request'[v].mutation = request[v].mutation

\* The step that applies a transaction keeps the invariant.
LEMMA ApplyStep ==
  ASSUME KeyInv, NEW tx \in Transactions, Fits(tx), Covers(tx), Apply(tx),
         request' \in [Workers -> Running \cup {Idle}], OwnersFollow,
         \A v \in Workers : ~At(v, "idle")' => Knows(request[v])',
         UNCHANGED <<vault, qualified, started>>, doubt' \in Transactions,
         gap' \in BOOLEAN, faults' \in 0..MaxFaults, lock' = NoWorker,
         \A a \in answers' : a \in answers \/
           (a.mutation \in Mutations /\ (a.code = None => a = tx.receipt))
  PROVE  KeyInv'
<1> USE NullAssumption
<1>1. /\ control' = tx.row /\ control' \in Control /\ history' \in Seq(Control)
      /\ HistoryIsControl'
  BY ApplyGrows
<1>2. /\ receipts' \in [Kinds \X Keys -> Receipts]
      /\ tx.receipt.mutation \in Mutations
      /\ receipts'[Slot(tx.receipt.mutation)] = tx.receipt
      /\ \A o \in Kinds \X Keys : receipts[o] # NoReceipt => receipts'[o] = receipts[o]
      /\ ReceiptsHold'
  BY ApplyReceipts
<1>3. KeyTypeOK'
  BY <1>1 DEF KeyInv, KeyTypeOK
<1>4. Sound(control)'
  BY <1>1 DEF Fits, Sound
<1>5. HolderIsCurrent' /\ (lock = Server => Fits(doubt))'
  BY DEF HolderIsCurrent
<1>6. AnswersAreReceipts'
  <2>1. SUFFICES ASSUME NEW a \in answers'
                 PROVE  /\ a.mutation \in Mutations
                        /\ a.code = None => receipts'[Slot(a.mutation)] = a
    BY DEF AnswersAreReceipts
  <2>2. CASE a \in answers
    <3>1. /\ a.mutation \in Mutations
          /\ a.code = None => receipts[Slot(a.mutation)] = a
      BY <2>2 DEF KeyInv, AnswersAreReceipts
    <3>2. a.code = None => a # NoReceipt
      BY DEF NoReceipt, None
    <3>3. Slot(a.mutation) \in Kinds \X Keys
      BY <3>1, SlotTyped
    <3> QED BY <1>2, <3>1, <3>2, <3>3
  <2>3. CASE a.mutation \in Mutations /\ (a.code = None => a = tx.receipt)
    BY <1>2, <2>3
  <2> QED BY <2>2, <2>3
<1>7. VersionsAreOwned'
  <2>1. \A v \in Workers : ~At(v, "idle") => request[v].mutation \in Mutations
    BY RequestFacts
  <2>2. ASSUME NEW v \in Workers, ~At(v, "idle"), Recorded(request[v])
        PROVE  IsActivation(receipts'[Slot(request[v].mutation)], request[v])
    <3>1. Slot(request[v].mutation) \in Kinds \X Keys
      BY <2>1, <2>2, SlotTyped
    <3>2. receipts'[Slot(request[v].mutation)] = receipts[Slot(request[v].mutation)]
      BY <1>2, <2>2, <3>1 DEF Recorded, IsActivation
    <3> QED BY <2>2, <3>2 DEF Recorded, IsActivation
  <2>3. ASSUME NEW v \in Workers, ~At(v, "idle"), Owns(request[v]),
               control'.version = request[v].version
        PROVE  IsActivation(receipts'[Slot(request[v].mutation)], request[v])
    <3>1. CASE Recorded(request[v])
      BY <2>2, <2>3, <3>1
    <3>2. CASE IsActivation(tx.receipt, request[v])
      BY <1>2, <3>2 DEF IsActivation
    <3> QED BY <1>1, <2>3, <3>1, <3>2 DEF Covers
  <2>4. SUFFICES ASSUME NEW v \in Workers, ~At(v, "idle")', Owns(request'[v])
                 PROVE  /\ \A u \in Workers \ {v} : ~At(u, "idle")' /\ Owns(request'[u]) =>
                             request'[u].version # request'[v].version
                        /\ control'.version = request'[v].version =>
                             IsActivation(receipts'[Slot(request'[v].mutation)], request'[v])
    BY DEF VersionsAreOwned, Recorded, IsActivation, Owns
  <2>5. /\ ~At(v, "idle") /\ Owns(request[v])
        /\ request'[v].version = request[v].version
        /\ request'[v].prior = request[v].prior
        /\ request'[v].mutation = request[v].mutation
    BY <2>4 DEF OwnersFollow
  <2>6. ASSUME NEW u \in Workers \ {v}, ~At(u, "idle")', Owns(request'[u])
        PROVE  request'[u].version # request'[v].version
    <3>1. ~At(u, "idle") /\ Owns(request[u]) /\ request'[u].version = request[u].version
      BY <2>6 DEF OwnersFollow
    <3> QED BY <2>5, <3>1 DEF KeyInv, VersionsAreOwned
  <2>7. control'.version = request'[v].version =>
          IsActivation(receipts'[Slot(request'[v].mutation)], request'[v])
    BY <2>3, <2>5 DEF IsActivation
  <2> QED BY <2>6, <2>7
<1> QED BY <1>1, <1>2, <1>3, <1>4, <1>5, <1>6, <1>7 DEF KeyInv

\* The step that leaves a transaction to the server keeps the invariant.
LEMMA DoubtStep ==
  ASSUME KeyInv, NEW tx \in Transactions, Fits(tx), Covers(tx),
         doubt' = tx, lock' = Server, UNCHANGED Database,
         request' \in [Workers -> Running \cup {Idle}], OwnersFollow,
         \A v \in Workers : ~At(v, "idle")' => Knows(request[v])',
         UNCHANGED <<vault, qualified, started>>,
         gap' \in BOOLEAN, faults' \in 0..MaxFaults,
         \A a \in answers' : a \in answers \/ (a.mutation \in Mutations /\ a.code # None)
  PROVE  KeyInv'
<1> USE NullAssumption
<1>1. Grows /\ vault' \in Seq(Secrets)
  BY SameGrows DEF KeyInv
<1>2. /\ receipts' \in [Kinds \X Keys -> Receipts]
      /\ Sound(control)' /\ HistoryIsControl' /\ ReceiptsHold'
      /\ \A t : Fits(t) /\ t.row \in Control => Fits(t)'
  BY <1>1, TablesStay
<1>3. control' = control /\ receipts' = receipts /\ history' = history
  BY DEF Database
<1>4. KeyTypeOK'
  BY <1>3 DEF KeyInv, KeyTypeOK
<1>5. HolderIsCurrent'
  BY DEF HolderIsCurrent
<1>6. Fits(doubt)'
  <2>1. tx.row \in Control
    BY DEF Transactions
  <2>2. Fits(tx)'
    BY <1>2, <2>1
  <2> QED BY <2>2 DEF Fits
<1>7. AnswersAreReceipts'
  BY <1>3 DEF KeyInv, AnswersAreReceipts
<1>8. VersionsAreOwned'
  <2>1. SUFFICES ASSUME NEW v \in Workers, ~At(v, "idle")', Owns(request'[v])
                 PROVE  /\ \A u \in Workers \ {v} : ~At(u, "idle")' /\ Owns(request'[u]) =>
                             request'[u].version # request'[v].version
                        /\ control.version = request'[v].version => Recorded(request'[v])
                        /\ tx.row.version = request'[v].version =>
                             Recorded(request'[v]) \/ IsActivation(tx.receipt, request'[v])
    BY <1>3 DEF VersionsAreOwned, Recorded, IsActivation, Owns
  <2>2. /\ ~At(v, "idle") /\ Owns(request[v])
        /\ request'[v].version = request[v].version
        /\ request'[v].prior = request[v].prior
        /\ request'[v].mutation = request[v].mutation
    BY <2>1 DEF OwnersFollow
  <2>3. ASSUME NEW u \in Workers \ {v}, ~At(u, "idle")', Owns(request'[u])
        PROVE  request'[u].version # request'[v].version
    <3>1. ~At(u, "idle") /\ Owns(request[u]) /\ request'[u].version = request[u].version
      BY <2>3 DEF OwnersFollow
    <3> QED BY <2>2, <3>1 DEF KeyInv, VersionsAreOwned
  <2>4. /\ Recorded(request[v]) => Recorded(request'[v])
        /\ IsActivation(tx.receipt, request[v]) => IsActivation(tx.receipt, request'[v])
    BY <2>2 DEF Recorded, IsActivation
  <2>5. control.version = request[v].version => Recorded(request[v])
    BY <2>2 DEF KeyInv, VersionsAreOwned
  <2>6. tx.row.version = request[v].version =>
          Recorded(request[v]) \/ IsActivation(tx.receipt, request[v])
    BY <2>2 DEF Covers
  <2> QED BY <2>2, <2>3, <2>4, <2>5, <2>6
<1> QED BY <1>2, <1>4, <1>5, <1>6, <1>7, <1>8 DEF KeyInv

\* A request owns what it owned (OwnersFollow).
LEMMA Followed ==
  ASSUME KeyInv, NEW w \in Workers, NEW r \in Running \cup {Idle},
         request' = [request EXCEPT ![w] = r],
         r.pc # "idle" /\ Owns(r) =>
           /\ ~At(w, "idle") /\ Owns(request[w])
           /\ r.version = request[w].version /\ r.prior = request[w].prior
           /\ r.mutation = request[w].mutation
  PROVE  request' \in [Workers -> Running \cup {Idle}] /\ OwnersFollow
<1>1. request \in [Workers -> Running \cup {Idle}]
  BY DEF KeyInv, KeyTypeOK
<1>2. \A v \in Workers : request'[v] = IF v = w THEN r ELSE request[v]
  BY <1>1
<1>3. request' \in [Workers -> Running \cup {Idle}]
  BY <1>1
<1>4. OwnersFollow
  BY <1>2 DEF OwnersFollow, At
<1> QED BY <1>3, <1>4

\* The transaction is committed and answered (Commit).
LEMMA KeepCommit ==
  ASSUME KeyInv, NEW w \in Workers, Commit(w)
  PROVE  KeyInv'
<1>1. /\ At(w, "commit") /\ ~At(w, "idle") /\ lock = w /\ lock' = NoWorker
      /\ Apply(request[w].tx)
      /\ Answer(w, request[w].code, Projection(request[w].tx.row))
      /\ UNCHANGED <<vault, doubt, qualified, gap, started, faults>>
  BY DEF Commit, At
<1>2. PICK tx : tx = request[w].tx
  OBVIOUS
<1>3. /\ tx \in Transactions /\ Fits(tx) /\ Covers(tx) /\ Apply(tx)
      /\ tx.receipt = Receipt(request[w].mutation, request[w].code, tx.row)
  BY <1>1, <1>2, TransactionFits
<1>4. Grows
  BY <1>1, <1>3, ApplyGrows
<1>5. request' = [request EXCEPT ![w] = Idle] /\ Idle.pc = "idle"
  BY <1>1 DEF Answer, Set, Idle
<1>6. \A v \in Workers : ~At(v, "idle")' => Knows(request[v])'
  BY <1>4, <1>5, OthersKnow
<1>7. request' \in [Workers -> Running \cup {Idle}] /\ OwnersFollow
  BY <1>5, Followed
<1>8. answers' = answers \cup {tx.receipt} /\ tx.receipt.mutation \in Mutations
  BY <1>1, <1>2, <1>3, RequestFacts DEF Answer, Receipt
<1>9. doubt' \in Transactions /\ gap' \in BOOLEAN /\ faults' \in 0..MaxFaults
  BY <1>1 DEF KeyInv, KeyTypeOK
<1> QED BY <1>1, <1>3, <1>6, <1>7, <1>8, <1>9, ApplyStep

\* The request whose commit failed reconciles, or is refused (AfterLostCommit).
LEMMA LostRequest ==
  ASSUME KeyInv, NEW w \in Workers, At(w, "commit"), AfterLostCommit(w), Grows
  PROVE  /\ request' \in [Workers -> Running \cup {Idle}] /\ OwnersFollow
         /\ \A v \in Workers : ~At(v, "idle")' => Knows(request[v])'
         /\ \A a \in answers' : a \in answers \/ (a.mutation \in Mutations /\ a.code # None)
<1>1. ~At(w, "idle")
  BY DEF At
<1>2. /\ request[w] \in Running /\ Knows(request[w])
      /\ request[w].mutation \in Mutations
  BY <1>1, RequestFacts
<1>3. CASE Rotating(w) /\ request[w].code = None
  <2>1. PICK r : r = [request[w] EXCEPT !.pc = "reconcile"]
    OBVIOUS
  <2>2. /\ r \in Running /\ r.pc = "reconcile" /\ r.prior = request[w].prior
        /\ r.mutation = request[w].mutation /\ r.version = request[w].version
        /\ r.code = None
    BY <1>2, <1>3, <2>1 DEF Running, Stages
  <2>3. Knows(r)
    BY <1>2, <1>3, <2>2 DEF Knows, At, Ready, Stored, Rotating
  <2>4. Knows(r)'
    BY <2>2, <2>3, KnowsGrows DEF KeyInv
  <2>5. request' = [request EXCEPT ![w] = r] /\ answers' = answers
    BY <1>3, <2>1 DEF AfterLostCommit, Goto, Set
  <2>6. \A v \in Workers : ~At(v, "idle")' => Knows(request[v])'
    BY <2>4, <2>5, OthersKnow
  <2>7. Owns(request[w])
    BY <1>3 DEF Owns, At, Rotating
  <2>8. request' \in [Workers -> Running \cup {Idle}] /\ OwnersFollow
    BY <1>1, <2>2, <2>5, <2>7, Followed
  <2> QED BY <2>5, <2>6, <2>8
<1>4. CASE ~(Rotating(w) /\ request[w].code = None)
  <2>1. PICK code : code # None /\ Refuse(w, code)
    BY <1>4 DEF AfterLostCommit, None
  <2>2. request' = [request EXCEPT ![w] = Idle] /\ Idle.pc = "idle"
    BY <2>1 DEF Refuse, Answer, Set, Idle
  <2>3. \A v \in Workers : ~At(v, "idle")' => Knows(request[v])'
    BY <2>2, OthersKnow
  <2>4. request' \in [Workers -> Running \cup {Idle}] /\ OwnersFollow
    BY <2>2, Followed
  <2>5. \A a \in answers' : a \in answers \/ (a.mutation \in Mutations /\ a.code # None)
    BY <1>2, <2>1 DEF Refuse, Answer
  <2> QED BY <2>3, <2>4, <2>5
<1> QED BY <1>3, <1>4

\* The answer to the commit is lost (CommitFails).
LEMMA KeepCommitFails ==
  ASSUME KeyInv, NEW w \in Workers, CommitFails(w)
  PROVE  KeyInv'
<1>1. /\ At(w, "commit") /\ AfterLostCommit(w)
      /\ UNCHANGED <<vault, qualified, gap, started>>
      /\ gap' \in BOOLEAN
  BY DEF CommitFails, KeyInv, KeyTypeOK
<1>2. faults' \in 0..MaxFaults
  BY FaultTyped DEF CommitFails, KeyInv, KeyTypeOK
<1>3. CASE Unlock(w) /\ UNCHANGED <<Database, doubt>>
  BY <1>1, <1>2, <1>3, KeepLostCommit
<1>4. CASE lock = w /\ Apply(request[w].tx) /\ lock' = NoWorker /\ UNCHANGED doubt
  <2>1. PICK tx : tx = request[w].tx
    OBVIOUS
  <2>2. tx \in Transactions /\ Fits(tx) /\ Covers(tx) /\ Apply(tx)
    BY <1>1, <1>4, <2>1, TransactionFits
  <2>3. Grows
    BY <1>1, <2>2, ApplyGrows
  <2>4. /\ request' \in [Workers -> Running \cup {Idle}] /\ OwnersFollow
        /\ \A v \in Workers : ~At(v, "idle")' => Knows(request[v])'
        /\ \A a \in answers' : a \in answers \/ (a.mutation \in Mutations /\ a.code # None)
    BY <1>1, <2>3, LostRequest
  <2>5. doubt' \in Transactions
    BY <1>4 DEF KeyInv, KeyTypeOK
  <2> QED BY <1>1, <1>2, <1>4, <2>2, <2>4, <2>5, ApplyStep
<1>5. CASE lock = w /\ doubt' = request[w].tx /\ lock' = Server /\ UNCHANGED Database
  <2>1. PICK tx : tx = request[w].tx
    OBVIOUS
  <2>2. tx \in Transactions /\ Fits(tx) /\ Covers(tx)
    BY <1>1, <1>5, <2>1, TransactionFits
  <2>3. Grows
    BY <1>1, <1>5, SameGrows DEF KeyInv
  <2>4. /\ request' \in [Workers -> Running \cup {Idle}] /\ OwnersFollow
        /\ \A v \in Workers : ~At(v, "idle")' => Knows(request[v])'
        /\ \A a \in answers' : a \in answers \/ (a.mutation \in Mutations /\ a.code # None)
    BY <1>1, <2>3, LostRequest
  <2> QED BY <1>1, <1>2, <1>5, <2>1, <2>2, <2>4, DoubtStep
<1> QED BY <1>3, <1>4, <1>5 DEF CommitFails

\* A step that leaves the requests alone leaves what they know and own.
LEMMA RequestsStay ==
  ASSUME KeyInv, Grows, UNCHANGED request
  PROVE  /\ request' \in [Workers -> Running \cup {Idle}] /\ OwnersFollow
         /\ \A v \in Workers : ~At(v, "idle")' => Knows(request[v])'
<1>1. request' = request /\ request \in [Workers -> Running \cup {Idle}]
  BY DEF KeyInv, KeyTypeOK
<1>2. ASSUME NEW v \in Workers, ~At(v, "idle")' PROVE Knows(request[v])'
  <2>1. PICK q : q = request[v]
    OBVIOUS
  <2>2. ~At(v, "idle") /\ request'[v] = q
    BY <1>1, <1>2, <2>1 DEF At
  <2>3. q \in Running /\ Knows(q)
    BY <2>1, <2>2, RequestFacts
  <2>4. Knows(q)'
    BY <2>3, KnowsGrows DEF KeyInv
  <2> QED BY <2>2, <2>4
<1> QED BY <1>1, <1>2 DEF OwnersFollow, At

\* The server finishes the commit it was left with, or drops it (Decide).
LEMMA KeepDecide ==
  ASSUME KeyInv, Decide
  PROVE  KeyInv'
<1> USE NullAssumption
<1>1. /\ lock = Server /\ lock' = NoWorker /\ doubt' = NoTx
      /\ UNCHANGED <<vault, request, answers, qualified, gap, started, faults>>
  BY DEF Decide
<1>2. PICK tx \in Transactions : tx = doubt /\ Fits(tx)
  BY <1>1 DEF KeyInv, KeyTypeOK
<1>3. Covers(tx)
  BY <1>1, <1>2 DEF Covers, KeyInv, VersionsAreOwned
<1>4. doubt' \in Transactions /\ gap' \in BOOLEAN /\ faults' \in 0..MaxFaults
  BY <1>1, NoTxTyped DEF KeyInv, KeyTypeOK
<1>5. CASE Apply(doubt)
  <2>1. Apply(tx) /\ Grows
    BY <1>1, <1>2, <1>5, ApplyGrows
  <2>2. /\ request' \in [Workers -> Running \cup {Idle}] /\ OwnersFollow
        /\ \A v \in Workers : ~At(v, "idle")' => Knows(request[v])'
    BY <1>1, <2>1, RequestsStay
  <2> QED BY <1>1, <1>2, <1>3, <1>4, <2>1, <2>2, ApplyStep
<1>6. CASE UNCHANGED Database
  <2>1. Grows /\ vault' \in Seq(Secrets)
    BY <1>1, <1>6, SameGrows DEF KeyInv
  <2>2. /\ request' \in [Workers -> Running \cup {Idle}] /\ OwnersFollow
        /\ \A v \in Workers : ~At(v, "idle")' => Knows(request[v])'
    BY <1>1, <2>1, RequestsStay
  <2>3. /\ receipts' \in [Kinds \X Keys -> Receipts]
        /\ Sound(control)' /\ HistoryIsControl' /\ ReceiptsHold'
    BY <1>6, <2>1, TablesStay
  <2>4. control' = control /\ receipts' = receipts /\ history' = history
    BY <1>6 DEF Database
  <2>5. KeyTypeOK'
    BY <1>1, <1>4, <2>4 DEF KeyInv, KeyTypeOK
  <2>6. HolderIsCurrent' /\ (lock = Server => Fits(doubt))'
    BY <1>1 DEF HolderIsCurrent
  <2>7. AnswersAreReceipts'
    BY <1>1, <2>4 DEF KeyInv, AnswersAreReceipts
  <2>8. VersionsAreOwned'
    BY <1>1, <2>4 DEF KeyInv, VersionsAreOwned, At, Owns, Recorded, IsActivation
  <2> QED BY <2>2, <2>3, <2>5, <2>6, <2>7, <2>8 DEF KeyInv
<1> QED BY <1>5, <1>6 DEF Decide

-----------------------------------------------------------------------------
(***************************************************************************)
(* The theorems                                                            *)
(***************************************************************************)
\* Nothing is configured, and nobody knows anything (Init).
LEMMA InitKeyInv == Init => KeyInv
<1> SUFFICES ASSUME Init PROVE KeyInv
  OBVIOUS
<1> USE NullAssumption, KeyBoundsAssumption DEF Init
<1>1. Unconfigured \in Control /\ Unconfigured.revision = 0 /\ ~Configured(Unconfigured)
      /\ ~Unconfigured.operator /\ ~Unconfigured.demo
  BY DEF Unconfigured, Control, Configured
<1>2. KeyTypeOK
  <2>1. history \in Seq(Control) /\ vault \in Seq(Secrets)
    BY <1>1
  <2>2. doubt \in Transactions
    BY NoTxTyped
  <2>3. request \in [Workers -> Running \cup {Idle}]
    OBVIOUS
  <2>4. lock \in Workers \cup {NoWorker, Server} /\ control \in Control
    BY <1>1
  <2>5. qualified \subseteq 1..Len(vault) /\ gap \in BOOLEAN
    OBVIOUS
  <2>6. started \in 0..MaxRequests /\ faults \in 0..MaxFaults
    OBVIOUS
  <2> QED BY <2>1, <2>2, <2>3, <2>4, <2>5, <2>6 DEF KeyTypeOK
<1>3. receipts \in [Kinds \X Keys -> Receipts] /\ ReceiptsHold
  BY DEF Receipts, ReceiptsHold, NoReceipt, None
<1>4. Sound(control) /\ HistoryIsControl
  BY <1>1 DEF Sound, HistoryIsControl
<1>5. \A w \in Workers : At(w, "idle")
  BY DEF At, Idle
<1>6. /\ HolderIsCurrent /\ (lock = Server => Fits(doubt))
      /\ AnswersAreReceipts /\ VersionsAreOwned
  BY <1>5 DEF HolderIsCurrent, AnswersAreReceipts, VersionsAreOwned
<1> QED BY <1>2, <1>3, <1>4, <1>5, <1>6 DEF KeyInv

\* Every step keeps the invariant, and so does none (Next).
LEMMA NextKeyInv == KeyInv /\ [Next]_vars => KeyInv'
<1> SUFFICES ASSUME KeyInv, [Next]_vars PROVE KeyInv'
  OBVIOUS
<1>1. CASE Decide
  BY <1>1, KeepDecide
<1>2. ASSUME NEW w \in Workers,
             \/ Begin(w) \/ Busy(w) \/ Replay(w) \/ Stale(w) \/ Lock(w)
             \/ ReadPrevious(w) \/ Validate(w) \/ Write(w) \/ ReadBack(w)
             \/ Revalidate(w) \/ Qualify(w) \/ Compensate(w) \/ Restore(w)
             \/ Record(w) \/ RecordFails(w) \/ Commit(w) \/ CommitFails(w)
             \/ Reconcile(w) \/ LoseConnection(w) \/ Crash(w)
      PROVE  KeyInv'
  <2>1. CASE Begin(w) \/ Busy(w) \/ Replay(w) \/ Stale(w) \/ Lock(w)
    BY <2>1, KeepBegin, KeepEarly, KeepLock
  <2>2. CASE ReadPrevious(w) \/ Validate(w) \/ Write(w) \/ ReadBack(w)
    BY <2>2, KeepReadPrevious, KeepValidate, KeepWrite, KeepReadBack
  <2>3. CASE Revalidate(w) \/ Qualify(w) \/ Compensate(w) \/ Restore(w)
    BY <2>3, KeepRevalidate, KeepQualify, KeepCompensate, KeepRestore
  <2>4. CASE Record(w) \/ RecordFails(w) \/ Commit(w) \/ CommitFails(w)
    BY <2>4, KeepRecord, KeepRecordFails, KeepCommit, KeepCommitFails
  <2>5. CASE Reconcile(w) \/ LoseConnection(w) \/ Crash(w)
    BY <2>5, KeepReconcile, KeepLoseConnection, KeepCrash
  <2> QED BY <1>2, <2>1, <2>2, <2>3, <2>4, <2>5
<1>3. CASE UNCHANGED vars
  <2>1. \A w \in Workers : ~At(w, "idle")' => Knows(request[w])'
    BY <1>3, SameGrows, RequestsStay DEF vars, Database, KeyInv
  <2>2. KeyTypeOK' /\ (receipts \in [Kinds \X Keys -> Receipts])'
    BY <1>3 DEF vars, KeyInv, KeyTypeOK
  <2>3. Sound(control)' /\ HistoryIsControl' /\ HolderIsCurrent'
    BY <1>3 DEF vars, KeyInv, Sound, HistoryIsControl, HolderIsCurrent, At, ReceiptOf
  <2>4. (lock = Server => Fits(doubt))'
    BY <1>3 DEF vars, KeyInv, Fits, Sound
  <2>5. ReceiptsHold' /\ AnswersAreReceipts'
    BY <1>3 DEF vars, KeyInv, ReceiptsHold, AnswersAreReceipts, Holds
  <2>6. VersionsAreOwned'
    BY <1>3 DEF vars, KeyInv, VersionsAreOwned, At, Recorded
  <2> QED BY <2>1, <2>2, <2>3, <2>4, <2>5, <2>6 DEF KeyInv
<1> QED BY <1>1, <1>2, <1>3 DEF Next

\* The invariant holds of every state the program reaches.
THEOREM KeyInvariant == Spec => []KeyInv
BY InitKeyInv, NextKeyInv, PTL DEF Spec

\* The row, its lock, the store and the threads have the values the code knows.
THEOREM TypeCorrect == Spec => []KeyTypeOK
<1>1. KeyInv => KeyTypeOK
  BY DEF KeyInv
<1> QED BY <1>1, KeyInvariant, PTL

\* Whatever fails between the database and the secret store, the bound version
\* exists, holds the bound key and was accepted by the provider (rotate, _compensate,
\* _reconcile_binding).
THEOREM BoundKeyQualified == Spec => []BoundKeyIsQualified
<1>1. KeyInv => BoundKeyIsQualified
  BY DEF KeyInv, Sound, BoundKeyIsQualified
<1> QED BY <1>1, KeyInvariant, PTL

\* A success that was answered, directly, from a receipt or by a reconciliation,
\* names a revision at which the mutation was done.
THEOREM SuccessTrue == Spec => []SuccessIsTrue
<1>1. KeyInv => SuccessIsTrue
  <2>1. SUFFICES ASSUME KeyInv, NEW a \in answers, a.code = None
                 PROVE  Holds(a)
    BY DEF SuccessIsTrue, Holds
  <2>2. a.mutation \in Mutations /\ receipts[Slot(a.mutation)] = a
    BY <2>1 DEF KeyInv, AnswersAreReceipts
  <2>3. Slot(a.mutation) \in Kinds \X Keys
    BY <2>2, SlotTyped
  <2> QED BY <2>1, <2>2, <2>3 DEF KeyInv, ReceiptsHold
<1> QED BY <1>1, KeyInvariant, PTL

\* The successes of one key name one revision, however often it is repeated.
THEOREM KeySpentOnce == Spec => []KeyIsSpentOnce
<1>1. KeyInv => KeyIsSpentOnce
  BY DEF KeyInv, AnswersAreReceipts, KeyIsSpentOnce, Slot
<1> QED BY <1>1, KeyInvariant, PTL

-----------------------------------------------------------------------------
(***************************************************************************)
(* What a request recalls of its own steps                                 *)
(***************************************************************************)
SwitchesOn(old, new) == (new.operator /\ ~old.operator) \/ (new.demo /\ ~old.demo)

\* What switches a channel on needs a key that was just checked.
IsChecked(old, new, checked) ==
  SwitchesOn(old, new) => checked = new.version /\ new.version # 0

\* The value to put back is the one that was bound when the row was read, a
\* request that has a value to undo knows that it wrote, and one that switches a
\* channel on has had the bound key checked.
Recalls(r) ==
  /\ r.pc = "lock" => r.previous = NoSecret
  /\ r.previous # NoSecret => r.previous = r.prior.secret
  /\ Owns(r) \/ r.pc \in {"compensate", "restore"} => r.wrote
  /\ r.pc \in {"record", "commit"} /\ r.code = None /\ r.mutation.kind = "channels"
       => IsChecked(r.prior, Changed(r), r.checked)

RequestsRecall == \A w \in Workers : ~At(w, "idle") => Recalls(request[w])

\* One request moves, to a state of which it recalls the facts.
LEMMA Recalling ==
  ASSUME KeyInv, RequestsRecall, NEW w \in Workers, NEW r,
         request' = [request EXCEPT ![w] = r], r.pc # "idle" => Recalls(r)
  PROVE  RequestsRecall'
<1>1. request \in [Workers -> Running \cup {Idle}]
  BY DEF KeyInv, KeyTypeOK
<1>2. \A v \in Workers : request'[v] = IF v = w THEN r ELSE request[v]
  BY <1>1
<1> QED BY <1>2 DEF RequestsRecall, At

\* It moves without claiming anything new.
Continues(q, r) ==
  /\ r.prior = q.prior /\ r.previous = q.previous /\ r.mutation = q.mutation
  /\ r.version = q.version /\ r.checked = q.checked /\ r.wrote = q.wrote

LEMMA RecallsOn ==
  ASSUME NEW q, NEW r, Recalls(q), Continues(q, r), r.pc # "lock",
         Owns(r) \/ r.pc \in {"compensate", "restore"} =>
           Owns(q) \/ q.pc \in {"compensate", "restore"},
         r.pc \in {"record", "commit"} /\ r.code = None
             /\ r.mutation.kind = "channels" =>
           q.pc \in {"record", "commit"} /\ q.code = None
  PROVE  Recalls(r)
<1>1. r.mutation.kind = "channels" => Changed(r) = Changed(q)
  BY DEF Changed, Continues
<1> QED BY <1>1 DEF Recalls, Continues

\* A request that goes on keeps its code.
LEMMA GotoSets ==
  ASSUME KeyInv, NEW w \in Workers, ~At(w, "idle"), NEW pc \in Stages, Goto(w, pc)
  PROVE  \E r \in Running :
           /\ request' = [request EXCEPT ![w] = r]
           /\ r.pc = pc /\ r.code = request[w].code /\ Continues(request[w], r)
<1>1. PICK r : r = [request[w] EXCEPT !.pc = pc]
  OBVIOUS
<1>2. request[w] \in Running
  BY RequestFacts
<1>3. r \in Running /\ r.pc = pc /\ r.code = request[w].code /\ Continues(request[w], r)
  BY <1>1, <1>2 DEF Running, Continues
<1>4. request' = [request EXCEPT ![w] = r]
  BY <1>1 DEF Goto, Set
<1> QED BY <1>3, <1>4

LEMMA FailSets ==
  ASSUME KeyInv, NEW w \in Workers, ~At(w, "idle"), NEW pc \in Stages,
         NEW code \in {None} \cup Failures, FailAt(w, pc, code)
  PROVE  \E r \in Running :
           /\ request' = [request EXCEPT ![w] = r]
           /\ r.pc = pc /\ r.code = code /\ Continues(request[w], r)
<1>1. PICK r : r = [request[w] EXCEPT !.pc = pc, !.code = code]
  OBVIOUS
<1>2. request[w] \in Running
  BY RequestFacts
<1>3. r \in Running /\ r.pc = pc /\ r.code = code /\ Continues(request[w], r)
  BY <1>1, <1>2 DEF Running, Continues
<1>4. request' = [request EXCEPT ![w] = r]
  BY <1>1 DEF FailAt, Set
<1> QED BY <1>3, <1>4

\* The step of a request that only moves it on, or lets it leave.
MovesOn(w) ==
  \/ request' = [request EXCEPT ![w] = Idle]
  \/ \E r \in Running :
       /\ request' = [request EXCEPT ![w] = r]
       /\ Continues(request[w], r) /\ r.pc # "lock"
       /\ Owns(r) \/ r.pc \in {"compensate", "restore"} =>
            Owns(request[w]) \/ request[w].pc \in {"compensate", "restore"}
       /\ r.pc \in {"record", "commit"} /\ r.code = None
             /\ r.mutation.kind = "channels" =>
            request[w].pc \in {"record", "commit"} /\ request[w].code = None

LEMMA MovingOnRecalls ==
  ASSUME KeyInv, RequestsRecall, NEW w \in Workers, ~At(w, "idle"), MovesOn(w)
  PROVE  RequestsRecall'
<1>1. Recalls(request[w])
  BY DEF RequestsRecall
<1>2. CASE request' = [request EXCEPT ![w] = Idle]
  BY <1>2, Recalling DEF Idle
<1>3. ASSUME NEW r \in Running, request' = [request EXCEPT ![w] = r],
             Continues(request[w], r), r.pc # "lock",
             Owns(r) \/ r.pc \in {"compensate", "restore"} =>
               Owns(request[w]) \/ request[w].pc \in {"compensate", "restore"},
             r.pc \in {"record", "commit"} /\ r.code = None
                 /\ r.mutation.kind = "channels" =>
               request[w].pc \in {"record", "commit"} /\ request[w].code = None
      PROVE  RequestsRecall'
  <2>1. Recalls(r)
    BY <1>1, <1>3, RecallsOn
  <2> QED BY <1>3, <2>1, Recalling
<1> QED BY <1>2, <1>3 DEF MovesOn

LEMMA LeavingRecalls ==
  ASSUME KeyInv, RequestsRecall, NEW w \in Workers, ~At(w, "idle"),
         NEW code, NEW projection, Answer(w, code, projection)
  PROVE  RequestsRecall'
BY MovingOnRecalls DEF MovesOn, Answer, Set

LEMMA BeginRecalls ==
  ASSUME KeyInv, RequestsRecall, NEW w \in Workers, Begin(w)
  PROVE  RequestsRecall'
<1>1. PICK m : Set(w, [pc |-> "lock", mutation |-> m, prior |-> Unconfigured,
                       previous |-> NoSecret, wrote |-> FALSE, version |-> 0,
                       code |-> None, checked |-> 0, tx |-> NoTx])
  BY DEF Begin
<1>2. PICK r : r = [pc |-> "lock", mutation |-> m, prior |-> Unconfigured,
                    previous |-> NoSecret, wrote |-> FALSE, version |-> 0,
                    code |-> None, checked |-> 0, tx |-> NoTx]
  OBVIOUS
<1>3. r.pc = "lock" /\ r.previous = NoSecret
  BY <1>2
<1>4. Recalls(r)
  BY <1>3 DEF Recalls, Owns
<1>5. request' = [request EXCEPT ![w] = r]
  BY <1>1, <1>2 DEF Set
<1> QED BY <1>4, <1>5, Recalling

\* No channel goes on without the check: what does not ask for one switches none on.
LEMMA LockRecalls ==
  ASSUME KeyInv, RequestsRecall, NEW w \in Workers, Lock(w)
  PROVE  RequestsRecall'
<1>1. At(w, "lock") /\ ~At(w, "idle") /\ control \in Control
  BY DEF Lock, At, KeyInv, KeyTypeOK
<1>2. /\ request[w] \in Running /\ request[w].mutation \in Mutations
      /\ request[w].mutation.kind \in Kinds
  BY <1>1, RequestFacts
<1> DEFINE m == request[w].mutation
           NextOf(pc, code) ==
             \/ pc = "previous" /\ code = None
             \/ pc = "validate" /\ code = None
             \/ pc = "qualify" /\ code = None
             \/ pc = "record" /\ code = "secret_unavailable"
             \/ pc = "record" /\ code = None /\ m.kind = "channels" /\ ~TurnsOn(m, control)
<1>3. PICK pc, code : /\ NextOf(pc, code)
                      /\ Set(w, [request[w] EXCEPT !.pc = pc, !.code = code,
                                                   !.prior = control])
  BY <1>2 DEF Lock, Kinds
<1>4. PICK r : r = [request[w] EXCEPT !.pc = pc, !.code = code, !.prior = control]
  OBVIOUS
<1>5. /\ r.pc = pc /\ r.code = code /\ r.prior = control
      /\ r.mutation = request[w].mutation /\ r.previous = request[w].previous
  BY <1>2, <1>4 DEF Running
<1>6. r.previous = NoSecret
  BY <1>1, <1>5 DEF RequestsRecall, Recalls, At
<1>7. ASSUME pc = "record", code = None
      PROVE  IsChecked(r.prior, Changed(r), r.checked)
  <2>1. r.mutation.kind = "channels" /\ ~TurnsOn(r.mutation, control)
    BY <1>3, <1>5, <1>7 DEF None
  <2>2. PICK p, o, d : /\ p \in Control /\ p = r.prior
                      /\ o = r.mutation.operator /\ d = r.mutation.demo
    BY <1>1, <1>5
  <2>3. Changed(r) = [p EXCEPT !.operator = o, !.demo = d, !.revision = @ + 1]
    BY <2>1, <2>2 DEF Changed
  <2>4. Changed(r).operator = o /\ Changed(r).demo = d
    BY <2>3 DEF Control
  <2> QED BY <1>5, <2>1, <2>2, <2>4 DEF TurnsOn, IsChecked, SwitchesOn
<1>8. ~Owns(r) /\ r.pc \notin {"lock", "compensate", "restore", "commit"}
  BY <1>3, <1>5 DEF Owns, None
<1>9. Recalls(r)
  BY <1>5, <1>6, <1>7, <1>8 DEF Recalls
<1>10. request' = [request EXCEPT ![w] = r]
  BY <1>3, <1>4 DEF Set
<1> QED BY <1>9, <1>10, Recalling

LEMMA ReadPreviousRecalls ==
  ASSUME KeyInv, RequestsRecall, NEW w \in Workers, ReadPrevious(w)
  PROVE  RequestsRecall'
<1>1. At(w, "previous") /\ ~At(w, "idle")
  BY DEF ReadPrevious, At
<1>2. request[w] \in Running /\ Knows(request[w]) /\ Recalls(request[w])
  BY <1>1, RequestFacts DEF RequestsRecall
<1>3. vault[request[w].prior.version] = request[w].prior.secret
  BY <1>1, <1>2 DEF Knows, At, Sound
<1>4. CASE Set(w, [request[w] EXCEPT !.pc = "validate",
                     !.previous = vault[request[w].prior.version]])
  <2>1. PICK r : r = [request[w] EXCEPT !.pc = "validate",
                        !.previous = vault[request[w].prior.version]]
    OBVIOUS
  <2>2. r.pc = "validate" /\ r.prior = request[w].prior /\ r.previous = r.prior.secret
    BY <1>2, <1>3, <2>1 DEF Running
  <2>3. Recalls(r)
    BY <2>2 DEF Recalls, Owns
  <2>4. request' = [request EXCEPT ![w] = r]
    BY <1>4, <2>1 DEF Set
  <2> QED BY <2>3, <2>4, Recalling
<1>5. CASE FailAt(w, "record", "secret_unavailable")
  <2>1. "secret_unavailable" \in Failures /\ "secret_unavailable" # None
          /\ "record" \in Stages
    BY DEF Failures, None, Stages
  <2>2. PICK r \in Running :
          /\ request' = [request EXCEPT ![w] = r]
          /\ r.pc = "record" /\ r.code # None /\ Continues(request[w], r)
    BY <1>1, <1>5, <2>1, FailSets
  <2>3. MovesOn(w)
    BY <2>2 DEF MovesOn, Owns
  <2> QED BY <1>1, <2>3, MovingOnRecalls
<1> QED BY <1>4, <1>5 DEF ReadPrevious

LEMMA ValidateRecalls ==
  ASSUME KeyInv, RequestsRecall, NEW w \in Workers, Validate(w)
  PROVE  RequestsRecall'
<1>1. ~At(w, "idle")
  BY DEF Validate, At
<1>2. PICK code \in Verdicts :
        FailAt(w, IF code = None THEN "write" ELSE "record", code)
  BY DEF Validate
<1>3. PICK pc \in Stages : pc = IF code = None THEN "write" ELSE "record"
  BY DEF Stages
<1>4. code \in {None} \cup Failures
  BY DEF Verdicts, Failures
<1>5. PICK r \in Running :
        /\ request' = [request EXCEPT ![w] = r]
        /\ r.pc = pc /\ r.code = code /\ Continues(request[w], r)
  BY <1>1, <1>2, <1>3, <1>4, FailSets
<1>6. MovesOn(w)
  BY <1>3, <1>5 DEF MovesOn, Owns
<1> QED BY <1>1, <1>6, MovingOnRecalls

LEMMA WriteRecalls ==
  ASSUME KeyInv, RequestsRecall, NEW w \in Workers, Write(w)
  PROVE  RequestsRecall'
<1>1. ~At(w, "idle")
  BY DEF Write, At
<1>2. request[w] \in Running /\ Recalls(request[w])
  BY <1>1, RequestFacts DEF RequestsRecall
<1>3. ASSUME NEW r, request' = [request EXCEPT ![w] = r],
             r.pc \in {"readback", "compensate"}, r.wrote = TRUE,
             r.prior = request[w].prior, r.previous = request[w].previous
      PROVE  RequestsRecall'
  <2>1. Recalls(r)
    BY <1>2, <1>3 DEF Recalls
  <2> QED BY <1>3, <2>1, Recalling
<1>4. CASE Set(w, [request[w] EXCEPT !.pc = "readback", !.wrote = TRUE,
                                     !.version = Len(vault) + 1])
  <2>1. PICK r : r = [request[w] EXCEPT !.pc = "readback", !.wrote = TRUE,
                                        !.version = Len(vault) + 1]
    OBVIOUS
  <2>2. /\ r.pc = "readback" /\ r.wrote = TRUE /\ r.prior = request[w].prior
        /\ r.previous = request[w].previous
    BY <1>2, <2>1 DEF Running
  <2>3. request' = [request EXCEPT ![w] = r]
    BY <1>4, <2>1 DEF Set
  <2> QED BY <1>3, <2>2, <2>3
<1>5. CASE Set(w, [request[w] EXCEPT !.pc = "compensate", !.wrote = TRUE,
                                     !.code = "secret_unavailable"])
  <2>1. PICK r : r = [request[w] EXCEPT !.pc = "compensate", !.wrote = TRUE,
                                        !.code = "secret_unavailable"]
    OBVIOUS
  <2>2. /\ r.pc = "compensate" /\ r.wrote = TRUE /\ r.prior = request[w].prior
        /\ r.previous = request[w].previous
    BY <1>2, <2>1 DEF Running
  <2>3. request' = [request EXCEPT ![w] = r]
    BY <1>5, <2>1 DEF Set
  <2> QED BY <1>3, <2>2, <2>3
<1> QED BY <1>4, <1>5 DEF Write

LEMMA ReadBackRecalls ==
  ASSUME KeyInv, RequestsRecall, NEW w \in Workers, ReadBack(w) \/ Revalidate(w)
  PROVE  RequestsRecall'
<1>1. ~At(w, "idle") /\ Owns(request[w])
  BY DEF ReadBack, Revalidate, At, Owns
<1>2. request[w].mutation.kind = "rotate"
  BY <1>1, RequestFacts DEF ReadBack, Revalidate, Knows, At, RotationStages
<1>3. PICK r \in Running :
        /\ request' = [request EXCEPT ![w] = r]
        /\ r.pc \in {"revalidate", "record", "compensate"} /\ Continues(request[w], r)
  <2>1. {"revalidate", "record", "compensate"} \subseteq Stages
    BY DEF Stages
  <2>2. CASE Goto(w, "revalidate") \/ Goto(w, "record")
    BY <1>1, <2>1, <2>2, GotoSets
  <2>3. CASE \E code \in Failures : FailAt(w, "compensate", code)
    BY <1>1, <2>1, <2>3, FailSets
  <2> QED BY <2>2, <2>3 DEF ReadBack, Revalidate, Verdicts, Failures
<1>4. MovesOn(w)
  BY <1>1, <1>2, <1>3 DEF MovesOn, Continues
<1> QED BY <1>1, <1>4, MovingOnRecalls

LEMMA QualifyRecalls ==
  ASSUME KeyInv, RequestsRecall, NEW w \in Workers, Qualify(w)
  PROVE  RequestsRecall'
<1>1. At(w, "qualify") /\ ~At(w, "idle")
  BY DEF Qualify, At
<1>2. /\ request[w] \in Running /\ Knows(request[w]) /\ Recalls(request[w])
      /\ request[w].prior \in Control
  BY <1>1, RequestFacts DEF RequestsRecall
<1>3. Configured(request[w].prior) /\ request[w].mutation.kind = "channels"
  BY <1>1, <1>2 DEF Knows, At
<1>4. ASSUME NEW code \in Verdicts,
             Set(w, [request[w] EXCEPT !.pc = "record", !.code = code,
                       !.checked = IF code = None
                                   THEN request[w].prior.version ELSE 0])
      PROVE  RequestsRecall'
  <2>1. PICK r : r = [request[w] EXCEPT !.pc = "record", !.code = code,
                        !.checked = IF code = None
                                    THEN request[w].prior.version ELSE 0]
    OBVIOUS
  <2>2. /\ r.pc = "record" /\ r.code = code /\ r.prior = request[w].prior
        /\ r.previous = request[w].previous /\ r.mutation = request[w].mutation
        /\ code = None => r.checked = r.prior.version
    BY <1>2, <2>1 DEF Running
  <2>3. PICK p, o, d : /\ p \in Control /\ p = r.prior
                      /\ o = r.mutation.operator /\ d = r.mutation.demo
    BY <1>2, <2>2
  <2>4. Changed(r) = [p EXCEPT !.operator = o, !.demo = d, !.revision = @ + 1]
    BY <1>3, <2>2, <2>3 DEF Changed
  <2>5. Changed(r).version = r.prior.version
    BY <2>3, <2>4 DEF Control
  <2>6. code = None => IsChecked(r.prior, Changed(r), r.checked)
    BY <1>3, <2>2, <2>5 DEF IsChecked, Configured
  <2>7. Recalls(r)
    BY <1>2, <1>3, <2>2, <2>6 DEF Recalls, Owns
  <2>8. request' = [request EXCEPT ![w] = r]
    BY <1>4, <2>1 DEF Set
  <2> QED BY <2>7, <2>8, Recalling
<1>5. CASE FailAt(w, "record", "secret_unavailable")
  <2>1. "secret_unavailable" \in Failures /\ "secret_unavailable" # None
          /\ "record" \in Stages
    BY DEF Failures, None, Stages
  <2>2. PICK r \in Running :
          /\ request' = [request EXCEPT ![w] = r]
          /\ r.pc = "record" /\ r.code # None /\ Continues(request[w], r)
    BY <1>1, <1>5, <2>1, FailSets
  <2>3. MovesOn(w)
    BY <2>2 DEF MovesOn, Owns
  <2> QED BY <1>1, <2>3, MovingOnRecalls
<1> QED BY <1>4, <1>5 DEF Qualify

\* What _compensate puts back, it goes on to record a failure.
LEMMA CompensateRecalls ==
  ASSUME KeyInv, RequestsRecall, NEW w \in Workers, Compensate(w)
  PROVE  RequestsRecall'
<1>1. At(w, "compensate") /\ ~At(w, "idle") /\ "record" \in Stages
  BY DEF Compensate, At, Stages
<1>2. request[w].code # None
  BY <1>1, RequestFacts DEF Knows, At
<1>3. PICK code \in Failures : code # None /\ (Goto(w, "record") \/ FailAt(w, "record", code))
  BY DEF Compensate, PutBack, Failures, None
<1>4. PICK r \in Running :
        /\ request' = [request EXCEPT ![w] = r]
        /\ r.pc = "record" /\ r.code # None /\ Continues(request[w], r)
  <2>1. CASE Goto(w, "record")
    BY <1>1, <1>2, <2>1, GotoSets
  <2>2. CASE FailAt(w, "record", code)
    BY <1>1, <1>3, <2>2, FailSets
  <2> QED BY <1>3, <2>1, <2>2
<1>5. MovesOn(w)
  BY <1>4 DEF MovesOn, Owns
<1> QED BY <1>1, <1>5, MovingOnRecalls

\* The transaction is written down (Record).
LEMMA RecordRecalls ==
  ASSUME KeyInv, RequestsRecall, NEW w \in Workers, Record(w)
  PROVE  RequestsRecall'
<1>1. /\ At(w, "record") /\ ~At(w, "idle")
      /\ Set(w, [request[w] EXCEPT !.pc = "commit", !.tx = Transaction(request[w])])
  BY DEF Record, At
<1>2. request[w] \in Running
  BY <1>1, RequestFacts
<1>3. PICK r : r = [request[w] EXCEPT !.pc = "commit", !.tx = Transaction(request[w])]
  OBVIOUS
<1>4. /\ r \in Running /\ r.pc = "commit" /\ r.code = request[w].code
      /\ Continues(request[w], r)
  BY <1>2, <1>3, TransactionTyped DEF Running, Stages, Continues
<1>5. request' = [request EXCEPT ![w] = r]
  BY <1>1, <1>3 DEF Set
<1>6. MovesOn(w)
  BY <1>1, <1>4, <1>5 DEF MovesOn, Owns, Continues, At
<1> QED BY <1>1, <1>6, MovingOnRecalls

\* A rotation that looks after its written key has written it.
LEMMA LookingAfterRecalls ==
  ASSUME KeyInv, RequestsRecall, NEW w \in Workers, At(w, "record") \/ At(w, "commit"),
         Rotating(w), request[w].code = None,
         NEW pc \in {"restore", "reconcile"}, Goto(w, pc)
  PROVE  RequestsRecall'
<1>1. ~At(w, "idle") /\ pc \in Stages
  BY DEF At, Stages
<1>2. PICK r \in Running :
        /\ request' = [request EXCEPT ![w] = r]
        /\ r.pc = pc /\ Continues(request[w], r)
  BY <1>1, GotoSets
<1>3. Owns(request[w])
  BY DEF Owns, At, Rotating
<1>4. MovesOn(w)
  BY <1>2, <1>3 DEF MovesOn
<1> QED BY <1>1, <1>4, MovingOnRecalls

LEMMA ReconcileRecalls ==
  ASSUME KeyInv, RequestsRecall, NEW w \in Workers, Reconcile(w)
  PROVE  RequestsRecall'
<1>1. At(w, "reconcile") /\ ~At(w, "idle") /\ "restore" \in Stages
  BY DEF Reconcile, At, Stages
<1>2. CASE Goto(w, "restore")
  <2>1. PICK r \in Running :
          /\ request' = [request EXCEPT ![w] = r]
          /\ r.pc = "restore" /\ Continues(request[w], r)
    BY <1>1, <1>2, GotoSets
  <2>2. Owns(request[w])
    BY <1>1, RequestFacts DEF Knows, Owns, At, RotationStages
  <2>3. MovesOn(w)
    BY <2>1, <2>2 DEF MovesOn
  <2> QED BY <1>1, <2>3, MovingOnRecalls
<1>3. CASE \E code, projection : Answer(w, code, projection)
  BY <1>1, <1>3, LeavingRecalls
<1> QED BY <1>2, <1>3 DEF Reconcile, Refuse

\* Every step leaves the requests with what they recall (Next).
LEMMA NextRecalls == KeyInv /\ RequestsRecall /\ [Next]_vars => RequestsRecall'
<1> SUFFICES ASSUME KeyInv, RequestsRecall, [Next]_vars PROVE RequestsRecall'
  OBVIOUS
<1>1. CASE UNCHANGED request
  BY <1>1 DEF RequestsRecall, At
<1>2. ASSUME NEW w \in Workers, ~At(w, "idle"),
             \E code, projection : Answer(w, code, projection)
      PROVE  RequestsRecall'
  BY <1>2, LeavingRecalls
<1>3. ASSUME NEW w \in Workers,
             Busy(w) \/ Replay(w) \/ Stale(w) \/ Restore(w) \/ Commit(w)
      PROVE  RequestsRecall'
  <2>1. ~At(w, "idle")
    BY <1>3 DEF Busy, Replay, Stale, Restore, Commit, At
  <2>2. CASE Busy(w) \/ Replay(w) \/ Stale(w)
    <3>1. \E code, projection : Answer(w, code, projection)
      BY <2>2 DEF Busy, Replay, Stale, Refuse
    <3> QED BY <1>2, <2>1, <3>1
  <2>3. CASE Restore(w) \/ Commit(w)
    <3>1. \E code, projection : Answer(w, code, projection)
      BY <2>3 DEF Restore, PutBack, Commit, Refuse
    <3> QED BY <1>2, <2>1, <3>1
  <2> QED BY <1>3, <2>2, <2>3
<1>4. ASSUME NEW w \in Workers, RecordFails(w) \/ CommitFails(w)
      PROVE  RequestsRecall'
  <2>1. (At(w, "record") \/ At(w, "commit")) /\ ~At(w, "idle")
    BY <1>4 DEF RecordFails, CommitFails, At
  <2>2. CASE Rotating(w) /\ request[w].code = None
    <3>1. PICK pc \in {"restore", "reconcile"} : Goto(w, pc)
      BY <1>4, <2>2 DEF RecordFails, CommitFails, RolledBack, AfterLostCommit
    <3> QED BY <2>1, <2>2, <3>1, LookingAfterRecalls
  <2>3. CASE ~(Rotating(w) /\ request[w].code = None)
    <3>1. \E code, projection : Answer(w, code, projection)
      BY <1>4, <2>3 DEF RecordFails, CommitFails, RolledBack, AfterLostCommit, Refuse
    <3> QED BY <1>2, <2>1, <3>1
  <2> QED BY <2>2, <2>3
<1>5. ASSUME NEW w \in Workers, Crash(w) PROVE RequestsRecall'
  BY <1>5, MovingOnRecalls DEF Crash, Set, MovesOn
<1>6. ASSUME NEW w \in Workers,
             \/ Begin(w) \/ Lock(w) \/ ReadPrevious(w) \/ Validate(w) \/ Write(w)
             \/ ReadBack(w) \/ Revalidate(w) \/ Qualify(w) \/ Compensate(w)
             \/ Record(w) \/ Reconcile(w)
      PROVE  RequestsRecall'
  <2>1. CASE Begin(w) \/ Lock(w) \/ ReadPrevious(w) \/ Validate(w) \/ Write(w)
    BY <2>1, BeginRecalls, LockRecalls, ReadPreviousRecalls, ValidateRecalls, WriteRecalls
  <2>2. CASE \/ ReadBack(w) \/ Revalidate(w) \/ Qualify(w) \/ Compensate(w)
             \/ Record(w) \/ Reconcile(w)
    BY <2>2, ReadBackRecalls, QualifyRecalls, CompensateRecalls, RecordRecalls,
       ReconcileRecalls
  <2> QED BY <1>6, <2>1, <2>2
<1>7. CASE Next
  <2>1. CASE Decide \/ \E w \in Workers : LoseConnection(w)
    BY <1>1, <2>1 DEF Decide, LoseConnection
  <2> QED BY <1>3, <1>4, <1>5, <1>6, <1>7, <2>1 DEF Next
<1> QED BY <1>1, <1>7 DEF vars

-----------------------------------------------------------------------------
(***************************************************************************)
(* Revisions and their audit                                               *)
(***************************************************************************)
AuditEvents ==
  [mutation : Mutations, code : {None} \cup Failures, prior : Nat,
   resulting : Nat, checked : Nat]

\* The events of a transaction that may be applied to the row as it is: one for
\* a success, none that looks like one for a failure.
IsExplained(tx) ==
  IF tx.receipt.code = None
  THEN LET e == tx.events[1]
       IN  /\ Len(tx.events) = 1
           /\ e.code = None /\ e.mutation = tx.receipt.mutation
           /\ e.prior = control.revision /\ e.resulting = tx.row.revision
           /\ IsChecked(control, tx.row, e.checked)
  ELSE \A i \in DOMAIN tx.events : tx.events[i].code # None

\* The event of a success has its receipt, and the check it needed.
Justified(e) ==
  /\ e.resulting \in 1..control.revision /\ e.prior = e.resulting - 1
  /\ receipts[Slot(e.mutation)].code = None
  /\ receipts[Slot(e.mutation)].mutation = e.mutation
  /\ receipts[Slot(e.mutation)].projection.revision = e.resulting
  /\ IsChecked(history[e.resulting], history[e.resulting + 1], e.checked)

\* Each revision has the one event of a success.
AuditHolds ==
  /\ audit \in Seq(AuditEvents)
  /\ \A i \in DOMAIN audit : audit[i].code = None => Justified(audit[i])
  /\ \A i, j \in DOMAIN audit :
       audit[i].code = None /\ audit[j].code = None
         /\ audit[i].resulting = audit[j].resulting => i = j
  /\ \A r \in 1..control.revision :
       \E i \in DOMAIN audit : audit[i].code = None /\ audit[i].resulting = r

AuditInv ==
  /\ RequestsRecall
  /\ AuditHolds
  /\ lock = Server => IsExplained(doubt)

\* A transaction explains what it does to the row its request has read.
LEMMA TransactionExplained ==
  ASSUME KeyInv, RequestsRecall, NEW w \in Workers, At(w, "commit"), lock = w
  PROVE  IsExplained(request[w].tx)
<1>1. PICK r \in Running : r = request[w] /\ Knows(r) /\ Recalls(r)
  BY RequestFacts DEF RequestsRecall, At
<1>2. r.pc = "commit" /\ r.prior = control /\ r.mutation \in Mutations
  BY <1>1, RequestFacts DEF At, KeyInv, HolderIsCurrent
<1>3. PICK row : row = IF r.code = None THEN Changed(r) ELSE r.prior
  OBVIOUS
<1>4. PICK e : e = Event(r.mutation, r.code, r.prior, row, r.checked)
  OBVIOUS
<1>5. /\ e.mutation = r.mutation /\ e.code = r.code /\ e.prior = control.revision
      /\ e.resulting = row.revision /\ e.checked = r.checked
  BY <1>2, <1>4 DEF Event
<1>6. PICK tx : tx = Transaction(r)
  OBVIOUS
<1>7. /\ tx.row = row /\ tx.receipt.code = r.code /\ tx.receipt.mutation = r.mutation
      /\ tx.events \in {<<>>, <<e>>} /\ (r.code = None => tx.events = <<e>>)
  BY <1>3, <1>4, <1>6 DEF Transaction, Receipt
<1>8. CASE r.code # None
  BY <1>1, <1>2, <1>5, <1>6, <1>7, <1>8 DEF IsExplained, Knows
<1>9. CASE r.code = None
  <2>1. IsChecked(r.prior, row, r.checked)
    <3>1. CASE r.mutation.kind = "channels"
      BY <1>1, <1>2, <1>3, <1>9, <3>1 DEF Recalls
    <3>2. CASE r.mutation.kind # "channels"
      <4>1. r.mutation.kind = "rotate" /\ r.prior \in Control
        BY <1>2, <3>2, SlotTyped, <1>1 DEF Kinds, Running
      <4>2. row.operator = r.prior.operator /\ row.demo = r.prior.demo
        BY <1>3, <1>9, <4>1 DEF Changed, Control
      <4> QED BY <4>2 DEF IsChecked, SwitchesOn
    <3> QED BY <3>1, <3>2
  <2>2. Len(tx.events) = 1 /\ tx.events[1] = e
    BY <1>7, <1>9
  <2> QED BY <1>1, <1>2, <1>5, <1>6, <1>7, <1>9, <2>1, <2>2 DEF IsExplained, Knows
<1> QED BY <1>8, <1>9

\* What justified an event goes on to justify it (Apply).
LEMMA JustifiedStays ==
  ASSUME KeyInv, NEW tx \in Transactions, Fits(tx), Apply(tx),
         UNCHANGED <<vault, qualified>>, NEW e \in AuditEvents, Justified(e)
  PROVE  Justified(e)'
<1>1. Slot(e.mutation) \in Kinds \X Keys
  BY SlotTyped DEF AuditEvents
<1>2. receipts[Slot(e.mutation)] # NoReceipt
  BY DEF Justified, NoReceipt, None
<1>3. receipts'[Slot(e.mutation)] = receipts[Slot(e.mutation)]
  BY <1>1, <1>2, ApplyReceipts
<1>4. /\ Grows /\ control' \in Control /\ control \in Control
      /\ control.revision <= control'.revision
  BY ApplyGrows DEF KeyInv, KeyTypeOK
<1>5. control.revision \in Nat /\ control'.revision \in Nat
        /\ Len(history) = control.revision + 1
  BY <1>4 DEF Control, KeyInv, HistoryIsControl
<1>6. PICK r : r = e.resulting
  OBVIOUS
<1>7. r \in 1..control.revision
  BY <1>6 DEF Justified
<1>8. r \in 1..Len(history) /\ r + 1 \in 1..Len(history) /\ r \in 1..control'.revision
  BY <1>4, <1>5, <1>7
<1>9. history'[r] = history[r] /\ history'[r + 1] = history[r + 1]
  BY <1>4, <1>8 DEF Grows
<1> QED BY <1>3, <1>6, <1>8, <1>9 DEF Justified, IsChecked, SwitchesOn

\* A transaction adds the event of the revision it makes, or none of a success
\* (Apply).
LEMMA ApplyKeepsAudit ==
  ASSUME KeyInv, AuditHolds, NEW tx \in Transactions, Fits(tx), IsExplained(tx),
         Apply(tx), UNCHANGED <<vault, qualified>>
  PROVE  AuditHolds'
<1>1. audit \in Seq(AuditEvents) /\ tx.events \in Seq(AuditEvents)
  BY DEF AuditHolds, Transactions, AuditEvents
<1>2. audit' = audit \o tx.events
  BY DEF Apply
<1>3. control \in Control /\ control' = tx.row /\ control' \in Control
  BY ApplyGrows DEF KeyInv, KeyTypeOK
<1>4. control.revision \in Nat /\ control'.revision \in Nat
  BY <1>3 DEF Control
<1>5. \A e \in AuditEvents : Justified(e) => Justified(e)'
  BY JustifiedStays
<1>6. \A i \in DOMAIN audit : audit[i] \in AuditEvents
  BY <1>1
<1>7. CASE tx.receipt.code # None
  <2>1. control' = control
    BY <1>3, <1>7 DEF Fits
  <2>2. audit' \in Seq(AuditEvents)
    BY <1>1, <1>2
  <2>3. \A i \in DOMAIN audit' : audit'[i].code = None =>
          i \in DOMAIN audit /\ audit'[i] = audit[i]
    BY <1>1, <1>2, <1>7 DEF IsExplained
  <2>4. \A i \in DOMAIN audit : i \in DOMAIN audit' /\ audit'[i] = audit[i]
    BY <1>1, <1>2
  <2>6. ASSUME NEW i \in DOMAIN audit', audit'[i].code = None
        PROVE  Justified(audit[i])'
    <3>1. PICK d \in AuditEvents : d = audit[i] /\ d = audit'[i] /\ i \in DOMAIN audit
      BY <1>6, <2>3, <2>6
    <3>2. Justified(d)
      BY <2>6, <3>1 DEF AuditHolds
    <3>3. Justified(d)'
      BY <1>5, <3>2
    <3> QED BY <3>1, <3>3 DEF Justified
  <2> QED BY <2>1, <2>2, <2>3, <2>4, <2>6 DEF AuditHolds
<1>8. CASE tx.receipt.code = None
  <2>1. PICK e : e = tx.events[1]
    OBVIOUS
  <2>2. /\ Len(tx.events) = 1 /\ e \in AuditEvents
        /\ e.code = None /\ e.mutation = tx.receipt.mutation
        /\ e.prior = control.revision /\ e.resulting = tx.row.revision
        /\ IsChecked(control, tx.row, e.checked)
    BY <1>1, <1>8, <2>1 DEF IsExplained
  <2>3. PICK n : n = Len(audit) + 1
    OBVIOUS
  <2>4. /\ audit' \in Seq(AuditEvents) /\ Len(audit') = n
        /\ audit'[n] = e
        /\ \A i \in DOMAIN audit : audit'[i] = audit[i]
        /\ DOMAIN audit' = DOMAIN audit \cup {n} /\ n \notin DOMAIN audit
    BY <1>1, <1>2, <2>1, <2>2, <2>3
  <2>5. /\ control'.revision = control.revision + 1
        /\ history'[control.revision + 1] = control
        /\ history'[control'.revision + 1] = control'
    BY <1>8, ApplyGrows DEF HistoryIsControl
  <2>6. Justified(e)'
    <3>1. /\ receipts'[Slot(e.mutation)] = tx.receipt
          /\ tx.receipt.mutation \in Mutations
      BY <2>2, ApplyReceipts
    <3>2. tx.receipt.projection.revision = tx.row.revision
      BY <1>8 DEF Fits, Projection
    <3>3. IsChecked(history'[e.resulting], history'[e.resulting + 1], e.checked)
      BY <1>3, <2>2, <2>5
    <3>4. e.resulting \in 1..control'.revision /\ e.prior = e.resulting - 1
      BY <1>3, <1>4, <2>2, <2>5
    <3> QED BY <1>3, <1>8, <2>2, <3>1, <3>2, <3>3, <3>4 DEF Justified, IsChecked, SwitchesOn
  <2>7. ASSUME NEW i \in DOMAIN audit', audit'[i].code = None
        PROVE  Justified(audit[i])'
    <3>1. CASE i = n
      BY <2>4, <2>6, <3>1 DEF Justified
    <3>2. CASE i # n
      <4>1. i \in DOMAIN audit /\ audit'[i] = audit[i]
        BY <2>4, <2>7, <3>2
      <4>2. Justified(audit[i])
        BY <2>7, <4>1 DEF AuditHolds
      <4>3. PICK d \in AuditEvents : d = audit[i] /\ d = audit'[i]
        BY <1>6, <4>1
      <4>4. Justified(d)'
        BY <1>5, <4>2, <4>3
      <4> QED BY <4>3, <4>4 DEF Justified
    <3> QED BY <3>1, <3>2
  <2>8. \A i \in DOMAIN audit : audit[i].code = None => audit[i].resulting \in 1..control.revision
    BY DEF AuditHolds, Justified
  <2>9. e.resulting = control.revision + 1
    BY <1>3, <2>2, <2>5
  <2>10. \A i, j \in DOMAIN audit' :
           audit'[i].code = None /\ audit'[j].code = None
             /\ audit'[i].resulting = audit'[j].resulting => i = j
    BY <1>4, <2>4, <2>8, <2>9 DEF AuditHolds
  <2>11. \A r \in 1..control'.revision :
           \E i \in DOMAIN audit' : audit'[i].code = None /\ audit'[i].resulting = r
    <3>1. SUFFICES ASSUME NEW r \in 1..control'.revision
                   PROVE  \E i \in DOMAIN audit' : audit'[i].code = None
                                                    /\ audit'[i].resulting = r
      OBVIOUS
    <3>2. CASE r = control.revision + 1
      BY <2>2, <2>4, <2>9, <3>2
    <3>3. CASE r \in 1..control.revision
      <4>1. PICK i \in DOMAIN audit : audit[i].code = None /\ audit[i].resulting = r
        BY <3>3 DEF AuditHolds
      <4> QED BY <2>4, <4>1
    <3> QED BY <1>4, <2>5, <3>1, <3>2, <3>3
  <2> QED BY <2>4, <2>7, <2>10, <2>11 DEF AuditHolds
<1> QED BY <1>7, <1>8

\* A step that leaves the database and the transaction in doubt alone.
LEMMA QuietAudit ==
  ASSUME KeyInv, AuditInv, UNCHANGED <<Database, doubt>>,
         lock' = Server => lock = Server
  PROVE  AuditHolds' /\ (lock' = Server => IsExplained(doubt)')
<1>1. /\ control' = control /\ receipts' = receipts /\ audit' = audit
      /\ history' = history /\ doubt' = doubt
  BY DEF Database
<1>2. AuditHolds'
  BY <1>1 DEF AuditInv, AuditHolds, Justified, IsChecked, SwitchesOn
<1>3. IsExplained(doubt) => IsExplained(doubt)'
  BY <1>1 DEF IsExplained
<1> QED BY <1>2, <1>3 DEF AuditInv

\* The step of a thread that commits nothing is such a step.
LEMMA OthersAreQuiet ==
  ASSUME NEW w \in Workers, ~Commit(w), ~CommitFails(w),
         \/ Begin(w) \/ Busy(w) \/ Replay(w) \/ Stale(w) \/ Lock(w)
         \/ ReadPrevious(w) \/ Validate(w) \/ Write(w) \/ ReadBack(w)
         \/ Revalidate(w) \/ Qualify(w) \/ Compensate(w) \/ Restore(w)
         \/ Record(w) \/ RecordFails(w) \/ Commit(w) \/ CommitFails(w)
         \/ Reconcile(w) \/ LoseConnection(w) \/ Crash(w)
  PROVE  UNCHANGED <<Database, doubt>> /\ (lock' = Server => lock = Server)
<1> USE NullAssumption
<1>1. CASE Begin(w) \/ Busy(w) \/ Replay(w) \/ Stale(w) \/ Lock(w)
  BY <1>1 DEF Begin, Busy, Replay, Stale, Lock
<1>2. CASE \/ ReadPrevious(w) \/ Validate(w) \/ Write(w) \/ ReadBack(w)
           \/ Revalidate(w) \/ Qualify(w)
  BY <1>2 DEF ReadPrevious, Validate, Write, ReadBack, Revalidate, Qualify
<1>3. CASE Compensate(w) \/ Restore(w) \/ Record(w) \/ RecordFails(w)
  BY <1>3 DEF Compensate, Restore, Record, RecordFails, Unlock
<1>4. CASE Reconcile(w) \/ LoseConnection(w) \/ Crash(w)
  BY <1>4 DEF Reconcile, LoseConnection, Crash, Unlock
<1> QED BY <1>1, <1>2, <1>3, <1>4

\* Every step keeps the audit true (Next).
LEMMA NextAudit == KeyInv /\ AuditInv /\ [Next]_vars => AuditInv'
<1> SUFFICES ASSUME KeyInv, AuditInv, [Next]_vars PROVE AuditInv'
  OBVIOUS
<1> USE NullAssumption
<1>1. RequestsRecall'
  BY NextRecalls DEF AuditInv
<1>2. ASSUME UNCHANGED <<Database, doubt>>, lock' = Server => lock = Server
      PROVE  AuditInv'
  BY <1>1, <1>2, QuietAudit DEF AuditInv
<1>3. ASSUME NEW tx \in Transactions, Fits(tx), IsExplained(tx), Apply(tx),
             UNCHANGED <<vault, qualified>>, lock' = NoWorker
      PROVE  AuditInv'
  BY <1>1, <1>3, ApplyKeepsAudit DEF AuditInv
<1>4. CASE Decide
  <2>1. doubt \in Transactions /\ Fits(doubt) /\ IsExplained(doubt)
    BY <1>4 DEF Decide, KeyInv, KeyTypeOK, AuditInv
  <2>2. CASE Apply(doubt)
    BY <1>3, <1>4, <2>1, <2>2 DEF Decide
  <2>3. CASE UNCHANGED Database
    <3>1. PICK t : t = doubt
      OBVIOUS
    <3>2. AuditHolds'
      BY <2>3 DEF Database, AuditInv, AuditHolds, Justified, IsChecked, SwitchesOn
    <3> QED BY <1>1, <1>4, <3>2 DEF Decide, AuditInv
  <2> QED BY <1>4, <2>2, <2>3 DEF Decide
<1>5. ASSUME NEW w \in Workers, Commit(w) \/ CommitFails(w)
      PROVE  AuditInv'
  <2>1. At(w, "commit") /\ UNCHANGED <<vault, qualified>>
    BY <1>5 DEF Commit, CommitFails
  <2>2. lock = w =>
          /\ request[w].tx \in Transactions
          /\ Fits(request[w].tx) /\ IsExplained(request[w].tx)
    BY <2>1, TransactionFits, TransactionExplained DEF AuditInv
  <2>3. CASE lock = w /\ Apply(request[w].tx) /\ lock' = NoWorker
    BY <1>3, <2>1, <2>2, <2>3
  <2>4. CASE Unlock(w) /\ UNCHANGED <<Database, doubt>>
    BY <1>2, <2>4 DEF Unlock
  <2>5. CASE lock = w /\ doubt' = request[w].tx /\ lock' = Server /\ UNCHANGED Database
    <3>1. AuditHolds'
      BY <2>5 DEF Database, AuditInv, AuditHolds, Justified, IsChecked, SwitchesOn
    <3>2. PICK tx : tx = request[w].tx
      OBVIOUS
    <3>3. IsExplained(tx) /\ doubt' = tx /\ control' = control
      BY <2>2, <2>5, <3>2 DEF Database
    <3>4. IsExplained(doubt)'
      BY <3>3 DEF IsExplained
    <3> QED BY <1>1, <3>1, <3>4 DEF AuditInv
  <2> QED BY <1>5, <2>3, <2>4, <2>5 DEF Commit, CommitFails
<1>6. CASE UNCHANGED vars
  BY <1>2, <1>6 DEF vars, Database
<1>7. ASSUME NEW w \in Workers,
             \/ Begin(w) \/ Busy(w) \/ Replay(w) \/ Stale(w) \/ Lock(w)
             \/ ReadPrevious(w) \/ Validate(w) \/ Write(w) \/ ReadBack(w)
             \/ Revalidate(w) \/ Qualify(w) \/ Compensate(w) \/ Restore(w)
             \/ Record(w) \/ RecordFails(w) \/ Commit(w) \/ CommitFails(w)
             \/ Reconcile(w) \/ LoseConnection(w) \/ Crash(w)
      PROVE  AuditInv'
  <2>1. CASE Commit(w) \/ CommitFails(w)
    BY <1>5, <2>1
  <2>2. CASE ~Commit(w) /\ ~CommitFails(w)
    BY <1>2, <1>7, <2>2, OthersAreQuiet
  <2> QED BY <2>1, <2>2
<1> QED BY <1>4, <1>6, <1>7 DEF Next

\* Nothing was audited, and nobody recalls anything (Init).
LEMMA InitAudit == Init => AuditInv
<1> SUFFICES ASSUME Init PROVE AuditInv
  OBVIOUS
<1>1. lock # Server /\ \A w \in Workers : At(w, "idle")
  BY NullAssumption DEF Init, At, Idle
<1>2. audit = <<>> /\ control.revision = 0
  BY DEF Init, Unconfigured
<1>3. AuditHolds
  BY <1>2 DEF AuditHolds
<1> QED BY <1>1, <1>3 DEF AuditInv, RequestsRecall

LEMMA AuditInvariant == Spec => []AuditInv
BY InitAudit, NextAudit, KeyInvariant, PTL DEF Spec

\* Each revision of the row was made by one audited mutation, recorded under one
\* idempotency key with the projection of that revision (set_channels, rotate).
THEOREM RevisionsAccountedFor == Spec => []RevisionsAreAccountedFor
<1>1. KeyInv /\ AuditInv => RevisionsAreAccountedFor
  <2>1. SUFFICES ASSUME KeyInv, AuditHolds, NEW r \in 1..control.revision
                 PROVE  \E i \in DOMAIN audit, o \in DOMAIN receipts :
                          /\ \A j \in DOMAIN audit :
                               audit[j].code = None /\ audit[j].resulting = r <=> j = i
                          /\ audit[i].prior = r - 1
                          /\ receipts[o] # NoReceipt
                          /\ receipts[o].code = None
                          /\ receipts[o].mutation = audit[i].mutation
                          /\ receipts[o].projection = Projection(history[r + 1])
    BY DEF RevisionsAreAccountedFor, AuditInv
  <2>2. PICK i \in DOMAIN audit : audit[i].code = None /\ audit[i].resulting = r
    BY <2>1 DEF AuditHolds
  <2>3. Justified(audit[i]) /\ audit[i] \in AuditEvents
    BY <2>1, <2>2 DEF AuditHolds
  <2>4. PICK o \in Kinds \X Keys : o = Slot(audit[i].mutation)
    BY <2>3, SlotTyped DEF AuditEvents
  <2>5. /\ receipts[o].code = None /\ receipts[o].mutation = audit[i].mutation
        /\ receipts[o].projection.revision = r
    BY <2>2, <2>3, <2>4 DEF Justified
  <2>6. receipts[o].projection = Projection(history[r + 1])
    BY <2>1, <2>5 DEF KeyInv, ReceiptsHold, Holds
  <2>7. DOMAIN receipts = Kinds \X Keys
    BY <2>1 DEF KeyInv
  <2>8. \A j \in DOMAIN audit :
          audit[j].code = None /\ audit[j].resulting = r <=> j = i
    BY <2>1, <2>2 DEF AuditHolds
  <2>9. audit[i].prior = r - 1
    BY <2>2, <2>3 DEF Justified
  <2>10. receipts[o] # NoReceipt
    BY <2>5 DEF NoReceipt, None
  <2> QED BY <2>4, <2>5, <2>6, <2>7, <2>8, <2>9, <2>10
<1> QED BY <1>1, KeyInvariant, AuditInvariant, PTL

\* A channel went on only after the provider accepted, in the same transaction, the
\* version that was bound (set_channels).
LEMMA ChannelsAreChecked == AuditInv => ChannelsStartOnCheckedKey
BY DEF AuditInv, AuditHolds, Justified, IsChecked, SwitchesOn, ChannelsStartOnCheckedKey

-----------------------------------------------------------------------------
(***************************************************************************)
(* The newest version of the secret                                        *)
(***************************************************************************)
\* The value that a request wrote may be the newest and is not the bound one: it has
\* yet to bind it, or to put the previous one back.
Undone(r) ==
  \/ r.pc \in {"compensate", "restore"}
  \/ Owns(r) /\ (r.pc = "reconcile" => control.version # r.version)
Dirty(w) == ~At(w, "idle") /\ Undone(request[w])

Newest(value) == vault[Len(vault)] = value

\* Whoever reconciles the transaction in doubt waits for it too.
Waits(r) == r.pc = "reconcile" /\ r.version = doubt.row.version

\* The value that is bound, the one its holder is about to bind and the one the
\* server may still bind are the newest, or somebody else will see to it.
NewestIsBound == Newest(control.secret) \/ \E v \in Workers : Dirty(v)
HolderIsNewest ==
  \A w \in Workers : lock = w /\ Owns(request[w]) =>
    Newest(request[w].mutation.secret) \/ \E v \in Workers \ {w} : Dirty(v)
DoubtIsNewest ==
  lock = Server =>
    \/ Newest(doubt.row.secret)
    \/ \E v \in Workers : Dirty(v) /\ ~Waits(request[v])
NewestIsSeenTo == NewestIsBound /\ HolderIsNewest /\ DoubtIsNewest

\* A written version is nobody's before its commit, and what is written after a
\* validation has no failure.
Unbound(r) ==
  /\ Owns(r) /\ r.pc # "reconcile" =>
       /\ control.version # r.version
       /\ lock = Server => doubt.row.version # r.version
  /\ r.pc \in {"write", "readback", "revalidate"} => r.code = None

VaultInv ==
  /\ ~gap /\ vault # <<>> => NewestIsSeenTo
  /\ \A w \in Workers : ~At(w, "idle") => Unbound(request[w])

-----------------------------------------------------------------------------
\* One request moves: the others see what they saw.
LEMMA OneMoves ==
  ASSUME KeyInv, NEW w \in Workers, NEW r, request' = [request EXCEPT ![w] = r]
  PROVE  /\ request'[w] = r
         /\ \A v \in Workers \ {w} : request'[v] = request[v]
BY DEF KeyInv, KeyTypeOK

\* An owner who waits for nobody knows that his version is not bound (Unbound).
LEMMA UnboundStays ==
  ASSUME KeyInv, NEW w \in Workers, NEW r, request' = [request EXCEPT ![w] = r],
         \A v \in Workers : ~At(v, "idle") => Unbound(request[v]),
         UNCHANGED <<control, doubt>>, lock' = Server => lock = Server,
         r.pc # "idle" => Unbound(r)
  PROVE  \A v \in Workers : ~At(v, "idle")' => Unbound(request[v])'
<1>1. /\ request'[w] = r
      /\ \A v \in Workers \ {w} : request'[v] = request[v]
  BY OneMoves
<1>2. \A v \in Workers : request'[v].pc # "idle" => Unbound(request'[v])
  BY <1>1 DEF At
<1> QED BY <1>2 DEF Unbound, Owns, At

\* A step that leaves the store, the row and the transaction in doubt alone, and
\* forgets no value that has to be seen to unless it is reported.
LEMMA QuietVault ==
  ASSUME KeyInv, VaultInv, NEW w \in Workers, NEW r,
         request' = [request EXCEPT ![w] = r],
         UNCHANGED <<vault, control, doubt>>, gap \in BOOLEAN, gap => gap',
         lock' = Server => lock = Server,
         \A v \in Workers : lock' = v => lock = v \/ (v = w /\ ~Owns(r)),
         lock' = w /\ Owns(r) =>
           Owns(request[w]) /\ r.mutation.secret = request[w].mutation.secret,
         Dirty(w) => \/ gap'
                     \/ /\ r.pc # "idle" /\ Undone(r)
                        /\ lock = Server /\ Waits(r) => Waits(request[w])
  PROVE  ~gap' /\ vault' # <<>> => NewestIsSeenTo'
<1> SUFFICES ASSUME ~gap', vault # <<>> PROVE NewestIsSeenTo'
  OBVIOUS
<1> USE NullAssumption
<1>1. /\ request'[w] = r
      /\ \A v \in Workers \ {w} : request'[v] = request[v]
  BY OneMoves
<1>2. NewestIsSeenTo
  BY DEF VaultInv
<1>3. \A v \in Workers : Dirty(v) => Dirty(v)'
  BY <1>1 DEF Dirty, Undone, Owns, At
<1>4. \A v \in Workers : lock = Server /\ Dirty(v) /\ ~Waits(request[v]) => ~Waits(request[v])'
  BY <1>1 DEF Dirty, Waits, At
<1>5. NewestIsBound'
  BY <1>2, <1>3 DEF NewestIsSeenTo, NewestIsBound, Newest
<1>6. HolderIsNewest'
  <2>1. SUFFICES ASSUME NEW h \in Workers, lock' = h, Owns(request'[h])
                 PROVE  vault[Len(vault)] = request'[h].mutation.secret
                          \/ \E v \in Workers \ {h} : Dirty(v)'
    BY DEF HolderIsNewest, Newest, Owns
  <2>2. /\ lock = h /\ Owns(request[h])
        /\ request'[h].mutation.secret = request[h].mutation.secret
    BY <1>1, <2>1
  <2>3. Newest(request[h].mutation.secret) \/ \E v \in Workers \ {h} : Dirty(v)
    BY <1>2, <2>2 DEF NewestIsSeenTo, HolderIsNewest
  <2> QED BY <1>3, <2>2, <2>3 DEF Newest
<1>7. DoubtIsNewest'
  BY <1>2, <1>3, <1>4 DEF NewestIsSeenTo, DoubtIsNewest, Newest
<1> QED BY <1>5, <1>6, <1>7 DEF NewestIsSeenTo

\* A request that has just written sees to it (Write).
LEMMA WriterSeesToIt ==
  ASSUME NEW w \in Workers, Dirty(w)', ~Waits(request[w])',
         lock' = w /\ Owns(request'[w]) => Newest(request[w].mutation.secret)'
  PROVE  NewestIsSeenTo'
<1>1. NewestIsBound' /\ DoubtIsNewest'
  BY DEF NewestIsBound, DoubtIsNewest
<1>2. HolderIsNewest'
  <2>1. SUFFICES ASSUME NEW h \in Workers, lock' = h, Owns(request'[h])
                 PROVE  Newest(request[h].mutation.secret)'
                          \/ \E v \in Workers \ {h} : Dirty(v)'
    BY DEF HolderIsNewest, Owns
  <2>2. CASE h = w
    BY <2>1, <2>2 DEF Newest
  <2>3. CASE h # w
    BY <2>3
  <2> QED BY <2>2, <2>3
<1> QED BY <1>1, <1>2 DEF NewestIsSeenTo

\* A quiet step whose request has no bound version keeps both parts.
LEMMA QuietVaultStep ==
  ASSUME KeyInv, VaultInv, NEW w \in Workers, NEW r,
         request' = [request EXCEPT ![w] = r],
         UNCHANGED <<vault, control, doubt>>, gap => gap',
         lock' = Server => lock = Server,
         \A v \in Workers : lock' = v => lock = v \/ (v = w /\ ~Owns(r)),
         lock' = w /\ Owns(r) =>
           Owns(request[w]) /\ r.mutation.secret = request[w].mutation.secret,
         Dirty(w) => \/ gap'
                     \/ /\ r.pc # "idle" /\ Undone(r)
                        /\ lock = Server /\ Waits(r) => Waits(request[w]),
         r.pc # "idle" => Unbound(r)
  PROVE  VaultInv'
<1>1. gap \in BOOLEAN
  BY DEF KeyInv, KeyTypeOK
<1>2. ~gap' /\ vault' # <<>> => NewestIsSeenTo'
  BY <1>1, QuietVault
<1>3. \A v \in Workers : ~At(v, "idle")' => Unbound(request[v])'
  BY UnboundStays DEF VaultInv
<1> QED BY <1>2, <1>3 DEF VaultInv

\* Before anything is written there is nothing to see to.
LEMMA EarlyVault ==
  ASSUME KeyInv, VaultInv, NEW w \in Workers, NEW r,
         request' = [request EXCEPT ![w] = r],
         request[w].pc \in {"idle", "lock", "previous", "validate", "qualify"},
         UNCHANGED <<vault, control, doubt, gap>>, lock' \in {lock, w},
         ~Owns(r), r.pc = "write" => r.code = None
  PROVE  VaultInv'
<1> USE NullAssumption
<1>1. ~Dirty(w)
  BY DEF Dirty, Undone, Owns, At
<1>2. Unbound(r)
  BY DEF Unbound, Owns
<1>3. /\ lock' = Server => lock = Server
      /\ \A v \in Workers : lock' = v => lock = v \/ (v = w /\ ~Owns(r))
  OBVIOUS
<1> QED BY <1>1, <1>2, <1>3, QuietVaultStep

LEMMA VaultBegins ==
  ASSUME KeyInv, VaultInv, NEW w \in Workers,
         Begin(w) \/ Busy(w) \/ Replay(w) \/ Stale(w)
  PROVE  VaultInv'
<1>1. /\ request[w].pc \in {"idle", "lock"}
      /\ UNCHANGED <<vault, control, doubt, gap>> /\ lock' = lock
  BY DEF Begin, Busy, Replay, Stale, At, Database
<1>2. CASE Begin(w)
  <2>1. PICK m : Set(w, [pc |-> "lock", mutation |-> m, prior |-> Unconfigured,
                         previous |-> NoSecret, wrote |-> FALSE, version |-> 0,
                         code |-> None, checked |-> 0, tx |-> NoTx])
    BY <1>2 DEF Begin
  <2>2. PICK r : r = [pc |-> "lock", mutation |-> m, prior |-> Unconfigured,
                      previous |-> NoSecret, wrote |-> FALSE, version |-> 0,
                      code |-> None, checked |-> 0, tx |-> NoTx]
    OBVIOUS
  <2>3. request' = [request EXCEPT ![w] = r] /\ r.pc = "lock"
    BY <2>1, <2>2 DEF Set
  <2> QED BY <1>1, <2>3, EarlyVault DEF Owns
<1>3. CASE Busy(w) \/ Replay(w) \/ Stale(w)
  <2>1. request' = [request EXCEPT ![w] = Idle] /\ Idle.pc = "idle"
    BY <1>3 DEF Busy, Replay, Stale, Refuse, Answer, Set, Idle
  <2> QED BY <1>1, <2>1, EarlyVault DEF Owns
<1> QED BY <1>2, <1>3

LEMMA VaultLocks ==
  ASSUME KeyInv, VaultInv, NEW w \in Workers, Lock(w)
  PROVE  VaultInv'
<1>1. /\ At(w, "lock") /\ ~At(w, "idle") /\ lock' = w
      /\ UNCHANGED <<vault, control, doubt, gap>>
  BY DEF Lock, At, Database
<1>2. request[w] \in Running /\ request[w].mutation.kind \in Kinds
  BY <1>1, RequestFacts
<1> DEFINE m == request[w].mutation
           NextOf(pc, code) ==
             \/ pc \in {"previous", "validate", "qualify"}
             \/ pc = "record" /\ code = "secret_unavailable"
             \/ pc = "record" /\ code = None /\ m.kind = "channels"
<1>3. PICK pc, code : /\ NextOf(pc, code)
                      /\ Set(w, [request[w] EXCEPT !.pc = pc, !.code = code,
                                                   !.prior = control])
  BY <1>2 DEF Lock, Kinds
<1>4. PICK r : r = [request[w] EXCEPT !.pc = pc, !.code = code, !.prior = control]
  OBVIOUS
<1>5. r.pc = pc /\ r.code = code /\ r.mutation = m
  BY <1>2, <1>4 DEF Running
<1>6. ~Owns(r) /\ r.pc # "write"
  BY <1>3, <1>5 DEF Owns, None
<1>7. request' = [request EXCEPT ![w] = r]
  BY <1>3, <1>4 DEF Set
<1> QED BY <1>1, <1>6, <1>7, EarlyVault DEF At

LEMMA VaultValidates ==
  ASSUME KeyInv, VaultInv, NEW w \in Workers,
         ReadPrevious(w) \/ Validate(w) \/ Qualify(w)
  PROVE  VaultInv'
<1>1. /\ request[w].pc \in {"previous", "validate", "qualify"} /\ ~At(w, "idle")
      /\ UNCHANGED <<vault, control, doubt, gap>> /\ lock' = lock
  BY DEF ReadPrevious, Validate, Qualify, At, Database
<1>2. request[w] \in Running /\ Knows(request[w])
  BY <1>1, RequestFacts
<1>3. ASSUME NEW r, request' = [request EXCEPT ![w] = r], ~Owns(r),
             r.pc = "write" => r.code = None
      PROVE  VaultInv'
  BY <1>1, <1>3, EarlyVault
<1>4. ASSUME NEW code \in Failures, code # None, FailAt(w, "record", code)
      PROVE  VaultInv'
  <2>1. PICK r \in Running : /\ request' = [request EXCEPT ![w] = r]
                             /\ r.pc = "record" /\ r.code = code
    BY <1>1, <1>4, FailSets DEF Stages
  <2> QED BY <1>3, <1>4, <2>1 DEF Owns
<1>5. \A code \in Failures : code # None
  BY DEF Failures, None
<1>6. CASE FailAt(w, "record", "secret_unavailable")
  BY <1>4, <1>5, <1>6 DEF Failures
<1>7. CASE Set(w, [request[w] EXCEPT !.pc = "validate",
                     !.previous = vault[request[w].prior.version]])
  <2>1. PICK r : r = [request[w] EXCEPT !.pc = "validate",
                        !.previous = vault[request[w].prior.version]]
    OBVIOUS
  <2>2. r.pc = "validate" /\ request' = [request EXCEPT ![w] = r]
    BY <1>2, <1>7, <2>1 DEF Running, Set
  <2> QED BY <1>3, <2>2 DEF Owns
<1>8. CASE Validate(w)
  <2>1. PICK code \in Verdicts :
          FailAt(w, IF code = None THEN "write" ELSE "record", code)
    BY <1>8 DEF Validate
  <2>2. CASE code = None
    <3>1. PICK r \in Running : /\ request' = [request EXCEPT ![w] = r]
                               /\ r.pc = "write" /\ r.code = None
      BY <1>1, <2>1, <2>2, FailSets DEF Stages
    <3> QED BY <1>3, <3>1 DEF Owns
  <2>3. CASE code # None
    BY <1>4, <2>1, <2>3 DEF Verdicts, Failures
  <2> QED BY <2>2, <2>3
<1>9. ASSUME NEW code \in Verdicts, At(w, "qualify"),
             Set(w, [request[w] EXCEPT !.pc = "record", !.code = code,
                       !.checked = IF code = None
                                   THEN request[w].prior.version ELSE 0])
      PROVE  VaultInv'
  <2>1. PICK r : r = [request[w] EXCEPT !.pc = "record", !.code = code,
                        !.checked = IF code = None
                                    THEN request[w].prior.version ELSE 0]
    OBVIOUS
  <2>2. r.pc = "record" /\ r.mutation = request[w].mutation
    BY <1>2, <2>1 DEF Running
  <2>3. r.mutation.kind = "channels"
    BY <1>2, <1>9, <2>2 DEF Knows, At
  <2>4. request' = [request EXCEPT ![w] = r]
    BY <1>9, <2>1 DEF Set
  <2> QED BY <1>3, <2>2, <2>3, <2>4 DEF Owns
<1> QED BY <1>6, <1>7, <1>8, <1>9 DEF ReadPrevious, Qualify

\* What was written is read back and validated (ReadBack, Revalidate).
LEMMA VaultRevalidates ==
  ASSUME KeyInv, VaultInv, NEW w \in Workers, ReadBack(w) \/ Revalidate(w)
  PROVE  VaultInv'
<1>1. /\ request[w].pc \in {"readback", "revalidate"} /\ ~At(w, "idle")
      /\ UNCHANGED <<vault, control, doubt, gap>> /\ lock' = lock
  BY DEF ReadBack, Revalidate, At, Database
<1>2. /\ request[w].mutation.kind = "rotate" /\ request[w].code = None
      /\ Unbound(request[w])
  BY <1>1, RequestFacts DEF Knows, RotationStages, VaultInv, Unbound
<1>3. PICK r \in Running :
        /\ request' = [request EXCEPT ![w] = r]
        /\ Continues(request[w], r)
        /\ r.pc = "compensate" \/ (r.pc \in {"revalidate", "record"} /\ r.code = None)
  <2>1. {"revalidate", "record", "compensate"} \subseteq Stages
    BY DEF Stages
  <2>2. CASE Goto(w, "revalidate") \/ Goto(w, "record")
    BY <1>1, <1>2, <2>1, <2>2, GotoSets
  <2>3. CASE \E code \in Failures : FailAt(w, "compensate", code)
    BY <1>1, <2>1, <2>3, FailSets
  <2> QED BY <2>2, <2>3 DEF ReadBack, Revalidate, Verdicts, Failures
<1>4. Owns(request[w]) /\ (r.pc # "compensate" => Owns(r)) /\ r.pc # "reconcile"
  BY <1>1, <1>2, <1>3 DEF Owns, Continues
<1>5. Undone(r) /\ ~Waits(r) /\ r.pc # "idle"
  BY <1>3, <1>4 DEF Undone, Waits
<1>6. Unbound(r)
  BY <1>1, <1>2, <1>3, <1>4 DEF Unbound, Owns, Continues
<1>7. r.mutation.secret = request[w].mutation.secret
  BY <1>3 DEF Continues
<1> QED BY <1>1, <1>3, <1>4, <1>5, <1>6, <1>7, QuietVaultStep

LEMMA VaultRecords ==
  ASSUME KeyInv, VaultInv, NEW w \in Workers, Record(w)
  PROVE  VaultInv'
<1>1. /\ At(w, "record") /\ ~At(w, "idle")
      /\ UNCHANGED <<vault, control, doubt, gap>> /\ lock' = lock
      /\ Set(w, [request[w] EXCEPT !.pc = "commit", !.tx = Transaction(request[w])])
  BY DEF Record, At, Database
<1>2. request[w] \in Running /\ Unbound(request[w])
  BY <1>1, RequestFacts DEF VaultInv
<1>3. PICK r : r = [request[w] EXCEPT !.pc = "commit", !.tx = Transaction(request[w])]
  OBVIOUS
<1>4. /\ r.pc = "commit" /\ r.code = request[w].code
      /\ r.version = request[w].version /\ r.mutation = request[w].mutation
  BY <1>2, <1>3 DEF Running
<1>5. Owns(r) <=> Owns(request[w])
  BY <1>1, <1>4 DEF Owns, At
<1>6. Unbound(r)
  BY <1>1, <1>2, <1>4, <1>5 DEF Unbound, At
<1>7. (Dirty(w) => Undone(r)) /\ ~Waits(r) /\ r.pc # "idle"
  BY <1>1, <1>4, <1>5 DEF Dirty, Undone, Waits, At
<1>8. request' = [request EXCEPT ![w] = r]
  BY <1>1, <1>3 DEF Set
<1> QED BY <1>1, <1>4, <1>5, <1>6, <1>7, <1>8, QuietVaultStep

\* A failed transaction of a rotation goes on to look after its key, any other had
\* none (RolledBack, AfterLostCommit).
LEMMA VaultRollsBack ==
  ASSUME KeyInv, VaultInv, NEW w \in Workers, Unlock(w),
         \/ At(w, "record") /\ RolledBack(w)
         \/ At(w, "commit") /\ AfterLostCommit(w),
         UNCHANGED <<vault, control, doubt, gap>>
  PROVE  VaultInv'
<1> USE NullAssumption
<1>1. ~At(w, "idle") /\ request[w].pc \in {"record", "commit"}
  BY DEF At
<1>2. request[w] \in Running /\ Unbound(request[w])
  BY <1>1, RequestFacts DEF VaultInv
<1>3. /\ lock' # w /\ (lock' = Server => lock = Server)
      /\ \A v \in Workers : lock' = v => lock = v
  BY DEF Unlock
<1>4. CASE Rotating(w) /\ request[w].code = None
  <2>1. PICK pc \in {"restore", "reconcile"} : Goto(w, pc)
    BY <1>4 DEF RolledBack, AfterLostCommit
  <2>2. PICK r \in Running : /\ request' = [request EXCEPT ![w] = r]
                             /\ r.pc = pc /\ r.code = None /\ Continues(request[w], r)
    BY <1>1, <1>4, <2>1, GotoSets DEF Stages
  <2>3. Owns(request[w])
    BY <1>1, <1>4 DEF Owns, Rotating
  <2>4. /\ control.version # r.version
        /\ lock = Server => doubt.row.version # r.version
    BY <1>1, <1>2, <2>2, <2>3 DEF Unbound, Continues
  <2>5. Owns(r) \/ r.pc = "restore"
    BY <1>4, <2>2 DEF Owns, Rotating, Continues
  <2>6. Undone(r) /\ (lock = Server => ~Waits(r)) /\ Unbound(r) /\ r.pc # "idle"
    BY <2>2, <2>4, <2>5 DEF Undone, Waits, Unbound, Owns
  <2> QED BY <1>3, <2>2, <2>6, QuietVaultStep
<1>5. CASE ~(Rotating(w) /\ request[w].code = None)
  <2>1. request' = [request EXCEPT ![w] = Idle] /\ Idle.pc = "idle"
    BY <1>5 DEF RolledBack, AfterLostCommit, Refuse, Answer, Set, Idle
  <2>2. ~Dirty(w) /\ ~Owns(Idle)
    BY <1>1, <1>5, <2>1 DEF Dirty, Undone, Owns, Rotating
  <2> QED BY <1>3, <2>1, <2>2, QuietVaultStep
<1> QED BY <1>4, <1>5

\* A reconciliation finds its version bound, restores, or reports (Reconcile).
LEMMA VaultReconciles ==
  ASSUME KeyInv, VaultInv, NEW w \in Workers, Reconcile(w)
  PROVE  VaultInv'
<1>1. /\ At(w, "reconcile") /\ ~At(w, "idle")
      /\ UNCHANGED <<vault, control, doubt>> /\ lock' = lock
  BY DEF Reconcile, At, Database
<1>2. gap \in BOOLEAN /\ Idle.pc = "idle" /\ ~Owns(Idle)
  BY DEF KeyInv, KeyTypeOK, Idle, Owns
<1>3. CASE Goto(w, "restore") /\ UNCHANGED gap
  <2>1. PICK r \in Running : request' = [request EXCEPT ![w] = r] /\ r.pc = "restore"
    BY <1>1, <1>3, GotoSets DEF Stages
  <2>2. Undone(r) /\ Unbound(r) /\ ~Waits(r) /\ ~Owns(r) /\ r.pc # "idle"
    BY <2>1 DEF Undone, Unbound, Waits, Owns
  <2> QED BY <1>1, <1>3, <2>1, <2>2, QuietVaultStep
<1>4. CASE Activated(request[w]) /\ UNCHANGED gap /\ Answer(w, None, Projection(control))
  <2>1. ~Dirty(w)
    BY <1>1, <1>4 DEF Dirty, Undone, Activated, At
  <2>2. request' = [request EXCEPT ![w] = Idle]
    BY <1>4 DEF Answer, Set
  <2> QED BY <1>1, <1>2, <1>4, <2>1, <2>2, QuietVaultStep
<1>5. CASE Refuse(w, "secret_unavailable") /\ gap' = TRUE
  <2>1. request' = [request EXCEPT ![w] = Idle]
    BY <1>5 DEF Refuse, Answer, Set
  <2> QED BY <1>1, <1>2, <1>5, <2>1, QuietVaultStep
<1> QED BY <1>3, <1>4, <1>5 DEF Reconcile

\* A request that dies after a write is reported (Crash).
LEMMA VaultCrashes ==
  ASSUME KeyInv, RequestsRecall, VaultInv, NEW w \in Workers, Crash(w)
  PROVE  VaultInv'
<1> USE NullAssumption
<1>1. /\ ~At(w, "idle") /\ UNCHANGED <<vault, control, doubt>>
      /\ gap' = (gap \/ request[w].wrote)
      /\ request' = [request EXCEPT ![w] = Idle]
  BY DEF Crash, Database, Set
<1>2. /\ lock' = Server => lock = Server
      /\ \A v \in Workers : lock' = v => lock = v
  BY DEF Crash, Unlock
<1>3. Idle.pc = "idle" /\ ~Owns(Idle) /\ gap \in BOOLEAN
  BY DEF Idle, Owns, KeyInv, KeyTypeOK
<1>4. Dirty(w) => gap'
  BY <1>1, <1>3 DEF Dirty, Undone, RequestsRecall, Recalls
<1> QED BY <1>1, <1>2, <1>3, <1>4, QuietVaultStep

\* The row is lost by whoever holds it (LoseConnection).
LEMMA VaultLosesConnection ==
  ASSUME KeyInv, VaultInv, NEW w \in Workers, LoseConnection(w)
  PROVE  VaultInv'
<1> USE NullAssumption
<1>1. /\ lock' = NoWorker /\ UNCHANGED <<vault, control, doubt, request, gap>>
  BY DEF LoseConnection, Database
<1>2. PICK r : r = request[w]
  OBVIOUS
<1>3. request' = [request EXCEPT ![w] = r]
  BY <1>1, <1>2 DEF KeyInv, KeyTypeOK
<1>4. r.pc # "idle" => Unbound(r)
  BY <1>2 DEF VaultInv, At
<1>5. Dirty(w) => r.pc # "idle" /\ Undone(r) /\ (Waits(r) => Waits(request[w]))
  BY <1>2 DEF Dirty, At
<1> QED BY <1>1, <1>3, <1>4, <1>5, QuietVaultStep

-----------------------------------------------------------------------------
\* What was stored last is the newest (Store).
LEMMA StoredIsNewest ==
  ASSUME KeyInv, NEW s \in Secrets, Store(s)
  PROVE  vault'[Len(vault')] = s
BY StoreGrows DEF KeyInv, KeyTypeOK

\* A new version is bound by nobody yet (Write).
LEMMA VaultWrites ==
  ASSUME KeyInv, VaultInv, NEW w \in Workers, Write(w)
  PROVE  VaultInv'
<1> USE NullAssumption
<1>1. /\ At(w, "write") /\ ~At(w, "idle") /\ lock' = lock
      /\ UNCHANGED <<control, doubt, gap>>
  BY DEF Write, At, Database
<1>2. /\ request[w] \in Running /\ request[w].mutation \in Mutations
      /\ request[w].mutation.kind = "rotate" /\ request[w].code = None
  BY <1>1, RequestFacts DEF Knows, RotationStages, At, VaultInv, Unbound
<1>3. request[w].mutation.secret \in Secrets
  BY <1>2 DEF Mutations, Rotations, Switches
<1>4. CASE /\ Store(request[w].mutation.secret)
           /\ Set(w, [request[w] EXCEPT !.pc = "readback", !.wrote = TRUE,
                                        !.version = Len(vault) + 1])
  <2>1. PICK n : n = Len(vault) + 1
    OBVIOUS
  <2>2. PICK r : r = [request[w] EXCEPT !.pc = "readback", !.wrote = TRUE, !.version = n]
    OBVIOUS
  <2>3. /\ r.pc = "readback" /\ r.version = n /\ r.mutation = request[w].mutation
        /\ r.code = None
    BY <1>2, <2>2 DEF Running
  <2>4. request' = [request EXCEPT ![w] = r]
    BY <1>4, <2>1, <2>2 DEF Set
  <2>5. request'[w] = r
    BY <2>4, OneMoves
  <2>6. control.version # n /\ (lock = Server => doubt.row.version # n)
    BY <2>1, VersionsExist DEF KeyInv, KeyTypeOK
  <2>7. Unbound(r)
    BY <2>3, <2>6 DEF Unbound
  <2>8. \A v \in Workers : ~At(v, "idle")' => Unbound(request[v])'
    BY <1>1, <2>4, <2>7, UnboundStays DEF VaultInv
  <2>9. Dirty(w)' /\ ~Waits(request[w])'
    BY <2>3, <2>5 DEF Dirty, Undone, Owns, Waits, At
  <2>10. vault'[Len(vault')] = r.mutation.secret
    BY <1>3, <1>4, <2>3, StoredIsNewest
  <2>11. Newest(request[w].mutation.secret)'
    BY <2>5, <2>10 DEF Newest
  <2>12. NewestIsSeenTo'
    BY <2>9, <2>11, WriterSeesToIt
  <2> QED BY <2>8, <2>12 DEF VaultInv
<1>5. CASE Set(w, [request[w] EXCEPT !.pc = "compensate", !.wrote = TRUE,
                                     !.code = "secret_unavailable"])
  <2>1. PICK r : r = [request[w] EXCEPT !.pc = "compensate", !.wrote = TRUE,
                                        !.code = "secret_unavailable"]
    OBVIOUS
  <2>2. r.pc = "compensate" /\ request' = [request EXCEPT ![w] = r]
    BY <1>2, <1>5, <2>1 DEF Running, Set
  <2>3. request'[w] = r
    BY <2>2, OneMoves
  <2>4. Unbound(r)
    BY <2>2 DEF Unbound, Owns
  <2>5. \A v \in Workers : ~At(v, "idle")' => Unbound(request[v])'
    BY <1>1, <2>2, <2>4, UnboundStays DEF VaultInv
  <2>6. Dirty(w)' /\ ~Waits(request[w])' /\ ~Owns(request'[w])
    BY <2>2, <2>3 DEF Dirty, Undone, Owns, Waits, At
  <2>7. NewestIsSeenTo'
    BY <2>6, WriterSeesToIt
  <2> QED BY <2>5, <2>7 DEF VaultInv
<1> QED BY <1>4, <1>5 DEF Write

\* The previous value is put back while the row is as it was read, or this is
\* reported (PutBack).
LEMMA VaultIsRestored ==
  ASSUME KeyInv, RequestsRecall, VaultInv, NEW w \in Workers, ~At(w, "idle"),
         NEW alone \in BOOLEAN, NEW restored, NEW failed,
         PutBack(w, alone, restored, failed),
         alone => request[w].prior = control,
         alone /\ ~gap' => lock' \in Workers \cup {NoWorker} /\ (lock' \in Workers => lock' = w),
         UNCHANGED <<control, doubt>>, lock' = lock,
         NEW r, request' = [request EXCEPT ![w] = r], ~Owns(r),
         r.pc \notin {"write", "readback", "revalidate"}
  PROVE  VaultInv'
<1> USE NullAssumption
<1>1. request[w].previous \in Secrets \cup {NoSecret} /\ Recalls(request[w])
  BY RequestFacts DEF Running, RequestsRecall
<1>2. Unbound(r)
  BY DEF Unbound
<1>3. \A v \in Workers : ~At(v, "idle")' => Unbound(request[v])'
  BY <1>2, UnboundStays DEF VaultInv
<1>4. ASSUME ~gap' PROVE NewestIsSeenTo'
  <2>1. /\ request[w].previous \in Secrets /\ Store(request[w].previous) /\ alone
    BY <1>1, <1>4 DEF PutBack
  <2>2. request[w].previous = control.secret
    BY <1>1, <2>1 DEF Recalls
  <2>3. vault'[Len(vault')] = control.secret
    BY <2>1, <2>2, StoredIsNewest
  <2>4. NewestIsBound'
    BY <2>3 DEF NewestIsBound, Newest
  <2>5. request'[w] = r
    BY OneMoves
  <2>6. HolderIsNewest' /\ DoubtIsNewest'
    BY <1>4, <2>1, <2>5 DEF HolderIsNewest, DoubtIsNewest, Owns
  <2> QED BY <2>4, <2>6 DEF NewestIsSeenTo
<1> QED BY <1>3, <1>4 DEF VaultInv

LEMMA VaultCompensates ==
  ASSUME KeyInv, RequestsRecall, VaultInv, NEW w \in Workers, Compensate(w)
  PROVE  VaultInv'
<1> USE NullAssumption
<1>1. /\ At(w, "compensate") /\ ~At(w, "idle") /\ lock' = lock
      /\ UNCHANGED <<control, doubt>>
  BY DEF Compensate, At, Database
<1>2. request[w].code # None
  BY <1>1, RequestFacts DEF Knows, At
<1> DEFINE restored == Goto(w, "record")
           failed == FailAt(w, "record", IF request[w].previous = NoSecret
                                         THEN "reconciliation_required"
                                         ELSE "secret_unavailable")
<1>3. PutBack(w, lock = w, restored, failed)
  BY DEF Compensate
<1>4. PICK code \in Failures : code # None /\ (Goto(w, "record") \/ FailAt(w, "record", code))
  BY DEF Compensate, PutBack, Failures, None
<1>5. PICK r \in Running :
        request' = [request EXCEPT ![w] = r] /\ r.pc = "record" /\ r.code # None
  <2>1. CASE Goto(w, "record")
    BY <1>1, <1>2, <2>1, GotoSets DEF Stages
  <2>2. CASE FailAt(w, "record", code)
    BY <1>1, <1>4, <2>2, FailSets DEF Stages
  <2> QED BY <1>4, <2>1, <2>2
<1>6. ~Owns(r) /\ r.pc \notin {"write", "readback", "revalidate"}
  BY <1>5 DEF Owns
<1>7. (lock = w) \in BOOLEAN /\ (lock = w => request[w].prior = control)
  BY DEF KeyInv, HolderIsCurrent
<1> HIDE DEF restored, failed
<1> QED BY <1>1, <1>3, <1>5, <1>6, <1>7, VaultIsRestored

LEMMA VaultRestores ==
  ASSUME KeyInv, RequestsRecall, VaultInv, NEW w \in Workers, Restore(w)
  PROVE  VaultInv'
<1> USE NullAssumption
<1>1. /\ ~At(w, "idle") /\ lock' = lock /\ UNCHANGED <<control, doubt>>
  BY DEF Restore, At, Database
<1> DEFINE refuse == Refuse(w, IF request[w].previous = NoSecret
                               THEN "reconciliation_required"
                               ELSE "secret_unavailable")
           alone == lock = NoWorker /\ control = request[w].prior
<1>2. PutBack(w, alone, refuse, refuse)
  BY DEF Restore
<1>3. request' = [request EXCEPT ![w] = Idle] /\ Idle.pc = "idle"
  BY <1>2 DEF PutBack, Refuse, Answer, Set, Idle
<1>4. ~Owns(Idle) /\ Idle.pc \notin {"write", "readback", "revalidate"}
  BY <1>3 DEF Owns
<1>5. /\ alone \in BOOLEAN /\ (alone => request[w].prior = control)
      /\ alone => lock' = NoWorker
  BY <1>1
<1> HIDE DEF refuse, alone
<1> QED BY <1>1, <1>2, <1>3, <1>4, <1>5, VaultIsRestored

-----------------------------------------------------------------------------
\* A transaction binds the version its request owns, or leaves the one that is bound.
LEMMA TransactionBinds ==
  ASSUME KeyInv, NEW w \in Workers, At(w, "commit"), lock = w,
         NEW row, row = request[w].tx.row
  PROVE  \/ /\ Owns(request[w]) /\ row.version = request[w].version
            /\ row.secret = request[w].mutation.secret
         \/ /\ ~Owns(request[w]) /\ row.version = control.version
            /\ row.secret = control.secret
<1>1. PICK r \in Running : r = request[w] /\ Knows(r) /\ r.mutation.kind \in Kinds
                             /\ r.prior \in Control
  BY RequestFacts DEF At
<1>2. r.pc = "commit" /\ r.prior = control
  BY <1>1 DEF At, KeyInv, HolderIsCurrent
<1>3. row = IF r.code = None THEN Changed(r) ELSE r.prior
  BY <1>1, <1>2 DEF Knows, Transaction
<1>4. CASE r.code = None /\ r.mutation.kind = "rotate"
  <2>1. row.version = r.version /\ row.secret = r.mutation.secret
    BY <1>1, <1>3, <1>4 DEF Changed, Control
  <2> QED BY <1>1, <1>2, <1>4, <2>1 DEF Owns
<1>5. CASE ~(r.code = None /\ r.mutation.kind = "rotate")
  <2>1. row.version = r.prior.version /\ row.secret = r.prior.secret
    BY <1>1, <1>3, <1>5 DEF Changed, Control
  <2>2. ~Owns(r)
    BY <1>2, <1>5 DEF Owns
  <2> QED BY <1>1, <1>2, <2>1, <2>2
<1> QED BY <1>4, <1>5

\* After its commit a request owns its version only to reconcile.
LEMMA AfterCommit ==
  ASSUME KeyInv, VaultInv, NEW w \in Workers, At(w, "commit"),
         \/ AfterLostCommit(w)
         \/ \E code, projection : Answer(w, code, projection)
  PROVE  \E r \in Running \cup {Idle} :
           /\ request' = [request EXCEPT ![w] = r]
           /\ r.pc = "idle" \/ (r.pc = "reconcile" /\ r.version = request[w].version)
           /\ AfterLostCommit(w) /\ Owns(request[w]) => r.pc = "reconcile" /\ Owns(r)
<1>1. ~At(w, "idle")
  BY DEF At
<1>2. CASE AfterLostCommit(w) /\ Rotating(w) /\ request[w].code = None
  <2>1. Goto(w, "reconcile") /\ "reconcile" \in Stages
    BY <1>2 DEF AfterLostCommit, Stages
  <2>2. PICK r \in Running :
          /\ request' = [request EXCEPT ![w] = r]
          /\ r.pc = "reconcile" /\ r.code = request[w].code /\ Continues(request[w], r)
    BY <1>1, <2>1, GotoSets
  <2>3. Owns(r) /\ r.version = request[w].version
    BY <1>2, <2>2 DEF Owns, Continues, Rotating
  <2> QED BY <2>2, <2>3
<1>3. CASE ~(AfterLostCommit(w) /\ Rotating(w) /\ request[w].code = None)
  <2>1. request' = [request EXCEPT ![w] = Idle] /\ Idle.pc = "idle"
    BY <1>3 DEF AfterLostCommit, Refuse, Answer, Set, Idle
  <2>2. ~(AfterLostCommit(w) /\ Owns(request[w]))
    BY <1>3 DEF Owns, At, Rotating
  <2> QED BY <2>1, <2>2
<1> QED BY <1>2, <1>3

\* A transaction is applied by its request (Commit, CommitFails).
LEMMA VaultCommits ==
  ASSUME KeyInv, VaultInv, NEW w \in Workers, At(w, "commit"), lock = w,
         Apply(request[w].tx), lock' = NoWorker, UNCHANGED <<vault, gap>>,
         NEW r, request' = [request EXCEPT ![w] = r],
         r.pc \in {"idle", "reconcile"}
  PROVE  VaultInv'
<1> USE NullAssumption
<1>1. PICK row : row = request[w].tx.row /\ control' = row
  BY DEF Apply
<1>2. \/ /\ Owns(request[w]) /\ row.version = request[w].version
         /\ row.secret = request[w].mutation.secret
      \/ /\ ~Owns(request[w]) /\ row.version = control.version
         /\ row.secret = control.secret
  BY <1>1, TransactionBinds
<1>3. /\ request'[w] = r
      /\ \A v \in Workers \ {w} : request'[v] = request[v]
  BY OneMoves
<1>4. ~At(w, "idle")
  BY DEF At
<1>5. \A v \in Workers \ {w} : ~At(v, "idle") /\ Owns(request[v]) /\ Owns(request[w]) =>
        request[v].version # request[w].version
  BY <1>4 DEF KeyInv, VersionsAreOwned
<1>6. \A v \in Workers : ~At(v, "idle")' => Unbound(request[v])'
  <2>1. SUFFICES ASSUME NEW v \in Workers, request'[v].pc # "idle"
                 PROVE  /\ Owns(request'[v]) /\ request'[v].pc # "reconcile" =>
                             row.version # request'[v].version
                        /\ request'[v].pc \in {"write", "readback", "revalidate"} =>
                             request'[v].code = None
    BY <1>1 DEF Unbound, Owns, At
  <2>2. CASE v = w
    BY <1>3, <2>1, <2>2
  <2>3. CASE v # w
    <3>1. request'[v] = request[v] /\ ~At(v, "idle") /\ Unbound(request[v])
      BY <1>3, <2>1, <2>3 DEF VaultInv, At
    <3> QED BY <1>2, <1>5, <2>3, <3>1 DEF Unbound
  <2> QED BY <2>2, <2>3
<1>7. ASSUME ~gap', vault' # <<>> PROVE NewestIsSeenTo'
  <2>1. NewestIsBound /\ HolderIsNewest
    BY <1>7 DEF VaultInv, NewestIsSeenTo
  <2>2. \/ Newest(row.secret)
        \/ \E v \in Workers \ {w} : Dirty(v)
    <3>1. CASE Owns(request[w])
      BY <1>2, <2>1, <3>1 DEF HolderIsNewest
    <3>2. CASE ~Owns(request[w])
      <4>1. ~Dirty(w)
        BY <3>2 DEF Dirty, Undone, At
      <4> QED BY <1>2, <2>1, <3>2, <4>1 DEF NewestIsBound
    <3> QED BY <3>1, <3>2
  <2>3. \A v \in Workers \ {w} : Dirty(v) => Dirty(v)'
    <3>1. SUFFICES ASSUME NEW v \in Workers \ {w}, Dirty(v)
                   PROVE  Owns(request[v]) /\ request[v].pc = "reconcile" =>
                            row.version # request[v].version
      BY <1>1, <1>3 DEF Dirty, Undone, Owns, At
    <3> QED BY <1>2, <1>5, <3>1 DEF Dirty, Undone
  <2>4. NewestIsBound'
    BY <1>1, <2>2, <2>3 DEF NewestIsBound, Newest
  <2> QED BY <2>4 DEF NewestIsSeenTo, HolderIsNewest, DoubtIsNewest
<1> QED BY <1>6, <1>7 DEF VaultInv

\* A transaction is left to the server (CommitFails).
LEMMA VaultDoubts ==
  ASSUME KeyInv, VaultInv, NEW w \in Workers, At(w, "commit"), lock = w,
         doubt' = request[w].tx, lock' = Server, UNCHANGED <<control, vault, gap>>,
         NEW r, request' = [request EXCEPT ![w] = r],
         \/ r.pc = "idle"
         \/ r.pc = "reconcile" /\ r.version = request[w].version,
         Owns(request[w]) => r.pc = "reconcile" /\ Owns(r)
  PROVE  VaultInv'
<1> USE NullAssumption
<1>1. PICK row : row = request[w].tx.row /\ row = doubt'.row
  OBVIOUS
<1>2. \/ /\ Owns(request[w]) /\ row.version = request[w].version
         /\ row.secret = request[w].mutation.secret
      \/ /\ ~Owns(request[w]) /\ row.version = control.version
         /\ row.secret = control.secret
  BY <1>1, TransactionBinds
<1>3. /\ request'[w] = r
      /\ \A v \in Workers \ {w} : request'[v] = request[v]
  BY OneMoves
<1>4. ~At(w, "idle") /\ Unbound(request[w])
  BY DEF At, VaultInv
<1>5. \A v \in Workers \ {w} : ~At(v, "idle") /\ Owns(request[v]) /\ Owns(request[w]) =>
        request[v].version # request[w].version
  BY <1>4 DEF KeyInv, VersionsAreOwned
<1>6. \A v \in Workers : ~At(v, "idle")' => Unbound(request[v])'
  <2>1. SUFFICES ASSUME NEW v \in Workers, request'[v].pc # "idle"
                 PROVE  /\ Owns(request'[v]) /\ request'[v].pc # "reconcile" =>
                             /\ control.version # request'[v].version
                             /\ row.version # request'[v].version
                        /\ request'[v].pc \in {"write", "readback", "revalidate"} =>
                             request'[v].code = None
    BY <1>1 DEF Unbound, Owns, At
  <2>2. CASE v = w
    BY <1>3, <2>1, <2>2
  <2>3. CASE v # w
    <3>1. request'[v] = request[v] /\ ~At(v, "idle") /\ Unbound(request[v])
      BY <1>3, <2>1, <2>3 DEF VaultInv, At
    <3> QED BY <1>2, <1>5, <2>3, <3>1 DEF Unbound
  <2> QED BY <2>2, <2>3
<1>7. ASSUME ~gap', vault' # <<>> PROVE NewestIsSeenTo'
  <2>1. NewestIsBound /\ HolderIsNewest
    BY <1>7 DEF VaultInv, NewestIsSeenTo
  <2>2. \A v \in Workers \ {w} : Dirty(v) => Dirty(v)'
    BY <1>3 DEF Dirty, Undone, Owns, At
  <2>3. Dirty(w) => Dirty(w)'
    <3>1. SUFFICES ASSUME Dirty(w) PROVE Dirty(w)'
      OBVIOUS
    <3>2. Owns(request[w]) /\ request[w].pc # "reconcile"
      BY <3>1 DEF Dirty, Undone, At
    <3>3. control.version # request[w].version
      BY <1>4, <3>2 DEF Unbound
    <3> QED BY <1>3, <3>2, <3>3 DEF Dirty, Undone, Owns, At
  <2>4. NewestIsBound'
    BY <2>1, <2>2, <2>3 DEF NewestIsBound, Newest
  <2>5. \A v \in Workers \ {w} : Dirty(v) => ~Waits(request[v])'
    <3>1. SUFFICES ASSUME NEW v \in Workers \ {w}, Dirty(v), request[v].pc = "reconcile"
                   PROVE  request[v].version # row.version
      BY <1>1, <1>3 DEF Waits
    <3>2. Owns(request[v]) /\ control.version # request[v].version /\ ~At(v, "idle")
      BY <3>1 DEF Dirty, Undone
    <3> QED BY <1>2, <1>5, <3>2
  <2>6. \/ Newest(row.secret)
        \/ \E v \in Workers \ {w} : Dirty(v)
    <3>1. CASE Owns(request[w])
      BY <1>2, <2>1, <3>1 DEF HolderIsNewest
    <3>2. CASE ~Owns(request[w])
      <4>1. ~Dirty(w)
        BY <3>2 DEF Dirty, Undone, At
      <4> QED BY <1>2, <2>1, <3>2, <4>1 DEF NewestIsBound
    <3> QED BY <3>1, <3>2
  <2>7. DoubtIsNewest'
    <3>1. CASE Newest(row.secret)
      BY <1>1, <3>1 DEF DoubtIsNewest, Newest
    <3>2. CASE \E v \in Workers \ {w} : Dirty(v)
      <4>1. \E v \in Workers : Dirty(v)' /\ ~Waits(request[v])'
        BY <2>2, <2>5, <3>2
      <4> QED BY <4>1 DEF DoubtIsNewest
    <3> QED BY <2>6, <3>1, <3>2
  <2> QED BY <2>4, <2>7 DEF NewestIsSeenTo, HolderIsNewest
<1> QED BY <1>6, <1>7 DEF VaultInv

\* The server decides (Decide).
LEMMA VaultDecides ==
  ASSUME KeyInv, VaultInv, Decide
  PROVE  VaultInv'
<1> USE NullAssumption
<1>1. /\ lock = Server /\ lock' = NoWorker
      /\ UNCHANGED <<vault, request, gap>>
      /\ control' = doubt.row \/ control' = control
  BY DEF Decide, Apply, Database
<1>2. \A v \in Workers : ~At(v, "idle")' => Unbound(request[v])'
  BY <1>1 DEF VaultInv, Unbound, Owns, At
<1>3. ASSUME ~gap', vault' # <<>> PROVE NewestIsSeenTo'
  <2>1. NewestIsBound /\ DoubtIsNewest
    BY <1>1, <1>3 DEF VaultInv, NewestIsSeenTo
  <2>2. NewestIsBound'
    <3>1. CASE control' = control
      BY <1>1, <2>1, <3>1 DEF NewestIsBound, Newest, Dirty, Undone, Owns, At
    <3>2. CASE control' = doubt.row
      BY <1>1, <2>1, <3>2
         DEF DoubtIsNewest, NewestIsBound, Newest, Dirty, Undone, Waits, Owns, At
    <3> QED BY <1>1, <3>1, <3>2
  <2> QED BY <1>1, <2>2 DEF NewestIsSeenTo, HolderIsNewest, DoubtIsNewest
<1> QED BY <1>2, <1>3 DEF VaultInv

-----------------------------------------------------------------------------
\* Every step leaves the newest version seen to (Next).
LEMMA NextVault == KeyInv /\ RequestsRecall /\ VaultInv /\ [Next]_vars => VaultInv'
<1> SUFFICES ASSUME KeyInv, RequestsRecall, VaultInv, [Next]_vars PROVE VaultInv'
  OBVIOUS
<1>1. CASE UNCHANGED vars
  BY <1>1 DEF vars, Database, VaultInv, NewestIsSeenTo, NewestIsBound, HolderIsNewest,
     DoubtIsNewest, Newest, Dirty, Undone, Waits, Unbound, Owns, At
<1>2. ASSUME NEW w \in Workers,
             \/ Begin(w) \/ Busy(w) \/ Replay(w) \/ Stale(w) \/ Lock(w)
             \/ ReadPrevious(w) \/ Validate(w) \/ Write(w) \/ ReadBack(w)
             \/ Revalidate(w) \/ Qualify(w) \/ Compensate(w) \/ Restore(w)
             \/ Record(w) \/ RecordFails(w) \/ Commit(w) \/ CommitFails(w)
             \/ Reconcile(w) \/ LoseConnection(w) \/ Crash(w)
      PROVE  VaultInv'
  <2>1. CASE Begin(w) \/ Busy(w) \/ Replay(w) \/ Stale(w) \/ Lock(w)
    BY <2>1, VaultBegins, VaultLocks
  <2>2. CASE ReadPrevious(w) \/ Validate(w) \/ Qualify(w) \/ Write(w)
    BY <2>2, VaultValidates, VaultWrites
  <2>3. CASE ReadBack(w) \/ Revalidate(w) \/ Compensate(w) \/ Restore(w)
    BY <2>3, VaultRevalidates, VaultCompensates, VaultRestores
  <2>4. CASE Record(w) \/ Reconcile(w) \/ LoseConnection(w) \/ Crash(w)
    BY <2>4, VaultRecords, VaultReconciles, VaultLosesConnection, VaultCrashes
  <2>5. CASE RecordFails(w)
    BY <2>5, VaultRollsBack DEF RecordFails, Database
  <2>6. CASE Commit(w) \/ CommitFails(w)
    <3>1. At(w, "commit") /\ UNCHANGED <<vault, gap>>
      BY <2>6 DEF Commit, CommitFails
    <3>2. PICK r \in Running \cup {Idle} :
            /\ request' = [request EXCEPT ![w] = r]
            /\ r.pc = "idle" \/ (r.pc = "reconcile" /\ r.version = request[w].version)
            /\ AfterLostCommit(w) /\ Owns(request[w]) => r.pc = "reconcile" /\ Owns(r)
      BY <2>6, <3>1, AfterCommit DEF Commit, CommitFails
    <3>3. CASE lock = w /\ Apply(request[w].tx) /\ lock' = NoWorker
      BY <3>1, <3>2, <3>3, VaultCommits
    <3>4. CASE CommitFails(w) /\ Unlock(w) /\ UNCHANGED <<Database, doubt>>
      BY <3>1, <3>4, VaultRollsBack DEF CommitFails, Database
    <3>5. CASE /\ CommitFails(w) /\ lock = w /\ doubt' = request[w].tx /\ lock' = Server
               /\ UNCHANGED Database
      BY <3>1, <3>2, <3>5, VaultDoubts DEF CommitFails, Database
    <3> QED BY <2>6, <3>3, <3>4, <3>5 DEF Commit, CommitFails
  <2> QED BY <1>2, <2>1, <2>2, <2>3, <2>4, <2>5, <2>6
<1>3. CASE Next
  BY <1>2, <1>3, VaultDecides DEF Next
<1> QED BY <1>1, <1>3

\* The store is empty (Init).
LEMMA InitVault == Init => VaultInv
BY DEF Init, VaultInv, At, Idle

LEMMA VaultInvariant == Spec => []VaultInv
<1>1. AuditInv => RequestsRecall
  BY DEF AuditInv
<1> QED BY <1>1, InitVault, NextVault, KeyInvariant, AuditInvariant, PTL DEF Spec

\* What serves, and what the newest version of the secret holds when everything is at
\* rest, is a key that the provider accepted, whatever fails between the database and
\* the secret store (set_channels, rotate, _compensate, _reconcile_binding).
THEOREM ServedKeyChecked == Spec => []ServedKeyIsChecked
<1>1. VaultInv => LatestIsBound
  BY DEF VaultInv, NewestIsSeenTo, NewestIsBound, Newest, Dirty, LatestIsBound
<1>2. AuditInv /\ VaultInv => ServedKeyIsChecked
  BY <1>1, ChannelsAreChecked DEF ServedKeyIsChecked
<1> QED BY <1>2, AuditInvariant, VaultInvariant, PTL
=============================================================================
