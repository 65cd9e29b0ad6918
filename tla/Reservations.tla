---------------------------- MODULE Reservations ----------------------------
(***************************************************************************)
(* x-reservation in mode count: requests that claim stock from pool rows,  *)
(* as the generated service, submit action and split route do it.          *)
(*                                                                         *)
(* A request is a database transaction t of several statements.  Its own   *)
(* writes stay in tx[t] until Commit; a row it has written is locked.      *)
(* Creates, edits, deletes and splits run READ COMMITTED: each statement   *)
(* sees what is committed when it runs.  The submit action runs            *)
(* Serializable: it sees the state of its first statement, and cannot      *)
(* write a row that changed since (dirty).                                 *)
(***************************************************************************)
EXTENDS Integers, Sequences, FiniteSets, FiniteSetsExt

CONSTANTS
  Records,      \* ids of the requesting rows: supply requests, order lines
  Pools,        \* pool rows, numbered in the order of policy.orderBy
  Tx,           \* requests the server works on at a time
  NoRecord,
  AnyLot,       \* a split part that names no lot
  Stock,        \* the quantity each pool row starts with
  Quantities,   \* quantities a request may ask for
  Adjustments,  \* receipts, and corrections up and down: <<pool row, change>>
  MinStock, MaxStock,  \* bounds on what they make of a pool row's quantity
  Configs       \* the declarations, and null columns of pool rows, it is run for

ASSUME ModelAssumption ==
  /\ Pools \subseteq Nat /\ AnyLot \notin Pools
  /\ NoRecord \notin Records /\ Records \cap Pools = {}
  /\ IsFiniteSet(Records) /\ IsFiniteSet(Pools)

ASSUME StockAssumption ==
  /\ Stock \in [Pools -> Nat] /\ MinStock \in Int /\ MaxStock \in Int
  /\ Quantities \subseteq Nat \ {0} /\ Adjustments \subseteq Pools \X Int

\* The strategy of the entity's x-reservation; whether x-approval.submit_on
\* delays the claim; which pool rows the tuple of a ledger row on each pool row
\* selects.  Allocation rows (conditional_update) name their pool row by its id.
ASSUME ConfigAssumption ==
  \A c \in Configs :
    /\ c \in [strategy : {"conditional_update", "ledger_transaction"}, atSubmit : BOOLEAN,
              matches : [Pools -> SUBSET Pools]]
    /\ \A p \in Pools : p \in c.matches[p]
    /\ c.strategy = "conditional_update" => \A p \in Pools : c.matches[p] = {p}

VARIABLES
  config,   \* what is declared, and which columns of the pool rows are null
  pool,     \* committed pool rows
  peak,     \* a history variable: the largest quantity each pool row has had
  rec,      \* committed requesting rows
  reserve,  \* reserve[r][p]: the reserve ledger row or allocation row of r on p
  cancel,   \* cancel[r][p]: what cancel ledger rows took back
  tx        \* the requests in progress

vars == <<config, pool, peak, rec, reserve, cancel, tx>>

Counted == config.strategy = "conditional_update"

\* No pool row has a null lot, expiration or bin: each tuple selects one row.
Exact == \A p \in Pools : config.matches[p] = {p}

\* ---------------------------------------------------------------- types

States == {"absent", "draft", "held", "split", "deleted"}
Row == [quantity : Int, reserved : Int]
Part == [rec : Records, qty : Nat, lot : Pools \cup {AnyLot}]
Nothing == [p \in Pools |-> 0]

NoRow == [state |-> "absent", quantity |-> 0, parent |-> NoRecord]

\* A request that begins: what it is for, and the parts it claims stock for.
Begun(op, at, r, q, seen, parts) ==
  [op |-> op, at |-> at, rec |-> r, qty |-> q, parts |-> parts, next |-> 1,
   todo |-> {}, left |-> 0, seen |-> seen, claims |-> [x \in Records |-> Nothing],
   delta |-> Nothing, freed |-> Nothing, wrote |-> {}, dirty |-> {}]

Unseen == [p \in Pools |-> [quantity |-> 0, reserved |-> 0]]
Idle == Begun("none", "begin", NoRecord, 0, Unseen, <<>>)

Jobs ==
  [op : {"none", "create", "submit", "update", "delete", "split"},
   at : {"begin", "lock", "release", "scan", "claim", "commit"},
   rec : Records \cup {NoRecord}, qty : Nat,
   parts : Seq(Part), next : Nat, todo : SUBSET Pools, left : Nat,
   seen : [Pools -> Row], claims : [Records -> [Pools -> Nat]],
   delta : [Pools -> Int], freed : [Pools -> Nat],
   wrote : SUBSET (Pools \cup Records), dirty : SUBSET (Pools \cup Records)]

TypeOK ==
  /\ config \in Configs
  /\ pool \in [Pools -> Row]
  /\ peak \in [Pools -> Int]
  /\ rec \in [Records -> [state : States, quantity : Nat,
                          parent : Records \cup {NoRecord}]]
  /\ reserve \in [Records -> [Pools -> Nat]]
  /\ cancel \in [Records -> [Pools -> Nat]]
  /\ tx \in [Tx -> Jobs]

Init ==
  /\ config \in Configs
  /\ pool = [p \in Pools |-> [quantity |-> Stock[p], reserved |-> 0]]
  /\ peak = Stock
  /\ rec = [r \in Records |-> NoRow]
  /\ reserve = [r \in Records |-> Nothing]
  /\ cancel = [r \in Records |-> Nothing]
  /\ tx = [t \in Tx |-> Idle]

\* -------------------------------------------------------------- helpers

\* What t reads of pool row p: committed, with its own writes.  The ledger
\* strategy leaves quantity alone; conditional_update moves it to reserved.
View(t, p) ==
  [quantity |-> pool[p].quantity - (IF Counted THEN tx[t].delta[p] ELSE 0),
   reserved |-> pool[p].reserved + tx[t].delta[p]]

\* No other transaction holds the row lock of x.
Free(t, x) == \A u \in Tx \ {t} : x \notin tx[u].wrote

\* The rows t claims stock for, and the quantity each asks for.
Requested(t) == {tx[t].parts[i].rec : i \in DOMAIN tx[t].parts}
Asked(t, r) == LET i == CHOOSE j \in DOMAIN tx[t].parts : tx[t].parts[j].rec = r
               IN  tx[t].parts[i].qty

\* A new id no row and no request in progress has.
Fresh(r) ==
  /\ rec[r].state = "absent"
  /\ \A t \in Tx : tx[t].rec # r /\ r \notin Requested(t)

\* Allocation rows exist, or the bridge FK is set: it is never cleared.
Allocated(r) == rec[r].state \in {"held", "split"}

\* The mutation guards: an allocated row keeps its quantity and stays.
UpdateUnguarded(r, q) == TRUE
UpdateAllowed(r, q) == Allocated(r) => q = rec[r].quantity
DeleteAllowed(r) == ~Allocated(r)

ReserveRows(r) == {p \in Pools : reserve[r][p] > 0}

\* How much of row p a part takes, given what the candidate query returned.
WantedUncapped(seen, left) ==
  IF Counted THEN seen.quantity ELSE seen.quantity - seen.reserved
Wanted(seen, left) ==
  LET available == IF Counted THEN seen.quantity ELSE seen.quantity - seen.reserved
  IN  IF available < left THEN available ELSE left

\* The where clause of the conditional updateMany, on the row as it is now:
\* quantity >= claim, or reserved_quantity <= (quantity as read) - claim.
ClaimableAsRead(now, seen, n) == TRUE
Claimable(now, seen, n) ==
  IF Counted THEN now.quantity >= n ELSE now.reserved <= seen.quantity - n

\* ------------------------------------------------- requests that begin

\* The request of t is now job; the database stays as it is.
Goes(t, job) ==
  /\ tx' = [tx EXCEPT ![t] = job]
  /\ UNCHANGED <<config, pool, peak, rec, reserve, cancel>>

Whole(r, q) == <<[rec |-> r, qty |-> q, lot |-> AnyLot]>>

\* add<Parent>.
Create(t, r, q) ==
  /\ tx[t] = Idle /\ Fresh(r)
  /\ IF config.atSubmit THEN Goes(t, Begun("create", "commit", r, q, Unseen, <<>>))
     ELSE Goes(t, Begun("create", "scan", r, q, Unseen, Whole(r, q)))

\* submitForApproval<Parent>: reads the row and its rounds, takes the snapshot.
Submit(t, r) ==
  /\ tx[t] = Idle /\ config.atSubmit /\ rec[r].state = "draft"
  /\ Goes(t, Begun("submit", "lock", r, rec[r].quantity, pool, Whole(r, rec[r].quantity)))

\* update<Parent>: the guard reads the row; submits when the edit says so.
\* An edit that does neither that nor a new quantity changes nothing here.
Update(t, r, q, submits) ==
  /\ tx[t] = Idle /\ rec[r].state \notin {"absent", "deleted"}
  /\ UpdateAllowed(r, q)
  /\ IF submits THEN config.atSubmit ELSE q # rec[r].quantity
  /\ Goes(t, Begun("update", "lock", r, q, Unseen, IF submits THEN Whole(r, q) ELSE <<>>))

\* delete<Parent>: the guard counts allocations before the transaction.
Delete(t, r) ==
  /\ tx[t] = Idle /\ rec[r].state \notin {"absent", "deleted"}
  /\ DeleteAllowed(r)
  /\ Goes(t, Begun("delete", "lock", r, 0, Unseen, <<>>))

\* The split route: its checks read the row before the transaction.
Split(t, r, c, d, q, lotC, lotD) ==
  /\ tx[t] = Idle /\ ~Counted /\ rec[r].state = "held"
  /\ c # d /\ Fresh(c) /\ Fresh(d)
  /\ Goes(t, Begun("split", "lock", r, rec[r].quantity, Unseen,
             <<[rec |-> c, qty |-> q, lot |-> lotC],
               [rec |-> d, qty |-> rec[r].quantity - q, lot |-> lotD]>>))

\* -------------------------------------------- statements of a request

Unchanged(t, x) == tx[t].op = "submit" => x \notin tx[t].dirty

\* The request's own row r is written.
Holding(job, r, place, parts, todo) ==
  [job EXCEPT !.at = place, !.parts = parts, !.todo = todo, !.wrote = @ \cup {r}]

\* The first write of the request's own row: its lock is held until the end.
\* The edit looks for an open round after it, and submits only a draft.
Lock(t) ==
  LET r == tx[t].rec
      parts == tx[t].parts
      submits == parts # <<>> /\ rec[r].state = "draft"
  IN  /\ tx[t].at = "lock" /\ Free(t, r) /\ Unchanged(t, r)
      /\ rec[r].state # "deleted"
      /\ \/ /\ tx[t].op = "delete" \/ (tx[t].op = "update" /\ ~submits)
            /\ Goes(t, Holding(tx[t], r, "commit", <<>>, {}))
         \/ /\ tx[t].op = "submit" \/ (tx[t].op = "update" /\ submits)
            /\ Goes(t, Holding(tx[t], r, "scan", parts, {}))
         \/ tx[t].op = "split" /\ Goes(t, Holding(tx[t], r, "release", parts, ReserveRows(r)))

\* The decrement for the parent's reserve row on p.
GivenBackByOne(r, p) == 1
GivenBack(r, p) == reserve[r][p]

Scanning(job) == [job EXCEPT !.at = "scan"]
Returned(job, p, n, row) ==
  LET rows == config.matches[p]
  IN  [job EXCEPT
         !.todo = @ \ {p},
         !.delta = [q \in Pools |-> IF q \in rows THEN job.delta[q] - n ELSE job.delta[q]],
         !.freed = [job.freed EXCEPT ![p] = row], !.wrote = @ \cup rows]

\* The split gives back each of the parent's reserve rows: an updateMany on
\* the pool rows with the ledger row's item, location, lot, expiration and
\* bin, of which those that are null on the ledger row are no condition.
Release(t) ==
  LET r == tx[t].rec
  IN  /\ tx[t].at = "release"
      /\ \/ tx[t].todo = {} /\ Goes(t, Scanning(tx[t]))
         \/ \E p \in tx[t].todo :
              /\ \A q \in config.matches[p] : Free(t, q)
              /\ Goes(t, Returned(tx[t], p, GivenBack(r, p), reserve[r][p]))

Found(job, seen, part) ==
  [job EXCEPT !.at = "claim", !.seen = seen, !.left = part.qty,
              !.todo = IF part.lot = AnyLot THEN {p \in Pools : seen[p].quantity > 0}
                       ELSE {part.lot}]

\* The candidate query of the next part.
Scan(t) ==
  /\ tx[t].at = "scan"
  /\ Goes(t, Found(tx[t],
                   IF tx[t].op = "submit" THEN tx[t].seen ELSE [p \in Pools |-> View(t, p)],
                   tx[t].parts[tx[t].next]))

Took(job, r, p, n) ==
  [job EXCEPT !.todo = @ \ {p}, !.left = @ - n,
              !.claims = [job.claims EXCEPT ![r] = [job.claims[r] EXCEPT ![p] = n]],
              !.delta = [job.delta EXCEPT ![p] = job.delta[p] + n], !.wrote = @ \cup {p}]
Passed(job, p) == [job EXCEPT !.todo = @ \ {p}]

\* One candidate, in order: nothing left to take, taken by the conditional
\* update, or lost to a concurrent claim.  A named lot is taken whole.
Claim(t) ==
  LET part == tx[t].parts[tx[t].next]
  IN  /\ tx[t].at = "claim" /\ tx[t].left > 0
      /\ \E p \in tx[t].todo :
           LET seen == tx[t].seen[p]
               n == IF part.lot = AnyLot THEN Wanted(seen, tx[t].left) ELSE part.qty
               takes == n > 0 /\ Claimable(View(t, p), seen, n)
           IN  /\ \A other \in tx[t].todo : p <= other
               /\ n > 0 => Unchanged(t, p)
               /\ \/ takes /\ Free(t, p) /\ Goes(t, Took(tx[t], part.rec, p, n))
                  \/ ~takes /\ Goes(t, Passed(tx[t], p))

\* A part is covered only when nothing of it remains; otherwise the request
\* throws InsufficientPoolCapacityError, which is Abort.
Covered(t) == tx[t].left = 0

CoveredPart(job) ==
  [job EXCEPT !.next = @ + 1, !.todo = {}, !.seen = Unseen,
              !.at = IF job.next = Len(job.parts) THEN "commit" ELSE "scan"]

NextPart(t) ==
  /\ tx[t].at = "claim" /\ Covered(t)
  /\ Goes(t, CoveredPart(tx[t]))

\* ------------------------------------------------------ how they end

\* The requesting rows after t: claiming links the bridge or allocation rows.
RowAfter(t, r) ==
  LET own == r = tx[t].rec
      child == r \in Requested(t) /\ ~own
  IN  [state |-> IF r \in Requested(t) THEN "held"
                 ELSE IF ~own THEN rec[r].state
                 ELSE IF tx[t].op = "create" THEN "draft"
                 ELSE IF tx[t].op = "delete" THEN "deleted"
                 ELSE IF tx[t].op = "split" THEN "split" ELSE rec[r].state,
       quantity |-> IF child THEN Asked(t, r)
                    ELSE IF own /\ tx[t].op \in {"create", "update"} THEN tx[t].qty
                    ELSE rec[r].quantity,
       parent |-> IF child THEN tx[t].rec ELSE rec[r].parent]

\* A snapshot in use learns what another commit wrote after it was taken.
Overtaken(job, rows) ==
  IF job.op = "submit" THEN [job EXCEPT !.dirty = @ \cup rows] ELSE job

Commit(t) ==
  /\ tx[t].at = "commit"
  /\ rec' = [r \in Records |-> RowAfter(t, r)]
  /\ pool' = [p \in Pools |-> View(t, p)]
  /\ reserve' = [r \in Records |-> [p \in Pools |-> reserve[r][p] + tx[t].claims[r][p]]]
  /\ cancel' = [r \in Records |-> [p \in Pools |->
       cancel[r][p] + (IF r = tx[t].rec THEN tx[t].freed[p] ELSE 0)]]
  /\ tx' = [u \in Tx |-> IF u = t THEN Idle ELSE Overtaken(tx[u], tx[t].wrote)]
  /\ UNCHANGED <<config, peak>>

\* A shortage, a conflict, a deadlock victim, a lost connection: all undone.
Abort(t) ==
  /\ tx[t] # Idle
  /\ tx' = [tx EXCEPT ![t] = Idle]
  /\ UNCHANGED <<config, pool, peak, rec, reserve, cancel>>

\* afterApprove of a receipt or an adjustment: one more ledger row, and the
\* pool row's quantity with it.  The delta of an adjustment may be negative;
\* nothing compares it with what is there, or what is reserved.
Adjust(p, n) ==
  /\ ~Counted /\ pool[p].quantity + n \in MinStock .. MaxStock
  /\ \A t \in Tx : p \notin tx[t].wrote
  /\ pool' = [pool EXCEPT ![p].quantity = @ + n]
  /\ peak' = [peak EXCEPT ![p] = IF pool[p].quantity + n > @ THEN pool[p].quantity + n ELSE @]
  /\ tx' = [t \in Tx |-> Overtaken(tx[t], {p})]
  /\ UNCHANGED <<config, rec, reserve, cancel>>

\* ----------------------------------------------------------- properties

\* What the ledger or allocation rows on p promise: a reserve row stands
\* until a cancel row takes it back, however often that happens.
Standing(r, p) == IF cancel[r][p] = 0 THEN reserve[r][p] ELSE 0
Promised(p) == MapThenSumSet(LAMBDA r : Standing(r, p), Records)

\* No reserve row is taken back twice: two splits of one row overlap in the
\* code, whose status check is before the transaction.
SplitOnce == \A r \in Records, p \in Pools : cancel[r][p] <= reserve[r][p]

\* Concurrent claims never promise more of a pool row than there has been:
\* the candidate query's stale figures are corrected by the conditional
\* update (generators.py:1797-1801, 2416-2422).  A counted row never falls
\* below zero.  What a ledger row has promised can come to exceed what is
\* there, but only because a correction took stock away (peak); it is counted
\* here from the ledger rows, not from the cached reserved_quantity.
NeverOverbooked ==
  \A p \in Pools : IF Counted THEN pool[p].quantity >= 0
                  ELSE Exact /\ SplitOnce => Promised(p) <= peak[p]

\* A pool row's reserved quantity is what its ledger or allocation rows say:
\* each change commits with its row, through failed claims, splits and
\* aborts (ledger_write_stub.ts.jinja2: "materialized SUM").  Where a pool
\* row's null lot, expiration or bin lets the release of a split reach other
\* rows too, the figure can only fall behind the ledger.
CacheIsSum ==
  \A p \in Pools :
    LET sum == MapThenSumSet(LAMBDA r : reserve[r][p] - cancel[r][p], Records)
    IN  pool[p].reserved <= sum /\ (Exact => pool[p].reserved = sum)

\* When stock is claimed with the create, a live row holds exactly the
\* quantity it shows, and no deleted row holds any: the guards run when the
\* allocation is already visible (generators.py:1553-1639, 1926-2001).
HeldInFull ==
  ~config.atSubmit => \A r \in Records :
    MapThenSumSet(LAMBDA p : reserve[r][p], Pools)
      = IF Allocated(r) THEN rec[r].quantity ELSE 0

\* -------------------------------------------------------------- the model

Next ==
  \/ \E t \in Tx :
       \/ \E r \in Records :
            \/ \E q \in Quantities : Create(t, r, q)
            \/ Submit(t, r)
            \/ \E q \in Quantities, submits \in BOOLEAN : Update(t, r, q, submits)
            \/ Delete(t, r)
            \/ \E c, d \in Records, q \in 1 .. rec[r].quantity - 1,
                  l, m \in Pools \cup {AnyLot} : Split(t, r, c, d, q, l, m)
       \/ Lock(t) \/ Release(t) \/ Scan(t) \/ Claim(t) \/ NextPart(t)
       \/ Commit(t) \/ Abort(t)
  \/ \E a \in Adjustments : Adjust(a[1], a[2])

Spec == Init /\ [][Next]_vars
=============================================================================
