-------------------------- MODULE ReservationsProofs --------------------------
(***************************************************************************)
(* Proofs about Reservations, for any number of records, pool rows and      *)
(* overlapping requests, both strategies and both times of claiming.        *)
(*                                                                         *)
(* NeverOverbooked speaks of committed rows, but what commits was decided   *)
(* statements earlier, on a row that other requests may have claimed in the *)
(* meantime.  The inductive invariant therefore says of every request at    *)
(* work that the rows, as it would leave them now, are not overbooked: it   *)
(* locked each row it changed, and what it saw of a ledger's stock is no     *)
(* more than there has ever been (peak); what is there now may be less.      *)
(*                                                                          *)
(* CacheIsSum and HeldInFull speak of sums over all records, or all pool    *)
(* rows.  A request builds its part of them up claim by claim, so what is   *)
(* invariant is the account each request at work keeps (Recorded): its      *)
(* deltas are what it claims less what it gives back, and each part is      *)
(* claimed in full, not at all, or but for what is left.  HeldInFull also   *)
(* needs that no two requests bring the same new row (HoldInv).  Sums are   *)
(* unfolded by induction over the subsets of a finite set.                  *)
(***************************************************************************)
EXTENDS Reservations, FiniteSetTheorems, WellFoundedInduction, TLAPS

-----------------------------------------------------------------------------
Database ==
  /\ config \in Configs
  /\ pool \in [Pools -> Row] /\ peak \in [Pools -> Int]
  /\ rec \in [Records -> [state : States, quantity : Nat,
                          parent : Records \cup {NoRecord}]]
  /\ reserve \in [Records -> [Pools -> Nat]]
  /\ cancel \in [Records -> [Pools -> Nat]]

(* A counted row with something left; a ledger's row that is reserved no     *)
(* further than top.                                                        *)
Sound(row, top) == IF Counted THEN row.quantity >= 0 ELSE row.reserved <= top

(* A pool row with the changes of a request. *)
Shows(row, d) ==
  [quantity |-> row.quantity - (IF Counted THEN d ELSE 0), reserved |-> row.reserved + d]

(* A request that claims is at a part, and takes a named lot from its whole. *)
Placed(job) ==
  /\ job.at \in {"lock", "release"} => job.rec \in Records
  /\ job.at \in {"release", "scan", "claim"} => job.next \in 1 .. Len(job.parts)
  /\ job.at = "lock" => job.next = 1 /\ (job.op \in {"submit", "split"} => job.parts # <<>>)
  /\ job.at = "claim" /\ job.todo # {} =>
       \/ job.parts[job.next].lot = AnyLot
       \/ /\ job.todo = {job.parts[job.next].lot}
          /\ job.left = job.parts[job.next].qty

(* What holds of the request at work in t at every statement. *)
Fits(t, job) ==
  /\ job \in Jobs /\ Placed(job)
  /\ job.op = "split" \/ job.at = "release" => ~Counted
  /\ \A p \in Pools : job.delta[p] # 0 => p \in job.wrote
  /\ \A x \in job.wrote : Free(t, x)
  /\ \A p \in Pools :
       /\ ~Counted => job.seen[p].quantity <= peak[p]
       /\ Sound(Shows(pool[p], job.delta[p]), peak[p])

PoolsSound ==
  \A p \in Pools :
    Sound(pool[p], peak[p]) /\ (~Counted => pool[p].quantity <= peak[p]) /\ 0 <= peak[p]

StockInv ==
  /\ Database /\ PoolsSound
  /\ tx \in [Tx -> Jobs] /\ \A t \in Tx : Fits(t, tx[t])

-----------------------------------------------------------------------------
(* Records of requests. *)

LEMMA WholeIsOnePart ==
  ASSUME NEW r \in Records, NEW q \in Nat
  PROVE  Whole(r, q) \in Seq(Part) /\ Len(Whole(r, q)) = 1
<1>1. [rec |-> r, qty |-> q, lot |-> AnyLot] \in Part
  BY DEF Part
<1>2. QED
  BY <1>1 DEF Whole

LEMMA UnseenIsSeen == Unseen \in [Pools -> Row] /\ \A p \in Pools : Unseen[p].quantity = 0
BY DEF Unseen, Row

LEMMA HoldingIsJob ==
  ASSUME NEW job \in Jobs, NEW r \in Records,
         NEW place \in {"release", "scan", "commit"},
         NEW parts \in Seq(Part), NEW todo \in SUBSET Pools
  PROVE  LET new == Holding(job, r, place, parts, todo)
         IN  /\ new \in Jobs
             /\ new.op = job.op /\ new.rec = job.rec /\ new.at = place /\ new.parts = parts /\ new.next = job.next
             /\ new.delta = job.delta /\ new.seen = job.seen
             /\ new.wrote = job.wrote \cup {r}
BY DEF Holding, Jobs

LEMMA ScanningIsJob ==
  ASSUME NEW job \in Jobs
  PROVE  LET new == Scanning(job)
         IN  /\ new \in Jobs
             /\ new.op = job.op /\ new.rec = job.rec /\ new.at = "scan" /\ new.parts = job.parts
             /\ new.next = job.next /\ new.delta = job.delta /\ new.seen = job.seen
             /\ new.wrote = job.wrote
BY DEF Scanning, Jobs

LEMMA TuplesSelect ==
  ASSUME Database
  PROVE  /\ config.matches \in [Pools -> SUBSET Pools]
         /\ \A p \in Pools : p \in config.matches[p]
BY ConfigAssumption DEF Database

LEMMA ReturnedIsJob ==
  ASSUME Database, NEW job \in Jobs, NEW p \in Pools, NEW n \in Nat, NEW row \in Nat
  PROVE  LET new == Returned(job, p, n, row)
         IN  /\ new \in Jobs
             /\ new.op = job.op /\ new.rec = job.rec /\ new.at = job.at /\ new.parts = job.parts
             /\ new.next = job.next /\ new.seen = job.seen
             /\ new.wrote = job.wrote \cup config.matches[p]
             /\ \A x \in Pools : new.delta[x] = IF x \in config.matches[p] THEN job.delta[x] - n
                                                 ELSE job.delta[x]
<1> DEFINE rows == config.matches[p]
<1>1. rows \in SUBSET Pools
  BY TuplesSelect
<1>2. [q \in Pools |-> IF q \in rows THEN job.delta[q] - n ELSE job.delta[q]] \in [Pools -> Int]
  BY DEF Jobs
<1>3. [job.freed EXCEPT ![p] = row] \in [Pools -> Nat]
  BY DEF Jobs
<1> HIDE DEF rows
<1>4. Returned(job, p, n, row) =
        [job EXCEPT !.todo = job.todo \ {p},
           !.delta = [q \in Pools |-> IF q \in rows THEN job.delta[q] - n ELSE job.delta[q]],
           !.freed = [job.freed EXCEPT ![p] = row], !.wrote = job.wrote \cup rows]
  BY DEF Returned, rows
<1> DEFINE fewer == [q \in Pools |-> IF q \in rows THEN job.delta[q] - n ELSE job.delta[q]]
           freed == [job.freed EXCEPT ![p] = row]
           new == [job EXCEPT !.todo = job.todo \ {p}, !.delta = fewer, !.freed = freed,
                              !.wrote = job.wrote \cup rows]
<1>5. fewer \in [Pools -> Int] /\ freed \in [Pools -> Nat]
      /\ \A x \in Pools : fewer[x] = IF x \in rows THEN job.delta[x] - n ELSE job.delta[x]
  BY <1>2, <1>3
<1> HIDE DEF fewer, freed
<1>6. /\ new \in Jobs /\ new.op = job.op /\ new.rec = job.rec /\ new.at = job.at
      /\ new.parts = job.parts /\ new.next = job.next /\ new.seen = job.seen
      /\ new.wrote = job.wrote \cup rows /\ new.delta = fewer
  BY <1>1, <1>5 DEF Jobs
<1>7. QED
  BY <1>4, <1>5, <1>6 DEF rows, fewer, freed

LEMMA FoundIsJob ==
  ASSUME NEW job \in Jobs, NEW seen \in [Pools -> Row], NEW part \in Part
  PROVE  LET new == Found(job, seen, part)
         IN  /\ new \in Jobs
             /\ new.op = job.op /\ new.rec = job.rec /\ new.at = "claim" /\ new.parts = job.parts
             /\ new.next = job.next /\ new.left = part.qty /\ new.seen = seen
             /\ part.lot # AnyLot => new.todo = {part.lot}
             /\ new.delta = job.delta /\ new.wrote = job.wrote
<1>1. (IF part.lot = AnyLot THEN {p \in Pools : seen[p].quantity > 0} ELSE {part.lot}) \in SUBSET Pools
  BY DEF Part
<1>2. part.qty \in Nat
  BY DEF Part
<1>3. QED
  BY <1>1, <1>2 DEF Found, Jobs

LEMMA TookIsJob ==
  ASSUME NEW job \in Jobs, NEW r \in Records, NEW p \in Pools, NEW n \in Nat, n <= job.left
  PROVE  LET new == Took(job, r, p, n)
         IN  /\ new \in Jobs
             /\ new.op = job.op /\ new.rec = job.rec /\ new.at = job.at /\ new.parts = job.parts
             /\ new.next = job.next /\ new.todo = job.todo \ {p} /\ new.left = job.left - n
             /\ new.seen = job.seen /\ new.wrote = job.wrote \cup {p}
             /\ \A x \in Pools : new.delta[x] = IF x = p THEN job.delta[p] + n ELSE job.delta[x]
<1>1. [job.delta EXCEPT ![p] = job.delta[p] + n] \in [Pools -> Int]
  BY DEF Jobs
<1>2. [job.claims[r] EXCEPT ![p] = n] \in [Pools -> Nat]
  BY DEF Jobs
<1>3. [job.claims EXCEPT ![r] = [job.claims[r] EXCEPT ![p] = n]] \in [Records -> [Pools -> Nat]]
  BY <1>2 DEF Jobs
<1>4. job.left - n \in Nat
  BY DEF Jobs
<1>5. QED
  BY <1>1, <1>3, <1>4 DEF Took, Jobs

LEMMA PassedIsJob ==
  ASSUME NEW job \in Jobs, NEW p \in Pools
  PROVE  LET new == Passed(job, p)
         IN  /\ new \in Jobs
             /\ new.op = job.op /\ new.rec = job.rec /\ new.at = job.at /\ new.parts = job.parts
             /\ new.next = job.next /\ new.todo = job.todo \ {p} /\ new.left = job.left
             /\ new.seen = job.seen /\ new.wrote = job.wrote /\ new.delta = job.delta
BY DEF Passed, Jobs

LEMMA CoveredIsJob ==
  ASSUME NEW job \in Jobs
  PROVE  LET new == CoveredPart(job)
         IN  /\ new \in Jobs
             /\ new.op = job.op /\ new.rec = job.rec
             /\ new.at = (IF job.next = Len(job.parts) THEN "commit" ELSE "scan")
             /\ new.parts = job.parts /\ new.next = job.next + 1
             /\ new.seen = Unseen /\ new.wrote = job.wrote /\ new.delta = job.delta
<1>1. job.next + 1 \in Nat
  BY DEF Jobs
<1>2. PICK place \in {"scan", "commit"} :
        place = IF job.next = Len(job.parts) THEN "commit" ELSE "scan"
  OBVIOUS
<1>3. CoveredPart(job) =
        [job EXCEPT !.next = job.next + 1, !.todo = {}, !.seen = Unseen, !.at = place]
  BY <1>2 DEF CoveredPart
<1>4. QED
  BY <1>1, <1>2, <1>3, UnseenIsSeen DEF Jobs

LEMMA OvertakenIsJob ==
  ASSUME NEW job \in Jobs, NEW rows \in SUBSET (Pools \cup Records)
  PROVE  LET new == Overtaken(job, rows)
         IN  /\ new \in Jobs
             /\ new.op = job.op /\ new.rec = job.rec /\ new.at = job.at /\ new.parts = job.parts
             /\ new.next = job.next /\ new.todo = job.todo /\ new.left = job.left
             /\ new.seen = job.seen /\ new.wrote = job.wrote /\ new.delta = job.delta
BY DEF Overtaken, Jobs

-----------------------------------------------------------------------------
(* What the helpers of the model compute. *)

LEMMA ViewShows == ASSUME NEW t \in Tx, NEW p \in Pools
                   PROVE  View(t, p) = Shows(pool[p], tx[t].delta[p])
BY DEF View, Shows

LEMMA ShowsRow ==
  ASSUME NEW row \in Row, NEW d \in Int
  PROVE  /\ Shows(row, d) \in Row
         /\ Shows(row, d).quantity = (IF Counted THEN row.quantity - d ELSE row.quantity)
         /\ Shows(row, d).reserved = row.reserved + d
         /\ d = 0 => Shows(row, d) = row
         /\ ~Counted => Shows(row, d).quantity = row.quantity
<1>1. row = [quantity |-> row.quantity, reserved |-> row.reserved]
  BY DEF Row
<1>2. row.quantity \in Int /\ row.reserved \in Int
  BY DEF Row
<1>3. CASE Counted
  BY <1>1, <1>2, <1>3 DEF Shows, Row
<1>4. CASE ~Counted
  BY <1>1, <1>2, <1>4 DEF Shows, Row
<1>5. QED
  BY <1>3, <1>4

LEMMA SoundPart ==
  ASSUME NEW job \in Jobs, job.next \in 1 .. Len(job.parts)
  PROVE  job.parts[job.next] \in Part
BY DEF Jobs

(* A request that has not written anything shows the rows as they are. *)
LEMMA FreshFits ==
  ASSUME StockInv, NEW t \in Tx, NEW job \in Jobs,
         Placed(job), job.op = "split" \/ job.at = "release" => ~Counted,
         job.wrote = {}, \A p \in Pools : job.delta[p] = 0,
         job.seen = pool \/ \A p \in Pools : job.seen[p].quantity = 0
  PROVE  Fits(t, job)
<1>1. \A p \in Pools : Shows(pool[p], 0) = pool[p]
  BY ShowsRow DEF StockInv, Database
<1>2. \A p \in Pools : /\ Sound(pool[p], peak[p]) /\ 0 <= peak[p]
                       /\ ~Counted => pool[p].quantity <= peak[p]
  BY DEF StockInv, PoolsSound
<1>3. ~Counted => \A p \in Pools : job.seen[p].quantity <= peak[p]
  BY <1>2
<1>4. QED
  BY <1>1, <1>2, <1>3 DEF Fits

(* A step that changes one request, and nothing of the database. *)
LEMMA GoesKeeps ==
  ASSUME StockInv, NEW t \in Tx, NEW job \in Jobs, Goes(t, job), Fits(t, job)
  PROVE  StockInv'
<1>1. Database' /\ PoolsSound' /\ (Counted' <=> Counted)
  BY DEF StockInv, Goes, Database, PoolsSound, Sound, Counted
<1>2. tx' \in [Tx -> Jobs] /\ tx'[t] = job /\ \A u \in Tx \ {t} : tx'[u] = tx[u]
  BY DEF StockInv, Goes
<1>3. ASSUME NEW u \in Tx PROVE Fits(u, tx[u])'
  <2> DEFINE mine == tx'[u]
  <2>1. mine \in Jobs /\ Fits(u, mine)
    BY <1>2 DEF StockInv
  <2>2. \A x \in mine.wrote : \A v \in Tx \ {u} : x \notin tx'[v].wrote
    BY <1>2, <2>1 DEF Fits, StockInv, Free
  <2>3. pool' = pool /\ peak' = peak
    BY DEF Goes
  <2>4. QED
    BY <1>1, <2>1, <2>2, <2>3 DEF Fits, Free, Sound, Shows, Placed, Counted
<1>4. QED
  BY <1>1, <1>2, <1>3 DEF StockInv

-----------------------------------------------------------------------------
(* Requests that begin. *)

LEMMA BegunFits ==
  ASSUME StockInv, NEW t \in Tx, NEW r \in Records \cup {NoRecord}, NEW q \in Nat,
         NEW parts \in Seq(Part),
         NEW op \in {"none", "create", "submit", "update", "delete", "split"},
         NEW at \in {"begin", "lock", "scan", "commit"}, NEW seen \in {pool, Unseen},
         at = "scan" => Len(parts) = 1,
         at = "lock" => r \in Records /\ (op \in {"submit", "split"} => parts # <<>>),
         op = "split" => ~Counted
  PROVE  LET job == Begun(op, at, r, q, seen, parts)
         IN  job \in Jobs /\ Fits(t, job)
<1> SUFFICES ASSUME NEW job, job = Begun(op, at, r, q, seen, parts)
             PROVE  job \in Jobs /\ Fits(t, job)
  OBVIOUS
<1>1. seen \in [Pools -> Row] /\ (seen = pool \/ \A p \in Pools : seen[p].quantity = 0)
  BY UnseenIsSeen DEF StockInv, Database
<1>2. /\ job \in Jobs
      /\ job.op = op /\ job.at = at /\ job.rec = r /\ job.parts = parts /\ job.next = 1
      /\ job.todo = {} /\ job.seen = seen /\ job.wrote = {}
      /\ \A p \in Pools : job.delta[p] = 0
  <2>1. Nothing \in [Pools -> Nat] /\ Nothing \in [Pools -> Int] /\ \A p \in Pools : Nothing[p] = 0
    BY DEF Nothing
  <2>2. [x \in Records |-> Nothing] \in [Records -> [Pools -> Nat]]
    BY <2>1
  <2>3. QED
    BY <1>1, <2>1, <2>2 DEF Begun, Jobs
<1>3. Placed(job)
  <2>1. CASE at = "scan"
    <3>1. job.at = "scan" /\ job.next = 1 /\ Len(job.parts) = 1
      BY <1>2, <2>1
    <3>2. QED
      BY <3>1 DEF Placed
  <2>2. CASE at = "lock"
    BY <1>2, <2>2 DEF Placed
  <2>3. CASE at \in {"begin", "commit"}
    BY <1>2, <2>3 DEF Placed
  <2>4. QED
    BY <2>1, <2>2, <2>3
<1>4. Fits(t, job)
  BY <1>1, <1>2, <1>3, FreshFits
<1>5. QED
  BY <1>2, <1>4

LEMMA CreateStep ==
  ASSUME StockInv, NEW t \in Tx, NEW r \in Records, NEW q \in Quantities, Create(t, r, q)
  PROVE  StockInv'
<1>1. q \in Nat
  BY StockAssumption
<1>2. CASE config.atSubmit
  <2> DEFINE job == Begun("create", "commit", r, q, Unseen, <<>>)
  <2>1. <<>> \in Seq(Part)
    OBVIOUS
  <2>2. job \in Jobs /\ Fits(t, job)
    BY <1>1, <2>1, BegunFits
  <2>3. QED
    BY <1>2, <2>2, GoesKeeps DEF Create
<1>3. CASE ~config.atSubmit
  <2> DEFINE job == Begun("create", "scan", r, q, Unseen, Whole(r, q))
  <2>1. job \in Jobs /\ Fits(t, job)
    BY <1>1, WholeIsOnePart, BegunFits
  <2>2. QED
    BY <1>3, <2>1, GoesKeeps DEF Create
<1>4. QED
  BY <1>2, <1>3

LEMMA SubmitStep ==
  ASSUME StockInv, NEW t \in Tx, NEW r \in Records, Submit(t, r)
  PROVE  StockInv'
<1> DEFINE q == rec[r].quantity
           job == Begun("submit", "lock", r, q, pool, Whole(r, q))
<1>1. q \in Nat
  BY DEF StockInv, Database
<1>2. Goes(t, job)
  BY DEF Submit
<1> HIDE DEF q
<1>3. Whole(r, q) \in Seq(Part) /\ Whole(r, q) # <<>>
  BY <1>1, WholeIsOnePart DEF Whole
<1>4. job \in Jobs /\ Fits(t, job)
  BY <1>1, <1>3, BegunFits
<1>5. QED
  BY <1>2, <1>4, GoesKeeps

LEMMA UpdateStep ==
  ASSUME StockInv, NEW t \in Tx, NEW r \in Records, NEW q \in Quantities,
         NEW submits \in BOOLEAN, Update(t, r, q, submits)
  PROVE  StockInv'
<1> DEFINE parts == IF submits THEN Whole(r, q) ELSE <<>>
           job == Begun("update", "lock", r, q, Unseen, parts)
<1>1. q \in Nat
  BY StockAssumption
<1>2. parts \in Seq(Part)
  BY <1>1, WholeIsOnePart
<1>3. Goes(t, job)
  BY DEF Update
<1> HIDE DEF parts
<1>4. job \in Jobs /\ Fits(t, job)
  BY <1>1, <1>2, BegunFits
<1>5. QED
  BY <1>3, <1>4, GoesKeeps

LEMMA DeleteStep ==
  ASSUME StockInv, NEW t \in Tx, NEW r \in Records, Delete(t, r)
  PROVE  StockInv'
<1> DEFINE job == Begun("delete", "lock", r, 0, Unseen, <<>>)
<1>1. <<>> \in Seq(Part) /\ 0 \in Nat
  OBVIOUS
<1>2. job \in Jobs /\ Fits(t, job)
  BY <1>1, BegunFits
<1>3. QED
  BY <1>2, GoesKeeps DEF Delete

LEMMA SplitStep ==
  ASSUME StockInv, NEW t \in Tx, NEW r \in Records, NEW c \in Records, NEW d \in Records,
         NEW q \in 1 .. rec[r].quantity - 1,
         NEW l \in Pools \cup {AnyLot}, NEW m \in Pools \cup {AnyLot},
         Split(t, r, c, d, q, l, m)
  PROVE  StockInv'
<1> DEFINE whole == rec[r].quantity
           one == [rec |-> c, qty |-> q, lot |-> l]
           two == [rec |-> d, qty |-> whole - q, lot |-> m]
           parts == <<one, two>>
           job == Begun("split", "lock", r, whole, Unseen, parts)
<1>1. whole \in Nat /\ q \in Nat /\ whole - q \in Nat
  BY DEF StockInv, Database
<1>2. one \in Part /\ two \in Part
  BY <1>1 DEF Part
<1>3. Goes(t, job) /\ ~Counted
  BY DEF Split
<1> HIDE DEF one, two, whole
<1>4. parts \in Seq(Part) /\ parts # <<>>
  BY <1>2
<1> HIDE DEF parts
<1>5. job \in Jobs /\ Fits(t, job)
  BY <1>1, <1>3, <1>4, BegunFits
<1>6. QED
  BY <1>3, <1>5, GoesKeeps

-----------------------------------------------------------------------------
(* Statements of a request. *)

LEMMA LockStep ==
  ASSUME StockInv, NEW t \in Tx, Lock(t)
  PROVE  StockInv'
<1> DEFINE job == tx[t]
           r == job.rec
<1>1. job \in Jobs /\ Fits(t, job) /\ Placed(job) /\ job.at = "lock" /\ Free(t, r)
  BY DEF StockInv, Lock, Fits
<1>2. r \in Records /\ job.parts \in Seq(Part) /\ <<>> \in Seq(Part) /\ job.next = 1
  BY <1>1 DEF Placed, Jobs
<1>3. ReserveRows(r) \in SUBSET Pools /\ {} \in SUBSET Pools
  BY DEF ReserveRows
<1>4. ASSUME NEW place \in {"release", "scan", "commit"}, NEW parts \in Seq(Part),
             NEW todo \in SUBSET Pools, Goes(t, Holding(job, r, place, parts, todo)),
             place # "commit" => parts # <<>>, place = "release" => job.op = "split"
      PROVE  StockInv'
  <2> DEFINE new == Holding(job, r, place, parts, todo)
  <2>1. /\ new \in Jobs
        /\ new.op = job.op /\ new.rec = job.rec /\ new.at = place /\ new.parts = parts
        /\ new.next = job.next /\ new.delta = job.delta /\ new.seen = job.seen
        /\ new.wrote = job.wrote \cup {r}
    BY <1>1, <1>2, HoldingIsJob
  <2> HIDE DEF new
  <2>2. Placed(new)
    BY <1>2, <1>4, <2>1 DEF Placed
  <2>3. Fits(t, new)
    BY <1>1, <1>4, <2>1, <2>2 DEF Fits
  <2>4. QED
    BY <1>4, <2>1, <2>3, GoesKeeps DEF new
<1>5. CASE Goes(t, Holding(job, r, "commit", <<>>, {}))
  BY <1>2, <1>3, <1>4, <1>5
<1>6. CASE /\ Goes(t, Holding(job, r, "scan", job.parts, {})) /\ job.parts # <<>>
  BY <1>2, <1>3, <1>4, <1>6
<1>7. CASE job.op = "split" /\ Goes(t, Holding(job, r, "release", job.parts, ReserveRows(r)))
  <2>1. job.parts # <<>>
    BY <1>1, <1>7 DEF Placed
  <2>2. QED
    BY <1>2, <1>3, <1>4, <1>7, <2>1
<1>8. job.op = "submit" => job.parts # <<>>
  BY <1>1 DEF Placed
<1>9. QED
  BY <1>5, <1>6, <1>7, <1>8 DEF Lock

(* The request of t writes pool rows whose locks it gets: what it shows of    *)
(* the others stays.                                                        *)
LEMMA WritesRows ==
  ASSUME StockInv, NEW t \in Tx, NEW rows \in SUBSET Pools, \A p \in rows : Free(t, p),
         NEW new \in Jobs, Placed(new), new.op = "split" \/ new.at = "release" => ~Counted,
         new.seen = tx[t].seen, new.wrote = tx[t].wrote \cup rows,
         \A x \in Pools \ rows : new.delta[x] = tx[t].delta[x],
         \A p \in rows : Sound(Shows(pool[p], new.delta[p]), peak[p])
  PROVE  Fits(t, new)
<1> DEFINE job == tx[t]
<1>1. job \in Jobs /\ Fits(t, job)
  BY DEF StockInv
<1> HIDE DEF job
<1>2. new.seen = job.seen /\ new.wrote = job.wrote \cup rows
      /\ \A x \in Pools \ rows : new.delta[x] = job.delta[x]
  BY DEF job
<1>3. \A x \in Pools : new.delta[x] # 0 => x \in new.wrote
  BY <1>1, <1>2 DEF Fits
<1>4. \A x \in new.wrote : Free(t, x)
  BY <1>1, <1>2 DEF Fits
<1>5. \A x \in Pools : Sound(Shows(pool[x], new.delta[x]), peak[x])
  BY <1>1, <1>2 DEF Fits
<1>6. \A x \in Pools : ~Counted => new.seen[x].quantity <= peak[x]
  BY <1>1, <1>2 DEF Fits
<1>7. QED
  BY <1>3, <1>4, <1>5, <1>6 DEF Fits

(* The request of t reads, or goes on to another place: it writes nothing.  *)
LEMMA WritesNothing ==
  ASSUME StockInv, NEW t \in Tx, NEW new \in Jobs, Placed(new),
         new.op = "split" \/ new.at = "release" => ~Counted,
         new.wrote = tx[t].wrote, new.delta = tx[t].delta,
         ~Counted => \A x \in Pools : new.seen[x].quantity <= peak[x]
  PROVE  Fits(t, new)
<1> DEFINE job == tx[t]
<1>1. job \in Jobs /\ Fits(t, job)
  BY DEF StockInv
<1> HIDE DEF job
<1>2. new.wrote = job.wrote /\ new.delta = job.delta
  BY DEF job
<1>3. QED
  BY <1>1, <1>2 DEF Fits

LEMMA AtWork ==
  ASSUME StockInv, NEW t \in Tx
  PROVE  /\ tx[t] \in Jobs /\ Placed(tx[t])
         /\ tx[t].op = "split" \/ tx[t].at = "release" => ~Counted
         /\ ~Counted => \A p \in Pools : tx[t].seen[p].quantity <= peak[p]
         /\ \A p \in Pools : Sound(Shows(pool[p], tx[t].delta[p]), peak[p])
BY DEF StockInv, Fits

LEMMA ReleaseStep ==
  ASSUME StockInv, NEW t \in Tx, Release(t)
  PROVE  StockInv'
<1> DEFINE job == tx[t]
           r == job.rec
<1>1. /\ job \in Jobs /\ Placed(job) /\ job.at = "release" /\ ~Counted /\ r \in Records
      /\ \A p \in Pools : job.seen[p].quantity <= peak[p]
      /\ \A p \in Pools : Sound(Shows(pool[p], job.delta[p]), peak[p])
  BY AtWork DEF Release, Placed
<1>2. CASE Goes(t, Scanning(job))
  <2> DEFINE new == Scanning(job)
  <2>1. /\ new \in Jobs /\ new.op = job.op /\ new.rec = job.rec /\ new.at = "scan"
        /\ new.parts = job.parts /\ new.next = job.next /\ new.delta = job.delta
        /\ new.seen = job.seen /\ new.wrote = job.wrote
    BY <1>1, ScanningIsJob
  <2> HIDE DEF new
  <2>2. Placed(new)
    BY <1>1, <2>1 DEF Placed
  <2>3. Fits(t, new)
    BY <1>1, <2>1, <2>2, WritesNothing
  <2>4. QED
    BY <1>2, <2>1, <2>3, GoesKeeps DEF new
<1>3. ASSUME NEW p \in job.todo, \A q \in config.matches[p] : Free(t, q),
             Goes(t, Returned(job, p, GivenBack(r, p), reserve[r][p]))
      PROVE  StockInv'
  <2> DEFINE n == reserve[r][p]
             rows == config.matches[p]
             new == Returned(job, p, n, n)
  <2>1. Database /\ p \in Pools /\ n \in Nat /\ rows \in SUBSET Pools
    BY <1>1, TuplesSelect DEF Jobs, StockInv, Database
  <2>2. Goes(t, new)
    BY <1>3 DEF GivenBack
  <2> HIDE DEF n
  <2>3. /\ new \in Jobs /\ new.op = job.op /\ new.rec = job.rec /\ new.at = job.at
        /\ new.parts = job.parts /\ new.next = job.next /\ new.seen = job.seen
        /\ new.wrote = job.wrote \cup rows
        /\ \A x \in Pools : new.delta[x] = IF x \in rows THEN job.delta[x] - n ELSE job.delta[x]
    BY <1>1, <2>1, ReturnedIsJob
  <2> HIDE DEF new
  <2>4. Placed(new)
    BY <1>1, <2>3 DEF Placed
  <2>5. ASSUME NEW q \in rows PROVE Sound(Shows(pool[q], new.delta[q]), peak[q])
    <3> DEFINE a == pool[q].reserved
               b == peak[q]
               c == job.delta[q]
    <3>0. q \in Pools /\ new.delta[q] = c - n
      BY <2>1, <2>3
    <3>a. pool[q] \in Row /\ b \in Int
      BY <3>0 DEF StockInv, Database
    <3>b. c \in Int
      BY <1>1, <3>0 DEF Jobs
    <3>1. /\ q \in Pools /\ pool[q] \in Row /\ c \in Int /\ new.delta[q] = c - n
          /\ a \in Int /\ b \in Int /\ c - n \in Int
      BY <2>1, <3>0, <3>a, <3>b DEF Row
    <3>2. Shows(pool[q], c).reserved = a + c /\ Shows(pool[q], c - n).reserved = a + (c - n)
      BY <3>1, ShowsRow
    <3>3. Sound(Shows(pool[q], c), b)
      BY <1>1, <3>1
    <3>4. a + c <= b
      BY <1>1, <3>2, <3>3 DEF Sound
    <3> HIDE DEF a, b, c
    <3>5. a + (c - n) <= b
      BY <2>1, <3>1, <3>4
    <3>6. Sound(Shows(pool[q], c - n), b)
      BY <1>1, <3>2, <3>5 DEF Sound
    <3>7. QED
      BY <3>1, <3>6 DEF b
  <2>6. Fits(t, new)
    <3>1. \A q \in rows : Free(t, q)
      BY <1>3
    <3>2. \A x \in Pools \ rows : new.delta[x] = job.delta[x]
      BY <2>3
    <3> HIDE DEF rows
    <3>3. QED
      BY <1>1, <2>1, <2>3, <2>4, <2>5, <3>1, <3>2, WritesRows
  <2>7. QED
    BY <2>2, <2>3, <2>6, GoesKeeps
<1>4. QED
  BY <1>2, <1>3 DEF Release

LEMMA ScanStep ==
  ASSUME StockInv, NEW t \in Tx, Scan(t)
  PROVE  StockInv'
<1> DEFINE job == tx[t]
           seen == IF job.op = "submit" THEN job.seen ELSE [p \in Pools |-> View(t, p)]
           part == job.parts[job.next]
           new == Found(job, seen, part)
<1>1. job \in Jobs /\ Placed(job) /\ job.at = "scan" /\ (job.op = "split" => ~Counted)
  BY AtWork DEF Scan
<1>2. job.next \in 1 .. Len(job.parts) /\ part \in Part
  BY <1>1, SoundPart DEF Placed
<1>3. \A p \in Pools : /\ View(t, p) \in Row
                       /\ ~Counted => View(t, p).quantity = pool[p].quantity
  <2>1. \A p \in Pools : pool[p] \in Row /\ job.delta[p] \in Int
    BY <1>1 DEF StockInv, Database, Jobs
  <2>2. QED
    BY <2>1, ViewShows, ShowsRow
<1>4. seen \in [Pools -> Row]
  BY <1>1, <1>3 DEF Jobs
<1>5. ~Counted => \A p \in Pools : seen[p].quantity <= peak[p]
  <2>1. ~Counted => \A p \in Pools : pool[p].quantity <= peak[p]
    BY DEF StockInv, PoolsSound
  <2>2. QED
    BY <1>3, <2>1, AtWork
<1>6. Goes(t, new)
  BY DEF Scan
<1> HIDE DEF seen, part
<1>7. /\ new \in Jobs /\ new.op = job.op /\ new.rec = job.rec /\ new.at = "claim"
      /\ new.parts = job.parts /\ new.next = job.next /\ new.left = part.qty
      /\ part.lot # AnyLot => new.todo = {part.lot}
      /\ new.seen = seen /\ new.delta = job.delta /\ new.wrote = job.wrote
  BY <1>1, <1>2, <1>4, FoundIsJob
<1> HIDE DEF new
<1>8. Placed(new)
  BY <1>1, <1>2, <1>7 DEF Placed, part
<1>9. Fits(t, new)
  BY <1>1, <1>5, <1>7, <1>8, WritesNothing
<1>10. QED
  BY <1>6, <1>7, <1>9, GoesKeeps

LEMMA ClaimStep ==
  ASSUME StockInv, NEW t \in Tx, Claim(t)
  PROVE  StockInv'
<1> DEFINE job == tx[t]
           part == job.parts[job.next]
           seenRow(p) == job.seen[p]
           amount(p) == IF part.lot = AnyLot THEN Wanted(job.seen[p], job.left) ELSE part.qty
<1>1. job \in Jobs /\ Placed(job) /\ job.at = "claim" /\ (job.op = "split" => ~Counted)
  BY AtWork DEF Claim
<1>2. part \in Part
  BY <1>1, SoundPart DEF Placed
<1>3. PICK p \in job.todo :
        \/ /\ amount(p) > 0 /\ Claimable(View(t, p), job.seen[p], amount(p)) /\ Free(t, p)
           /\ Goes(t, Took(job, part.rec, p, amount(p)))
        \/ Goes(t, Passed(job, p))
  BY DEF Claim
<1> DEFINE n == amount(p)
           seen == job.seen[p]
<1>4. p \in Pools /\ seen \in Row /\ job.left \in Nat
  BY <1>1 DEF Jobs
<1>5. n \in Int /\ n <= job.left
  <2>1. CASE part.lot = AnyLot
    BY <1>4, <2>1 DEF Wanted, Row
  <2>2. CASE part.lot # AnyLot
    BY <1>1, <1>2, <2>2 DEF Placed, Part
  <2>3. QED
    BY <2>1, <2>2
<1>6. CASE Goes(t, Passed(job, p))
  <2> DEFINE new == Passed(job, p)
  <2>1. /\ new \in Jobs /\ new.op = job.op /\ new.rec = job.rec /\ new.at = job.at
        /\ new.parts = job.parts /\ new.next = job.next /\ new.todo = job.todo \ {p}
        /\ new.left = job.left /\ new.seen = job.seen /\ new.wrote = job.wrote
        /\ new.delta = job.delta
    BY <1>1, <1>4, PassedIsJob
  <2> HIDE DEF new
  <2>2. Placed(new)
    BY <1>1, <2>1 DEF Placed
  <2>3. Fits(t, new)
    BY <1>1, <2>1, <2>2, AtWork, WritesNothing
  <2>4. QED
    BY <1>6, <2>1, <2>3, GoesKeeps DEF new
<1>7. CASE /\ n > 0 /\ Claimable(View(t, p), seen, n) /\ Free(t, p)
           /\ Goes(t, Took(job, part.rec, p, n))
  <2> DEFINE new == Took(job, part.rec, p, n)
             row == pool[p]
             d == job.delta[p]
  <2>1. n \in Nat /\ n <= job.left /\ part.rec \in Records
    <3>1. part.rec \in Records
      BY <1>2 DEF Part
    <3>2. n \in Int /\ n > 0 /\ n <= job.left
      BY <1>5, <1>7
    <3> HIDE DEF n
    <3>3. QED
      BY <3>1, <3>2
  <2>2. Goes(t, new) /\ Claimable(View(t, p), seen, n)
    BY <1>7
  <2> HIDE DEF n
  <2>3. /\ new \in Jobs /\ new.op = job.op /\ new.rec = job.rec /\ new.at = job.at
        /\ new.parts = job.parts /\ new.next = job.next /\ new.todo = job.todo \ {p}
        /\ new.left = job.left - n /\ new.seen = job.seen /\ new.wrote = job.wrote \cup {p}
        /\ \A x \in Pools : new.delta[x] = IF x = p THEN job.delta[p] + n ELSE job.delta[x]
    BY <1>1, <1>4, <2>1, TookIsJob
  <2> HIDE DEF new
  <2>4. Placed(new)
    <3>1. new.todo # {} => part.lot = AnyLot
      BY <1>1, <1>3, <2>3 DEF Placed
    <3>2. QED
      BY <1>1, <2>3, <3>1 DEF Placed
  <2>5. Sound(Shows(row, new.delta[p]), peak[p])
    <3>1. row \in Row /\ d \in Int /\ d + n \in Int /\ new.delta[p] = d + n
      BY <1>1, <1>4, <2>1, <2>3 DEF StockInv, Database, Jobs
    <3>2. /\ View(t, p).quantity = (IF Counted THEN row.quantity - d ELSE row.quantity)
          /\ View(t, p).reserved = row.reserved + d
      <4>1. View(t, p) = Shows(row, d)
        BY <1>4, ViewShows
      <4> HIDE DEF row, d
      <4>2. QED
        BY <3>1, <4>1, ShowsRow
    <3>3. CASE Counted
      <4>1. row.quantity - d >= n
        BY <2>2, <3>2, <3>3 DEF Claimable
      <4>2. Shows(row, d + n).quantity = row.quantity - (d + n)
        BY <3>1, <3>3, ShowsRow
      <4>3. row.quantity - (d + n) >= 0
        <5> DEFINE a == row.quantity
        <5>1. a \in Int
          BY <3>1 DEF Row
        <5> HIDE DEF a, d
        <5>2. a - d >= n => a - (d + n) >= 0
          BY <2>1, <3>1, <5>1
        <5>3. QED
          BY <4>1, <5>2 DEF a
      <4>4. QED
        BY <3>1, <3>3, <4>2, <4>3 DEF Sound
    <3>4. CASE ~Counted
      <4>1. row.reserved + d <= seen.quantity - n
        BY <2>2, <3>2, <3>4 DEF Claimable
      <4>2. seen.quantity <= peak[p]
        BY <1>4, <3>4, AtWork
      <4>3. row.reserved + (d + n) <= peak[p]
        <5> DEFINE a == row.reserved
                   b == peak[p]
                   c == seen.quantity
        <5>1. a \in Int /\ b \in Int /\ c \in Int
          BY <1>4, <3>1 DEF Row, StockInv, Database
        <5> HIDE DEF a, b, c, d
        <5>2. a + d <= c - n /\ c <= b => a + (d + n) <= b
          BY <2>1, <3>1, <5>1
        <5>3. QED
          BY <4>1, <4>2, <5>2 DEF a, b, c
      <4>4. Shows(row, d + n).reserved = row.reserved + (d + n)
        BY <3>1, <3>4, ShowsRow
      <4>5. QED
        BY <3>1, <3>4, <4>3, <4>4 DEF Sound
    <3>5. QED
      BY <3>3, <3>4
  <2>6. Fits(t, new)
    <3>1. /\ {p} \in SUBSET Pools /\ \A q \in {p} : Free(t, q)
          /\ \A q \in {p} : Sound(Shows(pool[q], new.delta[q]), peak[q])
      BY <1>4, <1>7, <2>5
    <3>2. \A x \in Pools \ {p} : new.delta[x] = job.delta[x]
      BY <2>3
    <3>3. QED
      BY <1>1, <2>3, <2>4, <3>1, <3>2, WritesRows
  <2>7. QED
    BY <2>2, <2>3, <2>6, GoesKeeps
<1>8. QED
  BY <1>3, <1>6, <1>7

LEMMA NextPartStep ==
  ASSUME StockInv, NEW t \in Tx, NextPart(t)
  PROVE  StockInv'
<1> DEFINE job == tx[t]
           new == CoveredPart(job)
<1>1. job \in Jobs /\ Placed(job) /\ job.at = "claim" /\ (job.op = "split" => ~Counted)
  BY AtWork DEF NextPart
<1>2. /\ new \in Jobs /\ new.op = job.op /\ new.rec = job.rec
      /\ new.at = (IF job.next = Len(job.parts) THEN "commit" ELSE "scan")
      /\ new.parts = job.parts /\ new.next = job.next + 1
      /\ new.seen = Unseen /\ new.wrote = job.wrote /\ new.delta = job.delta
  BY <1>1, CoveredIsJob
<1>3. Goes(t, new)
  BY DEF NextPart
<1> HIDE DEF new
<1>4. Placed(new)
  <2>1. job.next \in 1 .. Len(job.parts) /\ Len(job.parts) \in Nat
    BY <1>1 DEF Placed, Jobs
  <2>2. job.next # Len(job.parts) => new.next \in 1 .. Len(new.parts)
    BY <1>2, <2>1
  <2>3. QED
    BY <1>2, <2>2 DEF Placed
<1>5. ~Counted => \A p \in Pools : new.seen[p].quantity <= peak[p]
  BY <1>2, UnseenIsSeen DEF StockInv, PoolsSound
<1>6. Fits(t, new)
  BY <1>1, <1>2, <1>4, <1>5, WritesNothing
<1>7. QED
  BY <1>2, <1>3, <1>6, GoesKeeps

-----------------------------------------------------------------------------
(* How requests end, and stock that arrives. *)

LEMMA IdleFits ==
  ASSUME StockInv, NEW t \in Tx
  PROVE  Idle \in Jobs /\ Fits(t, Idle)
<1>1. <<>> \in Seq(Part) /\ 0 \in Nat
  OBVIOUS
<1>2. QED
  BY <1>1, BegunFits DEF Idle

LEMMA AbortStep ==
  ASSUME StockInv, NEW t \in Tx, Abort(t)
  PROVE  StockInv'
<1>1. Goes(t, Idle)
  BY DEF Abort, Goes
<1>2. QED
  BY <1>1, IdleFits, GoesKeeps

(* The pool rows may be replaced by later ones, and what there has been of    *)
(* them by tops, of which only those of touched differ: none is overbooked. *)
MayBecome(touched, later, tops) ==
  /\ later \in [Pools -> Row] /\ tops \in [Pools -> Int]
  /\ touched \in SUBSET (Pools \cup Records)
  /\ \A p \in Pools :
       /\ p \in touched \/ (later[p] = pool[p] /\ tops[p] = peak[p])
       /\ Sound(later[p], tops[p]) /\ tops[p] >= peak[p]

(* What Fits says of a request, with later and tops in their places.         *)
FitsWith(job, later, tops) ==
  /\ job \in Jobs /\ Placed(job)
  /\ job.op = "split" \/ job.at = "release" => ~Counted
  /\ \A p \in Pools : job.delta[p] # 0 => p \in job.wrote
  /\ \A p \in Pools :
       /\ ~Counted => job.seen[p].quantity <= tops[p]
       /\ Sound(Shows(later[p], job.delta[p]), tops[p])

(* A request u at work that wrote none of the rows touched goes on.         *)
LEMMA OthersFit ==
  ASSUME StockInv, NEW u \in Tx, NEW touched, NEW later, NEW tops,
         MayBecome(touched, later, tops),
         touched \cap tx[u].wrote = {}
  PROVE  /\ FitsWith(Overtaken(tx[u], touched), later, tops)
         /\ Overtaken(tx[u], touched).wrote = tx[u].wrote
<1> SUFFICES ASSUME NEW new, new = Overtaken(tx[u], touched)
             PROVE  FitsWith(new, later, tops) /\ new.wrote = tx[u].wrote
  OBVIOUS
<1> DEFINE job == tx[u]
<1>1. job \in Jobs /\ Fits(u, job)
  BY DEF StockInv
<1>2. /\ new \in Jobs
      /\ new.op = job.op /\ new.rec = job.rec /\ new.at = job.at /\ new.parts = job.parts
      /\ new.next = job.next /\ new.todo = job.todo /\ new.left = job.left
      /\ new.seen = job.seen /\ new.wrote = job.wrote /\ new.delta = job.delta
  BY <1>1, OvertakenIsJob DEF MayBecome
<1> HIDE DEF job
<1>3. Placed(new)
  BY <1>1, <1>2 DEF Fits, Placed
<1>4. ASSUME NEW p \in Pools
      PROVE  /\ ~Counted => new.seen[p].quantity <= tops[p]
             /\ Sound(Shows(later[p], new.delta[p]), tops[p])
  <2>1. ~Counted => new.seen[p].quantity <= tops[p]
    <3>1. job.seen[p].quantity \in Int /\ peak[p] \in Int /\ tops[p] \in Int
      BY <1>1 DEF Jobs, Row, StockInv, Database, MayBecome
    <3>2. ~Counted => job.seen[p].quantity <= peak[p] /\ tops[p] >= peak[p]
      BY <1>1 DEF Fits, MayBecome
    <3>3. QED
      BY <1>2, <3>1, <3>2
  <2>2. CASE p \in touched
    <3>1. new.delta[p] = 0
      BY <1>1, <1>2, <2>2 DEF Fits, job
    <3>2. Shows(later[p], 0) = later[p] /\ Sound(later[p], tops[p])
      BY ShowsRow DEF MayBecome
    <3>3. QED
      BY <2>1, <3>1, <3>2
  <2>3. CASE p \notin touched
    BY <1>1, <1>2, <2>1, <2>3 DEF Fits, MayBecome
  <2>4. QED
    BY <2>2, <2>3
<1>5. QED
  BY <1>1, <1>2, <1>3, <1>4 DEF Fits, FitsWith, job

LEMMA RowAfterIsRow ==
  ASSUME StockInv, NEW t \in Tx, NEW r \in Records
  PROVE  RowAfter(t, r) \in [state : States, quantity : Nat, parent : Records \cup {NoRecord}]
<1> DEFINE job == tx[t]
           after == RowAfter(t, r)
<1>1. job \in Jobs /\ rec[r] \in [state : States, quantity : Nat, parent : Records \cup {NoRecord}]
  BY DEF StockInv, Database
<1>2. job.qty \in Nat /\ job.rec \in Records \cup {NoRecord} /\ job.parts \in Seq(Part)
  BY <1>1 DEF Jobs
<1>3. r \in Requested(t) => Asked(t, r) \in Nat
  <2> SUFFICES ASSUME r \in Requested(t) PROVE Asked(t, r) \in Nat
    OBVIOUS
  <2> DEFINE i == CHOOSE j \in DOMAIN tx[t].parts : tx[t].parts[j].rec = r
  <2>1. i \in DOMAIN tx[t].parts
    BY DEF Requested
  <2> HIDE DEF i
  <2>2. tx[t].parts[i] \in Part
    BY <1>2, <2>1
  <2>3. tx[t].parts[i].qty \in Nat
    BY <2>2 DEF Part
  <2>4. QED
    BY <2>3 DEF Asked, i
<1>4. after.state \in States
  BY <1>1 DEF RowAfter, States
<1>5. after.quantity \in Nat
  BY <1>1, <1>2, <1>3 DEF RowAfter
<1>6. after.parent \in Records \cup {NoRecord}
  BY <1>1, <1>2 DEF RowAfter
<1>7. after = [state |-> after.state, quantity |-> after.quantity, parent |-> after.parent]
  BY DEF RowAfter
<1> HIDE DEF after
<1>8. QED
  BY <1>4, <1>5, <1>6, <1>7 DEF after

LEMMA CommitStep ==
  ASSUME StockInv, NEW t \in Tx, Commit(t)
  PROVE  StockInv'
<1> DEFINE job == tx[t]
           touched == job.wrote
           later == [p \in Pools |-> View(t, p)]
<1>1. /\ job \in Jobs /\ Fits(t, job)
      /\ job.claims \in [Records -> [Pools -> Nat]] /\ job.freed \in [Pools -> Nat]
      /\ touched \in SUBSET (Pools \cup Records)
  BY DEF StockInv, Jobs
<1>2. /\ pool' = later
      /\ tx' = [u \in Tx |-> IF u = t THEN Idle ELSE Overtaken(tx[u], touched)]
      /\ config' = config /\ peak' = peak /\ (Counted' <=> Counted)
  BY DEF Commit, Counted
<1>3. \A p \in Pools : pool[p] \in Row /\ job.delta[p] \in Int
  BY <1>1 DEF StockInv, Database, Jobs
<1>4. \A p \in Pools : later[p] = Shows(pool[p], job.delta[p])
  BY ViewShows
<1> HIDE DEF later
<1>5. later \in [Pools -> Row]
  <2>1. \A p \in Pools : later[p] \in Row
    BY <1>3, <1>4, ShowsRow
  <2>2. QED
    BY <2>1 DEF later
<1>6. ASSUME NEW p \in Pools, p \notin touched PROVE later[p] = pool[p]
  <2>1. job.delta[p] = 0 /\ pool[p] \in Row
    BY <1>1, <1>3, <1>6 DEF Fits
  <2>2. Shows(pool[p], 0) = pool[p]
    BY <2>1, ShowsRow
  <2>3. QED
    BY <1>4, <2>1, <2>2
<1>7. ASSUME NEW p \in Pools
      PROVE  /\ Sound(later[p], peak[p]) /\ 0 <= peak[p] /\ peak[p] \in Int
             /\ ~Counted => later[p].quantity <= peak[p]
  <2>1. /\ Sound(later[p], peak[p]) /\ 0 <= peak[p] /\ peak[p] \in Int
        /\ ~Counted => pool[p].quantity <= peak[p]
    BY <1>1, <1>4 DEF Fits, StockInv, PoolsSound, Database
  <2>2. ~Counted => later[p].quantity = pool[p].quantity
    BY <1>3, <1>4, ShowsRow
  <2>3. QED
    BY <2>1, <2>2
<1>8. Database'
  <2>1. rec' \in [Records -> [state : States, quantity : Nat, parent : Records \cup {NoRecord}]]
    BY RowAfterIsRow DEF Commit
  <2>2. reserve' \in [Records -> [Pools -> Nat]]
    <3>1. \A r \in Records, p \in Pools : reserve[r][p] + job.claims[r][p] \in Nat
      BY <1>1 DEF StockInv, Database
    <3>2. QED
      BY <3>1 DEF Commit
  <2>3. cancel' \in [Records -> [Pools -> Nat]]
    <3>1. \A r \in Records, p \in Pools :
            cancel[r][p] + (IF r = job.rec THEN job.freed[p] ELSE 0) \in Nat
      BY <1>1 DEF StockInv, Database
    <3>2. QED
      BY <3>1 DEF Commit
  <2>4. QED
    BY <1>2, <1>5, <2>1, <2>2, <2>3 DEF Database, StockInv
<1>9. PoolsSound'
  BY <1>2, <1>7 DEF PoolsSound, Sound
<1>10. ASSUME NEW u \in Tx PROVE tx'[u] \in Jobs /\ Fits(u, tx[u])'
  <2>1. CASE u = t
    <3>1. tx'[u] = Idle /\ Idle \in Jobs /\ Placed(Idle) /\ ~(Idle.op = "split" \/ Idle.at = "release")
      BY <1>2, <2>1, IdleFits DEF Fits, Idle, Begun
    <3>2. /\ \A p \in Pools : Idle.delta[p] = 0 /\ Idle.seen[p].quantity = 0
          /\ Idle.wrote = {}
      BY UnseenIsSeen DEF Idle, Begun, Nothing
    <3>3. \A p \in Pools : Shows(later[p], 0) = later[p]
      BY <1>5, ShowsRow
    <3>4. \A p \in Pools : Sound(Shows(later[p], Idle.delta[p]), peak[p]) /\ Idle.seen[p].quantity <= peak[p]
      BY <1>5, <1>7, <3>2, <3>3 DEF Row
    <3> HIDE DEF later
    <3>5. QED
      BY <1>2, <3>1, <3>2, <3>4 DEF Fits, Sound, Shows, Counted, Placed, Free
  <2>2. CASE u # t
    <3> DEFINE new == Overtaken(tx[u], touched)
    <3>1. touched \cap tx[u].wrote = {}
      BY <1>1, <2>2 DEF Fits, Free
    <3>2. MayBecome(touched, later, peak)
      BY <1>1, <1>5, <1>6, <1>7 DEF MayBecome, StockInv, Database
    <3> HIDE DEF touched
    <3>3. FitsWith(new, later, peak) /\ new.wrote = tx[u].wrote
      BY <3>1, <3>2, OthersFit
    <3>4. tx'[u] = new
      BY <1>2, <2>2
    <3>5. \A v \in Tx : tx'[v].wrote \subseteq tx[v].wrote
      BY <1>1, <1>2, OvertakenIsJob DEF StockInv, Idle, Begun
    <3> HIDE DEF new
    <3>6. \A x \in new.wrote : \A v \in Tx \ {u} : x \notin tx'[v].wrote
      BY <3>3, <3>5 DEF StockInv, Fits, Free
    <3>7. QED
      BY <1>2, <3>3, <3>4, <3>6 DEF Fits, FitsWith, Sound, Shows, Counted, Placed, Free
  <2>3. QED
    BY <2>1, <2>2
<1>11. tx' \in [Tx -> Jobs]
  BY <1>2, <1>10
<1>12. QED
  BY <1>8, <1>9, <1>10, <1>11 DEF StockInv

LEMMA AdjustStep ==
  ASSUME StockInv, NEW p \in Pools, NEW n \in Int, Adjust(p, n)
  PROVE  StockInv'
<1> DEFINE later == pool'
           tops == peak'
           touched == {p}
<1>1. /\ pool \in [Pools -> Row] /\ peak \in [Pools -> Int] /\ ~Counted
      /\ config' = config /\ (Counted' <=> Counted)
      /\ tx' = [t \in Tx |-> Overtaken(tx[t], touched)]
      /\ \A t \in Tx : touched \cap tx[t].wrote = {}
  BY DEF Adjust, StockInv, Database, Counted
<1>2. /\ later \in [Pools -> Row]
      /\ \A x \in Pools \ {p} : later[x] = pool[x]
      /\ later[p].quantity = pool[p].quantity + n /\ later[p].reserved = pool[p].reserved
  <2> DEFINE row == [pool[p] EXCEPT !.quantity = @ + n]
  <2>1. pool[p] \in Row /\ later = [pool EXCEPT ![p] = row]
    BY <1>1 DEF Adjust
  <2>2. row \in Row /\ row.quantity = pool[p].quantity + n /\ row.reserved = pool[p].reserved
    <3> SUFFICES ASSUME NEW old \in Row
                 PROVE  LET new == [old EXCEPT !.quantity = @ + n]
                        IN  /\ new \in Row /\ new.quantity = old.quantity + n
                            /\ new.reserved = old.reserved
      BY <2>1
    <3>1. old.quantity + n \in Int /\ old.reserved \in Int
      BY DEF Row
    <3>2. QED
      BY <3>1 DEF Row
  <2> HIDE DEF row
  <2>3. QED
    BY <1>1, <2>1, <2>2
<1>3. /\ tops \in [Pools -> Int]
      /\ \A x \in Pools \ {p} : tops[x] = peak[x]
      /\ tops[p] >= peak[p] /\ pool[p].quantity + n <= tops[p]
  <2> DEFINE grown == pool[p].quantity + n
  <2>1. grown \in Int /\ peak[p] \in Int
    BY <1>1 DEF Row
  <2>2. tops = [peak EXCEPT ![p] = IF grown > peak[p] THEN grown ELSE peak[p]]
    BY DEF Adjust
  <2> HIDE DEF grown, tops
  <2>3. /\ tops \in [Pools -> Int] /\ tops[p] >= peak[p] /\ grown <= tops[p]
        /\ \A x \in Pools \ {p} : tops[x] = peak[x]
    BY <1>1, <2>1, <2>2
  <2>4. QED
    BY <2>3 DEF grown
<1>4. Database'
  BY <1>2, <1>3 DEF Adjust, StockInv, Database
<1> HIDE DEF later, tops
<1>5. ASSUME NEW x \in Pools
      PROVE  /\ Sound(later[x], tops[x]) /\ tops[x] >= peak[x]
             /\ later[x].quantity <= tops[x] /\ 0 <= tops[x]
  <2>1. /\ pool[x].reserved <= peak[x] /\ pool[x].quantity <= peak[x] /\ 0 <= peak[x]
        /\ pool[x].quantity \in Int /\ pool[x].reserved \in Int /\ peak[x] \in Int /\ tops[x] \in Int
    BY <1>1, <1>3 DEF StockInv, PoolsSound, Sound, Row
  <2>2. CASE x = p
    BY <1>1, <1>2, <1>3, <2>1, <2>2 DEF Sound
  <2>3. CASE x # p
    BY <1>1, <1>2, <1>3, <2>1, <2>3 DEF Sound
  <2>4. QED
    BY <2>2, <2>3
<1>6. MayBecome(touched, later, tops)
  BY <1>2, <1>3, <1>5 DEF MayBecome
<1>7. PoolsSound'
  BY <1>1, <1>5 DEF PoolsSound, Sound, later, tops
<1>8. ASSUME NEW u \in Tx PROVE tx'[u] \in Jobs /\ Fits(u, tx[u])'
  <2> DEFINE new == Overtaken(tx[u], touched)
  <2> HIDE DEF touched
  <2>1. \A v \in Tx : FitsWith(Overtaken(tx[v], touched), later, tops) /\ tx'[v].wrote = tx[v].wrote
    BY <1>1, <1>6, OthersFit
  <2>2. tx'[u] = new /\ FitsWith(new, later, tops) /\ new.wrote = tx[u].wrote
    BY <1>1, <2>1
  <2> HIDE DEF new
  <2>3. \A x \in new.wrote : \A v \in Tx \ {u} : x \notin tx'[v].wrote
    BY <2>1, <2>2 DEF StockInv, Fits, Free
  <2>4. QED
    BY <1>1, <2>1, <2>2, <2>3 DEF Fits, FitsWith, Sound, Shows, Counted, Placed, Free, later, tops
<1>9. tx' \in [Tx -> Jobs]
  BY <1>1, <1>8
<1>10. QED
  BY <1>4, <1>7, <1>8, <1>9 DEF StockInv

-----------------------------------------------------------------------------
LEMMA InitStock == ASSUME Init PROVE StockInv
<1>1. Database
  BY StockAssumption DEF Init, Database, Row, NoRow, States, Nothing
<1>2. PoolsSound
  BY StockAssumption DEF Init, PoolsSound, Sound
<1>3. ASSUME NEW t \in Tx PROVE tx[t] = Idle /\ Idle \in Jobs /\ Fits(t, Idle)
  <2>1. tx[t] = Idle /\ \A u \in Tx : tx[u].wrote = {}
    BY DEF Init, Idle, Begun
  <2>2. Idle \in Jobs /\ Placed(Idle)
    BY UnseenIsSeen DEF Idle, Begun, Nothing, Jobs, Placed
  <2>3. QED
    BY <1>1, <1>2, <2>1, <2>2, UnseenIsSeen, ShowsRow
       DEF Fits, Idle, Begun, Nothing, Database, PoolsSound, Row
<1>4. QED
  BY <1>1, <1>2, <1>3 DEF StockInv, Init

LEMMA NextStock == ASSUME StockInv, [Next]_vars PROVE StockInv'
<1>1. CASE UNCHANGED vars
  BY <1>1 DEF vars, StockInv, Database, PoolsSound, Fits, Free, Sound, Shows, Counted, Placed
<1>2. ASSUME NEW t \in Tx, NEW r \in Records, NEW q \in Quantities, Create(t, r, q)
      PROVE  StockInv'
  BY <1>2, CreateStep
<1>3. ASSUME NEW t \in Tx, NEW r \in Records, Submit(t, r) PROVE StockInv'
  BY <1>3, SubmitStep
<1>4. ASSUME NEW t \in Tx, NEW r \in Records, NEW q \in Quantities, NEW submits \in BOOLEAN,
             Update(t, r, q, submits)
      PROVE  StockInv'
  BY <1>4, UpdateStep
<1>5. ASSUME NEW t \in Tx, NEW r \in Records, Delete(t, r) PROVE StockInv'
  BY <1>5, DeleteStep
<1>6. ASSUME NEW t \in Tx, NEW r \in Records, NEW c \in Records, NEW d \in Records,
             NEW q \in 1 .. rec[r].quantity - 1,
             NEW l \in Pools \cup {AnyLot}, NEW m \in Pools \cup {AnyLot},
             Split(t, r, c, d, q, l, m)
      PROVE  StockInv'
  BY <1>6, SplitStep
<1>7. ASSUME NEW t \in Tx,
             Lock(t) \/ Release(t) \/ Scan(t) \/ Claim(t) \/ NextPart(t) \/ Commit(t) \/ Abort(t)
      PROVE  StockInv'
  BY <1>7, LockStep, ReleaseStep, ScanStep, ClaimStep, NextPartStep, CommitStep, AbortStep
<1>8. ASSUME NEW a \in Adjustments, Adjust(a[1], a[2]) PROVE StockInv'
  BY <1>8, AdjustStep, StockAssumption
<1>9. QED
  BY <1>1, <1>2, <1>3, <1>4, <1>5, <1>6, <1>7, <1>8 DEF Next

LEMMA StockInvariant == Spec => []StockInv
<1>1. Init => StockInv
  BY InitStock
<1>2. StockInv /\ [Next]_vars => StockInv'
  BY NextStock
<1>3. QED
  BY <1>1, <1>2, PTL DEF Spec

(* The database and the requests at work keep their types: a request that   *)
(* claims is always at one of its parts, and no claim takes more than is    *)
(* left to take (generators.py:1786-1860, split and submit templates).      *)
THEOREM TypeCorrect == Spec => []TypeOK
<1>1. StockInv => TypeOK
  BY DEF StockInv, Database, TypeOK
<1>2. QED
  BY <1>1, StockInvariant, PTL

-----------------------------------------------------------------------------
(* Induction over the natural numbers, on a set instead of a predicate.     *)
Smaller == {ss \in Nat \X Nat : ss[1] < ss[2]}

LEMMA Least ==
  ASSUME NEW T \in SUBSET Nat, T # {}
  PROVE  \E n \in T : \A m \in T : n <= m
<1>1. IsWellFoundedOn(Smaller, Nat)
  BY NatLessThanWellFounded DEF OpToRel, Smaller
<1>2. PICK n \in T : \A m \in T : <<m, n>> \notin Smaller
  BY <1>1, WFMin
<1>3. ASSUME NEW m \in T
      PROVE  n <= m
  <2>1. <<m, n>> \in Nat \X Nat /\ ~(m < n)
    BY <1>2 DEF Smaller
  <2> QED
    BY <2>1
<1> QED
  BY <1>3

(* Induction over the subsets of a finite set: what the empty set has, and  *)
(* a set has when its smaller ones do, every subset has.                    *)
LEMMA SubsetInduct ==
  ASSUME NEW S, IsFiniteSet(S), NEW T, {} \in T,
         \A A \in SUBSET S : A # {} /\ (\A x \in A : A \ {x} \in T) => A \in T
  PROVE  SUBSET S \subseteq T
<1> SUFFICES ASSUME NEW B \in SUBSET S, B \notin T PROVE FALSE
  OBVIOUS
<1> DEFINE sizes == {Cardinality(A) : A \in (SUBSET S) \ T}
<1>1. \A A \in SUBSET S : IsFiniteSet(A) /\ Cardinality(A) \in Nat
  BY FS_Subset, FS_CardinalityType
<1>2. sizes \in SUBSET Nat /\ sizes # {}
  BY <1>1
<1>3. PICK n \in sizes : \A m \in sizes : n <= m
  <2> HIDE DEF sizes
  <2> QED
    BY <1>2, Least
<1>4. PICK A \in (SUBSET S) \ T : n = Cardinality(A)
  BY <1>3
<1>5. ASSUME NEW x \in A PROVE A \ {x} \in T
  <2>1. A \ {x} \in SUBSET S /\ Cardinality(A \ {x}) = n - 1 /\ n \in Nat
    BY <1>1, <1>4, FS_RemoveElement
  <2>2. A \ {x} \notin T => n - 1 \in sizes
    BY <2>1
  <2> QED
    BY <1>3, <2>1, <2>2
<1>6. A \in SUBSET S /\ A \notin T
  BY <1>4
<1> HIDE DEF sizes
<1>7. A # {} /\ \A x \in A : A \ {x} \in T
  BY <1>5, <1>6
<1> QED
  BY <1>6, <1>7

-----------------------------------------------------------------------------
(* Sums over finite sets. *)

(* The sum of the values of a function.                                     *)
Total(f) == MapThenSumSet(LAMBDA x : f[x], DOMAIN f)

(* The partial sums, by the recursion MapThenSumSet is defined with.        *)
Pick(A) == CHOOSE x \in A : TRUE
IsSum(g, f, S) ==
  g = [A \in SUBSET S |-> IF A = {} THEN 0 ELSE f[Pick(A)] + g[A \ {Pick(A)}]]

LEMMA PickIsMember == ASSUME NEW A, A # {} PROVE Pick(A) \in A
BY DEF Pick

Unfolds(g, f, S) ==
  g[{}] = 0 /\ \A A \in SUBSET S : A # {} => g[A] = f[Pick(A)] + g[A \ {Pick(A)}]

LEMMA SumStep == ASSUME NEW S, NEW f, NEW g, IsSum(g, f, S) PROVE Unfolds(g, f, S)
BY DEF IsSum, Unfolds

(* The same, whichever member is set aside first.                           *)
AnyFirst(g, f, S) ==
  g[{}] = 0 /\ \A A \in SUBSET S : \A x \in A : g[A] = f[x] + g[A \ {x}]

LEMMA SumTypes ==
  ASSUME NEW S, IsFiniteSet(S), NEW f \in [S -> Int], NEW g, IsSum(g, f, S)
  PROVE  g \in [SUBSET S -> Int]
<1> DEFINE T == {A \in SUBSET S : g[A] \in Int}
<1>1. {} \in T
  <2>1. g[{}] = 0
    BY SumStep DEF Unfolds
  <2> QED
    BY <2>1
<1>2. ASSUME NEW A \in SUBSET S, A # {}, \A x \in A : A \ {x} \in T
      PROVE  A \in T
  <2>1. g[A] = f[Pick(A)] + g[A \ {Pick(A)}]
    <3>1. Unfolds(g, f, S)
      BY SumStep
    <3> QED
      BY <1>2, <3>1 DEF Unfolds
  <2>2. Pick(A) \in A /\ f[Pick(A)] \in Int
    BY <1>2, PickIsMember
  <2>3. g[A \ {Pick(A)}] \in Int
    BY <1>2, <2>2
  <2> QED
    BY <2>1, <2>2, <2>3
<1>3. SUBSET S \subseteq T
  <2> HIDE DEF T
  <2> QED
    BY <1>1, <1>2, SubsetInduct
<1>4. g = [A \in SUBSET S |-> g[A]]
  BY DEF IsSum
<1> QED
  BY <1>3, <1>4

LEMMA SumsAgree ==
  ASSUME NEW S, IsFiniteSet(S), NEW f, NEW h, NEW g, NEW k, IsSum(g, f, S), IsSum(k, h, S),
         NEW B \in SUBSET S, \A x \in B : f[x] = h[x]
  PROVE  g[B] = k[B]
<1> DEFINE T == {A \in SUBSET S : A \subseteq B => g[A] = k[A]}
<1>1. {} \in T
  <2>1. g[{}] = 0 /\ k[{}] = 0
    BY SumStep DEF Unfolds
  <2> QED
    BY <2>1
<1>2. ASSUME NEW A \in SUBSET S, A # {}, \A x \in A : A \ {x} \in T
      PROVE  A \in T
  <2> SUFFICES ASSUME A \subseteq B PROVE g[A] = k[A]
    OBVIOUS
  <2> DEFINE x == Pick(A)
  <2>0. Unfolds(g, f, S) /\ Unfolds(k, h, S)
    BY SumStep
  <2>1. g[A] = f[x] + g[A \ {x}]
    BY <1>2, <2>0 DEF Unfolds
  <2>2. k[A] = h[x] + k[A \ {x}]
    BY <1>2, <2>0 DEF Unfolds
  <2>3. x \in A
    BY <1>2, PickIsMember
  <2> HIDE DEF x
  <2>4. f[x] = h[x] /\ g[A \ {x}] = k[A \ {x}]
    BY <1>2, <2>3
  <2> QED
    BY <2>1, <2>2, <2>4
<1>3. SUBSET S \subseteq T
  <2> HIDE DEF T
  <2> QED
    BY <1>1, <1>2, SubsetInduct
<1> QED
  BY <1>3

LEMMA SumExists ==
  ASSUME NEW S, IsFiniteSet(S), NEW f \in [S -> Int]
  PROVE  \E g : IsSum(g, f, S)
<1> DEFINE next(g, A) == IF A = {} THEN 0
                         ELSE f[Pick(A)] + g[A \ {Pick(A)}]
           upto(n) == \E g : \A A \in SUBSET S : Cardinality(A) <= n => g[A] = next(g, A)
           T == {n \in Nat : upto(n)}
<1>1. \A A \in SUBSET S : IsFiniteSet(A) /\ Cardinality(A) \in Nat
  BY FS_Subset, FS_CardinalityType
<1>2. 0 \in T
  <2> DEFINE g == [A \in SUBSET S |-> 0]
  <2>1. \A A \in SUBSET S : Cardinality(A) <= 0 => A = {}
    BY <1>1, FS_EmptySet
  <2>2. \A A \in SUBSET S : Cardinality(A) <= 0 => g[A] = next(g, A)
    BY <2>1
  <2> QED
    BY <2>2
<1>3. ASSUME NEW n \in Nat, n \in T PROVE n + 1 \in T
  <2>1. PICK g : \A A \in SUBSET S : Cardinality(A) <= n => g[A] = next(g, A)
    BY <1>3
  <2> DEFINE k == [A \in SUBSET S |-> next(g, A)]
  <2>2. \A A \in SUBSET S : Cardinality(A) <= n => k[A] = g[A]
    BY <2>1
  <2>3. ASSUME NEW A \in SUBSET S, Cardinality(A) <= n + 1
        PROVE  k[A] = next(k, A)
    <3>1. CASE A = {}
      BY <3>1
    <3>2. CASE A # {}
      <4> DEFINE x == Pick(A)
      <4>1. x \in A
        BY <3>2, PickIsMember
      <4> HIDE DEF x
      <4>a. Cardinality(A \ {x}) = Cardinality(A) - 1
        BY <1>1, <4>1, FS_RemoveElement
      <4>2. A \ {x} \in SUBSET S /\ Cardinality(A \ {x}) <= n
        BY <1>1, <2>3, <4>a
      <4>3. k[A \ {x}] = g[A \ {x}]
        BY <2>2, <4>2
      <4>4. k[A] = f[x] + g[A \ {x}]
        BY <3>2 DEF x
      <4> QED
        BY <3>2, <4>3, <4>4 DEF x
    <3> QED
      BY <3>1, <3>2
  <2> HIDE DEF k
  <2>4. \A A \in SUBSET S : Cardinality(A) <= n + 1 => k[A] = next(k, A)
    BY <2>3
  <2>5. upto(n + 1)
    BY <2>4
  <2> HIDE DEF upto
  <2> QED
    BY <2>5
<1>4. Cardinality(S) \in T
  <2> SUFFICES ASSUME Cardinality(S) \notin T PROVE FALSE
    OBVIOUS
  <2> DEFINE out == Nat \ T
  <2>1. out \in SUBSET Nat /\ out # {}
    BY <1>1
  <2>2. PICK n \in out : \A m \in out : n <= m
    <3> HIDE DEF out
    <3> QED
      BY <2>1, Least
  <2> HIDE DEF T
  <2>3. n # 0 /\ n \in Nat /\ n \notin T
    BY <1>2, <2>2
  <2>4. n - 1 \in Nat /\ n - 1 \in T
    BY <2>2, <2>3
  <2> QED
    BY <1>3, <2>3, <2>4
<1>5. PICK g : \A A \in SUBSET S : Cardinality(A) <= Cardinality(S) => g[A] = next(g, A)
  BY <1>4
<1>6. \A A \in SUBSET S : g[A] = next(g, A)
  BY <1>1, <1>5, FS_Subset
<1> DEFINE k == [A \in SUBSET S |-> g[A]]
<1>7. \A A \in SUBSET S : k[A] = next(k, A)
  BY <1>6
<1>8. IsSum(k, f, S)
  BY <1>7 DEF IsSum
<1> QED
  BY <1>8

(* Total is the last partial sum, for any partial sums.                     *)
LEMMA TotalOf ==
  ASSUME NEW S, IsFiniteSet(S), NEW f \in [S -> Int], NEW g, IsSum(g, f, S)
  PROVE  Total(f) = g[S]
<1> DEFINE k == CHOOSE k : IsSum(k, f, S)
<1>1. IsSum(k, f, S)
  OBVIOUS
<1>2. Total(f) = k[S]
  BY DEF Total, MapThenSumSet, MapThenFoldSet, IsSum, Pick
<1> HIDE DEF k
<1>3. k[S] = g[S]
  BY <1>1, SumsAgree
<1> QED
  BY <1>2, <1>3

LEMMA SumsExist ==
  ASSUME NEW S, IsFiniteSet(S), NEW f \in [S -> Int]
  PROVE  \E g \in [SUBSET S -> Int] :
           IsSum(g, f, S) /\ AnyFirst(g, f, S) /\ Total(f) = g[S]
<1>1. PICK g : IsSum(g, f, S)
  BY SumExists
<1>2. g \in [SUBSET S -> Int] /\ Total(f) = g[S]
  BY <1>1, SumTypes, TotalOf
<1>3. g[{}] = 0 /\ \A A \in SUBSET S : A # {} => g[A] = f[Pick(A)] + g[A \ {Pick(A)}]
  BY <1>1, SumStep DEF Unfolds
<1> DEFINE T == {A \in SUBSET S : \A x \in A : g[A] = f[x] + g[A \ {x}]}
<1>4. {} \in T
  OBVIOUS
<1>5. ASSUME NEW A \in SUBSET S, A # {}, \A x \in A : A \ {x} \in T
      PROVE  A \in T
  <2> SUFFICES ASSUME NEW x \in A PROVE g[A] = f[x] + g[A \ {x}]
    OBVIOUS
  <2> DEFINE y == Pick(A)
  <2>1. y \in A /\ g[A] = f[y] + g[A \ {y}]
    BY <1>3, <1>5, PickIsMember
  <2> HIDE DEF y
  <2>2. CASE x = y
    BY <2>1, <2>2
  <2>3. CASE x # y
    <3>1. A \ {y} \in T /\ A \ {x} \in T /\ x \in A \ {y} /\ y \in A \ {x}
      BY <1>5, <2>1, <2>3
    <3>2. g[A \ {y}] = f[x] + g[(A \ {y}) \ {x}]
      BY <3>1
    <3>3. g[A \ {x}] = f[y] + g[(A \ {x}) \ {y}]
      BY <3>1
    <3>4. (A \ {y}) \ {x} = (A \ {x}) \ {y}
      OBVIOUS
    <3>5. /\ f[x] \in Int /\ f[y] \in Int /\ g[A \ {x}] \in Int
          /\ g[A \ {y}] \in Int /\ g[(A \ {y}) \ {x}] \in Int
      BY <1>2, <2>1
    <3> DEFINE c == g[(A \ {y}) \ {x}]
               a == g[A \ {y}]
               b == g[A \ {x}]
    <3>6. g[A] = f[y] + a /\ a = f[x] + c /\ b = f[y] + c
      BY <2>1, <3>2, <3>3, <3>4
    <3>7. a \in Int /\ b \in Int /\ c \in Int
      BY <3>5
    <3> HIDE DEF a, b, c
    <3>8. g[A] = f[x] + b
      BY <3>5, <3>6, <3>7
    <3> QED
      BY <3>8 DEF b
  <2> QED
    BY <2>2, <2>3
<1>6. SUBSET S \subseteq T
  <2> HIDE DEF T
  <2> QED
    BY <1>4, <1>5, SubsetInduct
<1>7. AnyFirst(g, f, S)
  BY <1>3, <1>6 DEF AnyFirst
<1> QED
  BY <1>1, <1>2, <1>7

LEMMA TotalType ==
  ASSUME NEW S, IsFiniteSet(S), NEW f \in [S -> Int] PROVE Total(f) \in Int
<1>1. PICK g \in [SUBSET S -> Int] : IsSum(g, f, S) /\ AnyFirst(g, f, S) /\ Total(f) = g[S]
  BY SumsExist
<1> QED
  BY <1>1

(* A change at one place changes the sum by as much.                        *)
LEMMA TotalChange ==
  ASSUME NEW S, IsFiniteSet(S), NEW f \in [S -> Int], NEW h \in [S -> Int], NEW x \in S,
         \A y \in S \ {x} : f[y] = h[y]
  PROVE  Total(h) = Total(f) - f[x] + h[x]
<1>1. PICK g \in [SUBSET S -> Int] : IsSum(g, f, S) /\ AnyFirst(g, f, S) /\ Total(f) = g[S]
  BY SumsExist
<1>2. PICK k \in [SUBSET S -> Int] : IsSum(k, h, S) /\ AnyFirst(k, h, S) /\ Total(h) = k[S]
  BY SumsExist
<1>3. g[S] = f[x] + g[S \ {x}] /\ k[S] = h[x] + k[S \ {x}]
  BY <1>1, <1>2 DEF AnyFirst
<1>4. g[S \ {x}] = k[S \ {x}]
  BY <1>1, <1>2, SumsAgree
<1>5. f[x] \in Int /\ h[x] \in Int /\ g[S \ {x}] \in Int
  BY <1>1
<1> QED
  BY <1>1, <1>2, <1>3, <1>4, <1>5

LEMMA TotalPlus ==
  ASSUME NEW S, IsFiniteSet(S), NEW f \in [S -> Int], NEW h \in [S -> Int], NEW e \in [S -> Int],
         \A y \in S : e[y] = f[y] + h[y]
  PROVE  Total(e) = Total(f) + Total(h)
<1>1. PICK g \in [SUBSET S -> Int] : IsSum(g, f, S) /\ AnyFirst(g, f, S) /\ Total(f) = g[S]
  BY SumsExist
<1>2. PICK k \in [SUBSET S -> Int] : IsSum(k, h, S) /\ AnyFirst(k, h, S) /\ Total(h) = k[S]
  BY SumsExist
<1>3. PICK m \in [SUBSET S -> Int] : IsSum(m, e, S) /\ AnyFirst(m, e, S) /\ Total(e) = m[S]
  BY SumsExist
<1> DEFINE T == {A \in SUBSET S : m[A] = g[A] + k[A]}
<1>4. {} \in T
  BY <1>1, <1>2, <1>3 DEF AnyFirst
<1>5. ASSUME NEW A \in SUBSET S, A # {}, \A x \in A : A \ {x} \in T
      PROVE  A \in T
  <2>1. PICK x \in A : TRUE
    BY <1>5
  <2>2. /\ g[A] = f[x] + g[A \ {x}] /\ k[A] = h[x] + k[A \ {x}] /\ m[A] = e[x] + m[A \ {x}]
        /\ m[A \ {x}] = g[A \ {x}] + k[A \ {x}] /\ e[x] = f[x] + h[x]
    BY <1>1, <1>2, <1>3, <1>5, <2>1 DEF AnyFirst
  <2>3. /\ f[x] \in Int /\ h[x] \in Int /\ g[A \ {x}] \in Int /\ k[A \ {x}] \in Int
    BY <1>1
  <2> QED
    BY <2>2, <2>3
<1>6. SUBSET S \subseteq T
  <2> HIDE DEF T
  <2> QED
    BY <1>4, <1>5, SubsetInduct
<1> QED
  BY <1>1, <1>2, <1>3, <1>6

LEMMA TotalZero ==
  ASSUME NEW S, IsFiniteSet(S), NEW f \in [S -> Int], \A x \in S : f[x] = 0
  PROVE  Total(f) = 0
<1>1. Total(f) = Total(f) + Total(f)
  BY TotalPlus
<1> QED
  BY <1>1, TotalType

(* One value at one place, nothing elsewhere.                               *)
LEMMA TotalSingle ==
  ASSUME NEW S, IsFiniteSet(S), NEW f \in [S -> Int], NEW x \in S, \A y \in S \ {x} : f[y] = 0
  PROVE  Total(f) = f[x]
<1> DEFINE z == [y \in S |-> 0]
<1>1. z \in [S -> Int] /\ \A y \in S : z[y] = 0
  OBVIOUS
<1> HIDE DEF z
<1>2. Total(z) = 0
  BY <1>1, TotalZero
<1>3. Total(f) = Total(z) - z[x] + f[x]
  BY <1>1, TotalChange
<1> QED
  BY <1>1, <1>2, <1>3

-----------------------------------------------------------------------------
(* What a request has written down of what it moved. *)

Column(job, p) == [r \in Records |-> job.claims[r][p]]

(* The i-th part: claimed in full, not yet, or all but what is left.        *)
Owed(job, i) ==
  LET r == job.parts[i].rec
      n == job.parts[i].qty
  IN  /\ i < job.next => Total(job.claims[r]) = n
      /\ i > job.next \/ (i = job.next /\ job.at # "claim") => \A p \in Pools : job.claims[r][p] = 0
      /\ i = job.next /\ job.at = "claim" =>
           /\ Total(job.claims[r]) = n - job.left
           /\ \A p \in job.todo : job.claims[r][p] = 0

(* The parts are of different rows.                                         *)
Apart(parts) == \A i, j \in DOMAIN parts : i # j => parts[i].rec # parts[j].rec

(* A figure that follows the sum of the rows it stands for, and is that sum  *)
(* where each tuple selects one pool row.                                   *)
Follows(figure, sum) == figure <= sum /\ (Exact => figure = sum)

Recorded(job) ==
  /\ Apart(job.parts)
  /\ job.at \in {"begin", "lock"} => \A p \in Pools : job.freed[p] = 0 /\ job.delta[p] = 0
  /\ job.at = "release" => \A p \in job.todo : job.freed[p] = 0
  /\ job.at \in {"begin", "lock", "release"} => job.next = 1
  /\ job.at = "commit" => Len(job.parts) < job.next
  /\ \A p \in Pools : job.freed[p] # 0 => job.rec \in Records
  /\ \A p \in Pools : Follows(job.delta[p], Total(Column(job, p)) - job.freed[p])
  /\ \A r \in Records : (\A i \in DOMAIN job.parts : job.parts[i].rec # r) =>
                        \A p \in Pools : job.claims[r][p] = 0
  /\ \A i \in DOMAIN job.parts : Owed(job, i)

LEMMA Columns ==
  ASSUME NEW job \in Jobs
  PROVE  /\ \A p \in Pools : Column(job, p) \in [Records -> Int] /\ Total(Column(job, p)) \in Int
         /\ \A r \in Records : job.claims[r] \in [Pools -> Int] /\ Total(job.claims[r]) \in Int
<1>1. job.claims \in [Records -> [Pools -> Nat]]
  BY DEF Jobs
<1>2. ASSUME NEW p \in Pools PROVE Column(job, p) \in [Records -> Int]
  BY <1>1 DEF Column
<1>3. ASSUME NEW r \in Records PROVE job.claims[r] \in [Pools -> Int]
  <2>1. job.claims[r] \in [Pools -> Nat]
    BY <1>1
  <2>2. [Pools -> Nat] \subseteq [Pools -> Int]
    OBVIOUS
  <2> QED
    BY <2>1, <2>2
<1> QED
  BY <1>2, <1>3, TotalType, ModelAssumption

(* Nothing is claimed before the first scan.                                *)
LEMMA NothingClaimed ==
  ASSUME NEW job \in Jobs, Recorded(job), job.at \in {"begin", "lock", "release"}
  PROVE  \A r \in Records, p \in Pools : job.claims[r][p] = 0
<1> SUFFICES ASSUME NEW r \in Records, NEW p \in Pools PROVE job.claims[r][p] = 0
  OBVIOUS
<1>1. job.next = 1 /\ job.at # "claim" /\ DOMAIN job.parts \subseteq Nat \ {0}
  BY DEF Recorded, Jobs
<1>2. ASSUME NEW i \in DOMAIN job.parts, job.parts[i].rec = r PROVE job.claims[r][p] = 0
  <2>1. Owed(job, i) /\ (i > job.next \/ i = job.next)
    BY <1>1 DEF Recorded
  <2> QED
    BY <1>1, <1>2, <2>1 DEF Owed
<1> QED
  BY <1>2 DEF Recorded

(* Where nothing is claimed and nothing freed, every part is still owed.    *)
LEMMA NothingOwed ==
  ASSUME NEW job \in Jobs, Apart(job.parts), job.next = 1, job.at # "claim",
         \A r \in Records, p \in Pools : job.claims[r][p] = 0,
         job.at = "commit" => job.parts = <<>>,
         \A p \in Pools : job.delta[p] = 0 /\ job.freed[p] = 0
  PROVE  Recorded(job)
<1>1. \A p \in Pools : Total(Column(job, p)) = 0
  <2> SUFFICES ASSUME NEW p \in Pools PROVE Total(Column(job, p)) = 0
    OBVIOUS
  <2>1. Column(job, p) \in [Records -> Int]
    BY Columns
  <2>2. \A r \in Records : Column(job, p)[r] = 0
    BY DEF Column
  <2> HIDE DEF Column
  <2> QED
    BY <2>1, <2>2, TotalZero, ModelAssumption
<1>2. ASSUME NEW i \in DOMAIN job.parts PROVE Owed(job, i)
  <2>1. i \in Nat \ {0} /\ job.parts[i] \in Part
    BY DEF Jobs
  <2>2. job.parts[i].rec \in Records /\ ~(i < job.next)
    BY <2>1 DEF Part
  <2> QED
    BY <2>2 DEF Owed
<1>3. job.at = "commit" => Len(job.parts) < job.next
  OBVIOUS
<1>4. \A p \in Pools : Follows(job.delta[p], Total(Column(job, p)) - job.freed[p])
  BY <1>1 DEF Follows
<1>5. \A p \in Pools : ~(job.freed[p] # 0)
  OBVIOUS
<1>6. job.todo \subseteq Pools
  BY DEF Jobs
<1> QED
  BY <1>2, <1>3, <1>4, <1>5, <1>6 DEF Recorded

LEMMA BegunRecorded ==
  ASSUME NEW r, NEW q, NEW parts, NEW op, NEW at, NEW seen, Apart(parts),
         at = "commit" => parts = <<>>, at # "claim",
         Begun(op, at, r, q, seen, parts) \in Jobs
  PROVE  Recorded(Begun(op, at, r, q, seen, parts))
<1> DEFINE job == Begun(op, at, r, q, seen, parts)
<1>1. /\ job.parts = parts /\ job.next = 1 /\ job.at = at
      /\ \A x \in Records, p \in Pools : job.claims[x][p] = 0
      /\ \A p \in Pools : job.delta[p] = 0 /\ job.freed[p] = 0
  BY DEF Begun, Nothing
<1> HIDE DEF job
<1>2. QED
  BY <1>1, NothingOwed DEF job

LEMMA WholeApart == ASSUME NEW r, NEW q PROVE Apart(Whole(r, q)) /\ Apart(<<>>)
BY DEF Apart, Whole

LEMMA HoldingRecorded ==
  ASSUME NEW job \in Jobs, Recorded(job), job.at = "lock", NEW r \in Records,
         NEW place \in {"release", "scan", "commit"},
         NEW parts \in {<<>>, job.parts}, place = "commit" => parts = <<>>,
         NEW todo \in SUBSET Pools
  PROVE  Recorded(Holding(job, r, place, parts, todo))
<1> DEFINE new == Holding(job, r, place, parts, todo)
<1>1. parts \in Seq(Part)
  <2>1. job.parts \in Seq(Part) /\ <<>> \in Seq(Part)
    BY DEF Jobs
  <2> QED
    BY <2>1
<1>2. new \in Jobs /\ new.parts = parts /\ new.next = job.next /\ new.at = place /\ new.delta = job.delta
  BY <1>1, HoldingIsJob
<1>3. new.claims = job.claims /\ new.freed = job.freed
  BY DEF Holding, Jobs
<1>4. \A x \in Records, p \in Pools : job.claims[x][p] = 0
  BY NothingClaimed
<1>5. job.next = 1 /\ Apart(parts) /\ \A p \in Pools : job.freed[p] = 0
  BY DEF Recorded, Apart
<1>6. \A p \in Pools : job.delta[p] = 0
  BY DEF Recorded
<1> HIDE DEF new
<1> QED
  BY <1>2, <1>3, <1>4, <1>5, <1>6, NothingOwed DEF new

(* A step that leaves the claims, and what is given back, as they are.      *)
SameBooks(job, new) ==
  /\ new \in Jobs /\ new.parts = job.parts /\ new.rec = job.rec
  /\ new.claims = job.claims /\ new.delta = job.delta /\ new.freed = job.freed

LEMMA SameColumns ==
  ASSUME NEW job, NEW new, SameBooks(job, new), Recorded(job)
  PROVE  /\ Apart(new.parts)
         /\ \A p \in Pools : new.freed[p] # 0 => new.rec \in Records
         /\ \A p \in Pools : Follows(new.delta[p], Total(Column(new, p)) - new.freed[p])
         /\ \A r \in Records : (\A i \in DOMAIN new.parts : new.parts[i].rec # r) =>
                        \A p \in Pools : new.claims[r][p] = 0
<1>1. \A p \in Pools : Column(new, p) = Column(job, p)
  BY DEF Column, SameBooks
<1> QED
  BY <1>1 DEF SameBooks, Recorded

LEMMA ScanningRecorded ==
  ASSUME NEW job \in Jobs, Recorded(job), job.at = "release"
  PROVE  Recorded(Scanning(job))
<1> DEFINE new == Scanning(job)
<1>1. SameBooks(job, new) /\ new.at = "scan" /\ new.next = job.next
  BY ScanningIsJob DEF SameBooks, Scanning, Jobs
<1> HIDE DEF new
<1>2. ASSUME NEW i \in DOMAIN new.parts PROVE Owed(new, i)
  <2>1. Owed(job, i)
    BY <1>1 DEF Recorded, SameBooks
  <2> QED
    BY <1>1, <2>1 DEF Owed, SameBooks
<1> QED
  BY <1>1, <1>2, SameColumns DEF Recorded, new

LEMMA PassedRecorded ==
  ASSUME NEW job \in Jobs, Recorded(job), job.at = "claim", NEW p \in Pools
  PROVE  Recorded(Passed(job, p))
<1> DEFINE new == Passed(job, p)
<1>1. SameBooks(job, new) /\ new.at = "claim" /\ new.next = job.next /\ new.left = job.left
      /\ new.todo \subseteq job.todo
  BY PassedIsJob DEF SameBooks, Passed, Jobs
<1> HIDE DEF new
<1>2. ASSUME NEW i \in DOMAIN new.parts PROVE Owed(new, i)
  <2>1. Owed(job, i)
    BY <1>1 DEF Recorded, SameBooks
  <2> QED
    BY <1>1, <2>1 DEF Owed, SameBooks
<1> QED
  BY <1>1, <1>2, SameColumns DEF Recorded, new

LEMMA OvertakenRecorded ==
  ASSUME NEW job \in Jobs, Recorded(job), NEW rows \in SUBSET (Pools \cup Records)
  PROVE  Recorded(Overtaken(job, rows))
<1> DEFINE new == Overtaken(job, rows)
<1>1. /\ SameBooks(job, new) /\ new.at = job.at /\ new.next = job.next
      /\ new.left = job.left /\ new.todo = job.todo
  BY OvertakenIsJob DEF SameBooks, Overtaken, Jobs
<1> HIDE DEF new
<1>2. ASSUME NEW i \in DOMAIN new.parts PROVE Owed(new, i)
  <2>1. Owed(job, i)
    BY <1>1 DEF Recorded, SameBooks
  <2> QED
    BY <1>1, <2>1 DEF Owed, SameBooks
<1>3. /\ new.at \in {"begin", "lock"} => \A p \in Pools : new.freed[p] = 0 /\ new.delta[p] = 0
      /\ new.at = "release" => \A p \in new.todo : new.freed[p] = 0
      /\ new.at \in {"begin", "lock", "release"} => new.next = 1
      /\ new.at = "commit" => Len(new.parts) < new.next
  BY <1>1 DEF Recorded, SameBooks
<1> QED
  BY <1>1, <1>2, <1>3, SameColumns DEF Recorded, new

LEMMA CoveredRecorded ==
  ASSUME NEW job \in Jobs, Recorded(job), job.at = "claim", job.left = 0,
         job.next \in 1 .. Len(job.parts)
  PROVE  Recorded(CoveredPart(job))
<1> DEFINE new == CoveredPart(job)
<1>1. /\ SameBooks(job, new) /\ new.next = job.next + 1
      /\ new.at = (IF job.next = Len(job.parts) THEN "commit" ELSE "scan")
  <2>1. PICK place \in {"scan", "commit"} :
          place = IF job.next = Len(job.parts) THEN "commit" ELSE "scan"
    OBVIOUS
  <2>2. new = [job EXCEPT !.next = job.next + 1, !.todo = {}, !.seen = Unseen, !.at = place]
    BY <2>1 DEF CoveredPart
  <2>3. new.claims = job.claims /\ new.freed = job.freed
    BY <2>2 DEF Jobs
  <2> QED
    BY <2>3, CoveredIsJob DEF SameBooks
<1> HIDE DEF new
<1>2. ASSUME NEW i \in DOMAIN new.parts PROVE Owed(new, i)
  <2>1. Owed(job, i) /\ i \in Nat /\ job.parts[i] \in Part /\ job.next \in Nat
    BY <1>1 DEF Recorded, SameBooks, Jobs
  <2>2. job.parts[i].qty \in Nat
    BY <2>1 DEF Part
  <2>3. new.at # "claim"
    BY <1>1
  <2>4. i < new.next => Total(job.claims[job.parts[i].rec]) = job.parts[i].qty
    <3>1. CASE i < job.next
      BY <2>1, <3>1 DEF Owed
    <3>2. CASE i = job.next
      BY <2>1, <2>2, <3>2 DEF Owed
    <3> QED
      BY <1>1, <2>1, <3>1, <3>2
  <2>5. i >= new.next => i > job.next
    BY <1>1, <2>1
  <2>6. i > job.next => \A p \in Pools : job.claims[job.parts[i].rec][p] = 0
    BY <2>1 DEF Owed
  <2>7. i > new.next \/ i = new.next => i > job.next
    BY <1>1, <2>1
  <2> QED
    BY <1>1, <2>3, <2>4, <2>6, <2>7 DEF Owed, SameBooks
<1>3. new.at = "commit" => Len(new.parts) < new.next
  BY <1>1 DEF SameBooks
<1>4. new.at \in {"scan", "commit"}
  BY <1>1
<1> QED
  BY <1>2, <1>3, <1>4, <1>1, SameColumns DEF Recorded, new

LEMMA FoundRecorded ==
  ASSUME NEW job \in Jobs, Recorded(job), job.at = "scan", NEW seen \in [Pools -> Row],
         job.next \in 1 .. Len(job.parts)
  PROVE  Recorded(Found(job, seen, job.parts[job.next]))
<1> DEFINE part == job.parts[job.next]
           new == Found(job, seen, part)
<1>1. part \in Part /\ part.qty \in Nat /\ part.rec \in Records
  <2>1. part \in Part
    BY DEF Jobs
  <2> QED
    BY <2>1 DEF Part
<1>2. /\ SameBooks(job, new) /\ new.at = "claim" /\ new.next = job.next /\ new.left = part.qty
      /\ new.todo \in SUBSET Pools
  <2>1. new \in Jobs /\ new.rec = job.rec /\ new.parts = job.parts /\ new.delta = job.delta
        /\ new.at = "claim" /\ new.next = job.next /\ new.left = part.qty
    BY <1>1, FoundIsJob
  <2>2. new.claims = job.claims /\ new.freed = job.freed
    BY DEF Found, Jobs
  <2>3. new.todo \in SUBSET Pools
    BY <2>1 DEF Jobs
  <2> QED
    BY <2>1, <2>2, <2>3 DEF SameBooks
<1> HIDE DEF new
<1>3. ASSUME NEW i \in DOMAIN new.parts PROVE Owed(new, i)
  <2>1. Owed(job, i)
    BY <1>2 DEF Recorded, SameBooks
  <2>2. i = job.next => \A p \in Pools : job.claims[part.rec][p] = 0
    BY <2>1 DEF Owed
  <2>3. i = job.next => Total(job.claims[part.rec]) = 0
    BY <1>1, <2>2, Columns, TotalZero, ModelAssumption
  <2>4. i = job.next => Total(job.claims[part.rec]) = part.qty - new.left
    BY <1>1, <1>2, <2>3
  <2> HIDE DEF part
  <2>5. i = job.next => job.parts[i] = part
    BY DEF part
  <2> QED
    BY <1>2, <2>1, <2>2, <2>4, <2>5 DEF Owed, SameBooks
<1> HIDE DEF part
<1> QED
  BY <1>2, <1>3, SameColumns DEF Recorded, new, part

(* One entry of the claims changes: its column changes by as much, and the  *)
(* other columns stay.                                                      *)
LEMMA ColumnChange ==
  ASSUME NEW job \in Jobs, NEW new \in Jobs, NEW r \in Records, NEW p \in Pools,
         \A x \in Records, y \in Pools :
           x # r \/ y # p => new.claims[x][y] = job.claims[x][y]
  PROVE  /\ \A y \in Pools \ {p} : Total(Column(new, y)) = Total(Column(job, y))
         /\ Total(Column(new, p)) = Total(Column(job, p)) - job.claims[r][p] + new.claims[r][p]
<1>1. ASSUME NEW y \in Pools \ {p} PROVE Column(new, y) = Column(job, y)
  BY DEF Column
<1>2. \A x \in Records \ {r} : Column(job, p)[x] = Column(new, p)[x]
  BY DEF Column
<1>3. Column(job, p)[r] = job.claims[r][p] /\ Column(new, p)[r] = new.claims[r][p]
  BY DEF Column
<1>4. Column(job, p) \in [Records -> Int] /\ Column(new, p) \in [Records -> Int]
  BY Columns
<1> DEFINE f == Column(job, p)
           h == Column(new, p)
<1> HIDE DEF Column, f, h
<1>5. Total(h) = Total(f) - f[r] + h[r]
  <2>1. f \in [Records -> Int] /\ h \in [Records -> Int] /\ \A x \in Records \ {r} : f[x] = h[x]
    BY <1>2, <1>4 DEF f, h
  <2> QED
    BY <2>1, TotalChange, ModelAssumption
<1> QED
  BY <1>1, <1>3, <1>5 DEF f, h

LEMMA ReturnedRecorded ==
  ASSUME Database, NEW job \in Jobs, Recorded(job), job.at = "release", job.rec \in Records,
         NEW p \in job.todo, NEW n \in Nat
  PROVE  Recorded(Returned(job, p, n, n))
<1> DEFINE new == Returned(job, p, n, n)
           rows == config.matches[p]
<1>0. p \in Pools /\ p \in rows /\ (Exact => rows = {p})
  BY TuplesSelect DEF Jobs, Exact
<1>1. /\ new \in Jobs /\ new.rec = job.rec /\ new.at = "release" /\ new.parts = job.parts
      /\ new.next = job.next
      /\ \A x \in Pools : new.delta[x] = IF x \in rows THEN job.delta[x] - n ELSE job.delta[x]
  BY <1>0, ReturnedIsJob
<1>2. new.claims = job.claims /\ new.todo = job.todo \ {p}
  BY DEF Returned, Jobs
<1>3. \A x \in Pools : new.freed[x] = IF x = p THEN n ELSE job.freed[x]
  BY <1>0 DEF Returned, Jobs
<1> HIDE DEF new, rows
<1>4. \A x \in Pools : Column(new, x) = Column(job, x) /\ Total(Column(job, x)) \in Int
  BY <1>2, Columns DEF Column
<1>5. ASSUME NEW x \in Pools PROVE Follows(new.delta[x], Total(Column(new, x)) - new.freed[x])
  <2> DEFINE c == Total(Column(job, x))
  <2>1. /\ Follows(job.delta[x], c - job.freed[x]) /\ c \in Int /\ Total(Column(new, x)) = c
        /\ job.delta[x] \in Int /\ job.freed[x] \in Int
        /\ x = p => job.freed[x] = 0
    BY <1>4 DEF Recorded, Jobs
  <2> HIDE DEF c
  <2>2. CASE x = p
    <3>1. new.delta[x] = job.delta[x] - n /\ new.freed[x] = n
      BY <1>0, <1>1, <1>3, <2>2
    <3> QED
      BY <2>1, <2>2, <3>1 DEF Follows
  <2>3. CASE x # p /\ x \in rows
    <3>1. new.delta[x] = job.delta[x] - n /\ new.freed[x] = job.freed[x] /\ ~Exact
      BY <1>0, <1>1, <1>3, <2>3
    <3> QED
      BY <2>1, <3>1 DEF Follows
  <2>4. CASE x \notin rows
    <3>1. new.delta[x] = job.delta[x] /\ new.freed[x] = job.freed[x]
      BY <1>0, <1>1, <1>3, <2>4
    <3> QED
      BY <2>1, <3>1
  <2> QED
    BY <2>2, <2>3, <2>4
<1>6. ASSUME NEW i \in DOMAIN new.parts PROVE Owed(new, i)
  <2>1. Owed(job, i)
    BY <1>1 DEF Recorded
  <2> QED
    BY <1>1, <1>2, <2>1 DEF Owed
<1>7. \A y \in new.todo : new.freed[y] = 0
  <2>1. \A y \in job.todo : y \in Pools /\ job.freed[y] = 0
    BY DEF Recorded, Jobs
  <2> QED
    BY <1>2, <1>3, <2>1
<1>8. /\ Apart(new.parts) /\ new.next = 1
      /\ \A r \in Records : (\A i \in DOMAIN new.parts : new.parts[i].rec # r) =>
                        \A y \in Pools : new.claims[r][y] = 0
  BY <1>1, <1>2 DEF Recorded
<1> QED
  BY <1>1, <1>5, <1>6, <1>7, <1>8 DEF Recorded, new

LEMMA TookRecorded ==
  ASSUME NEW job \in Jobs, Recorded(job), job.at = "claim", NEW p \in job.todo,
         NEW n \in Nat, n <= job.left, job.next \in 1 .. Len(job.parts)
  PROVE  Recorded(Took(job, job.parts[job.next].rec, p, n))
<1> DEFINE k == job.next
           r == job.parts[k].rec
           new == Took(job, r, p, n)
<1>1. /\ p \in Pools /\ k \in DOMAIN job.parts /\ job.parts[k] \in Part /\ r \in Records
      /\ job.parts[k].qty \in Nat /\ job.left \in Nat
  <2>1. job.parts \in Seq(Part) /\ job.todo \subseteq Pools /\ job.left \in Nat
    BY DEF Jobs
  <2>2. k \in DOMAIN job.parts /\ job.parts[k] \in Part
    BY <2>1
  <2> QED
    BY <2>1, <2>2 DEF Part
<1> HIDE DEF r, k
<1>2. /\ new \in Jobs /\ new.rec = job.rec /\ new.at = "claim" /\ new.parts = job.parts
      /\ new.next = job.next /\ new.todo = job.todo \ {p} /\ new.left = job.left - n
      /\ \A x \in Pools : new.delta[x] = IF x = p THEN job.delta[p] + n ELSE job.delta[x]
  BY <1>1, TookIsJob
<1>3. new.freed = job.freed
  BY DEF Took, Jobs
<1>4. /\ new.claims[r] = [job.claims[r] EXCEPT ![p] = n]
      /\ \A x \in Records \ {r} : new.claims[x] = job.claims[x]
  BY <1>1 DEF Took, Jobs
<1> HIDE DEF new
<1>5. job.claims[r] \in [Pools -> Nat]
  BY <1>1 DEF Jobs
<1>6. /\ \A y \in Pools : new.claims[r][y] = IF y = p THEN n ELSE job.claims[r][y]
      /\ \A x \in Records, y \in Pools : x # r \/ y # p => new.claims[x][y] = job.claims[x][y]
  BY <1>1, <1>4, <1>5
<1>7. Owed(job, k) /\ job.claims[r][p] = 0
  BY <1>1 DEF Recorded, Owed, r, k
<1>8. /\ \A y \in Pools \ {p} : Total(Column(new, y)) = Total(Column(job, y))
      /\ Total(Column(new, p)) = Total(Column(job, p)) - 0 + n
  BY <1>1, <1>2, <1>6, <1>7, ColumnChange
<1>9. ASSUME NEW x \in Pools PROVE Follows(new.delta[x], Total(Column(new, x)) - new.freed[x])
  <2> DEFINE c == Total(Column(job, x))
  <2>1. /\ Follows(job.delta[x], c - job.freed[x]) /\ c \in Int /\ job.freed[x] \in Nat
        /\ job.delta[x] \in Int
    BY Columns DEF Recorded, Jobs
  <2>2. Total(Column(new, x)) = IF x = p THEN c - 0 + n ELSE c
    BY <1>8
  <2> HIDE DEF c
  <2>3. CASE x = p
    BY <1>2, <1>3, <2>1, <2>2, <2>3 DEF Follows
  <2>4. CASE x # p
    BY <1>2, <1>3, <2>1, <2>2, <2>4
  <2> QED
    BY <2>3, <2>4
<1>10. Total(new.claims[r]) = Total(job.claims[r]) + n
  <2> DEFINE f == job.claims[r]
             h == new.claims[r]
  <2>1. f \in [Pools -> Int] /\ h \in [Pools -> Int] /\ Total(f) \in Int
    BY <1>1, <1>2, Columns
  <2>2. f[p] = 0 /\ h[p] = n /\ \A y \in Pools \ {p} : f[y] = h[y]
    BY <1>1, <1>6, <1>7
  <2> HIDE DEF f, h
  <2>3. Total(h) = Total(f) - f[p] + h[p]
    <3>1. /\ IsFiniteSet(Pools) /\ f \in [Pools -> Int] /\ h \in [Pools -> Int] /\ p \in Pools
          /\ \A y \in Pools \ {p} : f[y] = h[y]
      BY <1>1, <2>1, <2>2, ModelAssumption
    <3> QED
      BY <3>1, TotalChange
  <2>4. Total(h) = Total(f) + n
    BY <2>1, <2>2, <2>3
  <2> QED
    BY <2>4 DEF f, h
<1>11. ASSUME NEW i \in DOMAIN new.parts PROVE Owed(new, i)
  <2>1. Owed(job, i) /\ job.parts[i] \in Part
    BY <1>2 DEF Recorded, Jobs
  <2>2. CASE i = k
    <3>1. Total(job.claims[r]) = job.parts[k].qty - job.left /\ \A y \in job.todo : y \in Pools /\ job.claims[r][y] = 0
      BY <1>7 DEF Owed, r, k, Jobs
    <3>2. Total(new.claims[r]) = job.parts[k].qty - new.left
      BY <1>1, <1>2, <1>10, <3>1
    <3>3. \A y \in new.todo : new.claims[r][y] = 0
      BY <1>2, <1>6, <3>1
    <3>4. new.parts[i].rec = r /\ new.parts[i].qty = job.parts[k].qty /\ i = new.next /\ new.at = "claim"
      BY <1>2, <2>2 DEF r, k
    <3>5. ~(i < new.next) /\ ~(i > new.next)
      BY <1>1, <2>2, <3>4 DEF k, Jobs
    <3> HIDE DEF Total
    <3> QED
      BY <3>2, <3>3, <3>4, <3>5 DEF Owed
  <2>3. CASE i # k
    <3>1. job.parts[i].rec # r /\ job.parts[i].rec \in Records
      BY <1>1, <1>2, <2>1, <2>3 DEF Recorded, Apart, r, Part
    <3>2. new.claims[job.parts[i].rec] = job.claims[job.parts[i].rec]
      BY <1>4, <3>1
    <3> QED
      BY <1>2, <2>1, <2>3, <3>2 DEF Owed, k
  <2> QED
    BY <2>2, <2>3
<1>12. ASSUME NEW x \in Records, \A i \in DOMAIN new.parts : new.parts[i].rec # x
       PROVE  \A y \in Pools : new.claims[x][y] = 0
  <2>1. x # r
    BY <1>1, <1>2, <1>12 DEF r
  <2> QED
    BY <1>2, <1>4, <1>12, <2>1 DEF Recorded
<1>13. Apart(new.parts) /\ \A y \in Pools : new.freed[y] # 0 => new.rec \in Records
  BY <1>2, <1>3 DEF Recorded
<1> QED
  BY <1>2, <1>9, <1>11, <1>12, <1>13 DEF Recorded, new, r, k

-----------------------------------------------------------------------------
(* The reserved quantities are sums. *)

Balance(p) == [r \in Records |-> reserve[r][p] - cancel[r][p]]
Balanced == \A p \in Pools : Follows(pool[p].reserved, Total(Balance(p)))
AllRecorded == \A t \in Tx : Recorded(tx[t])
BookInv == AllRecorded /\ Balanced

LEMMA Balances ==
  ASSUME Database, NEW p \in Pools
  PROVE  Balance(p) \in [Records -> Int] /\ Total(Balance(p)) \in Int
<1>1. \A r \in Records : reserve[r][p] - cancel[r][p] \in Int
  BY DEF Database
<1>2. Balance(p) \in [Records -> Int]
  BY <1>1 DEF Balance
<1> QED
  BY <1>2, TotalType, ModelAssumption

LEMMA BalanceIsSum ==
  ASSUME Database, NEW p \in Pools
  PROVE  MapThenSumSet(LAMBDA r : reserve[r][p] - cancel[r][p], Records) = Total(Balance(p))
<1> DEFINE f == Balance(p)
           sums(g) == g = [A \in SUBSET Records |->
                             IF A = {} THEN 0 ELSE LET x == CHOOSE x \in A : TRUE
                                                   IN  reserve[x][p] - cancel[x][p] + g[A \ {x}]]
           k == CHOOSE g : sums(g)
<1>1. MapThenSumSet(LAMBDA r : reserve[r][p] - cancel[r][p], Records) = k[Records]
  BY DEF MapThenSumSet, MapThenFoldSet
<1>2. ASSUME NEW g PROVE sums(g) <=> IsSum(g, f, Records)
  <2>1. ASSUME NEW A \in SUBSET Records, A # {}
        PROVE  f[Pick(A)] = reserve[Pick(A)][p] - cancel[Pick(A)][p]
    BY <2>1, PickIsMember DEF Balance
  <2> HIDE DEF f
  <2>2. [A \in SUBSET Records |-> IF A = {} THEN 0 ELSE f[Pick(A)] + g[A \ {Pick(A)}]]
        = [A \in SUBSET Records |-> IF A = {} THEN 0
             ELSE reserve[Pick(A)][p] - cancel[Pick(A)][p] + g[A \ {Pick(A)}]]
    BY <2>1
  <2>3. sums(g) <=> g = [A \in SUBSET Records |-> IF A = {} THEN 0
             ELSE reserve[Pick(A)][p] - cancel[Pick(A)][p] + g[A \ {Pick(A)}]]
    BY DEF Pick
  <2> HIDE DEF sums
  <2> QED
    BY <2>2, <2>3 DEF IsSum
<1> HIDE DEF sums
<1>3. f \in [Records -> Int] /\ IsFiniteSet(Records)
  BY Balances, ModelAssumption
<1> HIDE DEF f
<1>4. \E g : sums(g)
  BY <1>2, <1>3, SumExists
<1>5. IsSum(k, f, Records)
  BY <1>2, <1>4
<1> HIDE DEF k
<1>6. Total(f) = k[Records]
  BY <1>3, <1>5, TotalOf
<1> QED
  BY <1>1, <1>6 DEF f

LEMMA IdleRecorded == Recorded(Idle)
<1>1. <<>> \in Seq(Part) /\ 0 \in Nat
  OBVIOUS
<1>2. Idle \in Jobs
  BY UnseenIsSeen DEF Idle, Begun, Nothing, Jobs
<1> QED
  BY <1>2, WholeApart, BegunRecorded DEF Idle

(* One request goes on, and what it has written down is right.              *)
LEMMA GoesRecorded ==
  ASSUME StockInv, AllRecorded, NEW t \in Tx, NEW job, Goes(t, job), Recorded(job)
  PROVE  AllRecorded'
<1>1. \A u \in Tx : tx'[u] = job \/ tx'[u] = tx[u]
  BY DEF Goes, StockInv
<1>2. \A u \in Tx : Recorded(tx'[u])
  BY <1>1 DEF AllRecorded
<1>3. Exact' <=> Exact
  BY DEF Goes, Exact
<1> QED
  BY <1>2, <1>3 DEF AllRecorded, Recorded, Follows

LEMMA WroteIsRows == ASSUME StockInv, NEW t \in Tx PROVE tx[t].wrote \in SUBSET (Pools \cup Records)
BY DEF StockInv, Jobs

LEMMA OthersRecorded ==
  ASSUME StockInv, AllRecorded, NEW rows \in SUBSET (Pools \cup Records),
         \A u \in Tx : tx'[u] = Idle \/ tx'[u] = Overtaken(tx[u], rows), config' = config
  PROVE  AllRecorded'
<1>1. ASSUME NEW u \in Tx PROVE Recorded(tx'[u])
  <2>1. tx[u] \in Jobs /\ Recorded(tx[u])
    BY DEF StockInv, AllRecorded
  <2>2. Recorded(Overtaken(tx[u], rows))
    BY <2>1, OvertakenRecorded
  <2> QED
    BY <2>2, IdleRecorded
<1>2. Exact' <=> Exact
  BY DEF Exact
<1> QED
  BY <1>1, <1>2 DEF AllRecorded, Recorded, Follows

LEMMA BeginsRecorded ==
  ASSUME StockInv, StockInv', AllRecorded, NEW t \in Tx, NEW r, NEW q, NEW parts, NEW op, NEW at,
         NEW seen, Apart(parts), at = "commit" => parts = <<>>, at # "claim",
         Goes(t, Begun(op, at, r, q, seen, parts))
  PROVE  AllRecorded'
<1> DEFINE job == Begun(op, at, r, q, seen, parts)
<1>1. tx'[t] = job /\ job \in Jobs
  BY DEF Goes, StockInv
<1>2. Recorded(job)
  BY <1>1, BegunRecorded
<1> HIDE DEF job
<1>3. Goes(t, job)
  BY DEF job
<1> QED
  BY <1>2, <1>3, GoesRecorded

LEMMA LockRecorded ==
  ASSUME StockInv, AllRecorded, NEW t \in Tx, Lock(t)
  PROVE  AllRecorded'
<1> DEFINE job == tx[t]
           r == job.rec
<1>1. /\ job \in Jobs /\ Recorded(job) /\ job.at = "lock" /\ r \in Records
      /\ ReserveRows(r) \in SUBSET Pools
  BY DEF StockInv, AllRecorded, Lock, Fits, Placed, ReserveRows
<1>2. \/ Goes(t, Holding(job, r, "commit", <<>>, {}))
      \/ Goes(t, Holding(job, r, "scan", job.parts, {}))
      \/ Goes(t, Holding(job, r, "release", job.parts, ReserveRows(r)))
  BY DEF Lock
<1> HIDE DEF job, r
<1>3. \E place \in {"release", "scan", "commit"} : \E parts \in {<<>>, job.parts} :
        \E todo \in SUBSET Pools :
           (place = "commit" => parts = <<>>) /\ Goes(t, Holding(job, r, place, parts, todo))
  BY <1>1, <1>2
<1>4. PICK place \in {"release", "scan", "commit"}, parts \in {<<>>, job.parts}, todo \in SUBSET Pools :
           (place = "commit" => parts = <<>>) /\ Goes(t, Holding(job, r, place, parts, todo))
  BY <1>3
<1>5. Recorded(Holding(job, r, place, parts, todo))
  BY <1>1, <1>4, HoldingRecorded
<1> QED
  BY <1>4, <1>5, GoesRecorded

LEMMA ReleaseRecorded ==
  ASSUME StockInv, AllRecorded, NEW t \in Tx, Release(t)
  PROVE  AllRecorded'
<1> DEFINE job == tx[t]
<1>1. job \in Jobs /\ Recorded(job) /\ job.at = "release" /\ job.rec \in Records
  BY DEF StockInv, AllRecorded, Release, Fits, Placed
<1>2. CASE Goes(t, Scanning(job))
  BY <1>1, <1>2, ScanningRecorded, GoesRecorded
<1>3. CASE \E p \in job.todo : Goes(t, Returned(job, p, reserve[job.rec][p], reserve[job.rec][p]))
  <2>1. PICK p \in job.todo : Goes(t, Returned(job, p, reserve[job.rec][p], reserve[job.rec][p]))
    BY <1>3
  <2>2. Database /\ p \in Pools /\ reserve[job.rec][p] \in Nat
    BY <1>1, <2>1 DEF Jobs, StockInv, Database
  <2> DEFINE n == reserve[job.rec][p]
  <2> HIDE DEF job, n
  <2>3. Recorded(Returned(job, p, n, n))
    BY <1>1, <2>2, ReturnedRecorded DEF n
  <2> QED
    BY <2>1, <2>3, GoesRecorded DEF n
<1>4. QED
  BY <1>2, <1>3 DEF Release, GivenBack

LEMMA ScanRecorded ==
  ASSUME StockInv, AllRecorded, NEW t \in Tx, Scan(t)
  PROVE  AllRecorded'
<1> DEFINE job == tx[t]
           seen == IF job.op = "submit" THEN job.seen ELSE [p \in Pools |-> View(t, p)]
<1>1. job \in Jobs /\ Recorded(job) /\ job.at = "scan" /\ job.next \in 1 .. Len(job.parts)
  BY DEF StockInv, AllRecorded, Scan, Fits, Placed
<1>2. seen \in [Pools -> Row]
  <2>1. job.seen \in [Pools -> Row]
    BY <1>1 DEF Jobs
  <2>2. \A p \in Pools : pool[p] \in Row /\ job.delta[p] \in Int
    BY <1>1 DEF StockInv, Database, Jobs
  <2>3. \A p \in Pools : View(t, p) \in Row
    BY <2>2, ViewShows, ShowsRow
  <2> QED
    BY <2>1, <2>3
<1>3. Goes(t, Found(job, seen, job.parts[job.next]))
  BY DEF Scan
<1> HIDE DEF job, seen
<1>4. Recorded(Found(job, seen, job.parts[job.next]))
  BY <1>1, <1>2, FoundRecorded
<1> QED
  BY <1>3, <1>4, GoesRecorded

LEMMA ClaimRecorded ==
  ASSUME StockInv, AllRecorded, NEW t \in Tx, Claim(t)
  PROVE  AllRecorded'
<1> DEFINE job == tx[t]
           part == job.parts[job.next]
           amount(p) == IF part.lot = AnyLot THEN Wanted(job.seen[p], job.left) ELSE part.qty
<1>1. /\ job \in Jobs /\ Recorded(job) /\ Placed(job) /\ job.at = "claim"
      /\ job.next \in 1 .. Len(job.parts)
  BY DEF StockInv, AllRecorded, Claim, Fits, Placed
<1>2. part \in Part
  BY <1>1, SoundPart
<1>3. PICK p \in job.todo :
        \/ amount(p) > 0 /\ Goes(t, Took(job, part.rec, p, amount(p)))
        \/ Goes(t, Passed(job, p))
  BY DEF Claim
<1> DEFINE n == amount(p)
<1>4. p \in Pools /\ job.seen[p] \in Row /\ job.left \in Nat
  BY <1>1 DEF Jobs
<1>5. n \in Int /\ n <= job.left
  <2>1. CASE part.lot = AnyLot
    BY <1>4, <2>1 DEF Wanted, Row
  <2>2. CASE part.lot # AnyLot
    BY <1>1, <1>2, <2>2 DEF Placed, Part
  <2>3. QED
    BY <2>1, <2>2
<1>6. CASE Goes(t, Passed(job, p))
  <2>1. Recorded(Passed(job, p))
    BY <1>1, <1>4, PassedRecorded
  <2> QED
    BY <1>6, <2>1, GoesRecorded
<1>7. CASE n > 0 /\ Goes(t, Took(job, part.rec, p, n))
  <2> HIDE DEF n, job
  <2>1. n \in Nat /\ n <= job.left
    BY <1>5, <1>7
  <2>2. Recorded(Took(job, part.rec, p, n))
    BY <1>1, <1>3, <2>1, TookRecorded
  <2> QED
    BY <1>7, <2>2, GoesRecorded
<1>8. QED
  BY <1>3, <1>6, <1>7

LEMMA NextPartRecorded ==
  ASSUME StockInv, AllRecorded, NEW t \in Tx, NextPart(t)
  PROVE  AllRecorded'
<1>1. /\ tx[t] \in Jobs /\ Recorded(tx[t]) /\ tx[t].at = "claim" /\ tx[t].left = 0
      /\ tx[t].next \in 1 .. Len(tx[t].parts)
  BY DEF StockInv, AllRecorded, NextPart, Covered, Fits, Placed
<1>2. Recorded(CoveredPart(tx[t]))
  BY <1>1, CoveredRecorded
<1> QED
  BY <1>2, GoesRecorded DEF NextPart

(* A split's two parts are different rows.                                  *)
LEMMA SplitRecorded ==
  ASSUME StockInv, StockInv', AllRecorded, NEW t \in Tx, NEW r \in Records,
         NEW c \in Records, NEW d \in Records, NEW q, NEW l, NEW m, Split(t, r, c, d, q, l, m)
  PROVE  AllRecorded'
<1> DEFINE whole == rec[r].quantity
           parts == <<[rec |-> c, qty |-> q, lot |-> l], [rec |-> d, qty |-> whole - q, lot |-> m]>>
<1>1. Goes(t, Begun("split", "lock", r, whole, Unseen, parts))
  BY DEF Split
<1>2. DOMAIN parts = 1 .. 2 /\ parts[1].rec = c /\ parts[2].rec = d /\ c # d
  BY DEF Split
<1> HIDE DEF whole, parts
<1>3. Apart(parts)
  BY <1>2 DEF Apart
<1> QED
  BY <1>1, <1>3, BeginsRecorded

LEMMA NextRecorded ==
  ASSUME StockInv, StockInv', AllRecorded, [Next]_vars
  PROVE  AllRecorded'
<1>1. CASE UNCHANGED vars
  BY <1>1 DEF vars, AllRecorded, Recorded, Follows, Exact
<1>2. ASSUME NEW t \in Tx, NEW r \in Records, NEW q \in Quantities, Create(t, r, q)
      PROVE  AllRecorded'
  <2>1. \/ Goes(t, Begun("create", "commit", r, q, Unseen, <<>>))
        \/ Goes(t, Begun("create", "scan", r, q, Unseen, Whole(r, q)))
    BY <1>2 DEF Create
  <2>2. Apart(Whole(r, q)) /\ Apart(<<>>)
    BY WholeApart
  <2>3. CASE Goes(t, Begun("create", "commit", r, q, Unseen, <<>>))
    BY <2>2, <2>3, BeginsRecorded
  <2>4. CASE Goes(t, Begun("create", "scan", r, q, Unseen, Whole(r, q)))
    BY <2>2, <2>4, BeginsRecorded
  <2> QED
    BY <2>1, <2>3, <2>4
<1>3. ASSUME NEW t \in Tx, NEW r \in Records, Submit(t, r) PROVE AllRecorded'
  <2> DEFINE q == rec[r].quantity
  <2>1. Goes(t, Begun("submit", "lock", r, q, pool, Whole(r, q)))
    BY <1>3 DEF Submit
  <2> HIDE DEF q
  <2> QED
    BY <2>1, WholeApart, BeginsRecorded
<1>4. ASSUME NEW t \in Tx, NEW r \in Records, NEW q \in Quantities, NEW submits \in BOOLEAN,
             Update(t, r, q, submits)
      PROVE  AllRecorded'
  <2> DEFINE parts == IF submits THEN Whole(r, q) ELSE <<>>
  <2>1. Goes(t, Begun("update", "lock", r, q, Unseen, parts))
    BY <1>4 DEF Update
  <2>2. Apart(parts)
    BY WholeApart
  <2> HIDE DEF parts
  <2> QED
    BY <2>1, <2>2, BeginsRecorded
<1>5. ASSUME NEW t \in Tx, NEW r \in Records, Delete(t, r) PROVE AllRecorded'
  <2>1. Goes(t, Begun("delete", "lock", r, 0, Unseen, <<>>)) /\ Apart(<<>>)
    BY <1>5, WholeApart DEF Delete
  <2> QED
    BY <2>1, BeginsRecorded
<1>6. ASSUME NEW t \in Tx, NEW r \in Records, NEW c \in Records, NEW d \in Records,
             NEW q \in 1 .. rec[r].quantity - 1,
             NEW l \in Pools \cup {AnyLot}, NEW m \in Pools \cup {AnyLot},
             Split(t, r, c, d, q, l, m)
      PROVE  AllRecorded'
  BY <1>6, SplitRecorded
<1>7. ASSUME NEW t \in Tx, Lock(t) \/ Release(t) \/ Scan(t) \/ Claim(t) \/ NextPart(t)
      PROVE  AllRecorded'
  BY <1>7, LockRecorded, ReleaseRecorded, ScanRecorded, ClaimRecorded, NextPartRecorded
<1>8. ASSUME NEW t \in Tx, Commit(t) PROVE AllRecorded'
  <2>1. config' = config
        /\ tx' = [u \in Tx |-> IF u = t THEN Idle ELSE Overtaken(tx[u], tx[t].wrote)]
    BY <1>8 DEF Commit
  <2>2. \A u \in Tx : tx'[u] = Idle \/ tx'[u] = Overtaken(tx[u], tx[t].wrote)
    BY <2>1
  <2> QED
    BY <2>1, <2>2, WroteIsRows, OthersRecorded
<1>9. ASSUME NEW t \in Tx, Abort(t) PROVE AllRecorded'
  BY <1>9, IdleRecorded, GoesRecorded DEF Abort, Goes
<1>10. ASSUME NEW a \in Adjustments, Adjust(a[1], a[2]) PROVE AllRecorded'
  <2> DEFINE p == a[1]
  <2>1. config' = config /\ \A u \in Tx : tx'[u] = Overtaken(tx[u], {p})
    BY <1>10 DEF Adjust
  <2>2. {p} \in SUBSET (Pools \cup Records)
    BY StockAssumption
  <2> HIDE DEF p
  <2> QED
    BY <2>1, <2>2, OthersRecorded
<1>11. QED
  BY <1>1, <1>2, <1>3, <1>4, <1>5, <1>6, <1>7, <1>8, <1>9, <1>10 DEF Next

(* What commits with a request is the sum of what it commits.               *)
LEMMA CommitBalances ==
  ASSUME StockInv, StockInv', AllRecorded, Balanced, NEW t \in Tx, Commit(t)
  PROVE  Balanced'
<1>0. Exact' <=> Exact
  BY DEF Commit, Exact
<1> SUFFICES ASSUME NEW p \in Pools PROVE Follows(pool'[p].reserved, Total(Balance(p)'))
  BY <1>0 DEF Balanced, Follows
<1> DEFINE job == tx[t]
           before == Balance(p)
           after == Balance(p)'
           took == Column(job, p)
           gave == [r \in Records |-> IF r = job.rec THEN 0 - job.freed[p] ELSE 0]
           moved == [r \in Records |-> took[r] + gave[r]]
<1>1. /\ job \in Jobs /\ Recorded(job) /\ job.freed[p] \in Nat /\ job.delta[p] \in Int
      /\ pool[p] \in Row
  BY DEF StockInv, AllRecorded, Jobs, Database
<1>2. before \in [Records -> Int] /\ after \in [Records -> Int] /\ Total(before) \in Int
  <2>1. before \in [Records -> Int] /\ Total(before) \in Int
    BY Balances DEF StockInv
  <2>2. Database'
    BY DEF StockInv
  <2>3. \A r \in Records : reserve'[r][p] - cancel'[r][p] \in Int
    BY <2>2 DEF Database
  <2>4. after = [r \in Records |-> reserve'[r][p] - cancel'[r][p]]
    BY DEF Balance
  <2> QED
    BY <2>1, <2>3, <2>4
<1>3. took \in [Records -> Int] /\ Total(took) \in Int
  BY <1>1, Columns
<1>4. gave \in [Records -> Int] /\ Total(gave) = 0 - job.freed[p]
  <2>1. gave \in [Records -> Int]
    BY <1>1
  <2>2. CASE job.rec \in Records
    <3>1. gave[job.rec] = 0 - job.freed[p] /\ \A y \in Records \ {job.rec} : gave[y] = 0
      BY <2>2
    <3> HIDE DEF gave
    <3> QED
      BY <2>1, <2>2, <3>1, TotalSingle, ModelAssumption
  <2>3. CASE job.rec \notin Records
    <3>1. job.freed[p] = 0
      BY <1>1, <2>3 DEF Recorded
    <3>2. \A y \in Records : gave[y] = 0
      BY <2>3
    <3> HIDE DEF gave
    <3>3. Total(gave) = 0
      BY <2>1, <3>2, TotalZero, ModelAssumption
    <3> QED
      BY <2>1, <3>1, <3>3
  <2> QED
    BY <2>2, <2>3
<1>5. \A r \in Records : after[r] = before[r] + moved[r]
  <2> SUFFICES ASSUME NEW r \in Records PROVE after[r] = before[r] + moved[r]
    OBVIOUS
  <2>1. /\ reserve'[r][p] = reserve[r][p] + job.claims[r][p]
        /\ cancel'[r][p] = cancel[r][p] + (IF r = job.rec THEN job.freed[p] ELSE 0)
    BY DEF Commit
  <2>2. reserve[r][p] \in Int /\ cancel[r][p] \in Int /\ job.claims[r][p] \in Int /\ job.freed[p] \in Int
    BY <1>1 DEF StockInv, Database, Jobs
  <2>3. after[r] = reserve'[r][p] - cancel'[r][p] /\ before[r] = reserve[r][p] - cancel[r][p]
    BY DEF Balance
  <2>4. moved[r] = job.claims[r][p] + (IF r = job.rec THEN 0 - job.freed[p] ELSE 0)
    BY DEF Column
  <2> HIDE DEF after, before, moved
  <2>5. CASE r = job.rec
    BY <2>1, <2>2, <2>3, <2>4, <2>5
  <2>6. CASE r # job.rec
    BY <2>1, <2>2, <2>3, <2>4, <2>6
  <2> QED
    BY <2>5, <2>6
<1> HIDE DEF before, after, took, gave
<1>6. moved \in [Records -> Int] /\ \A r \in Records : moved[r] = took[r] + gave[r]
  BY <1>3, <1>4
<1> HIDE DEF moved
<1>7. Total(after) = Total(before) + Total(moved) /\ Total(moved) = Total(took) + Total(gave)
  BY <1>2, <1>3, <1>4, <1>5, <1>6, TotalPlus, ModelAssumption
<1>8. pool'[p].reserved = pool[p].reserved + job.delta[p]
  <2>1. pool'[p] = View(t, p)
    BY DEF Commit
  <2> QED
    BY <2>1 DEF View
<1>9. /\ Follows(pool[p].reserved, Total(before)) /\ pool[p].reserved \in Int
      /\ Follows(job.delta[p], Total(took) - job.freed[p])
  BY <1>1 DEF Balanced, Recorded, before, took, Row
<1>10. Follows(pool'[p].reserved, Total(after))
  BY <1>1, <1>2, <1>3, <1>4, <1>7, <1>8, <1>9 DEF Follows
<1> QED
  BY <1>10 DEF after

LEMMA NextBalances ==
  ASSUME StockInv, StockInv', AllRecorded, Balanced, [Next]_vars
  PROVE  Balanced'
<1>1. CASE \E t \in Tx : Commit(t)
  BY <1>1, CommitBalances
<1>2. CASE \E a \in Adjustments : Adjust(a[1], a[2])
  <2>1. PICK p \in Pools, n \in Int : Adjust(p, n)
    BY <1>2, StockAssumption
  <2>2. /\ config' = config /\ reserve' = reserve /\ cancel' = cancel
        /\ pool' = [pool EXCEPT ![p].quantity = @ + n]
    BY <2>1 DEF Adjust
  <2>3. \A x \in Pools : pool'[x].reserved = pool[x].reserved
    BY <2>2 DEF StockInv, Database, Row
  <2> QED
    BY <2>2, <2>3 DEF Balanced, Balance, Follows, Exact
<1> DEFINE still == config' = config /\ pool' = pool /\ reserve' = reserve /\ cancel' = cancel
<1>3. CASE still
  BY <1>3 DEF Balanced, Balance, Follows, Exact
<1>4. /\ \A t, r, q : Create(t, r, q) => still
      /\ \A t, r : Submit(t, r) \/ Delete(t, r) => still
      /\ \A t, r, q, s : Update(t, r, q, s) => still
      /\ \A t, r, c, d, q, l, m : Split(t, r, c, d, q, l, m) => still
  BY DEF Goes, Create, Submit, Update, Delete, Split
<1>5. ASSUME NEW t \in Tx,
             Lock(t) \/ Release(t) \/ Scan(t) \/ Claim(t) \/ NextPart(t) \/ Abort(t)
      PROVE  still
  BY <1>5 DEF Goes, Lock, Release, Scan, Claim, NextPart, Abort
<1>6. UNCHANGED vars => still
  BY DEF vars
<1> HIDE DEF still
<1>7. \/ still
      \/ \E t \in Tx : Commit(t)
      \/ \E a \in Adjustments : Adjust(a[1], a[2])
  BY <1>4, <1>5, <1>6 DEF Next
<1> QED
  BY <1>1, <1>2, <1>3, <1>7 DEF still

LEMMA InitBooks == ASSUME Init PROVE BookInv
<1>1. AllRecorded
  <2>1. \A t \in Tx : tx[t] = Idle
    BY DEF Init
  <2> QED
    BY <2>1, IdleRecorded DEF AllRecorded
<1>2. Balanced
  <2> SUFFICES ASSUME NEW p \in Pools PROVE pool[p].reserved = 0 /\ Total(Balance(p)) = 0
    BY DEF Balanced, Follows
  <2>1. Database
    BY InitStock DEF StockInv
  <2>2. \A r \in Records : Balance(p)[r] = 0
    BY DEF Init, Balance, Nothing
  <2>3. Balance(p) \in [Records -> Int]
    BY <2>1, Balances
  <2>4. Total(Balance(p)) = 0
    BY <2>2, <2>3, TotalZero, ModelAssumption
  <2> QED
    BY <2>4 DEF Init
<1> QED
  BY <1>1, <1>2 DEF BookInv

LEMMA BooksInvariant == Spec => [](StockInv /\ BookInv)
<1>1. Init => StockInv /\ BookInv
  BY InitStock, InitBooks
<1>2. StockInv /\ BookInv /\ [Next]_vars => (StockInv /\ BookInv)'
  BY NextStock, NextRecorded, NextBalances DEF BookInv
<1> QED
  BY <1>1, <1>2, PTL DEF Spec

(* A pool row's reserved quantity is at every moment the sum of the ledger or  *)
(* allocation rows that explain it, for any number of rows and requests, as   *)
(* long as the tuple of each ledger row selects one pool row: what a request  *)
(* moved commits with the rows it wrote down for it, or not at all            *)
(* (ledger_write_stub.ts.jinja2; generators.py:1786-1860).  Where a null lot,  *)
(* expiration or bin makes a split give back to several rows                  *)
(* (split_action_route.ts.jinja2:194-204), it is never more than that sum.     *)
THEOREM ReservedIsSum == Spec => []CacheIsSum
<1>1. StockInv /\ BookInv => CacheIsSum
  <2> SUFFICES ASSUME StockInv, BookInv, NEW p \in Pools
               PROVE  LET sum == MapThenSumSet(LAMBDA r : reserve[r][p] - cancel[r][p], Records)
                      IN  pool[p].reserved <= sum /\ (Exact => pool[p].reserved = sum)
    BY DEF CacheIsSum
  <2>1. MapThenSumSet(LAMBDA r : reserve[r][p] - cancel[r][p], Records) = Total(Balance(p))
    BY BalanceIsSum DEF StockInv
  <2>2. Follows(pool[p].reserved, Total(Balance(p)))
    BY DEF BookInv, Balanced
  <2> HIDE DEF Total, Balance
  <2> QED
    BY <2>1, <2>2 DEF Follows
<1> QED
  BY <1>1, BooksInvariant, PTL

-----------------------------------------------------------------------------
(* What is promised is no more than what is reserved. *)

(* A sum of larger values is larger.                                        *)
LEMMA TotalMonotone ==
  ASSUME NEW S, IsFiniteSet(S), NEW f \in [S -> Int], NEW h \in [S -> Int],
         \A x \in S : f[x] <= h[x]
  PROVE  Total(f) <= Total(h)
<1>1. PICK g \in [SUBSET S -> Int] : IsSum(g, f, S) /\ AnyFirst(g, f, S) /\ Total(f) = g[S]
  BY SumsExist
<1>2. PICK k \in [SUBSET S -> Int] : IsSum(k, h, S) /\ AnyFirst(k, h, S) /\ Total(h) = k[S]
  BY SumsExist
<1> DEFINE T == {A \in SUBSET S : g[A] <= k[A]}
<1>3. {} \in T
  BY <1>1, <1>2 DEF AnyFirst
<1>4. ASSUME NEW A \in SUBSET S, A # {}, \A x \in A : A \ {x} \in T
      PROVE  A \in T
  <2>1. PICK x \in A : TRUE
    BY <1>4
  <2>2. /\ g[A] = f[x] + g[A \ {x}] /\ k[A] = h[x] + k[A \ {x}]
        /\ g[A \ {x}] <= k[A \ {x}] /\ f[x] <= h[x]
    BY <1>1, <1>2, <1>4, <2>1 DEF AnyFirst
  <2>3. /\ f[x] \in Int /\ h[x] \in Int /\ g[A \ {x}] \in Int /\ k[A \ {x}] \in Int
    BY <1>1, <1>2
  <2> QED
    BY <2>2, <2>3
<1>5. SUBSET S \subseteq T
  <2> HIDE DEF T
  <2> QED
    BY <1>3, <1>4, SubsetInduct
<1> QED
  BY <1>1, <1>2, <1>5

Stands(p) == [r \in Records |-> Standing(r, p)]

LEMMA PromisedIsSum ==
  ASSUME Database, NEW p \in Pools
  PROVE  Stands(p) \in [Records -> Int] /\ Promised(p) = Total(Stands(p))
<1> DEFINE f == Stands(p)
           sums(g) == g = [A \in SUBSET Records |->
                             IF A = {} THEN 0 ELSE LET x == CHOOSE x \in A : TRUE
                                                   IN  Standing(x, p) + g[A \ {x}]]
           k == CHOOSE g : sums(g)
<1>1. Promised(p) = k[Records]
  BY DEF Promised, MapThenSumSet, MapThenFoldSet
<1>2. ASSUME NEW g PROVE sums(g) <=> IsSum(g, f, Records)
  <2>1. ASSUME NEW A \in SUBSET Records, A # {}
        PROVE  f[Pick(A)] = Standing(Pick(A), p)
    BY <2>1, PickIsMember DEF Stands
  <2> HIDE DEF f
  <2>2. [A \in SUBSET Records |-> IF A = {} THEN 0 ELSE f[Pick(A)] + g[A \ {Pick(A)}]]
        = [A \in SUBSET Records |-> IF A = {} THEN 0 ELSE Standing(Pick(A), p) + g[A \ {Pick(A)}]]
    BY <2>1
  <2>3. sums(g) <=> g = [A \in SUBSET Records |-> IF A = {} THEN 0
                           ELSE Standing(Pick(A), p) + g[A \ {Pick(A)}]]
    BY DEF Pick
  <2> HIDE DEF sums
  <2> QED
    BY <2>2, <2>3 DEF IsSum
<1> HIDE DEF sums
<1>3. f \in [Records -> Int] /\ IsFiniteSet(Records)
  <2>1. \A r \in Records : Standing(r, p) \in Int
    BY DEF Database, Standing
  <2> QED
    BY <2>1, ModelAssumption DEF Stands
<1> HIDE DEF f
<1>4. \E g : sums(g)
  BY <1>2, <1>3, SumExists
<1>5. IsSum(k, f, Records)
  BY <1>2, <1>4
<1> HIDE DEF k
<1>6. Total(f) = k[Records]
  BY <1>3, <1>5, TotalOf
<1> QED
  BY <1>1, <1>3, <1>6 DEF f

(* Of a ledger each of whose rows is taken back once at most, what still      *)
(* stands is no more than the balance.                                      *)
LEMMA PromisedIsReserved ==
  ASSUME Database, Balanced, Exact, SplitOnce, NEW p \in Pools
  PROVE  Promised(p) <= pool[p].reserved
<1>1. Stands(p) \in [Records -> Int] /\ Promised(p) = Total(Stands(p))
  BY PromisedIsSum
<1>2. Balance(p) \in [Records -> Int] /\ Total(Balance(p)) \in Int
  BY Balances
<1>3. \A r \in Records : Stands(p)[r] <= Balance(p)[r]
  <2> SUFFICES ASSUME NEW r \in Records PROVE Standing(r, p) <= reserve[r][p] - cancel[r][p]
    BY DEF Stands, Balance
  <2>1. reserve[r][p] \in Nat /\ cancel[r][p] \in Nat /\ cancel[r][p] <= reserve[r][p]
    BY DEF Database, SplitOnce
  <2> QED
    BY <2>1 DEF Standing
<1>4. pool[p].reserved = Total(Balance(p))
  BY DEF Balanced, Follows
<1> DEFINE f == Stands(p)
           h == Balance(p)
<1> HIDE DEF f, h
<1>5. Total(f) <= Total(h)
  <2>1. f \in [Records -> Int] /\ h \in [Records -> Int] /\ \A r \in Records : f[r] <= h[r]
    BY <1>1, <1>2, <1>3 DEF f, h
  <2> QED
    BY <2>1, TotalMonotone, ModelAssumption
<1> QED
  BY <1>1, <1>4, <1>5 DEF f, h

(* However many requests overlap, and whatever corrections take away or add  *)
(* in between, under both strategies and at both isolation levels: a counted *)
(* row never falls below zero, and a ledger's rows, none of them split twice *)
(* and each of one pool row, never promise more of a pool row than there has *)
(* been of it (generators.py:1797-1801, 2416-2422; ledger_adjust_stub).       *)
THEOREM StockHolds == Spec => []NeverOverbooked
<1>1. StockInv /\ BookInv => NeverOverbooked
  <2> SUFFICES ASSUME StockInv, BookInv, NEW p \in Pools
               PROVE  IF Counted THEN pool[p].quantity >= 0
                      ELSE Exact /\ SplitOnce => Promised(p) <= peak[p]
    BY DEF NeverOverbooked
  <2>1. CASE Counted
    BY <2>1 DEF StockInv, PoolsSound, Sound
  <2>2. CASE ~Counted
    <3> SUFFICES ASSUME Exact, SplitOnce PROVE Promised(p) <= peak[p]
      BY <2>2
    <3>1. Promised(p) <= pool[p].reserved
      BY PromisedIsReserved DEF StockInv, BookInv
    <3>2. pool[p].reserved <= peak[p] /\ pool[p].reserved \in Int /\ peak[p] \in Int
      BY <2>2 DEF StockInv, PoolsSound, Sound, Database, Row
    <3>3. Promised(p) \in Int
      BY PromisedIsSum, TotalType, ModelAssumption DEF StockInv
    <3> QED
      BY <3>1, <3>2, <3>3
  <2> QED
    BY <2>1, <2>2
<1> QED
  BY <1>1, BooksInvariant, PTL

-----------------------------------------------------------------------------
(* Stock claimed with the create. *)

Taken(job) == {job.parts[i].rec : i \in DOMAIN job.parts}

(* A request when nothing waits for approval: a create claims for its own    *)
(* row, a split for new rows of a row that holds stock.                     *)
Claims(job, rows) ==
  /\ job.op \in {"none", "create", "split"}
  /\ job.op = "none" => job.at = "begin"
  /\ job.op = "create" => job.at # "lock" /\ job.rec \in Records /\ job.parts = Whole(job.rec, job.qty)
  /\ job.op = "split" => job.rec \in Records /\ rows[job.rec].state \in {"held", "split"}
  /\ \A r \in Taken(job) : rows[r].state = "absent"

Holds(r) ==
  /\ rec[r].state \in {"absent", "held", "split"}
  /\ Total(reserve[r]) = IF Allocated(r) THEN rec[r].quantity ELSE 0

NoneTwice == \A t, u \in Tx : t # u => Taken(tx[t]) \cap Taken(tx[u]) = {}

HoldInv ==
  ~config.atSubmit =>
    /\ \A r \in Records : Holds(r)
    /\ \A t \in Tx : Claims(tx[t], rec)
    /\ NoneTwice

LEMMA TakenIsRequested == \A t : Requested(t) = Taken(tx[t])
BY DEF Requested, Taken

LEMMA IdleClaims == Claims(Idle, rec) /\ Taken(Idle) = {}
BY DEF Claims, Taken, Idle, Begun

LEMMA GoesHolds ==
  ASSUME StockInv, HoldInv, ~config.atSubmit, NEW t \in Tx, NEW job, Goes(t, job), Claims(job, rec),
         \A u \in Tx \ {t} : Taken(job) \cap Taken(tx[u]) = {}
  PROVE  HoldInv'
<1>1. tx'[t] = job /\ \A u \in Tx \ {t} : tx'[u] = tx[u]
  BY DEF Goes, StockInv
<1>2. \A u \in Tx : Claims(tx'[u], rec)
  BY <1>1 DEF HoldInv
<1>3. \A u, v \in Tx : u # v => Taken(tx'[u]) \cap Taken(tx'[v]) = {}
  <2> SUFFICES ASSUME NEW u \in Tx, NEW v \in Tx, u # v PROVE Taken(tx'[u]) \cap Taken(tx'[v]) = {}
    OBVIOUS
  <2>1. Taken(tx[u]) \cap Taken(tx[v]) = {}
    BY DEF HoldInv, NoneTwice
  <2>2. CASE u = t
    <3>1. Taken(job) \cap Taken(tx[v]) = {}
      BY <2>2
    <3> QED
      BY <1>1, <2>2, <3>1
  <2>3. CASE v = t
    <3>1. Taken(job) \cap Taken(tx[u]) = {}
      BY <2>3
    <3> QED
      BY <1>1, <2>3, <3>1
  <2>4. CASE u # t /\ v # t
    BY <1>1, <2>1, <2>4
  <2> QED
    BY <2>2, <2>3, <2>4
<1>4. \A r \in Records : Holds(r)'
  BY DEF HoldInv, Holds, Allocated, Goes
<1>5. rec' = rec /\ config' = config
  BY DEF Goes
<1> QED
  BY <1>2, <1>3, <1>4, <1>5 DEF HoldInv, NoneTwice

(* A statement in the middle of a request that has begun.                   *)
LEMMA SameClaimant ==
  ASSUME StockInv, HoldInv, ~config.atSubmit, NEW t \in Tx, NEW job, Goes(t, job),
         tx[t].at # "begin", job.at # "lock",
         job.op = tx[t].op, job.rec = tx[t].rec, job.qty = tx[t].qty, job.parts = tx[t].parts
  PROVE  HoldInv'
<1>1. Claims(tx[t], rec) /\ \A u \in Tx \ {t} : Taken(tx[t]) \cap Taken(tx[u]) = {}
  BY DEF HoldInv, NoneTwice
<1>2. Taken(job) = Taken(tx[t])
  BY DEF Taken
<1>3. Claims(job, rec)
  BY <1>1, <1>2 DEF Claims
<1> QED
  BY <1>1, <1>2, <1>3, GoesHolds

LEMMA BegunFields ==
  \A op, at, r, q, seen, parts :
    LET job == Begun(op, at, r, q, seen, parts)
    IN  job.op = op /\ job.at = at /\ job.rec = r /\ job.qty = q /\ job.parts = parts
BY DEF Begun

LEMMA CreateHolds ==
  ASSUME StockInv, HoldInv, ~config.atSubmit, NEW t \in Tx, NEW r \in Records, NEW q \in Quantities,
         Create(t, r, q)
  PROVE  HoldInv'
<1> DEFINE job == Begun("create", "scan", r, q, Unseen, Whole(r, q))
<1>1. Goes(t, job) /\ Fresh(r)
  BY DEF Create
<1>2. job.op = "create" /\ job.at = "scan" /\ job.rec = r /\ job.qty = q /\ job.parts = Whole(r, q)
  BY BegunFields
<1> HIDE DEF job
<1>3. Taken(job) = {r}
  BY <1>2 DEF Taken, Whole
<1>4. Claims(job, rec) /\ \A u \in Tx \ {t} : Taken(job) \cap Taken(tx[u]) = {}
  BY <1>1, <1>2, <1>3, TakenIsRequested DEF Claims, Fresh
<1> QED
  BY <1>1, <1>4, GoesHolds

LEMMA SplitHolds ==
  ASSUME StockInv, HoldInv, ~config.atSubmit, NEW t \in Tx, NEW r \in Records,
         NEW c \in Records, NEW d \in Records, NEW q, NEW l, NEW m, Split(t, r, c, d, q, l, m)
  PROVE  HoldInv'
<1> DEFINE whole == rec[r].quantity
           parts == <<[rec |-> c, qty |-> q, lot |-> l], [rec |-> d, qty |-> whole - q, lot |-> m]>>
           job == Begun("split", "lock", r, whole, Unseen, parts)
<1>1. Goes(t, job) /\ Fresh(c) /\ Fresh(d) /\ rec[r].state = "held"
  BY DEF Split
<1>2. DOMAIN parts = {1, 2} /\ parts[1].rec = c /\ parts[2].rec = d
  OBVIOUS
<1> HIDE DEF whole, parts
<1>3. job.op = "split" /\ job.at = "lock" /\ job.rec = r /\ job.parts = parts
  BY BegunFields
<1> HIDE DEF job
<1>4. Taken(job) = {c, d}
  BY <1>2, <1>3 DEF Taken
<1>5. Claims(job, rec) /\ \A u \in Tx \ {t} : Taken(job) \cap Taken(tx[u]) = {}
  BY <1>1, <1>3, <1>4, TakenIsRequested DEF Claims, Fresh
<1> QED
  BY <1>1, <1>5, GoesHolds

(* A row that exists holds stock, so nothing edits its quantity or deletes it. *)
LEMMA NoEdit ==
  ASSUME StockInv, HoldInv, ~config.atSubmit, NEW t \in Tx, NEW r \in Records
  PROVE  /\ ~Submit(t, r) /\ ~Delete(t, r)
         /\ \A q, submits : ~Update(t, r, q, submits)
<1>1. rec[r].state \in {"absent", "held", "split"}
  BY DEF HoldInv, Holds
<1> QED
  BY <1>1 DEF Submit, Delete, Update, DeleteAllowed, UpdateAllowed, Allocated

LEMMA LockHolds ==
  ASSUME StockInv, HoldInv, ~config.atSubmit, NEW t \in Tx, Lock(t)
  PROVE  HoldInv'
<1> DEFINE job == tx[t]
           r == job.rec
           new == Holding(job, r, "release", job.parts, ReserveRows(r))
<1>1. job \in Jobs /\ Claims(job, rec) /\ job.at = "lock"
  BY DEF StockInv, HoldInv, Lock
<1>2. job.op = "split"
  BY <1>1 DEF Claims
<1>3. Goes(t, new)
  BY <1>2 DEF Lock
<1>4. new.op = job.op /\ new.rec = job.rec /\ new.qty = job.qty /\ new.parts = job.parts /\ new.at = "release"
  BY <1>1 DEF Holding, Jobs
<1> HIDE DEF new
<1> QED
  BY <1>1, <1>3, <1>4, SameClaimant

LEMMA StatementHolds ==
  ASSUME StockInv, HoldInv, ~config.atSubmit, NEW t \in Tx,
         Release(t) \/ Scan(t) \/ Claim(t) \/ NextPart(t)
  PROVE  HoldInv'
<1> DEFINE job == tx[t]
           same(new) == /\ new.op = job.op /\ new.rec = job.rec /\ new.qty = job.qty
                        /\ new.parts = job.parts /\ new.at # "lock"
<1>1. job \in Jobs
  BY DEF StockInv
<1>2. CASE Release(t)
  <2>1. job.at = "release" /\ same(Scanning(job))
    BY <1>1, <1>2 DEF Release, Scanning, Jobs
  <2>2. \A p, n, row : same(Returned(job, p, n, row))
    BY <1>1, <2>1 DEF Returned, Jobs
  <2> QED
    BY <1>2, <2>1, <2>2, SameClaimant DEF Release
<1>3. CASE Scan(t)
  <2>1. job.at = "scan" /\ \A seen, part : same(Found(job, seen, part))
    BY <1>1, <1>3 DEF Scan, Found, Jobs
  <2> QED
    BY <1>3, <2>1, SameClaimant DEF Scan
<1>4. CASE Claim(t)
  <2>1. job.at = "claim"
    BY <1>4 DEF Claim
  <2>2. (\A x, p, n : same(Took(job, x, p, n))) /\ \A p : same(Passed(job, p))
    BY <1>1, <2>1 DEF Took, Passed, Jobs
  <2>3. (\E x, p, n : Goes(t, Took(job, x, p, n))) \/ (\E p : Goes(t, Passed(job, p)))
    BY <1>4 DEF Claim
  <2> QED
    BY <2>1, <2>2, <2>3, SameClaimant
<1>5. CASE NextPart(t)
  <2>1. job.at = "claim"
    BY <1>5 DEF NextPart
  <2>2. same(CoveredPart(job))
    <3>1. PICK place \in {"scan", "commit"} :
          place = IF job.next = Len(job.parts) THEN "commit" ELSE "scan"
      OBVIOUS
    <3>2. CoveredPart(job) = [job EXCEPT !.next = job.next + 1, !.todo = {}, !.seen = Unseen, !.at = place]
      BY <3>1 DEF CoveredPart
    <3> QED
      BY <1>1, <3>2 DEF Jobs
  <2> QED
    BY <1>5, <2>1, <2>2, SameClaimant DEF NextPart
<1> QED
  BY <1>2, <1>3, <1>4, <1>5

LEMMA OvertakenClaims ==
  ASSUME NEW job \in Jobs, NEW rows \in SUBSET (Pools \cup Records), NEW state
  PROVE  /\ Claims(Overtaken(job, rows), state) <=> Claims(job, state)
         /\ Taken(Overtaken(job, rows)) = Taken(job)
<1> DEFINE new == Overtaken(job, rows)
<1>1. /\ new.op = job.op /\ new.rec = job.rec /\ new.at = job.at /\ new.parts = job.parts
      /\ new.qty = job.qty
  BY OvertakenIsJob DEF Overtaken, Jobs
<1> HIDE DEF new
<1>2. Taken(new) = Taken(job)
  BY <1>1 DEF Taken
<1>3. Claims(new, state) <=> Claims(job, state)
  BY <1>1, <1>2 DEF Claims
<1> QED
  BY <1>2, <1>3 DEF new

(* The requests that remain, or stop, after a step that overtakes them.     *)
LEMMA OthersClaim ==
  ASSUME StockInv, HoldInv, ~config.atSubmit, NEW rows \in SUBSET (Pools \cup Records), NEW state,
         NEW S \in SUBSET Tx, \A u \in Tx : tx'[u] = IF u \in S THEN Idle ELSE Overtaken(tx[u], rows),
         \A u \in Tx \ S : Claims(tx[u], state)
  PROVE  (\A u \in Tx : Claims(tx'[u], state)) /\ NoneTwice'
<1>1. \A u \in Tx : tx[u] \in Jobs
  BY DEF StockInv
<1>2. \A u \in Tx : Claims(tx'[u], state)
  <2>1. Claims(Idle, state)
    BY DEF Claims, Taken, Idle, Begun
  <2> QED
    BY <1>1, <2>1, OvertakenClaims
<1>3. \A u \in Tx : Taken(tx'[u]) \subseteq Taken(tx[u])
  BY <1>1, OvertakenClaims, IdleClaims
<1>4. NoneTwice
  BY DEF HoldInv
<1>5. \A u, v \in Tx : u # v => Taken(tx'[u]) \cap Taken(tx'[v]) = {}
  BY <1>3, <1>4 DEF NoneTwice
<1> QED
  BY <1>2, <1>5 DEF NoneTwice

LEMMA AbortHolds ==
  ASSUME StockInv, HoldInv, ~config.atSubmit, NEW t \in Tx, Abort(t)
  PROVE  HoldInv'
<1>1. Goes(t, Idle)
  BY DEF Abort, Goes
<1> QED
  BY <1>1, IdleClaims, GoesHolds

LEMMA AdjustHolds ==
  ASSUME StockInv, HoldInv, ~config.atSubmit, NEW p \in Pools, NEW n, Adjust(p, n)
  PROVE  HoldInv'
<1>1. /\ \A u \in Tx : tx'[u] = Overtaken(tx[u], {p})
      /\ rec' = rec /\ reserve' = reserve /\ config' = config
  BY DEF Adjust
<1>2. \A u \in Tx \ {} : Claims(tx[u], rec)
  BY DEF HoldInv
<1>3. \A u \in Tx : tx'[u] = IF u \in {} THEN Idle ELSE Overtaken(tx[u], {p})
  BY <1>1
<1>4. {p} \in SUBSET (Pools \cup Records) /\ {} \in SUBSET Tx
  OBVIOUS
<1>5. (\A u \in Tx : Claims(tx'[u], rec)) /\ NoneTwice'
  BY <1>2, <1>3, <1>4, OthersClaim
<1>6. \A r \in Records : Holds(r)'
  BY <1>1 DEF HoldInv, Holds, Allocated
<1> QED
  BY <1>1, <1>5, <1>6 DEF HoldInv

(* What a commit makes of the states, when nothing waits for approval.      *)
LEMMA StatesAfter ==
  ASSUME StockInv, HoldInv, ~config.atSubmit, NEW t \in Tx, tx[t].at = "commit", NEW r \in Records
  PROVE  RowAfter(t, r).state =
           IF r \in Taken(tx[t]) THEN "held"
           ELSE IF r = tx[t].rec THEN "split" ELSE rec[r].state
<1>1. Claims(tx[t], rec)
  BY DEF HoldInv
<1>2. tx[t].op \in {"create", "split"}
  BY <1>1 DEF Claims
<1>3. tx[t].op = "create" => tx[t].rec \in Taken(tx[t])
  BY <1>1 DEF Claims, Taken, Whole
<1> QED
  BY <1>2, <1>3, TakenIsRequested DEF RowAfter

LEMMA QuantityAfter ==
  ASSUME NEW t \in Tx, NEW r \in Records
  PROVE  RowAfter(t, r).quantity =
           IF r \in Taken(tx[t]) /\ r # tx[t].rec THEN Asked(t, r)
           ELSE IF r = tx[t].rec /\ tx[t].op \in {"create", "update"} THEN tx[t].qty
           ELSE rec[r].quantity
BY TakenIsRequested DEF RowAfter

LEMMA CommitHolds ==
  ASSUME StockInv, AllRecorded, HoldInv, ~config.atSubmit, NEW t \in Tx, Commit(t)
  PROVE  HoldInv'
<1> DEFINE job == tx[t]
<1>1. /\ job \in Jobs /\ Recorded(job) /\ job.at = "commit" /\ Claims(job, rec)
      /\ config' = config /\ job.wrote \in SUBSET (Pools \cup Records)
  BY WroteIsRows DEF StockInv, AllRecorded, HoldInv, Commit
<1>2. \A u \in Tx : tx'[u] = IF u \in {t} THEN Idle ELSE Overtaken(tx[u], job.wrote)
  BY DEF Commit
<1>3. /\ \A r \in Records : rec'[r] = RowAfter(t, r)
      /\ \A r \in Records : rec'[r].state =
           IF r \in Taken(job) THEN "held" ELSE IF r = job.rec THEN "split" ELSE rec[r].state
  BY <1>1, StatesAfter DEF Commit
<1>4. job.rec \in Records /\ (job.rec \in Taken(job) \/ rec[job.rec].state \in {"held", "split"})
  BY <1>1 DEF Claims, Taken, Whole
<1>5. ASSUME NEW u \in Tx \ {t} PROVE Claims(tx[u], rec')
  <2>1. Claims(tx[u], rec) /\ Taken(tx[u]) \cap Taken(job) = {} /\ tx[u] \in Jobs
    BY DEF HoldInv, NoneTwice, StockInv
  <2>2. Taken(tx[u]) \subseteq Records
    <3>1. tx[u].parts \in Seq(Part)
      BY <2>1 DEF Jobs
    <3>2. \A i \in DOMAIN tx[u].parts : tx[u].parts[i] \in Part
      BY <3>1
    <3> QED
      BY <3>2 DEF Taken, Part
  <2>3. \A r \in Taken(tx[u]) : rec[r].state = "absent"
    BY <2>1 DEF Claims
  <2>4. ASSUME NEW r \in Taken(tx[u]) PROVE rec'[r].state = "absent"
    BY <1>3, <1>4, <2>1, <2>2, <2>3
  <2>5. tx[u].op = "split" => rec'[tx[u].rec].state \in {"held", "split"}
    BY <1>3, <2>1 DEF Claims
  <2> QED
    BY <2>1, <2>4, <2>5 DEF Claims
<1>6. (\A u \in Tx : Claims(tx'[u], rec')) /\ NoneTwice'
  <2> DEFINE rows == job.wrote
             state == rec'
  <2>1. rows \in SUBSET (Pools \cup Records) /\ {t} \in SUBSET Tx
    BY <1>1
  <2>2. \A u \in Tx : tx'[u] = IF u \in {t} THEN Idle ELSE Overtaken(tx[u], rows)
    BY <1>2
  <2>3. \A u \in Tx \ {t} : Claims(tx[u], state)
    BY <1>5
  <2> HIDE DEF rows, state
  <2>4. (\A u \in Tx : Claims(tx'[u], state)) /\ NoneTwice'
    BY <2>1, <2>2, <2>3, OthersClaim
  <2> QED
    BY <2>4 DEF state
<1>7. ASSUME NEW r \in Records PROVE Holds(r)'
  <2> DEFINE f == reserve[r]
             c == job.claims[r]
             e == reserve'[r]
  <2>1. Holds(r) /\ f \in [Pools -> Int] /\ c \in [Pools -> Int] /\ e \in [Pools -> Int]
        /\ \A p \in Pools : e[p] = f[p] + c[p]
    <3>1. f \in [Pools -> Nat] /\ c \in [Pools -> Nat]
      BY <1>1 DEF StockInv, Database, Jobs
    <3>2. e = [p \in Pools |-> f[p] + c[p]]
      BY DEF Commit
    <3> HIDE DEF f, c, e
    <3>3. e \in [Pools -> Int] /\ \A p \in Pools : e[p] = f[p] + c[p]
      BY <3>1, <3>2
    <3>4. Holds(r)
      BY DEF HoldInv
    <3> QED
      BY <3>1, <3>3, <3>4
  <2>2. Total(e) = Total(f) + Total(c) /\ Total(f) \in Int /\ Total(c) \in Int
    <3> HIDE DEF f, c, e
    <3>1. /\ IsFiniteSet(Pools) /\ f \in [Pools -> Int] /\ c \in [Pools -> Int] /\ e \in [Pools -> Int]
          /\ \A p \in Pools : e[p] = f[p] + c[p]
      BY <2>1, ModelAssumption
    <3>2. Total(e) = Total(f) + Total(c)
      BY <3>1, TotalPlus
    <3> QED
      BY <3>1, <3>2, TotalType
  <2>3. Total(f) = IF rec[r].state \in {"held", "split"} THEN rec[r].quantity ELSE 0
    BY <2>1 DEF Holds, Allocated
  <2>4. CASE r \in Taken(job)
    <3>1. PICK i \in DOMAIN job.parts : job.parts[i].rec = r
      BY <2>4 DEF Taken
    <3>2. rec[r].state = "absent" /\ rec'[r].state = "held"
      BY <1>1, <1>3, <2>4 DEF Claims
    <3>3. Total(c) = job.parts[i].qty
      <4>1. Owed(job, i) /\ i \in 1 .. Len(job.parts) /\ Len(job.parts) < job.next
            /\ job.next \in Nat
        BY <1>1, <3>1 DEF Recorded, Jobs
      <4>2. i < job.next
        BY <4>1
      <4> QED
        BY <3>1, <4>1, <4>2 DEF Owed
    <3>4. Asked(t, r) = job.parts[i].qty
      <4>1. \A j \in DOMAIN job.parts : job.parts[j].rec = r => j = i
        BY <1>1, <3>1 DEF Recorded, Apart
      <4>2. (CHOOSE j \in DOMAIN job.parts : job.parts[j].rec = r) = i
        BY <3>1, <4>1
      <4> QED
        BY <4>2 DEF Asked
    <3>5. rec'[r].quantity = job.parts[i].qty
      <4>1. CASE job.op = "create"
        <5>1. job.parts = Whole(job.rec, job.qty)
          BY <1>1, <4>1 DEF Claims
        <5>2. i = 1 /\ job.parts[i].rec = job.rec /\ job.parts[i].qty = job.qty
          BY <3>1, <5>1 DEF Whole
        <5>3. r = job.rec
          BY <3>1, <5>2
        <5> QED
          BY <1>3, <4>1, <5>2, <5>3, QuantityAfter
      <4>2. CASE job.op = "split"
        <5>1. r # job.rec
          BY <1>1, <3>2, <4>2 DEF Claims
        <5> QED
          BY <1>3, <2>4, <3>4, <5>1, QuantityAfter
      <4> QED
        BY <1>1, <4>1, <4>2 DEF Claims
    <3>6. Total(e) = rec'[r].quantity
      BY <2>2, <2>3, <3>2, <3>3, <3>5
    <3> QED
      BY <3>2, <3>6 DEF Holds, Allocated
  <2>5. CASE r \notin Taken(job)
    <3>1. \A i \in DOMAIN job.parts : job.parts[i].rec # r
      BY <2>5 DEF Taken
    <3>2. \A p \in Pools : c[p] = 0
      BY <1>1, <3>1 DEF Recorded
    <3>3. Total(c) = 0
      <4> HIDE DEF c
      <4> QED
        BY <2>1, <3>2, TotalZero, ModelAssumption
    <3>4. Total(e) = Total(f)
      BY <2>2, <3>3
    <3>5. rec'[r].quantity = rec[r].quantity
      <4>1. r = job.rec => job.op = "split"
        BY <1>1, <2>5 DEF Claims, Taken, Whole
      <4> QED
        BY <1>3, <2>5, <4>1, QuantityAfter
    <3>6. /\ rec'[r].state \in {"absent", "held", "split"}
          /\ rec'[r].state \in {"held", "split"} <=> rec[r].state \in {"held", "split"}
      BY <1>3, <1>4, <2>1, <2>5 DEF Holds
    <3>7. Total(e) = IF rec'[r].state \in {"held", "split"} THEN rec'[r].quantity ELSE 0
      BY <2>3, <3>4, <3>5, <3>6
    <3> QED
      BY <3>6, <3>7 DEF Holds, Allocated
  <2> QED
    BY <2>4, <2>5
<1> QED
  BY <1>1, <1>6, <1>7 DEF HoldInv

LEMMA InitHolds == ASSUME Init PROVE HoldInv
<1>1. ASSUME NEW r \in Records PROVE Holds(r)
  <2>1. rec[r].state = "absent" /\ reserve[r] = Nothing
    BY DEF Init, NoRow
  <2>2. Nothing \in [Pools -> Int] /\ \A p \in Pools : Nothing[p] = 0
    BY DEF Nothing
  <2>3. Total(Nothing) = 0
    BY <2>2, TotalZero, ModelAssumption
  <2> QED
    BY <2>1, <2>3 DEF Holds, Allocated
<1>2. \A t \in Tx : tx[t] = Idle
  BY DEF Init
<1> QED
  BY <1>1, <1>2, IdleClaims DEF HoldInv, NoneTwice

LEMMA ConfigStays == ASSUME [Next]_vars PROVE config' = config
<1>1. /\ \A t, r, q : Create(t, r, q) => config' = config
      /\ \A t, r : Submit(t, r) \/ Delete(t, r) => config' = config
      /\ \A t, r, q, s : Update(t, r, q, s) => config' = config
      /\ \A t, r, c, d, q, l, m : Split(t, r, c, d, q, l, m) => config' = config
      /\ \A p, n : Adjust(p, n) => config' = config
  BY DEF Goes, Create, Submit, Update, Delete, Split, Adjust
<1>2. ASSUME NEW t \in Tx,
             Lock(t) \/ Release(t) \/ Scan(t) \/ Claim(t) \/ NextPart(t) \/ Commit(t) \/ Abort(t)
      PROVE  config' = config
  BY <1>2 DEF Goes, Lock, Release, Scan, Claim, NextPart, Commit, Abort
<1>3. UNCHANGED vars => config' = config
  BY DEF vars
<1> QED
  BY <1>1, <1>2, <1>3 DEF Next

LEMMA NextHolds ==
  ASSUME StockInv, AllRecorded, HoldInv, [Next]_vars
  PROVE  HoldInv'
<1>1. config' = config
  BY ConfigStays
<1>2. SUFFICES ASSUME ~config.atSubmit PROVE HoldInv'
  BY <1>1 DEF HoldInv
<1>3. CASE UNCHANGED vars
  BY <1>3 DEF vars, HoldInv, NoneTwice, Holds, Allocated
<1>4. ASSUME NEW t \in Tx, NEW r \in Records, NEW q \in Quantities, Create(t, r, q)
      PROVE  HoldInv'
  BY <1>2, <1>4, CreateHolds
<1>5. ASSUME NEW t \in Tx, NEW r \in Records, NEW c \in Records, NEW d \in Records,
             NEW q \in 1 .. rec[r].quantity - 1,
             NEW l \in Pools \cup {AnyLot}, NEW m \in Pools \cup {AnyLot},
             Split(t, r, c, d, q, l, m)
      PROVE  HoldInv'
  BY <1>2, <1>5, SplitHolds
<1>6. ASSUME NEW t \in Tx, NEW r \in Records
      PROVE  ~Submit(t, r) /\ ~Delete(t, r) /\ \A q, submits : ~Update(t, r, q, submits)
  BY <1>2, NoEdit
<1>7. ASSUME NEW t \in Tx,
             Lock(t) \/ Release(t) \/ Scan(t) \/ Claim(t) \/ NextPart(t) \/ Commit(t) \/ Abort(t)
      PROVE  HoldInv'
  BY <1>2, <1>7, LockHolds, StatementHolds, CommitHolds, AbortHolds
<1>8. ASSUME NEW a \in Adjustments, Adjust(a[1], a[2]) PROVE HoldInv'
  BY <1>2, <1>8, AdjustHolds, StockAssumption
<1> QED
  BY <1>3, <1>4, <1>5, <1>6, <1>7, <1>8 DEF Next

(* When stock is claimed with the create, a live row holds in all exactly the *)
(* quantity it shows and a row that does not exist holds none: a request     *)
(* that cannot cover a part never commits, a split gives its parts what      *)
(* they ask for, and no edit or delete gets past the guards                  *)
(* (generators.py:1553-1639, 1926-2001; split_action_route.ts.jinja2).       *)
THEOREM LiveRowsHoldTheirQuantity == Spec => []HeldInFull
<1>1. Init => StockInv /\ BookInv /\ HoldInv
  BY InitStock, InitBooks, InitHolds
<1>2. StockInv /\ BookInv /\ HoldInv /\ [Next]_vars => (StockInv /\ BookInv /\ HoldInv)'
  BY NextStock, NextRecorded, NextBalances, NextHolds DEF BookInv
<1>3. StockInv /\ HoldInv => HeldInFull
  <2> SUFFICES ASSUME StockInv, HoldInv, ~config.atSubmit, NEW r \in Records
               PROVE  MapThenSumSet(LAMBDA p : reserve[r][p], Pools)
                        = IF Allocated(r) THEN rec[r].quantity ELSE 0
    BY DEF HeldInFull
  <2>1. DOMAIN reserve[r] = Pools
    BY DEF StockInv, Database
  <2>2. Total(reserve[r]) = MapThenSumSet(LAMBDA p : reserve[r][p], Pools)
    BY <2>1 DEF Total, MapThenSumSet, MapThenFoldSet
  <2>3. Holds(r)
    BY DEF HoldInv
  <2> QED
    BY <2>2, <2>3 DEF Holds
<1> QED
  BY <1>1, <1>2, <1>3, PTL DEF Spec
=============================================================================
