---- MODULE PaymentsProofs ----
(***************************************************************************)
(* Records are settled by Stripe's reports alone, and what was paid is      *)
(* kept, for any records, sessions, requests and failures, as long as the   *)
(* checkout of a record is requested within one minute.                    *)
(***************************************************************************)
EXTENDS Payments, TLAPS

-----------------------------------------------------------------------------
(* The inductive invariant, over given sessions st, rows rec and pay, and    *)
(* workers x, so that it can be asked of the state after a step.            *)

PaidIn(st, s) == st[s].state = "paid"
ClosedIn(st, s) == st[s].state \in {"expired", "failed"}

(* A record has at most one session. *)
StripeInv(st) ==
  /\ st \in [Sessions ->
       [of : Records \cup {NoRecord}, bucket : Buckets \cup {0},
        state : {"none", "open", "processing", "paid", "expired", "failed"}]]
  /\ \A s \in Sessions : st[s].of = NoRecord => st[s] = NoSession
  /\ \A s \in Sessions : st[s].of # NoRecord => st[s].bucket \in Buckets /\ st[s].state # "none"
  /\ \A s, t \in Sessions : st[s].of # NoRecord /\ st[s].of = st[t].of => s = t

(* A row has a session of its record; the rest is the property. *)
RowInv(rec, pay, st) ==
  /\ rec \in [Records -> RecordStates]
  /\ pay \in [Records -> [status : PayableStatus, session : Sessions \cup {Placeholder}]]
  /\ \A r \in Records :
       /\ pay[r].status \in {"none", "gone"} => pay[r].session = Placeholder
       /\ pay[r].session # Placeholder => st[pay[r].session].of = r
       /\ pay[r].status = "paid" => pay[r].session # Placeholder /\ PaidIn(st, pay[r].session)
       /\ rec[r] = "removed" => \E s \in Sessions : st[s].of = r /\ ClosedIn(st, s)

(* What a worker read of a session stays so. *)
Busy(x, st) ==
  /\ x \in [job : Jobs, at : Places, r : Records \cup {NoRecord}, s : Sessions \cup {Placeholder}]
  /\ (x.at = "find") = (x.r = NoRecord)
  /\ x.s = Placeholder => x.at \in {"read", "open", "undo_record", "undo_payable"}
  /\ x.r # NoRecord /\ x.s # Placeholder => st[x.s].of = x.r
  /\ x.at = "find" => IF x.job = "closed" THEN ClosedIn(st, x.s)
                      ELSE x.job \in {"paid", "success"} /\ PaidIn(st, x.s)
  /\ x.at = "confirm" => PaidIn(st, x.s)
  /\ x.at \in {"check", "remove_record", "remove_payable"} => ClosedIn(st, x.s)

Knows(x, st) == x = Idle \/ Busy(x, st)

Reports == {"paid", "closed"} \X Sessions

Inv ==
  /\ StripeInv(stripe) /\ RowInv(record, payable, stripe)
  /\ work = [w \in Workers |-> work[w]]
  /\ \A w \in Workers : Knows(work[w], stripe)
  /\ \A s \in shown : s \in Sessions /\ stripe[s].of # NoRecord
  /\ due \subseteq Reports
  /\ failures \in 0..MaxFailures

-----------------------------------------------------------------------------
(* Sessions only move on. *)
Forward(st, st2) ==
  \A s \in Sessions :
    /\ st[s].of # NoRecord => st2[s].of = st[s].of
    /\ st[s].state \in {"paid", "expired", "failed"} => st2[s].state = st[s].state

LEMMA KnowsOn ==
  ASSUME NEW st, NEW st2, NEW x, StripeInv(st), Forward(st, st2), Knows(x, st)
  PROVE  Knows(x, st2)
<1>1. CASE x = Idle
  BY <1>1 DEF Knows
<1>2. CASE x # Idle
  <2>1. x.s # Placeholder => x.s \in Sessions
    BY <1>2 DEF Knows, Busy
  <2>2. ClosedIn(st, x.s) /\ x.s \in Sessions => ClosedIn(st2, x.s)
    BY DEF Forward, ClosedIn
  <2>3. PaidIn(st, x.s) /\ x.s \in Sessions => PaidIn(st2, x.s)
    BY DEF Forward, PaidIn
  <2>4. x.r # NoRecord /\ x.s # Placeholder => st2[x.s].of = x.r
    BY <1>2, <2>1 DEF Knows, Busy, Forward
  <2> QED
    BY <1>2, <2>1, <2>2, <2>3, <2>4 DEF Knows, Busy
<1> QED
  BY <1>1, <1>2

LEMMA RowsOn ==
  ASSUME NEW st, NEW st2, NEW rec, NEW pay, StripeInv(st), Forward(st, st2), RowInv(rec, pay, st)
  PROVE  RowInv(rec, pay, st2)
BY PaymentAssumption DEF RowInv, Forward, PaidIn, ClosedIn

(* A worker in trouble undoes what it created, or is done. *)
LEMMA UndoKnown ==
  ASSUME NEW st, NEW x, Knows(x, st), x.at \in {"read", "resume", "open", "attach"}
  PROVE  Knows([job |-> x.job, at |-> "undo_record", r |-> x.r, s |-> x.s], st)
BY DEF Knows, Busy, Idle, Places

(* What a step has to show: the sessions move on, the rows are in order, and *)
(* the workers that moved know what they have to.                          *)
LEMMA StepKeeps ==
  ASSUME Inv, StripeInv(stripe'), Forward(stripe, stripe'), RowInv(record', payable', stripe'),
         work' = [w \in Workers |-> work'[w]],
         \A w \in Workers : work'[w] = work[w] \/ Knows(work'[w], stripe'),
         \A s \in shown' : s \in shown \/ (s \in Sessions /\ stripe'[s].of # NoRecord),
         due' \subseteq Reports, failures' \in 0..MaxFailures
  PROVE  Inv'
<1>1. \A w \in Workers : Knows(work'[w], stripe')
  <2> TAKE w \in Workers
  <2>1. CASE work'[w] = work[w]
    BY <2>1, KnowsOn DEF Inv
  <2> QED
    BY <2>1
<1>2. \A s \in shown' : s \in Sessions /\ stripe'[s].of # NoRecord
  BY DEF Inv, Forward
<1> QED
  BY <1>1, <1>2 DEF Inv

(* A step that moves one worker, and neither rows nor sessions. *)
Moved == work' = [w \in Workers |-> work'[w]]
         /\ \A w \in Workers : work'[w] = work[w] \/ Knows(work'[w], stripe')

LEMMA WorkerStep ==
  ASSUME Inv, Moved, UNCHANGED <<record, payable, stripe, failures>>,
         \A s \in shown' : s \in shown \/ (s \in Sessions /\ stripe[s].of # NoRecord),
         due' \subseteq Reports
  PROVE  Inv'
<1>1. StripeInv(stripe') /\ Forward(stripe, stripe') /\ RowInv(record', payable', stripe')
  BY DEF Inv, Forward
<1> QED
  BY <1>1, StepKeeps DEF Inv, Moved

LEMMA MovedTo ==
  ASSUME Inv, NEW w \in Workers, NEW x, work' = [work EXCEPT ![w] = x], Knows(x, stripe')
  PROVE  Moved
BY DEF Moved, Inv

LEMMA DoneMoves ==
  ASSUME Inv, NEW w \in Workers, Done(w)
  PROVE  Moved /\ due' \subseteq Reports
<1>1. Knows(Idle, stripe')
  BY DEF Knows
<1> QED
  BY <1>1, MovedTo DEF Done, Inv

LEMMA ThrowMoves ==
  ASSUME Inv, NEW w \in Workers, Throw(w), Forward(stripe, stripe')
  PROVE  Moved /\ due' \subseteq Reports
<1>1. Knows(Idle, stripe')
  BY DEF Knows
<1>2. Knows(work[w], stripe')
  BY KnowsOn DEF Inv
<1>3. CASE Goto(w, "undo_record") /\ work[w].at \in {"read", "resume", "open", "attach"}
  BY <1>2, <1>3, UndoKnown, MovedTo DEF Goto, Go, Throw, Inv
<1>4. CASE work' = [work EXCEPT ![w] = Idle]
  BY <1>1, <1>4, MovedTo DEF Throw, Inv
<1> QED
  BY <1>3, <1>4 DEF Throw

-----------------------------------------------------------------------------
(* The steps that move a worker only. *)

LEMMA AtWork ==
  ASSUME Inv, NEW w \in Workers, work[w].at # "idle"
  PROVE  Busy(work[w], stripe)
BY DEF Inv, Knows, Idle

LEMMA GoMoves ==
  ASSUME Inv, NEW w \in Workers, NEW at, NEW r, NEW s, Go(w, at, r, s),
         Busy([job |-> work[w].job, at |-> at, r |-> r, s |-> s], stripe')
  PROVE  Moved
BY MovedTo DEF Go, Knows

LEMMA ReadKeeps ==
  ASSUME Inv, NEW w \in Workers, ReadPayable(w)
  PROVE  Inv'
<1> DEFINE r == work[w].r
<1>1. Busy(work[w], stripe) /\ r \in Records
  BY AtWork DEF ReadPayable, Busy
<1>2. UNCHANGED <<record, payable, stripe, shown, failures>>
  BY DEF ReadPayable
<1>3. CASE Throw(w)
  BY <1>2, <1>3, ThrowMoves, WorkerStep DEF Forward
<1>4. CASE Done(w)
  BY <1>2, <1>4, DoneMoves, WorkerStep
<1>5. CASE Goto(w, "open") /\ UNCHANGED due
  <2>1. Busy([job |-> work[w].job, at |-> "open", r |-> r, s |-> work[w].s], stripe')
    BY <1>1, <1>2 DEF Busy, ReadPayable, Places
  <2> QED
    BY <1>2, <1>5, <2>1, GoMoves, WorkerStep DEF Goto, Inv
<1>6. CASE /\ payable[r].session # Placeholder
           /\ Go(w, "resume", r, payable[r].session) /\ UNCHANGED due
  <2>1. payable[r].session \in Sessions /\ stripe[payable[r].session].of = r
    BY <1>1, <1>6 DEF Inv, RowInv
  <2>2. Busy([job |-> work[w].job, at |-> "resume", r |-> r, s |-> payable[r].session], stripe')
    BY <1>1, <1>2, <2>1, PaymentAssumption DEF Busy, ReadPayable, Places
  <2> QED
    BY <1>2, <1>6, <2>2, GoMoves, WorkerStep DEF Inv
<1> QED
  BY <1>3, <1>4, <1>5, <1>6 DEF ReadPayable

LEMMA ResumeKeeps ==
  ASSUME Inv, NEW w \in Workers, Resume(w)
  PROVE  Inv'
<1>1. Busy(work[w], stripe) /\ work[w].s \in Sessions /\ stripe[work[w].s].of # NoRecord
  BY AtWork, PaymentAssumption DEF Resume, Busy
<1>2. UNCHANGED <<record, payable, stripe, failures>>
      /\ shown' \subseteq shown \cup {work[w].s}
  BY DEF Resume
<1>3. CASE Throw(w)
  BY <1>1, <1>2, <1>3, ThrowMoves, WorkerStep DEF Forward
<1>4. CASE Done(w)
  BY <1>1, <1>2, <1>4, DoneMoves, WorkerStep
<1> QED
  BY <1>3, <1>4 DEF Resume

LEMMA ReportKeeps ==
  ASSUME Inv, NEW w \in Workers, NEW s \in Sessions, NEW job \in {"paid", "closed", "success"},
         IF job = "closed" THEN Closed(s) ELSE Paid(s),
         work' = [work EXCEPT ![w] = [job |-> job, at |-> "find", r |-> NoRecord, s |-> s]],
         UNCHANGED <<record, payable, stripe, shown, due, failures>>
  PROVE  Inv'
<1>1. Busy([job |-> job, at |-> "find", r |-> NoRecord, s |-> s], stripe')
  BY PaymentAssumption DEF Busy, Jobs, Places, Closed, Paid, ClosedIn, PaidIn
<1> QED
  BY <1>1, MovedTo, WorkerStep DEF Knows, Inv

LEMMA CancelKeeps ==
  ASSUME Inv, NEW w \in Workers, NEW s \in Sessions, CancelPage(w, s)
  PROVE  Inv'
<1> DEFINE r == stripe[s].of
           t == payable[r].session
<1>1. r \in Records
  BY DEF CancelPage, Inv, StripeInv
<1>2. t \in Sessions /\ stripe[t].of = r
  BY <1>1 DEF CancelPage, Inv, RowInv
<1>3. Busy([job |-> "cancel", at |-> "expire", r |-> r, s |-> t], stripe')
  BY <1>1, <1>2, PaymentAssumption DEF CancelPage, Busy, Jobs, Places
<1> QED
  BY <1>3, MovedTo, WorkerStep DEF Knows, CancelPage, Inv

LEMMA FindKeeps ==
  ASSUME Inv, NEW w \in Workers, Find(w)
  PROVE  Inv'
<1> DEFINE s == work[w].s
<1>1. Busy(work[w], stripe) /\ s \in Sessions
  BY AtWork DEF Find, Busy
<1>2. UNCHANGED <<record, payable, stripe, shown, failures>>
  BY DEF Find
<1>3. CASE Done(w)
  BY <1>2, <1>3, DoneMoves, WorkerStep
<1>4. ASSUME NEW r \in FindPayable(s) PROVE r \in Records /\ stripe[s].of = r
  BY <1>1, PaymentAssumption DEF FindPayable, Inv, RowInv
<1>5. ASSUME NEW r \in FindPayable(s), work[w].job \in {"paid", "success"},
             Go(w, "confirm", r, s), UNCHANGED due
      PROVE  Inv'
  <2>1. Busy([job |-> work[w].job, at |-> "confirm", r |-> r, s |-> s], stripe')
    BY <1>1, <1>2, <1>4, <1>5, PaymentAssumption DEF Busy, Find, Places
  <2> QED
    BY <1>2, <1>5, <2>1, GoMoves, WorkerStep DEF Inv
<1>6. ASSUME NEW r \in FindPayable(s), work[w].job = "closed",
             Go(w, "check", r, s), UNCHANGED due
      PROVE  Inv'
  <2>1. Busy([job |-> work[w].job, at |-> "check", r |-> r, s |-> s], stripe')
    BY <1>1, <1>2, <1>4, <1>6, PaymentAssumption DEF Busy, Find, Places
  <2> QED
    BY <1>2, <1>6, <2>1, GoMoves, WorkerStep DEF Inv
<1> QED
  BY <1>3, <1>5, <1>6 DEF Find

LEMMA CheckKeeps ==
  ASSUME Inv, NEW w \in Workers, Check(w)
  PROVE  Inv'
<1>1. Busy(work[w], stripe)
  BY AtWork DEF Check
<1>2. UNCHANGED <<record, payable, stripe, shown, failures>>
  BY DEF Check
<1>3. CASE Done(w)
  BY <1>2, <1>3, DoneMoves, WorkerStep
<1>4. CASE Goto(w, "remove_record") /\ UNCHANGED due
  <2>1. Busy([job |-> work[w].job, at |-> "remove_record", r |-> work[w].r, s |-> work[w].s], stripe')
    BY <1>1, <1>2 DEF Busy, Check, Places
  <2> QED
    BY <1>2, <1>4, <2>1, GoMoves, WorkerStep DEF Goto, Inv
<1> QED
  BY <1>3, <1>4 DEF Check

-----------------------------------------------------------------------------
(* The steps that write a record or its row. *)

LEMMA RowStep ==
  ASSUME Inv, Moved, UNCHANGED <<stripe, failures>>, RowInv(record', payable', stripe),
         \A s \in shown' : s \in shown \/ (s \in Sessions /\ stripe[s].of # NoRecord),
         due' \subseteq Reports
  PROVE  Inv'
<1>1. StripeInv(stripe') /\ Forward(stripe, stripe') /\ RowInv(record', payable', stripe')
  BY DEF Inv, Forward
<1> QED
  BY <1>1, StepKeeps DEF Inv, Moved

LEMMA CreateKeeps ==
  ASSUME Inv, NEW w \in Workers, NEW r \in Records, Create(w, r)
  PROVE  Inv'
<1>1. Busy([job |-> "create", at |-> "read", r |-> r, s |-> Placeholder], stripe')
  BY PaymentAssumption DEF Busy, Jobs, Places
<1>2. RowInv(record', payable', stripe)
  BY PaymentAssumption DEF Create, Inv, RowInv, RecordStates, PayableStatus
<1> QED
  BY <1>1, <1>2, MovedTo, RowStep DEF Knows, Create, Inv

LEMMA RepeatKeeps ==
  ASSUME Inv, NEW w \in Workers, NEW r \in Records, Repeat(w, r)
  PROVE  Inv'
<1>1. Busy([job |-> "repeat", at |-> "read", r |-> r, s |-> Placeholder], stripe')
  BY PaymentAssumption DEF Busy, Jobs, Places
<1> QED
  BY <1>1, MovedTo, WorkerStep DEF Knows, Repeat, Inv

(* A row that is paid already keeps its session, for there is no other.     *)
LEMMA AttachKeeps ==
  ASSUME Inv, NEW w \in Workers, Attach(w)
  PROVE  Inv'
<1> DEFINE r == work[w].r
           s == work[w].s
<1>1. Busy(work[w], stripe) /\ r \in Records /\ s \in Sessions /\ stripe[s].of = r
  BY AtWork DEF Attach, Busy
<1>2. UNCHANGED <<record, stripe, failures>> /\ stripe[s].of # NoRecord
  BY <1>1, PaymentAssumption DEF Attach
<1>3. CASE Throw(w) /\ UNCHANGED <<payable, shown>>
  BY <1>2, <1>3, ThrowMoves, WorkerStep DEF Forward
<1>4. CASE /\ There(r)
           /\ payable' = [payable EXCEPT ![r] = [status |-> payable[r].status, session |-> s]]
           /\ shown' = shown \cup {s} /\ Done(w)
  <2>1. payable[r].session # Placeholder => payable[r].session = s
    BY <1>1, <1>2 DEF Inv, RowInv, StripeInv
  <2>2. payable[r].status = "paid" => PaidIn(stripe, s)
    BY <1>1, <2>1 DEF Inv, RowInv
  <2>3. payable' \in [Records -> [status : PayableStatus, session : Sessions \cup {Placeholder}]]
    BY <1>1, <1>4 DEF Inv, RowInv
  <2>4. \A q \in Records : IF q = r THEN payable'[q].status = payable[r].status /\ payable'[q].session = s
                           ELSE payable'[q] = payable[q]
    BY <1>4 DEF Inv, RowInv
  <2>5. RowInv(record', payable', stripe)
    BY <1>1, <1>2, <1>4, <2>2, <2>3, <2>4, PaymentAssumption DEF Inv, RowInv, There
  <2>6. Moved /\ due' \subseteq Reports
    BY <1>4, DoneMoves
  <2> QED
    BY <1>1, <1>2, <1>4, <2>5, <2>6, RowStep
<1> QED
  BY <1>3, <1>4 DEF Attach

(* The record goes for another reason than the one that Stripe has to give. *)
LEMMA DeletionKeepsRows ==
  ASSUME Inv, NEW r \in Records, NEW why \in RecordStates \ {"none", "live"}, Delete(r, why),
         why = "removed" => \E s \in Sessions : stripe[s].of = r /\ ClosedIn(stripe, s)
  PROVE  RowInv(record', payable, stripe)
<1>1. record' \in [Records -> RecordStates]
  BY DEF Delete, Inv, RowInv
<1>2. \A q \in Records : record'[q] = record[q] \/ (q = r /\ record'[q] = why)
  BY DEF Delete, Inv, RowInv
<1> QED
  BY <1>1, <1>2 DEF Inv, RowInv

LEMMA UndoRecordKeeps ==
  ASSUME Inv, NEW w \in Workers, UndoRecord(w)
  PROVE  Inv'
<1>1. Busy(work[w], stripe) /\ work[w].r \in Records
  BY AtWork DEF UndoRecord, Busy
<1>2. RowInv(record', payable', stripe)
  BY <1>1, DeletionKeepsRows DEF UndoRecord, RecordStates
<1>3. Busy([job |-> work[w].job, at |-> "undo_payable", r |-> work[w].r, s |-> work[w].s], stripe')
  BY <1>1 DEF Busy, UndoRecord, Places
<1> QED
  BY <1>2, <1>3, GoMoves, RowStep DEF UndoRecord, Goto, Inv

(* The payable row goes. *)
LEMMA GoneKeepsRows ==
  ASSUME Inv, NEW r \in Records, payable' = [payable EXCEPT ![r] = Removed]
  PROVE  RowInv(record, payable', stripe)
<1>1. Removed.status = "gone" /\ Removed.session = Placeholder
      /\ Removed \in [status : PayableStatus, session : Sessions \cup {Placeholder}]
  BY DEF Removed, PayableStatus
<1>2. \A q \in Records : payable'[q] = IF q = r THEN Removed ELSE payable[q]
  BY DEF Inv, RowInv
<1> QED
  BY <1>1, <1>2 DEF Inv, RowInv

LEMMA UndoPayableKeeps ==
  ASSUME Inv, NEW w \in Workers, UndoPayable(w)
  PROVE  Inv'
<1>1. work[w].r \in Records
  BY AtWork DEF UndoPayable, Busy
<1>2. RowInv(record', payable', stripe)
  BY <1>1, GoneKeepsRows DEF UndoPayable
<1> QED
  BY <1>2, DoneMoves, RowStep DEF UndoPayable

(* The session is paid, so a record with this session was not removed.      *)
LEMMA ConfirmKeeps ==
  ASSUME Inv, NEW w \in Workers, Confirm(w)
  PROVE  Inv'
<1> DEFINE r == work[w].r
           s == work[w].s
<1>1. Busy(work[w], stripe) /\ r \in Records /\ s \in Sessions /\ stripe[s].of = r /\ PaidIn(stripe, s)
  BY AtWork, PaymentAssumption DEF Confirm, Busy
<1>2. UNCHANGED <<record, stripe, shown, failures>> /\ Moved /\ due' \subseteq Reports
  BY DoneMoves DEF Confirm
<1>3. CASE payable' = payable
  BY <1>2, <1>3, RowStep DEF Inv
<1>4. CASE payable' = [payable EXCEPT ![r] = [status |-> "paid", session |-> s]]
  <2>1. payable' \in [Records -> [status : PayableStatus, session : Sessions \cup {Placeholder}]]
    BY <1>1, <1>4 DEF Inv, RowInv, PayableStatus
  <2>2. \A q \in Records : IF q = r THEN payable'[q].status = "paid" /\ payable'[q].session = s
                           ELSE payable'[q] = payable[q]
    BY <1>4 DEF Inv, RowInv
  <2>3. RowInv(record', payable', stripe)
    BY <1>1, <1>2, <2>1, <2>2, PaymentAssumption DEF Inv, RowInv
  <2> QED
    BY <1>2, <2>3, RowStep
<1> QED
  BY <1>3, <1>4 DEF Confirm

LEMMA RemoveRecordKeeps ==
  ASSUME Inv, NEW w \in Workers, RemoveRecord(w)
  PROVE  Inv'
<1>1. /\ Busy(work[w], stripe) /\ work[w].r \in Records /\ work[w].s \in Sessions
      /\ stripe[work[w].s].of = work[w].r /\ ClosedIn(stripe, work[w].s)
  BY AtWork, PaymentAssumption DEF RemoveRecord, Busy
<1>2. RowInv(record', payable', stripe)
  BY <1>1, DeletionKeepsRows DEF RemoveRecord, RecordStates
<1>3. Busy([job |-> work[w].job, at |-> "remove_payable", r |-> work[w].r, s |-> work[w].s], stripe')
  BY <1>1 DEF Busy, RemoveRecord, Places
<1> QED
  BY <1>2, <1>3, GoMoves, RowStep DEF RemoveRecord, Goto, Inv

LEMMA RemovePayableKeeps ==
  ASSUME Inv, NEW w \in Workers, RemovePayable(w)
  PROVE  Inv'
<1>1. work[w].r \in Records
  BY AtWork, PaymentAssumption DEF RemovePayable, Busy
<1>2. RowInv(record', payable', stripe)
  BY <1>1, GoneKeepsRows DEF RemovePayable, Inv
<1> QED
  BY <1>2, DoneMoves, RowStep DEF RemovePayable

LEMMA DeletedByUserKeeps ==
  ASSUME Inv, NEW r \in Records, DeletedByUser(r)
  PROVE  Inv'
<1>1. RowInv(record', payable', stripe)
  BY DeletionKeepsRows DEF DeletedByUser, RecordStates
<1> QED
  BY <1>1, RowStep DEF DeletedByUser, Moved, Inv

-----------------------------------------------------------------------------
(* The steps that move a session. *)

(* The checkout of a record is requested within one minute, so that its      *)
(* idempotency key is the same every time.                                 *)
OneBucket == \A b, c \in Buckets : b = c

LEMMA OpenedOnce ==
  ASSUME Inv, OneBucket, NEW r \in Records, NEW b \in Buckets, NEW s \in SessionFor(r, b),
         Opened(s, r, b)
  PROVE  StripeInv(stripe') /\ Forward(stripe, stripe') /\ s \in Sessions /\ stripe'[s].of = r
<1>1. \A t \in Sessions : stripe[t].of = r => stripe[t].bucket = b
  BY PaymentAssumption DEF Inv, StripeInv, OneBucket
<1>2. s \in Sessions
  BY DEF SessionFor
<1>3. CASE stripe[s] # NoSession
  <2>1. stripe[s].of = r
    BY <1>3 DEF SessionFor
  <2> QED
    BY <1>2, <1>3, <2>1 DEF Opened, Inv, Forward
<1>4. CASE stripe[s] = NoSession
  <2>1. \A t \in Sessions : stripe[t].of # r
    BY <1>1, <1>4, PaymentAssumption DEF SessionFor, NoSession
  <2> DEFINE new == [of |-> r, bucket |-> b, state |-> "open"]
  <2>2. stripe' = [stripe EXCEPT ![s] = new]
    BY <1>4 DEF Opened
  <2>3. \A t \in Sessions : stripe'[t] = IF t = s THEN new ELSE stripe[t]
    BY <2>2 DEF Inv, StripeInv
  <2>4. stripe' \in [Sessions ->
          [of : Records \cup {NoRecord}, bucket : Buckets \cup {0},
           state : {"none", "open", "processing", "paid", "expired", "failed"}]]
    BY <1>2, <2>2 DEF Inv, StripeInv
  <2>5. StripeInv(stripe')
    BY <1>2, <2>1, <2>3, <2>4, PaymentAssumption DEF Inv, StripeInv
  <2>6. Forward(stripe, stripe')
    BY <1>4, <2>3 DEF Forward, NoSession
  <2> QED
    BY <1>2, <2>3, <2>5, <2>6
<1> QED
  BY <1>3, <1>4

LEMMA BecomesKeeps ==
  ASSUME Inv, NEW s \in Sessions, stripe[s].state \in {"open", "processing"},
         NEW state \in {"processing", "paid", "expired", "failed"}, Becomes(s, state)
  PROVE  StripeInv(stripe') /\ Forward(stripe, stripe') /\ ClosedIn(stripe', s) = (state \in {"expired", "failed"})
<1> DEFINE new == [of |-> stripe[s].of, bucket |-> stripe[s].bucket, state |-> state]
<1>1. \A t \in Sessions : stripe'[t] = IF t = s THEN new ELSE stripe[t]
  BY DEF Becomes, Inv, StripeInv
<1>2. stripe' \in [Sessions ->
        [of : Records \cup {NoRecord}, bucket : Buckets \cup {0},
         state : {"none", "open", "processing", "paid", "expired", "failed"}]]
  BY DEF Becomes, Inv, StripeInv
<1>3. stripe[s].of # NoRecord
  BY DEF Inv, StripeInv, NoSession
<1>4. StripeInv(stripe')
  BY <1>1, <1>2, <1>3 DEF Inv, StripeInv
<1>5. Forward(stripe, stripe')
  BY <1>1 DEF Forward
<1> QED
  BY <1>1, <1>4, <1>5 DEF ClosedIn

LEMMA StripeStep ==
  ASSUME Inv, Moved, StripeInv(stripe'), Forward(stripe, stripe'), UNCHANGED <<record, payable, shown>>,
         due' \subseteq Reports, failures' \in 0..MaxFailures
  PROVE  Inv'
<1>1. RowInv(record', payable', stripe')
  BY RowsOn DEF Inv
<1> QED
  BY <1>1, StepKeeps DEF Moved

LEMMA OpenKeeps ==
  ASSUME Inv, OneBucket, NEW w \in Workers, OpenSession(w)
  PROVE  Inv'
<1> DEFINE r == work[w].r
<1>1. Busy(work[w], stripe) /\ r \in Records
  BY AtWork DEF OpenSession, Busy
<1>2. CASE Throw(w) /\ UNCHANGED stripe
  BY <1>2, ThrowMoves, WorkerStep DEF OpenSession, Forward
<1>3. ASSUME NEW b \in Buckets, NEW s \in SessionFor(r, b), Opened(s, r, b), Go(w, "attach", r, s),
             UNCHANGED due
      PROVE  Inv'
  <2>1. StripeInv(stripe') /\ Forward(stripe, stripe') /\ s \in Sessions /\ stripe'[s].of = r
    BY <1>1, <1>3, OpenedOnce
  <2>2. Busy([job |-> work[w].job, at |-> "attach", r |-> r, s |-> s], stripe')
    BY <1>1, <2>1, PaymentAssumption DEF Busy, OpenSession, Places
  <2> QED
    BY <1>3, <2>1, <2>2, GoMoves, StripeStep DEF OpenSession, Inv
<1> QED
  BY <1>2, <1>3 DEF OpenSession

LEMMA ExpireSessionKeeps ==
  ASSUME Inv, NEW w \in Workers, ExpireSession(w)
  PROVE  Inv'
<1> DEFINE s == work[w].s
           x == [job |-> work[w].job, at |-> "check", r |-> work[w].r, s |-> s]
<1>1. Busy(work[w], stripe) /\ s \in Sessions /\ work[w].r # NoRecord
  BY AtWork DEF ExpireSession, Busy
<1>2. CASE Done(w) /\ UNCHANGED stripe
  BY <1>2, DoneMoves, WorkerStep DEF ExpireSession
<1>3. CASE Ended(s) /\ Goto(w, "check") /\ UNCHANGED <<stripe, due>>
  <2>1. Busy(x, stripe')
    BY <1>1, <1>3 DEF Busy, Ended, ClosedIn, ExpireSession, Places
  <2> QED
    BY <1>3, <2>1, GoMoves, WorkerStep DEF Goto, ExpireSession, Inv
<1>4. CASE /\ stripe[s].state = "open" /\ Becomes(s, "expired")
           /\ due' = due \cup {<<"closed", s>>} /\ Goto(w, "check")
  <2>1. StripeInv(stripe') /\ Forward(stripe, stripe') /\ ClosedIn(stripe', s)
    BY <1>1, <1>4, BecomesKeeps
  <2>2. Busy(work[w], stripe')
    BY <1>1, <2>1, KnowsOn DEF Knows, Inv, ExpireSession, Idle
  <2>3. Busy(x, stripe')
    BY <1>1, <2>1, <2>2, PaymentAssumption DEF Busy, Places
  <2>4. due' \subseteq Reports
    BY <1>1, <1>4 DEF Inv, Reports
  <2> QED
    BY <1>4, <2>1, <2>3, <2>4, GoMoves, StripeStep DEF Goto, ExpireSession, Inv
<1> QED
  BY <1>2, <1>3, <1>4 DEF ExpireSession

LEMMA SessionMovesKeep ==
  ASSUME Inv, NEW s \in Sessions, Pay(s) \/ Clear(s) \/ Expire(s)
  PROVE  Inv'
<1>1. /\ stripe[s].state \in {"open", "processing"}
      /\ \E state \in {"processing", "paid", "expired", "failed"} : Becomes(s, state)
      /\ due' \subseteq due \cup {<<"paid", s>>, <<"closed", s>>}
      /\ UNCHANGED <<record, payable, shown, work, failures>>
  BY DEF Pay, Clear, Expire
<1>2. StripeInv(stripe') /\ Forward(stripe, stripe')
  BY <1>1, BecomesKeeps
<1>3. due' \subseteq Reports
  BY <1>1 DEF Inv, Reports
<1> QED
  BY <1>1, <1>2, <1>3, StripeStep DEF Moved, Inv

LEMMA FailKeeps ==
  ASSUME Inv, OneBucket, NEW w \in Workers, Fail(w)
  PROVE  Inv'
<1> DEFINE r == work[w].r
<1>1. failures' \in 0..MaxFailures /\ UNCHANGED <<record, payable, shown>>
  BY PaymentAssumption DEF Fail, Inv
<1>2. StripeInv(stripe') /\ Forward(stripe, stripe')
  <2>1. CASE UNCHANGED stripe
    BY <2>1 DEF Inv, Forward
  <2>2. CASE /\ work[w].at = "open"
             /\ \E b \in Buckets : \E s \in SessionFor(r, b) : Opened(s, r, b)
    <3>1. r \in Records
      BY <2>2, AtWork DEF Busy
    <3> QED
      BY <2>2, <3>1, OpenedOnce
  <2> QED
    BY <2>1, <2>2 DEF Fail
<1>3. Moved /\ due' \subseteq Reports
  <2>1. CASE Throw(w)
    BY <1>2, <2>1, ThrowMoves
  <2>2. CASE work' = [work EXCEPT ![w] = Idle] /\ UNCHANGED due
    BY <2>2, MovedTo DEF Knows, Inv
  <2> QED
    BY <2>1, <2>2 DEF Fail
<1> QED
  BY <1>1, <1>2, <1>3, StripeStep

-----------------------------------------------------------------------------
LEMMA InitInv == Init => Inv
<1> SUFFICES ASSUME Init PROVE Inv
  OBVIOUS
<1>1. StripeInv(stripe)
  BY PaymentAssumption DEF Init, StripeInv, NoSession
<1>2. RowInv(record, payable, stripe)
  BY DEF Init, RowInv, NoPayable, RecordStates, PayableStatus
<1>3. \A w \in Workers : Knows(work[w], stripe)
  BY DEF Init, Knows
<1>4. work = [w \in Workers |-> work[w]] /\ failures \in 0..MaxFailures
  BY PaymentAssumption DEF Init
<1> QED
  BY <1>1, <1>2, <1>3, <1>4 DEF Init, Inv

LEMMA NextInv == OneBucket => (Inv /\ [Next]_vars => Inv')
<1> SUFFICES ASSUME OneBucket, Inv, [Next]_vars PROVE Inv'
  OBVIOUS
<1>1. ASSUME NEW w \in Workers, NEW r \in Records, Create(w, r) \/ Repeat(w, r)
      PROVE  Inv'
  BY <1>1, CreateKeeps, RepeatKeeps
<1>2. ASSUME NEW w \in Workers, NEW s \in Sessions, NEW kind \in {"paid", "closed"}, Deliver(w, kind, s)
      PROVE  Inv'
  BY <1>2, ReportKeeps DEF Deliver, Happened
<1>3. ASSUME NEW w \in Workers, NEW s \in Sessions, SuccessPage(w, s) \/ CancelPage(w, s)
      PROVE  Inv'
  BY <1>3, ReportKeeps, CancelKeeps DEF SuccessPage
<1>4. ASSUME NEW w \in Workers, Step(w)
      PROVE  Inv'
  BY <1>4, ReadKeeps, ResumeKeeps, OpenKeeps, AttachKeeps, UndoRecordKeeps, UndoPayableKeeps,
     ExpireSessionKeeps, FindKeeps, ConfirmKeeps, CheckKeeps, RemoveRecordKeeps, RemovePayableKeeps
     DEF Step
<1>5. ASSUME NEW w \in Workers, Fail(w)
      PROVE  Inv'
  BY <1>5, FailKeeps
<1>6. ASSUME NEW s \in Sessions, Pay(s) \/ Clear(s) \/ Expire(s)
      PROVE  Inv'
  BY <1>6, SessionMovesKeep
<1>7. ASSUME NEW r \in Records, DeletedByUser(r)
      PROVE  Inv'
  BY <1>7, DeletedByUserKeeps
<1>8. CASE UNCHANGED vars
  BY <1>8, WorkerStep DEF vars, Moved, Inv
<1> QED
  BY <1>1, <1>2, <1>3, <1>4, <1>5, <1>6, <1>7, <1>8 DEF Next

LEMMA InvHolds == OneBucket => (Spec => []Inv)
<1> SUFFICES ASSUME OneBucket PROVE Spec => []Inv
  OBVIOUS
<1>1. Inv /\ [Next]_vars => Inv'
  BY NextInv
<1> QED
  BY <1>1, InitInv, PTL DEF Spec

(* For any records, sessions, workers and failures the state has its type:  *)
(* a worker has found its record and read its session by the place where it *)
(* uses them, and a row that is gone is not written again.                  *)
THEOREM TypeCorrect == OneBucket => (Spec => []TypeOK)
<1> SUFFICES ASSUME OneBucket PROVE Spec => []TypeOK
  OBVIOUS
<1>1. ASSUME Inv PROVE TypeOK
  <2>1. \A w \in Workers : WorkOK(work[w])
    BY <1>1 DEF Inv, Knows, Busy, WorkOK
  <2> QED
    BY <1>1, <2>1 DEF Inv, StripeInv, RowInv, TypeOK, Reports
<1> QED
  BY <1>1, InvHolds, PTL

(* For any number of repeated requests, redelivered events, pages, deaths   *)
(* and users, only what Stripe reported of the one session of a record      *)
(* settles it: no record is paid for that Stripe has not been paid for, and *)
(* none is removed as unpaid that was paid or can still be.                 *)
THEOREM StripeSettles == OneBucket => (Spec => []SettledByStripe)
<1> SUFFICES ASSUME OneBucket PROVE Spec => []SettledByStripe
  OBVIOUS
<1>1. ASSUME Inv PROVE SettledByStripe
  <2> SUFFICES ASSUME NEW r \in Records
               PROVE  /\ payable[r].status = "paid" =>
                           payable[r].session \in Sessions /\ stripe[payable[r].session].of = r
                           /\ Paid(payable[r].session)
                      /\ record[r] = "removed" =>
                           /\ payable[r].status # "paid"
                           /\ \E s \in Sessions : stripe[s].of = r /\ Closed(s)
    BY DEF SettledByStripe
  <2>1. payable[r].status = "paid" =>
          payable[r].session \in Sessions /\ stripe[payable[r].session].of = r
          /\ Paid(payable[r].session)
    BY <1>1 DEF Inv, RowInv, Paid, PaidIn
  <2>2. record[r] = "removed" => \E s \in Sessions : stripe[s].of = r /\ Closed(s)
    BY <1>1 DEF Inv, RowInv, Closed, ClosedIn
  <2>3. \A s, t \in Sessions : stripe[s].of = r /\ stripe[t].of = r => s = t
    BY <1>1, PaymentAssumption DEF Inv, StripeInv
  <2> QED
    BY <2>1, <2>2, <2>3 DEF Paid, Closed
<1> QED
  BY <1>1, InvHolds, PTL

-----------------------------------------------------------------------------
(* Paid rows are kept.  Only the request that created a record undoes it,    *)
(* and a record that was not created yet has no row to be paid.            *)

WorkBegun(x, rec) ==
  /\ x.at \in {"undo_record", "undo_payable"} => x.job = "create"
  /\ x.job = "create" => x.r \in Records /\ rec[x.r] # "none"

Begun ==
  /\ \A r \in Records : record[r] = "none" => payable[r].status = "none"
  /\ \A w \in Workers : WorkBegun(work[w], record)

(* A record that was created stays so, whatever becomes of it, and no row   *)
(* comes before its record.                                                *)
RowsBegun ==
  \A r \in Records : record'[r] = "none" =>
    record[r] = "none" /\ (payable[r].status = "none" => payable'[r].status = "none")

LEMMA BegunStep ==
  ASSUME Inv, Begun, RowsBegun, NEW w \in Workers, NEW x, WorkBegun(x, record'),
         work' = [work EXCEPT ![w] = x]
  PROVE  Begun'
<1>1. \A v \in Workers : work'[v] = IF v = w THEN x ELSE work[v]
  BY DEF Inv
<1> QED
  BY <1>1 DEF Begun, RowsBegun, WorkBegun

LEMMA IdleBegun == ASSUME NEW rec PROVE WorkBegun(Idle, rec)
BY DEF WorkBegun, Idle

LEMMA DoneBegun ==
  ASSUME Inv, Begun, RowsBegun, NEW w \in Workers, Done(w)
  PROVE  Begun'
BY BegunStep, IdleBegun DEF Done

LEMMA GoBegun ==
  ASSUME Inv, Begun, RowsBegun, NEW w \in Workers, NEW at, NEW r, NEW s, Go(w, at, r, s),
         at \in {"undo_record", "undo_payable"} => work[w].job = "create",
         r = work[w].r \/ work[w].job # "create"
  PROVE  Begun'
<1>1. WorkBegun([job |-> work[w].job, at |-> at, r |-> r, s |-> s], record')
  BY DEF Begun, WorkBegun, RowsBegun
<1> QED
  BY <1>1, BegunStep DEF Go

LEMMA ThrowBegun ==
  ASSUME Inv, Begun, RowsBegun, NEW w \in Workers, Throw(w)
  PROVE  Begun'
<1>1. CASE work[w].job = "create" /\ Goto(w, "undo_record")
  BY <1>1, GoBegun DEF Goto
<1>2. CASE work' = [work EXCEPT ![w] = Idle]
  BY <1>2, BegunStep, IdleBegun
<1> QED
  BY <1>1, <1>2 DEF Throw

LEMMA CreateBegun ==
  ASSUME Inv, Begun, NEW w \in Workers, NEW r \in Records, Create(w, r)
  PROVE  Begun'
<1>1. \A q \in Records : IF q = r THEN record'[q] = "live"
                         ELSE record'[q] = record[q] /\ payable'[q] = payable[q]
  BY DEF Create, Inv, RowInv
<1>2. RowsBegun /\ WorkBegun([job |-> "create", at |-> "read", r |-> r, s |-> Placeholder], record')
  BY <1>1 DEF RowsBegun, WorkBegun
<1> QED
  BY <1>2, BegunStep DEF Create

(* The beginnings of the other jobs. *)
LEMMA OthersBegun ==
  ASSUME Inv, Begun, NEW w \in Workers, UNCHANGED <<record, payable>>,
         NEW job, job # "create", NEW at, at \notin {"undo_record", "undo_payable"}, NEW r, NEW s,
         work' = [work EXCEPT ![w] = [job |-> job, at |-> at, r |-> r, s |-> s]]
  PROVE  Begun'
<1>1. RowsBegun /\ WorkBegun([job |-> job, at |-> at, r |-> r, s |-> s], record')
  BY DEF RowsBegun, WorkBegun
<1> QED
  BY <1>1, BegunStep

LEMMA DeleteBegun ==
  ASSUME Inv, NEW r \in Records, NEW why \in RecordStates \ {"none", "live"}, Delete(r, why),
         UNCHANGED payable
  PROVE  RowsBegun
BY DEF Delete, Inv, RowInv, RowsBegun

LEMMA StepBegun ==
  ASSUME Inv, Begun, NEW w \in Workers, Step(w)
  PROVE  Begun'
<1> DEFINE r == work[w].r
<1>1. work[w].at \notin {"idle", "find"} => r \in Records
  BY AtWork DEF Busy
<1>2. CASE UNCHANGED <<record, payable>>
  <2>1. RowsBegun
    BY <1>2 DEF RowsBegun
  <2>2. Throw(w) => Begun'
    BY <2>1, ThrowBegun
  <2>3. Done(w) => Begun'
    BY <2>1, DoneBegun
  <2>4. ASSUME NEW at, NEW s, Go(w, at, r, s), at \notin {"undo_record", "undo_payable"}
        PROVE  Begun'
    BY <2>1, <2>4, GoBegun
  <2>5. CASE ReadPayable(w) \/ Resume(w) \/ OpenSession(w) \/ Attach(w)
    BY <2>2, <2>3, <2>4, <2>5 DEF ReadPayable, Resume, OpenSession, Attach, Goto
  <2>6. CASE ExpireSession(w) \/ Confirm(w) \/ Check(w) \/ RemovePayable(w) \/ UndoPayable(w)
    BY <2>3, <2>4, <2>6 DEF ExpireSession, Confirm, Check, RemovePayable, UndoPayable, Goto
  <2>7. CASE Find(w)
    BY <2>1, <2>3, <2>7, GoBegun DEF Find
  <2>8. CASE UndoRecord(w)
    BY <2>1, <2>8, GoBegun DEF UndoRecord, Goto, Begun, WorkBegun
  <2>9. CASE RemoveRecord(w)
    BY <2>4, <2>9 DEF RemoveRecord, Goto
  <2> QED
    BY <2>5, <2>6, <2>7, <2>8, <2>9, <1>2 DEF Step
<1>3. CASE Attach(w) \/ Confirm(w) \/ RemovePayable(w) \/ UndoPayable(w)
  <2>1. /\ r \in Records /\ record' = record
        /\ \A q \in Records : q # r => payable'[q] = payable[q]
    BY <1>1, <1>3 DEF Attach, Confirm, RemovePayable, UndoPayable, Inv, RowInv
  <2>2. record[r] = "none" => payable'[r] = payable[r] \/ UndoPayable(w)
    BY <1>3, <2>1 DEF Attach, Confirm, RemovePayable, Confirms, There, Begun
  <2>3. UndoPayable(w) => record[r] # "none"
    BY DEF UndoPayable, Begun, WorkBegun
  <2>4. RowsBegun
    BY <2>1, <2>2, <2>3 DEF RowsBegun
  <2> QED
    BY <1>3, <2>4, DoneBegun, ThrowBegun DEF Attach, Confirm, RemovePayable, UndoPayable
<1>4. CASE UndoRecord(w)
  <2>1. RowsBegun
    BY <1>1, <1>4, DeleteBegun DEF UndoRecord, RecordStates
  <2> QED
    BY <1>4, <2>1, GoBegun DEF UndoRecord, Goto, Begun, WorkBegun
<1>5. CASE RemoveRecord(w)
  <2>1. RowsBegun
    BY <1>1, <1>5, DeleteBegun DEF RemoveRecord, RecordStates
  <2> QED
    BY <1>5, <2>1, GoBegun DEF RemoveRecord, Goto
<1> QED
  BY <1>2, <1>3, <1>4, <1>5
     DEF Step, ReadPayable, Resume, OpenSession, ExpireSession, Find, Check

LEMMA NextBegun == ASSUME Inv, Begun, [Next]_vars PROVE Begun'
<1>1. ASSUME NEW w \in Workers, NEW r \in Records, Create(w, r)
      PROVE  Begun'
  BY <1>1, CreateBegun
<1>2. ASSUME NEW w \in Workers, NEW r \in Records, Repeat(w, r)
      PROVE  Begun'
  BY <1>2, OthersBegun DEF Repeat
<1>3. ASSUME NEW w \in Workers, NEW s \in Sessions,
             \/ \E kind \in {"paid", "closed"} : Deliver(w, kind, s)
             \/ SuccessPage(w, s) \/ CancelPage(w, s)
      PROVE  Begun'
  BY <1>3, OthersBegun DEF Deliver, SuccessPage, CancelPage
<1>4. ASSUME NEW w \in Workers, Step(w)
      PROVE  Begun'
  BY <1>4, StepBegun
<1>5. ASSUME NEW w \in Workers, Fail(w)
      PROVE  Begun'
  <2>1. RowsBegun
    BY <1>5 DEF Fail, RowsBegun
  <2> QED
    BY <1>5, <2>1, ThrowBegun, BegunStep, IdleBegun DEF Fail
<1>6. ASSUME NEW s \in Sessions, Pay(s) \/ Clear(s) \/ Expire(s)
      PROVE  Begun'
  BY <1>6 DEF Pay, Clear, Expire, Begun, WorkBegun
<1>7. ASSUME NEW r \in Records, DeletedByUser(r)
      PROVE  Begun'
  <2>1. RowsBegun
    BY <1>7, DeleteBegun DEF DeletedByUser, RecordStates
  <2> QED
    BY <1>7, <2>1 DEF DeletedByUser, RowsBegun, Begun, WorkBegun
<1>8. CASE UNCHANGED vars
  BY <1>8 DEF vars, Begun, WorkBegun
<1> QED
  BY <1>1, <1>2, <1>3, <1>4, <1>5, <1>6, <1>7, <1>8 DEF Next

(* What a step does to the row of a paid record. *)
LEMMA PaidRowKept ==
  ASSUME Inv, Begun, Next, NEW r \in Records, payable[r].status = "paid",
         ~(\E w \in Workers : work[w].job = "create" /\ work[w].r = r)
  PROVE  payable'[r] = payable[r] /\ record'[r] \in {record[r], "deleted"}
<1> DEFINE Kept == payable'[r] = payable[r] /\ record'[r] \in {record[r], "deleted"}
<1>1. \A s \in Sessions : stripe[s].of = r => s = payable[r].session /\ Paid(s)
  BY PaymentAssumption DEF Inv, RowInv, StripeInv, PaidIn, Paid
<1>2. ASSUME NEW w \in Workers, NEW q \in Records, Create(w, q)
      PROVE  Kept
  <2>1. q # r
    BY <1>2 DEF Create, Begun
  <2> QED
    BY <1>2, <2>1 DEF Create, Inv, RowInv
<1>3. ASSUME NEW w \in Workers, Step(w)
      PROVE  Kept
  <2> DEFINE q == work[w].r
             s == work[w].s
  <2>1. CASE UNCHANGED <<record, payable>>
    BY <2>1
  <2>2. CASE Attach(w)
    <3>1. q \in Records /\ s \in Sessions /\ stripe[s].of = q
      BY <2>2, AtWork DEF Attach, Busy
    <3>2. payable[r] = [status |-> "paid", session |-> payable[r].session]
      BY DEF Inv, RowInv
    <3>3. record' = record /\ \A p \in Records : payable'[p] = payable[p] \/
            (p = q /\ payable'[p] = [status |-> payable[q].status, session |-> s])
      BY <2>2, <3>1 DEF Attach, Inv, RowInv
    <3> QED
      BY <1>1, <3>1, <3>2, <3>3
  <2>3. CASE UndoRecord(w) \/ UndoPayable(w)
    <3>1. q \in Records /\ q # r
      BY <2>3 DEF UndoRecord, UndoPayable, Begun, WorkBegun
    <3> QED
      BY <2>3, <3>1 DEF UndoRecord, UndoPayable, Delete, Inv, RowInv
  <2>4. CASE Confirm(w) \/ RemovePayable(w)
    <3>1. q \in Records
      BY <2>4, AtWork, PaymentAssumption DEF Confirm, RemovePayable, Busy
    <3> QED
      BY <2>4, <3>1 DEF Confirm, Confirms, RemovePayable, Inv, RowInv
  <2>5. CASE RemoveRecord(w)
    <3>1. q \in Records /\ s \in Sessions /\ stripe[s].of = q /\ ClosedIn(stripe, s)
      BY <2>5, AtWork, PaymentAssumption DEF RemoveRecord, Busy
    <3>2. q # r
      BY <1>1, <3>1 DEF ClosedIn, Paid
    <3> QED
      BY <2>5, <3>1, <3>2 DEF RemoveRecord, Delete, Inv, RowInv
  <2> QED
    BY <1>3, <2>1, <2>2, <2>3, <2>4, <2>5
       DEF Step, ReadPayable, Resume, OpenSession, ExpireSession, Find, Check
<1>4. ASSUME NEW q \in Records, DeletedByUser(q)
      PROVE  Kept
  BY <1>4 DEF DeletedByUser, Delete, Inv, RowInv
<1>5. CASE UNCHANGED <<record, payable>>
  BY <1>5
<1> QED
  BY <1>2, <1>3, <1>4, <1>5
     DEF Next, Repeat, Deliver, SuccessPage, CancelPage, Fail, Pay, Clear, Expire

(* No late event, page or repeated request takes a confirmed payment back or *)
(* removes its record: only the request that created the record could, by   *)
(* its undo, while it is still at work (undoPaymentCheckout).               *)
THEOREM PaymentsAreKept == OneBucket => (Spec => PaidIsKept)
<1> SUFFICES ASSUME OneBucket PROVE Spec => PaidIsKept
  OBVIOUS
<1>1. Init => Begun
  BY IdleBegun DEF Init, Begun, NoPayable
<1>2. Inv /\ Begun /\ [Next]_vars => Begun'
  BY NextBegun
<1>3. Inv /\ Begun /\ [Next]_vars =>
        [\A r \in Records :
           payable[r].status = "paid" /\ ~(\E w \in Workers : work[w].job = "create" /\ work[w].r = r)
           => payable'[r] = payable[r] /\ record'[r] \in {record[r], "deleted"}]_vars
  BY PaidRowKept
<1> QED
  BY <1>1, <1>2, <1>3, InvHolds, PTL DEF Spec, PaidIsKept
====
