-------------------------------- MODULE Payments --------------------------------
(***************************************************************************)
(* x-payment: a record that is provisional until Stripe reports its         *)
(* Checkout Session as paid, and removed when the session ends unpaid.      *)
(*                                                                         *)
(* A record and its payable row are created in one transaction.  The        *)
(* request then opens a session and attaches it to the row; a repetition    *)
(* of the request under its idempotency key resumes the checkout.  Stripe   *)
(* reports what became of the session by events, which it delivers late,    *)
(* again, and until one delivery succeeds; the buyer returns to a success   *)
(* or a cancel page, which ask Stripe.  All of them take several            *)
(* statements outside a transaction, and may fail between any two.          *)
(*                                                                         *)
(* Left out: prices and quantities, the signatures of events and links,     *)
(* and the time of day: a session expires at any time while it is open.     *)
(***************************************************************************)
EXTENDS Naturals

CONSTANTS
  Records,      \* records of x-payment entities
  Sessions,     \* Checkout Sessions Stripe may open
  Workers,      \* requests, deliveries and pages at the same time
  Buckets,      \* minutes in which a checkout of one record is requested
  Placeholder,  \* pending:<record id>, in the place of a session
  NoRecord,
  Replays,      \* the create request may be repeated under its idempotency key
  MaxFailures   \* statements that throw, or processes that die

ASSUME PaymentAssumption ==
  /\ Placeholder \notin Sessions /\ NoRecord \notin Records
  /\ Replays \in BOOLEAN /\ MaxFailures \in Nat

VARIABLES
  record,    \* record[r]: the row of the entity, and why it is gone
  payable,   \* payable[r]: the payable row of r
  stripe,    \* stripe[s]: the session s, at Stripe
  shown,     \* sessions whose URL a request has returned
  due,       \* events Stripe has to deliver
  work,      \* work[w]: what worker w is doing
  failures

vars == <<record, payable, stripe, shown, due, work, failures>>

-----------------------------------------------------------------------------
(* "removed": unpaid; "undone": its checkout could not be started;          *)
(* "deleted": by a user.                                                   *)
RecordStates == {"none", "live", "removed", "undone", "deleted"}
PayableStatus == {"none", "pending", "paid", "gone"}

NoPayable == [status |-> "none", session |-> Placeholder]
Removed == [status |-> "gone", session |-> Placeholder]
NoSession == [of |-> NoRecord, bucket |-> 0, state |-> "none"]
Idle == [job |-> "none", at |-> "idle", r |-> NoRecord, s |-> Placeholder]

(* Mutant: a row is written again although it was deleted. *)
Written(r) == payable[r].status # "none"

There(r) == payable[r].status \in {"pending", "paid"}

(* A session is paid, or it can no longer be: expired, or its delayed       *)
(* payment failed.                                                         *)
Paid(s) == stripe[s].state = "paid"
Closed(s) == stripe[s].state \in {"expired", "failed"}

(* What Stripe has to say of a session, once more or for the first time.    *)
Happened(kind, s) == IF kind = "paid" THEN Paid(s) ELSE Closed(s)

Becomes(s, state) ==
  stripe' = [stripe EXCEPT ![s] = [of |-> stripe[s].of, bucket |-> stripe[s].bucket, state |-> state]]

Init ==
  /\ record = [r \in Records |-> "none"]
  /\ payable = [r \in Records |-> NoPayable]
  /\ stripe = [s \in Sessions |-> NoSession]
  /\ shown = {} /\ due = {}
  /\ work = [w \in Workers |-> Idle]
  /\ failures = 0

-----------------------------------------------------------------------------
(* Worker w goes on at another statement, is done, or throws.  The request  *)
(* that created the record then undoes it; an event that throws stays due.  *)

Go(w, at, r, s) ==
  work' = [work EXCEPT ![w] = [job |-> work[w].job, at |-> at, r |-> r, s |-> s]]
Goto(w, at) == Go(w, at, work[w].r, work[w].s)

Done(w) ==
  /\ work' = [work EXCEPT ![w] = Idle]
  /\ due' = due \ {<<work[w].job, work[w].s>>}

(* Mutant: the route answers that the event was handled. *)
AnsweredAnyway(w) ==
  /\ IF work[w].job = "create" /\ work[w].at \in {"read", "resume", "open", "attach"}
     THEN Goto(w, "undo_record")
     ELSE work' = [work EXCEPT ![w] = Idle]
  /\ due' = due \ {<<work[w].job, work[w].s>>}

Throw(w) ==
  /\ IF work[w].job = "create" /\ work[w].at \in {"read", "resume", "open", "attach"}
     THEN Goto(w, "undo_record")
     ELSE work' = [work EXCEPT ![w] = Idle]
  /\ UNCHANGED due

(* delete<Parent>: a row that is gone already stays as it went.             *)
Delete(r, why) ==
  record' = IF record[r] = "live" THEN [record EXCEPT ![r] = why] ELSE record

-----------------------------------------------------------------------------
(* add<Parent>: the transaction that writes the record, its payable row     *)
(* and its idempotency key; then startPaymentCheckout.                      *)

Create(w, r) ==
  /\ work[w] = Idle /\ record[r] = "none"
  /\ record' = [record EXCEPT ![r] = "live"]
  /\ payable' = [payable EXCEPT ![r] = [status |-> "pending", session |-> Placeholder]]
  /\ work' = [work EXCEPT ![w] = [job |-> "create", at |-> "read", r |-> r, s |-> Placeholder]]
  /\ UNCHANGED <<stripe, shown, due, failures>>

(* The idempotency key is found: the checkout is resumed.                   *)
Repeat(w, r) ==
  /\ Replays /\ work[w] = Idle /\ record[r] # "none"
  /\ work' = [work EXCEPT ![w] = [job |-> "repeat", at |-> "read", r |-> r, s |-> Placeholder]]
  /\ UNCHANGED <<record, payable, stripe, shown, due, failures>>

ReadPayable(w) ==
  LET r == work[w].r
      row == payable[r]
  IN /\ work[w].at = "read"
     /\ \/ ~There(r) /\ Throw(w)
        \/ row.status = "paid" /\ Done(w)
        \/ row.status = "pending" /\ row.session = Placeholder /\ Goto(w, "open") /\ UNCHANGED due
        \/ /\ row.status = "pending" /\ row.session # Placeholder
           /\ Go(w, "resume", r, row.session)
           /\ UNCHANGED due
     /\ UNCHANGED <<record, payable, stripe, shown, failures>>

Resume(w) ==
  LET s == work[w].s
  IN /\ work[w].at = "resume"
     /\ \/ stripe[s].state = "open" /\ shown' = shown \cup {s} /\ Done(w)
        \/ stripe[s].state # "open" /\ Throw(w) /\ UNCHANGED shown
     /\ UNCHANGED <<record, payable, stripe, failures>>

(* The session of an idempotency key, a new one for a new key.              *)
SessionFor(r, b) ==
  LET known == {s \in Sessions : stripe[s].of = r /\ stripe[s].bucket = b}
  IN IF known # {} THEN known ELSE {s \in Sessions : stripe[s] = NoSession}

Opened(s, r, b) ==
  stripe' = IF stripe[s] = NoSession
            THEN [stripe EXCEPT ![s] = [of |-> r, bucket |-> b, state |-> "open"]]
            ELSE stripe

(* The record is read for its price, then Stripe is asked for a session.    *)
OpenSession(w) ==
  LET r == work[w].r
  IN /\ work[w].at = "open"
     /\ \/ /\ record[r] = "live"
           /\ \E b \in Buckets : \E s \in SessionFor(r, b) :
                Opened(s, r, b) /\ Go(w, "attach", r, s)
           /\ UNCHANGED due
        \/ record[r] # "live" /\ Throw(w) /\ UNCHANGED stripe
     /\ UNCHANGED <<record, payable, shown, failures>>

(* The row takes the session whatever its status; a row that is gone makes  *)
(* the update throw.                                                       *)
Attach(w) ==
  LET r == work[w].r
      s == work[w].s
  IN /\ work[w].at = "attach"
     /\ \/ /\ There(r)
           /\ payable' = [payable EXCEPT ![r] = [status |-> payable[r].status, session |-> s]]
           /\ shown' = shown \cup {s} /\ Done(w)
        \/ ~There(r) /\ Throw(w) /\ UNCHANGED <<payable, shown>>
     /\ UNCHANGED <<record, stripe, failures>>

(* The checkout could not be started: the record, then the payable row.     *)
UndoRecord(w) ==
  /\ work[w].at = "undo_record"
  /\ Delete(work[w].r, "undone") /\ Goto(w, "undo_payable")
  /\ UNCHANGED <<payable, stripe, shown, due, failures>>

UndoPayable(w) ==
  /\ work[w].at = "undo_payable"
  /\ payable' = [payable EXCEPT ![work[w].r] = Removed]
  /\ Done(w)
  /\ UNCHANGED <<record, stripe, shown, failures>>

-----------------------------------------------------------------------------
(* dispatchPaymentEvent, and the two pages.                                 *)

Deliver(w, kind, s) ==
  /\ work[w] = Idle /\ Happened(kind, s)
  /\ work' = [work EXCEPT ![w] = [job |-> kind, at |-> "find", r |-> NoRecord, s |-> s]]
  /\ UNCHANGED <<record, payable, stripe, shown, due, failures>>

(* retrievePaidSession *)
SuccessPage(w, s) ==
  /\ work[w] = Idle /\ s \in shown /\ Paid(s)
  /\ work' = [work EXCEPT ![w] = [job |-> "success", at |-> "find", r |-> NoRecord, s |-> s]]
  /\ UNCHANGED <<record, payable, stripe, shown, due, failures>>

(* expirePendingCheckout, up to the request to Stripe.                      *)
CancelPage(w, s) ==
  LET r == stripe[s].of
  IN /\ work[w] = Idle /\ s \in shown
     /\ payable[r].status = "pending" /\ payable[r].session # Placeholder
     /\ work' = [work EXCEPT ![w] =
          [job |-> "cancel", at |-> "expire", r |-> r, s |-> payable[r].session]]
     /\ UNCHANGED <<record, payable, stripe, shown, due, failures>>

(* Mutant: a session that can no longer be paid on its page. *)
NotOpen(s) == stripe[s].state # "open"

(* Only a session Stripe reports as expired lets the page go on.            *)
Ended(s) == stripe[s].state = "expired"

ExpireSession(w) ==
  LET s == work[w].s
  IN /\ work[w].at = "expire"
     /\ \/ /\ stripe[s].state = "open"
           /\ Becomes(s, "expired")
           /\ due' = due \cup {<<"closed", s>>} /\ Goto(w, "check")
        \/ Ended(s) /\ Goto(w, "check") /\ UNCHANGED <<stripe, due>>
        \/ stripe[s].state # "open" /\ ~Ended(s) /\ Done(w) /\ UNCHANGED stripe
     /\ UNCHANGED <<record, payable, shown, failures>>

(* Mutant: only the attached session is known. *)
AttachedOnly(s) == {r \in Records : There(r) /\ payable[r].session = s}

(* findPayable: by the session, otherwise the record the session names,     *)
(* unless another session is attached to it.                               *)
FindPayable(s) ==
  {r \in Records : There(r) /\ payable[r].session = s}
    \cup {r \in Records : There(r) /\ stripe[s].of = r /\ payable[r].session = Placeholder}

Find(w) ==
  LET found == FindPayable(work[w].s)
      On(at) == \E r \in found : Go(w, at, r, work[w].s)
  IN /\ work[w].at = "find"
     /\ \/ found = {} /\ Done(w)
        \/ work[w].job \in {"paid", "success"} /\ On("confirm") /\ UNCHANGED due
        \/ /\ work[w].job = "closed"
           /\ \A r \in found : payable[r].status = "pending"
           /\ On("check") /\ UNCHANGED due
        \/ /\ work[w].job = "closed" /\ \E r \in found : payable[r].status = "paid"
           /\ Done(w)
     /\ UNCHANGED <<record, payable, stripe, shown, failures>>

(* confirmPaidSession: only a row that is still pending.                    *)
Confirms(r) == payable[r].status = "pending"

Confirm(w) ==
  LET r == work[w].r
  IN /\ work[w].at = "confirm"
     /\ payable' = IF Confirms(r)
                   THEN [payable EXCEPT ![r] = [status |-> "paid", session |-> work[w].s]]
                   ELSE payable
     /\ Done(w)
     /\ UNCHANGED <<record, stripe, shown, failures>>

(* removeUnpaidPayable: the row is read again, then the record is deleted,  *)
(* then the row.                                                           *)
Check(w) ==
  /\ work[w].at = "check"
  /\ \/ payable[work[w].r].status = "pending" /\ Goto(w, "remove_record") /\ UNCHANGED due
     \/ payable[work[w].r].status # "pending" /\ Done(w)
  /\ UNCHANGED <<record, payable, stripe, shown, failures>>

RemoveRecord(w) ==
  /\ work[w].at = "remove_record"
  /\ Delete(work[w].r, "removed") /\ Goto(w, "remove_payable")
  /\ UNCHANGED <<payable, stripe, shown, due, failures>>

RemovePayable(w) ==
  LET r == work[w].r
  IN /\ work[w].at = "remove_payable"
     /\ payable' = IF payable[r].status = "pending"
                   THEN [payable EXCEPT ![r] = Removed]
                   ELSE payable
     /\ Done(w)
     /\ UNCHANGED <<record, stripe, shown, failures>>

-----------------------------------------------------------------------------
(* The buyer, Stripe, and users. *)

(* At once, or later (a delayed payment method).                            *)
Pay(s) ==
  /\ s \in shown /\ stripe[s].state = "open"
  /\ \/ Becomes(s, "paid") /\ due' = due \cup {<<"paid", s>>}
     \/ Becomes(s, "processing") /\ UNCHANGED due
  /\ UNCHANGED <<record, payable, shown, work, failures>>

Clear(s) ==
  /\ stripe[s].state = "processing"
  /\ \/ Becomes(s, "paid") /\ due' = due \cup {<<"paid", s>>}
     \/ Becomes(s, "failed") /\ due' = due \cup {<<"closed", s>>}
  /\ UNCHANGED <<record, payable, shown, work, failures>>

Expire(s) ==
  /\ stripe[s].state = "open"
  /\ Becomes(s, "expired") /\ due' = due \cup {<<"closed", s>>}
  /\ UNCHANGED <<record, payable, shown, work, failures>>

DeletedByUser(r) ==
  /\ record[r] = "live"
  /\ Delete(r, "deleted")
  /\ UNCHANGED <<payable, stripe, shown, due, work, failures>>

(* A statement throws, or the process dies; a session may have been opened  *)
(* although the answer is lost.                                            *)
Fail(w) ==
  /\ work[w] # Idle /\ failures < MaxFailures
  /\ failures' = failures + 1
  /\ \/ Throw(w)
     \/ work' = [work EXCEPT ![w] = Idle] /\ UNCHANGED due
  /\ \/ UNCHANGED stripe
     \/ /\ work[w].at = "open" /\ record[work[w].r] = "live"
        /\ \E b \in Buckets : \E s \in SessionFor(work[w].r, b) : Opened(s, work[w].r, b)
  /\ UNCHANGED <<record, payable, shown>>

-----------------------------------------------------------------------------
Step(w) ==
  \/ ReadPayable(w) \/ Resume(w) \/ OpenSession(w) \/ Attach(w)
  \/ UndoRecord(w) \/ UndoPayable(w)
  \/ ExpireSession(w) \/ Find(w) \/ Confirm(w)
  \/ Check(w) \/ RemoveRecord(w) \/ RemovePayable(w)

Next ==
  \/ \E w \in Workers :
       \/ \E r \in Records : Create(w, r) \/ Repeat(w, r)
       \/ \E s \in Sessions :
            \/ \E kind \in {"paid", "closed"} : Deliver(w, kind, s)
            \/ SuccessPage(w, s) \/ CancelPage(w, s)
       \/ Step(w) \/ Fail(w)
  \/ \E s \in Sessions : Pay(s) \/ Clear(s) \/ Expire(s)
  \/ \E r \in Records : DeletedByUser(r)

Spec == Init /\ [][Next]_vars

(* The server goes on with what it does, Stripe redelivers an event until   *)
(* the route answers that it was handled, and ends every session.           *)
Fairness ==
  /\ \A w \in Workers : WF_vars(Step(w))
  /\ \A s \in Sessions :
       /\ WF_vars(Clear(s)) /\ WF_vars(Expire(s))
       /\ \A kind \in {"paid", "closed"} :
            SF_vars(<<kind, s>> \in due /\ \E w \in Workers : Deliver(w, kind, s))

FairSpec == Spec /\ Fairness

-----------------------------------------------------------------------------
(* Properties. *)

Jobs == {"create", "repeat", "paid", "closed", "success", "cancel"}
Places == {"read", "resume", "open", "attach", "undo_record", "undo_payable",
           "find", "confirm", "expire", "check", "remove_record", "remove_payable"}

(* What a worker knows by its place: its record from the beginning or once  *)
(* it was found, its session once one was read or opened.                  *)
WorkOK(x) ==
  \/ x = Idle
  \/ /\ x \in [job : Jobs, at : Places, r : Records \cup {NoRecord},
               s : Sessions \cup {Placeholder}]
     /\ (x.at = "find") = (x.r = NoRecord)
     /\ x.s = Placeholder => x.at \in {"read", "open", "undo_record", "undo_payable"}

TypeOK ==
  /\ record \in [Records -> RecordStates]
  /\ payable \in [Records -> [status : PayableStatus, session : Sessions \cup {Placeholder}]]
  /\ \A r \in Records :
       payable[r].status \in {"none", "gone"} => payable[r].session = Placeholder
  /\ stripe \in [Sessions ->
       [of : Records \cup {NoRecord}, bucket : Buckets \cup {0},
        state : {"none", "open", "processing", "paid", "expired", "failed"}]]
  /\ shown \subseteq Sessions
  /\ due \subseteq {"paid", "closed"} \X Sessions
  /\ work = [w \in Workers |-> work[w]] /\ \A w \in Workers : WorkOK(work[w])
  /\ failures \in 0..MaxFailures

(* Only Stripe's report settles a record: a payable row that is paid names  *)
(* a session of that record which is paid at Stripe, and a record that was  *)
(* removed as unpaid had a session that can no longer be paid.  Reports     *)
(* that are late, repeated or out of order, pages and deaths between two    *)
(* statements change nothing in that (payment_webhook_dispatch.ts.jinja2).  *)
SettledByStripe ==
  \A r \in Records :
    /\ payable[r].status = "paid" =>
         payable[r].session \in Sessions /\ stripe[payable[r].session].of = r /\ Paid(payable[r].session)
    /\ record[r] = "removed" =>
         /\ payable[r].status # "paid"
         /\ \E s \in Sessions : stripe[s].of = r /\ Closed(s)

(* A confirmed payment stays confirmed, of the same session, and its record *)
(* is left to its users: nothing takes them back but the undo of the very   *)
(* request that created the record, if that is still at work; events, pages *)
(* and repetitions of the request do not.                                   *)
PaidIsKept ==
  [][\A r \in Records :
       payable[r].status = "paid" /\ ~(\E w \in Workers : work[w].job = "create" /\ work[w].r = r)
       => payable'[r] = payable[r] /\ record'[r] \in {record[r], "deleted"}]_vars

(* A buyer who paid has a confirmed record, unless the request that created *)
(* it gave up or a user deleted it.                                        *)
PaidIsConfirmed ==
  \A s \in Sessions : \A r \in Records :
    stripe[s].of = r /\ Paid(s) ~> payable[r].status = "paid" \/ record[r] \in {"undone", "deleted"}

(* A record for which a session was opened is paid for or goes in the end,  *)
(* and its payable row with it.                                            *)
ProvisionalEnds ==
  \A s \in Sessions : \A r \in Records :
    stripe[s].of = r ~> \/ payable[r].status = "paid"
                        \/ payable[r].status = "gone" /\ record[r] # "live"

================================================================================
