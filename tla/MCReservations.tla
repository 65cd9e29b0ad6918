--------------------------- MODULE MCReservations ---------------------------
(* Small instances of Reservations: two pool rows, numbered in policy order. *)
EXTENDS Reservations, TLC

CONSTANTS r1, r2, r3, t1, t2

TwoRows == {1, 2}
OneEach == [p \in Pools |-> 1]
FirstRow == {<<1, -1>>, <<1, 1>>}

Itself == [p \in Pools |-> {p}]

\* Both strategies and both times of claiming; and a ledger whose row 1 has a
\* null lot, so that what is given back to it is taken from row 2 as well.
Declarations ==
  {[strategy |-> s, atSubmit |-> a, matches |-> Itself] :
     s \in {"conditional_update", "ledger_transaction"}, a \in BOOLEAN}
  \cup {[strategy |-> "ledger_transaction", atSubmit |-> FALSE,
         matches |-> [Itself EXCEPT ![1] = Pools]]}

Symmetric == Permutations(Records) \cup Permutations(Tx)
=============================================================================
