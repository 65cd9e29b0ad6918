------------------------------- MODULE MCPayments -------------------------------
(* One record and one session, with three requests, deliveries and pages at *)
(* the same time and one statement that fails.                             *)
EXTENDS Payments
================================================================================
