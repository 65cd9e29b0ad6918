---- MODULE MCStateMachines ----
(* A field of at most five values, with and without an approval flow.      *)
EXTENDS StateMachines

CONSTANTS draft, sent, done, refused, recalled

Plain ==
  [edges |-> {}, initial |-> {draft}, terminal |-> {done},
   enum |-> {draft, sent, done}, default |-> draft, nullable |-> FALSE,
   locked |-> {}, proxyLocked |-> {}, edit |-> {"main"},
   serializable |-> FALSE, approval |-> FALSE, withdrawable |-> FALSE,
   terminalReject |-> FALSE, submit |-> Null, approved |-> Null,
   rejected |-> Null, withdrawn |-> Null]

(* Any diagram over three states that starts at draft; a default or none.  *)
Three == {draft, sent, done}
PlainSchemas ==
  {[Plain EXCEPT !.edges = g, !.terminal = t, !.enum = m, !.initial = i,
                 !.locked = l, !.edit = v, !.default = IF n THEN Null ELSE draft,
                 !.nullable = n] :
     g \in {x \cup y : x \in SUBSET {p \in Three \X Three : p[1] # p[2]},
                       y \in {{}, {<<sent, sent>>}}},
     t \in {{}, {done}, {sent}}, m \in {Three, Three \cup {refused}},
     i \in {{draft}, {draft, sent}}, l \in {{}, {done}}, n \in BOOLEAN,
     v \in {{}, {"main"}}}

(* A review flow, some of its edges drawn or not, with every variant of    *)
(* rejection, withdrawal, editing and locking.                             *)
Review ==
  [Plain EXCEPT
     !.edges = {<<draft, sent>>, <<sent, done>>, <<sent, refused>>},
     !.terminal = {done, refused},
     !.enum = {draft, sent, done, refused}, !.approval = TRUE,
     !.submit = sent, !.approved = done, !.rejected = refused]

ReviewSchemas ==
  {[Review EXCEPT !.edges = @ \cup g \cup {<<w, sent>>} \cup {<<sent, w>>}, !.edit = v,
                  !.enum = @ \cup {w}, !.terminalReject = t, !.withdrawn = w,
                  !.withdrawable = TRUE, !.serializable = z,
                  !.proxyLocked = l] :
     g \in SUBSET {<<refused, sent>>, <<refused, draft>>, <<done, draft>>,
                   <<sent, draft>>, <<refused, done>>},
     v \in SUBSET Views, t \in BOOLEAN, z \in BOOLEAN,
     w \in {draft, recalled}, l \in {{}, {draft}}}

(* Decided once and for all at creation: no submit_on, nothing to edit.    *)
OnceSchemas ==
  {[Review EXCEPT !.submit = Null, !.edit = v, !.terminalReject = t,
                  !.approved = a, !.serializable = TRUE] :
     v \in SUBSET Views, t \in BOOLEAN, a \in {done, Null}}

MCSchemas == {c \in PlainSchemas \cup ReviewSchemas \cup OnceSchemas : WellFormed(c)}
====
