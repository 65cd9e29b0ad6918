---- MODULE RecordVersionsProofs ----
(***************************************************************************)
(* The properties of RecordVersions for any identities, versions and       *)
(* sessions.  All but the one about open drafts assume that a guarded edit *)
(* or deletion writes only while its guard holds.                          *)
(***************************************************************************)
EXTENDS RecordVersions, Sequences, FiniteSetTheorems, TLAPS

-----------------------------------------------------------------------------
(* The inductive invariant. *)

(* The number of the current version, which is the highest of its identity. *)
Peak(i) == IF current[i] = NoVersion THEN 0 ELSE number[current[i]]

(* Approved versions are the numbered ones; an identity numbers them from 1 *)
(* to the number of its current version, each number once.                  *)
ApprovedAreNumbered == \A v \in Versions : state[v] = "approved" <=> number[v] # 0
NumbersDistinct ==
  \A u, v \in Versions : number[u] # 0 /\ number[u] = number[v] /\ of[u] = of[v] => u = v
CurrentIsTop ==
  \A i \in Identities :
    IF current[i] = NoVersion THEN Numbered(i) = {}
    ELSE current[i] \in Numbered(i) /\ \A v \in Numbered(i) : number[v] <= number[current[i]]
NoGaps ==
  \A i \in Identities : \A n \in 1..Peak(i) : \E v \in Numbered(i) : number[v] = n

NumberInv == ApprovedAreNumbered /\ NumbersDistinct /\ CurrentIsTop /\ NoGaps

(* What a request knows between its two statements. *)
CreateKnows(s) ==
  pc[s] = "create_checked" => state[work[s].v] = "unused" /\ identity[work[s].i] # "deleted"
EditKnows(s) == pc[s] = "edit_read" => work[s].n = 0
ApproveKnows(s) ==
  pc[s] = "approve_read" =>
    /\ state[work[s].v] = "pending" /\ of[work[s].v] = work[s].i
    /\ work[s].n \in 1..(Peak(work[s].i) + 1)

(* Two requests never create, or approve, one version. *)
Apart ==
  \A s, t \in Sessions :
    pc[s] = pc[t] /\ pc[s] \in {"create_checked", "approve_read"} /\ work[s].v = work[t].v
    => s = t

(* The identity of a version is there. *)
IdentityKept == \A v \in Versions : Exists(v) => identity[of[v]] # "deleted"

WorkInv ==
  /\ \A s \in Sessions : CreateKnows(s) /\ EditKnows(s) /\ ApproveKnows(s)
  /\ Apart
  /\ IdentityKept

VersionInv == TypeOK /\ NumberInv /\ WorkInv

-----------------------------------------------------------------------------
(* The highest number is that of the current version. *)
LEMMA TopIsPeak ==
  ASSUME TypeOK, CurrentIsTop, NEW i \in Identities
  PROVE  Top(i) = Peak(i) /\ Peak(i) \in Nat
<1>1. number \in [Versions -> Nat] /\ current[i] \in Versions \cup {NoVersion}
  <2>1. Cardinality(Versions) \in Nat
    BY FiniteAssumption, FS_CardinalityType
  <2> QED
    BY <2>1 DEF TypeOK, Numbers
<1>2. CASE current[i] = NoVersion
  BY <1>2 DEF CurrentIsTop, Top, Peak
<1>3. CASE current[i] # NoVersion
  <2>1. current[i] \in Numbered(i) /\ \A v \in Numbered(i) : number[v] <= number[current[i]]
    BY <1>3 DEF CurrentIsTop
  <2> DEFINE S == {number[v] : v \in Numbered(i)}
             IsTop(n) == \A v \in Numbered(i) : number[v] <= n
  <2>2. number[current[i]] \in S /\ IsTop(number[current[i]])
    BY <2>1
  <2>3. PICK m \in S : m = CHOOSE n \in S : IsTop(n)
    BY <2>2
  <2>4. IsTop(m)
    BY <2>2, <2>3
  <2>5. m = number[current[i]]
    BY <2>1, <2>2, <2>4, <1>1 DEF Numbered
  <2>6. Top(i) = m
    BY <2>1, <2>3 DEF Top
  <2> QED
    BY <2>5, <2>6, <1>3, <1>1, <2>1 DEF Peak, Numbered
<1> QED
  BY <1>2, <1>3

(* There is a number for each version that waits for its approval. *)
LEMMA NumberLeft ==
  ASSUME TypeOK, NumberInv, NEW i \in Identities,
         NEW v \in Versions, state[v] = "pending"
  PROVE  Peak(i) + 1 \in Numbers
<1> DEFINE k == Peak(i)
           f == [n \in 1..(k + 1) |-> IF n = k + 1 THEN v
                                      ELSE CHOOSE u \in Numbered(i) : number[u] = n]
<1>1. k \in Nat
  BY TopIsPeak DEF NumberInv
<1>2. v \notin Numbered(i)
  BY DEF NumberInv, ApprovedAreNumbered, Numbered
<1>3. ASSUME NEW n \in 1..(k + 1), n # k + 1
      PROVE  f[n] \in Numbered(i) /\ number[f[n]] = n
  <2>1. n \in 1..k
    BY <1>1, <1>3
  <2>2. \E u \in Numbered(i) : number[u] = n
    BY <2>1 DEF NumberInv, NoGaps
  <2> QED
    BY <1>3, <2>2
<1>4. f[k + 1] = v
  BY <1>1
<1>5. f \in Injection(1..(k + 1), Versions)
  <2>1. ASSUME NEW n \in 1..(k + 1)
        PROVE  f[n] \in Versions
    BY <1>3, <1>4 DEF Numbered
  <2>2. ASSUME NEW n \in 1..(k + 1), NEW m \in 1..(k + 1), f[n] = f[m]
        PROVE  n = m
    <3> HIDE DEF f, k
    <3>1. n = k + 1 <=> m = k + 1
      BY <1>2, <1>3, <1>4, <2>2
    <3>2. CASE n # k + 1
      BY <1>3, <2>2, <3>1, <3>2
    <3> QED
      BY <3>1, <3>2
  <2> HIDE DEF f
  <2>3. f \in [1..(k + 1) -> Versions]
    BY <2>1 DEF f
  <2> QED
    BY <2>2, <2>3 DEF Injection, IsInjective
<1>6. Cardinality(1..(k + 1)) <= Cardinality(Versions)
  <2> HIDE DEF f
  <2> QED
    BY <1>5, FS_Injection, FiniteAssumption
<1>7. Cardinality(1..(k + 1)) = k + 1
  BY <1>1, FS_Interval
<1>8. Cardinality(Versions) \in Nat
  BY FiniteAssumption, FS_CardinalityType
<1> HIDE DEF k, f
<1>9. k + 1 \in 0..Cardinality(Versions)
  BY <1>1, <1>6, <1>7, <1>8
<1> QED
  BY <1>9 DEF k, Numbers

-----------------------------------------------------------------------------
(* Steps that number no version leave every history as it is. *)
HistoriesStay ==
  /\ number' = number /\ current' = current
  /\ \A v \in Versions : (number[v] # 0 => of'[v] = of[v])
                         /\ (state'[v] = "approved" <=> state[v] = "approved")

(* A version of i is approved and takes the next number. *)
Approves(v, i) ==
  /\ state[v] = "pending" /\ of[v] = i
  /\ Assigned(v, i, Peak(i) + 1)
  /\ UNCHANGED <<identity, of>>

LEMMA NumbersStay ==
  ASSUME NumberInv, HistoriesStay
  PROVE  NumberInv' /\ (\A i : Numbered(i)' = Numbered(i)) /\ \A i : Peak(i)' = Peak(i)
<1>1. \A i : Numbered(i)' = Numbered(i)
  BY DEF HistoriesStay, NumberInv, ApprovedAreNumbered, NumbersDistinct, Numbered
<1>2. \A i : Peak(i)' = Peak(i)
  BY DEF HistoriesStay, Peak
<1> QED
  BY <1>1, <1>2 DEF HistoriesStay, NumberInv, ApprovedAreNumbered, NumbersDistinct,
     CurrentIsTop, NoGaps

LEMMA NumberAssigned ==
  ASSUME TypeOK, NumberInv, NEW i \in Identities, NEW v \in Versions, Approves(v, i)
  PROVE  /\ NumberInv'
         /\ Numbered(i)' = Numbered(i) \cup {v}
         /\ Peak(i)' = Peak(i) + 1
         /\ \A j \in Identities \ {i} : Numbered(j)' = Numbered(j) /\ Peak(j)' = Peak(j)
<1> DEFINE n == Peak(i) + 1
<1>1. n \in Nat /\ n # 0 /\ Peak(i) = n - 1
  BY TopIsPeak DEF NumberInv
<1>2. /\ state \in [Versions -> VersionState] /\ number \in [Versions -> Numbers]
      /\ current \in [Identities -> Versions \cup {NoVersion}]
  BY DEF TypeOK
<1>3. Numbers \subseteq Nat
  BY FiniteAssumption, FS_CardinalityType DEF Numbers
<1>4. /\ state' = [state EXCEPT ![v] = "approved"] /\ number' = [number EXCEPT ![v] = n]
      /\ current' = [current EXCEPT ![i] = v] /\ of' = of /\ of[v] = i
      /\ state[v] = "pending"
  BY DEF Approves, Assigned
<1> HIDE DEF n
<1>5. number[v] = 0
  BY <1>4 DEF NumberInv, ApprovedAreNumbered
<1>6. Numbered(i)' = Numbered(i) \cup {v}
  BY <1>1, <1>2, <1>4 DEF Numbered
<1>7. \A j \in Identities \ {i} : Numbered(j)' = Numbered(j)
  BY <1>2, <1>4 DEF Numbered
<1>8. Peak(i)' = n
  BY <1>2, <1>4, NullAssumption DEF Peak
<1>9. ASSUME NEW j \in Identities \ {i}
      PROVE  Peak(j)' = Peak(j)
  <2>1. current[j] # v
    BY <1>4, <1>7, <1>5, NullAssumption DEF NumberInv, CurrentIsTop, Numbered
  <2> QED
    BY <1>2, <1>4, <2>1 DEF Peak
<1>10. \A u \in Numbered(i) : number[u] <= n - 1
  BY <1>1 DEF NumberInv, CurrentIsTop, Peak
<1>11. ApprovedAreNumbered'
  BY <1>1, <1>2, <1>4 DEF NumberInv, ApprovedAreNumbered
<1>12. NumbersDistinct'
  <2> SUFFICES ASSUME NEW u \in Versions, NEW w \in Versions,
                      number'[u] # 0, number'[u] = number'[w], of[u] = of[w]
               PROVE  u = w
    BY <1>4 DEF NumbersDistinct
  <2>1. CASE u # v /\ w # v
    BY <2>1, <1>2, <1>4 DEF NumberInv, NumbersDistinct
  <2>2. ASSUME NEW x \in Versions, x # v, of[x] = i, number[x] = n
        PROVE  FALSE
    BY <1>1, <1>10, <2>2 DEF Numbered
  <2>3. number'[v] = n /\ (\A x \in Versions \ {v} : number'[x] = number[x])
    BY <1>2, <1>4
  <2> QED
    BY <2>1, <2>2, <2>3, <1>4
<1>13. CurrentIsTop'
  <2> SUFFICES ASSUME NEW j \in Identities
               PROVE  IF current'[j] = NoVersion THEN Numbered(j)' = {}
                      ELSE /\ current'[j] \in Numbered(j)'
                           /\ \A u \in Numbered(j)' : number'[u] <= number'[current'[j]]
    BY DEF CurrentIsTop
  <2>1. CASE j = i
    <3>1. current'[j] = v /\ v # NoVersion /\ number'[v] = n
      BY <2>1, <1>2, <1>4, NullAssumption
    <3>2. ASSUME NEW u \in Numbered(i)
          PROVE  number'[u] <= n
      <4>1. u \in Versions /\ number[u] \in Nat /\ number[u] <= n - 1
        BY <1>2, <1>3, <1>10 DEF Numbered
      <4>2. number'[u] = number[u] \/ number'[u] = n
        BY <4>1, <1>2, <1>4
      <4> QED
        BY <4>1, <4>2, <1>1
    <3> QED
      BY <2>1, <3>1, <3>2, <1>1, <1>6
  <2>2. CASE j # i
    <3>1. current'[j] = current[j] /\ Numbered(j)' = Numbered(j)
      BY <2>2, <1>2, <1>4, <1>7
    <3>2. \A u \in Numbered(j) : number'[u] = number[u]
      BY <1>2, <1>4, <1>5 DEF Numbered
    <3> QED
      BY <3>1, <3>2 DEF NumberInv, CurrentIsTop
  <2> QED
    BY <2>1, <2>2
<1>14. NoGaps'
  <2> SUFFICES ASSUME NEW j \in Identities, NEW m \in 1..Peak(j)'
               PROVE  \E u \in Numbered(j)' : number'[u] = m
    BY DEF NoGaps
  <2>1. \A k \in Identities : \A u \in Numbered(k) : number'[u] = number[u]
    BY <1>2, <1>4, <1>5 DEF Numbered
  <2>2. CASE j = i /\ m = n
    BY <2>2, <1>2, <1>4, <1>6
  <2>3. CASE j = i /\ m # n
    <3>1. m \in 1..Peak(i)
      BY <2>3, <1>1, <1>8
    <3> QED
      BY <3>1, <2>1, <2>3, <1>6 DEF NumberInv, NoGaps
  <2>4. CASE j # i
    <3>1. Numbered(j)' = Numbered(j) /\ m \in 1..Peak(j)
      BY <2>4, <1>7, <1>9
    <3> QED
      BY <3>1, <2>1 DEF NumberInv, NoGaps
  <2> QED
    BY <2>2, <2>3, <2>4
<1> QED
  BY <1>6, <1>7, <1>8, <1>9, <1>11, <1>12, <1>13, <1>14 DEF NumberInv, n
-----------------------------------------------------------------------------
(* Every action keeps the invariant, and numbers a version or none.         *)

USE DEF VersionState, Steps

LEMMA NumbersAreNaturals == Numbers \subseteq Nat /\ 0 \in Numbers
BY FiniteAssumption, FS_CardinalityType DEF Numbers

(* The session s goes on, or ends: the others and their versions stay apart. *)
LEMMA Begins ==
  ASSUME TypeOK, NEW s \in Sessions, NEW step \in Steps \ {"idle"},
         NEW v \in Versions \cup {NoVersion}, NEW i \in Identities, NEW n \in Numbers,
         Goto(s, step, v, i, n), step # "drop_read" => v # NoVersion, UNCHANGED <<records, history>>
  PROVE  /\ TypeOK'
         /\ pc'[s] = step /\ work'[s] = [v |-> v, i |-> i, n |-> n]
         /\ \A t \in Sessions \ {s} : pc'[t] = pc[t] /\ work'[t] = work[t]
<1>1. /\ pc' = [pc EXCEPT ![s] = step]
      /\ work' = [work EXCEPT ![s] = [v |-> v, i |-> i, n |-> n]]
  BY DEF Goto
<1>2. i # NoIdentity
  BY NullAssumption
<1>3. [v |-> v, i |-> i, n |-> n] \in Work
  BY DEF Work
<1>4. pc \in [Sessions -> Steps] /\ work \in [Sessions -> Work]
  BY DEF TypeOK
<1>5. /\ pc'[s] = step /\ work'[s] = [v |-> v, i |-> i, n |-> n]
      /\ \A t \in Sessions \ {s} : pc'[t] = pc[t] /\ work'[t] = work[t]
      /\ pc' \in [Sessions -> Steps] /\ work' \in [Sessions -> Work]
  BY <1>1, <1>3, <1>4
<1>6. \A t \in Sessions :
        /\ pc'[t] # "idle" => work'[t].i # NoIdentity
        /\ pc'[t] \notin {"idle", "drop_read"} => work'[t].v # NoVersion
  BY <1>2, <1>5 DEF TypeOK
<1> QED
  BY <1>5, <1>6 DEF TypeOK, Exists, records, history

LEMMA Ends ==
  ASSUME TypeOK, NEW s \in Sessions, Done(s)
  PROVE  /\ pc' \in [Sessions -> Steps] /\ work' \in [Sessions -> Work]
         /\ pc'[s] = "idle"
         /\ \A t \in Sessions \ {s} : pc'[t] = pc[t] /\ work'[t] = work[t]
         /\ \A t \in Sessions :
              /\ pc'[t] # "idle" => work'[t].i # NoIdentity
              /\ pc'[t] \notin {"idle", "drop_read"} => work'[t].v # NoVersion
<1>1. pc' = [pc EXCEPT ![s] = "idle"] /\ work' = [work EXCEPT ![s] = Blank]
  BY DEF Done
<1>2. Blank \in Work
  BY NumbersAreNaturals DEF Blank, Work
<1>3. pc \in [Sessions -> Steps] /\ work \in [Sessions -> Work]
  BY DEF TypeOK
<1>4. /\ pc' \in [Sessions -> Steps] /\ work' \in [Sessions -> Work]
      /\ pc'[s] = "idle"
      /\ \A t \in Sessions \ {s} : pc'[t] = pc[t] /\ work'[t] = work[t]
  BY <1>1, <1>2, <1>3
<1> QED
  BY <1>4 DEF TypeOK

LEMMA CreateCheckKeeps ==
  ASSUME VersionInv, NEW s \in Sessions, NEW v \in Versions, NEW i \in Identities,
         CreateCheck(s, v, i)
  PROVE  VersionInv' /\ HistoriesStay
<1>1. TypeOK /\ NumberInv /\ WorkInv
  BY DEF VersionInv
<1>2. /\ TypeOK' /\ pc'[s] = "create_checked" /\ work'[s] = [v |-> v, i |-> i, n |-> 0]
      /\ \A t \in Sessions \ {s} : pc'[t] = pc[t] /\ work'[t] = work[t]
  BY <1>1, Begins, NumbersAreNaturals, NullAssumption DEF CreateCheck
<1>3. HistoriesStay
  BY DEF CreateCheck, HistoriesStay, records
<1>4. NumberInv' /\ \A j : Peak(j)' = Peak(j)
  BY <1>1, <1>3, NumbersStay
<1>5. WorkInv'
  BY <1>1, <1>2, <1>4 DEF CreateCheck, WorkInv, CreateKnows, EditKnows, ApproveKnows, Apart,
     IdentityKept, Exists, records
<1> QED
  BY <1>2, <1>3, <1>4, <1>5 DEF VersionInv

LEMMA ReadsKeep ==
  ASSUME VersionInv, NEW s \in Sessions, NEW v \in Versions, NEW i \in Identities,
         EditRead(s, v, i) \/ DeleteRead(s, v)
  PROVE  VersionInv' /\ HistoriesStay
<1>1. TypeOK /\ NumberInv /\ WorkInv
  BY DEF VersionInv
<1>2. HistoriesStay /\ UNCHANGED <<records, history>>
  BY DEF EditRead, DeleteRead, HistoriesStay, records
<1>3. NumberInv' /\ \A j : Peak(j)' = Peak(j)
  BY <1>1, <1>2, NumbersStay
<1>4. CASE EditRead(s, v, i)
  <2>1. number[v] = 0 /\ number[v] \in Numbers
    BY <1>1, <1>4 DEF EditRead, Unlocked, NumberInv, ApprovedAreNumbered, TypeOK
  <2>2. /\ TypeOK' /\ pc'[s] = "edit_read" /\ work'[s] = [v |-> v, i |-> i, n |-> 0]
        /\ \A t \in Sessions \ {s} : pc'[t] = pc[t] /\ work'[t] = work[t]
    BY <1>1, <1>4, <2>1, Begins, NullAssumption DEF EditRead
  <2>3. WorkInv'
    BY <1>1, <1>2, <1>3, <2>2 DEF WorkInv, CreateKnows, EditKnows, ApproveKnows, Apart,
       IdentityKept, Exists, records
  <2> QED
    BY <1>2, <1>3, <2>2, <2>3 DEF VersionInv
<1>5. CASE DeleteRead(s, v)
  <2>1. of[v] \in Identities
    BY <1>1, <1>5 DEF DeleteRead, Unlocked, TypeOK, Exists
  <2>2. /\ TypeOK' /\ pc'[s] = "delete_read"
        /\ \A t \in Sessions \ {s} : pc'[t] = pc[t] /\ work'[t] = work[t]
    BY <1>1, <1>5, <2>1, Begins, NumbersAreNaturals, NullAssumption DEF DeleteRead
  <2>3. WorkInv'
    BY <1>1, <1>2, <1>3, <2>2 DEF WorkInv, CreateKnows, EditKnows, ApproveKnows, Apart,
       IdentityKept, Exists, records
  <2> QED
    BY <1>2, <1>3, <2>2, <2>3 DEF VersionInv
<1> QED
  BY <1>4, <1>5

LEMMA DropReadKeeps ==
  ASSUME VersionInv, NEW s \in Sessions, NEW i \in Identities, DropRead(s, i)
  PROVE  VersionInv'
<1>1. TypeOK /\ NumberInv /\ WorkInv
  BY DEF VersionInv
<1>2. HistoriesStay /\ UNCHANGED <<records, history>>
  BY DEF DropRead, HistoriesStay, records
<1>3. NumberInv' /\ \A j : Peak(j)' = Peak(j)
  BY <1>1, <1>2, NumbersStay
<1>4. /\ TypeOK' /\ pc'[s] = "drop_read"
      /\ \A t \in Sessions \ {s} : pc'[t] = pc[t] /\ work'[t] = work[t]
  BY <1>1, Begins, NumbersAreNaturals DEF DropRead
<1>5. WorkInv'
  BY <1>1, <1>2, <1>3, <1>4 DEF WorkInv, CreateKnows, EditKnows, ApproveKnows, Apart,
     IdentityKept, Exists, records
<1> QED
  BY <1>3, <1>4, <1>5 DEF VersionInv

LEMMA ApproveReadKeeps ==
  ASSUME VersionInv, NEW s \in Sessions, NEW v \in Versions, ApproveRead(s, v)
  PROVE  VersionInv' /\ HistoriesStay
<1>1. TypeOK /\ NumberInv /\ WorkInv
  BY DEF VersionInv
<1>2. HistoriesStay /\ UNCHANGED <<records, history>>
  BY DEF ApproveRead, HistoriesStay, records
<1>3. NumberInv' /\ \A j : Peak(j)' = Peak(j)
  BY <1>1, <1>2, NumbersStay
<1> DEFINE i == of[v]
           n == Top(i) + 1
<1>4. state[v] = "pending" /\ i \in Identities
  BY <1>1 DEF ApproveRead, TypeOK, Exists
<1>5. n = Peak(i) + 1 /\ Peak(i) \in Nat /\ n \in Numbers
  BY <1>1, <1>4, TopIsPeak, NumberLeft DEF NumberInv
<1> HIDE DEF i, n
<1>6. Goto(s, "approve_read", v, i, n)
  BY DEF ApproveRead, i, n
<1>7. /\ TypeOK' /\ pc'[s] = "approve_read" /\ work'[s] = [v |-> v, i |-> i, n |-> n]
      /\ \A t \in Sessions \ {s} : pc'[t] = pc[t] /\ work'[t] = work[t]
  BY <1>1, <1>2, <1>4, <1>5, <1>6, Begins, NullAssumption
<1>8. \A t \in Sessions : pc[t] = "approve_read" => work[t].v # v
  BY DEF ApproveRead, Locked
<1>9. of[v] = i
  BY DEF i
<1>10. n \in 1..(Peak(i) + 1)
  BY <1>5
<1>11. WorkInv'
  BY <1>1, <1>2, <1>3, <1>4, <1>7, <1>8, <1>9, <1>10 DEF WorkInv, CreateKnows, EditKnows,
     ApproveKnows, Apart, IdentityKept, Exists, records
<1> QED
  BY <1>2, <1>3, <1>7, <1>11 DEF VersionInv

LEMMA CreateCommitKeeps ==
  ASSUME VersionInv, NEW s \in Sessions, NEW value \in {"draft", "pending"},
         CreateCommit(s, value)
  PROVE  VersionInv' /\ HistoriesStay /\ UNCHANGED identity
<1>1. TypeOK /\ NumberInv /\ WorkInv
  BY DEF VersionInv
<1> DEFINE v == work[s].v
           i == work[s].i
<1>2. v \in Versions /\ i \in Identities /\ state[v] = "unused" /\ identity[i] # "deleted"
  BY <1>1 DEF CreateCommit, TypeOK, Work, WorkInv, CreateKnows
<1>3. /\ state' = [state EXCEPT ![v] = value] /\ of' = [of EXCEPT ![v] = i] /\ Done(s)
      /\ pc[s] = "create_checked" /\ UNCHANGED <<identity, current, number, moved>>
      /\ overlaps' = overlaps \cup {{v, u} : u \in BeingCreated(i) \ {v}}
  BY DEF CreateCommit
<1>4. \A t \in Sessions : pc[t] = "create_checked" => work[t].v \in Versions
  BY <1>1 DEF TypeOK, Work
<1>5. overlaps' \subseteq SUBSET Versions
  BY <1>1, <1>2, <1>3, <1>4 DEF BeingCreated, TypeOK
<1> HIDE DEF v, i
<1>6. TypeOK'
  BY <1>1, <1>2, <1>3, <1>5, Ends, NullAssumption DEF TypeOK, Exists
<1>7. HistoriesStay
  BY <1>1, <1>2, <1>3 DEF HistoriesStay, TypeOK, NumberInv, ApprovedAreNumbered
<1>8. NumberInv' /\ \A j : Peak(j)' = Peak(j)
  BY <1>1, <1>7, NumbersStay
<1>9. /\ pc'[s] = "idle"
      /\ \A t \in Sessions \ {s} : pc'[t] = pc[t] /\ work'[t] = work[t]
  BY <1>1, <1>3, Ends
<1>10. \A t \in Sessions \ {s} : pc[t] = "create_checked" => work[t].v # v
  BY <1>1, <1>3 DEF WorkInv, Apart, v
<1>11. \A u \in Versions : /\ u # v => state'[u] = state[u] /\ of'[u] = of[u]
                           /\ u = v => state'[u] = value /\ of'[u] = i
  BY <1>1, <1>2, <1>3 DEF TypeOK
<1>12. WorkInv'
  <2>1. \A t \in Sessions : CreateKnows(t)' /\ EditKnows(t)'
    BY <1>1, <1>3, <1>4, <1>9, <1>10, <1>11 DEF WorkInv, CreateKnows, EditKnows
  <2>2. ASSUME NEW t \in Sessions
        PROVE  ApproveKnows(t)'
    <3> SUFFICES ASSUME t # s, pc[t] = "approve_read"
                 PROVE  ApproveKnows(t)'
      BY <1>9 DEF ApproveKnows
    <3>1. work[t].v \in Versions /\ state[work[t].v] = "pending"
      BY <1>1 DEF TypeOK, Work, WorkInv, ApproveKnows
    <3>2. work'[t] = work[t] /\ work[t].v # v
      BY <3>1, <1>2, <1>9
    <3>3. state'[work[t].v] = "pending" /\ of'[work[t].v] = of[work[t].v]
      BY <3>1, <3>2, <1>11
    <3>4. ApproveKnows(t)
      BY <1>1 DEF WorkInv
    <3>5. number' = number /\ current' = current
      BY <1>7 DEF HistoriesStay
    <3>6. Peak(work[t].i)' = Peak(work[t].i)
      BY <3>2, <3>5 DEF Peak
    <3>7. of[work[t].v] = work[t].i /\ work[t].n \in 1..(Peak(work[t].i) + 1)
      BY <3>4 DEF ApproveKnows
    <3> QED
      BY <3>2, <3>3, <3>6, <3>7 DEF ApproveKnows
  <2>3. Apart' /\ IdentityKept'
    BY <1>1, <1>2, <1>3, <1>9, <1>11 DEF WorkInv, Apart, IdentityKept, Exists
  <2> QED
    BY <2>1, <2>2, <2>3 DEF WorkInv
<1> QED
  BY <1>3, <1>6, <1>7, <1>8, <1>12 DEF VersionInv

(* What an edit, a submission, a return or a final rejection may do: the    *)
(* state of a version that is neither approved nor unused, and the identity *)
(* of a draft.                                                             *)
LEMMA VersionMoves ==
  ASSUME VersionInv, NEW v \in Versions, state[v] \in {"draft", "pending"}, ~Locked(v),
         NEW value \in {"draft", "pending", "terminal"}, NEW i \in Identities,
         identity[i] # "deleted",
         state' = [state EXCEPT ![v] = value], of' = [of EXCEPT ![v] = i],
         number' = number, UNCHANGED <<identity, current>>
  PROVE  /\ HistoriesStay /\ NumberInv'
         /\ \A u \in Versions : Exists(u)' <=> of'[u] # NoIdentity
         /\ (\A s \in Sessions : \/ pc'[s] = pc[s] /\ work'[s] = work[s]
                                \/ pc'[s] = "idle") => WorkInv'
<1>1. TypeOK /\ NumberInv /\ WorkInv
  BY DEF VersionInv
<1>2. \A u \in Versions : /\ u # v => state'[u] = state[u] /\ of'[u] = of[u]
                          /\ u = v => state'[u] = value /\ of'[u] = i
  BY <1>1 DEF TypeOK
<1>3. HistoriesStay
  BY <1>1, <1>2 DEF HistoriesStay, NumberInv, ApprovedAreNumbered
<1>4. NumberInv' /\ \A j : Peak(j)' = Peak(j)
  BY <1>1, <1>3, NumbersStay
<1>5. \A u \in Versions : Exists(u)' <=> of'[u] # NoIdentity
  BY <1>1, <1>2, NullAssumption DEF TypeOK, Exists
<1>6. ASSUME \A s \in Sessions : \/ pc'[s] = pc[s] /\ work'[s] = work[s]
                                 \/ pc'[s] = "idle"
      PROVE  WorkInv'
  <2>1. ASSUME NEW t \in Sessions, pc[t] = "create_checked", pc'[t] = pc[t], work'[t] = work[t]
        PROVE  CreateKnows(t)'
    <3>1. work[t].v \in Versions /\ state[work[t].v] = "unused" /\ identity[work[t].i] # "deleted"
      BY <1>1, <2>1 DEF TypeOK, Work, WorkInv, CreateKnows
    <3>2. state'[work[t].v] = "unused"
      BY <1>2, <3>1
    <3> QED
      BY <2>1, <3>1, <3>2 DEF CreateKnows
  <2>2. ASSUME NEW t \in Sessions, pc[t] = "approve_read", pc'[t] = pc[t], work'[t] = work[t]
        PROVE  ApproveKnows(t)'
    <3>1. work[t].v \in Versions /\ work[t].v # v
      BY <1>1, <2>2 DEF TypeOK, Work, Locked
    <3>2. state'[work[t].v] = state[work[t].v] /\ of'[work[t].v] = of[work[t].v]
      BY <1>2, <3>1
    <3>3. ApproveKnows(t)
      BY <1>1 DEF WorkInv
    <3> QED
      BY <2>2, <3>2, <3>3, <1>3 DEF ApproveKnows, HistoriesStay, Peak
  <2>3. \A t \in Sessions : CreateKnows(t)' /\ EditKnows(t)' /\ ApproveKnows(t)'
    BY <1>1, <1>6, <2>1, <2>2 DEF WorkInv, CreateKnows, EditKnows, ApproveKnows
  <2>4. Apart'
    BY <1>1, <1>6 DEF WorkInv, Apart
  <2>5. IdentityKept'
    BY <1>1, <1>2 DEF WorkInv, IdentityKept, Exists
  <2> QED
    BY <2>3, <2>4, <2>5 DEF WorkInv
<1> QED
  BY <1>3, <1>4, <1>5, <1>6

LEMMA EditWriteKeeps ==
  ASSUME VersionInv, ~StaleWrites, NEW s \in Sessions, NEW value \in {"draft", "pending"},
         EditWrite(s, value)
  PROVE  VersionInv' /\ HistoriesStay /\ UNCHANGED identity
<1>1. TypeOK /\ NumberInv /\ WorkInv
  BY DEF VersionInv
<1> DEFINE v == work[s].v
           i == work[s].i
<1>2. v \in Versions /\ i \in Identities /\ work[s].n = 0 /\ state[v] = "draft"
  BY <1>1 DEF EditWrite, TypeOK, Work, WorkInv, EditKnows, Unlocked
<1>3. number[v] = 0 /\ number \in [Versions -> Numbers]
  BY <1>1, <1>2 DEF NumberInv, ApprovedAreNumbered, TypeOK
<1> HIDE DEF v, i
<1>4. /\ state' = [state EXCEPT ![v] = value] /\ of' = [of EXCEPT ![v] = i]
      /\ number' = [number EXCEPT ![v] = 0] /\ UNCHANGED <<identity, current, overlaps>>
      /\ ~Locked(v) /\ identity[i] # "deleted" /\ Done(s)
      /\ (moved' = moved \/ moved' = moved \cup {v})
  BY <1>2 DEF EditWrite, Unlocked, v, i
<1>5. number' = number
  BY <1>3, <1>4
<1>6. \A t \in Sessions : (pc'[t] = pc[t] /\ work'[t] = work[t]) \/ pc'[t] = "idle"
  BY <1>1, <1>4, Ends
<1>7. HistoriesStay /\ NumberInv' /\ WorkInv' /\ \A u \in Versions : Exists(u)' <=> of'[u] # NoIdentity
  BY <1>2, <1>4, <1>5, <1>6, VersionMoves
<1>8. TypeOK'
  BY <1>1, <1>2, <1>4, <1>5, <1>7, Ends DEF TypeOK
<1> QED
  BY <1>4, <1>7, <1>8 DEF VersionInv

LEMMA DecisionsKeep ==
  ASSUME VersionInv, NEW v \in Versions, Submit(v) \/ Return(v) \/ RejectForGood(v)
  PROVE  VersionInv' /\ HistoriesStay /\ UNCHANGED identity
<1>1. TypeOK /\ NumberInv /\ WorkInv
  BY DEF VersionInv
<1>2. PICK value \in {"draft", "pending", "terminal"} : state' = [state EXCEPT ![v] = value]
  BY DEF Submit, Return, RejectForGood
<1>3. /\ state[v] \in {"draft", "pending"} /\ of' = of /\ number' = number
      /\ UNCHANGED <<identity, current, local>>
      /\ overlaps' \subseteq overlaps /\ moved' \subseteq moved
  BY DEF Submit, Return, RejectForGood, history, Forgotten
<1>4. of[v] \in Identities /\ identity[of[v]] # "deleted" /\ of' = [of EXCEPT ![v] = of[v]]
  BY <1>1, <1>3 DEF TypeOK, Exists, WorkInv, IdentityKept
<1>5. ~Locked(v)
  BY <1>1 DEF Submit, Return, RejectForGood, Locked, WorkInv, ApproveKnows
<1>6. HistoriesStay /\ NumberInv' /\ WorkInv' /\ \A u \in Versions : Exists(u)' <=> of'[u] # NoIdentity
  BY <1>2, <1>3, <1>4, <1>5, VersionMoves DEF local
<1>7. TypeOK'
  BY <1>1, <1>2, <1>3, <1>6 DEF TypeOK, local
<1> QED
  BY <1>3, <1>6, <1>7 DEF VersionInv

(* An approval: the requests under way stay within what they know. *)
LEMMA ApprovesKeeps ==
  ASSUME VersionInv, NEW i \in Identities, NEW v \in Versions, Approves(v, i),
         Peak(i) + 1 \in Numbers,
         pc' \in [Sessions -> Steps], work' \in [Sessions -> Work],
         \A t \in Sessions : /\ pc'[t] # "idle" => work'[t].i # NoIdentity
                             /\ pc'[t] \notin {"idle", "drop_read"} => work'[t].v # NoVersion,
         \A t \in Sessions : \/ pc'[t] = "idle"
                             \/ /\ pc'[t] = pc[t] /\ work'[t] = work[t]
                                /\ pc[t] = "approve_read" => work[t].v # v
  PROVE  VersionInv'
<1>1. TypeOK /\ NumberInv /\ WorkInv
  BY DEF VersionInv
<1>2. /\ NumberInv' /\ Peak(i)' = Peak(i) + 1
      /\ \A j \in Identities \ {i} : Peak(j)' = Peak(j)
  BY <1>1, NumberAssigned
<1>3. /\ state' = [state EXCEPT ![v] = "approved"] /\ current' = [current EXCEPT ![i] = v]
      /\ number' = [number EXCEPT ![v] = Peak(i) + 1] /\ state[v] = "pending"
      /\ UNCHANGED <<identity, of>> /\ overlaps' \subseteq overlaps /\ moved' \subseteq moved
  BY DEF Approves, Assigned, Forgotten
<1>4. \A u \in Versions \ {v} : state'[u] = state[u]
  BY <1>1, <1>3 DEF TypeOK
<1>5. TypeOK'
  BY <1>1, <1>3 DEF TypeOK, Exists
<1>6. IdentityKept' /\ Apart' /\ \A t \in Sessions : EditKnows(t)'
  BY <1>1, <1>3 DEF TypeOK, WorkInv, IdentityKept, Exists, Apart, EditKnows
<1>7. ASSUME NEW t \in Sessions, pc'[t] = "create_checked"
      PROVE  CreateKnows(t)'
  <2>1. pc[t] = "create_checked" /\ work'[t] = work[t]
    BY <1>7
  <2>2. work[t].v \in Versions /\ state[work[t].v] = "unused" /\ identity[work[t].i] # "deleted"
    BY <1>1, <2>1 DEF TypeOK, Work, WorkInv, CreateKnows
  <2>3. state'[work[t].v] = "unused"
    BY <1>3, <1>4, <2>2
  <2> QED
    BY <1>3, <2>1, <2>2, <2>3 DEF CreateKnows
<1>8. ASSUME NEW t \in Sessions, pc'[t] = "approve_read"
      PROVE  ApproveKnows(t)'
  <2>1. pc[t] = "approve_read" /\ work'[t] = work[t] /\ work[t].v # v
    BY <1>8
  <2> DEFINE j == work[t].i
  <2>2. /\ work[t].v \in Versions /\ state[work[t].v] = "pending" /\ of[work[t].v] = j
        /\ work[t].n \in 1..(Peak(j) + 1) /\ j \in Identities
    BY <1>1, <2>1 DEF TypeOK, Work, WorkInv, ApproveKnows
  <2>3. state'[work[t].v] = "pending"
    BY <1>4, <2>1, <2>2
  <2>4. Peak(j) \in Nat
    BY <1>1, <2>2, TopIsPeak DEF NumberInv
  <2>5. Peak(j)' = Peak(j) \/ Peak(j)' = Peak(j) + 1
    <3>1. Peak(i)' = Peak(i) + 1 /\ \A k \in Identities \ {i} : Peak(k)' = Peak(k)
      BY <1>2
    <3>2. work'[t].i = work[t].i
      BY <2>1
    <3> QED
      BY <2>2, <3>1, <3>2 DEF Peak
  <2>6. work[t].n \in 1..(Peak(j)' + 1)
    BY <2>2, <2>4, <2>5
  <2> QED
    BY <1>3, <2>1, <2>2, <2>3, <2>6 DEF ApproveKnows
<1>9. WorkInv'
  BY <1>6, <1>7, <1>8 DEF WorkInv, CreateKnows, ApproveKnows
<1> QED
  BY <1>2, <1>5, <1>9 DEF VersionInv

LEMMA ApproveRestKeeps ==
  ASSUME VersionInv, NEW v \in Versions, ApproveRest(v)
  PROVE  VersionInv' /\ of[v] \in Identities /\ Approves(v, of[v])
<1>1. TypeOK /\ NumberInv /\ WorkInv
  BY DEF VersionInv
<1>2. of[v] \in Identities /\ state[v] = "pending"
  BY <1>1 DEF ApproveRest, TypeOK, Exists
<1>3. Top(of[v]) = Peak(of[v]) /\ Peak(of[v]) + 1 \in Numbers
  BY <1>1, <1>2, TopIsPeak, NumberLeft DEF NumberInv
<1>4. Approves(v, of[v])
  BY <1>2, <1>3 DEF ApproveRest, Approves
<1>5. \A t \in Sessions : pc[t] = "approve_read" => work[t].v # v
  BY DEF ApproveRest, Locked
<1>6. UNCHANGED local
  BY DEF ApproveRest
<1>7. VersionInv'
  BY <1>1, <1>2, <1>3, <1>4, <1>5, <1>6, ApprovesKeeps DEF TypeOK, local
<1> QED
  BY <1>2, <1>4, <1>7

LEMMA ApproveWriteKeeps ==
  ASSUME VersionInv, NEW s \in Sessions, ApproveWrite(s)
  PROVE  VersionInv' /\ \E v \in Versions, i \in Identities : Approves(v, i)
<1>1. TypeOK /\ NumberInv /\ WorkInv
  BY DEF VersionInv
<1> DEFINE v == work[s].v
           i == work[s].i
           n == work[s].n
<1>2. /\ v \in Versions /\ i \in Identities /\ n \in Numbers /\ state[v] = "pending"
      /\ of[v] = i /\ n \in 1..(Peak(i) + 1) /\ pc[s] = "approve_read"
  BY <1>1 DEF ApproveWrite, TypeOK, Work, WorkInv, ApproveKnows
<1>3. /\ NumberFree(i, n) /\ Assigned(v, i, n) /\ Done(s) /\ UNCHANGED <<identity, of>>
  BY DEF ApproveWrite
<1>4. \A t \in Sessions \ {s} : pc[t] = "approve_read" => work[t].v # v
  BY <1>1, <1>2 DEF WorkInv, Apart
<1> HIDE DEF v, i, n
<1>5. n = Peak(i) + 1
  <2>1. Peak(i) \in Nat
    BY <1>1, <1>2, TopIsPeak DEF NumberInv
  <2>2. n \notin 1..Peak(i)
    BY <1>1, <1>2, <1>3 DEF NumberFree, NumberInv, NoGaps
  <2> QED
    BY <1>2, <2>1, <2>2
<1>6. Approves(v, i)
  BY <1>2, <1>3, <1>5 DEF Approves
<1>7. /\ pc' \in [Sessions -> Steps] /\ work' \in [Sessions -> Work] /\ pc'[s] = "idle"
      /\ \A t \in Sessions \ {s} : pc'[t] = pc[t] /\ work'[t] = work[t]
      /\ \A t \in Sessions : /\ pc'[t] # "idle" => work'[t].i # NoIdentity
                             /\ pc'[t] \notin {"idle", "drop_read"} => work'[t].v # NoVersion
  BY <1>1, <1>3, Ends
<1>8. VersionInv'
  BY <1>2, <1>4, <1>5, <1>6, <1>7, ApprovesKeeps
<1> QED
  BY <1>2, <1>6, <1>8

(* Removing versions that have no number. *)
LEMMA RemovedKeeps ==
  ASSUME VersionInv, NEW s \in Sessions, Done(s),
         NEW gone \in SUBSET Versions, Removed(gone),
         \A v \in gone : number[v] = 0 /\ Exists(v) /\ ~Locked(v),
         identity' \in [Identities -> {"active", "retired", "deleted"}],
         \A i \in Identities : identity'[i] # identity[i] =>
           /\ \A v \in Versions : of[v] = i => v \in gone
           /\ BeingCreated(i) = {}
  PROVE  VersionInv' /\ HistoriesStay
<1>1. TypeOK /\ NumberInv /\ WorkInv
  BY DEF VersionInv
<1>2. /\ state' = [v \in Versions |-> IF v \in gone THEN "deleted" ELSE state[v]]
      /\ of' = [v \in Versions |-> IF v \in gone THEN NoIdentity ELSE of[v]]
      /\ number' = [v \in Versions |-> IF v \in gone THEN 0 ELSE number[v]]
      /\ current' = [i \in Identities |-> IF current[i] \in gone THEN NoVersion ELSE current[i]]
      /\ overlaps' \subseteq overlaps /\ moved' \subseteq moved
  BY DEF Removed, Forgotten
<1>3. number' = number
  BY <1>1, <1>2 DEF TypeOK
<1>4. current' = current
  <2>1. \A i \in Identities : current[i] \notin gone
    BY <1>1, NullAssumption DEF NumberInv, CurrentIsTop, Numbered
  <2> QED
    BY <1>1, <1>2, <2>1 DEF TypeOK
<1>5. HistoriesStay
  BY <1>1, <1>2, <1>3, <1>4 DEF HistoriesStay, NumberInv, ApprovedAreNumbered
<1>6. NumberInv' /\ \A j : Peak(j)' = Peak(j)
  BY <1>1, <1>5, NumbersStay
<1>7. /\ pc' \in [Sessions -> Steps] /\ work' \in [Sessions -> Work] /\ pc'[s] = "idle"
      /\ \A t \in Sessions \ {s} : pc'[t] = pc[t] /\ work'[t] = work[t]
      /\ \A t \in Sessions : /\ pc'[t] # "idle" => work'[t].i # NoIdentity
                             /\ pc'[t] \notin {"idle", "drop_read"} => work'[t].v # NoVersion
  BY <1>1, Ends
<1>8. TypeOK'
  BY <1>1, <1>2, <1>3, <1>4, <1>7 DEF TypeOK, Exists
<1>9. \A v \in Versions : v \notin gone => state'[v] = state[v] /\ of'[v] = of[v]
  BY <1>2
<1>10. ASSUME NEW t \in Sessions, pc'[t] = "create_checked"
       PROVE  CreateKnows(t)'
  <2>1. pc[t] = "create_checked" /\ work'[t] = work[t]
    BY <1>7, <1>10
  <2>2. /\ work[t].v \in Versions /\ work[t].i \in Identities
        /\ state[work[t].v] = "unused" /\ identity[work[t].i] # "deleted"
    BY <1>1, <2>1 DEF TypeOK, Work, WorkInv, CreateKnows
  <2>3. state'[work[t].v] = "unused"
    BY <1>9, <2>2 DEF Exists
  <2>4. identity'[work[t].i] = identity[work[t].i]
    BY <2>1, <2>2 DEF BeingCreated
  <2> QED
    BY <2>1, <2>2, <2>3, <2>4 DEF CreateKnows
<1>11. ASSUME NEW t \in Sessions, pc'[t] = "approve_read"
       PROVE  ApproveKnows(t)'
  <2>1. pc[t] = "approve_read" /\ work'[t] = work[t]
    BY <1>7, <1>11
  <2>2. work[t].v \in Versions /\ work[t].v \notin gone /\ ApproveKnows(t)
    BY <1>1, <2>1 DEF TypeOK, Work, WorkInv, Locked
  <2>3. state'[work[t].v] = state[work[t].v] /\ of'[work[t].v] = of[work[t].v]
    BY <1>9, <2>2
  <2> QED
    BY <1>3, <1>4, <2>1, <2>2, <2>3 DEF ApproveKnows, Peak
<1>12. Apart' /\ \A t \in Sessions : EditKnows(t)'
  BY <1>1, <1>7 DEF WorkInv, Apart, EditKnows
<1>13. IdentityKept'
  <2> SUFFICES ASSUME NEW v \in Versions, Exists(v)'
               PROVE  identity'[of'[v]] # "deleted"
    BY DEF IdentityKept
  <2>1. v \notin gone
    BY <1>2 DEF Exists
  <2>2. Exists(v) /\ of'[v] = of[v]
    BY <1>9, <2>1 DEF Exists
  <2>3. of[v] \in Identities /\ identity[of[v]] # "deleted"
    BY <1>1, <2>2 DEF TypeOK, WorkInv, IdentityKept
  <2>4. identity'[of[v]] = identity[of[v]]
    BY <2>1, <2>3
  <2> QED
    BY <2>2, <2>3, <2>4
<1> QED
  BY <1>5, <1>6, <1>8, <1>10, <1>11, <1>12, <1>13 DEF VersionInv, WorkInv, CreateKnows, ApproveKnows

LEMMA DeleteWriteKeeps ==
  ASSUME VersionInv, ~StaleWrites, NEW s \in Sessions, DeleteWrite(s)
  PROVE  VersionInv' /\ HistoriesStay /\ UNCHANGED identity
<1> DEFINE v == work[s].v
<1>1. v \in Versions /\ state[v] = "draft" /\ ~Locked(v) /\ Removed({v}) /\ Done(s)
      /\ UNCHANGED identity
  BY DEF DeleteWrite, VersionInv, TypeOK, Work, Unlocked
<1>2. number[v] = 0 /\ Exists(v)
  BY <1>1 DEF VersionInv, NumberInv, ApprovedAreNumbered, Exists
<1>3. identity' \in [Identities -> {"active", "retired", "deleted"}]
  BY <1>1 DEF VersionInv, TypeOK
<1> QED
  BY <1>1, <1>2, <1>3, RemovedKeeps

LEMMA DropWriteKeeps ==
  ASSUME VersionInv, ~StaleWrites, NEW s \in Sessions, DropWrite(s)
  PROVE  /\ VersionInv' /\ HistoriesStay
         /\ \E i \in Identities : /\ Numbered(i) = {} /\ identity[i] # "deleted"
                                  /\ identity' = [identity EXCEPT ![i] = "deleted"]
<1> DEFINE i == work[s].i
           gone == {v \in Versions : of[v] = i}
<1>1. i \in Identities
  BY DEF DropWrite, VersionInv, TypeOK, Work
<1>2. /\ identity[i] # "deleted" /\ identity' = [identity EXCEPT ![i] = "deleted"]
      /\ BeingCreated(i) = {} /\ Numbered(i) = {} /\ Removed(gone) /\ Done(s)
      /\ \A v \in Versions : of[v] = i => ~Locked(v)
  BY DEF DropWrite, Deletable
<1> HIDE DEF i
<1>3. \A v \in gone : number[v] = 0 /\ Exists(v) /\ ~Locked(v)
  BY <1>1, <1>2, NullAssumption DEF VersionInv, TypeOK, Numbered
<1>4. identity' \in [Identities -> {"active", "retired", "deleted"}]
  BY <1>2 DEF VersionInv, TypeOK
<1>5. \A j \in Identities : identity'[j] # identity[j] => j = i
  BY <1>2 DEF VersionInv, TypeOK
<1>6. VersionInv' /\ HistoriesStay
  BY <1>2, <1>3, <1>4, <1>5, RemovedKeeps
<1> QED
  BY <1>1, <1>2, <1>6

LEMMA OthersKeep ==
  ASSUME VersionInv,
         (\E s \in Sessions : Abort(s)) \/ (\E i \in Identities : Retire(i)) \/ UNCHANGED vars
  PROVE  VersionInv' /\ HistoriesStay
         /\ \A i \in Identities : identity'[i] = "deleted" <=> identity[i] = "deleted"
<1>1. TypeOK /\ NumberInv /\ WorkInv
  BY DEF VersionInv
<1>2. HistoriesStay /\ UNCHANGED <<current, state, of, number, history>>
  BY DEF Abort, Retire, vars, records, HistoriesStay
<1>3. NumberInv' /\ \A j : Peak(j)' = Peak(j)
  BY <1>1, <1>2, NumbersStay
<1>4. /\ identity' \in [Identities -> {"active", "retired", "deleted"}]
      /\ \A i \in Identities : identity'[i] = "deleted" <=> identity[i] = "deleted"
  BY <1>1 DEF TypeOK, Abort, Retire, vars, records
<1>5. /\ pc' \in [Sessions -> Steps] /\ work' \in [Sessions -> Work]
      /\ \A t \in Sessions : (pc'[t] = pc[t] /\ work'[t] = work[t]) \/ pc'[t] = "idle"
      /\ \A t \in Sessions : /\ pc'[t] # "idle" => work'[t].i # NoIdentity
                             /\ pc'[t] \notin {"idle", "drop_read"} => work'[t].v # NoVersion
  <2>1. CASE \E s \in Sessions : Abort(s)
    BY <1>1, <2>1, Ends DEF Abort
  <2>2. CASE UNCHANGED local
    BY <1>1, <2>2 DEF local, TypeOK
  <2> QED
    BY <2>1, <2>2 DEF Retire, vars
<1>6. TypeOK'
  BY <1>1, <1>2, <1>4, <1>5 DEF TypeOK, Exists, history
<1>7. WorkInv'
  <2>1. ASSUME NEW t \in Sessions
        PROVE  CreateKnows(t)' /\ EditKnows(t)' /\ ApproveKnows(t)'
    <3>1. CreateKnows(t) /\ EditKnows(t) /\ ApproveKnows(t)
      BY <1>1 DEF WorkInv
    <3>2. pc[t] = "create_checked" => work[t].i \in Identities
      BY <1>1 DEF TypeOK, Work
    <3> QED
      BY <1>2, <1>4, <1>5, <3>1, <3>2 DEF CreateKnows, EditKnows, ApproveKnows, Peak
  <2>2. Apart'
    BY <1>1, <1>5 DEF WorkInv, Apart
  <2>3. IdentityKept'
    BY <1>1, <1>2, <1>4 DEF WorkInv, IdentityKept, Exists, TypeOK
  <2> QED
    BY <2>1, <2>2, <2>3 DEF WorkInv
<1> QED
  BY <1>2, <1>3, <1>4, <1>6, <1>7 DEF VersionInv

-----------------------------------------------------------------------------
(* What a step is to the histories: nothing, an approval, or the end of an  *)
(* identity without one.                                                    *)
Quiet ==
  /\ HistoriesStay
  /\ \A i \in Identities : identity'[i] = "deleted" <=> identity[i] = "deleted"
Ending(i) ==
  /\ HistoriesStay
  /\ Numbered(i) = {} /\ identity[i] # "deleted"
  /\ identity' = [identity EXCEPT ![i] = "deleted"]

LEMMA InitVersions == Init => VersionInv
<1> SUFFICES ASSUME Init PROVE VersionInv
  OBVIOUS
<1>1. Blank \in Work
  BY NumbersAreNaturals DEF Blank, Work
<1>2. TypeOK
  BY <1>1, NumbersAreNaturals, NullAssumption DEF Init, TypeOK, Exists
<1>3. NumberInv
  BY DEF Init, NumberInv, ApprovedAreNumbered, NumbersDistinct, CurrentIsTop, NoGaps, Peak,
     Numbered
<1>4. WorkInv
  BY DEF Init, WorkInv, CreateKnows, EditKnows, ApproveKnows, Apart, IdentityKept, Exists
<1> QED
  BY <1>2, <1>3, <1>4 DEF VersionInv

LEMMA NextVersions ==
  ASSUME VersionInv, ~StaleWrites, [Next]_vars
  PROVE  /\ VersionInv'
         /\ \/ Quiet
            \/ \E i \in Identities : Ending(i)
            \/ \E v \in Versions, i \in Identities : Approves(v, i)
<1>1. CASE \E s \in Sessions, v \in Versions, i \in Identities :
             CreateCheck(s, v, i) \/ EditRead(s, v, i)
  BY <1>1, CreateCheckKeeps, ReadsKeep DEF Quiet, CreateCheck, EditRead, records
<1>2. CASE \E s \in Sessions, value \in {"draft", "pending"} :
             CreateCommit(s, value) \/ EditWrite(s, value)
  BY <1>2, CreateCommitKeeps, EditWriteKeeps DEF Quiet
<1>3. CASE \E s \in Sessions, v \in Versions : ApproveRead(s, v) \/ DeleteRead(s, v)
  <2>1. ASSUME NEW s \in Sessions, NEW v \in Versions, ApproveRead(s, v)
        PROVE  VersionInv' /\ Quiet
    BY <2>1, ApproveReadKeeps DEF Quiet, ApproveRead, records
  <2>2. ASSUME NEW s \in Sessions, NEW v \in Versions, DeleteRead(s, v)
        PROVE  VersionInv' /\ Quiet
    <3>1. of[v] \in Identities
      BY <2>2 DEF DeleteRead, Unlocked, VersionInv, TypeOK, Exists
    <3> QED
      BY <2>2, <3>1, ReadsKeep DEF Quiet, DeleteRead, records
  <2> QED
    BY <1>3, <2>1, <2>2
<1>4. CASE \E s \in Sessions, i \in Identities : DropRead(s, i)
  <2>1. ASSUME NEW s \in Sessions, NEW i \in Identities, DropRead(s, i)
        PROVE  VersionInv' /\ Quiet
    <3>1. HistoriesStay /\ UNCHANGED identity
      BY <2>1 DEF DropRead, HistoriesStay, records
    <3>2. VersionInv'
      BY <2>1, DropReadKeeps
    <3> QED
      BY <3>1, <3>2 DEF Quiet
  <2> QED
    BY <1>4, <2>1
<1>5. CASE \E s \in Sessions : ApproveWrite(s)
  BY <1>5, ApproveWriteKeeps
<1>6. CASE \E s \in Sessions : DeleteWrite(s)
  BY <1>6, DeleteWriteKeeps DEF Quiet
<1>7. CASE \E s \in Sessions : DropWrite(s)
  BY <1>7, DropWriteKeeps DEF Ending
<1>8. CASE \E v \in Versions : Submit(v) \/ Return(v) \/ RejectForGood(v)
  BY <1>8, DecisionsKeep DEF Quiet
<1>9. CASE \E v \in Versions : ApproveRest(v)
  BY <1>9, ApproveRestKeeps
<1>10. CASE (\E s \in Sessions : Abort(s)) \/ (\E i \in Identities : Retire(i)) \/ UNCHANGED vars
  BY <1>10, OthersKeep DEF Quiet
<1> QED
  BY <1>1, <1>2, <1>3, <1>4, <1>5, <1>6, <1>7, <1>8, <1>9, <1>10 DEF Next

LEMMA VersionInvHolds == ~StaleWrites => (Spec => []VersionInv)
<1> SUFFICES ASSUME ~StaleWrites PROVE Spec => []VersionInv
  OBVIOUS
<1>1. VersionInv /\ [Next]_vars => VersionInv'
  BY NextVersions
<1> QED
  BY <1>1, InitVersions, PTL DEF Spec

(* Every variable stays in its range: no number exceeds the versions there *)
(* are, and a version that exists points at an identity.                   *)
THEOREM TypeCorrect == ~StaleWrites => (Spec => []TypeOK)
<1>1. VersionInv => TypeOK
  BY DEF VersionInv
<1> QED
  BY <1>1, VersionInvHolds, PTL

(* For every number of identities, versions and overlapping requests, the  *)
(* current version of an identity is its highest-numbered one: no approval *)
(* that read the highest number before another one committed gets by the   *)
(* unique constraint.                                                      *)
THEOREM CurrentStaysNewest == ~StaleWrites => (Spec => []CurrentIsNewest)
<1>1. ASSUME VersionInv PROVE CurrentIsNewest
  <2> SUFFICES ASSUME NEW i \in Identities
               PROVE  IF Numbered(i) = {} THEN current[i] = NoVersion
                      ELSE /\ current[i] \in Numbered(i) /\ state[current[i]] = "approved"
                           /\ number[current[i]] = Top(i)
    BY DEF CurrentIsNewest
  <2>1. Top(i) = Peak(i)
    BY <1>1, TopIsPeak DEF VersionInv, NumberInv
  <2>2. current[i] # NoVersion => current[i] \in Numbered(i) /\ number[current[i]] = Top(i)
    BY <1>1, <2>1 DEF VersionInv, NumberInv, CurrentIsTop, Peak
  <2>3. current[i] = NoVersion <=> Numbered(i) = {}
    BY <1>1 DEF VersionInv, NumberInv, CurrentIsTop
  <2>4. \A v \in Numbered(i) : state[v] = "approved"
    BY <1>1 DEF VersionInv, NumberInv, ApprovedAreNumbered, Numbered
  <2> QED
    BY <2>2, <2>3, <2>4
<1> QED
  BY <1>1, VersionInvHolds, PTL

-----------------------------------------------------------------------------
(* The refinement. *)

LEMMA HistoryKnown ==
  ASSUME TypeOK, NumberInv, NEW i \in Identities
  PROVE  /\ Peak(i) \in Nat
         /\ HistoryOf(i) \in [1..Peak(i) -> Numbered(i)]
         /\ \A n \in 1..Peak(i) : number[HistoryOf(i)[n]] = n
         /\ \A n \in 1..Peak(i), v \in Numbered(i) : number[v] = n => HistoryOf(i)[n] = v
<1>1. Top(i) = Peak(i) /\ Peak(i) \in Nat
  BY TopIsPeak DEF NumberInv
<1>2. HistoryOf(i) = [n \in 1..Peak(i) |-> CHOOSE v \in Numbered(i) : number[v] = n]
  BY <1>1 DEF HistoryOf
<1>3. ASSUME NEW n \in 1..Peak(i)
      PROVE  HistoryOf(i)[n] \in Numbered(i) /\ number[HistoryOf(i)[n]] = n
  <2>1. \E v \in Numbered(i) : number[v] = n
    BY DEF NumberInv, NoGaps
  <2> QED
    BY <1>2, <2>1
<1>4. ASSUME NEW n \in 1..Peak(i), NEW v \in Numbered(i), number[v] = n
      PROVE  HistoryOf(i)[n] = v
  BY <1>1, <1>3, <1>4 DEF NumberInv, NumbersDistinct, Numbered
<1> QED
  BY <1>1, <1>2, <1>3, <1>4

(* The same as one formula, which then also holds of the next state. *)
Known(i) ==
  /\ Top(i) = Peak(i) /\ Peak(i) \in Nat
  /\ HistoryOf(i) \in [1..Peak(i) -> Numbered(i)]
  /\ \A n \in 1..Peak(i), v \in Numbered(i) : number[v] = n => HistoryOf(i)[n] = v

LEMMA HistoriesKnown == VersionInv => \A i \in Identities : Known(i)
BY HistoryKnown, TopIsPeak DEF VersionInv, NumberInv, Known

LEMMA HistoriesKnownNext == VersionInv' => \A i \in Identities : Known(i)'
<1>1. (VersionInv => \A i \in Identities : Known(i))'
  BY HistoriesKnown, PTL
<1> QED
  BY <1>1

(* The history a step that approves nothing leaves is the one it found. *)
LEMMA HistorySame ==
  ASSUME VersionInv, VersionInv', NEW i \in Identities,
         Numbered(i)' = Numbered(i), Peak(i)' = Peak(i),
         \A v \in Numbered(i) : number'[v] = number[v]
  PROVE  HistoryOf(i)' = HistoryOf(i)
<1>1. Top(i) = Peak(i) /\ Top(i)' = Peak(i)'
  BY HistoriesKnown, HistoriesKnownNext DEF Known
<1>2. \A n : (CHOOSE v \in Numbered(i) : number'[v] = n) = CHOOSE v \in Numbered(i) : number[v] = n
  OBVIOUS
<1> QED
  BY <1>1, <1>2 DEF HistoryOf

LEMMA HistoryGrows ==
  ASSUME VersionInv, VersionInv', NEW i \in Identities, NEW v \in Versions, Approves(v, i)
  PROVE  HistoryOf(i)' = Append(HistoryOf(i), v)
<1>1. /\ TypeOK /\ NumberInv /\ TypeOK' /\ NumberInv'
      /\ Numbered(i)' = Numbered(i) \cup {v} /\ Peak(i)' = Peak(i) + 1
  BY NumberAssigned DEF VersionInv
<1> DEFINE k == Peak(i)
           h == HistoryOf(i)
           H == HistoryOf(i)'
<1>2. /\ k \in Nat /\ h \in [1..k -> Numbered(i)] /\ (\A n \in 1..k : number[h[n]] = n)
  BY <1>1, HistoryKnown
<1>3. H \in [1..(k + 1) -> Numbered(i)']
      /\ \A n \in 1..(k + 1), u \in Numbered(i)' : number'[u] = n => H[n] = u
  BY <1>1, HistoriesKnownNext DEF Known
<1>4. /\ number' = [number EXCEPT ![v] = k + 1] /\ state[v] = "pending"
      /\ number \in [Versions -> Numbers]
  BY <1>1 DEF Approves, Assigned, TypeOK
<1>5. number[v] = 0
  BY <1>1, <1>4 DEF NumberInv, ApprovedAreNumbered
<1>6. \A u \in Numbered(i) : u \in Versions /\ u # v
  BY <1>5 DEF Numbered
<1> HIDE DEF k, h, H
<1>7. H[k + 1] = v
  BY <1>1, <1>2, <1>3, <1>4
<1>8. ASSUME NEW n \in 1..k
      PROVE  H[n] = h[n]
  <2>1. h[n] \in Numbered(i)' /\ number'[h[n]] = n
    BY <1>1, <1>2, <1>4, <1>6
  <2> QED
    BY <1>2, <1>3, <2>1
<1>9. h \in Seq(Versions) /\ Len(h) = k
  BY <1>2, <1>6
<1>10. /\ Append(h, v) \in Seq(Versions) /\ Len(Append(h, v)) = k + 1
       /\ \A n \in 1..(k + 1) : Append(h, v)[n] = IF n = k + 1 THEN v ELSE h[n]
  BY <1>2, <1>9
<1>11. H = Append(h, v)
  BY <1>2, <1>3, <1>7, <1>8, <1>10
<1> QED
  BY <1>11 DEF h, H

(* RecordVersions implements VersionHistory: whatever overlaps, histories   *)
(* grow only at their end, one version at a time, and an identity with a    *)
(* history is never deleted.                                               *)
THEOREM ImplementsHistory == ~StaleWrites => (Spec => RefinesHistory)
<1> SUFFICES ASSUME ~StaleWrites PROVE Spec => RefinesHistory
  OBVIOUS
<1>1. Init => History!Init
  <2> SUFFICES ASSUME Init PROVE History!Init
    OBVIOUS
  <2>1. \A i \in Identities : Top(i) = 0
    BY DEF Init, Top, Numbered
  <2>2. \A i \in Identities : HistoryOf(i) = <<>>
    BY <2>1 DEF HistoryOf
  <2> QED
    BY <2>2 DEF Init, History!Init
<1>2. ASSUME VersionInv, [Next]_vars
      PROVE  [History!Next]_<<[i \in Identities |-> HistoryOf(i)],
                              [i \in Identities |-> identity[i] # "deleted"]>>
  <2>1. VersionInv' /\ TypeOK /\ NumberInv
    BY <1>2, NextVersions DEF VersionInv
  <2>2. ASSUME HistoriesStay
        PROVE  [i \in Identities |-> HistoryOf(i)]' = [i \in Identities |-> HistoryOf(i)]
    <3>1. \A i \in Identities : HistoryOf(i)' = HistoryOf(i)
      BY <1>2, <2>1, <2>2, NumbersStay, HistorySame DEF HistoriesStay
    <3> QED
      BY <3>1
  <2>3. CASE Quiet
    <3>1. \A i \in Identities : (identity'[i] # "deleted") = (identity[i] # "deleted")
      BY <2>3 DEF Quiet
    <3> QED
      BY <2>2, <2>3, <3>1 DEF Quiet
  <2>4. CASE \E i \in Identities : Ending(i)
    <3>1. PICK i \in Identities : Ending(i)
      BY <2>4
    <3>2. HistoryOf(i) = <<>>
      <4>1. Top(i) = 0
        BY <3>1 DEF Ending, Top
      <4> QED
        BY <4>1 DEF HistoryOf
    <3>3. History!Remove(i)
      BY <2>1, <2>2, <3>1, <3>2 DEF History!Remove, Ending, TypeOK
    <3> QED
      BY <3>3 DEF History!Next
  <2>5. CASE \E v \in Versions, i \in Identities : Approves(v, i)
    <3>1. PICK v \in Versions, i \in Identities : Approves(v, i)
      BY <2>5
    <3>2. HistoryOf(i)' = Append(HistoryOf(i), v)
      BY <1>2, <2>1, <3>1, HistoryGrows
    <3>3. ASSUME NEW j \in Identities \ {i}
          PROVE  HistoryOf(j)' = HistoryOf(j)
      <4>1. Numbered(j)' = Numbered(j) /\ Peak(j)' = Peak(j)
        BY <2>1, <3>1, NumberAssigned
      <4>2. \A u \in Numbered(j) : number'[u] = number[u]
        BY <2>1, <3>1 DEF Approves, Assigned, Numbered, TypeOK
      <4> QED
        BY <1>2, <2>1, <4>1, <4>2, HistorySame
    <3>4. identity[i] # "deleted" /\ UNCHANGED identity
      BY <1>2, <3>1 DEF Approves, VersionInv, WorkInv, IdentityKept, Exists
    <3>5. ASSUME NEW j \in Identities, NEW n \in 1..Len(HistoryOf(j))
          PROVE  HistoryOf(j)[n] # v
      <4>1. number[v] = 0
        BY <2>1, <3>1 DEF Approves, NumberInv, ApprovedAreNumbered
      <4>2. HistoryOf(j)[n] \in Numbered(j)
        BY <2>1, HistoryKnown
      <4> QED
        BY <4>1, <4>2 DEF Numbered
    <3>6. History!Approve(i, v)
      BY <3>2, <3>3, <3>4, <3>5 DEF History!Approve
    <3> QED
      BY <3>6 DEF History!Next
  <2> QED
    BY <1>2, <2>3, <2>4, <2>5, NextVersions
<1> QED
  BY <1>1, <1>2, VersionInvHolds, PTL DEF Spec, RefinesHistory, History!Spec

-----------------------------------------------------------------------------
(* Open drafts. *)

(* What holds of two open drafts holds as well of an open draft and of one  *)
(* whose creation has been checked.                                         *)
Stayed(u, i) == IsOpen(u) /\ of[u] = i /\ u \notin moved
DraftInv ==
  /\ \A u, v \in Versions, i \in Identities :
       u # v /\ Stayed(u, i) /\ Stayed(v, i) => {u, v} \in overlaps
  /\ \A s \in Sessions, u \in Versions :
       pc[s] = "create_checked" /\ Stayed(u, work[s].i) => {work[s].v, u} \in overlaps

(* Closing versions, and forgetting their past, disturbs no others. *)
LEMMA ClosingKeepsDrafts ==
  ASSUME VersionInv, DraftInv, NEW closed \in SUBSET Versions, Forgotten(closed),
         \A v \in closed : state[v] # "unused",
         \A v \in Versions, i \in Identities \cup {NoIdentity} :
           IsOpen(v)' /\ of'[v] = i => v \notin closed /\ IsOpen(v) /\ of[v] = i,
         \A t \in Sessions : pc'[t] = "create_checked" =>
           pc[t] = "create_checked" /\ work'[t] = work[t]
  PROVE  DraftInv'
<1>1. ASSUME NEW v \in Versions, NEW i \in Identities, Stayed(v, i)'
      PROVE  Stayed(v, i) /\ v \notin closed
  BY <1>1 DEF Stayed, Forgotten
<1>2. ASSUME NEW u \in Versions \ closed, NEW v \in Versions \ closed, {u, v} \in overlaps
      PROVE  {u, v} \in overlaps'
  BY <1>2 DEF Forgotten
<1>3. ASSUME NEW u \in Versions, NEW v \in Versions, NEW i \in Identities,
             u # v, Stayed(u, i)', Stayed(v, i)'
      PROVE  {u, v} \in overlaps'
  BY <1>1, <1>2, <1>3 DEF DraftInv
<1>4. ASSUME NEW t \in Sessions, NEW u \in Versions,
             pc'[t] = "create_checked", Stayed(u, work[t].i)'
      PROVE  {work'[t].v, u} \in overlaps'
  <2>1. pc[t] = "create_checked" /\ work'[t] = work[t]
    BY <1>4
  <2>2. /\ work[t].v \in Versions /\ work[t].i \in Identities /\ state[work[t].v] = "unused"
    BY <2>1 DEF VersionInv, TypeOK, Work, WorkInv, CreateKnows
  <2>3. Stayed(u, work[t].i) /\ u \notin closed
    BY <1>1, <1>4, <2>1, <2>2
  <2> QED
    BY <1>2, <2>1, <2>2, <2>3 DEF DraftInv
<1> QED
  BY <1>3, <1>4 DEF DraftInv, Stayed

LEMMA CreateCheckDrafts ==
  ASSUME VersionInv, DraftInv, NEW s \in Sessions, NEW v \in Versions, NEW i \in Identities,
         CreateCheck(s, v, i)
  PROVE  DraftInv'
<1>1. /\ pc'[s] = "create_checked" /\ work'[s] = [v |-> v, i |-> i, n |-> 0]
      /\ \A t \in Sessions \ {s} : pc'[t] = pc[t] /\ work'[t] = work[t]
  BY Begins, NumbersAreNaturals, NullAssumption DEF VersionInv, CreateCheck
<1>2. UNCHANGED <<state, of, overlaps, moved>> /\ \A u \in Versions : ~Stayed(u, i)
  BY DEF CreateCheck, records, history, SingleOpenDraft, Stayed
<1> QED
  BY <1>1, <1>2 DEF DraftInv, Stayed, IsOpen

LEMMA CreateCommitDrafts ==
  ASSUME VersionInv, DraftInv, NEW s \in Sessions, NEW value \in {"draft", "pending"},
         CreateCommit(s, value)
  PROVE  DraftInv'
<1> DEFINE v == work[s].v
           i == work[s].i
<1>1. v \in Versions /\ i \in Identities /\ state[v] = "unused" /\ pc[s] = "create_checked"
  BY DEF CreateCommit, VersionInv, TypeOK, Work, WorkInv, CreateKnows
<1>2. /\ state' = [state EXCEPT ![v] = value] /\ of' = [of EXCEPT ![v] = i]
      /\ overlaps' = overlaps \cup {{v, u} : u \in BeingCreated(i) \ {v}}
      /\ moved' = moved
  BY DEF CreateCommit
<1>3. \A t \in Sessions : pc'[t] = "create_checked" =>
        t # s /\ pc[t] = "create_checked" /\ work'[t] = work[t]
  BY Ends DEF CreateCommit, VersionInv
<1>4. ASSUME NEW u \in Versions, NEW j \in Identities, Stayed(u, j)'
      PROVE  (u = v /\ j = i) \/ (u # v /\ Stayed(u, j))
  BY <1>1, <1>2, <1>4 DEF Stayed, IsOpen, VersionInv, TypeOK
<1>5. \A u \in Versions : Stayed(u, i) => {v, u} \in overlaps /\ {u, v} \in overlaps
  <2>1. \A u \in Versions : Stayed(u, i) => {v, u} \in overlaps
    BY <1>1 DEF DraftInv
  <2>2. \A u \in Versions : {v, u} = {u, v}
    OBVIOUS
  <2> QED
    BY <2>1, <2>2
<1>6. ASSUME NEW t \in Sessions, pc'[t] = "create_checked"
      PROVE  /\ pc[t] = "create_checked" /\ work'[t] = work[t]
             /\ work[t].v \in Versions /\ work[t].i \in Identities /\ work[t].v # v
             /\ work[t].i = i => {work[t].v, v} \in overlaps'
  <2>1. pc[t] = "create_checked" /\ work'[t] = work[t] /\ t # s
    BY <1>3, <1>6
  <2>2. work[t].v \in Versions /\ work[t].i \in Identities /\ work[t].v # v
    BY <1>1, <2>1 DEF VersionInv, TypeOK, Work, WorkInv, Apart
  <2>3. work[t].i = i => {v, work[t].v} \in overlaps'
    BY <1>2, <2>1, <2>2 DEF BeingCreated
  <2>4. {v, work[t].v} = {work[t].v, v}
    OBVIOUS
  <2> QED
    BY <2>1, <2>2, <2>3, <2>4
<1> HIDE DEF v, i
<1>7. ASSUME NEW u \in Versions, NEW w \in Versions, NEW j \in Identities,
             u # w, Stayed(u, j)', Stayed(w, j)'
      PROVE  {u, w} \in overlaps'
  <2>1. CASE u = v
    BY <2>1, <1>2, <1>4, <1>5, <1>7
  <2>2. CASE w = v
    BY <2>2, <1>2, <1>4, <1>5, <1>7
  <2>3. CASE u # v /\ w # v
    BY <2>3, <1>2, <1>4, <1>7 DEF DraftInv
  <2> QED
    BY <2>1, <2>2, <2>3
<1>8. ASSUME NEW t \in Sessions, NEW u \in Versions,
             pc'[t] = "create_checked", Stayed(u, work[t].i)'
      PROVE  {work'[t].v, u} \in overlaps'
  <2>1. CASE u = v
    BY <2>1, <1>4, <1>6, <1>8
  <2>2. CASE u # v
    <3>1. Stayed(u, work[t].i)
      BY <2>2, <1>4, <1>6, <1>8
    <3> QED
      BY <3>1, <1>2, <1>6, <1>8 DEF DraftInv
  <2> QED
    BY <2>1, <2>2
<1> QED
  BY <1>7, <1>8 DEF DraftInv

LEMMA EditWriteDrafts ==
  ASSUME VersionInv, DraftInv, ~StaleWrites, NEW s \in Sessions,
         NEW value \in {"draft", "pending"}, EditWrite(s, value)
  PROVE  DraftInv'
<1> DEFINE v == work[s].v
           i == work[s].i
<1>1. v \in Versions /\ state[v] = "draft" /\ IsOpen(v)
  BY DEF EditWrite, VersionInv, TypeOK, Work, Unlocked, IsOpen
<1>2. /\ state' = [state EXCEPT ![v] = value] /\ of' = [of EXCEPT ![v] = i]
      /\ overlaps' = overlaps
      /\ moved' = IF of[v] = i THEN moved ELSE moved \cup {v}
  BY <1>1 DEF EditWrite, Unlocked
<1>3. \A t \in Sessions : pc'[t] = "create_checked" =>
        pc[t] = "create_checked" /\ work'[t] = work[t]
  BY Ends DEF EditWrite, VersionInv
<1> HIDE DEF v, i
<1>4. ASSUME NEW u \in Versions, NEW j \in Identities, Stayed(u, j)'
      PROVE  Stayed(u, j)
  <2>1. CASE u = v
    BY <2>1, <1>1, <1>2, <1>4 DEF Stayed, VersionInv, TypeOK
  <2>2. CASE u # v
    BY <2>2, <1>2, <1>4 DEF Stayed, IsOpen, VersionInv, TypeOK
  <2> QED
    BY <2>1, <2>2
<1>5. ASSUME NEW t \in Sessions, NEW u \in Versions,
             pc'[t] = "create_checked", Stayed(u, work[t].i)'
      PROVE  {work'[t].v, u} \in overlaps'
  <2>1. pc[t] = "create_checked" /\ work'[t] = work[t] /\ work[t].i \in Identities
    BY <1>3, <1>5 DEF VersionInv, TypeOK, Work
  <2>2. Stayed(u, work[t].i)
    BY <1>4, <1>5, <2>1
  <2> QED
    BY <1>2, <2>1, <2>2 DEF DraftInv
<1> QED
  BY <1>2, <1>4, <1>5 DEF DraftInv

(* Steps that create no version and move none. *)
LEMMA OthersKeepDrafts ==
  ASSUME VersionInv, DraftInv, UNCHANGED <<state, of, history>>,
         \A t \in Sessions : pc'[t] = "create_checked" =>
           pc[t] = "create_checked" /\ work'[t] = work[t]
  PROVE  DraftInv'
<1>1. Forgotten({})
  BY DEF Forgotten, history, VersionInv, TypeOK
<1> QED
  BY <1>1, ClosingKeepsDrafts DEF IsOpen

LEMMA ApprovalDrafts ==
  ASSUME VersionInv, DraftInv, NEW v \in Versions, state[v] # "unused",
         NEW value \in {"approved", "terminal"}, state' = [state EXCEPT ![v] = value],
         of' = of, Forgotten({v}),
         \A t \in Sessions : pc'[t] = "create_checked" =>
           pc[t] = "create_checked" /\ work'[t] = work[t]
  PROVE  DraftInv'
<1>1. \A u \in Versions : IsOpen(u)' => u # v /\ IsOpen(u)
  BY DEF IsOpen, VersionInv, TypeOK
<1> QED
  BY <1>1, ClosingKeepsDrafts

LEMMA RemovalDrafts ==
  ASSUME VersionInv, DraftInv, NEW s \in Sessions, Done(s),
         NEW gone \in SUBSET Versions, Removed(gone), \A v \in gone : Exists(v)
  PROVE  DraftInv'
<1>1. \A u \in Versions : IsOpen(u)' => u \notin gone /\ IsOpen(u) /\ of'[u] = of[u]
  BY DEF Removed, IsOpen
<1>2. \A v \in gone : state[v] # "unused"
  BY DEF Exists
<1>3. \A t \in Sessions : pc'[t] = "create_checked" =>
        pc[t] = "create_checked" /\ work'[t] = work[t]
  BY Ends DEF VersionInv
<1> QED
  BY <1>1, <1>2, <1>3, ClosingKeepsDrafts DEF Removed

LEMMA NextDrafts ==
  ASSUME VersionInv, DraftInv, ~StaleWrites, [Next]_vars
  PROVE  DraftInv'
<1>1. ASSUME NEW s \in Sessions, NEW v \in Versions, NEW i \in Identities,
             EditRead(s, v, i) \/ ApproveRead(s, v) \/ DeleteRead(s, v)
      PROVE  DraftInv'
  <2>1. UNCHANGED <<records, history>> /\ pc \in [Sessions -> Steps] /\ work \in [Sessions -> Work]
    BY <1>1 DEF EditRead, ApproveRead, DeleteRead, VersionInv, TypeOK
  <2>2. \A t \in Sessions : pc'[t] = "create_checked" =>
          pc[t] = "create_checked" /\ work'[t] = work[t]
    BY <1>1, <2>1 DEF EditRead, ApproveRead, DeleteRead, Goto
  <2> QED
    BY <2>1, <2>2, OthersKeepDrafts DEF records
<1>2. ASSUME NEW s \in Sessions, Abort(s)
      PROVE  DraftInv'
  <2>1. UNCHANGED <<records, history>>
    BY <1>2 DEF Abort
  <2>2. \A t \in Sessions : pc'[t] = "create_checked" =>
          pc[t] = "create_checked" /\ work'[t] = work[t]
    BY <1>2, Ends DEF Abort, VersionInv
  <2> QED
    BY <2>1, <2>2, OthersKeepDrafts DEF records
<1>3. CASE (\E i \in Identities : Retire(i)) \/ UNCHANGED vars
  BY <1>3, OthersKeepDrafts DEF Retire, vars, records, local
<1>4. ASSUME NEW v \in Versions, Submit(v) \/ Return(v)
      PROVE  DraftInv'
  <2>1. \A u \in Versions : IsOpen(u)' <=> IsOpen(u)
    BY <1>4 DEF Submit, Return, IsOpen, VersionInv, TypeOK
  <2>2. UNCHANGED <<of, local, history>> /\ Forgotten({})
    BY <1>4 DEF Submit, Return, Forgotten, history, VersionInv, TypeOK
  <2> QED
    BY <2>1, <2>2, ClosingKeepsDrafts DEF local
<1>5. ASSUME NEW v \in Versions, RejectForGood(v) \/ ApproveRest(v)
      PROVE  DraftInv'
  BY <1>5, ApprovalDrafts DEF RejectForGood, ApproveRest, Assigned, local
<1>6. ASSUME NEW s \in Sessions, ApproveWrite(s)
      PROVE  DraftInv'
  <2>1. work[s].v \in Versions
    BY <1>6 DEF ApproveWrite, VersionInv, TypeOK, Work
  <2>2. \A t \in Sessions : pc'[t] = "create_checked" =>
          pc[t] = "create_checked" /\ work'[t] = work[t]
    BY <1>6, Ends DEF ApproveWrite, VersionInv
  <2> QED
    BY <1>6, <2>1, <2>2, ApprovalDrafts DEF ApproveWrite, Assigned
<1>7. ASSUME NEW s \in Sessions, DeleteWrite(s)
      PROVE  DraftInv'
  <2>1. work[s].v \in Versions
    BY <1>7 DEF DeleteWrite, VersionInv, TypeOK, Work
  <2> QED
    BY <1>7, <2>1, RemovalDrafts DEF DeleteWrite
<1>8. ASSUME NEW s \in Sessions, DropWrite(s)
      PROVE  DraftInv'
  <2>1. work[s].i \in Identities
    BY <1>8 DEF DropWrite, VersionInv, TypeOK, Work
  <2>2. \A v \in Versions : of[v] = work[s].i => Exists(v)
    BY <2>1, NullAssumption DEF VersionInv, TypeOK
  <2> QED
    BY <1>8, <2>2, RemovalDrafts DEF DropWrite
<1>9. ASSUME NEW s \in Sessions, NEW v \in Versions, NEW i \in Identities, CreateCheck(s, v, i)
      PROVE  DraftInv'
  BY <1>9, CreateCheckDrafts
<1>10. ASSUME NEW s \in Sessions, NEW value \in {"draft", "pending"},
              CreateCommit(s, value) \/ EditWrite(s, value)
       PROVE  DraftInv'
  BY <1>10, CreateCommitDrafts, EditWriteDrafts
<1>11. ASSUME NEW s \in Sessions, NEW v \in Versions, ApproveRead(s, v) \/ DeleteRead(s, v)
       PROVE  DraftInv'
  <2>1. of[v] \in Identities
    BY <1>11 DEF ApproveRead, DeleteRead, Unlocked, VersionInv, TypeOK, Exists
  <2> QED
    BY <1>1, <1>11, <2>1
<1>12. ASSUME NEW s \in Sessions, NEW i \in Identities, DropRead(s, i)
       PROVE  DraftInv'
  <2>1. UNCHANGED <<records, history>>
    BY <1>12 DEF DropRead
  <2>2. \A t \in Sessions : pc'[t] = "create_checked" =>
          pc[t] = "create_checked" /\ work'[t] = work[t]
    BY <1>12 DEF DropRead, Goto, VersionInv, TypeOK
  <2> QED
    BY <2>1, <2>2, OthersKeepDrafts DEF records
<1> QED
  BY <1>1, <1>2, <1>3, <1>4, <1>5, <1>6, <1>7, <1>8, <1>9, <1>10, <1>11, <1>12 DEF Next

(* For every number of overlapping creations, a second open draft of an     *)
(* identity is the work of overlapping creations or of an edit that moved   *)
(* one: what a creation finds committed, it refuses.                        *)
THEOREM DraftsOverlapped == ~StaleWrites => (Spec => []OpenDraftsOverlapped)
<1> SUFFICES ASSUME ~StaleWrites PROVE Spec => []OpenDraftsOverlapped
  OBVIOUS
<1>1. Init => DraftInv
  BY DEF Init, DraftInv, Stayed, IsOpen
<1>2. VersionInv /\ DraftInv /\ [Next]_vars => DraftInv'
  BY NextDrafts
<1>3. ASSUME VersionInv, DraftInv PROVE OpenDraftsOverlapped
  <2> SUFFICES ASSUME NEW u \in Versions, NEW v \in Versions, u # v, IsOpen(u), IsOpen(v),
                      of[u] = of[v], {u, v} \cap moved = {}
               PROVE  {u, v} \in overlaps
    BY DEF OpenDraftsOverlapped
  <2>1. of[u] \in Identities
    BY <1>3 DEF VersionInv, TypeOK, IsOpen, Exists
  <2> QED
    BY <1>3, <2>1 DEF DraftInv, Stayed
<1> QED
  BY <1>1, <1>2, <1>3, VersionInvHolds, PTL DEF Spec
====
