--------------------- MODULE InvocationCoordinatorProofs ---------------------
(***************************************************************************)
(* For any number of invocation ids and requests, any lease and any number *)
(* of tombstones: the permit counts are exact, a terminal reply proves that *)
(* the invocation has no permit left, and a cancelled one is never told to *)
(* have finished.                                                          *)
(***************************************************************************)
EXTENDS InvocationCoordinator, SequenceTheorems, FiniteSetTheorems, TLAPS

-----------------------------------------------------------------------------
(* The inductive invariant.                                                *)

\* A live record has the stamp of a start, where there is none, no count is
\* left behind, and only a closed record is to drain.
RecordsOK ==
    \A id \in Ids :
        /\ records[id].born <= started
        /\ Live(id) => records[id].born # 0
        /\ ~Live(id) => records[id] = NoRecord
        /\ records[id].drain # "none" => records[id].state = "cancelling"

\* x names an invocation that has ended.
Ended(x) ==
    /\ x.id \in Ids /\ x.born \in 1..started
    /\ records[x.id].born # x.born

HistoryOK ==
    /\ \A p \in proofs : Ended(p)
    /\ \A n \in DOMAIN tombstones : Ended(tombstones[n])

\* Shutdown admits nothing and resolves when no permit is left.
ClosingOK ==
    /\ closing => \A id \in Ids : ~Active(id)
    /\ closed => closing /\ globalZero

CoordinatorInv ==
    /\ TypeOK
    /\ RecordsOK
    /\ CountsMatch
    /\ HistoryOK
    /\ ClosingOK

RecordType ==
    [state : {"none", "active", "cancelling"},
     drain : {"none", "finished", "cancelled"},
     work : Nat, commit : Nat, lease : 0..LeaseTicks, born : Nat]
TombstoneType == [id : Ids, born : Nat, state : {"finished", "cancelled"}]

-----------------------------------------------------------------------------
(* Sequences of tombstones.                                                *)

\* Cutting, appending and joining invent no row.
LEMMA SubSeqKeeps ==
    ASSUME NEW T, NEW s \in Seq(T), NEW a \in 1..(Len(s) + 1),
           NEW b \in (a - 1)..Len(s)
    PROVE  /\ SubSeq(s, a, b) \in Seq(T)
           /\ \A n \in DOMAIN SubSeq(s, a, b) :
                 \E m \in DOMAIN s : SubSeq(s, a, b)[n] = s[m]
<1>1. Len(s) \in Nat /\ DOMAIN s = 1..Len(s)
  BY LenProperties
<1>2. /\ SubSeq(s, a, b) \in Seq(T) /\ Len(SubSeq(s, a, b)) = b - a + 1
      /\ \A i \in 1..(b - a + 1) : SubSeq(s, a, b)[i] = s[a + i - 1]
  BY SubSeqProperties
<1>3. DOMAIN SubSeq(s, a, b) = 1..(b - a + 1)
  BY <1>2, LenProperties
<1>4. \A i \in 1..(b - a + 1) : a + i - 1 \in 1..Len(s)
  BY <1>1
<1> QED BY <1>1, <1>2, <1>3, <1>4

\* Eviction keeps the newest rows.
LEMMA NewestKeeps ==
    ASSUME NEW T, NEW s \in Seq(T)
    PROVE  /\ Newest(s) \in Seq(T)
           /\ \A n \in DOMAIN Newest(s) : \E m \in DOMAIN s : Newest(s)[n] = s[m]
<1>1. Len(s) \in Nat /\ DOMAIN s = 1..Len(s)
  BY LenProperties
<1>2. CASE Len(s) <= MaxTombstones
  BY <1>2 DEF Newest
<1>3. CASE ~(Len(s) <= MaxTombstones)
  <2>1. PICK a : /\ a = Len(s) - MaxTombstones + 1
                 /\ a \in 1..(Len(s) + 1) /\ Len(s) \in (a - 1)..Len(s)
    BY <1>1, <1>3, CoordinatorAssumption
  <2>2. Newest(s) = SubSeq(s, a, Len(s))
    BY <1>3, <2>1 DEF Newest
  <2> QED BY <2>1, <2>2, SubSeqKeeps
<1> QED BY <1>2, <1>3

LEMMA AppendKeeps ==
    ASSUME NEW T, NEW s \in Seq(T), NEW e \in T
    PROVE  /\ Append(s, e) \in Seq(T)
           /\ \A n \in DOMAIN Append(s, e) :
                 Append(s, e)[n] = e \/ \E m \in DOMAIN s : Append(s, e)[n] = s[m]
<1>1. Len(s) \in Nat /\ DOMAIN s = 1..Len(s)
  BY LenProperties
<1>2. /\ Append(s, e) \in Seq(T) /\ Len(Append(s, e)) = Len(s) + 1
      /\ \A i \in 1..Len(s) : Append(s, e)[i] = s[i]
      /\ Append(s, e)[Len(s) + 1] = e
  BY AppendProperties
<1>3. DOMAIN Append(s, e) = 1..(Len(s) + 1)
  BY <1>2, LenProperties
<1> QED BY <1>1, <1>2, <1>3

LEMMA ConcatKeeps ==
    ASSUME NEW T, NEW s \in Seq(T), NEW t \in Seq(T)
    PROVE  /\ s \o t \in Seq(T)
           /\ \A n \in DOMAIN (s \o t) :
                 \/ \E m \in DOMAIN s : (s \o t)[n] = s[m]
                 \/ \E m \in DOMAIN t : (s \o t)[n] = t[m]
<1>1. /\ Len(s) \in Nat /\ DOMAIN s = 1..Len(s)
      /\ Len(t) \in Nat /\ DOMAIN t = 1..Len(t)
  BY LenProperties
<1>2. /\ s \o t \in Seq(T) /\ Len(s \o t) = Len(s) + Len(t)
      /\ \A i \in 1..(Len(s) + Len(t)) :
            (s \o t)[i] = IF i <= Len(s) THEN s[i] ELSE t[i - Len(s)]
  BY ConcatProperties
<1>3. DOMAIN (s \o t) = 1..(Len(s) + Len(t))
  BY <1>2, LenProperties
<1>4. \A i \in 1..(Len(s) + Len(t)) : i <= Len(s) \/ i - Len(s) \in 1..Len(t)
  BY <1>1
<1> QED BY <1>1, <1>2, <1>3, <1>4

-----------------------------------------------------------------------------
(* Giving a record its new value.                                          *)

\* No request comes to hold a permit that it did not hold before.
NoNewPermit ==
    \A r \in Requests :
        /\ requests'[r].phase \in {"work", "commit"} =>
              /\ requests[r].phase \in {"work", "commit"}
              /\ requests'[r].id = requests[r].id
              /\ requests'[r].work = requests[r].work
        /\ requests'[r].phase = "commit" =>
              /\ requests[r].phase = "commit"
              /\ requests'[r].commit = requests[r].commit

RequestsTyped ==
    /\ requests \in [Requests -> [phase : {"none", "work", "commit", "settle"},
                                  id : Ids \cup {NoRequest.id}, work : Nat,
                                  commit : Nat, gone : BOOLEAN]]
    /\ \A r \in Requests : requests[r].phase # "none" => requests[r].id \in Ids

LEMMA HoldersFinite ==
    \A id, born : IsFiniteSet(WorkHolders(id, born)) /\ IsFiniteSet(CommitHolders(id, born))
<1>1. \A id, born : WorkHolders(id, born) \subseteq Requests
                   /\ CommitHolders(id, born) \subseteq Requests
  BY DEF WorkHolders, CommitHolders
<1> QED BY <1>1, CoordinatorAssumption, FS_Subset

\* An ended invocation stays ended.
LEMMA EndedStays ==
    ASSUME NEW x, Ended(x), started \in Nat, started' \in Nat, started <= started',
           \A id \in Ids : records'[id].born \in {records[id].born, 0, started + 1}
    PROVE  Ended(x)'
<1>1. x.id \in Ids /\ x.born \in 1..started /\ records[x.id].born # x.born
  BY DEF Ended
<1>2. x.born \in 1..started'
  BY <1>1
<1>3. x.born # 0 /\ x.born # started + 1
  BY <1>1
<1>4. records'[x.id].born # x.born
  BY <1>1, <1>3
<1> QED BY <1>1, <1>2, <1>4 DEF Ended

LEMMA SettleKeeps ==
    ASSUME CoordinatorInv,
           NEW id \in Ids, Live(id),
           NEW rec \in RecordType, rec.born = records[id].born, rec.state # "none",
           NEW asking, Settle(id, rec, asking),
           UNCHANGED <<closing, started>>, RequestsTyped', NoNewPermit,
           rec.work = Cardinality(WorkHolders(id, rec.born)'),
           rec.commit = Cardinality(CommitHolders(id, rec.born)'),
           \A o \in Ids \ {id}, b \in Nat :
               /\ WorkHolders(o, b)' = WorkHolders(o, b)
               /\ CommitHolders(o, b)' = CommitHolders(o, b),
           rec.drain # "none" => rec.state = "cancelling",
           closing => rec.state # "active",
           closed => activeCount(rec) = 0
    PROVE  CoordinatorInv'
<1> DEFINE new == IF Drains(rec) THEN NoRecord ELSE rec
<1>1. records' = [records EXCEPT ![id] = new]
  BY DEF Settle, terminalize
<1>2. records \in [Ids -> RecordType] /\ new \in RecordType
  BY CoordinatorAssumption DEF CoordinatorInv, TypeOK, RecordType, NoRecord
<1>3. records' \in [Ids -> RecordType]
  BY <1>1, <1>2
<1>4. /\ records'[id] = new
      /\ \A o \in Ids : o # id => records'[o] = records[o]
  BY <1>1, <1>2
<1>5. new.born \in {rec.born, 0}
  BY DEF NoRecord
<1>6. rec.born \in 1..started
  BY <1>2 DEF CoordinatorInv, RecordsOK, TypeOK, RecordType
<1>7. \A o \in Ids : records'[o].born \in {records[o].born, 0, started + 1}
  BY <1>4, <1>5
<1>8. \A x : Ended(x) => Ended(x)'
  <2>1. started \in Nat /\ started' = started /\ started <= started
    BY DEF CoordinatorInv, TypeOK
  <2> QED BY <1>7, <2>1, EndedStays
<1>9. tombstones' \in Seq(TombstoneType) /\ \A n \in DOMAIN tombstones' : Ended(tombstones[n])'
  <2>1. CASE ~Drains(rec)
    BY <1>8, <2>1 DEF Settle, CoordinatorInv, HistoryOK, TypeOK, TombstoneType, Ended
  <2>2. CASE Drains(rec)
    <3> DEFINE t == Tombstone(id, rec)
    <3>1. t \in TombstoneType
      BY <2>2 DEF Drains, Tombstone, TombstoneType, RecordType
    <3>2. tombstones \in Seq(TombstoneType)
      BY DEF CoordinatorInv, TypeOK, TombstoneType
    <3>3. tombstones' = Newest(Append(tombstones, t))
      BY <2>2 DEF Settle, terminalize
    <3>4. /\ tombstones' \in Seq(TombstoneType)
          /\ \A n \in DOMAIN tombstones' :
                tombstones'[n] = t
                \/ \E m \in DOMAIN tombstones : tombstones'[n] = tombstones[m]
      <4> DEFINE u == Append(tombstones, t)
      <4>1. /\ u \in Seq(TombstoneType)
            /\ \A n \in DOMAIN u :
                  u[n] = t \/ \E m \in DOMAIN tombstones : u[n] = tombstones[m]
        BY <3>1, <3>2, AppendKeeps
      <4> HIDE DEF u
      <4>2. /\ Newest(u) \in Seq(TombstoneType)
            /\ \A n \in DOMAIN Newest(u) : \E m \in DOMAIN u : Newest(u)[n] = u[m]
        BY <4>1, NewestKeeps
      <4> QED BY <3>3, <4>1, <4>2 DEF u
    <3>5. Ended(t)'
      BY <1>4, <1>6, <2>2 DEF Ended, Tombstone, NoRecord
    <3>6. \A m \in DOMAIN tombstones : Ended(tombstones[m])
      BY DEF CoordinatorInv, HistoryOK
    <3> QED BY <1>8, <3>4, <3>5, <3>6 DEF Ended
  <2> QED BY <2>1, <2>2
<1>10. \A p \in proofs' : Ended(p)'
  <2>1. CASE ~Drains(rec)
    BY <1>8, <2>1 DEF Settle, CoordinatorInv, HistoryOK
  <2>2. CASE Drains(rec)
    <3> SUFFICES ASSUME NEW p \in proofs' PROVE Ended(p)'
      OBVIOUS
    <3>1. p \in proofs \/ (p.id = id /\ p.born = rec.born)
      BY <2>2 DEF Settle
    <3>2. CASE p \in proofs
      BY <1>8, <3>2 DEF CoordinatorInv, HistoryOK
    <3>3. CASE p.id = id /\ p.born = rec.born
      BY <1>4, <1>6, <2>2, <3>3 DEF Ended, NoRecord
    <3> QED BY <3>1, <3>2, <3>3
  <2> QED BY <2>1, <2>2
<1>11. TypeOK'
  <2>1. closing' \in BOOLEAN /\ closed' \in BOOLEAN /\ started' \in Nat
    BY DEF CoordinatorInv, TypeOK, Settle
  <2> QED BY <1>3, <1>9, <2>1 DEF TypeOK, RecordType, RequestsTyped, TombstoneType
<1>12. RecordsOK'
  <2>1. new.born <= started /\ (new.state # "none" => new.born # 0)
        /\ (new.state = "none" => new = NoRecord)
        /\ (new.drain # "none" => new.state = "cancelling")
    BY <1>6 DEF NoRecord, CoordinatorInv, TypeOK
  <2> QED BY <1>4, <2>1 DEF CoordinatorInv, RecordsOK, Live
<1>13. CountsMatch'
  <2>1. ASSUME NEW o \in Ids, Live(o)'
        PROVE  /\ records'[o].work = Cardinality(WorkHolders(o, records[o].born)')
               /\ records'[o].commit = Cardinality(CommitHolders(o, records[o].born)')
    <3>1. PICK b : b = records'[o].born
      OBVIOUS
    <3>2. /\ WorkHolders(o, records[o].born)' = WorkHolders(o, b)'
          /\ CommitHolders(o, records[o].born)' = CommitHolders(o, b)'
      BY <3>1 DEF WorkHolders, CommitHolders
    <3>3. CASE o = id
      <4>1. records'[o] = rec /\ b = rec.born
        BY <1>4, <2>1, <3>1, <3>3 DEF Live, NoRecord
      <4> QED BY <3>2, <3>3, <4>1
    <3>4. CASE o # id
      <4>1. records'[o] = records[o] /\ Live(o) /\ records[o].born \in Nat
        BY <1>2, <1>4, <2>1, <3>4 DEF Live, RecordType
      <4>2. /\ WorkHolders(o, b)' = WorkHolders(o, b)
            /\ CommitHolders(o, b)' = CommitHolders(o, b)
        BY <3>1, <3>4, <4>1
      <4>3. /\ records[o].work = Cardinality(WorkHolders(o, b))
            /\ records[o].commit = Cardinality(CommitHolders(o, b))
        BY <3>1, <4>1 DEF CoordinatorInv, CountsMatch
      <4> QED BY <3>2, <4>1, <4>2, <4>3
    <3> QED BY <3>3, <3>4
  <2>2. ASSUME NEW r \in Requests, requests'[r].phase \in {"work", "commit"}
        PROVE  /\ records'[requests'[r].id].state # "none"
               /\ records'[requests'[r].id].born = requests'[r].work
               /\ requests'[r].phase = "commit" => requests'[r].commit = requests'[r].work
    <3>1. /\ requests'[r].id = requests[r].id /\ requests'[r].work = requests[r].work
          /\ requests[r].phase \in {"work", "commit"} /\ requests[r].id \in Ids
          /\ Live(requests[r].id) /\ records[requests[r].id].born = requests[r].work
      BY <2>2 DEF NoNewPermit, CoordinatorInv, CountsMatch, TypeOK
    <3>2. requests'[r].phase = "commit" => requests'[r].commit = requests'[r].work
      BY <2>2, <3>1 DEF NoNewPermit, CoordinatorInv, CountsMatch
    <3>3. CASE requests[r].id # id
      BY <1>4, <3>1, <3>2, <3>3 DEF Live
    <3>4. CASE requests[r].id = id
      <4>1. r \in WorkHolders(id, rec.born)'
        BY <2>2, <3>1, <3>4 DEF WorkHolders
      <4>2. IsFiniteSet(WorkHolders(id, rec.born)')
        <5>1. WorkHolders(id, rec.born)' \subseteq Requests
          BY DEF WorkHolders
        <5> QED BY <5>1, CoordinatorAssumption, FS_Subset
      <4>3. rec.work # 0
        BY <4>1, <4>2, FS_EmptySet
      <4>4. ~Drains(rec)
        BY <4>3 DEF Drains, activeCount, RecordType
      <4> QED BY <1>4, <3>1, <3>2, <3>4, <4>4
    <3> QED BY <3>3, <3>4
  <2> QED BY <2>1, <2>2 DEF CountsMatch, Live
<1>14. HistoryOK'
  BY <1>9, <1>10 DEF HistoryOK
<1>15. ClosingOK'
  <2>1. closing => \A o \in Ids : ~(records'[o].state = "active")
    BY <1>4 DEF CoordinatorInv, ClosingOK, Active, NoRecord
  <2>2. closed' => closing' /\ globalZero'
    <3>1. ASSUME closed PROVE \A o \in Ids : activeCount(records'[o]) = 0
      <4>1. activeCount(new) = 0
        BY <3>1 DEF activeCount, NoRecord
      <4>2. \A o \in Ids : activeCount(records[o]) = 0
        BY <3>1 DEF CoordinatorInv, ClosingOK, globalZero
      <4> QED BY <1>4, <4>1, <4>2
    <3> QED BY <3>1 DEF Settle, CoordinatorInv, ClosingOK, globalZero
  <2> QED BY <2>1, <2>2 DEF ClosingOK, Active
<1> QED
  BY <1>11, <1>12, <1>13, <1>14, <1>15 DEF CoordinatorInv

\* A record closes and the permits stay where they are.
LEMMA CloseKeeps ==
    ASSUME CoordinatorInv,
           NEW id \in Ids, Live(id),
           NEW rec \in RecordType, rec.born = records[id].born,
           rec.state = "cancelling",
           rec.work = records[id].work, rec.commit = records[id].commit,
           NEW asking, Settle(id, rec, asking),
           UNCHANGED <<closing, started>>, RequestsTyped',
           \A r \in Requests : \A f \in {"phase", "id", "work", "commit"} :
               requests'[r][f] = requests[r][f]
    PROVE  CoordinatorInv'
<1>1. \A r \in Requests : /\ requests'[r].phase = requests[r].phase
                          /\ requests'[r].id = requests[r].id
                          /\ requests'[r].work = requests[r].work
                          /\ requests'[r].commit = requests[r].commit
  OBVIOUS
<1>2. \A o, b : /\ WorkHolders(o, b)' = WorkHolders(o, b)
               /\ CommitHolders(o, b)' = CommitHolders(o, b)
  BY <1>1 DEF WorkHolders, CommitHolders
<1>3. NoNewPermit
  BY <1>1 DEF NoNewPermit
<1>4. /\ rec.work = Cardinality(WorkHolders(id, rec.born)')
      /\ rec.commit = Cardinality(CommitHolders(id, rec.born)')
  BY <1>2 DEF CoordinatorInv, CountsMatch
<1>5. closed => activeCount(rec) = 0
  BY DEF CoordinatorInv, ClosingOK, globalZero, activeCount
<1> QED
  BY <1>2, <1>3, <1>4, <1>5, SettleKeeps

\* The record that a closing step gives is one.
LEMMA ClosingRecords ==
    ASSUME CoordinatorInv, NEW id \in Ids, Live(id)
    PROVE  /\ Cancelling(records[id]) \in RecordType
           /\ Cancelling(records[id]).born = records[id].born
           /\ Cancelling(records[id]).state = "cancelling"
           /\ Cancelling(records[id]).work = records[id].work
           /\ Cancelling(records[id]).commit = records[id].commit
<1>1. records[id] \in RecordType
  BY DEF CoordinatorInv, TypeOK, RecordType
<1> QED BY <1>1 DEF Cancelling, RecordType

LEMMA CancelKeeps ==
    ASSUME CoordinatorInv, NEW id \in Ids, Live(id),
           NEW asking, Settle(id, Cancelling(records[id]), asking),
           UNCHANGED <<closing, started>>, RequestsTyped',
           \A r \in Requests : \A f \in {"phase", "id", "work", "commit"} :
               requests'[r][f] = requests[r][f]
    PROVE  CoordinatorInv'
<1>1. PICK rec : rec = Cancelling(records[id])
  OBVIOUS
<1> QED BY <1>1, ClosingRecords, CloseKeeps

LEMMA FinishKeeps ==
    ASSUME CoordinatorInv, NEW id \in Ids, finish(id)
    PROVE  CoordinatorInv'
<1>1. PICK rec : rec = IF records[id].drain = "cancelled" THEN records[id]
                       ELSE [records[id] EXCEPT !.state = "cancelling",
                                                !.drain = "finished"]
  OBVIOUS
<1>2. records[id] \in RecordType
  BY DEF CoordinatorInv, TypeOK, RecordType
<1>3. /\ rec \in RecordType /\ rec.born = records[id].born
      /\ rec.state = "cancelling"
      /\ rec.work = records[id].work /\ rec.commit = records[id].commit
  BY <1>1, <1>2 DEF RecordType, CoordinatorInv, RecordsOK
<1>4. Live(id) /\ Settle(id, rec, TRUE) /\ UNCHANGED <<closing, started, requests>>
  BY <1>1 DEF finish
<1>5. RequestsTyped'
  BY <1>4 DEF RequestsTyped, CoordinatorInv, TypeOK
<1> QED BY <1>3, <1>4, <1>5, CloseKeeps

-----------------------------------------------------------------------------
(* Permits.                                                                *)

LEMMA ReleaseWorkKeeps ==
    ASSUME CoordinatorInv, NEW r \in Requests, releaseWork(r)
    PROVE  CoordinatorInv'
<1>1. PICK id, rec, b : /\ id = requests[r].id /\ b = requests[r].work
                        /\ rec = [records[id] EXCEPT !.work = @ - 1]
  OBVIOUS
<1>2. /\ id \in Ids /\ Live(id) /\ records[id].born = b
      /\ requests[r].phase = "work" /\ records[id] \in RecordType
      /\ b \in Nat
  BY <1>1 DEF releaseWork, CoordinatorInv, CountsMatch, TypeOK, RecordType
<1>3. /\ Settle(id, rec, FALSE)
      /\ requests' = [requests EXCEPT ![r] =
              IF @.gone THEN [@ EXCEPT !.phase = "settle"] ELSE NoRequest]
      /\ UNCHANGED <<closing, started>>
  BY <1>1, <1>2 DEF releaseWork, Release
<1>4. r \in WorkHolders(id, b)
  BY <1>1, <1>2 DEF WorkHolders
<1>5. /\ records[id].work = Cardinality(WorkHolders(id, b))
      /\ records[id].commit = Cardinality(CommitHolders(id, b))
  BY <1>2 DEF CoordinatorInv, CountsMatch
<1>6. requests \in [Requests -> [phase : {"none", "work", "commit", "settle"},
                                id : Ids \cup {NoRequest.id}, work : Nat,
                                commit : Nat, gone : BOOLEAN]]
  BY DEF CoordinatorInv, TypeOK
<1>7. /\ requests'[r].phase \in {"settle", "none"}
      /\ \A q \in Requests : q # r => requests'[q] = requests[q]
  BY <1>3, <1>6 DEF NoRequest
<1>8. /\ WorkHolders(id, b)' = WorkHolders(id, b) \ {r}
      /\ CommitHolders(id, b)' = CommitHolders(id, b)
      /\ \A o \in Ids \ {id}, c \in Nat :
            /\ WorkHolders(o, c)' = WorkHolders(o, c)
            /\ CommitHolders(o, c)' = CommitHolders(o, c)
  BY <1>1, <1>2, <1>7 DEF WorkHolders, CommitHolders
<1>9. /\ Cardinality(WorkHolders(id, b) \ {r}) = records[id].work - 1
      /\ records[id].work - 1 \in Nat
  <2>1. IsFiniteSet(WorkHolders(id, b))
    BY HoldersFinite
  <2>2. Cardinality(WorkHolders(id, b) \ {r}) = Cardinality(WorkHolders(id, b)) - 1
    BY <1>4, <2>1, FS_RemoveElement
  <2>3. Cardinality(WorkHolders(id, b)) # 0
    BY <1>4, <2>1, FS_EmptySet
  <2> QED BY <1>2, <1>5, <2>2, <2>3 DEF RecordType
<1>10. /\ rec \in RecordType /\ rec.born = b /\ rec.state = records[id].state
       /\ rec.drain = records[id].drain /\ rec.work = records[id].work - 1
       /\ rec.commit = records[id].commit
  BY <1>1, <1>2, <1>9 DEF RecordType
<1>11. RequestsTyped'
  <2>1. requests'[r] \in [phase : {"none", "work", "commit", "settle"},
                          id : Ids \cup {NoRequest.id}, work : Nat,
                          commit : Nat, gone : BOOLEAN]
    BY <1>3, <1>6 DEF NoRequest
  <2>2. requests'[r].phase # "none" => requests'[r].id \in Ids
    BY <1>1, <1>2, <1>3, <1>6 DEF NoRequest
  <2> QED BY <1>3, <1>6, <1>7, <2>1, <2>2 DEF RequestsTyped, CoordinatorInv, TypeOK
<1>12. NoNewPermit
  BY <1>7 DEF NoNewPermit
<1>13. /\ rec.drain # "none" => rec.state = "cancelling"
       /\ rec.state # "none" /\ (closing => rec.state # "active")
  BY <1>2, <1>10 DEF CoordinatorInv, RecordsOK, ClosingOK, Live, Active
<1>14. closed => activeCount(rec) = 0
  <2>1. closed => activeCount(records[id]) = 0
    BY <1>2 DEF CoordinatorInv, ClosingOK, globalZero
  <2>2. records[id].work # 0
    BY <1>2, <1>9 DEF RecordType
  <2> QED BY <1>2, <2>1, <2>2 DEF activeCount, RecordType
<1> QED
  BY <1>2, <1>3, <1>5, <1>8, <1>9, <1>10, <1>11, <1>12, <1>13, <1>14, SettleKeeps

LEMMA ReleaseCommitKeeps ==
    ASSUME CoordinatorInv, NEW r \in Requests, releaseCommit(r)
    PROVE  CoordinatorInv'
<1>1. PICK id, rec, b : /\ id = requests[r].id /\ b = requests[r].commit
                        /\ rec = [records[id] EXCEPT !.commit = @ - 1]
  OBVIOUS
<1>2. /\ id \in Ids /\ Live(id) /\ records[id].born = b
      /\ requests[r].work = b
      /\ requests[r].phase = "commit" /\ records[id] \in RecordType
      /\ b \in Nat
  BY <1>1 DEF releaseCommit, CoordinatorInv, CountsMatch, TypeOK, RecordType
<1>3. /\ Settle(id, rec, FALSE)
      /\ requests' = [requests EXCEPT ![r].phase = "work", ![r].commit = 0]
      /\ UNCHANGED <<closing, started>>
  BY <1>1, <1>2 DEF releaseCommit, Release
<1>4. r \in CommitHolders(id, b)
  BY <1>1, <1>2 DEF CommitHolders
<1>5. /\ records[id].work = Cardinality(WorkHolders(id, b))
      /\ records[id].commit = Cardinality(CommitHolders(id, b))
  BY <1>2 DEF CoordinatorInv, CountsMatch
<1>6. requests \in [Requests -> [phase : {"none", "work", "commit", "settle"},
                                id : Ids \cup {NoRequest.id}, work : Nat,
                                commit : Nat, gone : BOOLEAN]]
  BY DEF CoordinatorInv, TypeOK
<1>7. /\ requests'[r].phase = "work" /\ requests'[r].id = requests[r].id
      /\ requests'[r].work = requests[r].work
      /\ \A q \in Requests : q # r => requests'[q] = requests[q]
  BY <1>3, <1>6
<1>8. /\ WorkHolders(id, b)' = WorkHolders(id, b)
      /\ CommitHolders(id, b)' = CommitHolders(id, b) \ {r}
      /\ \A o \in Ids \ {id}, c \in Nat :
            /\ WorkHolders(o, c)' = WorkHolders(o, c)
            /\ CommitHolders(o, c)' = CommitHolders(o, c)
  BY <1>1, <1>2, <1>7 DEF WorkHolders, CommitHolders
<1>9. /\ Cardinality(CommitHolders(id, b) \ {r}) = records[id].commit - 1
      /\ records[id].commit - 1 \in Nat
  <2>1. IsFiniteSet(CommitHolders(id, b))
    BY HoldersFinite
  <2>2. Cardinality(CommitHolders(id, b) \ {r}) = Cardinality(CommitHolders(id, b)) - 1
    BY <1>4, <2>1, FS_RemoveElement
  <2>3. Cardinality(CommitHolders(id, b)) # 0
    BY <1>4, <2>1, FS_EmptySet
  <2> QED BY <1>2, <1>5, <2>2, <2>3 DEF RecordType
<1>10. /\ rec \in RecordType /\ rec.born = b /\ rec.state = records[id].state
       /\ rec.drain = records[id].drain /\ rec.work = records[id].work
       /\ rec.commit = records[id].commit - 1
  BY <1>1, <1>2, <1>9 DEF RecordType
<1>11. RequestsTyped'
  <2>1. requests' \in [Requests -> [phase : {"none", "work", "commit", "settle"},
                                  id : Ids \cup {NoRequest.id}, work : Nat,
                                  commit : Nat, gone : BOOLEAN]]
    BY <1>3, <1>6
  <2>2. \A q \in Requests : requests'[q].phase # "none" => requests'[q].id \in Ids
    BY <1>1, <1>2, <1>7 DEF CoordinatorInv, TypeOK
  <2> QED BY <2>1, <2>2 DEF RequestsTyped
<1>12. NoNewPermit
  BY <1>2, <1>7 DEF NoNewPermit
<1>13. /\ rec.drain # "none" => rec.state = "cancelling"
       /\ rec.state # "none" /\ (closing => rec.state # "active")
  BY <1>2, <1>10 DEF CoordinatorInv, RecordsOK, ClosingOK, Live, Active
<1>14. closed => activeCount(rec) = 0
  <2>1. closed => activeCount(records[id]) = 0
    BY <1>2 DEF CoordinatorInv, ClosingOK, globalZero
  <2>2. records[id].commit # 0
    BY <1>2, <1>9 DEF RecordType
  <2> QED BY <1>2, <2>1, <2>2 DEF activeCount, RecordType
<1> QED
  BY <1>2, <1>3, <1>5, <1>8, <1>9, <1>10, <1>11, <1>12, <1>13, <1>14, SettleKeeps

\* Two values of a record that differ in the lease at most.
SameButLease(rec, old) ==
    /\ rec.state = old.state /\ rec.drain = old.drain /\ rec.born = old.born
    /\ rec.work = old.work /\ rec.commit = old.commit

\* A step that neither admits, nor releases, nor closes anything.
LEMMA QuietKeeps ==
    ASSUME CoordinatorInv, records' \in [Ids -> RecordType],
           \A id \in Ids : SameButLease(records'[id], records[id]),
           \A id \in Ids : ~Live(id) => records'[id] = records[id],
           UNCHANGED <<closing, closed, started>>,
           RequestsTyped',
           \A r \in Requests :
               \/ requests'[r] = requests[r]
               \/ /\ requests[r].phase \notin {"work", "commit"}
                  /\ requests'[r].phase \notin {"work", "commit"},
           tombstones' \in Seq(TombstoneType),
           \A n \in DOMAIN tombstones' :
               \E m \in DOMAIN tombstones : tombstones'[n] = tombstones[m],
           \A p \in proofs' :
               p \in proofs \/ \E m \in DOMAIN tombstones : p = tombstones[m]
    PROVE  CoordinatorInv'
<1>1. TypeOK'
  BY DEF CoordinatorInv, TypeOK, RequestsTyped, RecordType, TombstoneType
<1>2. RecordsOK'
  BY DEF CoordinatorInv, RecordsOK, SameButLease, Live
<1>3. \A o, b : /\ WorkHolders(o, b)' = WorkHolders(o, b)
               /\ CommitHolders(o, b)' = CommitHolders(o, b)
  BY DEF WorkHolders, CommitHolders
<1>4. CountsMatch'
  <2>1. ASSUME NEW o \in Ids, Live(o)'
        PROVE  /\ records'[o].work = Cardinality(WorkHolders(o, records[o].born)')
               /\ records'[o].commit = Cardinality(CommitHolders(o, records[o].born)')
    <3>1. PICK b : b = records[o].born
      OBVIOUS
    <3>2. Live(o) /\ SameButLease(records'[o], records[o])
      BY <2>1 DEF Live, SameButLease
    <3>3. /\ WorkHolders(o, records[o].born)' = WorkHolders(o, b)'
          /\ CommitHolders(o, records[o].born)' = CommitHolders(o, b)'
      BY <3>1, <3>2 DEF WorkHolders, CommitHolders, SameButLease
    <3> QED BY <1>3, <3>1, <3>2, <3>3 DEF CoordinatorInv, CountsMatch, SameButLease
  <2>2. ASSUME NEW r \in Requests, requests'[r].phase \in {"work", "commit"}
        PROVE  /\ records'[requests'[r].id].state # "none"
               /\ records'[requests'[r].id].born = requests'[r].work
               /\ requests'[r].phase = "commit" => requests'[r].commit = requests'[r].work
    <3>1. requests'[r] = requests[r] /\ requests[r].id \in Ids
      BY <2>2 DEF CoordinatorInv, TypeOK
    <3> QED BY <2>2, <3>1 DEF CoordinatorInv, CountsMatch, Live, SameButLease
  <2> QED BY <2>1, <2>2 DEF CountsMatch, Live
<1>5. HistoryOK'
  <2>1. \A x : Ended(x) => Ended(x)'
    BY DEF Ended, SameButLease
  <2>2. \A m \in DOMAIN tombstones : Ended(tombstones[m])
    BY DEF CoordinatorInv, HistoryOK
  <2>3. \A n \in DOMAIN tombstones' : Ended(tombstones[n])'
    BY <2>1, <2>2 DEF Ended
  <2>4. \A p \in proofs' : Ended(p)'
    BY <2>1, <2>2 DEF CoordinatorInv, HistoryOK
  <2> QED BY <2>3, <2>4 DEF HistoryOK
<1>6. ClosingOK'
  BY DEF CoordinatorInv, ClosingOK, Active, globalZero, activeCount, SameButLease
<1> QED BY <1>1, <1>2, <1>4, <1>5, <1>6 DEF CoordinatorInv

\* A record with another lease is a record.
LEMMA LeaseOnly ==
    ASSUME NEW rec \in RecordType, NEW lease \in 0..LeaseTicks
    PROVE  /\ [rec EXCEPT !.lease = lease] \in RecordType
           /\ SameButLease([rec EXCEPT !.lease = lease], rec)
  BY DEF RecordType, SameButLease

LEMMA TypedParts ==
    ASSUME CoordinatorInv
    PROVE  /\ records \in [Ids -> RecordType]
           /\ RequestsTyped
           /\ tombstones \in Seq(TombstoneType)
           /\ started \in Nat
  BY DEF CoordinatorInv, TypeOK, RecordType, TombstoneType, RequestsTyped

\* Renewing a lease, the clock, a detached waiter, a dead client and the end
\* of a wait.
LEMMA QuietSteps ==
    ASSUME CoordinatorInv,
           \/ /\ \E id \in Ids : /\ Live(id) /\ records' = [records EXCEPT ![id].lease = LeaseTicks]
              /\ UNCHANGED <<tombstones, requests, proofs, closing, closed, started>>
           \/ Tick
           \/ \E c \in calls : detachWaiter(c)
           \/ \E id \in Ids : ClientDies(id)
           \/ \E r \in Requests : settleRequest(r)
           \/ UNCHANGED vars
    PROVE  CoordinatorInv'
<1>0. /\ records \in [Ids -> RecordType] /\ RequestsTyped
      /\ tombstones \in Seq(TombstoneType)
  BY TypedParts
<1>1. /\ records' \in [Ids -> RecordType]
      /\ \A id \in Ids : SameButLease(records'[id], records[id])
      /\ \A id \in Ids : ~Live(id) => records'[id] = records[id]
  <2>1. CASE records' = records
    BY <1>0, <2>1 DEF SameButLease
  <2>2. CASE \E id \in Ids : Live(id) /\ records' = [records EXCEPT ![id].lease = LeaseTicks]
    <3>1. PICK id \in Ids : Live(id) /\ records' = [records EXCEPT ![id].lease = LeaseTicks]
      BY <2>2
    <3>2. /\ records'[id] = [records[id] EXCEPT !.lease = LeaseTicks]
          /\ \A o \in Ids : o # id => records'[o] = records[o]
      BY <1>0, <3>1
    <3>3. records'[id] \in RecordType /\ SameButLease(records'[id], records[id])
      <4>1. records[id] \in RecordType /\ LeaseTicks \in 0..LeaseTicks
        BY <1>0, CoordinatorAssumption
      <4> QED BY <3>2, <4>1, LeaseOnly
    <3> QED BY <1>0, <3>1, <3>2, <3>3 DEF SameButLease
  <2>3. CASE Tick
    <3>1. \A id \in Ids : records'[id] =
            IF Active(id) /\ records[id].lease > 0
              THEN [records[id] EXCEPT !.lease = @ - 1] ELSE records[id]
      BY <2>3 DEF Tick
    <3>2. \A id \in Ids : /\ records'[id] \in RecordType
                          /\ SameButLease(records'[id], records[id])
                          /\ ~Live(id) => records'[id] = records[id]
      <4> TAKE id \in Ids
      <4>1. CASE Active(id) /\ records[id].lease > 0
        <5>1. PICK l : l = records[id].lease - 1
          OBVIOUS
        <5>2. records[id] \in RecordType /\ l \in 0..LeaseTicks
          BY <1>0, <4>1, <5>1, CoordinatorAssumption DEF RecordType
        <5>3. records'[id] = [records[id] EXCEPT !.lease = l]
          BY <3>1, <4>1, <5>1
        <5> QED BY <4>1, <5>2, <5>3, LeaseOnly DEF Active, Live
      <4>2. CASE ~(Active(id) /\ records[id].lease > 0)
        BY <1>0, <3>1, <4>2 DEF SameButLease
      <4> QED BY <4>1, <4>2
    <3>3. records' = [id \in Ids |-> records'[id]]
      BY <2>3 DEF Tick
    <3> QED BY <3>2, <3>3
  <2> QED BY <2>1, <2>2, <2>3 DEF detachWaiter, ClientDies, settleRequest, vars
<1>2. UNCHANGED <<tombstones, proofs, closing, closed, started>>
  BY DEF Tick, detachWaiter, ClientDies, settleRequest, vars
<1>3. /\ RequestsTyped'
      /\ \A r \in Requests :
            \/ requests'[r] = requests[r]
            \/ /\ requests[r].phase \notin {"work", "commit"}
               /\ requests'[r].phase \notin {"work", "commit"}
  <2>1. CASE requests' = requests
    BY <1>0, <2>1 DEF RequestsTyped
  <2>2. CASE \E r \in Requests : settleRequest(r)
    BY <1>0, <2>2 DEF settleRequest, RequestsTyped, NoRequest
  <2> QED BY <2>1, <2>2 DEF Tick, detachWaiter, ClientDies, vars
<1> QED BY <1>0, <1>1, <1>2, <1>3, QuietKeeps

\* The sequence with row n taken out and appended again.
Moved(list, n) ==
    Append(SubSeq(list, 1, n - 1) \o SubSeq(list, n + 1, Len(list)), list[n])

\* Moving a row brings in no other row.
LEMMA MovedRows ==
    \A list, n : list \in Seq(TombstoneType) /\ n \in DOMAIN list =>
        /\ Moved(list, n) \in Seq(TombstoneType)
        /\ \A i \in DOMAIN Moved(list, n) :
              \E m \in DOMAIN list : Moved(list, n)[i] = list[m]
<1>0. SUFFICES ASSUME NEW list, NEW n, list \in Seq(TombstoneType), n \in DOMAIN list
               PROVE  /\ Moved(list, n) \in Seq(TombstoneType)
                      /\ \A i \in DOMAIN Moved(list, n) :
                            \E m \in DOMAIN list : Moved(list, n)[i] = list[m]
  OBVIOUS
<1>1. Len(list) \in Nat /\ n \in 1..Len(list) /\ list[n] \in TombstoneType
  BY <1>0, LenProperties
<1>2. PICK u : u = SubSeq(list, 1, n - 1)
  OBVIOUS
<1>3. PICK v : v = SubSeq(list, n + 1, Len(list))
  OBVIOUS
<1>4. /\ u \in Seq(TombstoneType)
      /\ \A i \in DOMAIN u : \E m \in DOMAIN list : u[i] = list[m]
  <2>1. 1 \in 1..(Len(list) + 1) /\ n - 1 \in (1 - 1)..Len(list)
    BY <1>1
  <2> QED BY <1>0, <1>2, <2>1, SubSeqKeeps
<1>5. /\ v \in Seq(TombstoneType)
      /\ \A i \in DOMAIN v : \E m \in DOMAIN list : v[i] = list[m]
  <2>1. PICK a, l : a = n + 1 /\ l = Len(list)
    OBVIOUS
  <2>2. a \in 1..(Len(list) + 1) /\ l \in (a - 1)..Len(list) /\ v = SubSeq(list, a, l)
    BY <1>1, <1>3, <2>1
  <2> QED BY <1>0, <2>2, SubSeqKeeps
<1>6. PICK w : w = u \o v
  OBVIOUS
<1>7. /\ w \in Seq(TombstoneType)
      /\ \A i \in DOMAIN w : \E m \in DOMAIN list : w[i] = list[m]
  <2>1. \A s, t \in Seq(TombstoneType) :
           /\ s \o t \in Seq(TombstoneType)
           /\ \A i \in DOMAIN (s \o t) : \/ \E m \in DOMAIN s : (s \o t)[i] = s[m]
                                         \/ \E m \in DOMAIN t : (s \o t)[i] = t[m]
    BY ConcatKeeps
  <2>2. /\ w \in Seq(TombstoneType)
        /\ \A i \in DOMAIN w : \/ \E m \in DOMAIN u : w[i] = u[m]
                              \/ \E m \in DOMAIN v : w[i] = v[m]
    BY <1>4, <1>5, <1>6, <2>1, Zenon
  <2>3. ASSUME NEW i \in DOMAIN w PROVE \E m \in DOMAIN list : w[i] = list[m]
    <3>1. CASE \E k \in DOMAIN u : w[i] = u[k]
      BY <1>4, <3>1
    <3>2. CASE \E k \in DOMAIN v : w[i] = v[k]
      BY <1>5, <3>2
    <3> QED BY <2>2, <2>3, <3>1, <3>2
  <2> QED BY <2>2, <2>3
<1>8. Moved(list, n) = Append(w, list[n])
  BY <1>2, <1>3, <1>6 DEF Moved
<1> QED BY <1>1, <1>7, <1>8, AppendKeeps

LEMMA LookupKeeps ==
    ASSUME CoordinatorInv, NEW id \in Ids, lookupTombstone(id)
    PROVE  CoordinatorInv'
<1>0. /\ records \in [Ids -> RecordType] /\ RequestsTyped
      /\ tombstones \in Seq(TombstoneType)
  BY TypedParts
<1>1. PICK n \in DOMAIN tombstones :
         /\ tombstones' = Moved(tombstones, n)
         /\ proofs' = proofs \cup {tombstones[n]} \/ UNCHANGED proofs
  BY DEF lookupTombstone, Moved
<1>2. /\ tombstones' \in Seq(TombstoneType)
      /\ \A i \in DOMAIN tombstones' :
            \E m \in DOMAIN tombstones : tombstones'[i] = tombstones[m]
  BY <1>0, <1>1, MovedRows
<1>3. UNCHANGED <<records, requests, closing, closed, started>>
  BY DEF lookupTombstone
<1>4. \A o \in Ids : SameButLease(records[o], records[o])
  BY DEF SameButLease
<1>5. RequestsTyped'
  BY <1>0, <1>3 DEF RequestsTyped
<1> QED BY <1>0, <1>1, <1>2, <1>3, <1>4, <1>5, QuietKeeps

LEMMA StartKeeps ==
    ASSUME CoordinatorInv, NEW id \in Ids, start(id)
    PROVE  CoordinatorInv'
<1>0. /\ records \in [Ids -> RecordType] /\ RequestsTyped
      /\ tombstones \in Seq(TombstoneType) /\ started \in Nat
  BY TypedParts
<1>1. PICK rec : rec = [NoRecord EXCEPT !.state = "active", !.lease = LeaseTicks,
                                        !.born = started + 1]
  OBVIOUS
<1>2. /\ ~closing /\ ~Live(id) /\ started' = started + 1
      /\ records' = [records EXCEPT ![id] = rec]
      /\ UNCHANGED <<tombstones, requests, proofs, closing, closed>>
  BY <1>1 DEF start
<1>3. /\ rec.state = "active" /\ rec.drain = "none" /\ rec.work = 0
      /\ rec.commit = 0 /\ rec.born = started + 1 /\ rec \in RecordType
  <2>1. LeaseTicks \in 0..LeaseTicks /\ started + 1 \in Nat
    BY <1>0, CoordinatorAssumption
  <2>2. rec = [state |-> "active", drain |-> "none", work |-> 0, commit |-> 0,
               lease |-> LeaseTicks, born |-> started + 1]
    BY <1>1 DEF NoRecord
  <2> QED BY <2>1, <2>2 DEF RecordType
<1>4. /\ records'[id] = rec /\ records' \in [Ids -> RecordType]
      /\ \A o \in Ids : o # id => records'[o] = records[o]
  BY <1>0, <1>2, <1>3
<1>5. \A r \in Requests : requests[r].phase \in {"work", "commit"} =>
         /\ requests[r].id \in Ids /\ requests[r].id # id
         /\ Live(requests[r].id)
         /\ records[requests[r].id].born = requests[r].work
         /\ requests[r].phase = "commit" => requests[r].commit = requests[r].work
  BY <1>0, <1>2 DEF CoordinatorInv, CountsMatch, RequestsTyped
<1>6. TypeOK'
  BY <1>0, <1>2, <1>4 DEF CoordinatorInv, TypeOK, RecordType
<1>7. RecordsOK'
  BY <1>0, <1>2, <1>3, <1>4 DEF CoordinatorInv, RecordsOK, Live, RecordType
<1>8. CountsMatch'
  <2>1. \A b : WorkHolders(id, b)' = {} /\ CommitHolders(id, b)' = {}
    BY <1>2, <1>5 DEF WorkHolders, CommitHolders
  <2>2. \A o, b : /\ WorkHolders(o, b)' = WorkHolders(o, b)
                 /\ CommitHolders(o, b)' = CommitHolders(o, b)
    BY <1>2 DEF WorkHolders, CommitHolders
  <2>3. ASSUME NEW o \in Ids, Live(o)'
        PROVE  /\ records'[o].work = Cardinality(WorkHolders(o, records[o].born)')
               /\ records'[o].commit = Cardinality(CommitHolders(o, records[o].born)')
    <3>1. PICK b : b = records'[o].born
      OBVIOUS
    <3>2. /\ WorkHolders(o, records[o].born)' = WorkHolders(o, b)'
          /\ CommitHolders(o, records[o].born)' = CommitHolders(o, b)'
      BY <3>1 DEF WorkHolders, CommitHolders
    <3>3. CASE o = id
      BY <1>3, <1>4, <2>1, <3>2, <3>3, FS_EmptySet
    <3>4. CASE o # id
      <4>1. records'[o] = records[o] /\ Live(o)
        BY <1>4, <2>3, <3>4 DEF Live
      <4> QED BY <2>2, <3>1, <3>2, <4>1 DEF CoordinatorInv, CountsMatch
    <3> QED BY <3>3, <3>4
  <2> QED BY <1>2, <1>4, <1>5, <2>3 DEF CountsMatch, Live
<1>9. HistoryOK'
  <2>1. started <= started' /\ started' \in Nat
    BY <1>0, <1>2
  <2>2. \A o \in Ids : records'[o].born \in {records[o].born, 0, started + 1}
    BY <1>3, <1>4
  <2>3. \A x : Ended(x) => Ended(x)'
    BY <1>0, <2>1, <2>2, EndedStays
  <2> QED BY <1>2, <2>3 DEF CoordinatorInv, HistoryOK, Ended
<1>10. ClosingOK'
  BY <1>2 DEF CoordinatorInv, ClosingOK
<1> QED BY <1>6, <1>7, <1>8, <1>9, <1>10 DEF CoordinatorInv

\* Admission of request r to record id, as work or as a commit.
LEMMA AdmitKeeps ==
    ASSUME CoordinatorInv, NEW id \in Ids, NEW r \in Requests, NEW rec \in RecordType,
           ~closing, Active(id),
           rec.state = "active", rec.drain = records[id].drain,
           rec.born = records[id].born,
           records' = [records EXCEPT ![id] = rec],
           RequestsTyped',
           \A q \in Requests : q # r => requests'[q] = requests[q],
           requests'[r].id = id, requests'[r].work = rec.born,
           \/ /\ requests[r].phase = "none" /\ requests'[r].phase = "work"
              /\ rec.work = records[id].work + 1 /\ rec.commit = records[id].commit
           \/ /\ requests[r].phase = "work" /\ requests'[r].phase = "commit"
              /\ requests[r].id = id /\ requests[r].work = rec.born
              /\ requests'[r].commit = rec.born
              /\ rec.work = records[id].work /\ rec.commit = records[id].commit + 1,
           UNCHANGED <<tombstones, proofs, closing, closed, started>>
    PROVE  CoordinatorInv'
<1>0. /\ records \in [Ids -> RecordType] /\ RequestsTyped
      /\ tombstones \in Seq(TombstoneType) /\ started \in Nat
  BY TypedParts
<1>1. /\ records'[id] = rec /\ records' \in [Ids -> RecordType]
      /\ \A o \in Ids : o # id => records'[o] = records[o]
  BY <1>0
<1>2. TypeOK'
  BY <1>0, <1>1 DEF CoordinatorInv, TypeOK, RecordType, RequestsTyped
<1>3. RecordsOK'
  BY <1>1 DEF CoordinatorInv, RecordsOK, Live, Active
<1>4. Live(id) /\ records[id].work = Cardinality(WorkHolders(id, rec.born))
      /\ records[id].commit = Cardinality(CommitHolders(id, rec.born))
  BY DEF CoordinatorInv, CountsMatch, Live, Active
<1>5. /\ rec.work = Cardinality(WorkHolders(id, rec.born)')
      /\ rec.commit = Cardinality(CommitHolders(id, rec.born)')
  <2>1. CASE requests[r].phase = "none"
    <3>1. /\ WorkHolders(id, rec.born)' = WorkHolders(id, rec.born) \cup {r}
          /\ CommitHolders(id, rec.born)' = CommitHolders(id, rec.born)
          /\ r \notin WorkHolders(id, rec.born)
      BY <2>1 DEF WorkHolders, CommitHolders
    <3>2. IsFiniteSet(WorkHolders(id, rec.born))
      BY HoldersFinite
    <3>3. Cardinality(WorkHolders(id, rec.born) \cup {r})
            = Cardinality(WorkHolders(id, rec.born)) + 1
      BY <3>1, <3>2, FS_AddElement
    <3> QED BY <1>4, <2>1, <3>1, <3>3
  <2>2. CASE requests[r].phase = "work"
    <3>1. /\ WorkHolders(id, rec.born)' = WorkHolders(id, rec.born)
          /\ CommitHolders(id, rec.born)' = CommitHolders(id, rec.born) \cup {r}
          /\ r \notin CommitHolders(id, rec.born)
      BY <2>2 DEF WorkHolders, CommitHolders
    <3>2. IsFiniteSet(CommitHolders(id, rec.born))
      BY HoldersFinite
    <3>3. Cardinality(CommitHolders(id, rec.born) \cup {r})
            = Cardinality(CommitHolders(id, rec.born)) + 1
      BY <3>1, <3>2, FS_AddElement
    <3> QED BY <1>4, <2>2, <3>1, <3>3
  <2> QED BY <2>1, <2>2
<1>6. \A o \in Ids \ {id} : \A b :
         /\ WorkHolders(o, b)' = WorkHolders(o, b)
         /\ CommitHolders(o, b)' = CommitHolders(o, b)
  BY DEF WorkHolders, CommitHolders
<1>7. CountsMatch'
  <2>1. ASSUME NEW o \in Ids, Live(o)'
        PROVE  /\ records'[o].work = Cardinality(WorkHolders(o, records[o].born)')
               /\ records'[o].commit = Cardinality(CommitHolders(o, records[o].born)')
    <3>1. PICK b : b = records'[o].born
      OBVIOUS
    <3>2. /\ WorkHolders(o, records[o].born)' = WorkHolders(o, b)'
          /\ CommitHolders(o, records[o].born)' = CommitHolders(o, b)'
      BY <3>1 DEF WorkHolders, CommitHolders
    <3>3. CASE o = id
      BY <1>1, <1>5, <3>1, <3>2, <3>3
    <3>4. CASE o # id
      <4>1. records'[o] = records[o] /\ Live(o)
        BY <1>1, <2>1, <3>4 DEF Live
      <4>2. /\ WorkHolders(o, b)' = WorkHolders(o, b)
            /\ CommitHolders(o, b)' = CommitHolders(o, b)
        BY <1>6, <3>4
      <4> QED BY <3>1, <3>2, <4>1, <4>2 DEF CoordinatorInv, CountsMatch
    <3> QED BY <3>3, <3>4
  <2>2. ASSUME NEW q \in Requests, requests'[q].phase \in {"work", "commit"}
        PROVE  /\ records'[requests'[q].id].state # "none"
               /\ records'[requests'[q].id].born = requests'[q].work
               /\ requests'[q].phase = "commit" => requests'[q].commit = requests'[q].work
    <3>1. CASE q = r
      BY <1>1, <3>1
    <3>2. CASE q # r
      <4>1. requests'[q] = requests[q] /\ requests[q].id \in Ids
        BY <1>0, <2>2, <3>2 DEF RequestsTyped
      <4> QED BY <1>1, <2>2, <4>1 DEF CoordinatorInv, CountsMatch, Live
    <3> QED BY <3>1, <3>2
  <2> QED BY <2>1, <2>2 DEF CountsMatch, Live
<1>8. HistoryOK'
  <2>1. \A o \in Ids : records'[o].born = records[o].born
    BY <1>1
  <2> QED BY <2>1 DEF CoordinatorInv, HistoryOK, Ended
<1>9. ClosingOK'
  BY DEF CoordinatorInv, ClosingOK
<1> QED BY <1>2, <1>3, <1>7, <1>8, <1>9 DEF CoordinatorInv

LEMMA AdmitWorkKeeps ==
    ASSUME CoordinatorInv, NEW r \in Requests, NEW id \in Ids, admitWork(r, id)
    PROVE  CoordinatorInv'
<1>0. /\ records \in [Ids -> RecordType] /\ RequestsTyped
  BY TypedParts
<1>1. PICK w, b : w = records[id].work + 1 /\ b = records[id].born
  OBVIOUS
<1>2. records[id] \in RecordType /\ w \in Nat /\ b \in Nat /\ LeaseTicks \in 0..LeaseTicks
  BY <1>0, <1>1, CoordinatorAssumption DEF RecordType
<1>3. PICK rec : rec = [records[id] EXCEPT !.work = w, !.lease = LeaseTicks]
  OBVIOUS
<1>4. /\ rec \in RecordType /\ rec.state = records[id].state
      /\ rec.drain = records[id].drain /\ rec.born = b
      /\ rec.work = w /\ rec.commit = records[id].commit
  BY <1>1, <1>2, <1>3 DEF RecordType
<1>5. /\ ~closing /\ Active(id) /\ requests[r].phase = "none"
      /\ requests' = [requests EXCEPT ![r] =
            [NoRequest EXCEPT !.phase = "work", !.id = id, !.work = b]]
      /\ UNCHANGED <<tombstones, proofs, closing, closed, started>>
      /\ records' = [records EXCEPT ![id].work = @ + 1, ![id].lease = LeaseTicks]
  BY <1>1 DEF admitWork
<1>6. records' = [records EXCEPT ![id] = rec]
  BY <1>0, <1>1, <1>3, <1>5
<1>7. /\ requests'[r] = [phase |-> "work", id |-> id, work |-> b, commit |-> 0,
                         gone |-> FALSE]
      /\ \A q \in Requests : q # r => requests'[q] = requests[q]
  BY <1>0, <1>5 DEF NoRequest, RequestsTyped
<1>8. RequestsTyped'
  <2>1. requests'[r] \in [phase : {"none", "work", "commit", "settle"},
                          id : Ids \cup {NoRequest.id}, work : Nat,
                          commit : Nat, gone : BOOLEAN]
    BY <1>2, <1>7
  <2>2. requests'[r].id \in Ids
    BY <1>7
  <2> QED BY <1>0, <1>5, <1>7, <2>1, <2>2 DEF RequestsTyped
<1>9. rec.state = "active"
  BY <1>4, <1>5 DEF Active
<1>10. /\ requests'[r].phase = "work" /\ requests'[r].id = id
       /\ requests'[r].work = rec.born
       /\ rec.born = records[id].born /\ rec.work = records[id].work + 1
  BY <1>1, <1>4, <1>7
<1> QED BY <1>4, <1>5, <1>6, <1>7, <1>8, <1>9, <1>10, AdmitKeeps

LEMMA AcquireCommitKeeps ==
    ASSUME CoordinatorInv, NEW r \in Requests, acquireCommit(r)
    PROVE  CoordinatorInv'
<1>0. /\ records \in [Ids -> RecordType] /\ RequestsTyped
  BY TypedParts
<1>1. PICK id : id = requests[r].id
  OBVIOUS
<1>2. PICK rec : rec = [records[id] EXCEPT !.commit = @ + 1]
  OBVIOUS
<1>3. /\ requests[r].phase = "work" /\ ~closing /\ Active(id)
      /\ records' = [records EXCEPT ![id].commit = @ + 1]
      /\ requests' = [requests EXCEPT ![r].phase = "commit",
                                      ![r].commit = records[id].born]
      /\ UNCHANGED <<tombstones, proofs, closing, closed, started>>
  BY <1>1 DEF acquireCommit
<1>4. id \in Ids /\ records[id].born = requests[r].work
  BY <1>0, <1>1, <1>3 DEF CoordinatorInv, CountsMatch, RequestsTyped
<1>5. records[id] \in RecordType
  BY <1>0, <1>4
<1>6. /\ rec \in RecordType /\ rec.state = records[id].state
      /\ rec.drain = records[id].drain /\ rec.born = records[id].born
      /\ rec.work = records[id].work /\ rec.commit = records[id].commit + 1
  BY <1>2, <1>5 DEF RecordType
<1>7. records' = [records EXCEPT ![id] = rec]
  BY <1>0, <1>2, <1>3
<1>8. /\ requests'[r].id = id /\ requests'[r].work = rec.born
      /\ requests'[r].phase = "commit" /\ requests'[r].commit = rec.born
      /\ \A q \in Requests : q # r => requests'[q] = requests[q]
  BY <1>0, <1>1, <1>3, <1>4, <1>6 DEF RequestsTyped
<1>9. RequestsTyped'
  <2>1. records[id].born \in Nat
    BY <1>5 DEF RecordType
  <2>2. requests' \in [Requests -> [phase : {"none", "work", "commit", "settle"},
                                  id : Ids \cup {NoRequest.id}, work : Nat,
                                  commit : Nat, gone : BOOLEAN]]
    BY <1>0, <1>3, <2>1 DEF RequestsTyped
  <2>3. \A q \in Requests : requests'[q].phase # "none" => requests'[q].id \in Ids
    BY <1>0, <1>4, <1>8 DEF RequestsTyped
  <2> QED BY <2>2, <2>3 DEF RequestsTyped
<1>10. rec.state = "active"
  BY <1>3, <1>6 DEF Active
<1>11. /\ requests[r].phase = "work" /\ requests'[r].phase = "commit"
       /\ requests[r].id = id /\ requests[r].work = rec.born
       /\ requests'[r].commit = rec.born
       /\ rec.work = records[id].work /\ rec.commit = records[id].commit + 1
  BY <1>1, <1>3, <1>4, <1>6, <1>8
<1>12. \/ /\ requests[r].phase = "none" /\ requests'[r].phase = "work"
          /\ rec.work = records[id].work + 1 /\ rec.commit = records[id].commit
       \/ /\ requests[r].phase = "work" /\ requests'[r].phase = "commit"
          /\ requests[r].id = id /\ requests[r].work = rec.born
          /\ requests'[r].commit = rec.born
          /\ rec.work = records[id].work /\ rec.commit = records[id].commit + 1
  BY <1>11
<1>13. /\ rec \in RecordType /\ rec.drain = records[id].drain
       /\ rec.born = records[id].born /\ id \in Ids /\ ~closing /\ Active(id)
       /\ requests'[r].id = id /\ requests'[r].work = rec.born
       /\ \A q \in Requests : q # r => requests'[q] = requests[q]
       /\ UNCHANGED <<tombstones, proofs, closing, closed, started>>
  BY <1>3, <1>4, <1>6, <1>8
<1> QED BY <1>7, <1>9, <1>10, <1>12, <1>13, AdmitKeeps

-----------------------------------------------------------------------------
(* Shutdown.                                                               *)

LEMMA ShutdownKeeps ==
    ASSUME CoordinatorInv, shutdown
    PROVE  CoordinatorInv'
<1>0. /\ records \in [Ids -> RecordType] /\ RequestsTyped
      /\ tombstones \in Seq(TombstoneType) /\ started \in Nat
  BY TypedParts
<1>1. /\ closing' = TRUE /\ UNCHANGED <<requests, started>>
      /\ closed' = globalZero'
      /\ records' = [id \in Ids |-> IF id \in IdleRecords THEN NoRecord
                                    ELSE IF Live(id) THEN Cancelling(records[id])
                                    ELSE records[id]]
  BY DEF shutdown
<1>2. NoRecord \in RecordType
  BY CoordinatorAssumption DEF NoRecord, RecordType
<1>3. \A id \in Ids :
         \/ id \in IdleRecords /\ records'[id] = NoRecord
         \/ /\ id \notin IdleRecords /\ Live(id)
            /\ records'[id] = Cancelling(records[id])
         \/ /\ id \notin IdleRecords /\ ~Live(id)
            /\ records'[id] = records[id] /\ records[id] = NoRecord
  BY <1>1 DEF CoordinatorInv, RecordsOK
<1>4. \A id \in Ids : Live(id) =>
         /\ Cancelling(records[id]) \in RecordType
         /\ Cancelling(records[id]).born = records[id].born
         /\ Cancelling(records[id]).state = "cancelling"
         /\ Cancelling(records[id]).work = records[id].work
         /\ Cancelling(records[id]).commit = records[id].commit
  BY ClosingRecords
<1>5. records' \in [Ids -> RecordType]
  BY <1>1, <1>2, <1>3, <1>4
<1>6. \A id \in IdleRecords : /\ id \in Ids /\ Live(id)
                             /\ records'[id].born = 0
                             /\ records[id].born \in 1..started
  BY <1>0, <1>3 DEF IdleRecords, CoordinatorInv, RecordsOK, NoRecord, RecordType
<1>7. \A x : Ended(x) => Ended(x)'
  <2>1. \A id \in Ids : records'[id].born \in {records[id].born, 0, started + 1}
    BY <1>3, <1>4 DEF NoRecord
  <2>2. started' \in Nat /\ started <= started'
    BY <1>0, <1>1
  <2> QED BY <1>0, <2>1, <2>2, EndedStays
<1>8. /\ tombstones' \in Seq(TombstoneType)
      /\ \A n \in DOMAIN tombstones' : Ended(tombstones[n])'
  <2>1. PICK order \in [1..Cardinality(IdleRecords) -> IdleRecords] :
           tombstones' = Newest(tombstones \o
              [n \in DOMAIN order |->
                  Tombstone(order[n], Cancelling(records[order[n]]))])
    BY DEF shutdown
  <2>2. PICK u : u = [n \in DOMAIN order |->
                        Tombstone(order[n], Cancelling(records[order[n]]))]
    OBVIOUS
  <2>3. Cardinality(IdleRecords) \in Nat
    <3>1. IdleRecords \subseteq Ids
      BY DEF IdleRecords
    <3> QED BY <3>1, CoordinatorAssumption, FS_Subset, FS_CardinalityType
  <2>4. \A id \in IdleRecords :
           /\ Tombstone(id, Cancelling(records[id])) \in TombstoneType
           /\ Tombstone(id, Cancelling(records[id])).id = id
           /\ Tombstone(id, Cancelling(records[id])).born = records[id].born
    <3> TAKE id \in IdleRecords
    <3>1. records[id] \in RecordType
      BY <1>0, <1>6
    <3>2. /\ Cancelling(records[id]).born = records[id].born
          /\ Cancelling(records[id]).drain = "cancelled" /\ records[id].born \in Nat
      BY <3>1 DEF Cancelling, RecordType
    <3> QED BY <1>6, <3>2 DEF Tombstone, TombstoneType
  <2>5. u \in [1..Cardinality(IdleRecords) -> TombstoneType]
    BY <2>2, <2>4
  <2>6. u \in Seq(TombstoneType)
    BY <2>3, <2>5, SeqDef
  <2>7. \A m \in DOMAIN u : Ended(u[m])'
    BY <1>1, <1>6, <2>2, <2>4, <2>5 DEF Ended
  <2>8. PICK t : t = tombstones \o u
    OBVIOUS
  <2>9. /\ t \in Seq(TombstoneType)
        /\ \A n \in DOMAIN t : \/ \E m \in DOMAIN tombstones : t[n] = tombstones[m]
                               \/ \E m \in DOMAIN u : t[n] = u[m]
    BY <1>0, <2>6, <2>8, ConcatKeeps
  <2>10. \A n \in DOMAIN t : Ended(t[n])'
    BY <1>7, <2>7, <2>9 DEF CoordinatorInv, HistoryOK
  <2>11. tombstones' = Newest(t)
    BY <2>1, <2>2, <2>8
  <2> QED BY <2>9, <2>10, <2>11, NewestKeeps DEF Ended
<1>9. TypeOK'
  BY <1>0, <1>1, <1>5, <1>8 DEF CoordinatorInv, TypeOK, RecordType, TombstoneType,
     RequestsTyped, globalZero
<1>10. RecordsOK'
  BY <1>0, <1>1, <1>3, <1>4
  DEF CoordinatorInv, RecordsOK, Live, NoRecord, RecordType
<1>11. CountsMatch'
  <2>1. \A o, b : /\ WorkHolders(o, b)' = WorkHolders(o, b)
                 /\ CommitHolders(o, b)' = CommitHolders(o, b)
    BY <1>1 DEF WorkHolders, CommitHolders
  <2>2. \A id \in Ids : Live(id)' => /\ Live(id)
                                     /\ records'[id].born = records[id].born
                                     /\ records'[id].work = records[id].work
                                     /\ records'[id].commit = records[id].commit
    BY <1>3, <1>4 DEF Live, NoRecord
  <2>3. ASSUME NEW o \in Ids, Live(o)'
        PROVE  /\ records'[o].work = Cardinality(WorkHolders(o, records[o].born)')
               /\ records'[o].commit = Cardinality(CommitHolders(o, records[o].born)')
    <3>1. PICK b : b = records'[o].born
      OBVIOUS
    <3>2. /\ WorkHolders(o, records[o].born)' = WorkHolders(o, b)'
          /\ CommitHolders(o, records[o].born)' = CommitHolders(o, b)'
      BY <3>1 DEF WorkHolders, CommitHolders
    <3> QED BY <2>1, <2>2, <2>3, <3>1, <3>2 DEF CoordinatorInv, CountsMatch
  <2>4. ASSUME NEW r \in Requests, requests[r].phase \in {"work", "commit"}
        PROVE  requests[r].id \notin IdleRecords
    <3>1. PICK id, b : id = requests[r].id /\ b = requests[r].work
      OBVIOUS
    <3>2. id \in Ids /\ Live(id) /\ records[id].born = b /\ r \in WorkHolders(id, b)
      BY <1>0, <2>4, <3>1 DEF CoordinatorInv, CountsMatch, WorkHolders, RequestsTyped
    <3>3. records[id].work = Cardinality(WorkHolders(id, b))
      BY <3>2 DEF CoordinatorInv, CountsMatch
    <3>4. records[id].work # 0
      BY <3>2, <3>3, HoldersFinite, FS_EmptySet
    <3>5. activeCount(records[id]) # 0
      BY <1>0, <3>2, <3>4 DEF activeCount, RecordType
    <3> QED BY <3>1, <3>5 DEF IdleRecords
  <2>5. ASSUME NEW r \in Requests, requests[r].phase \in {"work", "commit"}
        PROVE  /\ records'[requests[r].id].state # "none"
               /\ records'[requests[r].id].born = requests[r].work
               /\ requests[r].phase = "commit" => requests[r].commit = requests[r].work
    <3>1. /\ requests[r].id \in Ids /\ Live(requests[r].id)
          /\ records[requests[r].id].born = requests[r].work
          /\ requests[r].phase = "commit" => requests[r].commit = requests[r].work
      BY <1>0, <2>5 DEF CoordinatorInv, CountsMatch, RequestsTyped
    <3> QED BY <1>3, <1>4, <2>4, <2>5, <3>1
  <2> QED BY <1>1, <2>3, <2>5 DEF CountsMatch, Live
<1>12. HistoryOK'
  <2>1. \A p \in proofs' : \/ p \in proofs
                           \/ \E id \in IdleRecords : p.id = id /\ p.born = records[id].born
    BY DEF shutdown
  <2>2. \A p \in proofs' : Ended(p)'
    BY <1>1, <1>6, <1>7, <2>1 DEF Ended, CoordinatorInv, HistoryOK
  <2> QED BY <1>8, <2>2 DEF HistoryOK
<1>13. ClosingOK'
  <2>1. \A id \in Ids : records'[id].state # "active"
    BY <1>3, <1>4 DEF NoRecord
  <2> QED BY <1>1, <2>1 DEF ClosingOK, Active
<1> QED BY <1>9, <1>10, <1>11, <1>12, <1>13 DEF CoordinatorInv

-----------------------------------------------------------------------------
(* The theorems.                                                           *)

LEMMA InitHolds == Init => CoordinatorInv
<1> SUFFICES ASSUME Init PROVE CoordinatorInv
  OBVIOUS
<1>1. NoRecord \in RecordType
  BY CoordinatorAssumption DEF NoRecord, RecordType
<1>2. /\ records = [id \in Ids |-> NoRecord] /\ tombstones = <<>>
      /\ requests = [r \in Requests |-> NoRequest]
      /\ proofs = {} /\ closing = FALSE /\ closed = FALSE /\ started = 0
  BY DEF Init
<1>3. TypeOK
  <2>1. records \in [Ids -> RecordType]
    BY <1>1, <1>2
  <2>2. RequestsTyped
    BY <1>2 DEF RequestsTyped, NoRequest
  <2>3. tombstones \in Seq(TombstoneType)
    BY <1>2
  <2> QED BY <1>2, <2>1, <2>2, <2>3 DEF TypeOK, RecordType, TombstoneType, RequestsTyped
<1>4. RecordsOK
  BY <1>2 DEF RecordsOK, NoRecord, Live
<1>5. CountsMatch
  BY <1>2 DEF CountsMatch, Live, NoRecord, NoRequest
<1>6. HistoryOK /\ ClosingOK
  BY <1>2 DEF HistoryOK, ClosingOK
<1> QED BY <1>3, <1>4, <1>5, <1>6 DEF CoordinatorInv

\* The closed connection of a request.
LEMMA RequestCancellationKeeps ==
    ASSUME CoordinatorInv, NEW r \in Requests, onRequestCancellation(r)
    PROVE  CoordinatorInv'
<1>0. RequestsTyped
  BY TypedParts
<1>1. PICK id : id = requests[r].id
  OBVIOUS
<1>2. /\ Settle(id, Cancelling(records[id]), FALSE)
      /\ requests' = [requests EXCEPT ![r].gone = TRUE]
      /\ UNCHANGED <<closing, started>>
      /\ requests[r].phase \in {"work", "commit"}
  BY <1>1 DEF onRequestCancellation
<1>3. id \in Ids /\ Live(id)
  BY <1>0, <1>1, <1>2 DEF CoordinatorInv, CountsMatch, RequestsTyped
<1>4. RequestsTyped'
  BY <1>0, <1>2 DEF RequestsTyped
<1>5. \A q \in Requests : \A f \in {"phase", "id", "work", "commit"} :
         requests'[q][f] = requests[q][f]
  BY <1>0, <1>2 DEF RequestsTyped
<1> QED BY <1>2, <1>3, <1>4, <1>5, CancelKeeps

LEMMA NextKeeps == CoordinatorInv /\ [Next]_vars => CoordinatorInv'
<1> SUFFICES ASSUME CoordinatorInv, [Next]_vars PROVE CoordinatorInv'
  OBVIOUS
<1>0. UNCHANGED requests =>
         /\ RequestsTyped'
         /\ \A r \in Requests : \A f \in {"phase", "id", "work", "commit"} :
               requests'[r][f] = requests[r][f]
  BY TypedParts DEF RequestsTyped
<1>1. ASSUME NEW id \in Ids, start(id) PROVE CoordinatorInv'
  BY <1>1, StartKeeps
<1>2. ASSUME NEW id \in Ids, heartbeat(id) PROVE CoordinatorInv'
  <2>1. Live(id) /\ UNCHANGED <<requests, closing, started>>
    BY <1>2 DEF heartbeat, Active, Live
  <2>2. CASE records[id].lease > 0
    <3>1. /\ records' = [records EXCEPT ![id].lease = LeaseTicks]
          /\ UNCHANGED <<tombstones, requests, proofs, closing, closed, started>>
      BY <1>2, <2>2 DEF heartbeat
    <3> QED BY <2>1, <3>1, QuietSteps
  <2>3. CASE ~(records[id].lease > 0)
    <3>1. Settle(id, Cancelling(records[id]), FALSE)
      BY <1>2, <2>3 DEF heartbeat
    <3> QED BY <1>0, <2>1, <3>1, CancelKeeps
  <2> QED BY <2>2, <2>3
<1>3. ASSUME NEW id \in Ids, cancel(id) PROVE CoordinatorInv'
  BY <1>0, <1>3, CancelKeeps DEF cancel
<1>4. ASSUME NEW id \in Ids, finish(id) PROVE CoordinatorInv'
  BY <1>4, FinishKeeps
<1>5. ASSUME NEW id \in Ids, lookupTombstone(id) PROVE CoordinatorInv'
  BY <1>5, LookupKeeps
<1>6. ASSUME NEW id \in Ids, leaseTimer(id) PROVE CoordinatorInv'
  BY <1>0, <1>6, CancelKeeps DEF leaseTimer, Active, Live
<1>7. ASSUME NEW id \in Ids, ClientDies(id) PROVE CoordinatorInv'
  BY <1>7, QuietSteps
<1>8. ASSUME NEW c \in calls, detachWaiter(c) PROVE CoordinatorInv'
  BY <1>8, QuietSteps
<1>9. ASSUME NEW r \in Requests, NEW id \in Ids, admitWork(r, id) PROVE CoordinatorInv'
  BY <1>9, AdmitWorkKeeps
<1>10. ASSUME NEW r \in Requests, acquireCommit(r) PROVE CoordinatorInv'
  BY <1>10, AcquireCommitKeeps
<1>11. ASSUME NEW r \in Requests, onRequestCancellation(r) PROVE CoordinatorInv'
  BY <1>11, RequestCancellationKeeps
<1>12. ASSUME NEW r \in Requests, RequestEnds(r) PROVE CoordinatorInv'
  <2>1. CASE releaseCommit(r)
    BY <2>1, ReleaseCommitKeeps
  <2>2. CASE releaseWork(r)
    BY <2>2, ReleaseWorkKeeps
  <2>3. CASE settleRequest(r)
    BY <2>3, QuietSteps
  <2> QED BY <1>12, <2>1, <2>2, <2>3 DEF RequestEnds
<1>13. CASE Tick
  BY <1>13, QuietSteps
<1>14. CASE shutdown
  BY <1>14, ShutdownKeeps
<1>15. CASE UNCHANGED vars
  BY <1>15, QuietSteps
<1> QED
  BY <1>1, <1>2, <1>3, <1>4, <1>5, <1>6, <1>7, <1>8, <1>9, <1>10, <1>11, <1>12,
     <1>13, <1>14, <1>15
  DEF Next

LEMMA InvariantHolds == Spec => []CoordinatorInv
  BY InitHolds, NextKeeps, PTL DEF Spec

\* The coordinator's maps and the requests keep their types: no count goes
\* below zero, and no permit is held by a request without an id.
THEOREM TypeCorrect == Spec => []TypeOK
<1>1. CoordinatorInv => TypeOK
  BY DEF CoordinatorInv
<1> QED BY <1>1, InvariantHolds, PTL

\* Whatever the interleaving of admission, release, cancellation, expiry,
\* replay of an id and shutdown, activeCount is the number of permits held.
THEOREM CountsMatchAlways == Spec => []CountsMatch
<1>1. CoordinatorInv => CountsMatch
  BY DEF CoordinatorInv
<1> QED BY <1>1, InvariantHolds, PTL

\* A terminal reply of cancel, finish or snapshot proves that no permit of the
\* invocation is held, then or later.
THEOREM DrainProofAlways == Spec => []DrainProof
<1>1. CoordinatorInv => DrainProof
  <2> SUFFICES ASSUME CoordinatorInv, NEW p \in proofs, NEW r \in Requests,
                      r \in WorkHolders(p.id, p.born) \cup CommitHolders(p.id, p.born)
               PROVE  FALSE
    BY DEF DrainProof, WorkHolders, CommitHolders
  <2>1. /\ requests[r].phase \in {"work", "commit"} /\ requests[r].id = p.id
        /\ \/ requests[r].work = p.born
           \/ requests[r].phase = "commit" /\ requests[r].commit = p.born
    BY DEF WorkHolders, CommitHolders
  <2>2. records[p.id].born = p.born
    BY <2>1 DEF CoordinatorInv, CountsMatch
  <2> QED BY <2>2 DEF CoordinatorInv, HistoryOK, Ended
<1> QED BY <1>1, InvariantHolds, PTL

\* When the promise of shutdown is resolved, no request holds a permit.
THEOREM ShutdownDrainedAlways == Spec => []ShutdownDrained
<1>1. CoordinatorInv => ShutdownDrained
  <2> SUFFICES ASSUME CoordinatorInv, closed, NEW r \in Requests,
                      requests[r].phase \notin {"none", "settle"}
               PROVE  FALSE
    BY DEF ShutdownDrained
  <2>0. records \in [Ids -> RecordType] /\ RequestsTyped
    BY TypedParts
  <2>1. requests[r].phase \in {"work", "commit"} /\ requests[r].id \in Ids
    BY <2>0 DEF RequestsTyped
  <2>2. PICK id, b : id = requests[r].id /\ b = requests[r].work
    OBVIOUS
  <2>3. /\ id \in Ids /\ Live(id) /\ records[id].born = b
        /\ r \in WorkHolders(id, b)
    BY <2>1, <2>2 DEF CoordinatorInv, CountsMatch, WorkHolders
  <2>4. records[id].work = Cardinality(WorkHolders(id, b))
    BY <2>3 DEF CoordinatorInv, CountsMatch
  <2>5. records[id].work # 0
    BY <2>3, <2>4, HoldersFinite, FS_EmptySet
  <2>6. activeCount(records[id]) = 0
    BY <2>3 DEF CoordinatorInv, ClosingOK, globalZero
  <2> QED BY <2>0, <2>3, <2>5, <2>6 DEF activeCount, RecordType
<1> QED BY <1>1, InvariantHolds, PTL

-----------------------------------------------------------------------------
(* Cancellation is final.                                                  *)

\* x is an answer that is given, or kept to be given.
Known(x) == x \in proofs \/ \E n \in DOMAIN tombstones : x = tombstones[n]

\* What a step may do to the invocation of id, if that is cancelled.
StaysCancelled(id) ==
    records[id].drain = "cancelled" =>
        IF records'[id].born = records[id].born
          THEN records'[id].drain = "cancelled"
          ELSE \A told \in proofs' \cup {tombstones'[n] : n \in DOMAIN tombstones'} :
                  told.id = id /\ told.born = records[id].born
                     => told.state = "cancelled"

\* Nothing has been told of an invocation that lives: an answer about it is
\* new, and new answers about a cancelled invocation say so.
LEMMA FinalIfNewAnswersSaySo ==
    ASSUME CoordinatorInv,
           \A id \in Ids :
               records[id].drain = "cancelled" /\ records'[id].born = records[id].born
                  => records'[id].drain = "cancelled",
           \A told : Known(told)' =>
               \/ Known(told)
               \/ records[told.id].drain = "cancelled" => told.state = "cancelled"
    PROVE  \A id \in Ids : StaysCancelled(id)
<1>1. \A told : Known(told) => records[told.id].born # told.born
  BY DEF Known, CoordinatorInv, HistoryOK, Ended
<1>2. ASSUME NEW id \in Ids, records[id].drain = "cancelled",
             NEW told \in proofs' \cup {tombstones'[n] : n \in DOMAIN tombstones'},
             told.id = id, told.born = records[id].born
      PROVE  told.state = "cancelled"
  <2>1. Known(told)'
    BY <1>2 DEF Known
  <2> QED BY <1>1, <1>2, <2>1
<1> QED BY <1>2 DEF StaysCancelled

\* Steps that leave the answers alone.
LEMMA FinalIfSilent ==
    ASSUME CoordinatorInv, UNCHANGED <<tombstones, proofs>>,
           \A id \in Ids :
               records[id].drain = "cancelled" /\ records'[id].born = records[id].born
                  => records'[id].drain = "cancelled"
    PROVE  \A id \in Ids : StaysCancelled(id)
<1>1. \A told : Known(told)' => Known(told)
  BY DEF Known
<1> QED BY <1>1, FinalIfNewAnswersSaySo

\* A record may get any new value that does not take a cancellation back.
LEMMA SettleIsFinal ==
    ASSUME CoordinatorInv,
           NEW id \in Ids, NEW rec \in RecordType,
           rec.born = records[id].born,
           records[id].drain = "cancelled" => rec.drain = "cancelled",
           NEW asking, Settle(id, rec, asking)
    PROVE  \A o \in Ids : StaysCancelled(o)
<1>0. records \in [Ids -> RecordType] /\ tombstones \in Seq(TombstoneType)
  BY TypedParts
<1>1. CASE ~Drains(rec)
  <2>1. records' = [records EXCEPT ![id] = rec] /\ UNCHANGED <<tombstones, proofs>>
    BY <1>1 DEF Settle
  <2>2. \A o \in Ids : records[o].drain = "cancelled" => records'[o].drain = "cancelled"
    BY <1>0, <2>1
  <2> QED BY <2>1, <2>2, FinalIfSilent
<1>2. CASE Drains(rec)
  <2> DEFINE t == Tombstone(id, rec)
  <2>1. /\ records' = [records EXCEPT ![id] = NoRecord]
        /\ tombstones' = Newest(Append(tombstones, t))
    BY <1>2 DEF Settle, terminalize
  <2>2. \A p \in proofs' : p \in proofs \/ (p.id = id /\ p.state = rec.drain)
    BY <1>2 DEF Settle
  <2>3. t \in TombstoneType /\ t.id = id /\ t.state = rec.drain
    BY <1>2 DEF Drains, Tombstone, TombstoneType, RecordType
  <2> HIDE DEF t
  <2>4. \A n \in DOMAIN tombstones' :
           tombstones'[n] = t
           \/ \E m \in DOMAIN tombstones : tombstones'[n] = tombstones[m]
    <3> DEFINE u == Append(tombstones, t)
    <3>1. /\ u \in Seq(TombstoneType)
          /\ \A n \in DOMAIN u :
                u[n] = t \/ \E m \in DOMAIN tombstones : u[n] = tombstones[m]
      BY <1>0, <2>3, AppendKeeps
    <3>2. tombstones' = Newest(u)
      BY <2>1
    <3> HIDE DEF u
    <3>3. /\ Newest(u) \in Seq(TombstoneType)
          /\ \A n \in DOMAIN Newest(u) : \E m \in DOMAIN u : Newest(u)[n] = u[m]
      BY <3>1, NewestKeeps
    <3> QED BY <3>1, <3>2, <3>3
  <2>5. \A told : Known(told)' => Known(told) \/ (told.id = id /\ told.state = rec.drain)
    BY <2>2, <2>3, <2>4 DEF Known
  <2>6. ASSUME NEW o \in Ids, records[o].drain = "cancelled",
               records'[o].born = records[o].born
        PROVE  records'[o].drain = "cancelled"
    <3>1. CASE o # id
      BY <1>0, <2>1, <2>6, <3>1
    <3>2. CASE o = id
      <4>1. records[o].born # 0
        BY <2>6 DEF CoordinatorInv, RecordsOK, Live
      <4>2. records'[o].born = 0
        BY <1>0, <2>1, <3>2 DEF NoRecord
      <4> QED BY <2>6, <4>1, <4>2
    <3> QED BY <3>1, <3>2
  <2> QED BY <2>5, <2>6, FinalIfNewAnswersSaySo
<1> QED BY <1>1, <1>2

\* Cancelling a live invocation.
LEMMA CancelIsFinal ==
    ASSUME CoordinatorInv, NEW id \in Ids, Live(id),
           NEW asking, Settle(id, Cancelling(records[id]), asking)
    PROVE  \A o \in Ids : StaysCancelled(o)
<1>1. PICK rec : rec = Cancelling(records[id])
  OBVIOUS
<1>2. rec \in RecordType /\ rec.born = records[id].born
  BY <1>1, ClosingRecords
<1>3. rec.drain = "cancelled"
  <2>1. records[id] \in RecordType
    BY TypedParts
  <2> QED BY <1>1, <2>1 DEF Cancelling, RecordType
<1> QED BY <1>1, <1>2, <1>3, SettleIsFinal

\* A permit that comes back changes a count.
LEMMA ReleaseIsFinal ==
    ASSUME CoordinatorInv, NEW r \in Requests, releaseWork(r) \/ releaseCommit(r)
    PROVE  \A o \in Ids : StaysCancelled(o)
<1>1. PICK id : id = requests[r].id
  OBVIOUS
<1>2. requests[r].phase \in {"work", "commit"}
  BY DEF releaseWork, releaseCommit
<1>3. /\ id \in Ids /\ Live(id) /\ records[id].born = requests[r].work
      /\ requests[r].phase = "commit" => requests[r].commit = requests[r].work
      /\ records[id] \in RecordType
  BY <1>1, <1>2 DEF CoordinatorInv, CountsMatch, TypeOK, RecordType
<1>4. IsFiniteSet(WorkHolders(id, records[id].born))
      /\ IsFiniteSet(CommitHolders(id, records[id].born))
  BY HoldersFinite
<1>5. CASE releaseWork(r)
  <2>1. PICK rec : rec = [records[id] EXCEPT !.work = @ - 1]
    OBVIOUS
  <2>2. r \in WorkHolders(id, records[id].born)
    BY <1>1, <1>2, <1>3 DEF WorkHolders
  <2>3. records[id].work # 0
    BY <1>3, <1>4, <2>2, FS_EmptySet DEF CoordinatorInv, CountsMatch
  <2>4. /\ rec \in RecordType /\ rec.born = records[id].born
        /\ rec.drain = records[id].drain
    BY <1>3, <2>1, <2>3 DEF RecordType
  <2>5. Settle(id, rec, FALSE)
    BY <1>1, <1>3, <1>5, <2>1 DEF releaseWork, Release
  <2> QED BY <1>3, <2>4, <2>5, SettleIsFinal
<1>6. CASE releaseCommit(r)
  <2>1. PICK rec : rec = [records[id] EXCEPT !.commit = @ - 1]
    OBVIOUS
  <2>2. r \in CommitHolders(id, records[id].born)
    BY <1>1, <1>3, <1>6 DEF CommitHolders, releaseCommit
  <2>3. records[id].commit # 0
    BY <1>3, <1>4, <2>2, FS_EmptySet DEF CoordinatorInv, CountsMatch
  <2>4. /\ rec \in RecordType /\ rec.born = records[id].born
        /\ rec.drain = records[id].drain
    BY <1>3, <2>1, <2>3 DEF RecordType
  <2>5. Settle(id, rec, FALSE)
    BY <1>1, <1>3, <1>6, <2>1 DEF releaseCommit, Release
  <2> QED BY <1>3, <2>4, <2>5, SettleIsFinal
<1> QED BY <1>5, <1>6

\* A tombstone that is looked up is an answer that was known.
LEMMA LookupIsFinal ==
    ASSUME CoordinatorInv, NEW id \in Ids, lookupTombstone(id)
    PROVE  \A o \in Ids : StaysCancelled(o)
<1>0. tombstones \in Seq(TombstoneType)
  BY TypedParts
<1>1. PICK n \in DOMAIN tombstones :
         /\ tombstones' = Moved(tombstones, n)
         /\ proofs' = proofs \cup {tombstones[n]} \/ UNCHANGED proofs
  BY DEF lookupTombstone, Moved
<1>2. \A i \in DOMAIN tombstones' : \E m \in DOMAIN tombstones : tombstones'[i] = tombstones[m]
  BY <1>0, <1>1, MovedRows
<1>3. \A told : Known(told)' => Known(told)
  BY <1>1, <1>2 DEF Known
<1>4. UNCHANGED records
  BY DEF lookupTombstone
<1> QED BY <1>3, <1>4, FinalIfNewAnswersSaySo

\* Shutdown tells of the idle invocations, which it cancels.
LEMMA ShutdownIsFinal ==
    ASSUME CoordinatorInv, shutdown
    PROVE  \A o \in Ids : StaysCancelled(o)
<1>0. /\ records \in [Ids -> RecordType] /\ tombstones \in Seq(TombstoneType)
  BY TypedParts
<1>1. records' = [id \in Ids |-> IF id \in IdleRecords THEN NoRecord
                                 ELSE IF Live(id) THEN Cancelling(records[id])
                                 ELSE records[id]]
  BY DEF shutdown
<1>2. ASSUME NEW id \in Ids, records[id].drain = "cancelled",
             records'[id].born = records[id].born
      PROVE  records'[id].drain = "cancelled"
  <2>1. Live(id) /\ records[id].born # 0
    BY <1>2 DEF CoordinatorInv, RecordsOK, Live
  <2>2. CASE id \in IdleRecords
    BY <1>1, <1>2, <2>1, <2>2 DEF NoRecord
  <2>3. CASE id \notin IdleRecords
    <3>1. records[id] \in RecordType
      BY <1>0
    <3> QED BY <1>1, <2>1, <2>3, <3>1 DEF Cancelling, RecordType
  <2> QED BY <2>2, <2>3
<1>3. \A p \in proofs' : p \in proofs \/ p.state = "cancelled"
  BY DEF shutdown
<1>4. \A n \in DOMAIN tombstones' :
         \/ \E m \in DOMAIN tombstones : tombstones'[n] = tombstones[m]
         \/ tombstones'[n].state = "cancelled"
  <2>1. PICK order \in [1..Cardinality(IdleRecords) -> IdleRecords] :
           tombstones' = Newest(tombstones \o
              [n \in DOMAIN order |->
                  Tombstone(order[n], Cancelling(records[order[n]]))])
    BY DEF shutdown
  <2>2. PICK u : u = [n \in DOMAIN order |->
                        Tombstone(order[n], Cancelling(records[order[n]]))]
    OBVIOUS
  <2>3. Cardinality(IdleRecords) \in Nat
    <3>1. IdleRecords \subseteq Ids
      BY DEF IdleRecords
    <3> QED BY <3>1, CoordinatorAssumption, FS_Subset, FS_CardinalityType
  <2>4. \A id \in IdleRecords :
           /\ Tombstone(id, Cancelling(records[id])) \in TombstoneType
           /\ Tombstone(id, Cancelling(records[id])).state = "cancelled"
    <3> TAKE id \in IdleRecords
    <3>1. id \in Ids /\ records[id] \in RecordType
      BY <1>0 DEF IdleRecords
    <3> QED BY <3>1 DEF Cancelling, RecordType, Tombstone, TombstoneType
  <2>5. /\ u \in [1..Cardinality(IdleRecords) -> TombstoneType]
        /\ \A m \in DOMAIN u : u[m].state = "cancelled"
    BY <2>2, <2>4
  <2>6. u \in Seq(TombstoneType)
    BY <2>3, <2>5, SeqDef
  <2>7. PICK t : t = tombstones \o u
    OBVIOUS
  <2>8. /\ t \in Seq(TombstoneType)
        /\ \A n \in DOMAIN t : \/ \E m \in DOMAIN tombstones : t[n] = tombstones[m]
                               \/ \E m \in DOMAIN u : t[n] = u[m]
    BY <1>0, <2>6, <2>7, ConcatKeeps
  <2>9. tombstones' = Newest(t)
    BY <2>1, <2>2, <2>7
  <2>10. /\ Newest(t) \in Seq(TombstoneType)
         /\ \A n \in DOMAIN Newest(t) : \E m \in DOMAIN t : Newest(t)[n] = t[m]
    BY <2>8, NewestKeeps
  <2>11. ASSUME NEW n \in DOMAIN tombstones'
         PROVE  \/ \E m \in DOMAIN tombstones : tombstones'[n] = tombstones[m]
                \/ tombstones'[n].state = "cancelled"
    <3>1. PICK k \in DOMAIN t : tombstones'[n] = t[k]
      BY <2>9, <2>10, <2>11
    <3>2. CASE \E m \in DOMAIN tombstones : t[k] = tombstones[m]
      BY <3>1, <3>2
    <3>3. CASE \E m \in DOMAIN u : t[k] = u[m]
      BY <2>5, <3>1, <3>3
    <3> QED BY <2>8, <3>2, <3>3
  <2> QED BY <2>11
<1>5. \A told : Known(told)' => Known(told) \/ told.state = "cancelled"
  BY <1>3, <1>4 DEF Known
<1> QED BY <1>2, <1>5, FinalIfNewAnswersSaySo

\* A start, a permit and the lease leave the answers and the drain alone.
LEMMA QuietIsFinal ==
    ASSUME CoordinatorInv,
           UNCHANGED <<tombstones, proofs>>,
           \A id \in Ids : \/ records'[id].drain = records[id].drain
                           \/ records[id].drain # "cancelled"
    PROVE  \A o \in Ids : StaysCancelled(o)
  BY FinalIfSilent

LEMMA NextIsFinal ==
    CoordinatorInv /\ [Next]_vars => \A o \in Ids : StaysCancelled(o)
<1> SUFFICES ASSUME CoordinatorInv, [Next]_vars PROVE \A o \in Ids : StaysCancelled(o)
  OBVIOUS
<1>0. /\ records \in [Ids -> RecordType]
      /\ \A id \in Ids : records[id].drain = "cancelled" => Live(id) /\ ~Active(id)
  BY TypedParts DEF CoordinatorInv, RecordsOK, Live, Active
<1>1. ASSUME NEW id \in Ids, start(id) PROVE \A o \in Ids : StaysCancelled(o)
  <2>1. \A o \in Ids : records'[o].drain = records[o].drain
                       \/ records[o].drain # "cancelled"
    BY <1>0, <1>1 DEF start
  <2> QED BY <1>1, <2>1, QuietIsFinal DEF start
<1>2. ASSUME NEW id \in Ids, heartbeat(id) PROVE \A o \in Ids : StaysCancelled(o)
  <2>1. Live(id)
    BY <1>2 DEF heartbeat, Active, Live
  <2>2. CASE records[id].lease > 0
    <3>1. /\ records' = [records EXCEPT ![id].lease = LeaseTicks]
          /\ UNCHANGED <<tombstones, proofs>>
      BY <1>2, <2>2 DEF heartbeat
    <3>2. \A o \in Ids : records'[o].drain = records[o].drain
      BY <1>0, <3>1 DEF RecordType
    <3> QED BY <3>1, <3>2, QuietIsFinal
  <2>3. CASE ~(records[id].lease > 0)
    BY <1>2, <2>1, <2>3, CancelIsFinal DEF heartbeat
  <2> QED BY <2>2, <2>3
<1>3. ASSUME NEW id \in Ids, cancel(id) PROVE \A o \in Ids : StaysCancelled(o)
  BY <1>3, CancelIsFinal DEF cancel
<1>4. ASSUME NEW id \in Ids, finish(id) PROVE \A o \in Ids : StaysCancelled(o)
  <2>1. PICK rec : rec = IF records[id].drain = "cancelled" THEN records[id]
                         ELSE [records[id] EXCEPT !.state = "cancelling",
                                                  !.drain = "finished"]
    OBVIOUS
  <2>2. /\ rec \in RecordType /\ rec.born = records[id].born
        /\ records[id].drain = "cancelled" => rec.drain = "cancelled"
    BY <1>0, <2>1 DEF RecordType
  <2>3. Settle(id, rec, TRUE)
    BY <1>4, <2>1 DEF finish
  <2> QED BY <2>2, <2>3, SettleIsFinal
<1>5. ASSUME NEW id \in Ids, lookupTombstone(id) PROVE \A o \in Ids : StaysCancelled(o)
  BY <1>5, LookupIsFinal
<1>6. ASSUME NEW id \in Ids, leaseTimer(id) PROVE \A o \in Ids : StaysCancelled(o)
  BY <1>6, CancelIsFinal DEF leaseTimer, Active, Live
<1>7. ASSUME NEW id \in Ids, ClientDies(id) PROVE \A o \in Ids : StaysCancelled(o)
  BY <1>7, QuietIsFinal DEF ClientDies
<1>8. ASSUME NEW c \in calls, detachWaiter(c) PROVE \A o \in Ids : StaysCancelled(o)
  BY <1>8, QuietIsFinal DEF detachWaiter
<1>9. ASSUME NEW r \in Requests, NEW id \in Ids, admitWork(r, id)
      PROVE  \A o \in Ids : StaysCancelled(o)
  <2>1. \A o \in Ids : records'[o].drain = records[o].drain
    BY <1>0, <1>9 DEF admitWork, RecordType
  <2> QED BY <1>9, <2>1, QuietIsFinal DEF admitWork
<1>10. ASSUME NEW r \in Requests, acquireCommit(r) PROVE \A o \in Ids : StaysCancelled(o)
  <2>1. PICK id : id = requests[r].id
    OBVIOUS
  <2>2. id \in Ids
    BY <1>10, <2>1, TypedParts DEF acquireCommit, RequestsTyped
  <2>3. records' = [records EXCEPT ![id].commit = @ + 1]
    BY <1>10, <2>1 DEF acquireCommit
  <2>4. \A o \in Ids : records'[o].drain = records[o].drain
    BY <1>0, <2>2, <2>3 DEF RecordType
  <2> QED BY <1>10, <2>4, QuietIsFinal DEF acquireCommit
<1>11. ASSUME NEW r \in Requests, onRequestCancellation(r)
       PROVE  \A o \in Ids : StaysCancelled(o)
  <2>1. PICK id : id = requests[r].id
    OBVIOUS
  <2>2. id \in Ids /\ Live(id)
    BY <1>11, <2>1, TypedParts
    DEF onRequestCancellation, CoordinatorInv, CountsMatch, RequestsTyped
  <2>3. Settle(id, Cancelling(records[id]), FALSE)
    BY <1>11, <2>1 DEF onRequestCancellation
  <2> QED BY <2>2, <2>3, CancelIsFinal
<1>12. ASSUME NEW r \in Requests, RequestEnds(r) PROVE \A o \in Ids : StaysCancelled(o)
  <2>1. CASE releaseCommit(r) \/ releaseWork(r)
    BY <2>1, ReleaseIsFinal
  <2>2. CASE settleRequest(r)
    BY <2>2, QuietIsFinal DEF settleRequest
  <2> QED BY <1>12, <2>1, <2>2 DEF RequestEnds
<1>13. CASE Tick
  <2>1. \A o \in Ids : records'[o].drain = records[o].drain
    BY <1>0, <1>13 DEF Tick, RecordType
  <2> QED BY <1>13, <2>1, QuietIsFinal DEF Tick
<1>14. CASE shutdown
  BY <1>14, ShutdownIsFinal
<1>15. CASE UNCHANGED vars
  BY <1>15, QuietIsFinal DEF vars
<1> QED
  BY <1>1, <1>2, <1>3, <1>4, <1>5, <1>6, <1>7, <1>8, <1>9, <1>10, <1>11, <1>12,
     <1>13, <1>14, <1>15
  DEF Next

\* An invocation that is cancelled stays cancelled until it drains, and every
\* answer about it, given then or kept for later, says that it was cancelled:
\* a finish that comes in between does not make it a success.
THEOREM CancelWinsAlways == Spec => CancelWins
<1>1. CoordinatorInv /\ [Next]_vars =>
        [\A id \in Ids : records[id].drain = "cancelled" =>
           IF records'[id].born = records[id].born
             THEN records'[id].drain = "cancelled"
             ELSE \A told \in proofs' \cup {tombstones'[n] : n \in DOMAIN tombstones'} :
                     told.id = id /\ told.born = records[id].born
                        => told.state = "cancelled"]_vars
  BY NextIsFinal DEF StaysCancelled
<1> QED BY <1>1, InvariantHolds, PTL DEF Spec, CancelWins
=============================================================================
