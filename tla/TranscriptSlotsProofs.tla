------------------------ MODULE TranscriptSlotsProofs ------------------------
(***************************************************************************)
(* The safety of TranscriptSlots for lists and sessions of any length.  The *)
(* next index of the client's list is a count of rows; the proof is that   *)
(* this count is an index.  The rows that count are the transcript's and   *)
(* the events which took an index, and the indices up to their number are  *)
(* those stored or lost, no more and no fewer.  Writing down the slots of  *)
(* old events does not change which rows count, so the claim survives the  *)
(* upgrade; before it, a row's index was its place in the session.         *)
(***************************************************************************)
EXTENDS TranscriptSlots, SequenceTheorems, FiniteSetTheorems, TLAPS

Row == [kind : {"transcript", "event"}, index : Nat,
        markers : {{}, {TRUE}, {FALSE}}]

\* The rows that take an index of the client's list.
Counted == TranscriptRows \cup {i \in EventRows : Consumed(i)}

\* Before there were markers, a message's index was its row's.
LegacyRows ==
    ~current => \A i \in DOMAIN rows :
                    /\ rows[i].markers = {}
                    /\ rows[i].kind = "transcript" => rows[i].index = i

\* The indices up to the next one are those stored or lost.
Accounted == Stored \cup lost = 1..Cardinality(Counted)

\* No list was longer than what has been counted since.
Covered == answered <= Cardinality(Counted)

SlotsInv == TypeOK /\ StoredOnce /\ LegacyRows /\ Accounted /\ Covered

-----------------------------------------------------------------------------
(* Lemmas about rows and slots.                                            *)

LEMMA RowsTyped ==
    ASSUME TypeOK
    PROVE  /\ rows \in Seq(Row)
           /\ Len(rows) \in Nat
           /\ DOMAIN rows = 1..Len(rows)
           /\ \A i \in DOMAIN rows : rows[i] \in Row
<1>1. rows \in Seq(Row)
  BY Zenon DEF TypeOK, Row
<1> QED
  BY <1>1

\* In a state and in the next.
LEMMA ConsumedIsBoolean ==
    \A i : Consumed(i) \in BOOLEAN /\ Consumed(i)' \in BOOLEAN
<1> TAKE i
<1>1. Consumed(i) \in BOOLEAN
  <2>1. followedByTranscript(i) \in BOOLEAN
    BY DEF followedByTranscript
  <2>2. CASE rows[i].markers # {}
    BY <2>2 DEF Consumed
  <2>3. CASE ~(rows[i].markers # {})
    BY <2>1, <2>3 DEF Consumed
  <2> QED
    BY <2>2, <2>3
<1>2. Consumed(i)' \in BOOLEAN
  <2>1. followedByTranscript(i)' \in BOOLEAN
    BY DEF followedByTranscript
  <2>2. CASE rows'[i].markers # {}
    BY <2>2 DEF Consumed
  <2>3. CASE ~(rows'[i].markers # {})
    BY <2>1, <2>3 DEF Consumed
  <2> QED
    BY <2>2, <2>3
<1> QED
  BY <1>1, <1>2

LEMMA SlotsBoolean ==
    ASSUME TypeOK, NEW i \in DOMAIN rows
    PROVE  /\ followedByTranscript(i) \in BOOLEAN
           /\ Consumed(i) \in BOOLEAN
           /\ {Consumed(i)} \in {{TRUE}, {FALSE}}
<1>1. followedByTranscript(i) \in BOOLEAN
  BY DEF followedByTranscript
<1>2. Consumed(i) \in BOOLEAN
  BY ConsumedIsBoolean
<1> QED
  BY <1>1, <1>2

LEMMA CountIsCounted ==
    ASSUME TypeOK
    PROVE  /\ IsFiniteSet(Counted)
           /\ Cardinality(Counted) \in Nat
           /\ transcriptCount + consumedCount = Cardinality(Counted)
<1> DEFINE E == {i \in EventRows : Consumed(i)}
<1>1. IsFiniteSet(DOMAIN rows)
  BY RowsTyped, FS_Interval
<1>2. TranscriptRows \in SUBSET DOMAIN rows /\ E \in SUBSET DOMAIN rows
  BY DEF TranscriptRows, EventRows
<1>3. IsFiniteSet(TranscriptRows) /\ IsFiniteSet(E)
  BY <1>1, <1>2, FS_Subset
<1>4. TranscriptRows \cap E = {}
  BY DEF TranscriptRows, EventRows
<1>5. /\ Cardinality(TranscriptRows) \in Nat
      /\ Cardinality(E) \in Nat
  BY <1>3, FS_CardinalityType
<1>6. Cardinality({}) = 0
  BY FS_EmptySet
<1>7. /\ IsFiniteSet(TranscriptRows \cup E)
      /\ Cardinality(TranscriptRows \cup E)
            = Cardinality(TranscriptRows) + Cardinality(E)
                - Cardinality(TranscriptRows \cap E)
  BY <1>3, FS_Union
<1> HIDE DEF E
<1>8. Cardinality(TranscriptRows \cap E) = 0
  BY <1>4, <1>6
<1>9. Cardinality(TranscriptRows \cup E)
            = Cardinality(TranscriptRows) + Cardinality(E)
  BY <1>5, <1>7, <1>8
<1>10. Counted = TranscriptRows \cup E
  BY DEF Counted, E
<1> QED
  BY <1>5, <1>7, <1>9, <1>10 DEF transcriptCount, consumedCount, E

LEMMA SliceRows ==
    ASSUME NEW n \in Nat, NEW c \in Nat
    PROVE  /\ Slice(n, c) \in Seq(Row)
           /\ Len(Slice(n, c)) = IF n > c THEN n - c ELSE 0
           /\ \A k \in 1..(n - c) : Slice(n, c)[k] = Message(c + k)
<1>1. \A k \in 1..(n - c) : Message(c + k) \in Row
  BY DEF Message, Row
<1>2. CASE n > c
  <2>1. n - c \in Nat
    BY <1>2
  <2>2. Slice(n, c) \in [1..(n - c) -> Row]
    BY <1>1 DEF Slice
  <2> QED
    BY <1>2, <2>1, <2>2 DEF Slice
<1>3. CASE ~(n > c)
  <2>1. 1..(n - c) = {}
    BY <1>3
  <2>2. Slice(n, c) = << >>
    BY <2>1 DEF Slice
  <2> QED
    BY <1>3, <2>1, <2>2
<1> QED
  BY <1>2, <1>3

LEMMA AdoptedRows ==
    ASSUME TypeOK
    PROVE  /\ Adopted \in Seq(Row)
           /\ Len(Adopted) = Len(rows)
           /\ DOMAIN Adopted = DOMAIN rows
           /\ \A i \in DOMAIN rows :
                  /\ Adopted[i].kind = rows[i].kind
                  /\ Adopted[i].index = rows[i].index
                  /\ i \in EventRows /\ rows[i].markers = {}
                        => Adopted[i].markers = {Consumed(i)}
                  /\ ~(i \in EventRows /\ rows[i].markers = {})
                        => Adopted[i] = rows[i]
<1>1. ASSUME NEW i \in DOMAIN rows
      PROVE  [rows[i] EXCEPT !.markers = {Consumed(i)}] \in Row
  <2>1. {Consumed(i)} \in {{}, {TRUE}, {FALSE}}
    BY SlotsBoolean
  <2> DEFINE m == {Consumed(i)}
  <2> HIDE DEF m
  <2>2. m \in {{}, {TRUE}, {FALSE}}
    BY <2>1 DEF m
  <2>3. rows[i] \in Row
    BY RowsTyped
  <2>4. [rows[i] EXCEPT !.markers = m] \in Row
    BY <2>2, <2>3 DEF Row
  <2> QED
    BY <2>4 DEF m
<1>2. Adopted \in [1..Len(rows) -> Row]
  BY <1>1, RowsTyped DEF Adopted
<1>3. \A i \in DOMAIN rows : rows[i] \in Row
  BY RowsTyped
<1>4. ASSUME NEW i \in DOMAIN rows
      PROVE  /\ Adopted[i].kind = rows[i].kind
             /\ Adopted[i].index = rows[i].index
             /\ i \in EventRows /\ rows[i].markers = {}
                   => Adopted[i].markers = {Consumed(i)}
             /\ ~(i \in EventRows /\ rows[i].markers = {})
                   => Adopted[i] = rows[i]
  <2> DEFINE m == {Consumed(i)}
  <2>1. Adopted[i] = IF i \in EventRows /\ rows[i].markers = {}
                        THEN [rows[i] EXCEPT !.markers = m] ELSE rows[i]
    BY DEF Adopted
  <2> HIDE DEF m
  <2>2. rows[i] \in Row
    BY <1>3
  <2>3. /\ [rows[i] EXCEPT !.markers = m].kind = rows[i].kind
        /\ [rows[i] EXCEPT !.markers = m].index = rows[i].index
        /\ [rows[i] EXCEPT !.markers = m].markers = m
    BY <2>2 DEF Row
  <2>4. m = {Consumed(i)}
    BY DEF m
  <2>5. CASE i \in EventRows /\ rows[i].markers = {}
    BY <2>1, <2>3, <2>4, <2>5
  <2>6. CASE ~(i \in EventRows /\ rows[i].markers = {})
    BY <2>1, <2>6
  <2> QED
    BY <2>5, <2>6
<1> QED
  BY <1>2, <1>4, RowsTyped

-----------------------------------------------------------------------------
(* What a step does to the rows.  A list adds a slice of messages behind    *)
(* rows that keep their kinds and indices; an event adds one row.          *)

LEMMA SliceAdded ==
    ASSUME TypeOK,
           NEW s \in Seq(Row), Len(s) = Len(rows),
           \A i \in DOMAIN rows : /\ s[i].kind = rows[i].kind
                                  /\ s[i].index = rows[i].index,
           NEW n \in Nat, NEW c \in Nat,
           rows' = s \o Slice(n, c)
    PROVE  LET New == (Len(rows) + 1)..(Len(rows) + n - c)
           IN  /\ rows' \in Seq(Row)
               /\ DOMAIN rows' = DOMAIN rows \cup New
               /\ \A i \in DOMAIN rows : rows'[i] = s[i]
               /\ \A i \in New : rows'[i] = Message(c + i - Len(rows))
               /\ TranscriptRows' = TranscriptRows \cup New
               /\ EventRows' = EventRows
               /\ Stored' = Stored \cup ((c + 1)..n)
<1> DEFINE New == (Len(rows) + 1)..(Len(rows) + n - c)
           t == Slice(n, c)
<1>1. /\ t \in Seq(Row)
      /\ Len(t) = IF n > c THEN n - c ELSE 0
      /\ \A k \in 1..(n - c) : t[k] = Message(c + k)
  BY SliceRows
<1>2. rows' = s \o t
  OBVIOUS
<1>3. Len(rows) \in Nat /\ DOMAIN rows = 1..Len(rows)
  BY RowsTyped
<1> HIDE DEF t, New
<1>4. /\ s \o t \in Seq(Row)
       /\ Len(s \o t) = Len(rows) + Len(t)
       /\ \A i \in 1..(Len(s) + Len(t)) :
              (s \o t)[i] = IF i <= Len(s) THEN s[i] ELSE t[i - Len(s)]
  <2>1. s \in Seq(Row)
    OBVIOUS
  <2>2. Len(s) = Len(rows)
    OBVIOUS
  <2>3. t \in Seq(Row)
    BY <1>1
  <2>4. /\ s \o t \in Seq(Row)
        /\ Len(s \o t) = Len(s) + Len(t)
        /\ \A i \in 1..(Len(s) + Len(t)) :
               (s \o t)[i] = IF i <= Len(s) THEN s[i] ELSE t[i - Len(s)]
    BY <2>1, <2>3, ConcatProperties, Zenon
  <2> QED
    BY <2>2, <2>4, Zenon
<1>5. /\ rows' \in Seq(Row)
      /\ Len(rows') = Len(rows) + Len(t)
      /\ \A i \in 1..(Len(s) + Len(t)) :
             rows'[i] = IF i <= Len(s) THEN s[i] ELSE t[i - Len(s)]
  BY <1>2, <1>4
<1>6. DOMAIN rows' = DOMAIN rows \cup New
  BY <1>1, <1>3, <1>5 DEF New
<1>7. \A i \in DOMAIN rows : rows'[i] = s[i]
  BY <1>1, <1>3, <1>5
<1>8. ASSUME NEW i \in New
      PROVE  rows'[i] = Message(c + i - Len(rows))
  <2>1. /\ i \in 1..(Len(s) + Len(t)) 
        /\ ~(i <= Len(s))
        /\ i - Len(s) \in 1..(n - c)
    BY <1>1, <1>3 DEF New
  <2>2. rows'[i] = t[i - Len(s)]
    BY <1>5, <2>1
  <2>3. t[i - Len(s)] = Message(c + (i - Len(s)))
    BY <1>1, <2>1
  <2>4. c + (i - Len(s)) = c + i - Len(rows)
    BY <1>3, <2>1
  <2> QED
    BY <2>2, <2>3, <2>4
<1>9. \A i \in New : /\ rows'[i].kind = "transcript"
                     /\ rows'[i].index = c + i - Len(rows)
  <2>1. \A x : Message(x).kind = "transcript" /\ Message(x).index = x
    BY DEF Message
  <2> QED
    BY <1>8, <2>1, Zenon
<1>10. \A i \in DOMAIN rows : /\ rows'[i].kind = rows[i].kind
                             /\ rows'[i].index = rows[i].index
  BY <1>7
<1>11. TranscriptRows' = TranscriptRows \cup New
  BY <1>6, <1>9, <1>10 DEF TranscriptRows
<1>12. EventRows' = EventRows
  BY <1>6, <1>9, <1>10 DEF EventRows
<1>13. \A i \in TranscriptRows : rows'[i].index = rows[i].index
  BY <1>10 DEF TranscriptRows
<1>14. {rows'[i].index : i \in New} = (c + 1)..n
  <2>1. ASSUME NEW i \in New PROVE rows'[i].index \in (c + 1)..n
    <3>1. c + i - Len(rows) \in (c + 1)..n
      BY <1>3 DEF New
    <3> QED
      BY <1>9, <3>1
  <2>2. ASSUME NEW m \in (c + 1)..n
        PROVE  m \in {rows'[i].index : i \in New}
    <3>1. m + Len(rows) - c \in New
      BY <1>3 DEF New
    <3>2. rows'[m + Len(rows) - c].index = c + (m + Len(rows) - c) - Len(rows)
      BY <1>9, <3>1
    <3>3. c + (m + Len(rows) - c) - Len(rows) = m
      BY <1>3
    <3> QED
      BY <3>1, <3>2, <3>3
  <2> QED
    BY <2>1, <2>2
<1>15. Stored' = Stored \cup ((c + 1)..n)
  <2>1. Stored' = {rows'[i].index : i \in TranscriptRows \cup New}
    BY <1>11 DEF Stored
  <2>2. @ = {rows'[i].index : i \in TranscriptRows}
              \cup {rows'[i].index : i \in New}
    OBVIOUS
  <2>3. {rows'[i].index : i \in TranscriptRows} = Stored
    BY <1>13 DEF Stored
  <2> QED
    BY <1>14, <2>1, <2>2, <2>3
<1> QED
  BY <1>5, <1>6, <1>7, <1>8, <1>11, <1>12, <1>15 DEF New

LEMMA EventAdded ==
    ASSUME TypeOK, NEW m \in {{}, {TRUE}, {FALSE}},
           NEW N, N = Len(rows) + 1,
           rows' = Append(rows, Event(m))
    PROVE  /\ rows' \in Seq(Row)
           /\ DOMAIN rows' = DOMAIN rows \cup {N}
           /\ \A i \in DOMAIN rows : rows'[i] = rows[i]
           /\ rows'[N] = Event(m)
           /\ TranscriptRows' = TranscriptRows
           /\ EventRows' = EventRows \cup {N}
           /\ Stored' = Stored
           /\ \A i \in DOMAIN rows : Consumed(i)' = Consumed(i)
           /\ (Consumed(N)' <=> TRUE \in m)
           /\ TRUE \notin m => Counted' = Counted
<1>1. rows \in Seq(Row) /\ Len(rows) \in Nat /\ DOMAIN rows = 1..Len(rows)
  BY RowsTyped
<1>2. Event(m) \in Row
  BY DEF Event, Row
<1>3. /\ rows' \in Seq(Row)
      /\ DOMAIN rows' = DOMAIN rows \cup {N}
      /\ \A i \in DOMAIN rows : rows'[i] = rows[i]
      /\ rows'[N] = Event(m)
      /\ N \notin DOMAIN rows
  BY <1>1, <1>2
<1>4. rows'[N].kind = "event" /\ rows'[N].markers = m
  BY <1>3 DEF Event
<1>5. \A j \in DOMAIN rows : j < N
  BY <1>1
<1>6. TranscriptRows' = TranscriptRows
  BY <1>3, <1>4 DEF TranscriptRows
<1>7. EventRows' = EventRows \cup {N}
  BY <1>3, <1>4 DEF EventRows
<1>8. Stored' = Stored
  BY <1>3, <1>6 DEF Stored, TranscriptRows
<1>9. \A i : followedByTranscript(i)' = followedByTranscript(i)
  BY <1>6 DEF followedByTranscript
<1>10. \A i \in DOMAIN rows : Consumed(i)' = Consumed(i)
  BY <1>3, <1>9 DEF Consumed
<1>11. ~ \E j \in TranscriptRows : j > N
  <2>1. \A j \in TranscriptRows : j < N /\ j \in Int
    BY <1>1, <1>5 DEF TranscriptRows
  <2> QED
    BY <1>1, <2>1
<1>12. (Consumed(N)' <=> TRUE \in m)
  <2>1. ~followedByTranscript(N)
    BY <1>11 DEF followedByTranscript
  <2>2. CASE m # {}
    BY <1>4, <2>2 DEF Consumed
  <2>3. CASE m = {}
    <3>1. Consumed(N)' = followedByTranscript(N)'
      BY <1>4, <2>3, Zenon DEF Consumed
    <3>2. ~followedByTranscript(N)'
      BY <1>9, <2>1, Zenon
    <3>3. ~Consumed(N)'
      BY <3>1, <3>2, Zenon
    <3> QED
      BY <2>3, <3>3
  <2> QED
    BY <2>2, <2>3
<1>13. TRUE \notin m => Counted' = Counted
  <2>1. ASSUME TRUE \notin m PROVE {i \in EventRows' : Consumed(i)'}
                                      = {i \in EventRows : Consumed(i)}
    <3>1. ~Consumed(N)'
      BY <1>12, <2>1
    <3>2. \A i \in EventRows : i \in DOMAIN rows
      BY DEF EventRows
    <3> QED
      BY <1>7, <1>10, <3>1, <3>2
  <2> QED
    BY <1>6, <2>1 DEF Counted
<1> QED
  BY <1>3, <1>6, <1>7, <1>8, <1>10, <1>12, <1>13
-----------------------------------------------------------------------------
(* Which rows count.                                                       *)

\* A slice adds its rows to those that count, if the slots of the events
\* already there are kept.
LEMMA CountedGrows ==
    ASSUME TypeOK, NEW n \in Nat, NEW c \in Nat,
           TranscriptRows' = TranscriptRows
                                \cup ((Len(rows) + 1)..(Len(rows) + n - c)),
           EventRows' = EventRows,
           \A i \in EventRows : Consumed(i)' <=> Consumed(i)
    PROVE  Cardinality(Counted)' = Cardinality(Counted)
                                     + (IF n > c THEN n - c ELSE 0)
<1> DEFINE New == (Len(rows) + 1)..(Len(rows) + n - c)
<1>1. Len(rows) \in Nat /\ DOMAIN rows = 1..Len(rows)
  BY RowsTyped
<1>2. IsFiniteSet(Counted) /\ Cardinality(Counted) \in Nat
  BY CountIsCounted
<1>3. /\ IsFiniteSet(New)
      /\ Cardinality(New) = IF n > c THEN n - c ELSE 0
  <2>1. Len(rows) + 1 \in Int /\ Len(rows) + n - c \in Int
    BY <1>1
  <2>2. /\ IsFiniteSet(New)
        /\ Cardinality(New) = IF Len(rows) + 1 > Len(rows) + n - c THEN 0
                                ELSE (Len(rows) + n - c) - (Len(rows) + 1) + 1
    BY <2>1, FS_Interval
  <2> QED
    BY <1>1, <2>2
<1>4. Counted \cap New = {}
  <2>1. Counted \subseteq DOMAIN rows
    BY DEF Counted, TranscriptRows, EventRows
  <2>2. DOMAIN rows \cap New = {}
    BY <1>1
  <2> QED
    BY <2>1, <2>2
<1>5. Cardinality(Counted \cap New) = 0
  BY <1>4, FS_EmptySet
<1> HIDE DEF New
<1>6. Counted' = Counted \cup New
  BY DEF Counted, New
<1>7. Cardinality(Counted \cup New)
          = Cardinality(Counted) + Cardinality(New)
                - Cardinality(Counted \cap New)
  BY <1>2, <1>3, FS_Union
<1> QED
  BY <1>2, <1>3, <1>5, <1>6, <1>7

\* Writing down the slots of the events keeps them, whatever follows.
LEMMA AdoptionKeeps ==
    ASSUME TypeOK, NEW i \in EventRows,
           rows'[i] = Adopted[i]
    PROVE  Consumed(i)' <=> Consumed(i)
<1>1. i \in DOMAIN rows /\ rows[i].kind = "event"
  BY DEF EventRows
<1>2. CASE rows[i].markers = {}
  <2> DEFINE m == {Consumed(i)}
  <2>1. rows'[i].markers = m
    BY <1>1, <1>2, AdoptedRows
  <2>2. m # {} /\ (TRUE \in m <=> Consumed(i))
    BY <1>1, SlotsBoolean
  <2> HIDE DEF m
  <2>3. Consumed(i)' <=> TRUE \in m
    BY <2>1, <2>2, Zenon DEF Consumed
  <2> QED
    BY <2>2, <2>3, Zenon
<1>3. CASE rows[i].markers # {}
  <2>1. rows'[i] = rows[i]
    BY <1>1, <1>3, AdoptedRows
  <2>2. Consumed(i) <=> TRUE \in rows[i].markers
    BY <1>3, Zenon DEF Consumed
  <2>3. Consumed(i)' <=> TRUE \in rows[i].markers
    BY <1>3, <2>1, Zenon DEF Consumed
  <2> QED
    BY <2>2, <2>3, Zenon
<1> QED
  BY <1>2, <1>3

\* Messages that are put behind smaller ones are in order.
LEMMA OrderKept ==
    ASSUME TypeOK, StoredOnce, NEW c \in Nat,
           \A i \in TranscriptRows : rows[i].index <= c,
           NEW New, New \subseteq Int, \A i \in New : i > Len(rows),
           TranscriptRows' = TranscriptRows \cup New,
           \A i \in TranscriptRows : rows'[i].index = rows[i].index,
           \A i \in New : rows'[i].index = c + i - Len(rows)
    PROVE  StoredOnce'
<1>1. Len(rows) \in Nat /\ DOMAIN rows = 1..Len(rows)
  BY RowsTyped
<1>2. \A i \in TranscriptRows : i \in 1..Len(rows) /\ rows[i].index \in Nat
  BY <1>1, RowsTyped DEF TranscriptRows, Row
<1> SUFFICES ASSUME NEW i \in TranscriptRows', NEW j \in TranscriptRows', i < j
             PROVE  rows'[i].index < rows'[j].index
  BY DEF StoredOnce
<1>3. CASE i \in TranscriptRows /\ j \in TranscriptRows
  BY <1>3 DEF StoredOnce
<1>4. CASE i \in TranscriptRows /\ j \in New
  <2>1. rows[i].index <= c /\ rows[i].index \in Nat
    BY <1>2, <1>4
  <2>2. c < c + j - Len(rows)
    BY <1>1, <1>4
  <2>3. rows'[i].index = rows[i].index /\ rows'[j].index = c + j - Len(rows)
    BY <1>4
  <2>4. j \in Int
    BY <1>4
  <2> QED
    BY <1>1, <2>1, <2>2, <2>3, <2>4
<1>5. CASE i \in New /\ j \in TranscriptRows
  BY <1>1, <1>2, <1>5
<1>6. CASE i \in New /\ j \in New
  <2>1. c + i - Len(rows) < c + j - Len(rows)
    <3>1. i \in Int /\ j \in Int
      BY <1>6
    <3> QED
      BY <1>1, <3>1
  <2> QED
    BY <1>6, <2>1
<1> QED
  BY <1>3, <1>4, <1>5, <1>6
-----------------------------------------------------------------------------
(* The invariant, step by step.                                            *)

LEMMA StoredBelowNext ==
    ASSUME SlotsInv, NEW i \in TranscriptRows
    PROVE  rows[i].index <= Cardinality(Counted)
<1>1. rows[i].index \in Stored
  BY DEF Stored
<1>2. rows[i].index \in 1..Cardinality(Counted)
  BY <1>1 DEF SlotsInv, Accounted
<1> QED
  BY <1>2, CountIsCounted DEF SlotsInv

LEMMA ListKeeps ==
    ASSUME SlotsInv, NEW n \in 1..MaxList, appendSessionTranscript(n)
    PROVE  SlotsInv'
<1> DEFINE c == Cardinality(Counted)
           New == (Len(rows) + 1)..(Len(rows) + n - c)
<1>1. /\ TypeOK /\ StoredOnce /\ Accounted /\ Covered
      /\ n \in Nat /\ c \in Nat /\ transcriptCount + consumedCount = c
  BY CountIsCounted, BoundsAssumption DEF SlotsInv
<1>2. /\ current' = TRUE /\ lost' = lost
      /\ rows' = Adopted \o Slice(n, c)
      /\ answered' = IF n > answered THEN n ELSE answered
  BY <1>1 DEF appendSessionTranscript
<1>3. Len(rows) \in Nat
  BY <1>1, RowsTyped
<1>4. /\ Adopted \in Seq(Row) /\ Len(Adopted) = Len(rows)
      /\ \A i \in DOMAIN rows : /\ Adopted[i].kind = rows[i].kind
                                /\ Adopted[i].index = rows[i].index
  BY <1>1, AdoptedRows
<1> HIDE DEF c
<1>5. /\ rows' \in Seq(Row)
      /\ \A i \in DOMAIN rows : rows'[i] = Adopted[i]
      /\ \A i \in New : rows'[i] = Message(c + i - Len(rows))
      /\ TranscriptRows' = TranscriptRows \cup New
      /\ EventRows' = EventRows
      /\ Stored' = Stored \cup ((c + 1)..n)
  BY <1>1, <1>2, <1>4, SliceAdded
<1>6. TypeOK'
  <2>1. lost' \subseteq Nat /\ answered' \in Nat
    BY <1>1, <1>2 DEF TypeOK
  <2> QED
    BY <1>2, <1>5, <2>1 DEF TypeOK, Row
<1>7. \A i \in EventRows : Consumed(i)' <=> Consumed(i)
  <2>1. \A i \in EventRows : rows'[i] = Adopted[i]
    BY <1>5 DEF EventRows
  <2> QED
    BY <1>1, <2>1, AdoptionKeeps
<1>8. Cardinality(Counted)' = c + (IF n > c THEN n - c ELSE 0)
  BY <1>1, <1>5, <1>7, CountedGrows DEF c
<1>9. Accounted'
  <2>1. Stored \cup lost = 1..c
    BY <1>1 DEF Accounted, c
  <2>2. Stored' \cup lost' = (1..c) \cup ((c + 1)..n)
    BY <1>2, <1>5, <2>1
  <2>3. @ = 1..(c + (IF n > c THEN n - c ELSE 0))
    BY <1>1
  <2> QED
    BY <1>8, <2>2, <2>3 DEF Accounted
<1>10. Covered'
  <2>1. answered <= c /\ answered \in Nat
    BY <1>1 DEF Covered, TypeOK, c
  <2> QED
    BY <1>1, <1>2, <1>8, <2>1 DEF Covered
<1>11. StoredOnce'
  <2>1. \A i \in TranscriptRows : rows[i].index <= c
    BY StoredBelowNext DEF c
  <2>2. \A i \in TranscriptRows : rows'[i].index = rows[i].index
    BY <1>4, <1>5 DEF TranscriptRows
  <2>3. \A i \in New : rows'[i].index = c + i - Len(rows)
    <3>1. \A x : Message(x).index = x
      BY DEF Message
    <3> QED
      BY <1>5, <3>1, Zenon
  <2>4. New \subseteq Int /\ \A i \in New : i > Len(rows)
    BY <1>1, <1>3
  <2> HIDE DEF New
  <2> QED
    BY <1>1, <1>5, <2>1, <2>2, <2>3, <2>4, OrderKept
<1>12. LegacyRows'
  BY <1>2 DEF LegacyRows
<1> QED
  BY <1>6, <1>9, <1>10, <1>11, <1>12 DEF SlotsInv

LEMMA LegacyIngestKeeps ==
    ASSUME SlotsInv, NEW n \in 1..MaxList, LegacyIngest(n)
    PROVE  SlotsInv'
<1> DEFINE L == Len(rows)
           New == (L + 1)..n
<1>1. /\ TypeOK /\ LegacyRows /\ Covered
      /\ n \in Nat /\ L \in Nat /\ n > L /\ ~current
      /\ DOMAIN rows = 1..L /\ rows \in Seq(Row)
  BY RowsTyped, BoundsAssumption DEF SlotsInv, LegacyIngest
<1>2. /\ current' = current /\ answered' = answered
      /\ rows' = rows \o Slice(n, L)
      /\ lost' = (1..L) \ Stored
  BY DEF LegacyIngest
<1>3. L + n - L = n
  BY <1>1
<1>4. /\ rows' \in Seq(Row)
      /\ DOMAIN rows' = DOMAIN rows \cup New
      /\ \A i \in DOMAIN rows : rows'[i] = rows[i]
      /\ \A i \in New : rows'[i] = Message(L + i - L)
      /\ TranscriptRows' = TranscriptRows \cup New
      /\ EventRows' = EventRows
      /\ Stored' = Stored \cup New
  <2>1. /\ Len(rows) = L /\ n \in Nat /\ L \in Nat /\ TypeOK
        /\ rows \in Seq(Row) /\ rows' = rows \o Slice(n, L)
    BY <1>1, <1>2
  <2> HIDE DEF L
  <2>2. (Len(rows) + 1)..(Len(rows) + n - L) = New
    BY <1>3, <2>1
  <2>3. (L + 1)..n = New
    OBVIOUS
  <2> HIDE DEF New
  <2>4. /\ rows' \in Seq(Row)
        /\ DOMAIN rows' = DOMAIN rows \cup New
        /\ \A i \in DOMAIN rows : rows'[i] = rows[i]
        /\ \A i \in New : rows'[i] = Message(L + i - Len(rows))
        /\ TranscriptRows' = TranscriptRows \cup New
        /\ EventRows' = EventRows
        /\ Stored' = Stored \cup ((L + 1)..n)
    <3> DEFINE I == (Len(rows) + 1)..(Len(rows) + n - L)
    <3>1. /\ rows' \in Seq(Row)
          /\ DOMAIN rows' = DOMAIN rows \cup I
          /\ \A i \in DOMAIN rows : rows'[i] = rows[i]
          /\ \A i \in I : rows'[i] = Message(L + i - Len(rows))
          /\ TranscriptRows' = TranscriptRows \cup I
          /\ EventRows' = EventRows
          /\ Stored' = Stored \cup ((L + 1)..n)
      BY <2>1, SliceAdded
    <3> HIDE DEF I
    <3>2. I = New
      BY <2>2 DEF I
    <3> QED
      BY <3>1, <3>2
  <2> QED
    BY <2>1, <2>3, <2>4
<1>5. \A i \in DOMAIN rows :
         /\ rows[i].markers = {}
         /\ rows[i].kind = "transcript" => rows[i].index = i
  BY <1>1 DEF LegacyRows
<1>6. Stored \subseteq 1..L
  BY <1>1, <1>5 DEF Stored, TranscriptRows
<1>7. \A i \in DOMAIN rows' :
         /\ rows'[i].markers = {}
         /\ rows'[i].kind = "transcript" => rows'[i].index = i
  <2>1. \A x : Message(x).index = x /\ Message(x).markers = {}
    BY DEF Message
  <2>2. \A i \in New : L + i - L = i
    BY <1>1
  <2>3. \A i \in New : rows'[i] = Message(i)
    BY <1>4, <2>2
  <2> HIDE DEF New
  <2> QED
    BY <1>4, <1>5, <2>1, <2>3
<1>8. TypeOK'
  <2>1. lost' \subseteq Nat
    BY <1>1, <1>2
  <2> QED
    BY <1>1, <1>2, <1>4, <2>1 DEF TypeOK, Row
<1>9. LegacyRows'
  BY <1>7 DEF LegacyRows
<1>10. StoredOnce'
  <2>1. \A i \in TranscriptRows' : rows'[i].index = i
    BY <1>7 DEF TranscriptRows
  <2> QED
    BY <2>1 DEF StoredOnce
<1>11. Counted' = 1..n
  <2>1. n \in TranscriptRows'
    BY <1>1, <1>4
  <2>2. \A i \in EventRows : i < n /\ i \in DOMAIN rows
    BY <1>1 DEF EventRows
  <2>3. ASSUME NEW i \in EventRows' PROVE Consumed(i)'
    <3>1. i < n /\ i \in DOMAIN rows'
      BY <1>4, <2>2, <2>3
    <3>2. followedByTranscript(i)'
      BY <2>1, <3>1 DEF followedByTranscript
    <3>3. rows'[i].markers = {}
      BY <1>7, <3>1
    <3> QED
      BY <3>2, <3>3, Zenon DEF Consumed
  <2>4. {i \in EventRows' : Consumed(i)'} = EventRows'
    BY <2>3
  <2>5. TranscriptRows \cup EventRows = DOMAIN rows
    <3>1. \A i \in DOMAIN rows : rows[i].kind \in {"transcript", "event"}
      BY <1>1, RowsTyped DEF Row
    <3> QED
      BY <3>1 DEF TranscriptRows, EventRows
  <2>6. Counted' = (1..L) \cup New
    BY <1>1, <1>4, <2>4, <2>5 DEF Counted
  <2> QED
    BY <1>1, <2>6
<1>12. Cardinality(Counted)' = n
  BY <1>1, <1>11, FS_Interval
<1>13. Accounted'
  <2>1. Stored' \cup lost' = (1..L) \cup New
    BY <1>2, <1>4, <1>6
  <2>2. @ = 1..n
    BY <1>1
  <2> QED
    BY <1>12, <2>1, <2>2 DEF Accounted
<1>14. Covered'
  <2>1. Counted \in SUBSET (1..L)
    BY <1>1 DEF Counted, TranscriptRows, EventRows
  <2>2. IsFiniteSet(1..L) /\ Cardinality(1..L) = L
    <3>1. 1 \in Int /\ L \in Int
      BY <1>1
    <3>2. /\ IsFiniteSet(1..L)
          /\ Cardinality(1..L) = IF 1 > L THEN 0 ELSE L - 1 + 1
      BY <3>1, FS_Interval
    <3> QED
      BY <1>1, <3>2
  <2>3. Cardinality(Counted) <= L
    BY <2>1, <2>2, FS_Subset
  <2>4. answered <= Cardinality(Counted) /\ Cardinality(Counted) \in Nat
    BY <1>1, CountIsCounted DEF Covered
  <2> QED
    BY <1>1, <1>2, <1>12, <2>3, <2>4 DEF Covered, TypeOK
<1> QED
  BY <1>8, <1>9, <1>10, <1>13, <1>14 DEF SlotsInv

\* An event without an index of the list changes nothing that counts.
LEMMA EventKeeps ==
    ASSUME SlotsInv, NEW m \in {{}, {FALSE}},
           rows' = Append(rows, Event(m)),
           UNCHANGED <<current, lost, answered>>,
           current \/ m = {}
    PROVE  SlotsInv'
<1> DEFINE N == Len(rows) + 1
<1>1. TypeOK /\ StoredOnce /\ LegacyRows /\ Accounted /\ Covered
  BY DEF SlotsInv
<1>2. m \in {{}, {TRUE}, {FALSE}} /\ TRUE \notin m
  OBVIOUS
<1>3. N = Len(rows) + 1
  OBVIOUS
<1> HIDE DEF N
<1>4. /\ rows' \in Seq(Row)
      /\ DOMAIN rows' = DOMAIN rows \cup {N}
      /\ \A i \in DOMAIN rows : rows'[i] = rows[i]
      /\ rows'[N] = Event(m)
      /\ TranscriptRows' = TranscriptRows
      /\ Stored' = Stored
      /\ Counted' = Counted
  BY <1>1, <1>2, <1>3, EventAdded
<1>5. TypeOK'
  BY <1>1, <1>4 DEF TypeOK, Row
<1>6. StoredOnce'
  <2>1. \A i \in TranscriptRows : rows'[i] = rows[i]
    BY <1>4 DEF TranscriptRows
  <2> QED
    BY <1>1, <1>4, <2>1 DEF StoredOnce
<1>7. LegacyRows'
  <2>1. rows'[N].markers = m /\ rows'[N].kind = "event"
    BY <1>4 DEF Event
  <2> QED
    BY <1>1, <1>4, <2>1 DEF LegacyRows
<1>8. Accounted' /\ Covered'
  BY <1>1, <1>4 DEF Accounted, Covered
<1> QED
  BY <1>5, <1>6, <1>7, <1>8 DEF SlotsInv

LEMMA InitKeeps == Init => SlotsInv
<1> SUFFICES ASSUME Init PROVE SlotsInv
  OBVIOUS
<1>1. /\ rows = << >> /\ DOMAIN rows = {}
      /\ lost = {} /\ answered = 0 /\ current = FALSE
  BY DEF Init
<1>2. TypeOK
  <2>1. \A S : << >> \in Seq(S)
    BY EmptySeq
  <2>2. rows \in Seq([kind : {"transcript", "event"}, index : Nat,
                      markers : {{}, {TRUE}, {FALSE}}])
    BY <1>1, <2>1, Zenon
  <2> QED
    BY <1>1, <2>2 DEF TypeOK
<1>3. TranscriptRows = {} /\ Counted = {} /\ Stored = {}
  BY <1>1 DEF TranscriptRows, EventRows, Counted, Stored
<1>4. Cardinality(Counted) = 0
  BY <1>3, FS_EmptySet
<1> QED
  BY <1>1, <1>2, <1>3, <1>4
  DEF SlotsInv, StoredOnce, LegacyRows, Accounted, Covered

LEMMA StepKeeps == SlotsInv /\ [Next]_vars => SlotsInv'
<1> SUFFICES ASSUME SlotsInv, [Next]_vars PROVE SlotsInv'
  OBVIOUS
<1>1. CASE \E n \in 1..MaxList : appendSessionTranscript(n)
  BY <1>1, ListKeeps
<1>2. CASE \E n \in 1..MaxList : LegacyIngest(n)
  BY <1>2, LegacyIngestKeeps
<1>3. CASE persistCompactionEvent
  BY <1>3, EventKeeps DEF persistCompactionEvent
<1>4. CASE LegacyEvent
  BY <1>4, EventKeeps DEF LegacyEvent
<1>5. CASE Upgrade \/ UNCHANGED vars
  <2>1. /\ rows' = rows /\ lost' = lost /\ answered' = answered
        /\ current' = TRUE \/ current' = current
    BY <1>5 DEF Upgrade, vars
  <2>2. /\ TranscriptRows' = TranscriptRows /\ Stored' = Stored
        /\ Counted' = Counted
    BY <2>1 DEF TranscriptRows, Stored, Counted, EventRows, Consumed,
       followedByTranscript
  <2> QED
    BY <2>1, <2>2 DEF SlotsInv, TypeOK, StoredOnce, LegacyRows, Accounted, Covered
<1> QED
  BY <1>1, <1>2, <1>3, <1>4, <1>5 DEF Next

-----------------------------------------------------------------------------
(* The theorems.                                                           *)

(* The rows and counters keep their types; in particular no event ever has
   two markers, on which the daemon would throw. *)
THEOREM SlotsWellFormed == Spec => []TypeOK
<1>1. SlotsInv => TypeOK
  BY DEF SlotsInv
<1> QED
  BY InitKeeps, StepKeeps, <1>1, PTL DEF Spec

(* A message of the client's list is stored once and in its order, however
   often and in whatever lengths the list is sent, before and after the
   upgrade to markers. *)
THEOREM StoredOnceAlways == Spec => []StoredOnce
<1>1. SlotsInv => StoredOnce
  BY DEF SlotsInv
<1> QED
  BY InitKeeps, StepKeeps, <1>1, PTL DEF Spec

(* The daemon with markers stores every message of every list it is given,
   but for those lost before the upgrade. *)
THEOREM NothingSkippedAlways == Spec => []NothingSkipped
<1>1. SlotsInv => NothingSkipped
  <2> SUFFICES ASSUME SlotsInv PROVE NothingSkipped
    OBVIOUS
  <2>1. answered <= Cardinality(Counted) /\ answered \in Nat
    BY DEF SlotsInv, Covered, TypeOK
  <2>2. Cardinality(Counted) \in Nat
    BY CountIsCounted DEF SlotsInv
  <2>3. 1..answered \subseteq 1..Cardinality(Counted)
    BY <2>1, <2>2
  <2> QED
    BY <2>3 DEF NothingSkipped, SlotsInv, Accounted
<1> QED
  BY InitKeeps, StepKeeps, <1>1, PTL DEF Spec

(* Once there are markers, whether an event took an index is decided for
   good: no list and no later event changes it. *)
THEOREM SlotsStableAlways == Spec => SlotsStable
<1> DEFINE Stable == current => \A i \in EventRows :
                                   i \in EventRows' /\ Consumed(i)' = Consumed(i)
<1>1. ASSUME SlotsInv, SlotsInv', [Next]_vars PROVE Stable
  <2> SUFFICES ASSUME current, NEW i \in EventRows
               PROVE  i \in EventRows' /\ (Consumed(i)' <=> Consumed(i))
    <3>1. \A i : Consumed(i) \in BOOLEAN /\ Consumed(i)' \in BOOLEAN
      BY ConsumedIsBoolean
    <3> QED
      BY <3>1
  <2>0. TypeOK /\ i \in DOMAIN rows
    BY <1>1 DEF SlotsInv, EventRows
  <2>1. CASE \E n \in 1..MaxList : appendSessionTranscript(n)
    <3>1. PICK n \in 1..MaxList : appendSessionTranscript(n)
      BY <2>1
    <3> DEFINE c == transcriptCount + consumedCount
    <3>2. c \in Nat /\ n \in Nat
      BY <2>0, CountIsCounted, BoundsAssumption
    <3>3. /\ Adopted \in Seq(Row) /\ Len(Adopted) = Len(rows)
          /\ \A k \in DOMAIN rows : /\ Adopted[k].kind = rows[k].kind
                                    /\ Adopted[k].index = rows[k].index
      BY <2>0, AdoptedRows
    <3>4. rows' = Adopted \o Slice(n, c)
      BY <3>1 DEF appendSessionTranscript
    <3> HIDE DEF c
    <3>5. rows'[i] = Adopted[i] /\ EventRows' = EventRows
      BY <2>0, <3>2, <3>3, <3>4, SliceAdded
    <3> QED
      BY <2>0, <3>5, AdoptionKeeps
  <2>2. CASE persistCompactionEvent
    <3> DEFINE N == Len(rows) + 1
    <3>1. N = Len(rows) + 1 /\ {FALSE} \in {{}, {TRUE}, {FALSE}}
      OBVIOUS
    <3>2. rows' = Append(rows, Event({FALSE}))
      BY <2>2 DEF persistCompactionEvent
    <3> HIDE DEF N
    <3>3. /\ EventRows' = EventRows \cup {N}
          /\ \A k \in DOMAIN rows : Consumed(k)' = Consumed(k)
      BY <2>0, <3>1, <3>2, EventAdded
    <3> QED
      BY <2>0, <3>3
  <2>3. CASE UNCHANGED vars
    BY <2>3 DEF vars, EventRows, Consumed, followedByTranscript, TranscriptRows
  <2> QED
    BY <1>1, <2>1, <2>2, <2>3 DEF Next, LegacyIngest, LegacyEvent, Upgrade
<1>2. SlotsInv /\ SlotsInv' /\ [Next]_vars => [Stable]_vars
  BY <1>1
<1> QED
  BY InitKeeps, StepKeeps, <1>2, PTL DEF Spec, SlotsStable
=============================================================================
