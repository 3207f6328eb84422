--------------------------- MODULE EventFeedProofs ---------------------------
(***************************************************************************)
(* Proofs about module EventFeed, for any log that is as orderly as the    *)
(* code expects: between two starts the rows are handled in the order of   *)
(* their times; none that comes before the row where the next start        *)
(* resumes is left out; and what was reported is what the rows say.        *)
(***************************************************************************)
EXTENDS EventFeed, FiniteSetTheorems, SequenceTheorems, WellFoundedInduction, TLAPS

\* What the constants are.
FeedConstants ==
  /\ {Window, Skew, PypiEpoch, PypiMargin, MaxRows, MaxTime} \subseteq Nat
  /\ NoTime \notin Nat /\ NoRow \notin Rows /\ NoLoop \notin SUBSET Rows

-----------------------------------------------------------------------------
\* The rows that come first and last.

LEMMA FeedNatLess == OpToRel(<, Nat) = {p \in Nat \X Nat : p[1] < p[2]}
  BY DEF OpToRel

LEMMA Smallest ==
  ASSUME NEW S \in SUBSET Nat, S # {}
  PROVE  \E x \in S : \A y \in S : x <= y
  <1> DEFINE R == {p \in Nat \X Nat : p[1] < p[2]}
  <1>1. IsWellFoundedOn(R, Nat)
    BY NatLessThanWellFounded, FeedNatLess
  <1>2. PICK x \in S : \A y \in S : <<y, x>> \notin R
    <2> HIDE DEF R
    <2> QED
      BY <1>1, WFMin, Zenon
  <1>3. ASSUME NEW y \in S PROVE x <= y
    <2>1. <<y, x>> \in Nat \X Nat /\ <<y, x>>[1] = y /\ <<y, x>>[2] = x
      OBVIOUS
    <2>2. ~(y < x)
      BY <1>2, <2>1, Zenon
    <2> QED
      BY <2>2
  <1> QED
    BY <1>3

LEMMA Largest ==
  ASSUME NEW n \in Nat, NEW S \in SUBSET (0..n), S # {}
  PROVE  \E x \in S : \A y \in S : y <= x
  <1> DEFINE Bounds == {m \in Nat : \A y \in S : y <= m}
  <1>1. n \in Bounds
    OBVIOUS
  <1>2. PICK m \in Bounds : \A k \in Bounds : m <= k
    BY <1>1, Smallest
  <1>3. m \in S
    <2> SUFFICES ASSUME m \notin S PROVE FALSE
      OBVIOUS
    <2>1. PICK y \in S : TRUE
      OBVIOUS
    <2>2. \A z \in S : z < m
      BY <1>2
    <2>3. m - 1 \in Bounds
      BY <1>2, <2>1, <2>2
    <2> QED
      BY <1>2, <2>3
  <1> QED
    BY <1>2, <1>3

\* Rows with times and with serials of their own.
Distinct(rows) ==
  /\ \A r \in rows : r.ts \in 0..MaxTime /\ r.serial \in Nat
  /\ \A r, q \in rows : r.serial = q.serial => r = q

LEMMA EarliestIsFirst ==
  ASSUME NEW rows, Distinct(rows), rows # {}, MaxTime \in Nat
  PROVE  /\ Earliest(rows) \in rows
         /\ \A q \in rows \ {Earliest(rows)} : Before(Earliest(rows), q)
  <1>1. PICK t \in {r.ts : r \in rows} : \A u \in {r.ts : r \in rows} : t <= u
    <2>1. {r.ts : r \in rows} \in SUBSET Nat /\ {r.ts : r \in rows} # {}
      BY DEF Distinct
    <2> QED
      BY <2>1, Smallest
  <1> DEFINE First == {r \in rows : r.ts = t}
  <1>2. PICK n \in {r.serial : r \in First} : \A m \in {r.serial : r \in First} : n <= m
    <2>1. {r.serial : r \in First} \in SUBSET Nat /\ {r.serial : r \in First} # {}
      BY <1>1 DEF Distinct
    <2> QED
      BY <2>1, Smallest
  <1>3. PICK r \in First : r.serial = n
    BY <1>2
  <1>4. ASSUME NEW q \in rows \ {r}
        PROVE  Before(r, q)
    <2>1. t <= q.ts /\ t \in Nat /\ q.ts \in Nat /\ q.serial \in Nat /\ r.serial \in Nat /\ r.ts = t
      BY <1>1, <1>3 DEF Distinct
    <2>2. CASE q.ts = t
      <3>1. n <= q.serial /\ q.serial # n
        BY <1>2, <1>3, <2>2 DEF Distinct
      <3> QED
        BY <1>3, <2>1, <2>2, <3>1 DEF Before
    <2>3. CASE q.ts # t
      BY <2>1, <2>3 DEF Before
    <2> QED
      BY <2>2, <2>3
  <1> QED
    BY <1>3, <1>4 DEF Earliest

LEMMA NewestIsLast ==
  ASSUME NEW rows, Distinct(rows), rows # {}, MaxTime \in Nat
  PROVE  /\ Newest(rows) \in Nat
         /\ \E r \in rows : r.ts = Newest(rows)
         /\ \A r \in rows : r.ts <= Newest(rows)
  <1>1. {r.ts : r \in rows} \in SUBSET (0..MaxTime) /\ {r.ts : r \in rows} # {}
    BY DEF Distinct
  <1>2. \E t \in {r.ts : r \in rows} : \A u \in {r.ts : r \in rows} : u <= t
    BY <1>1, Largest
  <1>3. \E t \in {r.ts : r \in rows} : \A r \in rows : r.ts <= t
    BY <1>2
  <1>4. Newest(rows) \in {r.ts : r \in rows} /\ \A r \in rows : r.ts <= Newest(rows)
    BY <1>3 DEF Newest
  <1> QED
    BY <1>1, <1>4

LEMMA DistinctSubset ==
  ASSUME NEW rows, Distinct(rows), NEW some \in SUBSET rows
  PROVE  Distinct(some)
  BY DEF Distinct

-----------------------------------------------------------------------------
\* The log.

\* Its rows are numbered.
LogIsNumbered ==
  /\ changelog \in Seq(Rows)
  /\ \A k \in DOMAIN changelog : changelog[k].serial = k

LEMMA RowFields ==
  ASSUME NEW r \in Rows
  PROVE  r.serial \in 1..MaxRows /\ r.ts \in 0..MaxTime
  BY DEF Rows, Row

LEMMA LoggedRows ==
  ASSUME FeedConstants, LogIsNumbered
  PROVE  /\ Len(changelog) \in Nat /\ DOMAIN changelog = 1..Len(changelog)
         /\ \A k \in 1..Len(changelog) :
              changelog[k] \in Logged /\ changelog[k].serial = k /\ changelog[k].ts \in 0..MaxTime
         /\ \A r \in Logged : r \in Rows /\ r.serial \in 1..Len(changelog) /\ changelog[r.serial] = r
         /\ Distinct(Logged)
  <1>1. Len(changelog) \in Nat /\ DOMAIN changelog = 1..Len(changelog)
    BY LenProperties DEF LogIsNumbered
  <1>2. ASSUME NEW k \in 1..Len(changelog)
        PROVE  /\ changelog[k] \in Logged /\ changelog[k] \in Rows
               /\ changelog[k].serial = k /\ changelog[k].ts \in 0..MaxTime
    <2>1. changelog[k] \in Rows
      BY <1>1, ElementOfSeq DEF LogIsNumbered
    <2> QED
      BY <1>1, <2>1, RowFields DEF Logged, LogIsNumbered
  <1>3. ASSUME NEW r \in Logged
        PROVE  r \in Rows /\ r.serial \in 1..Len(changelog) /\ changelog[r.serial] = r
    <2>1. PICK k \in 1..Len(changelog) : r = changelog[k]
      BY <1>1 DEF Logged
    <2> QED
      BY <1>2, <2>1
  <1>4. Distinct(Logged)
    <2>1. \A r \in Logged : r.ts \in 0..MaxTime /\ r.serial \in Nat
      BY <1>3, RowFields
    <2>2. \A r, q \in Logged : r.serial = q.serial => r = q
      BY <1>3
    <2> QED
      BY <2>1, <2>2 DEF Distinct
  <1> QED
    BY <1>1, <1>2, <1>3, <1>4

\* A published row comes after the others, which stay.
LEMMA Published ==
  ASSUME FeedConstants, LogIsNumbered, NEW t \in 0..MaxTime, NEW e \in Events, Publish(t, e)
  PROVE  /\ LogIsNumbered' /\ Len(changelog)' = Len(changelog) + 1
         /\ \A k \in 1..Len(changelog) : changelog'[k] = changelog[k]
         /\ changelog'[Len(changelog) + 1].ts = t
         /\ changelog'[Len(changelog) + 1].serial = Len(changelog) + 1
         /\ Logged' = Logged \cup {changelog'[Len(changelog) + 1]}
  <1> DEFINE n == Len(changelog) + 1  new == Row(n, t, e)
  <1>1. n \in 1..MaxRows /\ Len(changelog) \in Nat
    BY LenProperties DEF LogIsNumbered, Publish, FeedConstants
  <1>2. new \in Rows /\ new.serial = n /\ new.ts = t
    BY <1>1 DEF Rows, Row
  <1>3. changelog' = Append(changelog, new)
    BY DEF Publish
  <1> HIDE DEF new
  <1>4. /\ changelog' \in Seq(Rows) /\ Len(changelog') = n
        /\ \A k \in 1..Len(changelog) : changelog'[k] = changelog[k]
        /\ changelog'[n] = new
    BY <1>2, <1>3, AppendProperties DEF LogIsNumbered
  <1>5. DOMAIN changelog' = 1..n /\ DOMAIN changelog = 1..Len(changelog)
    BY <1>4, LenProperties DEF LogIsNumbered
  <1>6. 1..n = 1..Len(changelog) \cup {n}
    BY <1>1
  <1>7. LogIsNumbered'
    BY <1>2, <1>4, <1>5, <1>6 DEF LogIsNumbered
  <1>8. Logged' = Logged \cup {new}
    BY <1>4, <1>5, <1>6 DEF Logged
  <1> QED
    BY <1>2, <1>4, <1>7, <1>8

-----------------------------------------------------------------------------
\* The order of the rows.

\* The row comes before the place from which PyPIBuffer goes on.
Past(r) == r.ts < stamp \/ (r.ts = stamp /\ r.serial < serial)

ReadsTheLog ==
  /\ {saved, serial, nextSerial} \subseteq Nat /\ stamp \in Nat \cup {NoTime}
  /\ buffer \subseteq Logged
  /\ loop = NoLoop \/ loop \subseteq Logged

\* What the loop has still to see comes after the row handled last, and both
\* come before what is still to be yielded.
InOrder ==
  /\ stamp = NoTime => last = NoRow /\ loop \in {NoLoop, {}}
  /\ loop # NoLoop =>
       \A r \in loop : Past(r) /\ (last # NoRow => Before(last, r))
  /\ last # NoRow => last \in Logged /\ Past(last)

Reading == LogIsNumbered /\ ReadsTheLog /\ InOrder

\* What a call of PyPIBuffer's iterator reads.
LEMMA FetchedRows ==
  ASSUME FeedConstants, LogIsNumbered, ReadsTheLog, Fetched # {}
  PROVE  /\ nextSerial < Len(changelog) /\ Fetched \subseteq Logged
         /\ changelog[Len(changelog)].serial = Len(changelog)
         /\ StampOf(Fetched) \in Nat \cup {NoTime}
         /\ stamp # NoTime => StampOf(Fetched) = stamp
         /\ stamp = NoTime /\ StampOf(Fetched) # NoTime =>
              \E r \in Fetched : /\ r.serial >= serial /\ r.ts = StampOf(Fetched)
                                 /\ \A q \in Fetched : q.serial >= serial => r.serial <= q.serial
         /\ stamp = NoTime /\ serial <= Len(changelog) => StampOf(Fetched) # NoTime
  <1> DEFINE from == {r \in Fetched : r.serial >= serial}
             found == CHOOSE r \in from : \A q \in from : r.serial <= q.serial
  <1>1. Fetched \subseteq Logged
    BY DEF Fetched
  <1>2. serial \in Nat /\ nextSerial \in Nat /\ stamp \in Nat \cup {NoTime} /\ NoTime \notin Nat
    BY DEF ReadsTheLog, FeedConstants
  <1>3. nextSerial < Len(changelog) /\ changelog[Len(changelog)].serial = Len(changelog)
        /\ changelog[Len(changelog)] \in Fetched
    <2>1. PICK r \in Fetched : r \in Logged /\ r.serial > nextSerial
      BY DEF Fetched
    <2> QED
      BY <1>2, <2>1, LoggedRows DEF Fetched
  <1>4. StampOf(Fetched) = IF stamp = NoTime /\ from # {} THEN found.ts ELSE stamp
    BY DEF StampOf
  <1>5. ASSUME from # {}
        PROVE  found \in from /\ \A q \in from : found.serial <= q.serial
    <2>1. \A r \in from : r.serial \in Nat
      BY <1>1, LoggedRows
    <2>2. {r.serial : r \in from} \in SUBSET Nat /\ {r.serial : r \in from} # {}
      BY <1>5, <2>1
    <2>3. PICK n \in {r.serial : r \in from} : \A m \in {r.serial : r \in from} : n <= m
      BY <2>2, Smallest
    <2>4. \E r \in from : \A q \in from : r.serial <= q.serial
      BY <2>3
    <2> HIDE DEF from
    <2> QED
      BY <2>4
  <1>6. \A r \in Fetched : r.ts \in Nat
    <2>1. \A r \in Logged : r.ts \in 0..MaxTime
      BY LoggedRows DEF Distinct
    <2> QED
      BY <1>1, <2>1 DEF FeedConstants
  <1>7. serial <= Len(changelog) => from # {}
    BY <1>2, <1>3
  <1> HIDE DEF found
  <1>8. StampOf(Fetched) \in Nat \cup {NoTime}
    BY <1>2, <1>4, <1>5, <1>6
  <1>9. ASSUME stamp = NoTime, StampOf(Fetched) # NoTime
        PROVE  /\ found \in Fetched /\ found.serial >= serial /\ found.ts = StampOf(Fetched)
               /\ \A q \in Fetched : q.serial >= serial => found.serial <= q.serial
    BY <1>4, <1>5, <1>9
  <1>10. stamp = NoTime /\ serial <= Len(changelog) => StampOf(Fetched) # NoTime
    BY <1>2, <1>4, <1>5, <1>6, <1>7
  <1> QED
    BY <1>1, <1>2, <1>3, <1>4, <1>8, <1>9, <1>10

\* Where the iterator yields rows it goes on from the first row that is not
\* older than the window; some is always kept.
LEMMA Yields ==
  ASSUME FeedConstants, LogIsNumbered, NEW rows \in SUBSET Logged, rows # {}
  PROVE  LET kept == {r \in rows : r.ts >= FinishTimestamp(rows)} IN
         /\ FinishTimestamp(rows) \in Nat
         /\ \A r \in rows : r.ts <= Newest(rows)
         /\ Newest(rows) \in Nat /\ \E r \in rows : r.ts = Newest(rows)
         /\ FinishTimestamp(rows) > 0 => FinishTimestamp(rows) = Newest(rows) - Window
         /\ Earliest(kept) \in kept
         /\ \A q \in kept \ {Earliest(kept)} : Before(Earliest(kept), q)
  <1> DEFINE kept == {r \in rows : r.ts >= FinishTimestamp(rows)}
  <1>1. Distinct(rows) /\ Distinct(kept) /\ MaxTime \in Nat /\ Window \in Nat
    <2>1. Distinct(Logged)
      BY LoggedRows
    <2>2. rows \in SUBSET Logged /\ kept \in SUBSET rows
      OBVIOUS
    <2> HIDE DEF kept
    <2>3. Distinct(rows)
      BY <2>1, <2>2, DistinctSubset
    <2> QED
      BY <2>2, <2>3, DistinctSubset DEF FeedConstants
  <1>2. /\ Newest(rows) \in Nat
        /\ \E r \in rows : r.ts = Newest(rows)
        /\ \A r \in rows : r.ts <= Newest(rows)
    BY <1>1, NewestIsLast
  <1>3. /\ FinishTimestamp(rows) \in Nat /\ FinishTimestamp(rows) <= Newest(rows)
        /\ FinishTimestamp(rows) > 0 => FinishTimestamp(rows) = Newest(rows) - Window
    BY <1>1, <1>2 DEF FinishTimestamp, Less
  <1>4. kept # {}
    BY <1>2, <1>3
  <1> HIDE DEF kept
  <1>5. Earliest(kept) \in kept /\ \A q \in kept \ {Earliest(kept)} : Before(Earliest(kept), q)
    BY <1>1, <1>4, EarliestIsFirst
  <1> QED
    BY <1>2, <1>3, <1>5 DEF kept

LEMMA InitReading == FeedConstants /\ FeedInit => Reading
  <1> SUFFICES ASSUME FeedConstants, FeedInit PROVE Reading
    OBVIOUS
  <1>1. LogIsNumbered
    <2>1. <<>> \in Seq(Rows) /\ DOMAIN <<>> = {}
      BY EmptySeq
    <2> QED
      BY <2>1 DEF FeedInit, LogIsNumbered
  <1> QED
    BY <1>1 DEF FeedInit, Reading, ReadsTheLog, InOrder

LEMMA PublishReading ==
  ASSUME FeedConstants, Reading, NEW t \in 0..MaxTime, NEW e \in Events, Publish(t, e)
  PROVE  Reading'
  <1>1. LogIsNumbered' /\ Logged \subseteq Logged'
    BY Published DEF Reading
  <1>2. UNCHANGED <<saved, serial, nextSerial, stamp, buffer, loop, last>>
    BY DEF Publish, bufferVars, history
  <1>3. ReadsTheLog'
    BY <1>1, <1>2 DEF Reading, ReadsTheLog
  <1>4. InOrder'
    BY <1>1, <1>2 DEF Reading, InOrder, Past, Before
  <1> QED
    BY <1>1, <1>3, <1>4 DEF Reading

LEMMA ReadReading ==
  ASSUME FeedConstants, Reading, Read
  PROVE  Reading'
  <1> DEFINE rows == buffer \cup Fetched
             from == StampOf(Fetched)
             kept == {r \in rows : r.ts >= FinishTimestamp(rows)}
             first == Earliest(kept)
             lastRead == changelog[Len(changelog)].serial
  <1> USE DEF Reading
  <1>1. /\ loop = NoLoop /\ Fetched # {}
        /\ UNCHANGED <<changelog, saved, last>>
    BY DEF Read, history
  <1>2. nextSerial' = lastRead
    BY DEF Read
  <1>3. \/ buffer' = rows /\ stamp' = from /\ loop' = {} /\ UNCHANGED serial
        \/ /\ from # NoTime /\ ~(from >= FinishTimestamp(rows))
           /\ loop' = Yielded(rows, from) /\ buffer' = kept
           /\ stamp' = first.ts /\ serial' = first.serial
    BY DEF Read
  <1>4. LogIsNumbered' /\ Logged' = Logged
    BY <1>1 DEF LogIsNumbered, Logged
  <1>5. rows \subseteq Logged /\ rows # {}
    BY <1>1, FetchedRows DEF ReadsTheLog
  <1>6. /\ from \in Nat \cup {NoTime} /\ (stamp # NoTime => from = stamp)
        /\ lastRead \in Nat /\ lastRead = Len(changelog)
    BY <1>1, FetchedRows, LoggedRows
  <1>7. /\ FinishTimestamp(rows) \in Nat /\ first \in kept
        /\ \A q \in kept \ {first} : Before(first, q)
    BY <1>5, Yields
  <1>8. first \in Logged /\ first.ts \in Nat /\ first.serial \in Nat /\ first.ts >= FinishTimestamp(rows)
    <2>1. first \in Logged /\ first.ts >= FinishTimestamp(rows)
      BY <1>5, <1>7
    <2> QED
      BY <2>1, LoggedRows DEF Distinct, FeedConstants
  <1>9. \A r \in rows : r.ts \in Nat /\ r.serial \in Nat
    BY <1>5, LoggedRows DEF Distinct, FeedConstants
  <1>10. NoTime \notin Nat /\ {} # NoLoop /\ Yielded(rows, from) \subseteq rows
    <2>1. {} \in SUBSET Rows
      OBVIOUS
    <2> QED
      BY <2>1 DEF FeedConstants, Yielded
  <1> HIDE DEF rows, from, kept, first, lastRead
  <1>11. CASE buffer' = rows /\ stamp' = from /\ loop' = {} /\ UNCHANGED serial
    <2>1. ReadsTheLog'
      BY <1>1, <1>2, <1>4, <1>5, <1>6, <1>11 DEF ReadsTheLog
    <2>2. InOrder'
      <3>1. stamp' = NoTime => last' = NoRow
        BY <1>1, <1>6, <1>11 DEF InOrder
      <3>2. last' # NoRow => last' \in Logged' /\ Past(last)'
        <4>1. ASSUME last # NoRow PROVE last \in Logged /\ Past(last) /\ stamp' = stamp
          BY <1>6, <1>11, <4>1 DEF InOrder
        <4> QED
          BY <1>1, <1>4, <1>11, <4>1 DEF Past
      <3> QED
        BY <1>11, <3>1, <3>2 DEF InOrder
    <2> QED
      BY <1>4, <2>1, <2>2
  <1>12. CASE /\ from # NoTime /\ ~(from >= FinishTimestamp(rows))
              /\ loop' = Yielded(rows, from) /\ buffer' = kept
              /\ stamp' = first.ts /\ serial' = first.serial
    <2>1. ReadsTheLog'
      BY <1>1, <1>2, <1>4, <1>5, <1>6, <1>8, <1>10, <1>12 DEF ReadsTheLog, kept
    <2>2. ASSUME NEW r \in Yielded(rows, from)
          PROVE  /\ r \in rows /\ r.ts < FinishTimestamp(rows)
                 /\ r.ts > from \/ (r.ts = from /\ r.serial >= serial)
      BY DEF Yielded
    <2>3. stamp' # NoTime
      BY <1>8, <1>10, <1>12
    <2>4. ASSUME NEW r \in Yielded(rows, from)
          PROVE  r.ts < stamp'
      BY <1>7, <1>8, <1>9, <1>12, <2>2
    <2>5. ASSUME last # NoRow
          PROVE  /\ last \in Logged /\ last.ts \in Nat /\ last.serial \in Nat /\ from = stamp
                 /\ last.ts < from \/ (last.ts = from /\ last.serial < serial)
      <3>1. last \in Logged /\ from = stamp /\ Past(last)
        BY <1>6, <2>5 DEF InOrder
      <3> QED
        BY <3>1, LoggedRows DEF Past, Distinct, FeedConstants
    <2>6. ASSUME last # NoRow, NEW r \in Yielded(rows, from)
          PROVE  Before(last, r)
      <3>1. serial \in Nat /\ from \in Nat
        BY <1>6, <1>12 DEF ReadsTheLog
      <3> QED
        BY <1>9, <2>2, <2>5, <2>6, <3>1 DEF Before
    <2>7. last # NoRow => last.ts < stamp'
      <3>1. from \in Nat
        BY <1>6, <1>12
      <3> QED
        BY <1>7, <1>8, <1>12, <2>5, <3>1
    <2>8. InOrder'
      BY <1>1, <1>4, <1>12, <2>3, <2>4, <2>5, <2>6, <2>7 DEF InOrder, Past
    <2> QED
      BY <1>4, <2>1, <2>8
  <1> QED
    BY <1>3, <1>11, <1>12

\* The row handled next.
LEMMA Handled ==
  ASSUME FeedConstants, Reading, Handle
  PROVE  /\ Earliest(loop) \in loop /\ Earliest(loop) \in Logged
         /\ \A q \in loop \ {Earliest(loop)} : Before(Earliest(loop), q)
         /\ loop # NoLoop /\ loop' = loop \ {Earliest(loop)} /\ loop' # NoLoop
         /\ seen' = seen \cup {Earliest(loop)} /\ last' = Earliest(loop)
         /\ UNCHANGED <<changelog, saved, serial, nextSerial, stamp, buffer>>
  <1>1. /\ loop # NoLoop /\ loop # {} /\ loop' = loop \ {Earliest(loop)}
        /\ seen' = seen \cup {Earliest(loop)} /\ last' = Earliest(loop)
        /\ UNCHANGED <<changelog, saved, serial, nextSerial, stamp, buffer>>
    BY DEF Handle, bufferVars
  <1>2. loop \subseteq Logged /\ Logged \subseteq Rows /\ Distinct(Logged)
    BY <1>1, LoggedRows DEF Reading, ReadsTheLog
  <1>3. /\ Earliest(loop) \in loop
        /\ \A q \in loop \ {Earliest(loop)} : Before(Earliest(loop), q)
    BY <1>1, <1>2, DistinctSubset, EarliestIsFirst DEF FeedConstants
  <1>4. loop' # NoLoop
    BY <1>1, <1>2 DEF FeedConstants
  <1> QED
    BY <1>1, <1>2, <1>3, <1>4

LEMMA StepReading == FeedConstants /\ Reading /\ [FeedNext]_feedVars => Reading'
  <1> SUFFICES ASSUME FeedConstants, Reading, [FeedNext]_feedVars PROVE Reading'
    OBVIOUS
  <1>1. CASE Handle
    <2>1. LogIsNumbered' /\ Logged' = Logged
      BY <1>1, Handled DEF Reading, LogIsNumbered, Logged
    <2>2. ReadsTheLog'
      BY <1>1, <2>1, Handled DEF Reading, ReadsTheLog
    <2>3. InOrder'
      BY <1>1, <2>1, Handled DEF Reading, InOrder, Past
    <2> QED
      BY <2>1, <2>2, <2>3 DEF Reading
  <1>2. CASE Save
    BY <1>2 DEF Save, bufferVars, history, Reading, LogIsNumbered, Logged, ReadsTheLog, InOrder, Past
  <1>3. CASE StartAgain
    <2>1. /\ saved \in Nat /\ PypiMargin \in Nat
          /\ UNCHANGED <<changelog, saved>> /\ serial' = saved
          /\ nextSerial' = StartAt(saved) /\ stamp' = NoTime /\ buffer' = {}
          /\ loop' = NoLoop /\ last' = NoRow
      BY <1>3 DEF StartAgain, Reading, ReadsTheLog, FeedConstants
    <2>2. StartAt(saved) \in Nat
      BY <2>1 DEF StartAt, Less
    <2> QED
      BY <2>1, <2>2 DEF Reading, LogIsNumbered, Logged, ReadsTheLog, InOrder
  <1>4. CASE UNCHANGED feedVars
    BY <1>4 DEF feedVars, Reading, LogIsNumbered, Logged, ReadsTheLog, InOrder, Past
  <1> QED
    BY <1>1, <1>2, <1>3, <1>4, PublishReading, ReadReading DEF FeedNext

\* The rows are handled in the order of their times, none of them twice,
\* whatever the log, and whatever the window is.
THEOREM RowsKeepTheirOrder ==
  ASSUME FeedConstants
  PROVE  FeedSpec => FeedIsOrdered
  <1>1. ASSUME Reading, [FeedNext]_feedVars, last # NoRow, last' # last, last' # NoRow
        PROVE  Before(last, last')
    <2>1. CASE Handle
      BY <1>1, <2>1, Handled DEF Reading, InOrder
    <2>2. ~Handle => UNCHANGED last \/ last' = NoRow
      BY <1>1 DEF FeedNext, Publish, Read, Save, StartAgain, history, feedVars
    <2> QED
      BY <1>1, <2>1, <2>2
  <1>2. Reading /\ [FeedNext]_feedVars =>
          [last # NoRow /\ last' # last /\ last' # NoRow => Before(last, last')]_feedVars
    BY <1>1
  <1> QED
    BY <1>2, InitReading, StepReading, PTL DEF FeedSpec, FeedIsOrdered

-----------------------------------------------------------------------------
\* Completeness.

\* The window covers what a row may be dated back by, and the margin is one.
WideWindow == Skew <= Window /\ PypiMargin > 0

When(k) == changelog[k].ts

\* Rows from before the epoch that are further back than the margin are dated
\* before any from after it.
EarlyRowsComeFirst ==
  \A j, k \in DOMAIN changelog :
    j < PypiEpoch /\ PypiEpoch <= k /\ j + PypiMargin <= k => When(j) <= When(k)

\* What PyPI's log keeps to.
LogIsOrderly ==
  /\ \A k \in DOMAIN changelog : When(1) <= When(k)
  /\ \A j, k \in DOMAIN changelog : j < k /\ PypiEpoch < k => When(j) <= When(k) + Skew
  /\ \A j, k \in DOMAIN changelog :
       PypiEpoch <= j /\ j + PypiMargin <= k => When(j) <= When(k)

\* Fewer rows than the margin fall into a window: so a row that is further back
\* than the margin is not dated later.
LEMMA MarginIsEnough ==
  ASSUME FeedConstants, WideWindow, LogIsNumbered, LogIsOrderly,
         NEW t \in 0..MaxTime, NEW e \in Events, Publish(t, e),
         NEW j \in DOMAIN changelog, PypiEpoch <= j, j + PypiMargin <= Len(changelog) + 1
  PROVE  When(j) <= t
  <1> SUFFICES ASSUME When(j) > t PROVE FALSE
    <2>1. When(j) \in Nat /\ t \in Nat
      BY LoggedRows DEF When, FeedConstants
    <2> QED
      BY <2>1
  <1> DEFINE n == Len(changelog)
             S == {r \in Logged : r.ts + Window > t}
             I == j..n
             f == [i \in I |-> changelog[i]]
             g == [i \in 1..n |-> changelog[i]]
  <1>1. /\ n \in Nat /\ DOMAIN changelog = 1..n /\ j \in 1..n
        /\ {Window, Skew, PypiEpoch, PypiMargin, MaxTime} \subseteq Nat
        /\ t \in Nat /\ \A i \in 1..n : When(i) \in Nat
    BY LoggedRows DEF When, FeedConstants
  <1>2. Cardinality(S) < PypiMargin
    <2>1. changelog # <<>>
      BY <1>1, EmptySeq
    <2>2. n >= PypiEpoch
      BY <1>1
    <2> QED
      BY <2>1, <2>2 DEF Publish, Orderly
  <1>3. IsFiniteSet(S)
    <2>1. g \in Surjection(1..n, Logged)
      BY <1>1 DEF Logged, Surjection
    <2>2. IsFiniteSet(1..n)
      BY <1>1, FS_Interval
    <2>3. IsFiniteSet(Logged)
      <3> HIDE DEF g
      <3> QED
        BY <2>1, <2>2, FS_Surjection
    <2> QED
      BY <2>3, FS_Subset
  <1>4. ASSUME NEW i \in I
        PROVE  changelog[i] \in S
    <2>1. i \in 1..n /\ j <= i /\ changelog[i] \in Logged
      BY <1>1, LoggedRows
    <2>2. CASE i = j
      BY <1>1, <2>1, <2>2 DEF When
    <2>3. CASE i # j
      <3>1. When(j) <= When(i) + Skew
        <4>1. j < i /\ PypiEpoch < i /\ i \in DOMAIN changelog
          BY <1>1, <2>1, <2>3
        <4> QED
          BY <4>1 DEF LogIsOrderly
      <3>2. When(i) \in Nat /\ When(j) \in Nat /\ Skew <= Window
        BY <1>1, <2>1 DEF WideWindow
      <3>3. When(i) + Window > t
        BY <1>1, <3>1, <3>2
      <3> QED
        BY <2>1, <3>3 DEF When
    <2> QED
      BY <2>2, <2>3
  <1>5. f \in Injection(I, S)
    <2>1. f \in [I -> S]
      BY <1>4
    <2>2. \A a, b \in I : f[a] = f[b] => a = b
      <3>1. \A a \in I : a \in 1..n /\ changelog[a].serial = a
        BY <1>1, LoggedRows
      <3> QED
        BY <3>1
    <2> HIDE DEF f, I, S
    <2> QED
      BY <2>1, <2>2 DEF Injection, IsInjective
  <1>6. Cardinality(I) <= Cardinality(S)
    <2> HIDE DEF f, I, S
    <2> QED
      BY <1>3, <1>5, FS_Injection
  <1>7. Cardinality(I) = n - j + 1
    BY <1>1, FS_Interval
  <1>8. Cardinality(S) \in Nat
    BY <1>3, FS_CardinalityType
  <1> HIDE DEF S, I, f, g
  <1> QED
    BY <1>1, <1>2, <1>6, <1>7, <1>8

LEMMA PublishOrderly ==
  ASSUME FeedConstants, WideWindow, LogIsNumbered, LogIsOrderly,
         NEW t \in 0..MaxTime, NEW e \in Events, Publish(t, e)
  PROVE  /\ LogIsOrderly'
         /\ PypiEpoch <= Len(changelog) => \A k \in DOMAIN changelog : When(k) <= t + Skew
  <1>0. PICK n \in Nat : n = Len(changelog)
    BY LoggedRows
  <1>1. /\ n \in Nat /\ DOMAIN changelog = 1..n /\ DOMAIN changelog' = 1..(n + 1)
        /\ {Window, Skew, PypiEpoch, PypiMargin, MaxTime} \subseteq Nat
        /\ t \in Nat /\ \A i \in 1..n : When(i) \in Nat
        /\ PypiMargin > 0
    <2>1. LogIsNumbered' /\ Len(changelog') = n + 1
      BY <1>0, Published
    <2>2. DOMAIN changelog' = 1..(n + 1)
      BY <2>1, LenProperties DEF LogIsNumbered
    <2> QED
      BY <1>0, <2>2, LoggedRows DEF When, FeedConstants, WideWindow
  <1>2. (\A k \in 1..n : When(k)' = When(k)) /\ When(n + 1)' = t
    BY <1>0, Published DEF When
  <1>3. CASE changelog = <<>>
    <2>1. n = 0
      BY <1>0, <1>3, EmptySeq
    <2>2. \A k \in 1..(n + 1) : When(k)' = t /\ k = 1
      BY <1>1, <1>2, <2>1
    <2>3. 1..n = {}
      BY <2>1
    <2>4. LogIsOrderly'
      BY <1>1, <2>1, <2>2 DEF LogIsOrderly
    <2> QED
      BY <1>1, <2>3, <2>4
  <1>4. CASE changelog # <<>>
    <2>1. n > 0 /\ 1 \in 1..n
      BY <1>0, <1>1, <1>4, EmptySeq DEF LogIsNumbered
    <2>2. /\ When(1) <= t
          /\ n >= PypiEpoch => Newest(Logged) <= t + Skew
      BY <1>0, <1>4 DEF Publish, Orderly, When
    <2>3. /\ Newest(Logged) \in Nat
          /\ \E k \in 1..n : When(k) = Newest(Logged)
          /\ \A k \in 1..n : When(k) <= Newest(Logged)
      <3>1. Distinct(Logged) /\ Logged # {} /\ MaxTime \in Nat
        BY <1>0, <1>1, <2>1, LoggedRows
      <3>2. /\ Newest(Logged) \in Nat
            /\ \E r \in Logged : r.ts = Newest(Logged)
            /\ \A r \in Logged : r.ts <= Newest(Logged)
        BY <3>1, NewestIsLast
      <3>3. \A r \in Logged : \E k \in 1..n : changelog[k] = r
        BY <1>0, LoggedRows
      <3>4. \A k \in 1..n : changelog[k] \in Logged
        BY <1>0, LoggedRows
      <3> QED
        BY <3>2, <3>3, <3>4 DEF When
    <2>4. n >= PypiEpoch => \A k \in 1..n : When(k) <= t + Skew
      BY <1>1, <2>2, <2>3, SMTT(40)
    <2>5. \A k \in 1..(n + 1) : When(1)' <= When(k)'
      <3>1. \A k \in 1..n : When(1) <= When(k)
        BY <1>1 DEF LogIsOrderly
      <3>2. \A k \in 1..(n + 1) : k \in 1..n \/ k = n + 1
        BY <1>1
      <3> QED
        BY <1>2, <2>1, <2>2, <3>1, <3>2
    <2>6. ASSUME NEW j \in 1..(n + 1), NEW k \in 1..(n + 1), j < k, PypiEpoch < k
          PROVE  When(j)' <= When(k)' + Skew
      <3>1. j \in 1..n
        BY <1>1, <2>6
      <3>2. CASE k \in 1..n
        BY <1>1, <1>2, <2>6, <3>1, <3>2 DEF LogIsOrderly
      <3>3. CASE k = n + 1
        BY <1>1, <1>2, <2>4, <2>6, <3>1, <3>3
      <3> QED
        BY <1>1, <3>2, <3>3
    <2>7. ASSUME NEW j \in 1..(n + 1), NEW k \in 1..(n + 1), PypiEpoch <= j, j + PypiMargin <= k
          PROVE  When(j)' <= When(k)'
      <3>1. j \in 1..n
        BY <1>1, <2>7
      <3>2. CASE k \in 1..n
        BY <1>1, <1>2, <2>7, <3>1, <3>2 DEF LogIsOrderly
      <3>3. CASE k = n + 1
        <4>1. When(j) <= t
          BY <1>1, <2>7, <3>1, <3>3, <1>0, MarginIsEnough
        <4> QED
          BY <1>2, <3>1, <3>3, <4>1
      <3> QED
        BY <1>1, <3>2, <3>3
    <2>8. LogIsOrderly'
      BY <1>1, <2>5, <2>6, <2>7 DEF LogIsOrderly
    <2> QED
      BY <1>1, <2>4, <2>8
  <1> QED
    BY <1>3, <1>4

\* The row comes before row n of the log.
Comes(r, n) == n > 0 /\ Before(r, changelog[n])

\* When row n was chosen, m rows had been read: the others are from its time on,
\* or older than the window.  What is still to be published comes before it only
\* if it is dated into the silence between the two.
Settled(n) ==
  n > 0 =>
    /\ n <= Len(changelog) /\ PypiEpoch < Len(changelog)
    /\ \E m \in n..Len(changelog) : \A k \in 1..m :
         When(n) <= When(k) \/ \E j \in 1..m : When(k) + Window < When(j)

\* The row has been handled, or could not be.
Done(r) == r \in seen \/ DatedIntoSilence(r)

\* The row whose time PyPIBuffer looks for.
Wanted == IF serial = 0 THEN 1 ELSE serial

\* After a start nothing is in the buffer, and later the wanted row is.
Position ==
  /\ nextSerial <= Len(changelog)
  /\ stamp = NoTime => buffer = {} /\ nextSerial = StartAt(serial)
  /\ stamp # NoTime => 0 < nextSerial /\ serial <= nextSerial /\ stamp = When(Wanted)

BufferIsComplete ==
  \A r \in Logged : r.serial <= nextSerial /\ ~Comes(r, serial) => r \in buffer

\* What comes before the saved row is done; what comes before the next one to
\* yield is, or is in the loop.
HandledSoFar ==
  \A r \in Logged :
    /\ Comes(r, saved) => Done(r)
    /\ Comes(r, serial) => Done(r) \/ (loop # NoLoop /\ r \in loop)

Complete ==
  /\ LogIsOrderly /\ Settled(saved) /\ Settled(serial)
  /\ Position /\ BufferIsComplete /\ HandledSoFar

LEMMA InitComplete == FeedConstants /\ FeedInit => Complete
  <1> SUFFICES ASSUME FeedConstants, FeedInit PROVE Complete
    OBVIOUS
  <1>1. changelog = <<>> /\ saved = 0 /\ serial = 0 /\ nextSerial = 0 /\ stamp = NoTime
        /\ buffer = {}
    BY DEF FeedInit
  <1>2. DOMAIN changelog = {} /\ Len(changelog) = 0 /\ Logged = {}
    BY <1>1 DEF Logged
  <1>3. StartAt(0) = 0
    BY DEF StartAt, Less, FeedConstants
  <1> QED
    BY <1>1, <1>2, <1>3 DEF Complete, LogIsOrderly, Settled, Position, BufferIsComplete,
       HandledSoFar

LEMMA PublishComplete ==
  ASSUME FeedConstants, WideWindow, Reading, Complete,
         NEW t \in 0..MaxTime, NEW e \in Events, Publish(t, e)
  PROVE  Complete'
  <1>0. PICK n \in Nat : n = Len(changelog)
    BY LoggedRows DEF Reading
  <1>a. PICK new : new = changelog'[n + 1]
    OBVIOUS
  <1>1. /\ DOMAIN changelog = 1..n /\ DOMAIN changelog' = 1..(n + 1) /\ Len(changelog') = n + 1
        /\ \A k \in 1..n : changelog'[k] = changelog[k] /\ When(k)' = When(k)
        /\ \A k \in 1..n : When(k) \in Nat
        /\ new.ts = t /\ new.serial = n + 1
        /\ Logged' = Logged \cup {new}
        /\ {Skew, PypiEpoch} \subseteq Nat /\ t \in Nat
    <2>1. LogIsNumbered' /\ Len(changelog') = n + 1
      BY <1>0, Published DEF Reading
    <2>2. DOMAIN changelog' = 1..(n + 1)
      BY <2>1, LenProperties DEF LogIsNumbered
    <2> QED
      BY <1>0, <1>a, <2>1, <2>2, Published, LoggedRows DEF When, FeedConstants, Reading
  <1>2. UNCHANGED <<saved, serial, nextSerial, stamp, buffer, loop, seen>>
    BY DEF Publish, bufferVars, history
  <1>3. LogIsOrderly'
    BY PublishOrderly DEF Reading, Complete
  <1>4. PypiEpoch <= n => \A k \in 1..n : When(k) <= t + Skew
    BY <1>0, <1>1, PublishOrderly DEF Reading, Complete
  <1>5. saved \in Nat /\ serial \in Nat /\ nextSerial \in Nat /\ nextSerial <= n
    BY <1>0 DEF Reading, ReadsTheLog, Complete, Position
  <1>6. ASSUME NEW m \in Nat, Settled(m)
        PROVE  /\ Settled(m)'
               /\ Comes(new, m)' => DatedIntoSilence(new)'
               /\ \A r \in Logged : Comes(r, m)' <=> Comes(r, m)
    <2>1. CASE m = 0
      BY <2>1 DEF Settled, Comes
    <2>2. CASE m > 0
      <3>1. m \in 1..n /\ PypiEpoch < n
        BY <1>0, <1>6, <2>2 DEF Settled
      <3>2. PICK l \in m..n : \A k \in 1..l :
              When(m) <= When(k) \/ \E j \in 1..l : When(k) + Window < When(j)
        BY <1>0, <1>6, <2>2 DEF Settled
      <3>3. \A k \in 1..l : k \in 1..n /\ When(k)' = When(k)
        BY <1>1, <3>1, <3>2
      <3>4. When(m)' = When(m) /\ l \in m..(n + 1)
        BY <1>1, <3>1, <3>2
      <3>5. Settled(m)'
        <4>1. \A k \in 1..l :
                When(m)' <= When(k)' \/ \E j \in 1..l : When(k)' + Window < When(j)'
          BY <3>2, <3>3, <3>4
        <4> QED
          BY <1>1, <3>1, <3>4, <4>1 DEF Settled
      <3>6. changelog'[m] = changelog[m] /\ changelog[m].serial = m /\ changelog[m].ts = When(m)
        BY <1>0, <1>1, <3>1, LoggedRows DEF Reading, When
      <3>7. ASSUME Before(new, changelog[m])
            PROVE  DatedIntoSilence(new)'
        <4>1. t < When(m)
          BY <1>1, <3>1, <3>6, <3>7 DEF Before
        <4>2. ASSUME NEW o \in Logged', o.serial < m
              PROVE  When(m) <= o.ts \/ o.ts + Window < t + Skew
          <5>1. o \in Logged
            BY <1>1, <3>1, <4>2
          <5>2. o.serial \in 1..l /\ o.ts = When(o.serial)
            BY <1>0, <3>2, <4>2, <5>1, LoggedRows DEF Reading, When
          <5>3. CASE When(m) <= When(o.serial)
            BY <5>2, <5>3
          <5>4. CASE \E j \in 1..l : When(o.serial) + Window < When(j)
            <6>1. PICK j \in 1..l : When(o.serial) + Window < When(j)
              BY <5>4
            <6>2. j \in 1..n /\ o.serial \in 1..n
              BY <3>3, <5>2, <6>1
            <6>3. When(j) <= t + Skew
              BY <1>1, <1>4, <3>1, <6>2
            <6>4. {When(j), When(o.serial), Skew, Window} \subseteq Nat
              BY <1>1, <6>2 DEF FeedConstants
            <6> QED
              BY <1>1, <5>2, <6>1, <6>3, <6>4
          <5> QED
            BY <3>2, <5>2, <5>3, <5>4
        <4>3. changelog[m] \in Logged' /\ changelog[m].serial < new.serial
          BY <1>0, <1>1, <3>1, <3>6, LoggedRows DEF Reading
        <4> QED
          BY <1>1, <3>6, <4>1, <4>2, <4>3 DEF DatedIntoSilence
      <3> QED
        BY <2>2, <3>5, <3>6, <3>7 DEF Comes, Before
    <2> QED
      BY <2>1, <2>2
  <1>7. Settled(saved) /\ Settled(serial)
    BY DEF Complete
  <1>8. Settled(saved)' /\ Settled(serial)'
    <2>1. PICK m \in Nat : m = saved
      BY <1>5
    <2>2. PICK k \in Nat : k = serial
      BY <1>5
    <2>3. Settled(m)' /\ Settled(k)'
      BY <1>6, <1>7, <2>1, <2>2
    <2> QED
      BY <1>2, <2>1, <2>2, <2>3 DEF Settled
  <1>9. /\ Comes(new, saved)' => DatedIntoSilence(new)'
        /\ Comes(new, serial)' => DatedIntoSilence(new)'
        /\ \A r \in Logged : (Comes(r, saved)' <=> Comes(r, saved))
                             /\ (Comes(r, serial)' <=> Comes(r, serial))
    <2>1. PICK m \in Nat : m = saved
      BY <1>5
    <2>2. PICK k \in Nat : k = serial
      BY <1>5
    <2>3. /\ Comes(new, m)' => DatedIntoSilence(new)'
          /\ Comes(new, k)' => DatedIntoSilence(new)'
          /\ \A r \in Logged : (Comes(r, m)' <=> Comes(r, m)) /\ (Comes(r, k)' <=> Comes(r, k))
      BY <1>6, <1>7, <2>1, <2>2
    <2> QED
      BY <1>2, <2>1, <2>2, <2>3 DEF Comes
  <1>b. ASSUME NEW r \in Logged, Done(r)
        PROVE  Done(r)'
    <2>1. CASE r \in seen
      BY <1>2, <2>1 DEF Done
    <2>2. CASE DatedIntoSilence(r)
      <3>1. PICK q \in Logged :
              /\ q.serial < r.serial /\ r.ts < q.ts
              /\ \A o \in Logged :
                   o.serial < q.serial => q.ts <= o.ts \/ o.ts + Window < r.ts + Skew
        BY <2>2 DEF DatedIntoSilence
      <3>2. q.serial \in 1..n
        BY <1>0, LoggedRows DEF Reading
      <3>3. ~(new.serial < q.serial) /\ q \in Logged'
        BY <1>1, <3>2
      <3>4. DatedIntoSilence(r)'
        BY <1>1, <3>1, <3>3 DEF DatedIntoSilence
      <3> QED
        BY <3>4 DEF Done
    <2> QED
      BY <2>1, <2>2, <1>b DEF Done
  <1>10. Position'
    <2>1. nextSerial' <= Len(changelog)'
      BY <1>1, <1>2, <1>5
    <2>2. stamp # NoTime => When(Wanted)' = When(Wanted)
      <3>1. PICK k \in Nat : k = Wanted
        BY <1>5 DEF Wanted
      <3>2. stamp # NoTime => k \in 1..n
        BY <1>5, <3>1 DEF Complete, Position, Wanted
      <3>3. stamp # NoTime => When(k)' = When(k)
        BY <1>1, <3>2
      <3>4. Wanted' = k
        BY <1>2, <3>1 DEF Wanted
      <3> QED
        BY <3>1, <3>3, <3>4 DEF When
    <2> QED
      BY <1>2, <2>1, <2>2 DEF Complete, Position, StartAt
  <1>11. BufferIsComplete'
    <2>1. ~(new.serial <= nextSerial)
      BY <1>1, <1>5
    <2> QED
      BY <1>1, <1>2, <1>9, <2>1 DEF Complete, BufferIsComplete
  <1>12. HandledSoFar'
    <2>1. ASSUME NEW r \in Logged
          PROVE  /\ Comes(r, saved)' => Done(r)'
                 /\ Comes(r, serial)' => Done(r)' \/ (loop' # NoLoop /\ r \in loop')
      BY <1>2, <1>9, <1>b DEF Complete, HandledSoFar
    <2>2. /\ Comes(new, saved)' => Done(new)'
          /\ Comes(new, serial)' => Done(new)'
      BY <1>9 DEF Done
    <2> QED
      BY <1>1, <2>1, <2>2 DEF HandledSoFar
  <1> QED
    BY <1>3, <1>8, <1>10, <1>11, <1>12 DEF Complete

\* Where PyPIBuffer looks for the wanted row, it is there.
LEMMA WantedIsRead ==
  ASSUME FeedConstants, WideWindow, Reading, Complete, Fetched # {}
  PROVE  /\ Wanted \in 1..Len(changelog)
         /\ StampOf(Fetched) = When(Wanted)
         /\ changelog[Wanted] \in buffer \cup Fetched
  <1>1. /\ serial \in Nat /\ nextSerial \in Nat /\ nextSerial < Len(changelog)
        /\ Len(changelog) \in Nat /\ {PypiEpoch, PypiMargin} \subseteq Nat /\ PypiMargin > 0
    BY FetchedRows, LoggedRows DEF Reading, ReadsTheLog, FeedConstants, WideWindow
  <1>2. serial <= Len(changelog)
    BY <1>1 DEF Complete, Settled
  <1>3. Wanted \in 1..Len(changelog) /\ Wanted \in Nat /\ serial <= Wanted
    BY <1>1, <1>2 DEF Wanted
  <1>4. changelog[Wanted] \in Logged /\ changelog[Wanted].serial = Wanted
    BY <1>3, LoggedRows DEF Reading
  <1>5. CASE stamp = NoTime
    <2>1. nextSerial = StartAt(serial)
      BY <1>5 DEF Complete, Position
    <2>2. nextSerial < Wanted
      BY <1>1, <2>1 DEF StartAt, Less, Wanted
    <2>3. changelog[Wanted] \in Fetched
      BY <1>4, <2>2 DEF Fetched
    <2>4. PICK r \in Fetched :
            /\ r.serial >= serial /\ r.ts = StampOf(Fetched)
            /\ \A q \in Fetched : q.serial >= serial => r.serial <= q.serial
      BY <1>2, <1>5, FetchedRows DEF Reading
    <2>5. r \in Logged /\ r.serial \in 1..Len(changelog)
      BY LoggedRows, FetchedRows DEF Reading
    <2>6. r.serial <= Wanted
      BY <1>3, <1>4, <2>3, <2>4
    <2>7. r.serial = Wanted
      BY <1>1, <1>3, <2>4, <2>5, <2>6 DEF Wanted
    <2>8. r = changelog[Wanted]
      BY <2>5, <2>7, LoggedRows DEF Reading
    <2> QED
      BY <1>3, <2>3, <2>4, <2>8 DEF When
  <1>6. CASE stamp # NoTime
    <2>1. 0 < nextSerial /\ serial <= nextSerial /\ stamp = When(Wanted)
      BY <1>6 DEF Complete, Position
    <2>2. StampOf(Fetched) = stamp
      BY <1>6, FetchedRows DEF Reading
    <2>3. ~Comes(changelog[Wanted], serial)
      <3>1. CASE serial = 0
        BY <3>1 DEF Comes
      <3>2. CASE serial # 0
        <4>1. Wanted = serial /\ changelog[Wanted].ts \in Nat
          BY <1>3, <3>2, LoggedRows DEF Wanted, Reading, FeedConstants
        <4> QED
          BY <1>3, <1>4, <4>1 DEF Comes, Before
      <3> QED
        BY <3>1, <3>2
    <2>4. changelog[Wanted].serial <= nextSerial
      BY <1>1, <1>4, <2>1 DEF Wanted
    <2>5. changelog[Wanted] \in buffer
      BY <1>4, <2>3, <2>4 DEF Complete, BufferIsComplete
    <2> QED
      BY <1>3, <2>1, <2>2, <2>5
  <1> QED
    BY <1>5, <1>6

\* A row that is not in the buffer after a call, or older than the time from
\* which rows are yielded, is done.
LEMMA OlderRowsAreHandled ==
  ASSUME FeedConstants, WideWindow, Reading, Complete, Fetched # {}, loop = NoLoop
  PROVE  LET rows == buffer \cup Fetched  from == StampOf(Fetched) IN
         /\ \A r \in Logged \ rows : Done(r) /\ r.ts <= from
         /\ \A r \in rows :
              \/ Done(r)
              \/ r.ts > from \/ (r.ts = from /\ r.serial >= serial)
  <1> DEFINE rows == buffer \cup Fetched
             from == StampOf(Fetched)
  <1>1. /\ serial \in Nat /\ nextSerial \in Nat /\ {MaxTime, PypiEpoch} \subseteq Nat
        /\ rows \subseteq Logged
    BY FetchedRows DEF Reading, ReadsTheLog, FeedConstants
  <1>2. \A r \in Logged : r.ts \in Nat /\ r.serial \in 1..Len(changelog) /\ changelog[r.serial] = r
    BY <1>1, LoggedRows DEF Reading, Distinct
  <1>3. /\ Wanted \in 1..Len(changelog) /\ from = When(Wanted) /\ from \in Nat
    BY <1>1, WantedIsRead, LoggedRows DEF When, Reading
  <1>4. ASSUME NEW r \in Logged, Comes(r, serial)
        PROVE  Done(r) /\ r.ts <= from
    <2>1. serial > 0 /\ Wanted = serial /\ Before(r, changelog[serial])
      BY <1>4 DEF Comes, Wanted
    <2>2. Done(r)
      BY <1>4 DEF Complete, HandledSoFar
    <2> QED
      BY <1>2, <1>3, <2>1, <2>2 DEF Before, When
  <1>5. ASSUME NEW r \in Logged \ rows
        PROVE  Comes(r, serial)
    BY <1>1, <1>2, <1>5 DEF Complete, BufferIsComplete, Fetched
  <1>6. ASSUME NEW r \in rows, ~Done(r)
        PROVE  r.ts > from \/ (r.ts = from /\ r.serial >= serial)
    <2>1. r \in Logged /\ ~Comes(r, serial)
      BY <1>1, <1>4, <1>6
    <2>2. CASE serial = 0
      <3>1. Wanted = 1 /\ When(1) <= When(r.serial) /\ When(r.serial) = r.ts
        BY <1>2, <2>1, <2>2, LoggedRows DEF Wanted, When, Complete, LogIsOrderly, Reading
      <3> QED
        BY <1>2, <1>3, <2>1, <2>2, <3>1
    <2>3. CASE serial # 0
      <3>1. Wanted = serial /\ changelog[serial].ts = from /\ changelog[serial].serial = serial
        BY <1>3, <2>3, LoggedRows DEF Wanted, When, Reading
      <3>2. ~Before(r, changelog[serial])
        BY <1>1, <2>1, <2>3 DEF Comes
      <3> QED
        BY <1>1, <1>2, <1>3, <2>1, <3>1, <3>2 DEF Before
    <2> QED
      BY <2>2, <2>3
  <1> QED
    BY <1>4, <1>5, <1>6

\* Neither assertion of the iterator fails.
LEMMA AssertionsHold ==
  ASSUME FeedConstants, WideWindow, Reading, Complete
  PROVE  ReadAsserts
  <1> DEFINE rows == buffer \cup Fetched
             from == StampOf(Fetched)
  <1> SUFFICES ASSUME loop = NoLoop, Fetched # {}, ~(from >= FinishTimestamp(rows))
               PROVE  from \in {r.ts : r \in Yielded(rows, from)}
    BY DEF ReadAsserts
  <1>1. /\ Wanted \in 1..Len(changelog) /\ from = When(Wanted) /\ changelog[Wanted] \in rows
        /\ changelog[Wanted].serial = Wanted /\ from \in Nat
    BY WantedIsRead, LoggedRows DEF When, Reading, FeedConstants
  <1>2. FinishTimestamp(rows) \in Nat
    BY <1>1, Yields, FetchedRows DEF Reading, ReadsTheLog
  <1>3. serial \in Nat /\ Wanted >= serial
    BY DEF Wanted, Reading, ReadsTheLog
  <1>4. changelog[Wanted].ts = from
    BY <1>1 DEF When
  <1>5. from < FinishTimestamp(rows)
    BY <1>1, <1>2
  <1> HIDE DEF rows, from
  <1>6. changelog[Wanted] \in Yielded(rows, from)
    BY <1>1, <1>3, <1>4, <1>5 DEF Yielded
  <1> QED
    BY <1>4, <1>6

\* All rows read are from the time on of the one from which the iterator goes
\* on, or older than the window.
LEMMA FirstKeptIsSettled ==
  ASSUME FeedConstants, WideWindow, Reading, Complete, Fetched # {}, loop = NoLoop,
         StampOf(Fetched) < FinishTimestamp(buffer \cup Fetched)
  PROVE  LET rows == buffer \cup Fetched
             first == Earliest({r \in rows : r.ts >= FinishTimestamp(rows)})
         IN  \A k \in 1..Len(changelog) :
               first.ts <= When(k) \/ \E j \in 1..Len(changelog) : When(k) + Window < When(j)
  <1> DEFINE rows == buffer \cup Fetched
             from == StampOf(Fetched)
             kept == {r \in rows : r.ts >= FinishTimestamp(rows)}
             first == Earliest(kept)
             n == Len(changelog)
  <1>1. /\ n \in Nat /\ DOMAIN changelog = 1..n /\ rows \subseteq Logged /\ rows # {}
        /\ \A k \in 1..n : changelog[k] \in Logged /\ When(k) = changelog[k].ts /\ When(k) \in Nat
        /\ \A r \in Logged : r.serial \in 1..n /\ changelog[r.serial] = r /\ r.ts \in Nat
        /\ Window \in Nat
    BY FetchedRows, LoggedRows, SMTT(40) DEF Reading, ReadsTheLog, FeedConstants, When, Distinct
  <1>2. from \in Nat
    <2>1. Wanted \in 1..n /\ from = When(Wanted)
      BY WantedIsRead
    <2> QED
      BY <1>1, <2>1
  <1>3. /\ FinishTimestamp(rows) \in Nat /\ from < FinishTimestamp(rows)
        /\ FinishTimestamp(rows) = Newest(rows) - Window /\ Newest(rows) \in Nat
        /\ \E r \in rows : r.ts = Newest(rows)
        /\ first \in kept /\ \A q \in kept \ {first} : Before(first, q)
    <2>1. LogIsNumbered /\ rows \in SUBSET Logged
      BY <1>1 DEF Reading
    <2> HIDE DEF rows
    <2>2. /\ FinishTimestamp(rows) \in Nat /\ Newest(rows) \in Nat
          /\ \E r \in rows : r.ts = Newest(rows)
          /\ FinishTimestamp(rows) > 0 => FinishTimestamp(rows) = Newest(rows) - Window
          /\ first \in kept /\ \A q \in kept \ {first} : Before(first, q)
      BY <1>1, <2>1, Yields
    <2>3. from < FinishTimestamp(rows)
      BY DEF rows
    <2> HIDE DEF first, kept, from
    <2> QED
      BY <1>2, <2>2, <2>3
  <1>4. ASSUME NEW r \in Logged, r.ts >= FinishTimestamp(rows)
        PROVE  first.ts <= r.ts
    <2>1. r \in rows
      <3>1. r \in Logged \ rows => r.ts <= from
        BY OlderRowsAreHandled
      <3> QED
        BY <1>1, <1>2, <1>3, <1>4, <3>1
    <2>2. r \in kept /\ first \in Logged
      BY <1>1, <1>3, <1>4, <2>1
    <2>3. r = first \/ Before(first, r)
      BY <1>3, <2>2
    <2> HIDE DEF first
    <2> QED
      BY <1>1, <2>2, <2>3 DEF Before
  <1>5. PICK m \in 1..n : When(m) = Newest(rows)
    <2>1. PICK r \in rows : r.ts = Newest(rows)
      BY <1>3
    <2> QED
      BY <1>1, <2>1
  <1> HIDE DEF first, rows, from
  <1>6. ASSUME NEW k \in 1..n, ~(first.ts <= When(k))
        PROVE  When(k) + Window < When(m)
    <2>1. ~(When(k) >= FinishTimestamp(rows))
      BY <1>1, <1>4, <1>6
    <2> QED
      BY <1>1, <1>3, <1>5, <2>1
  <1> QED
    BY <1>5, <1>6 DEF first, rows

LEMMA ReadComplete ==
  ASSUME FeedConstants, WideWindow, Reading, Complete, Read
  PROVE  Complete'
  <1> DEFINE rows == buffer \cup Fetched
             from == StampOf(Fetched)
             kept == {r \in rows : r.ts >= FinishTimestamp(rows)}
             first == Earliest(kept)
             n == Len(changelog)
  <1>1. /\ loop = NoLoop /\ Fetched # {}
        /\ UNCHANGED <<changelog, saved, seen>>
    BY DEF Read, history
  <1>2. /\ n \in Nat /\ DOMAIN changelog = 1..n /\ rows \subseteq Logged /\ rows # {}
        /\ \A k \in 1..n : changelog[k] \in Logged /\ changelog[k].serial = k
        /\ \A r \in Logged : r.serial \in 1..n /\ changelog[r.serial] = r /\ r.ts \in Nat
        /\ nextSerial < n /\ changelog[n].serial = n
        /\ serial \in Nat /\ nextSerial \in Nat /\ saved \in Nat /\ PypiEpoch \in Nat
    BY <1>1, FetchedRows, LoggedRows, SMTT(40) DEF Reading, ReadsTheLog, FeedConstants, Distinct
  <1>3. Wanted \in 1..n /\ from = When(Wanted) /\ from \in Nat /\ from # NoTime
    BY <1>1, <1>2, WantedIsRead DEF When, FeedConstants
  <1>4. /\ nextSerial' = n
        /\ \/ buffer' = rows /\ stamp' = from /\ loop' = {} /\ UNCHANGED serial
           \/ /\ ~(n <= PypiEpoch) /\ ~(from >= FinishTimestamp(rows))
              /\ loop' = Yielded(rows, from) /\ buffer' = kept
              /\ stamp' = first.ts /\ serial' = first.serial
    BY <1>2 DEF Read
  <1>5. /\ Logged' = Logged /\ LogIsOrderly' /\ Settled(saved)'
        /\ \A k : When(k)' = When(k)
        /\ \A r \in Logged : Comes(r, saved)' => Done(r)
        /\ \A r \in Logged : Done(r)' <=> Done(r)
    <2>1. Logged' = Logged /\ LogIsOrderly' /\ Settled(saved)' /\ \A k : When(k)' = When(k)
      BY <1>1 DEF Logged, Complete, LogIsOrderly, Settled, When
    <2>2. \A r \in Logged : Done(r)' <=> Done(r)
      BY <1>1, <2>1 DEF Done, DatedIntoSilence
    <2>3. \A r \in Logged : Comes(r, saved)' => Done(r)
      BY <1>1 DEF Complete, HandledSoFar, Comes
    <2> QED
      BY <2>1, <2>2, <2>3
  <1>6. ASSUME NEW r \in Logged \ rows
        PROVE  Done(r) /\ r.ts <= from
    BY <1>1, <1>6, OlderRowsAreHandled
  <1>7. CASE buffer' = rows /\ stamp' = from /\ loop' = {} /\ UNCHANGED serial
    <2>1. Settled(serial)'
      BY <1>1, <1>7 DEF Complete, Settled, When
    <2>2. Position'
      <3>1. When(Wanted)' = When(Wanted)
        BY <1>1, <1>7 DEF When, Wanted
      <3> QED
        BY <1>1, <1>2, <1>3, <1>4, <1>7, <3>1 DEF Position, Complete, Settled
    <2>3. BufferIsComplete'
      BY <1>1, <1>2, <1>5, <1>7 DEF Complete, BufferIsComplete, Fetched, Comes
    <2>4. HandledSoFar'
      <3>1. \A r \in Logged : Comes(r, serial) => Done(r)
        BY <1>1 DEF Complete, HandledSoFar
      <3> QED
        BY <1>1, <1>5, <1>7, <3>1 DEF HandledSoFar, Comes
    <2> QED
      BY <1>5, <2>1, <2>2, <2>3, <2>4 DEF Complete
  <1>8. CASE /\ ~(n <= PypiEpoch) /\ ~(from >= FinishTimestamp(rows))
             /\ loop' = Yielded(rows, from) /\ buffer' = kept
             /\ stamp' = first.ts /\ serial' = first.serial
    <2>1. /\ FinishTimestamp(rows) \in Nat /\ from < FinishTimestamp(rows)
          /\ first \in kept /\ \A q \in kept \ {first} : Before(first, q)
      <3>1. LogIsNumbered /\ rows \in SUBSET Logged
        BY <1>2 DEF Reading
      <3> HIDE DEF rows
      <3>2. /\ FinishTimestamp(rows) \in Nat
            /\ first \in kept /\ \A q \in kept \ {first} : Before(first, q)
        BY <1>2, <3>1, Yields
      <3> HIDE DEF from, kept, first
      <3> QED
        BY <1>3, <1>8, <3>2
    <2>2. /\ first \in rows /\ first \in Logged /\ first.ts \in Nat /\ first.ts >= FinishTimestamp(rows)
          /\ first.serial \in 1..n /\ changelog[first.serial] = first
      BY <1>2, <2>1
    <2>3. \A k \in 1..n :
            first.ts <= When(k) \/ \E j \in 1..n : When(k) + Window < When(j)
      BY <1>1, <2>1, FirstKeptIsSettled
    <2>4. changelog'[serial'] = first /\ serial' > 0 /\ serial' \in 1..n /\ When(serial)' = first.ts
      BY <1>1, <1>8, <2>2 DEF When
    <2>5. Settled(serial)'
      <3>1. DOMAIN changelog' = DOMAIN changelog /\ Len(changelog') = n
        BY <1>1
      <3>2. \A k \in 1..n :
              When(serial)' <= When(k)' \/ \E j \in 1..n : When(k)' + Window < When(j)'
        BY <1>5, <2>3, <2>4
      <3>3. /\ serial' <= Len(changelog') /\ PypiEpoch < Len(changelog')
            /\ n \in serial'..Len(changelog')
        BY <1>2, <1>8, <2>4, <3>1
      <3> QED
        BY <3>2, <3>3 DEF Settled
    <2>6. Position'
      <3>1. Wanted' = serial' /\ stamp' = When(Wanted)'
        BY <1>8, <2>4 DEF Wanted, When
      <3>2. stamp' # NoTime
        BY <1>8, <2>2 DEF FeedConstants
      <3> QED
        BY <1>1, <1>2, <1>4, <2>4, <3>1, <3>2 DEF Position
    <2>7. ASSUME NEW r \in Logged
          PROVE  /\ Comes(r, serial)' <=> Before(r, first)
                 /\ Before(r, first) => r \notin kept
                 /\ ~(r \in rows /\ r.ts >= FinishTimestamp(rows)) => Before(r, first)
      <3>1. Comes(r, serial)' <=> Before(r, first)
        BY <2>4 DEF Comes, Before
      <3>2. Before(r, first) => r \notin kept
        <4>1. r \in kept => r = first \/ Before(first, r)
          BY <2>1
        <4>2. r.ts \in Nat /\ r.serial \in Nat /\ first.serial \in Nat
          BY <1>2, <2>2
        <4> HIDE DEF kept, first
        <4> QED
          BY <2>2, <4>1, <4>2 DEF Before
      <3>3. ASSUME ~(r \in rows /\ r.ts >= FinishTimestamp(rows))
            PROVE  Before(r, first)
        <4>1. r.ts < FinishTimestamp(rows)
          BY <1>2, <1>3, <1>6, <2>1, <3>3
        <4> QED
          BY <1>2, <2>1, <2>2, <4>1 DEF Before
      <3> QED
        BY <3>1, <3>2, <3>3
    <2>8. BufferIsComplete'
      BY <1>5, <1>8, <2>7 DEF BufferIsComplete
    <2>9. ASSUME NEW r \in Logged, Before(r, first)
          PROVE  Done(r) \/ r \in Yielded(rows, from)
      <3>1. CASE r \notin rows
        BY <1>6, <3>1
      <3>2. CASE r \in rows
        <4>1. r.ts < FinishTimestamp(rows)
          <5>1. r \notin kept
            BY <2>7, <2>9
          <5>2. ~(r.ts >= FinishTimestamp(rows))
            BY <3>2, <5>1
          <5>3. r.ts \in Nat
            BY <1>2
          <5> HIDE DEF rows
          <5> QED
            BY <2>1, <5>2, <5>3
        <4>2. Done(r) \/ (r.ts > from \/ (r.ts = from /\ r.serial >= serial))
          BY <1>1, <3>2, OlderRowsAreHandled
        <4> QED
          BY <3>2, <4>1, <4>2 DEF Yielded
      <3> QED
        BY <3>1, <3>2
    <2>10. loop' # NoLoop
      <3>1. loop' \in SUBSET Rows
        <4>1. Logged \subseteq Rows
          BY LoggedRows DEF Reading
        <4> QED
          BY <1>2, <1>8, <4>1 DEF Yielded
      <3> QED
        BY <3>1 DEF FeedConstants
    <2>11. HandledSoFar'
      BY <1>1, <1>5, <1>8, <2>7, <2>9, <2>10 DEF HandledSoFar
    <2> QED
      BY <1>5, <2>5, <2>6, <2>8, <2>11 DEF Complete
  <1> QED
    BY <1>4, <1>7, <1>8

LEMMA RestartComplete ==
  ASSUME FeedConstants, WideWindow, Reading, Complete, EarlyRowsComeFirst, StartAgain
  PROVE  Complete'
  <1>1. /\ UNCHANGED <<changelog, saved, seen>> /\ serial' = saved
        /\ nextSerial' = StartAt(saved) /\ stamp' = NoTime /\ buffer' = {} /\ loop' = NoLoop
    BY DEF StartAgain
  <1>2. /\ saved \in Nat /\ {PypiEpoch, PypiMargin} \subseteq Nat /\ PypiMargin > 0
        /\ Len(changelog) \in Nat /\ saved <= Len(changelog) /\ DOMAIN changelog = 1..Len(changelog)
        /\ \A r \in Logged : /\ r.serial \in 1..Len(changelog) /\ changelog[r.serial] = r
                             /\ r.ts \in Nat
        /\ \A k \in 1..Len(changelog) : changelog[k].serial = k /\ When(k) \in Nat
    BY LoggedRows DEF Reading, ReadsTheLog, FeedConstants, WideWindow, Complete, Settled,
       Distinct, When
  <1>3. Logged' = Logged /\ LogIsOrderly' /\ Settled(saved)' /\ Settled(serial)'
    BY <1>1 DEF Logged, Complete, LogIsOrderly, Settled, When
  <1>4. StartAt(saved) \in Nat /\ StartAt(saved) <= saved
    BY <1>2 DEF StartAt, Less
  <1>5. Position'
    BY <1>1, <1>2, <1>4 DEF Position, StartAt
  <1>6. ASSUME NEW r \in Logged, r.serial <= StartAt(saved)
        PROVE  Comes(r, saved)
    <2>1. /\ saved > 0 /\ PypiEpoch <= saved /\ r.serial + PypiMargin <= saved
      BY <1>2, <1>6 DEF StartAt, Less
    <2>2. When(r.serial) <= When(saved)
      <3>1. r.serial \in DOMAIN changelog /\ saved \in DOMAIN changelog
        BY <1>2, <2>1
      <3>2. CASE r.serial < PypiEpoch
        BY <2>1, <3>1, <3>2 DEF EarlyRowsComeFirst
      <3>3. CASE PypiEpoch <= r.serial
        BY <2>1, <3>1, <3>3 DEF Complete, LogIsOrderly
      <3> QED
        BY <1>2, <3>2, <3>3
    <2>3. r.ts <= changelog[saved].ts /\ changelog[saved].ts \in Nat /\ r.serial < changelog[saved].serial
      BY <1>2, <2>1, <2>2 DEF When
    <2> QED
      BY <1>2, <2>1, <2>3 DEF Comes, Before
  <1>7. BufferIsComplete'
    BY <1>1, <1>3, <1>6 DEF BufferIsComplete, Comes
  <1>8. HandledSoFar'
    BY <1>1, <1>3 DEF Complete, HandledSoFar, Comes, Done, DatedIntoSilence
  <1> QED
    BY <1>3, <1>5, <1>7, <1>8 DEF Complete

LEMMA StepComplete ==
  FeedConstants /\ WideWindow /\ Reading /\ Complete /\ EarlyRowsComeFirst
    /\ [FeedNext]_feedVars => Complete'
  <1> SUFFICES ASSUME FeedConstants, WideWindow, Reading, Complete, EarlyRowsComeFirst,
                      [FeedNext]_feedVars
               PROVE  Complete'
    OBVIOUS
  <1> USE DEF Complete
  <1>1. CASE UNCHANGED <<changelog, saved, serial, nextSerial, stamp, buffer, loop, seen>>
    BY <1>1 DEF LogIsOrderly, When, Settled, Position, Wanted, BufferIsComplete, HandledSoFar,
       Comes, Logged, Done, DatedIntoSilence
  <1>2. CASE Handle
    <2>1. /\ UNCHANGED <<changelog, saved, serial, nextSerial, stamp, buffer>>
          /\ loop # NoLoop /\ loop' = loop \ {Earliest(loop)} /\ loop' # NoLoop
          /\ seen' = seen \cup {Earliest(loop)}
      BY <1>2, Handled
    <2>2. HandledSoFar'
      BY <2>1 DEF HandledSoFar, Comes, Logged, Done, DatedIntoSilence
    <2> QED
      BY <2>1, <2>2 DEF LogIsOrderly, When, Settled, Position, Wanted, BufferIsComplete,
         Comes, Logged
  <1>3. CASE Save
    <2>1. /\ UNCHANGED <<changelog, serial, nextSerial, stamp, buffer, seen>>
          /\ loop = {} /\ loop' = NoLoop /\ saved' \in {saved, serial}
      BY <1>3 DEF Save, bufferVars, history
    <2>2. \A r \in Logged : (Comes(r, saved) => Done(r)) /\ (Comes(r, serial) => Done(r))
      BY <2>1 DEF HandledSoFar
    <2>3. HandledSoFar'
      BY <2>1, <2>2 DEF HandledSoFar, Comes, Logged, Done, DatedIntoSilence
    <2>4. Settled(saved)' /\ Settled(serial)'
      BY <2>1 DEF Settled, When
    <2> QED
      BY <2>1, <2>3, <2>4 DEF LogIsOrderly, When, Position, Wanted, BufferIsComplete,
         Comes, Logged
  <1>4. UNCHANGED feedVars => UNCHANGED <<changelog, saved, serial, nextSerial, stamp, buffer,
                                          loop, seen>>
    BY DEF feedVars
  <1> QED
    BY <1>1, <1>2, <1>3, <1>4, PublishComplete, ReadComplete, RestartComplete DEF FeedNext

\* Whenever the master ends and starts again, and however long the log was
\* silent, what comes before the row at which it resumes has been handled, and
\* the iterator's assertions hold.  Only rows that are dated into a silence may be
\* left out (run FeedLosesRows shows one that is).  Before the epoch no row may be
\* dated late by more than the margin.
THEOREM NoRowIsLost ==
  ASSUME FeedConstants, WideWindow
  PROVE  FeedSpec /\ []EarlyRowsComeFirst => []FeedIsComplete
  <1>1. Reading /\ Complete => FeedIsComplete
    <2> SUFFICES ASSUME Reading, Complete,
                        NEW r \in Logged, NEW q \in Logged, q.serial = saved, Before(r, q)
                 PROVE  Done(r)
      BY AssertionsHold DEF FeedIsComplete, Done
    <2>1. q.serial \in 1..Len(changelog) /\ changelog[q.serial] = q
      BY LoggedRows DEF Reading
    <2>2. Comes(r, saved)
      BY <2>1 DEF Comes
    <2> QED
      BY <2>2 DEF Complete, HandledSoFar
  <1> QED
    BY <1>1, InitReading, StepReading, InitComplete, StepComplete, PTL DEF FeedSpec

-----------------------------------------------------------------------------
\* What was reported.

Actions == {"create", "source"}
Entries == [version : {e.version : e \in Events}, action : Actions]

\* A version has one entry.
OneEntryEach(s) == \A j, k \in DOMAIN s : s[j].version = s[k].version => j = k

\* An entry says no more than the rows did: with binaries only, a source may
\* have been seen since.
True(entry, f) ==
  entry.version \in Versions =>
    f[entry.version] \in (IF entry.action = "source" THEN {"source"} ELSE Actions)

PackageStays == ~(\E r \in seen : r.action = "remove" /\ r.version = NoVersion)

Telling ==
  /\ versions \in Seq(Entries) /\ OneEntryEach(versions)
  /\ real \in [Versions -> Actions \cup {"none"}]
  /\ PackageStays =>
       /\ told = real
       /\ \A k \in DOMAIN versions : True(versions[k], real)

\* Without the entry of a version the cache has the others.
LEMMA Forgotten ==
  ASSUME versions \in Seq(Entries), OneEntryEach(versions), NEW v
  PROVE  /\ Forget(v) \in Seq(Entries) /\ OneEntryEach(Forget(v))
         /\ \A k \in DOMAIN Forget(v) :
              Forget(v)[k].version # v /\ \E j \in DOMAIN versions : Forget(v)[k] = versions[j]
  <1>1. CASE Positions(v) = {}
    BY <1>1 DEF Forget, Positions
  <1>2. CASE Positions(v) # {}
    <2>1. PICK p \in Positions(v) : p = Place(v)
      BY <1>2 DEF Place
    <2>2. PICK n \in Nat : n = Len(versions)
      BY LenProperties
    <2>3. DOMAIN versions = 1..n /\ p \in 1..n /\ versions[p].version = v
      BY <2>1, <2>2, LenProperties DEF Positions
    <2> DEFINE a == SubSeq(versions, 1, p - 1)  b == SubSeq(versions, p + 1, n)
    <2>4. Forget(v) = a \o b
      BY <1>2, <2>1, <2>2 DEF Forget
    <2>5. \A i \in 1..n : versions[i] \in Entries
      BY <2>3, ElementOfSeq
    <2>6. /\ a \in Seq(Entries) /\ Len(a) = p - 1
          /\ \A i \in 1..(p - 1) : a[i] = versions[i]
      BY <2>2, <2>3, <2>5, SubSeqProperties
    <2>7. /\ b \in Seq(Entries) /\ Len(b) = n - p
          /\ \A i \in 1..(n - p) : b[i] = versions[p + i]
      BY <2>2, <2>3, <2>5, SubSeqProperties
    <2> HIDE DEF a, b
    <2>8. /\ a \o b \in Seq(Entries) /\ Len(a \o b) = n - 1
          /\ \A i \in 1..(n - 1) : (a \o b)[i] = IF i <= p - 1 THEN a[i] ELSE b[i - (p - 1)]
      <3>1. /\ a \o b \in Seq(Entries) /\ Len(a \o b) = Len(a) + Len(b)
            /\ \A i \in 1..(Len(a) + Len(b)) :
                 (a \o b)[i] = IF i <= Len(a) THEN a[i] ELSE b[i - Len(a)]
        BY <2>6, <2>7, ConcatProperties
      <3>2. Len(a) + Len(b) = n - 1
        BY <2>2, <2>3, <2>6, <2>7
      <3> QED
        BY <2>6, <3>1, <3>2
    <2>9. DOMAIN Forget(v) = 1..(n - 1)
      BY <2>2, <2>4, <2>8, LenProperties
    <2>10. \A i \in 1..(n - 1) :
             Forget(v)[i] = IF i <= p - 1 THEN versions[i] ELSE versions[i + 1]
      <3>1. ASSUME NEW i \in 1..(n - 1), i <= p - 1
            PROVE  Forget(v)[i] = versions[i]
        BY <2>2, <2>3, <2>4, <2>6, <2>8, <3>1
      <3>2. ASSUME NEW i \in 1..(n - 1), ~(i <= p - 1)
            PROVE  Forget(v)[i] = versions[i + 1]
        <4>1. i - (p - 1) \in 1..(n - p) /\ p + (i - (p - 1)) = i + 1
          BY <2>2, <2>3, <3>2
        <4> QED
          BY <2>4, <2>7, <2>8, <3>2, <4>1
      <3> QED
        BY <3>1, <3>2
    <2>11. \A i \in 1..(n - 1) : (IF i <= p - 1 THEN i ELSE i + 1) \in (1..n) \ {p}
      BY <2>2, <2>3
    <2>12. \A i \in 1..(n - 1) : Forget(v)[i].version # v
      BY <2>3, <2>10, <2>11 DEF OneEntryEach
    <2>13. OneEntryEach(Forget(v))
      <3> SUFFICES ASSUME NEW i \in 1..(n - 1), NEW j \in 1..(n - 1),
                          Forget(v)[i].version = Forget(v)[j].version
                   PROVE  i = j
        BY <2>9 DEF OneEntryEach
      <3>1. PICK k \in 1..n : k = (IF i <= p - 1 THEN i ELSE i + 1) /\ Forget(v)[i] = versions[k]
        BY <2>10, <2>11
      <3>2. PICK m \in 1..n : m = (IF j <= p - 1 THEN j ELSE j + 1) /\ Forget(v)[j] = versions[m]
        BY <2>10, <2>11
      <3>3. k = m
        BY <2>3, <3>1, <3>2 DEF OneEntryEach
      <3> QED
        BY <2>2, <2>3, <3>1, <3>2, <3>3
    <2> QED
      BY <2>3, <2>4, <2>8, <2>9, <2>10, <2>11, <2>12, <2>13
  <1> QED
    BY <1>1, <1>2

\* An upload moves the entry of its version to the end, and the oldest may go.
LEMMA Uploads ==
  ASSUME versions \in Seq(Entries), OneEntryEach(versions), NEW entry \in Entries
  PROVE  LET new == Trim(Append(Forget(entry.version), entry)) IN
         /\ new \in Seq(Entries) /\ OneEntryEach(new)
         /\ \A k \in DOMAIN new :
              \/ new[k] = entry
              \/ /\ new[k].version # entry.version
                 /\ \E j \in DOMAIN versions : new[k] = versions[j]
  <1>1. PICK s : s = Forget(entry.version)
    OBVIOUS
  <1>2. /\ s \in Seq(Entries) /\ OneEntryEach(s)
        /\ \A k \in DOMAIN s :
             s[k].version # entry.version /\ \E j \in DOMAIN versions : s[k] = versions[j]
    BY <1>1, Forgotten
  <1>3. PICK t : t = Append(s, entry)
    OBVIOUS
  <1>4. PICK n \in Nat : n = Len(s) /\ DOMAIN s = 1..n
    BY <1>2, LenProperties
  <1>5. /\ t \in Seq(Entries) /\ Len(t) = n + 1 /\ DOMAIN t = 1..(n + 1)
        /\ \A i \in 1..n : t[i] = s[i]
        /\ t[n + 1] = entry
    BY <1>2, <1>3, <1>4, AppendProperties, LenProperties
  <1>6. \A k \in 1..(n + 1) :
          \/ t[k] = entry /\ k = n + 1
          \/ /\ k \in 1..n /\ t[k].version # entry.version
             /\ \E j \in DOMAIN versions : t[k] = versions[j]
    BY <1>2, <1>4, <1>5, SMTT(40)
  <1>7. OneEntryEach(t)
    <2> SUFFICES ASSUME NEW i \in 1..(n + 1), NEW j \in 1..(n + 1), t[i].version = t[j].version
                 PROVE  i = j
      BY <1>5 DEF OneEntryEach
    <2>1. CASE i \in 1..n /\ j \in 1..n
      BY <1>2, <1>4, <1>5, <2>1, SMTT(40) DEF OneEntryEach
    <2>2. CASE ~(i \in 1..n /\ j \in 1..n)
      BY <1>6, <2>2
    <2> QED
      BY <2>1, <2>2
  <1>8. CASE Trim(t) = t
    BY <1>1, <1>3, <1>5, <1>6, <1>7, <1>8
  <1>9. CASE Trim(t) = Tail(t)
    <2>1. t # <<>>
      BY <1>4, <1>5, EmptySeq
    <2>2. /\ Tail(t) \in Seq(Entries) /\ Len(Tail(t)) = n
          /\ \A i \in 1..n : Tail(t)[i] = t[i + 1]
      BY <1>4, <1>5, <2>1, HeadTailProperties
    <2>3. DOMAIN Tail(t) = 1..n /\ \A i \in 1..n : i + 1 \in 1..(n + 1)
      BY <1>4, <2>2, LenProperties
    <2>4. OneEntryEach(Tail(t))
      <3> SUFFICES ASSUME NEW i \in 1..n, NEW j \in 1..n, Tail(t)[i].version = Tail(t)[j].version
                   PROVE  i = j
        BY <2>3 DEF OneEntryEach
      <3>1. i + 1 = j + 1
        BY <1>5, <1>7, <2>2, <2>3 DEF OneEntryEach
      <3> QED
        BY <1>4, <3>1
    <2>5. \A k \in 1..n :
            \/ Tail(t)[k] = entry
            \/ /\ Tail(t)[k].version # entry.version
               /\ \E j \in DOMAIN versions : Tail(t)[k] = versions[j]
      BY <1>6, <2>2, <2>3
    <2> QED
      BY <1>1, <1>3, <1>9, <2>2, <2>3, <2>4, <2>5
  <1> QED
    BY <1>8, <1>9 DEF Trim

LEMMA TellingKept ==
  Telling /\ UNCHANGED <<versions, real, told, seen>> => Telling'
  BY DEF Telling, OneEntryEach, PackageStays, True

\* One row of the loop, told or not.
LEMMA HandleTelling ==
  ASSUME FeedConstants, Reading, Telling, Handle
  PROVE  Telling'
  <1>1. PICK r : r = Earliest(loop)
    OBVIOUS
  <1>2. PICK v, a : v = r.version /\ a = r.action
    OBVIOUS
  <1>3. v \in {e.version : e \in Events}
    <2>1. r \in Rows
      BY <1>1, Handled, LoggedRows DEF Reading
    <2> QED
      BY <1>2, <2>1 DEF Rows, Row
  <1>4. /\ real' = After(real, r) /\ seen' = seen \cup {r}
        /\ a \in Actions => Upload(r) /\ told' = IF Reported(r) THEN After(told, r) ELSE told
        /\ a \notin Actions => Removal(r) /\ told' = After(told, r)
    BY <1>1, <1>2 DEF Handle, Actions
  <1>5. /\ versions \in Seq(Entries) /\ OneEntryEach(versions)
        /\ real \in [Versions -> Actions \cup {"none"}]
        /\ DOMAIN versions = 1..Len(versions)
        /\ \A k \in DOMAIN versions : versions[k] \in Entries
    BY ElementOfSeq, LenProperties DEF Telling
  <1>6. /\ PackageStays' => PackageStays
        /\ PackageStays' => ~(a = "remove" /\ v = NoVersion)
        /\ PackageStays => told = real /\ \A k \in DOMAIN versions : True(versions[k], real)
    BY <1>2, <1>4 DEF PackageStays, Telling
  <1>7. CASE a \in Actions
    <2> DEFINE b == IF Reported(r) THEN a ELSE Cached(v)
               entry == [version |-> v, action |-> b]
    <2>1. versions' = Trim(Append(Forget(v), entry))
      BY <1>2, <1>4, <1>7 DEF Upload
    <2>2. After(real, r) = [real EXCEPT ![v] = IF @ = "source" THEN @ ELSE a]
      BY <1>2, <1>7 DEF After, Uploaded, Actions
    <2>3. ~Reported(r) =>
            /\ Place(v) \in DOMAIN versions /\ versions[Place(v)].version = v
            /\ Cached(v) = versions[Place(v)].action /\ Cached(v) \in Actions
            /\ ~(Cached(v) = "create" /\ a = "source")
      <3>1. ASSUME ~Reported(r)
            PROVE  Positions(v) # {} /\ ~(Cached(v) = "create" /\ a = "source")
        BY <1>2, <3>1 DEF Reported
      <3>2. ASSUME Positions(v) # {}
            PROVE  Place(v) \in DOMAIN versions /\ versions[Place(v)].version = v
        BY <3>2 DEF Place, Positions
      <3> QED
        BY <1>5, <3>1, <3>2 DEF Cached, Entries
    <2>4. entry \in Entries /\ entry.version = v /\ entry.action = b
      BY <1>3, <1>7, <2>3 DEF Entries
    <2>5. real' \in [Versions -> Actions \cup {"none"}]
      BY <1>4, <1>5, <1>7, <2>2
    <2>6. \A w \in Versions \ {v} : real'[w] = real[w]
      BY <1>4, <1>5, <2>2
    <2>7. v \in Versions =>
            real'[v] = IF real[v] = "source" THEN "source" ELSE a
      BY <1>4, <1>5, <2>2
    <2>8. ASSUME PackageStays, ~Reported(r)
          PROVE  real' = real
      <3>1. True(versions[Place(v)], real)
        BY <1>6, <2>3, <2>8
      <3>2. v \in Versions => real'[v] = real[v]
        BY <1>5, <1>7, <2>3, <2>7, <2>8, <3>1 DEF True, Actions
      <3> QED
        BY <1>5, <2>5, <2>6, <3>2
    <2>9. PackageStays' => told' = real'
      BY <1>4, <1>6, <1>7, <2>8
    <2>10. ASSUME PackageStays
           PROVE  True(entry, real')
      <3>1. CASE Reported(r)
        BY <1>7, <2>4, <2>7, <3>1 DEF True, Actions
      <3>2. CASE ~Reported(r)
        <4>1. True(versions[Place(v)], real)
          BY <1>6, <2>3, <2>10, <3>2
        <4> QED
          BY <2>3, <2>4, <2>8, <2>10, <3>2, <4>1 DEF True
      <3> QED
        BY <3>1, <3>2
    <2> HIDE DEF entry
    <2>11. /\ versions' \in Seq(Entries) /\ OneEntryEach(versions)'
           /\ \A k \in DOMAIN versions' :
                \/ versions'[k] = entry
                \/ /\ versions'[k].version # v
                   /\ \E j \in DOMAIN versions : versions'[k] = versions[j]
      <3>1. PICK new : new = Trim(Append(Forget(entry.version), entry))
        OBVIOUS
      <3>2. /\ new \in Seq(Entries) /\ OneEntryEach(new)
            /\ \A k \in DOMAIN new :
                 \/ new[k] = entry
                 \/ /\ new[k].version # entry.version
                    /\ \E j \in DOMAIN versions : new[k] = versions[j]
        BY <1>5, <2>4, <3>1, Uploads
      <3>3. versions' = new
        BY <2>1, <2>4, <3>1
      <3>4. OneEntryEach(versions)'
        BY <3>2, <3>3 DEF OneEntryEach
      <3> QED
        BY <2>4, <3>2, <3>3, <3>4
    <2>12. ASSUME PackageStays', NEW k \in DOMAIN versions'
           PROVE  True(versions'[k], real')
      <3>1. CASE versions'[k] = entry
        BY <1>6, <2>10, <2>12, <3>1
      <3>2. CASE versions'[k] # entry
        <4>1. PICK j \in DOMAIN versions : versions'[k] = versions[j] /\ versions[j].version # v
          BY <2>11, <2>12, <3>2
        <4>2. True(versions[j], real)
          BY <1>6, <2>12, <4>1
        <4> QED
          BY <2>6, <4>1, <4>2 DEF True
      <3> QED
        BY <3>1, <3>2
    <2> QED
      BY <2>5, <2>9, <2>11, <2>12 DEF Telling, True
  <1>8. CASE a \notin Actions
    <2>1. After(real, r) =
            IF a = "remove" THEN [w \in Versions |-> IF v \in {w, NoVersion} THEN "none" ELSE real[w]]
            ELSE real
      BY <1>2, <1>8 DEF After, Actions
    <2>2. real' \in [Versions -> Actions \cup {"none"}]
      BY <1>4, <1>5, <2>1
    <2>3. PackageStays' => told' = real'
      BY <1>4, <1>6, <1>8
    <2>4. versions' = IF a = "remove" /\ v # NoVersion THEN Forget(v) ELSE versions
      BY <1>2, <1>4, <1>8 DEF Removal
    <2>5. CASE a = "remove" /\ v # NoVersion
      <3>1. /\ versions' \in Seq(Entries) /\ OneEntryEach(versions)'
            /\ \A k \in DOMAIN versions' :
                 /\ versions'[k].version # v
                 /\ \E j \in DOMAIN versions : versions'[k] = versions[j]
        BY <1>5, <2>4, <2>5, Forgotten DEF OneEntryEach
      <3>2. \A w \in Versions \ {v} : real'[w] = real[w]
        BY <1>4, <2>1, <2>5
      <3>3. ASSUME PackageStays', NEW k \in DOMAIN versions'
            PROVE  True(versions'[k], real')
        <4>1. PICK j \in DOMAIN versions : versions'[k] = versions[j] /\ versions[j].version # v
          BY <3>1, <3>3
        <4>2. True(versions[j], real)
          BY <1>6, <3>3, <4>1
        <4> QED
          BY <3>2, <4>1, <4>2 DEF True
      <3> QED
        BY <2>2, <2>3, <3>1, <3>3 DEF Telling, True
    <2>6. CASE ~(a = "remove" /\ v # NoVersion)
      <3>1. versions' = versions /\ (PackageStays' => real' = real)
        BY <1>4, <1>6, <2>1, <2>4, <2>6
      <3> QED
        BY <1>5, <1>6, <2>2, <2>3, <3>1 DEF Telling, True, OneEntryEach
    <2> QED
      BY <2>5, <2>6
  <1> QED
    BY <1>7, <1>8

LEMMA StepTelling == FeedConstants /\ Reading /\ Telling /\ [FeedNext]_feedVars => Telling'
  <1> SUFFICES ASSUME FeedConstants, Reading, Telling, [FeedNext]_feedVars PROVE Telling'
    OBVIOUS
  <1>1. CASE StartAgain
    <2>1. versions' = <<>> /\ UNCHANGED <<real, told, seen>>
      BY <1>1 DEF StartAgain
    <2>2. <<>> \in Seq(Entries) /\ DOMAIN <<>> = {}
      BY EmptySeq
    <2> QED
      BY <2>1, <2>2 DEF Telling, OneEntryEach, PackageStays, True
  <1>2. Handle \/ StartAgain \/ UNCHANGED <<versions, real, told, seen>>
    BY DEF FeedNext, Publish, Read, Save, history, feedVars
  <1> QED
    BY <1>1, <1>2, TellingKept, HandleTelling

\* As long as the package stays, what was reported of a version is what the
\* rows said of it, however few of them were reported, whatever the size of the
\* cache and whenever a restart empties it.
THEOREM ReportsTellTheLog ==
  ASSUME FeedConstants
  PROVE  FeedSpec => []VersionsAreTold
  <1>1. FeedInit => Telling
    <2>1. <<>> \in Seq(Entries) /\ DOMAIN <<>> = {}
      BY EmptySeq
    <2> QED
      BY <2>1 DEF FeedInit, Telling, OneEntryEach
  <1>2. Telling => VersionsAreTold
    BY DEF Telling, VersionsAreTold, PackageStays
  <1> QED
    BY <1>1, <1>2, InitReading, StepReading, StepTelling, PTL DEF FeedSpec
=============================================================================
