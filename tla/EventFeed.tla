------------------------------ MODULE EventFeed ------------------------------
(***************************************************************************)
(* PyPI's log of events as piwheels reads it: PyPIBuffer, which puts the   *)
(* rows in the order of their timestamps, PyPIEvents, which turns them     *)
(* into reports without repeating itself, and the serial number that       *)
(* CloudGazer keeps in the database for the next start.  What CloudGazer   *)
(* does for each report is module CloudGazer.  Five minutes are Window     *)
(* ticks of the clock; descriptions and names are left out.                *)
(***************************************************************************)
EXTENDS Naturals, Sequences, FiniteSets

CONSTANTS
  Window,       \* how far behind the newest row a row must be to be yielded
  Skew,         \* how far the log's timestamps go back
  PypiEpoch,    \* PYPI_EPOCH: up to it timestamps are in no order
  PypiMargin,   \* PYPI_MARGIN
  CacheSize,    \* cache_size
  Versions,     \* versions of the one package in the log
  Events,       \* what the log may say: an action, and of which version
  MaxRows, MaxTime, MaxCrashes,  \* bounds
  NoTime, NoRow, NoVersion,
  NoLoop        \* read_pypi is not running

VARIABLES
  changelog,    \* PyPI's log, by serial
  saved,       \* pypi_serial in the database
  serial,       \* PyPIBuffer._serial, the next row to yield
  nextSerial,   \* _next_serial, the last row read
  stamp,        \* _serial_timestamp
  buffer,       \* _buffer; its order is that of Before
  loop,         \* rows that read_pypi's loop has still to see, if it runs
  versions,     \* _versions, oldest first
  crashes,
  seen, last,   \* history: rows handled; the last one since the start
  real, told    \* history: what the rows, and the reports, say of a version

bufferVars == <<serial, nextSerial, stamp, buffer>>
history == <<seen, last, real, told>>
feedVars == <<changelog, saved, serial, nextSerial, stamp, buffer, loop,
              versions, crashes, seen, last, real, told>>

Row(n, t, e) == [serial |-> n, ts |-> t, action |-> e.action, version |-> e.version]
Rows == {Row(n, t, e) : n \in 1..MaxRows, t \in 0..MaxTime, e \in Events}

FeedTypeOK ==
  /\ changelog \in Seq(Rows)
  /\ {saved, serial, nextSerial} \subseteq 0..MaxRows
  /\ stamp \in 0..MaxTime \cup {NoTime}
  /\ buffer \subseteq Rows
  /\ loop = NoLoop \/ loop \subseteq Rows
  /\ Len(versions) <= CacheSize
  /\ last \in Rows \cup {NoRow}

\* Mutant of Before: the order of the log.
BeforeInLog(r, q) == r.serial < q.serial

\* The order of the sorted buffer.
Before(r, q) == r.ts < q.ts \/ (r.ts = q.ts /\ r.serial < q.serial)

Earliest(rows) == CHOOSE r \in rows : \A q \in rows \ {r} : Before(r, q)
Newest(rows) == CHOOSE t \in {r.ts : r \in rows} : \A r \in rows : r.ts <= t
Logged == {changelog[k] : k \in DOMAIN changelog}

-----------------------------------------------------------------------------
\* PyPI.  After the epoch a row may be dated back by at most Skew, and fewer
\* rows than the margin fall into a window; before it only the first is known
\* to come first.  The log may be silent for any time.
Orderly(t) ==
  \/ changelog = <<>>
  \/ /\ changelog # <<>>
     /\ changelog[1].ts <= t
     /\ Len(changelog) >= PypiEpoch =>
          /\ Newest(Logged) <= t + Skew
          /\ Cardinality({r \in Logged : r.ts + Window > t}) < PypiMargin

Publish(t, e) ==
  /\ Len(changelog) < MaxRows
  /\ Orderly(t)
  /\ changelog' = Append(changelog, Row(Len(changelog) + 1, t, e))
  /\ UNCHANGED <<saved, bufferVars, loop, versions, crashes, history>>

-----------------------------------------------------------------------------
\* PyPIBuffer.
Less(a, b) == IF a > b THEN a - b ELSE 0

\* The serial after which to read so as to yield from value on.
StartAt(value) == Less(IF value < PypiEpoch THEN 0 ELSE value, PypiMargin)

\* The rows that changelog_since_serial returns: all that is there, or none
\* if the call fails.
Fetched == {r \in Logged : r.serial > nextSerial}

\* The timestamp of the row wanted, once it has been read.
StampOf(rows) ==
  LET from == {r \in rows : r.serial >= serial}
      found == CHOOSE r \in from : \A q \in from : r.serial <= q.serial
  IN  IF stamp = NoTime /\ from # {} THEN found.ts ELSE stamp

\* Rows from this time on stay in the buffer.
FinishTimestamp(rows) == Less(Newest(rows), Window)

\* The rows of the buffer to yield now: from the wanted one on.
Yielded(rows, from) ==
  {r \in rows : r.ts < FinishTimestamp(rows)
                /\ (r.ts > from \/ (r.ts = from /\ r.serial >= serial))}

\* __iter__: one call, whose rows the caller takes all at once.
Read ==
  /\ loop = NoLoop
  /\ Fetched # {}
  /\ LET rows == buffer \cup Fetched
         from == StampOf(Fetched)
         kept == {r \in rows : r.ts >= FinishTimestamp(rows)}
         lastRead == changelog[Len(changelog)].serial
     IN  /\ nextSerial' = lastRead
         /\ IF lastRead <= PypiEpoch \/ from = NoTime \/ from >= FinishTimestamp(rows)
            THEN /\ buffer' = rows /\ stamp' = from
                 /\ loop' = {}
                 /\ UNCHANGED serial
            ELSE /\ loop' = Yielded(rows, from)
                 /\ buffer' = kept
                 /\ stamp' = Earliest(kept).ts
                 /\ serial' = Earliest(kept).serial
  /\ UNCHANGED <<changelog, saved, versions, crashes, history>>

\* What the two assertions in __iter__ say.
ReadAsserts ==
  LET rows == buffer \cup Fetched  from == StampOf(Fetched) IN
  loop = NoLoop /\ Fetched # {} =>
    \/ changelog[Len(changelog)].serial <= PypiEpoch
    \/ from = NoTime \/ from >= FinishTimestamp(rows)
    \/ from \in {r.ts : r \in Yielded(rows, from)}

-----------------------------------------------------------------------------
\* PyPIEvents: one row of the loop.
Positions(v) == {k \in DOMAIN versions : versions[k].version = v}
Place(v) == CHOOSE k \in Positions(v) : TRUE
Forget(v) ==
  IF Positions(v) = {} THEN versions
  ELSE SubSeq(versions, 1, Place(v) - 1) \o SubSeq(versions, Place(v) + 1, Len(versions))
Trim(s) == IF Len(s) > CacheSize THEN Tail(s) ELSE s
Cached(v) == versions[Place(v)].action

\* An upload is reported if its version is not in the cache, or if it is the
\* first source of a version with binaries.
Reported(r) ==
  Positions(r.version) = {} \/ (Cached(r.version) = "create" /\ r.action = "source")

Upload(r) ==
  LET entry == [version |-> r.version,
                action |-> IF Reported(r) THEN r.action ELSE Cached(r.version)]
  IN  versions' = Trim(Append(Forget(r.version), entry))

\* Mutant of Removal: a removed version stays in the cache.
RemovalKeeps(r) == UNCHANGED versions

\* Only the removal of a version takes it out of the cache, that of the
\* package does not.
Removal(r) ==
  versions' = IF r.action = "remove" /\ r.version # NoVersion
              THEN Forget(r.version) ELSE versions

\* What a row or a report makes of the state of the versions: none, binaries
\* only, or a source.
Uploaded(f, r) ==
  [f EXCEPT ![r.version] = IF @ = "source" THEN @ ELSE r.action]
After(f, r) ==
  CASE r.action \in {"source", "create"} -> Uploaded(f, r)
    [] r.action = "remove" ->
         [v \in Versions |-> IF r.version \in {v, NoVersion} THEN "none" ELSE f[v]]
    [] OTHER -> f

Handle ==
  /\ loop # NoLoop /\ loop # {}
  /\ LET r == Earliest(loop) IN
     /\ loop' = loop \ {r}
     /\ seen' = seen \cup {r}
     /\ last' = r
     /\ real' = After(real, r)
     /\ IF r.action \in {"source", "create"}
        THEN Upload(r) /\ told' = IF Reported(r) THEN After(told, r) ELSE told
        ELSE Removal(r) /\ told' = After(told, r)
  /\ UNCHANGED <<changelog, saved, bufferVars, crashes>>

\* Mutant of Save: the serial is that of the last row read.
SaveRead ==
  /\ loop = {}
  /\ loop' = NoLoop
  /\ saved' = nextSerial
  /\ UNCHANGED <<changelog, bufferVars, versions, crashes, history>>

\* The end of read_pypi.
Save ==
  /\ loop = {}
  /\ loop' = NoLoop
  /\ saved' = IF saved < serial THEN serial ELSE saved
  /\ UNCHANGED <<changelog, bufferVars, versions, crashes, history>>

\* The master ends, in the middle of the loop or not, and starts again: once.
StartAgain ==
  /\ crashes < MaxCrashes
  /\ crashes' = crashes + 1
  /\ serial' = saved
  /\ nextSerial' = StartAt(saved)
  /\ stamp' = NoTime
  /\ buffer' = {}
  /\ loop' = NoLoop
  /\ versions' = <<>>
  /\ last' = NoRow
  /\ UNCHANGED <<changelog, saved, seen, real, told>>

FeedInit ==
  /\ changelog = <<>>
  /\ saved = 0 /\ serial = 0 /\ nextSerial = 0 /\ stamp = NoTime /\ buffer = {}
  /\ loop = NoLoop /\ versions = <<>> /\ crashes = 0
  /\ seen = {} /\ last = NoRow
  /\ real = [v \in Versions |-> "none"] /\ told = real

FeedNext ==
  \/ \E t \in 0..MaxTime, e \in Events : Publish(t, e)
  \/ Read \/ Handle \/ Save \/ StartAgain

FeedSpec == FeedInit /\ [][FeedNext]_feedVars

-----------------------------------------------------------------------------
\* The row is dated back before one that came after a silence: of the rows read
\* earlier none is from that row's time on or within Window - Skew of this one's.
DatedIntoSilence(r) ==
  \E q \in Logged :
    /\ q.serial < r.serial /\ r.ts < q.ts
    /\ \A o \in Logged : o.serial < q.serial => q.ts <= o.ts \/ o.ts + Window < r.ts + Skew

\* Whatever comes before the row at which the next start resumes has been
\* handled, whenever the master ended, and no assertion of PyPIBuffer fails.
\* Only rows that are dated into a silence of the log may be left out: the
\* window ends at the row after the silence, and PyPIBuffer goes on from there.
FeedIsComplete ==
  /\ ReadAsserts
  /\ \A r \in Logged, q \in Logged :
       q.serial = saved /\ Before(r, q) => r \in seen \/ DatedIntoSilence(r)

\* The promise of PyPIBuffer: rows that go backwards by no more than the skew
\* are yielded like any others.
NoRowIsMissed ==
  \A r \in Logged, q \in Logged : q.serial = saved /\ Before(r, q) => r \in seen

\* Between two starts the rows are handled in the order of their timestamps,
\* none of them twice, although they are read in another order.
FeedIsOrdered == [][last # NoRow /\ last' # last /\ last' # NoRow => Before(last, last')]_feedVars

\* What was reported of a version is what the rows said of it, although most
\* rows are not reported; unless the package was removed since the start.
VersionsAreTold ==
  ~(\E r \in seen : r.action = "remove" /\ r.version = NoVersion) =>
    \A v \in Versions : told[v] = real[v]
=============================================================================
