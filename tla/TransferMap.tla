----------------------------- MODULE TransferMap -----------------------------
(***************************************************************************)
(* TransferState's record of the bytes it still needs, as the list of      *)
(* ranges that it is, under any order, repetition or loss of the chunks    *)
(* that answer its fetches.  FileTransfer has a set of chunks instead;     *)
(* FetchesAreChunks is why it may.                                         *)
(***************************************************************************)
EXTENDS Ranges

CONSTANTS
  Size,         \* filesize
  ChunkSize     \* chunk_size

VARIABLES
  map,          \* _map
  offset,       \* _offset
  fetched,      \* the ranges ever returned by fetch
  written       \* bytes written to the file

mapVars == <<map, offset, fetched, written>>

MapInit ==
  /\ map = <<<<0, Size>>>>
  /\ offset = 0
  /\ fetched = {}
  /\ written = {}

\* The first range of the map that meets r, cut to r.
FirstIn(r) ==
  LET meets == {k \in DOMAIN map : Intersect(map[k], r) # NoRange} IN
  IF meets = {} THEN NoRange
  ELSE Intersect(map[CHOOSE k \in meets : \A j \in meets : k <= j], r)

\* fetch: from the offset on, or else from the first missing byte on.
FetchRange ==
  LET next == FirstIn(<<offset, offset + ChunkSize>>) IN
  IF next # NoRange THEN next
  ELSE FirstIn(<<map[1][1], map[1][1] + ChunkSize>>)

\* Called with credit left, which implies that the map is not empty.
Fetch ==
  /\ map # <<>>
  /\ fetched' = fetched \cup {FetchRange}
  /\ offset' = FetchRange[2]
  /\ UNCHANGED <<map, written>>

\* chunk: the answer to any fetch, late or repeated.
Receive(r) ==
  /\ r \in fetched
  /\ written' = written \cup Bytes(r)
  /\ map' = Exclude(map, r)
  /\ UNCHANGED <<offset, fetched>>

MapNext == Fetch \/ \E r \in fetched : Receive(r)
MapSpec == MapInit /\ [][MapNext]_mapVars

\* The map is the list of the bytes that were not written yet, in order and
\* without an empty or overlapping range: "done" is right, and fetch's first
\* match is the lowest.
MapIsMissing ==
  /\ Covered(map) = {i \in 0..(Size - 1) : i \notin written}
  /\ Ascending(map)
  /\ \A k \in DOMAIN map : map[k][1] < map[k][2]

\* Every fetch asks for exactly one chunk, at a multiple of the chunk size:
\* neither late answers nor going back to the first missing byte ever shifts
\* the grid.
FetchesAreChunks ==
  \A r \in fetched :
    /\ r # NoRange
    /\ r[1] % ChunkSize = 0
    /\ r[2] = Smaller(r[1] + ChunkSize, Size)

\* fetch would return something that is still missing, whatever came meanwhile.
FetchesAreUseful ==
  map # <<>> => Bytes(FetchRange) # {} /\ Bytes(FetchRange) \cap written = {}
=============================================================================
