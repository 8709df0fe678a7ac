---------------------------- MODULE HlNodeSource ----------------------------
(***************************************************************************)
(* The block source that reads the hourly files of a local hl-node         *)
(* (src/src/pseudo_peer/sources/hl_node): the ingest loop tails the file   *)
(* of the current hour, and callers take blocks from the shared cache, by  *)
(* reading the file that holds them again, or from a fallback source.      *)
(*                                                                         *)
(* A file is the sequence of the heights on its lines.  hl-node, which is  *)
(* external, writes increasing heights, to the file of the current hour or *)
(* still to the one before; the line it is writing is torn, and does not   *)
(* parse.  A hour has HourTicks ticks of the clock.                        *)
(***************************************************************************)
EXTENDS Integers, Sequences, SequencesExt, FiniteSets, FiniteSetsExt

CONSTANTS MaxHeight,      \* bound on the heights written
          MaxClock,       \* bound on the clock
          HourTicks,      \* ticks per hour
          Threshold,      \* fallback_threshold, in ticks
          CacheSize,      \* CACHE_SIZE
          ChunkLines,     \* lines that fit in one chunk of read_last_complete_line
          NextBlock,      \* next_block_number given to the source
          Callers,        \* concurrent callers of collect_block
          Wanted,         \* the heights they ask for
          None            \* no value

Heights == 1..MaxHeight
Hours == 0..MaxClock \div HourTicks

ASSUME SourceBounds ==
  /\ MaxHeight \in Nat /\ MaxClock \in Nat /\ HourTicks \in Nat \ {0}
  /\ Threshold \in Nat /\ CacheSize \in Nat \ {0} /\ ChunkLines \in Nat
  /\ NextBlock \in Nat /\ Wanted \subseteq Heights
  /\ None \notin Int
  /\ None \notin [height : Heights, time : 0..MaxClock]

VARIABLES
  clock,             \* the time
  files,             \* the lines of the file of each hour
  torn,              \* the last line of the latest file is still being written
  cache,             \* LocalBlocksCache.cache: heights, least recent first
  ranges,            \* LocalBlocksCache.ranges: the file of each height
  last_local_fetch,  \* the last height fetched, and when
  ingest,            \* where the ingest loop is
  dt,                \* the hour it tails
  last_line,         \* the index of the last line it accepted
  next_height,       \* its next expected height, at most MaxHeight + 1
  result,            \* the scan result it is about to load
  caller             \* each caller: where it is, its height and its time

hlNode == <<files, torn>>
local == <<cache, ranges>>
loop == <<ingest, dt, last_line, next_height, result>>
vars == <<clock, hlNode, local, last_local_fetch, loop, caller>>

NoResult == [path |-> None, new_blocks |-> <<>>, new_block_ranges |-> {}]
Idle == [pc |-> "idle", height |-> None, now |-> None]

Init ==
  /\ clock = 0
  /\ files = [f \in Hours |-> <<>>] /\ torn = FALSE
  /\ cache = <<>> /\ ranges = [h \in Heights |-> None]
  /\ last_local_fetch = None
  /\ ingest = "new" /\ dt = 0 /\ last_line = 0 /\ next_height = NextBlock
  /\ result = NoResult
  /\ caller = [c \in Callers |-> Idle]

-----------------------------------------------------------------------------
(* hl-node and the clock, external. *)

(* The files that exist; find_latest_hourly_file is the last of them. *)
Existing == {f \in Hours : files[f] # <<>>}

Written == UNION {ToSet(files[f]) : f \in Existing}

Hour == clock \div HourTicks

Tick == /\ clock < MaxClock
        /\ clock' = clock + 1
        /\ UNCHANGED <<hlNode, local, last_local_fetch, loop, caller>>

(* A line begins: the next height, or the one after it when one is missing. *)
BeginLine(f, h) ==
  /\ ~torn
  /\ f \in {Hour - 1, Hour} \cap Hours
  /\ \A g \in Existing : g <= f
  /\ h \in {Max(Written \cup {0}) + 1, Max(Written \cup {0}) + 2}
  /\ files' = [files EXCEPT ![f] = Append(@, h)]
  /\ torn' = TRUE
  /\ UNCHANGED <<clock, local, last_local_fetch, loop, caller>>

EndLine ==
  /\ torn
  /\ torn' = FALSE
  /\ UNCHANGED <<clock, files, local, last_local_fetch, loop, caller>>

(* The lines of a file that parse. *)
Parsed(f) == IF torn /\ f = Max(Existing) THEN Front(files[f]) ELSE files[f]

-----------------------------------------------------------------------------
(* Scanner and LocalBlocksCache. *)

(* Mutation: a line is recorded before it is known to parse. *)
scan_unparsed(f, from, start_height, only_load_ranges) ==
  LET lines == files[f]
      read == {i \in DOMAIN lines : i - 1 >= from}
      accepted == {i \in read : lines[i] >= start_height}
  IN  [path |-> f,
       new_blocks |-> IF only_load_ranges THEN <<>>
                      ELSE SelectSeq(lines, LAMBDA h : \E i \in accepted : lines[i] = h),
       new_block_ranges |-> {lines[i] : i \in read},
       last_line |-> Max({from} \cup {i - 1 : i \in accepted}),
       next_expected_height |-> Max({start_height} \cup {lines[i] : i \in accepted}) + 1]

(* Mutation: a line that does not parse counts as read. *)
scan_past_torn(f, from, start_height, only_load_ranges) ==
  LET lines == Parsed(f)
      read == {i \in DOMAIN lines : i - 1 >= from}
      accepted == {i \in read : lines[i] >= start_height}
  IN  [path |-> f,
       new_blocks |-> IF only_load_ranges THEN <<>>
                      ELSE SelectSeq(lines, LAMBDA h : \E i \in accepted : lines[i] = h),
       new_block_ranges |-> {lines[i] : i \in read},
       last_line |-> Max({from, Len(files[f])}),
       next_expected_height |-> Max({start_height} \cup {lines[i] : i \in accepted}) + 1]

(***************************************************************************)
(* The scan of a file from the line with index from on.  Lines below       *)
(* start_height are not accepted but still enter the ranges; a line that   *)
(* does not parse is passed over.  next_expected_height grows even when    *)
(* no line is accepted.                                                    *)
(***************************************************************************)
scan_hour_file(f, from, start_height, only_load_ranges) ==
  LET lines == Parsed(f)
      read == {i \in DOMAIN lines : i - 1 >= from}
      accepted == {i \in read : lines[i] >= start_height}
  IN  [path |-> f,
       new_blocks |-> IF only_load_ranges THEN <<>>
                      ELSE SelectSeq(lines, LAMBDA h : \E i \in accepted : lines[i] = h),
       new_block_ranges |-> {lines[i] : i \in read},
       last_line |-> Max({from} \cup {i - 1 : i \in accepted}),
       next_expected_height |-> Max({start_height} \cup {lines[i] : i \in accepted}) + 1]

(* LruMap::insert and remove of reth, on the heights of the cached blocks. *)
LruRemove(keys, h) == SelectSeq(keys, LAMBDA k : k # h)

LruInsert(keys, h) ==
  LET others == LruRemove(keys, h)
  IN  Append(IF Len(others) >= CacheSize THEN Tail(others) ELSE others, h)

(* Mutation: the blocks are cached, but not where to find them again. *)
load_blocks_only(m, res) ==
  [cache |-> FoldLeft(LruInsert, m.cache, res.new_blocks), ranges |-> m.ranges]

(* load_scan_result on both parts of the cache. *)
load_scan_result(m, res) ==
  [cache |-> FoldLeft(LruInsert, m.cache, res.new_blocks),
   ranges |-> [h \in Heights |->
                 IF h \in res.new_block_ranges THEN res.path ELSE m.ranges[h]]]

Local == [cache |-> cache, ranges |-> ranges]

(***************************************************************************)
(* read_last_complete_line: the last line; behind a torn one, the line     *)
(* before it, but only if it is the only one or the file does not fit in   *)
(* one chunk.                                                              *)
(***************************************************************************)
read_last_block_from_file(f) ==
  LET lines == Parsed(f)
      cut == Len(lines) < Len(files[f])
  IN  IF lines = <<>> \/ (cut /\ Len(lines) > 1 /\ Len(files[f]) <= ChunkLines)
      THEN None
      ELSE Last(lines)

-----------------------------------------------------------------------------
(* The start and the ingest loop. *)

(* Mutation: a file whose last line cannot be read is passed over. *)
ToBackfillReadable ==
  {f \in Existing : /\ read_last_block_from_file(f) # None
                    /\ read_last_block_from_file(f) >= NextBlock}

(* The files try_backfill_local_blocks scans. *)
ToBackfill ==
  {f \in Existing : \/ read_last_block_from_file(f) = None
                    \/ read_last_block_from_file(f) >= NextBlock}

(* try_backfill_local_blocks, all of it under the lock of the cache. *)
Backfill ==
  /\ ingest = "new"
  /\ LET m == FoldLeft(LAMBDA acc, f :
                  load_scan_result(acc, scan_hour_file(f, 0, NextBlock, TRUE)),
                Local, SetToSortSeq(ToBackfill, <))
     IN  cache' = m.cache /\ ranges' = m.ranges
  /\ ingest' = "wait"
  /\ UNCHANGED <<clock, hlNode, last_local_fetch, dt, last_line, next_height, result, caller>>

(* The loop waits until there is a file, and starts with the latest. *)
IngestStart ==
  /\ ingest = "wait"
  /\ Existing # {}
  /\ dt' = Max(Existing)
  /\ ingest' = "scan"
  /\ UNCHANGED <<clock, hlNode, local, last_local_fetch, last_line, next_height, result, caller>>

(* The file of the hour is read. *)
IngestScan ==
  /\ ingest = "scan"
  /\ dt \in Existing
  /\ LET res == scan_hour_file(dt, last_line, next_height, FALSE)
     IN  /\ result' = [path |-> res.path, new_blocks |-> res.new_blocks,
                       new_block_ranges |-> res.new_block_ranges]
         /\ last_line' = res.last_line
         /\ next_height' = Min({res.next_expected_height, MaxHeight + 1})
  /\ ingest' = "load"
  /\ UNCHANGED <<clock, hlNode, local, last_local_fetch, dt, caller>>

(* Mutation: every iteration goes to the next file. *)
NextFileAlways ==
  /\ ingest' = "scan"
  /\ dt' = dt + 1 /\ last_line' = 0

(* The end of an iteration: the loop goes to the next file when it is time. *)
NextFile ==
  /\ ingest' = "scan"
  /\ IF dt * HourTicks + HourTicks < clock
     THEN dt' = dt + 1 /\ last_line' = 0
     ELSE UNCHANGED <<dt, last_line>>

(* The result of the scan is loaded, once the lock of the cache is free. *)
IngestLoad ==
  /\ ingest = "load"
  /\ LET m == load_scan_result(Local, result)
     IN  cache' = m.cache /\ ranges' = m.ranges
  /\ result' = NoResult
  /\ NextFile
  /\ UNCHANGED <<clock, hlNode, last_local_fetch, next_height, caller>>

(* There is no such file yet. *)
IngestNoFile ==
  /\ ingest = "scan"
  /\ dt \notin Existing
  /\ NextFile
  /\ UNCHANGED <<clock, hlNode, local, last_local_fetch, next_height, result, caller>>

Ingest == Backfill \/ IngestStart \/ IngestScan \/ IngestLoad \/ IngestNoFile

-----------------------------------------------------------------------------
(* collect_block, for each caller. *)

Goto(c, pc) == caller' = [caller EXCEPT ![c].pc = pc]

Return(c) == caller' = [caller EXCEPT ![c] = Idle]

(* The call; the time is sampled before anything else. *)
CollectBlock(c, h) ==
  /\ ingest # "new"
  /\ caller[c].pc = "idle"
  /\ caller' = [caller EXCEPT ![c] = [pc |-> "local", height |-> h, now |-> clock]]
  /\ UNCHANGED <<clock, hlNode, local, last_local_fetch, loop>>

(* Mutation: only the blocks in memory are looked at. *)
TryCollectCachedOnly(c) ==
  /\ caller[c].pc = "local"
  /\ cache' = LruRemove(cache, caller[c].height)
  /\ Goto(c, IF caller[c].height \in ToSet(cache) THEN "found" ELSE "missed")
  /\ UNCHANGED <<clock, hlNode, ranges, last_local_fetch, loop>>

(***************************************************************************)
(* try_collect_local_block, under the lock of the cache: the block, or     *)
(* after the file it is in has been loaded again.                          *)
(***************************************************************************)
TryCollectLocal(c) ==
  /\ caller[c].pc = "local"
  /\ LET h == caller[c].height
         again == /\ h \notin ToSet(cache)
                  /\ ranges[h] # None
         m == IF again THEN load_scan_result(Local, scan_hour_file(ranges[h], 0, 0, FALSE))
              ELSE Local
     IN  /\ cache' = LruRemove(m.cache, h)
         /\ ranges' = m.ranges
         /\ Goto(c, IF h \in ToSet(m.cache) THEN "found" ELSE "missed")
  /\ UNCHANGED <<clock, hlNode, last_local_fetch, loop>>

(* update_last_fetch, under the lock of last_local_fetch. *)
Updated(h, now) ==
  IF last_local_fetch = None \/ last_local_fetch.height < h
  THEN [height |-> h, time |-> now]
  ELSE last_local_fetch

(* The block was found, here or by the fallback. *)
Found(c) ==
  /\ caller[c].pc = "found"
  /\ last_local_fetch' = Updated(caller[c].height, caller[c].now)
  /\ Return(c)
  /\ UNCHANGED <<clock, hlNode, local, loop>>

(* Not found locally: an error while it is too soon, else the fallback. *)
Missed(c) ==
  /\ caller[c].pc = "missed"
  /\ LET more_recent == last_local_fetch.height < caller[c].height
         too_soon == caller[c].now - last_local_fetch.time < Threshold
     IN  IF last_local_fetch # None /\ more_recent /\ too_soon
         THEN Return(c)
         ELSE Goto(c, "fallback")
  /\ UNCHANGED <<clock, hlNode, local, last_local_fetch, loop>>

(* The fallback answers with the block or an error. *)
Fallback(c) ==
  /\ caller[c].pc = "fallback"
  /\ \/ Goto(c, "found")
     \/ Return(c)
  /\ UNCHANGED <<clock, hlNode, local, last_local_fetch, loop>>

Collect(c) == TryCollectLocal(c) \/ Found(c) \/ Missed(c) \/ Fallback(c)

-----------------------------------------------------------------------------
Next ==
  \/ Tick
  \/ \E f \in Hours, h \in Heights : BeginLine(f, h)
  \/ EndLine
  \/ Ingest
  \/ \E c \in Callers, h \in Wanted : CollectBlock(c, h)
  \/ \E c \in Callers : Collect(c)

(* The runtime runs the loop, which wakes up after each interval, and the callers. *)
Fairness == WF_vars(Ingest) /\ \A c \in Callers : WF_vars(Collect(c))

Spec == Init /\ [][Next]_vars /\ Fairness

-----------------------------------------------------------------------------
(* The variables have their types. *)
TypeOK ==
  /\ clock \in 0..MaxClock
  /\ files \in [Hours -> Seq(Heights)] /\ torn \in BOOLEAN
  /\ cache \in Seq(Heights) /\ Len(cache) <= CacheSize
  /\ ranges \in [Heights -> Hours \cup {None}]
  /\ last_local_fetch = None \/ last_local_fetch \in [height : Heights, time : 0..MaxClock]
  /\ ingest \in {"new", "wait", "scan", "load"}
  /\ dt \in Hours /\ last_line \in 0..MaxHeight
  /\ next_height \in 0..MaxHeight + 1
  /\ result.path \in Hours \cup {None}
  /\ \A c \in Callers :
       /\ caller[c].pc \in {"idle", "local", "found", "missed", "fallback"}
       /\ caller[c].height \in Heights \cup {None}
       /\ caller[c].now \in 0..MaxClock \cup {None}

(***************************************************************************)
(* What is recorded is really there: a height in the ranges is on a parsed *)
(* line of the file recorded for it, and a cached block is one that        *)
(* hl-node has completed; a line still being written is never taken for a  *)
(* block.  The reads of a file, the loads of earlier reads and the reloads *)
(* by callers interleave with hl-node's writes.                            *)
(***************************************************************************)
OnlyCompleteBlocks ==
  /\ \A h \in Heights : ranges[h] # None => h \in ToSet(Parsed(ranges[h]))
  /\ \A h \in ToSet(cache) : \E f \in Existing : h \in ToSet(Parsed(f))

(***************************************************************************)
(* No block that the loop passed is forgotten: a line the loop will not    *)
(* read again, because its index is below last_line, has its file in the   *)
(* ranges or is in the result about to be loaded.  Taking a block removes  *)
(* it from the cache and the cache evicts blocks, so only the ranges can   *)
(* bring it back.                                                          *)
(***************************************************************************)
PassedLinesKept ==
  ingest \in {"scan", "load"} =>
    \A i \in 1..last_line :
      i <= Len(files[dt]) =>
        \/ ranges[files[dt][i]] # None
        \/ files[dt][i] \in result.new_block_ranges

(***************************************************************************)
(* After the backfill, every block from next_block_number on that hl-node  *)
(* had completed before can be found locally, also when the last line of a *)
(* file was torn at that moment.                                           *)
(***************************************************************************)
BackfillComplete ==
  [][ingest = "new" /\ ingest' # "new" =>
       \A f \in Existing : \A h \in ToSet(Parsed(f)) :
         h >= NextBlock => ranges'[h] # None]_vars

(***************************************************************************)
(* A block known to be in a local file is served from there: as long as a  *)
(* file has at most CacheSize lines, a caller only goes on to the fallback *)
(* for a height the ranges do not have, although the cache is shared with  *)
(* other callers, who remove blocks, and with the loop.                    *)
(***************************************************************************)
KnownBlocksServedLocally ==
  [][\A c \in Callers :
       caller[c].pc = "local" /\ caller'[c].pc = "missed" =>
         \/ ranges[caller[c].height] = None
         \/ Len(files[ranges[caller[c].height]]) > CacheSize]_vars

(***************************************************************************)
(* Every line of the file being tailed is found in the end: it enters the  *)
(* ranges, unless the loop leaves the file for the next hour's before.     *)
(***************************************************************************)
LinesTailed ==
  \A f \in Hours, h \in Heights :
    (/\ ingest \in {"scan", "load"} /\ dt = f
     /\ files[f] # <<>> /\ h \in ToSet(Parsed(f)))
      ~> (ranges[h] # None \/ dt > f)
=============================================================================
