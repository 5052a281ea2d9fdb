-------------------------- MODULE DataPreparation ---------------------------
(***************************************************************************)
(* The container data-preprocessor: it downloads the dataset, writes it as *)
(* numbered chunks (scripts/data_preprocessor.py) and spreads the rows of  *)
(* the chunks over one file per device                                     *)
(* (scripts/convert_chunks_to_device_csvs.py).  The producer streams the   *)
(* first rows of each file and Spark evaluates models on the others.       *)
(*                                                                         *)
(* A run may break off anywhere and leave on disk what it has written.     *)
(* Rows are numbered in source order; features are left out.               *)
(***************************************************************************)
EXTENDS Integers, FiniteSets, Sequences, Functions

CONSTANTS
    CHUNKS,              \* chunks of the whole dataset
    CHUNK_ROWS,          \* CHUNK_SIZE
    NUM_DEVICES,
    FLUSH_EVERY_CHUNKS,
    STREAM_ROWS          \* STREAM_ROWS_PER_DEVICE

ASSUME PreparationAssumption ==
    /\ {CHUNKS, CHUNK_ROWS, NUM_DEVICES, FLUSH_EVERY_CHUNKS} \subseteq Nat \ {0}
    /\ STREAM_ROWS \in Nat

VARIABLES
    raw,         \* chunks' worth of rows in data/raw; 0 if there is no file
    xChunks,     \* numbers of the files X_chunk_*
    yChunks,     \* numbers of the files y_chunk_*
    files,       \* the existing device files: sequences of readings
    step,        \* where the container is, "idle" if none runs
    chunk,       \* the chunk it is at
    row,         \* the row of it that is spread next
    assignment,  \* the device of each row
    buffers,     \* rows of each device not yet appended to its file
    written,     \* rows of each device appended
    next,        \* the device whose file is shuffled next
    result       \* how the last run ended

disk == <<raw, xChunks, yChunks, files>>
converter == <<chunk, row, assignment, buffers, written, next>>
dataVars == <<disk, step, converter, result>>

Devices == 0 .. NUM_DEVICES - 1
Rows == 1 .. CHUNKS * CHUNK_ROWS
RowsOf(c) == (c - 1) * CHUNK_ROWS + 1 .. c * CHUNK_ROWS

(* A reading is a row with a timestamp, in seconds from DEVICE_CSV_START.  *)
Stamped(rows, start) == [k \in DOMAIN rows |-> [row |-> rows[k], time |-> start + k - 1]]

NoBuffers == [dev \in Devices |-> <<>>]

DataTypeOK ==
    /\ raw \in 0 .. CHUNKS
    /\ xChunks \subseteq 1 .. CHUNKS /\ yChunks \subseteq 1 .. CHUNKS
    /\ DOMAIN files \subseteq Devices
    /\ \A dev \in DOMAIN files : files[dev] \in Seq([row : Rows, time : Nat])
    /\ step \in {"idle", "download", "clean", "x", "y", "assign", "load", "flush", "shuffle"}
    /\ chunk \in 1 .. CHUNKS /\ row \in 1 .. CHUNK_ROWS
    /\ DOMAIN assignment \subseteq Rows
    /\ buffers \in [Devices -> Seq(Rows)]
    /\ written \in [Devices -> 0 .. CHUNKS * CHUNK_ROWS]
    /\ next \in Devices
    /\ result \in {"none", "completed", "failed"}

DataInit ==
    /\ raw = 0 /\ xChunks = {} /\ yChunks = {}
    /\ files = <<>>
    /\ step = "idle"
    /\ chunk = 1 /\ row = 1 /\ assignment = <<>> /\ buffers = NoBuffers
    /\ written = [dev \in Devices |-> 0] /\ next = 0
    /\ result = "none"

-----------------------------------------------------------------------------
(* The first process: data_preprocessor.py.                                *)

(* The container starts; a file in data/raw is taken as it is.             *)
RunContainer ==
    /\ step = "idle"
    /\ step' = IF raw > 0 THEN "clean" ELSE "download"
    /\ result' = "none"
    /\ UNCHANGED <<disk, converter>>

Download ==
    /\ step = "download"
    /\ raw' = CHUNKS
    /\ step' = "clean"
    /\ UNCHANGED <<xChunks, yChunks, files, converter, result>>

RemoveStaleChunks ==
    /\ step = "clean"
    /\ xChunks' = {} /\ yChunks' = {}
    /\ step' = "x"
    /\ UNCHANGED <<raw, files, converter, result>>

SaveX ==
    /\ step = "x"
    /\ xChunks' = xChunks \cup {chunk}
    /\ step' = "y"
    /\ UNCHANGED <<raw, yChunks, files, converter, result>>

(* After the last chunk the second process follows.                        *)
SaveY ==
    /\ step = "y"
    /\ yChunks' = yChunks \cup {chunk}
    /\ IF chunk < raw
       THEN step' = "x" /\ chunk' = chunk + 1
       ELSE step' = "assign" /\ chunk' = 1
    /\ UNCHANGED <<raw, xChunks, files, row, assignment, buffers, written, next, result>>

-----------------------------------------------------------------------------
(* The second process: convert_chunks_to_device_csvs.py.                   *)

Paired == xChunks \cap yChunks

(* find_chunk_pairs, in numeric order: a chunk without labels is skipped.  *)
Pairs == [k \in 1 .. Cardinality(Paired) |->
             CHOOSE c \in Paired : Cardinality({e \in Paired : e <= c}) = k]

TotalSamples == Len(Pairs) * CHUNK_ROWS

(* arange(total) % num_devices, shuffled: the k-th row loaded goes to the  *)
(* device at k.                                                            *)
Balanced ==
    {a \in [1 .. TotalSamples -> Devices] :
        \A dev \in Devices :
            Cardinality({k \in 1 .. TotalSamples : a[k] = dev})
              = Cardinality({k \in 1 .. TotalSamples : (k - 1) % NUM_DEVICES = dev})}

(* A slip of StaleRemoved: files of an earlier run are appended to.        *)
StaleRemovedNot == files

StaleRemoved == <<>>

Assign ==
    /\ step = "assign"
    /\ assignment' \in Balanced
    /\ files' = StaleRemoved
    /\ step' = "load"
    /\ UNCHANGED <<raw, xChunks, yChunks, chunk, row, buffers, written, next, result>>

Offset == (chunk - 1) * CHUNK_ROWS

RowAt(k) == (Pairs[chunk] - 1) * CHUNK_ROWS + k

(* The rows of a chunk go to the buffers of their devices, in order.       *)
SpreadRow ==
    /\ step = "load"
    /\ buffers' = [buffers EXCEPT ![assignment[Offset + row]] = Append(@, RowAt(row))]
    /\ IF row < CHUNK_ROWS
       THEN row' = row + 1 /\ UNCHANGED <<step, chunk>>
       ELSE row' = 1 /\ IF chunk % FLUSH_EVERY_CHUNKS = 0 \/ chunk = Len(Pairs)
                        THEN step' = "flush" /\ UNCHANGED chunk
                        ELSE step' = "load" /\ chunk' = chunk + 1
    /\ UNCHANGED <<disk, assignment, written, next, result>>

Existing(dev) == IF dev \in DOMAIN files THEN files[dev] ELSE <<>>

WithFile(dev, readings) == [d \in DOMAIN files \cup {dev} |-> IF d = dev THEN readings ELSE files[d]]

Appended(dev) == Existing(dev) \o Stamped(buffers[dev], written[dev])

FlushDevice(dev) ==
    /\ step = "flush"
    /\ buffers[dev] # <<>>
    /\ files' = WithFile(dev, Appended(dev))
    /\ written' = [written EXCEPT ![dev] = @ + Len(buffers[dev])]
    /\ buffers' = [buffers EXCEPT ![dev] = <<>>]
    /\ UNCHANGED <<raw, xChunks, yChunks, step, chunk, row, assignment, next, result>>

Flushed ==
    /\ step = "flush"
    /\ buffers = NoBuffers
    /\ IF chunk < Len(Pairs)
       THEN step' = "load" /\ chunk' = chunk + 1
       ELSE step' = "shuffle" /\ UNCHANGED chunk
    /\ UNCHANGED <<disk, row, assignment, buffers, written, next, result>>

(* A slip of Shuffled: the rows keep the timestamps they had.              *)
ShuffledWithTimes(dev) ==
    {[k \in DOMAIN files[dev] |-> files[dev][p[k]]] :
        p \in {q \in [DOMAIN files[dev] -> DOMAIN files[dev]] : IsInjective(q)}}

Shuffled(dev) ==
    {Stamped([k \in DOMAIN files[dev] |-> files[dev][p[k]].row], 0) :
        p \in {q \in [DOMAIN files[dev] -> DOMAIN files[dev]] : IsInjective(q)}}

(* The process forgets its assignment and counters when it ends.           *)
Ends(outcome) ==
    /\ step' = "idle"
    /\ result' = outcome
    /\ chunk' = 1 /\ row' = 1 /\ assignment' = <<>> /\ buffers' = NoBuffers
    /\ written' = [dev \in Devices |-> 0] /\ next' = 0

AfterShuffle ==
    IF next < NUM_DEVICES - 1
    THEN /\ next' = next + 1
         /\ UNCHANGED <<step, result, chunk, row, assignment, buffers, written>>
    ELSE Ends("completed")

ShuffleDevice ==
    /\ step = "shuffle"
    /\ next \in DOMAIN files
    /\ \E readings \in Shuffled(next) : files' = WithFile(next, readings)
    /\ AfterShuffle
    /\ UNCHANGED <<raw, xChunks, yChunks>>

NoFileToShuffle ==
    /\ step = "shuffle"
    /\ next \notin DOMAIN files
    /\ AfterShuffle
    /\ UNCHANGED disk

-----------------------------------------------------------------------------
(* Breaking off: an exception, a full disk, a container that is stopped.   *)

BreaksOff ==
    /\ step # "idle"
    /\ Ends("failed")
    /\ UNCHANGED disk

(* Unpacking the archive leaves the front of the file.                     *)
DownloadBreaks ==
    /\ step = "download"
    /\ raw' \in 1 .. CHUNKS
    /\ Ends("failed")
    /\ UNCHANGED <<xChunks, yChunks, files>>

CleaningBreaks ==
    /\ step = "clean"
    /\ xChunks' \in SUBSET xChunks
    /\ yChunks' \in IF xChunks' = {} THEN SUBSET yChunks ELSE {yChunks}
    /\ Ends("failed")
    /\ UNCHANGED <<raw, files>>

RemovingBreaks ==
    /\ step = "assign"
    /\ \E kept \in SUBSET DOMAIN files : files' = [dev \in kept |-> files[dev]]
    /\ Ends("failed")
    /\ UNCHANGED <<raw, xChunks, yChunks>>

(* An append leaves the front of what was to be appended.                  *)
FlushBreaks(dev) ==
    /\ step = "flush"
    /\ \E n \in 1 .. Len(buffers[dev]) - 1 :
          files' = WithFile(dev, SubSeq(Appended(dev), 1, Len(Existing(dev)) + n))
    /\ Ends("failed")
    /\ UNCHANGED <<raw, xChunks, yChunks>>

(* The file is rewritten in place and is left with the front of the new    *)
(* content.                                                                *)
ShuffleBreaks ==
    /\ step = "shuffle"
    /\ next \in DOMAIN files
    /\ \E readings \in Shuffled(next), n \in 0 .. Len(files[next]) - 1 :
          files' = WithFile(next, SubSeq(readings, 1, n))
    /\ Ends("failed")
    /\ UNCHANGED <<raw, xChunks, yChunks>>

ContainerStep ==
    \/ Download \/ RemoveStaleChunks \/ SaveX \/ SaveY
    \/ Assign \/ SpreadRow \/ Flushed \/ ShuffleDevice \/ NoFileToShuffle
    \/ \E dev \in Devices : FlushDevice(dev) \/ FlushBreaks(dev)
    \/ BreaksOff \/ DownloadBreaks \/ CleaningBreaks \/ RemovingBreaks \/ ShuffleBreaks

DataNext == RunContainer \/ ContainerStep

DataSpec == DataInit /\ [][DataNext]_dataVars

-----------------------------------------------------------------------------
(* The readers of the device files.                                        *)

(* One pass of the producer over the devices: a reading of each in turn,   *)
(* and no more than STREAM_ROWS of one (device_streams).                   *)
Streamed(dev) == {files[dev][k] : k \in 1 .. IF Len(files[dev]) < STREAM_ROWS
                                              THEN Len(files[dev]) ELSE STREAM_ROWS}

(* The rows Spark evaluates models on.                                     *)
HeldOut(dev) == {r \in Range(files[dev]) : r.time >= STREAM_ROWS}

-----------------------------------------------------------------------------
(* Properties.                                                             *)

(* The producer goes by position and Spark by timestamp, but whatever is   *)
(* on disk, at any moment of a conversion and after any run that broke     *)
(* off, no reading is both streamed and held out and none is neither.      *)
HeldOutNeverStreamed ==
    \A dev \in DOMAIN files :
        /\ Streamed(dev) \cap HeldOut(dev) = {}
        /\ Streamed(dev) \cup HeldOut(dev) = Range(files[dev])

Holding(dev, r) == {k \in DOMAIN Existing(dev) : Existing(dev)[k].row = r}

(* After a run that completed, whatever runs before it left on disk, every *)
(* row of the source is in one device file, once, and the devices have the *)
(* same number of rows, give or take one.                                  *)
CompletedRunIsWhole ==
    result = "completed" =>
        /\ \A r \in 1 .. raw * CHUNK_ROWS :
              Cardinality({place \in Devices \X (1 .. CHUNKS * CHUNK_ROWS) :
                              place[2] \in Holding(place[1], r)}) = 1
        /\ \A d, e \in Devices : Len(Existing(d)) - Len(Existing(e)) \in -1 .. 1

=============================================================================
