# A verification of vhdx-rs

TLA+ models of the VHDX library in this repository (`src/src`), the TLC runs that check them on
small instances, and theorems proved with TLAPS. `PROJECT.json` is the index: components, runs,
mutants, the map from definitions to source lines, findings, hazards and theorems.

## 1. The system

The crate opens, creates, reads, writes and validates VHDX files. It is a library without threads
of its own: an operation is a call on a `Medium`, `&mut` for writes, `&` for section views (these
may be shared by several threads). What is hard is that the state outlives the calls: an error, a
process that dies or a power loss leaves a file from which the next open starts, and that file may
also come from another implementation, with a log to replay.

| Component (source) | State | Operations | Its correctness |
|---|---|---|---|
| Sector write path (`io/write.rs`) | the file: length, payload blocks, sector bitmaps, BAT | `write_at`, `write_full_sectors`, `reserve_block`, `publish_*`, `mark_child_sectors_present` | A request changes its bytes only; blocks never overlap; what the BAT names is in the file, after a power loss too |
| Sector read path (`io/core.rs`) | position, cached parent medium | `IO::new`, `sector`, `read`, `seek`, `read_at`, `read_full_sectors`, `read_partially_present_range`, `read_from_parent_sector` | Returns what was written, the parent's content or zeros; through the replay overlay where there is one |
| Block allocation table (`bat.rs`) | entries | index and state of an entry | Payload and bitmap entries never share a place |
| Creation (`medium/create.rs`) | the new file | `validate`, `finish`: headers, region tables, length, BAT, metadata | The reader finds what the creator allocated; a half created file does not pass for another disk |
| Header section (`header/core.rs`) | two headers, two region tables | choice of the current one | There is always a current header |
| Opening (`medium/open.rs`, `medium/policies.rs`) | the medium being opened | checks, replay policy, header update | A refused open changes nothing; a log is replayed before I/O |
| Log parsing (`log/core.rs`), active sequence (`log_replay/core.rs`) | ring of entries | `detect_active_sequence` | Finds the newest complete sequence, and ends |
| Replay and overlay (`log_replay/core.rs`) | file, or sectors and zero regions in memory | `replay_to_file`, `build_replay_overlay`, `read`, `apply_to_region` | Idempotent, complete, durable; the overlay shows the same |
| Medium and caches (`medium/core.rs`) | five cached buffers, a generation number, a mutex | `*_buf`, `write_bat_entry`, `get_mut`, `get_ref`, `validator` | A cached buffer is the file's content; every reader comes to its end |
| Metadata (`metadata/core.rs`) | none | items, parameters, parent locator | What was written is found |
| Validator (`validation/*.rs`) | none (a buffer) | `validate_*` | Accepts what the library writes, and nothing that it cannot open |
| Section views (`section.rs`), GPT adapter (`gpt.rs`), errors, command line (`vhdx-cli`) | none that outlives a call | parsing, presentation | not modelled |

How they interact. `finish` of an open reads the header section, checks region table and metadata,
loads the log, has `log_replay` detect and replay (writable) or overlay (read-only) the active
sequence, and updates the noncurrent header (writable). Sector I/O looks a block's entry up in the
cached BAT, reads or writes the payload area and, for a differencing disk, the sector bitmaps; a
write ends in `Medium::write_bat_entry`, which writes the file and patches the cache. Reads of the
BAT and metadata regions go through the overlay as whole regions, reads of payload blocks range by
range. A parent medium is asked for sectors the child does not hold.

The behaviours that are hard to test, each at its line, are the `hazards` of `PROJECT.json`.

## 2. The modules

| Module | Models | State | Actions |
|---|---|---|---|
| `VirtualDisk`, `VirtualDiskProofs` | what I/O promises: an array of sectors, or of bytes, one request at a time | content, past values, request, answer | begin, apply a part, succeed, abort, power loss |
| `BlockWrite`, `BlockWriteProofs` | `write_full_sectors` with its calls, the sector reads, an open file on a disk that loses unsynced writes | the file as read now and as a power loss may leave it, the write in progress | one per system call of a round, failure and power loss at each |
| `ByteIO`, `MCByteIO`, `ByteIOProofs` | the `Sector` cursor over `BlockWrite`: reads, seeks, byte writes, the parent | cursor, parent, write in progress, last answer | open and drop a range, seek, read, begin and end a write |
| `HeaderSection` | which of two headers is current | none (an operator) | |
| `FileFormat` | what a file says of itself, and who reads it: header section, metadata, parent locator, the checks of an open, the start of I/O | none (operators on a file) | |
| `Validator` | the rules of `SpecValidator` | none (operators on a file) | |
| `BatLayout`, `MCBatLayout` | index arithmetic of reader and creator, the loop that fills a fixed disk's BAT | loop counters, entries | write a bitmap entry, write a payload entry |
| `CreateFile`, `MCCreateFile`; `CreateFileProofs`, of both | creation over `BatLayout`; opening, reading and validating the result | options, pieces in the file | one per piece, failure and power loss after each, one field gone wrong |
| `HeaderPair`, `HeaderPairProofs` | the two headers and the writable header update | both headers, now and durable; the open in progress | read, leave, write, sync, failed sync, close, power loss |
| `Medium`, `MCMedium`, `MediumProofs` | an open medium over `HeaderPair`: caches, generations, threads | file, caches, mutex, threads | ask, look, lock, load, store, answer; structured writes, direct access, validator |
| `LogDetect` | `detect_active_sequence`, after a log writer stopped anywhere | the ring, the writer, the scan's locals | append (whole or half), extend, stop, judge |
| `LogValidate`; `LogDetectProofs`, of both | `validate_log` over the rings of `LogDetect` | damaged headers, an untouched log, the iterator, the verdict | those of `LogDetect`; take the next entry, answer |
| `LogReplay`, `MCLogReplay`, `LogReplayProofs` | open policies, replay, overlay, reads through it | file, length, medium, log | opens, one descriptor, set length, header, write, close, power loss |

Which extends which:

    VirtualDisk   <- (refined by)  BlockWrite <- (extended by) ByteIO
    HeaderSection <- FileFormat <- BatLayout, Validator <- CreateFile
    HeaderSection <- HeaderPair <- Medium
    LogDetect     <- LogValidate

`BlockWrite` refines `VirtualDisk` (`IsVirtualDisk`: content is what `ReadSector` returns, the
request is the one in progress, `answer` what the call returned). `ByteIO` refines it a second time,
as an array of bytes (`IsByteDisk`). Both are proved (`WritePathIsVirtualDisk`, `BytesAreVirtualDisk`). `Medium` implements `HeaderPair` (`MediumIsHeaderPair`, proved).

### BlockWrite

`w` is the local state of `write_full_sectors`: `pc` names the next call, `blk`, `kind` and `off`
are the round's block, its arm of the `match` and where its data goes. One round is

    fresh:  reserve, write, sync, publish
    child:  reserve, write, sync, [reserve bitmap, sync, publish bitmap,] mark, sync, publish
    part:   write, sync, mark, sync
    full:   write

Each part of the file has two variables: what a read returns, and what may be found after a power
loss. Writing adds to the second, `sync_data` makes it the first, `Crash` picks from it. `Fail` is
an error of the call at hand, or the end of the process in it; data and bitmap writes may be half
done by then. A BAT entry is eight aligned bytes and never half written. A file is opened
in any layout that passes `validate_bat` and has no overlaps: gaps, trailing bytes and an end in
the middle of a MiB included (`Init`).

Abstracted: a sector is one of a few values; the bits of a bitmap are the set of the
sectors present; `FileOffsetMB` is a number up to `MaxOffset`, at which the disk is full; the parent
is one value. The reading side is a function of the state, so one read sees one state. That is what
`&mut self` gives the code.

### ByteIO

A sector of `BlockWrite` becomes a function on its bytes. `view` is the `Sector`: its range and its
position. `StartWrite` is `write_at` up to its call of `write_full_sectors`: where the request is
not whole sectors, it reads the sectors around it (`Temp`, from the child or the parent), patches them
(`Patched`) and hands all of them to `Begin`; the steps after that are `BlockWrite`'s, and the position moves only
when all was written. `parent` is `parent_medium`: it is asked for at the first sector the child does
not hold, and `Answers` are what the resolver may say: nothing, the parent, a parent whose last sector is missing, a
medium of another identity (readable, each sector of it would be `Stranger`) or one of another sector size.
`Resolved` refuses the last two: they are not kept, and the resolver is asked again at the next call. A call that
fails leaves the cursor alone; `got` records the failure and where the cursor was.
The last block of the disk is cut in the run. Power losses and failures are `BlockWrite`'s subject and
are switched off here (`MayFail`, `MayCrash`).

### FileFormat, Validator, CreateFile

A file is a record: the signature, two headers, two region tables, the metadata table with its items,
the BAT, and the length. `Opens` is the conjunction of the checks of both `finish` functions for a file
whose log holds no entry, `IoStarts` and `IoParams` what `IO::new` makes of the metadata, `Accepts` the
validator's rules. The numbers of the format are constants (`FileFormat`'s first definitions give the real ones in
parentheses; the runs have small ones): half a MiB is the unit of file offsets, so that some are misaligned; metadata is in bytes.

`CreateFile` writes the pieces in the order of `finish`; `FillBat` is the loop of `BatLayout`. There is one sync, at
the end, so `PowerLoss` keeps any set of the pieces written; for the BAT it keeps all entries, none, one, or all
but one (`KeptEntries`). `GoWrong` replaces one field of a finished file by another value: these are the
files on which validator and open are compared. `BlindSpot` lists, one disjunct each, what the validator lets pass though no I/O
can start from it: no metadata region, a block or sector size of zero; `ValidatedOpens` says that there is nothing else.
The medium is empty when creation begins.

### HeaderPair

A header is valid or not, has a sequence number and the rest (log GUID, log extent, versions, data
GUID). `durable` is history: the newest header a successful sync guaranteed. `trouble` is the kind of
trouble of a behaviour: with "tear" a power loss may leave a header half written, with "fail" an open
may end between write and sync without a power loss. Both together can lose the last header (open, die
before the sync, open again, lose power), so each behaviour has one kind; hazard `medium/open.rs:300`
records it.

### Medium

Each of the four caches holds bytes and the generation they were read in. A thread that wants a region
looks at the cache under its read lock (`Look`), needs the header section first, then takes the mutex of
the underlying medium (`Lock`), reads (`Load`), and stores under the cache's write lock, where what another
thread stored first wins (`Store`). `WriteEntry`, `GetMut` and `BuildValidator` take `&mut self` or run to their end
undisturbed, so they are single steps that need all threads idle; `WriteEntryFails` is an error in the
file write. Nothing is cached of the log (its buffer works as the metadata's). A poisoned lock, and a
medium with an overlay, are left out.

### BatLayout

`PayloadIndex` and `BitmapIndex` are the reader's formulas, `Total` and `Capacity` the creator's, and
the state machine is the loop of `write_bat_entries`. Entries point to places by number. `PayloadIndex`, `BitmapIndex` and `IsBitmapIndex` are
also what `BlockWrite` abstracts when it keeps payload and bitmap entries apart.

### LogDetect

The crate never writes a log, so the writer is external: it appends entries with consecutive numbers to
the ring, says in each which is the oldest entry still needed, never overwrites a needed one, and
stops anywhere, in the middle of an entry too: any of the steps of that entry may then be overwritten. What it leaves is every ring the crate may meet from such a
writer. `Extend`, `StopExtending` and `Judge` are the body of the scan's loop; an
entry stands for what `try_validate_entry` accepts (signature, checksum, GUID, descriptors).

### LogValidate

`validate_log` walks the ring from its start by the lengths of the entries (`NextEntry`: `at` is where `LogEntryIter`
stands, `walked` what it has found), where the scan looks at every step; then it answers (`Answer`, `verdict`). It also meets headers whose entry is damaged (`torn`), which the scan does not accept, so the module keeps them
beside the ring, and whether anything was ever written (`blank`). `Errs` is that the validator returns an
error, `ReplayRequired` that it returns the issue of that name. The header's log GUID is set and is the
entries'. Once the log was written to, the validator therefore either errs or asks for a replay; the properties say
that this verdict and the scan's go together.

### LogReplay

Opens with each policy, the replay one descriptor at a time, `set_len`, the header update with the
only sync of an open, reading through the overlay, and writes through the medium in between. The
active sequence is given; `LogDetect` finds it. The file counts pages of 4 KB. A page write is atomic here: a torn
page is always one that the next replay writes again. An overlay read returns a page of data or what
is left of a zero region, as `ReplayOverlay::read` does.

## 3. The runs

Passing runs:

| Run | Bounds | Why they are enough |
|---|---|---|
| `BlockWriteFlat` | 2 blocks of 2 sectors, 2 MiB each, at most one chunk, files of 3 and 8 units | requests within, at the edge of and across blocks; allocation into a file with an odd end; a full disk |
| `BlockWriteDiff` | 2 blocks of one sector, one chunk, failures and power losses | two blocks that share a bitmap; a bitmap reserved between payload blocks; an end that is no multiple of the block size |
| `ByteIO` | 2 blocks of 2 sectors of 2 bytes, 3 sectors on the disk, buffers of 1 and 3 bytes, two ranges | requests that begin and end inside sectors, span two blocks and reach the cut end; every arm of the write is reached from an empty child, bitmap and all |
| `CreateFile` | disks of 1 to 20 sectors, blocks of 1 and 2 MiB, both sector sizes, 4 entries per MiB; options out of every bound | one block to several chunks; fixed, dynamic, differencing; every piece cut off; each field gone wrong in turn |
| `Medium` | 2 threads, one after the header section, BAT and metadata, the other after the BAT; 2 entries, 2 values, generations to 2, two header updates | two threads in each other's way on one cache; a write, another and a direct access in any order |
| `LogValidate` | ring of 5 steps, entries of 1 to 3, 7 entries | several rounds of the ring, partial overwrites, half-written entries, damaged headers at the start of the ring and behind it |
| `LogReplay` | 3 pages, up to 3 descriptors, three lengths | overlapping descriptors, replays that die after each and inside one, power losses |

The bounds in the modules: `MaxOffset` (file offsets), `MaxSeq` (header and log sequence numbers),
`FirstSeqs` (the newest header when `Medium` begins), `MaxGen` (generations), `Failing` (entries whose write
may fail, one of them per medium), `KeptEntries` (entries after a power loss in a creation).
Only differences of sequence numbers and equality of generations matter to the code, so small bounds lose nothing but
the overflow of a number of 64 bits, which is a hazard of its own.

What they show:

- `BlockWriteFlat`: a disk without a parent implements `VirtualDisk` through errors and power losses.
- `BlockWriteDiff`: `LayoutSafe`, `DurableInFile` and `ValidatorAccepts` at every step, and their
  inductive strengthening.
- `ByteIO`: a differencing disk implements `VirtualDisk`, of sectors and of bytes, where nothing fails (`BlockWriteStaleBits`
  shows why not otherwise); a read returns what
  stands where the cursor was whatever the resolver answered, now or before, and a read or write that fails leaves the cursor there.
- `CreateFile`: a created file opens, has what was asked for and leads to its parent; what a failed creation
  leaves is refused or is that disk; what the validator accepts opens, and I/O starts outside the blind spots; the BAT region
  holds every entry that is looked up (that of a last chunk in part excepted, see below); each block of a fixed
  disk has one place, and creator and reader agree on the first chunk.
- `Medium`: a current header always survives, and its sequence number grows; the caches agree with the
  file; a thread is given the right bytes whoever wins a race; every read ends.
- `LogValidate`: what is replayed is complete; the newest entry is found when the needed ones stand in one
  piece; the scan ends. A log the validator accepts without an issue has nothing to replay; entries it wants
  replayed are replayed, or newer ones; it has no complaint about a log in its first round.
- `LogReplay`: interrupted replays complete; the overlay shows the BAT and metadata regions as
  the replay would, for logs that zero no page after giving it data (`DataLogs`).

`CHECK_DEADLOCK FALSE` is set for `CreateFile`, `BatLayoutFixed`, `LogValidate` and `LogDetectWrapped`, whose behaviours end.

Fairness is assumed twice. `FairSpec` of `LogDetect` and `ValidateSpec` of `LogValidate` have weak fairness of the scan's own steps, since the
scan is one loop of one call and nothing it waits for. `MediumFairness` has weak fairness of each thread's
steps, as a scheduler runs every thread that can run, and strong fairness of taking the mutex: others take and
free it again and again, and a thread that waits for it gets it some time. (`std::sync::Mutex` does not promise that of
one acquisition; the property is that nothing but bad luck without end keeps a reader waiting.) The
other properties are safety.

Runs that show a disagreement between the code and what the repository says of it (the findings of
`PROJECT.json` quote both sides):

| Run | What happens |
|---|---|
| `BlockWriteStaleBits` | after a failed write to a differencing disk a neighbouring sector reads as zeros instead of the parent's |
| `BatLayoutFixed` | in a fixed disk of more than one chunk (over 4 GiB with 32 MiB blocks and 512-byte sectors) blocks are found in the wrong place |
| `LogDetectWrapped` | an active sequence that runs over the end of the ring is not found |
| `LogReplayTwice` | every writable open replays the same log again, over later writes |
| `LogReplayOverlay` | with an overlay, blocks the log does not touch read as zeros |

Other disagreements met while modelling, which no run of their own shows:

- The trace of `LogReplayOverlay` is that of `io/core.rs:437`, and TLC stops there. `OverlayView` also fails where the log does hold the page: a block read asks the overlay for its first
  offset only (`io/core.rs:430`), so a page behind the first one is not replaced, and a result shorter
  than the range leaves the rest of the buffer as it was; and a sector bitmap is read past the overlay
  (`io/core.rs:484`).
- `RegionView` fails for a log that writes a page and zeroes it later: the overlay lets data win over
  zeros whatever their order (`log_replay/core.rs:199`), the replay does not. The run leaves such logs out, and
  the theorem assumes there are none.
- `replay_to_file` cuts a file that is longer than `LastFileOffset` (`log_replay/core.rs:670`), where its
  documentation says that it extends the file to at least that length (`:562`). `ReplayComplete` speaks of the pages below
  `LastFileOffset` only, and holds although the file was cut.
- A read-only open accepts a file shorter than `FlushedFileOffset` (`medium/open.rs:402`), which "must not
  be opened" (`log_replay/core.rs:51`).
- The sector bitmap entry of a differencing disk's last chunk in part may lie beyond the BAT region
  (`medium/create.rs:286`): 124 to 127.97 GiB with blocks of 1 MiB and sectors of 512 bytes. The first
  write to that chunk then fails.
- The BAT of a dynamic disk is left to `set_len`, which a comment says zeroes the region (`medium/create.rs:374`); on
  a medium that is not empty it does not. `CreateFile` begins with an empty one.
- The validator has no complaint about a file without a metadata region or with a block or sector size of zero
  (`BlindSpot` of `CreateFile`), which opens and then fails at the start of I/O; nor about one without a BAT region, which
  fails at the first sector.
- The validator refuses a log that an open replays: it walks the ring from its start (`validation/log.rs:20`), so it
  errs where no entry begins there, where the writer came round (the numbers do not follow on, `:203`), and where
  an entry was damaged in a crash, though the scan passes over it. `FirstLapAccepted` says when it does not.
- The validator accepts entries without a log GUID (`validation/log.rs:179`), which the scan refuses.
- `create --force` removes the old image before the options of the new one are checked (`vhdx-cli/src/main.rs:263`).

## 4. The proofs

For every value of the constants that the named assumptions of the modules allow.

**BlockWrite** (`Invariance`). `LayoutSafe` alone is not inductive: a power loss brings back BAT
entries and lengths of the past, so the claims on the file must range over all *durable candidates*
(`DiskClaims`) and the reserved blocks of the write in progress. `Inv` adds that what is read now is one
of the candidates (`CurrentMayLast`), that every candidate length covers the fixed regions
(`LengthsCoverRegions`), that a reservation beyond its sync lies within every candidate length
(`ReservationsSynced`), and what each `pc` may rely on (`RoundOK`). Steps fall in four groups: those
that leave lengths and entries alone (`SameFile`), syncs, which only narrow the candidates (`Synced`),
reservations, which add a claim at or after the end of the file (`LayoutGrows`), and publications, which turn a
reservation into a candidate entry (`PublishOK`, `PublishBitmapOK`). `LayoutSafety`, `DurableLayout`
and `ValidatorAcceptance` are its consequences.

**BlockWrite implements VirtualDisk** (`WritePathIsVirtualDisk`, in `VirtualDiskProofs`). What a file shows of a sector
is a function of BAT, bitmap entries, bitmaps and data (`Shown`), so each step is judged by the sectors whose value it changes (`Shows`): writing
data into a block already present, setting bits, and publishing a block show a part of the request; all other steps of a
round show nothing new; `Fail` shows a part and aborts, `Return` succeeds, since by then every block's round has
ended (`Done`), `Crash` is a power loss. That a step shows no more than that needs `DiskInv`, beside `Inv`: the
round's block is in the state in which it was found (`RoundKnown`); no candidate entry names the place of a reserved block
(`Unclaimed`, from `Inv`'s layout); that place holds zeros, then the data, synced before it is published (`BlockHolds`); bits
are set only for blocks that are partially present or are about to be (`Marked`), so that publishing a block shows the
parent in all its other sectors; and what a power loss may leave of a sector is a value it had or was given
(`Held`, `Lasts`). On a differencing disk the hypothesis is that no call fails but for a full disk and the power
stays: a write that fails after setting its bits leaves bits of a block that is not present, and `Marked` breaks;
`BlockWriteStaleBits` shows that the theorem is then false. `NothingForeign` is a consequence: as each step shows only old
values or the request's (`past`), it takes a failed write to a differencing disk to break `NoForeignData`. Without a parent, errors and power losses are in.

**ByteIO** (`ByteInvariance`). The lemmas up to `AffectedPlaces` are the arithmetic of positions: the bytes of a transfer
lie in the sectors affected, each at the place `Temp` has it (`WindowByte`). `ReadsAreRight` follows, since nothing
changes the disk while the answer stands and no medium but the parent is ever kept (`ParentOK`); it holds of failed
calls too, after which the cursor is where it was. For writes, `CarryOK` says of each byte of the sectors handed to
`write_full_sectors` that it is one of the bytes written or what the disk shows there *now*; so whichever of the sectors a
step shows, an error or an unfinished request included, no other byte changes (`PartOfWrite`). The sectors may hold any bytes:
`ByteWritesAreSectorWrites` is `WritePathIsVirtualDisk` again, for requests that are not one value throughout. `ByteConstants` says
that a sector is any function on its bytes, and that the disk is no longer than its blocks. Here too the hypothesis is
that no call fails on a differencing disk; there are no power losses in `ByteSpec`.

**HeaderPair** (`HeaderInvariance`). Two valid headers with equal numbers would leave no current one, so
the invariant has parities: what may be found in the durable header's place is an even number of
updates ahead of it, and in the other place an odd one. `CurrentHeaderSurvives`, `DurableSequenceGrows`
and `CacheIsTheFile` follow.

**Medium** (`CachesInvariance`). First, every step of a medium with caches and threads is a step of
`HeaderPair` or leaves the headers alone (`MediumIsHeaderPair`), so that all that is proved there holds here;
in particular the header section cached by an open is the file's. The invariant is that of whatever is cached,
of whichever generation, and of whatever a thread has read and not yet given away, every byte is right
(`Right`), entries whose last write ended in an error excepted. `write_bat_entry` would break the narrower claim about
the current generation alone, since it gives the cached BAT the new generation without looking at the old one.
`CachesCoherent` and `AnswersAreCurrent` follow.

**BatLayout** (in `CreateFileProofs`). Arithmetic of entry indexes by Euclidean division (`PayloadIsNoBitmap`,
`BitmapAfterItsChunk`, `PayloadIndexUnique`), `RegionLargeEnough` from the same arithmetic, `FirstChunkRight` by an
invariant of the loop over the first chunk, and `PlacesGivenOnce` by counting: after each step the places below
`PayloadsWritten` are each named by one entry, and no others are; bitmap entries never outnumber
`BitmapCount`, so at the end that is all blocks. The loop also stands inside a creation; `LayoutInCreation` is the same
of `CreateSpec`, in which the table may stop anywhere and a power loss may take entries back.

**CreateFile** (`CreateInvariance`). The theorems hold for all sets of options and for every scale `FormatConstants` allows,
the numbers of the format included: nothing is assumed of a disk but that `validate` lets its options pass. `CreateInv`
says which pieces stand in the file at each `pc` (`PiecesAt`: they are written in one order, though a power loss
may keep any of them), and what each entry of the table is: the loop sets all bitmap entries one after the other behind the
first chunk, so the entry at k names place k before them and `k - BitmapCount` after them (`EntryPlaces`); unlike the count of
the places given, that also holds of the entries a power loss kept. From there on the proof reads the file.

- `HalfCreatedIsHonest`: an open that gets as far as the parameters of I/O has found headers and region table, the metadata in the file's
  length, and its required items, none of which reads as zeros; so length, table and items were all kept (`WholeIfRead`), what is
  read is what was asked for (`ParamsRead`), and whatever entries were kept lie in the file (`BlocksLie`).
- `CreatedFilesAreGood`: the file is followed through `Opens` and each rule of `Accepts`. The validator's rule of the BAT
  rests on `EntryPlaces` again, and the sectors of the disk on `SizeHolds`.
- `ParentIsNamed`: key and path stand in the locator where the entry says, in bytes.
- `AcceptedFilesOpen` is about *every* file, not only those of the model: the checks of an open follow from the rules of the
  validator. `ValidatedFilesOpen` is its case of the files of the run.

`ItemAt`, the places of the metadata items, is a recursive function; since it has six arguments a witness is written down
(`ItemPlaces`) and no induction is needed.

**LogDetect** (`DetectInvariance`). The invariant has three parts. `Scan`: the sequence being extended and the
candidate are chains of consecutive entries that do not wrap; `ReplayIsComplete` and `ScanTypeCorrect` follow from it alone.
`Ring`, of the writer: entries do not overlap and each has its own number, and from the oldest one still needed to the
newest each is followed by the next; an append cannot break that, as it stays off the needed entries, and a new
entry's oldest is one of those or itself. `Comes`, of the two together: either the candidate ends with the newest entry, or the
tail is still at or before the oldest needed one, and once the sequence being extended holds that one it goes on to
the newest (the entries between stand next to each other, so no step of the scan falls between them). The hypothesis
`InOnePiece` is what `LogDetectWrapped` shows to be needed. `NewestIsFound` follows.

**LogValidate.** Every step is one of `LogDetect` or leaves the ring and the scan alone (`ValidateImplementsDetect`), so all
of the above holds. `Walk` says where the iterator stands and that what it found are headers one behind
the other, `Judged` that the verdict fits the walk; `AcceptedLogsAreEmpty` then needs no more than that a blank log has no entry.
For `ValidatorAndScanAgree`, `TakesRun` follows the scan's first pass: it starts at step 0 as the validator does, takes the
same run of entries and keeps it unless a newer one comes. For `FirstLapIsAccepted`, `FirstLap` is an invariant of the
writer: as long as the first entry stands at the start, no entry wraps, nothing stands behind the newest, and neighbours have
consecutive numbers.

**LogReplay** (`ReplayInvariance`). `ReplayComplete` must survive replays that die and pages that come back, so
the invariant says two things. A page that no descriptor covers is never touched: it holds the first
file's content now and after any loss, lengths included (`UncoveredKept`, `LengthsKeep`). And a replay that has done the descriptors
before the k-th has given every page one of them covers what the last such says (`ReplayedTo`). The second
begins anew with each open, so nothing need be known of what a dead replay left on covered pages. `ReplayIsDurable`
follows. `OverlayShowsReplay` follows from the first part alone, under the assumption that no log in `Logs` zeroes a page after giving
it data (`DataLast`), without which it is false.

Only model-checked: the liveness properties `ScanEnds` and `ReadsEnd`, since liveness under fairness is out of the prover's
reach, and the five runs that end in a violation, which are counterexamples and need no proof. Every invariant and
action property that a passing run checks is a theorem, under the hypotheses named above.

## 5. What is not modelled, and the plan

Not modelled, and why:

- Parsing of bytes: checksums, GUIDs, bit layout of entries and UTF-16. They are pure functions without control of their own.
- A metadata table that counts more entries than it has room for: `FileFormat` has the table as a record of its items.
- The upper end of the parent locator: the path has one short length in the run, so the limit of 16 bits on its
  length (`medium/create.rs:635`), where creation panics, is not reached.
- Section views: they hold buffers of `Medium` and parse them once each. The GPT adapter: a position of
  its own over the `Sector` cursor, for another crate. The command line: parses arguments, prints results.
- `ReadSemanticsPolicy::RawDataPreferred`, and a parent whose content changes, or chains of parents: the parent is what the caller's resolver returns,
  and the crate makes no promise about it.
- More than one medium on a file at a time: nothing locks the file, and the crate makes no promise for it.
- The validator's rules for single fields of a log entry (GUIDs, tails, descriptors, data sectors), which are
  pure checks of its bytes. The checks of an open of a file with a pending log (`Opens` is for a file without
  log entries, `LogReplay` takes the checks as passed). A log that covers the header section.
- In `Medium`: the log's buffer, poisoned locks, a medium with an overlay.

Next, in this order:

1. The checks of an open composed with a pending log, on a file whose metadata the log replaces.
2. `Medium` with an overlay under `get_mut`.
