----------------------------- MODULE CreateFile -----------------------------
(***************************************************************************)
(* How a file is created (CreateOptions::finish, src/src/medium/create.rs) *)
(* piece by piece, with an error or a power loss after any of them, and    *)
(* what opening, reading and validating the file that is left make of it.  *)
(* BatLayout is its BAT loop.  The medium is empty when creation begins.   *)
(***************************************************************************)
EXTENDS BatLayout, Validator

CONSTANTS Options,   \* what is asked for: size, block, lss, pss, fixed, parent
          MaxSize,   \* 64 TiB, in sectors
          MaxBlock   \* 256 MiB, in MiB

SectorSizes == {1, LargeSector}    \* 512 and 4096 bytes
PowersOfTwo == {1, 2, 4, 8, 16, 32, 64, 128, 256}

\* Mutant: the size need not be whole sectors.
ValidAnySize(o) ==
  /\ o.size # 0 /\ o.size =< MaxSize
  /\ o.block \in 1 .. MaxBlock \cap PowersOfTwo
  /\ o.lss \in SectorSizes /\ o.pss \in SectorSizes
  /\ ~(o.fixed /\ o.parent # "none")

\* CreateOptions::validate
Valid(o) ==
  /\ o.size # 0 /\ o.size =< MaxSize
  /\ o.size % o.lss = 0
  /\ o.block \in 1 .. MaxBlock \cap PowersOfTwo
  /\ o.lss \in SectorSizes /\ o.pss \in SectorSizes
  /\ ~(o.fixed /\ o.parent # "none")

\* compute_bat_entry_counts
DiskOf(o) == [payloads |-> CeilDiv(o.size, o.block * SectorsPerMib),
              ratio    |-> ChunkRatio(o.block, o.lss)]

ASSUME CreateConstants ==
  /\ Options \subseteq [size : Nat, block : Nat, lss : Nat, pss : Nat, fixed : BOOLEAN,
                        parent : {"none", "guid 1", "guid 2"}]
  /\ \A o \in Options : Valid(o) => DiskOf(o) \in Sizes

VARIABLES o,       \* the options
          pc,      \* the piece that is written next, or how creation ended
          pieces,  \* the pieces that a read of the file finds
          damage   \* one field of the created file that holds something else

cvars == <<disk, fixed, i, sbWritten, bat, o, pc, pieces, damage>>
-----------------------------------------------------------------------------
(* The pieces, in the unit of FileFormat. *)
LogAt == Mib
BatAtMib == 2 * Mib
MetadataAt == BatAtMib + MibCount(disk) * Mib

NewHeader(n) == [ok |-> TRUE, seq |-> n, version |-> 1, logVersion |-> 0, logGuid |-> "zero",
                 logOff |-> LogAt, logLen |-> Mib]
NoHeader == [NewHeader(0) EXCEPT !.ok = FALSE, !.logOff = 0, !.logLen = 0]

SecondHeader == NewHeader(1)

RegionTable ==
  <<[id |-> "bat",      off |-> BatAtMib,   len |-> MibCount(disk) * Mib, required |-> TRUE],
    [id |-> "metadata", off |-> MetadataAt, len |-> Mib,                  required |-> TRUE]>>
NoTable == [ok |-> FALSE, entries |-> <<>>]

\* The MiB of the first block of a fixed disk: the next multiple of the block size.
FirstPayload == CeilDiv(CeilDiv(MetadataAt + Mib, Mib), o.block) * o.block

\* The set_len of finish.
FileSize == IF o.fixed THEN (FirstPayload + disk.payloads * o.block) * Mib
            ELSE MetadataAt + Mib

\* Mutant: a length counts characters.
BytesAsChars(chars) == chars

\* Keys and values are stored in UTF-16.
Bytes(chars) == 2 * chars

\* build_parent_locator: a header, two entries, then keys and values one after
\* the other.  The path has PathChars characters.
PathChars == 5
NewLocator ==
  LET k1 == 20 + 2 * 12
      v1 == k1 + Bytes(14)
      k2 == v1 + Bytes(38)
      v2 == k2 + Bytes(13)
  IN  [entries |-> <<[koff |-> k1, klen |-> Bytes(14), voff |-> v1, vlen |-> Bytes(38)],
                     [koff |-> k2, klen |-> Bytes(13), voff |-> v2, vlen |-> Bytes(PathChars)]>>,
       text |-> [t \in {<<k1, Bytes(14)>>, <<v1, Bytes(38)>>, <<k2, Bytes(13)>>, <<v2, Bytes(PathChars)>>} |->
                   CASE t[1] = k1 -> "parent_linkage"
                     [] t[1] = v1 -> o.parent
                     [] t[1] = k2 -> "relative_path"
                     [] t[1] = v2 -> "path"]]
LocatorLen == 20 + 2 * 12 + Bytes(14 + 38 + 13 + PathChars)

DiskId == 99    \* a random GUID

\* build_metadata_items: what is stored, in this order.
NewItems ==
  <<[id |-> "FileParameters", len |-> 8,
     data |-> [Zeros EXCEPT !.word = o.block, !.flags = (IF o.fixed THEN {"leave"} ELSE {})
                                        \cup (IF o.parent # "none" THEN {"parent"} ELSE {})]],
    [id |-> "VirtualDiskSize",    len |-> 8,  data |-> [Zeros EXCEPT !.word = o.size]],
    [id |-> "VirtualDiskId",      len |-> 16, data |-> [Zeros EXCEPT !.word = DiskId]],
    [id |-> "LogicalSectorSize",  len |-> 4,  data |-> [Zeros EXCEPT !.word = o.lss]],
    [id |-> "PhysicalSectorSize", len |-> 4,  data |-> [Zeros EXCEPT !.word = o.pss]]>>
  \o (IF o.parent = "none" THEN <<>>
      ELSE <<[id |-> "ParentLocator", len |-> LocatorLen, data |-> [Zeros EXCEPT !.kv = NewLocator]]>>)

\* rel_metadata_offset: where each of them stands.
ItemAt[k \in 1 .. 6] == IF k = 1 THEN TableSize ELSE ItemAt[k - 1] + NewItems[k - 1].len

\* build_metadata_table
NewTable == [k \in DOMAIN NewItems |->
  [id |-> NewItems[k].id, off |-> ItemAt[k], len |-> NewItems[k].len,
   required |-> TRUE, reserved |-> FALSE]]
NewItemData ==
  [a \in {ItemAt[k] : k \in DOMAIN NewItems} |->
     NewItems[CHOOSE k \in DOMAIN NewItems : ItemAt[k] = a].data]

\* What a read of the file finds.
Extent ==
  CASE "len" \in pieces -> FileSize
    [] "len" \notin pieces /\ pieces \cap {"table", "items"} # {} -> MetadataAt + 1
    [] OTHER -> 1
File ==
  [fti  |-> "fti" \in pieces,
   hdr  |-> <<IF "h1" \in pieces THEN NewHeader(0) ELSE NoHeader,
              IF "h2" \in pieces THEN SecondHeader ELSE NoHeader>>,
   rt   |-> <<IF "r1" \in pieces THEN [ok |-> TRUE, entries |-> RegionTable] ELSE NoTable,
              IF "r2" \in pieces THEN [ok |-> TRUE, entries |-> RegionTable] ELSE NoTable>>,
   meta |-> [at |-> MetadataAt, sig |-> "table" \in pieces,
             entries |-> IF "table" \in pieces THEN NewTable ELSE <<>>,
             items |-> IF "items" \in pieces THEN NewItemData ELSE <<>>],
   bat  |-> [at |-> BatAtMib,
             entries |-> [k \in DOMAIN bat |->
               IF bat[k] = NotPresent THEN 0 ELSE FirstPayload + bat[k] * o.block]],
   size |-> Extent]
-----------------------------------------------------------------------------
CreateInit ==
  /\ o \in Options
  /\ Init /\ fixed = o.fixed
  /\ disk = IF Valid(o) THEN DiskOf(o) ELSE CHOOSE d \in Sizes : TRUE
  /\ pc = "start" /\ pieces = {} /\ damage = <<>>

Validate ==
  /\ pc = "start"
  /\ pc' = IF Valid(o) THEN "fti" ELSE "refused"
  /\ UNCHANGED <<vars, o, pieces, damage>>

Put(p, next) ==
  /\ pc = p
  /\ pc' = next
  /\ pieces' = pieces \cup {p}
  /\ UNCHANGED <<vars, o, damage>>

WriteIdentifier == Put("fti", "h1")
WriteHeaders    == Put("h1", "h2") \/ Put("h2", "r1")
WriteTables     == Put("r1", "r2") \/ Put("r2", "len")
SetLength       == Put("len", "bat")

\* write_bat_entries
FillBat ==
  /\ pc = "bat"
  /\ Next
  /\ UNCHANGED <<o, pc, pieces, damage>>
BatFilled ==
  /\ pc = "bat" /\ ~Writing
  /\ pc' = "table"
  /\ UNCHANGED <<vars, o, pieces, damage>>

\* write_metadata
WriteMetadata == Put("table", "items") \/ Put("items", "sync")

Steps == {"fti", "h1", "h2", "r1", "r2", "len", "bat", "table", "items", "sync"}

\* The only sync of finish.
SyncFile ==
  /\ pc = "sync"
  /\ pc' = "done"
  /\ UNCHANGED <<vars, o, pieces, damage>>

\* Any of the writes may fail; the file is left as it is.
Fails ==
  /\ pc \in Steps
  /\ pc' = "failed"
  /\ UNCHANGED <<vars, o, pieces, damage>>

\* Entries of the BAT that a power loss may leave: a bound on the combinations.
KeptEntries == {DOMAIN bat, {}} \cup {{k} : k \in 0 .. i - 1} \cup {DOMAIN bat \ {k} : k \in 0 .. i - 1}

PowerLoss ==
  /\ pc \in Steps \cup {"failed"}
  /\ pc' = "lost"
  /\ pieces' \in SUBSET pieces
  /\ \E K \in KeptEntries : bat' = [k \in DOMAIN bat |-> IF k \in K THEN bat[k] ELSE NotPresent]
  /\ i' = 0 /\ sbWritten' = 0
  /\ UNCHANGED <<disk, fixed, o, damage>>

\* What one wrong field of a created file may be; later software, not this
\* program, put it there.
WrongHeaders(f) ==
  UNION {LET W(x) == [f EXCEPT !.hdr[s] = x]
             x    == f.hdr[s]
         IN  {W([x EXCEPT !.ok = FALSE]), W([x EXCEPT !.version = 2]),
              W([x EXCEPT !.logVersion = 1]), W([x EXCEPT !.logGuid = "some"]),
              W([x EXCEPT !.logGuid = "some", !.logVersion = 1]),
              W([x EXCEPT !.seq = f.hdr[3 - s].seq]), W([x EXCEPT !.seq = 2]),
              W([x EXCEPT !.logOff = LogAt + 1]), W([x EXCEPT !.logLen = 1]),
              W([x EXCEPT !.logOff = f.size]), W([x EXCEPT !.logOff = f.size + Mib, !.logLen = 0])} : s \in Slots}
WrongTables(f) ==
  {[f EXCEPT !.rt[s].ok = FALSE] : s \in Slots}
  \cup {[f EXCEPT !.rt[s].entries = <<@[k]>>] : s \in Slots, k \in {1, 2}}
  \cup {[f EXCEPT !.rt[s].entries[k].off = a] : s \in Slots, k \in {1, 2},
          a \in {0, Mib, BatAtMib, BatAtMib + 1, MetadataAt, MetadataAt + Mib, f.size}}
  \cup {[f EXCEPT !.rt[s].entries[k].len = a] : s \in Slots, k \in {1, 2}, a \in 0 .. 3 * Mib}
  \cup {[f EXCEPT !.rt[s].entries[k].id = "other", !.rt[s].entries[k].required = r] :
          s \in Slots, k \in {1, 2}, r \in BOOLEAN}
WrongMetadata(f) ==
  LET N == DOMAIN f.meta.entries IN
  {[f EXCEPT !.meta.sig = FALSE]}
  \cup {[f EXCEPT !.meta.entries[k].id = "other", !.meta.entries[k].required = r] : k \in N, r \in BOOLEAN}
  \cup {[f EXCEPT !.meta.entries[k].reserved = TRUE] : k \in N}
  \cup {[f EXCEPT !.meta.entries[k].off = a] : k \in N,
          a \in {0, TableSize - 8, f.meta.entries[1].off, f.meta.entries[2].off, 2 * HalfMib}}
  \cup {[f EXCEPT !.meta.entries[k].len = a] : k \in N, a \in {0, 3, 9, 40, 2 * HalfMib}}
  \cup {[f EXCEPT !.meta.entries[k].len = 0, !.meta.entries[k].off = 0] : k \in N}
  \cup {[f EXCEPT !.meta.items[a].word = n] : a \in DOMAIN f.meta.items, n \in {0, 2, 2 * MaxSize}}
  \cup {[f EXCEPT !.meta.items[f.meta.entries[1].off].flags = F] : F \in SUBSET {"parent", "reserved"}}
WrongBat(f) ==
  {[f EXCEPT !.bat.entries[k] = a] : k \in DOMAIN f.bat.entries, a \in {0, FirstPayload, FirstPayload + 1}}
  \cup {[f EXCEPT !.size = n] : n \in {f.size - 1, MetadataAt + 1, 1, 0}}

GoWrong ==
  /\ pc = "done"
  /\ pc' = "damaged"
  /\ \E f \in WrongHeaders(File) \cup WrongTables(File) \cup WrongMetadata(File) \cup WrongBat(File) :
       f # File /\ damage' = <<f>>
  /\ UNCHANGED <<vars, o, pieces>>

CreateNext ==
  \/ Validate \/ WriteIdentifier \/ WriteHeaders \/ WriteTables \/ SetLength
  \/ FillBat \/ BatFilled \/ WriteMetadata \/ SyncFile
  \/ Fails \/ PowerLoss \/ GoWrong

CreateSpec == CreateInit /\ [][CreateNext]_cvars
-----------------------------------------------------------------------------
TheFile == IF damage = <<>> THEN File ELSE damage[1]

\* The parameters that were asked for.
Wanted == [block |-> o.block, lss |-> o.lss, size |-> o.size, ratio |-> disk.ratio,
           parent |-> o.parent # "none"]

\* (The loop also names a block behind the last one of a fixed disk that ends
\* within its first chunk, behind the end of the file; no read looks it up.)
BlocksInFile(f) ==
  \A b \in Payloads :
    LET place == f.bat.entries[PayloadIndex(b, disk.ratio)] IN
    place # 0 => place * Mib >= MetadataAt + Mib /\ (place + o.block) * Mib =< f.size

(***************************************************************************)
(* Whatever options the builder accepts, the file it reports success for   *)
(* opens in both modes and strictly, has the asked-for parameters and just *)
(* the sectors of the asked-for size, its blocks lie in the file behind    *)
(* the metadata, and the validator has no complaint, except of a fixed     *)
(* disk of more than one chunk (whose BAT the run BatLayoutFixed is        *)
(* about).                                                                 *)
(***************************************************************************)
CreatedIsGood ==
  pc = "done" =>
    /\ \A write \in BOOLEAN : Opens(File, write, TRUE, "Require")
    /\ IoStarts(File) /\ IoParams(File) = Wanted
    /\ (MaxSector(IoParams(File)) + 1) * o.lss = o.size
    /\ BlocksInFile(File)
    /\ Accepts(File) \/ (o.fixed /\ disk.payloads > disk.ratio)

(***************************************************************************)
(* A new differencing disk leads to its parent: the path that is resolved  *)
(* and the linkage are those that were given.                              *)
(***************************************************************************)
ParentNamed ==
  pc = "done" /\ o.parent # "none" =>
    LET d == ItemData(Metadata(File), "ParentLocator")
        e == LocatorEntries(d)[1]
    IN  ParentPath(d) = "path" /\ Text(d, e.voff, e.vlen) = o.parent

(***************************************************************************)
(* Creation is not atomic, but what an error or a power loss leaves of it  *)
(* is either refused, however loosely it is opened, or it is the disk that *)
(* was asked for, with blocks that lie in the file or read as zeros.       *)
(***************************************************************************)
HalfCreatedHonest ==
  pc \in {"failed", "lost"} =>
    (Opens(File, FALSE, FALSE, "ReadOnlyNoReplay") /\ IoStarts(File)
       => IoParams(File) = Wanted /\ BlocksInFile(File))

\* What the validator lets pass that no I/O can start from.
BlindSpot(f) ==
  \/ ~Has(CurrentTable(f).entries, "metadata")    \* a missing region is no issue
  \/ FileParameters(Metadata(f)).block = 0        \* nor is an empty item, or a zero
  \/ SectorSize(Metadata(f)) = 0

(***************************************************************************)
(* The validator and the open agree: a file of which the validator, given  *)
(* a loose read-only open, has no complaint opens strictly and for writing *)
(* too, and I/O on it starts, apart from the blind spots above.  Each file *)
(* is a created one with one field that holds something else.              *)
(***************************************************************************)
ValidatedOpens ==
  pc \in {"done", "damaged"} /\ Opens(TheFile, FALSE, FALSE, "ReadOnlyNoReplay") /\ Accepts(TheFile) =>
    /\ \A write \in BOOLEAN : Opens(TheFile, write, TRUE, "Require")
    /\ IoStarts(TheFile) \/ BlindSpot(TheFile)
=============================================================================
