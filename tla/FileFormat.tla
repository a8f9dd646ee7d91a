----------------------------- MODULE FileFormat -----------------------------
(***************************************************************************)
(* What a VHDX file says of itself and who reads it: the header section    *)
(* (src/src/header/core.rs), the metadata region                           *)
(* (src/src/metadata/core.rs), the checks of an open                       *)
(* (src/src/medium/open.rs) and of the start of I/O (src/src/io/core.rs).  *)
(*                                                                         *)
(* A file is a record: fti (the signature), hdr and rt (two headers, two   *)
(* region tables), meta and bat (what two regions hold, and where they     *)
(* really stand) and size.  Everything else in it reads as zeros.          *)
(***************************************************************************)
EXTENDS HeaderSection, Sequences

\* Scale.  File offsets and region lengths count halves of a MiB, so that some
\* are not aligned; the virtual disk counts sectors of 512 bytes.  The numbers
\* of the format are those in parentheses.
CONSTANTS
  TableSize,       \* bytes of the metadata table (65536)
  HalfMib,         \* bytes of half a MiB of metadata (524288)
  EntriesPerMib,   \* BAT entries in a MiB (131072)
  SectorsPerMib,   \* 512-byte sectors in a MiB (2048)
  ChunkSectors,    \* the sectors of which a bitmap of 1 MiB holds the bits (8388608)
  LargeSector      \* 4096 bytes in sectors (8)

Mib == 2

\* The items of a new file take 224 bytes behind the table.
ASSUME FormatConstants ==
  /\ {TableSize, HalfMib, EntriesPerMib, SectorsPerMib, ChunkSectors, LargeSector} \subseteq Nat \ {0}
  /\ TableSize + 224 =< Mib * HalfMib

CeilDiv(a, b) == (a + b - 1) \div b
ChunkRatio(block, lss) == (ChunkSectors * lss) \div (block * SectorsPerMib)
-----------------------------------------------------------------------------
(* The header section. *)
CurrentHeader(f) == f.hdr[CurrentIndex(f.hdr)]

\* current_region_table: region table n belongs to header n.
CurrentTable(f) == f.rt[CurrentIndex(f.hdr)]

\* Region entries and metadata entries are found by their GUID, the first first.
Has(s, id)  == \E k \in DOMAIN s : s[k].id = id
Find(s, id) == s[CHOOSE k \in DOMAIN s : s[k].id = id /\ \A j \in 1 .. k - 1 : s[j].id # id]
-----------------------------------------------------------------------------
(* The metadata region. *)
Zeros == [word |-> 0, flags |-> {}, kv |-> [entries |-> <<>>, text |-> <<>>]]

\* Mutant: whether the region lies in the file is not checked.
MetadataReadableAnyhow(f) == Has(CurrentTable(f).entries, "metadata")

\* read_metadata_region, Metadata::new.
MetadataReadable(f) ==
  LET es == CurrentTable(f).entries IN
  /\ Has(es, "metadata")
  /\ LET e == Find(es, "metadata") IN
       e.off + e.len =< f.size /\ e.len * HalfMib >= TableSize

Metadata(f) ==
  LET e == Find(CurrentTable(f).entries, "metadata")
      here == e.off = f.meta.at
  IN  [sig     |-> here /\ f.meta.sig,
       entries |-> IF here THEN f.meta.entries ELSE <<>>,
       items   |-> IF here THEN f.meta.items ELSE <<>>,
       len     |-> e.len * HalfMib]

Missing == [ok |-> FALSE, len |-> 0, data |-> Zeros]

\* item_data: present but empty is not missing.
ItemData(m, id) ==
  IF ~Has(m.entries, id) THEN Missing
  ELSE LET e == Find(m.entries, id) IN
       CASE e.len = 0 -> [Missing EXCEPT !.ok = TRUE]
         [] e.len > 0 /\ e.off + e.len > m.len -> Missing
         [] OTHER -> [ok |-> TRUE, len |-> e.len,
                      data |-> IF e.off \in DOMAIN m.items THEN m.items[e.off] ELSE Zeros]

\* The lengths the accessors ask for; file_parameters tolerates a short item.
Width(id) == CASE id = "FileParameters" -> 8
               [] id = "VirtualDiskSize" -> 8
               [] id = "VirtualDiskId" -> 16
               [] OTHER -> 4

NumberMissing(m, id) == LET d == ItemData(m, id) IN ~d.ok \/ d.len < Width(id)

FileParameters(m) ==
  LET d == ItemData(m, "FileParameters")
      whole == d.len >= Width("FileParameters")
  IN  [ok |-> d.ok,
       block |-> IF whole THEN d.data.word ELSE 0,
       flags |-> IF whole THEN d.data.flags ELSE {}]

\* ParentLocator: a 20-byte header, 12-byte entries, then keys and values.  The
\* text at an offset is what was put there, if asked for with its length.
LocatorEntries(d) ==
  LET es == d.data.kv.entries IN [k \in {k \in DOMAIN es : 20 + 12 * k =< d.len} |-> es[k]]
Text(d, off, len) ==
  CASE off + len > d.len \/ len % 2 # 0 -> "error"
    [] len = 0 -> ""
    [] len > 0 /\ <<off, len>> \in DOMAIN d.data.kv.text -> d.data.kv.text[<<off, len>>]
    [] OTHER -> "garbage"

\* resolve_parent_path: of each key the last value, of the keys the first that
\* is there; any key, and any value of these keys, that cannot be read ends it.
PathKeys == <<"relative_path", "volume_path", "absolute_win32_path">>
ParentPath(d) ==
  LET es == LocatorEntries(d)
      Key(k) == Text(d, es[k].koff, es[k].klen)
      Value(k) == Text(d, es[k].voff, es[k].vlen)
      Given(n) == {k \in DOMAIN es : Key(k) = PathKeys[n]}
  IN  IF \/ \E k \in DOMAIN es : Key(k) = "error"
         \/ \E n \in DOMAIN PathKeys : \E k \in Given(n) : Value(k) = "error"
         \/ \A n \in DOMAIN PathKeys : Given(n) = {}
      THEN "error"
      ELSE LET n == CHOOSE n \in DOMAIN PathKeys :
                      Given(n) # {} /\ \A j \in 1 .. n - 1 : Given(j) = {}
               k == CHOOSE k \in Given(n) : \A j \in Given(n) : j =< k
           IN  Value(k)
-----------------------------------------------------------------------------
(* What an open checks. *)
KnownRegions == {"bat", "metadata"}
KnownItems   == {"FileParameters", "VirtualDiskSize", "VirtualDiskId",
                 "LogicalSectorSize", "PhysicalSectorSize", "ParentLocator"}

Tolerated(e, known, strict) == e.id \in known \/ (~e.required /\ ~strict)

\* validate_current_header
VersionSupported(h) == h.version = 1 /\ ~(h.logVersion # 0 /\ h.logGuid # "zero")

\* validate_region_table_entries
RegionsAccepted(es, strict) ==
  \A k \in DOMAIN es :
    /\ es[k].off % Mib = 0 /\ es[k].off >= Mib /\ es[k].len % Mib = 0
    /\ \A j \in 1 .. k - 1 :
         ~(es[k].off < es[j].off + es[j].len /\ es[j].off < es[k].off + es[k].len)
    /\ Tolerated(es[k], KnownRegions, strict)

\* validate_unknown_metadata
MetadataAccepted(f, strict) ==
  Has(CurrentTable(f).entries, "metadata") =>
    /\ MetadataReadable(f)
    /\ LET es == Metadata(f).entries IN \A k \in DOMAIN es : Tolerated(es[k], KnownItems, strict)

\* apply_writable_header_update replaces a header only when both are valid.
MayReplaceHeader(f) == f.hdr[1].ok /\ f.hdr[2].ok

\* finish of both OpenOptions, for a file whose log holds no entry.
Opens(f, write, strict, policy) ==
  /\ write => policy \notin {"InMemoryOnReadOnly", "ReadOnlyNoReplay"}
  /\ f.size >= Mib /\ f.fti
  /\ CurrentIndex(f.hdr) # 0 /\ VersionSupported(CurrentHeader(f))
  /\ CurrentTable(f).ok
  /\ RegionsAccepted(CurrentTable(f).entries, strict)
  /\ MetadataAccepted(f, strict)
  /\ CurrentHeader(f).logLen = 0 \/ CurrentHeader(f).logOff + CurrentHeader(f).logLen =< f.size
  /\ write => MayReplaceHeader(f)
-----------------------------------------------------------------------------
(* What I/O starts from. *)
SectorSize(m) == IF NumberMissing(m, "LogicalSectorSize") THEN 1
                 ELSE ItemData(m, "LogicalSectorSize").data.word

\* IO::new
IoStarts(f) ==
  /\ MetadataReadable(f)
  /\ FileParameters(Metadata(f)).block # 0
  /\ SectorSize(Metadata(f)) # 0
  /\ ~NumberMissing(Metadata(f), "VirtualDiskSize")

IoParams(f) ==
  LET m == Metadata(f)
      p == FileParameters(m)
      size == ItemData(m, "VirtualDiskSize").data.word
  IN  [block |-> p.block, lss |-> SectorSize(m), size |-> size,
       ratio |-> ChunkRatio(p.block, SectorSize(m)), parent |-> "parent" \in p.flags]

\* IO::sector: the last sector that can be asked for.
MaxSector(io) == LET n == io.size \div io.lss IN IF n = 0 THEN 0 ELSE n - 1

\* bat_buf and Bat::entry: what entry i holds, if it can be looked up.
BatReadable(f) ==
  LET es == CurrentTable(f).entries IN
  Has(es, "bat") /\ Find(es, "bat").off + Find(es, "bat").len =< f.size

BatLength(f) == (Find(CurrentTable(f).entries, "bat").len * EntriesPerMib) \div Mib
BatAt(f, i) ==
  IF Find(CurrentTable(f).entries, "bat").off = f.bat.at /\ i \in DOMAIN f.bat.entries
  THEN f.bat.entries[i] ELSE 0
=============================================================================
