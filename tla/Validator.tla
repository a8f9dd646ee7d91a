----------------------------- MODULE Validator -----------------------------
(***************************************************************************)
(* The rules of SpecValidator (src/src/validation/), over the buffer that  *)
(* Medium builds for it.  Accepts is its result without an error and       *)
(* without an issue, for a file whose log holds no entry.                  *)
(***************************************************************************)
EXTENDS FileFormat

\* build_validator_buf, region_for_guid: a region that cannot be read is left
\* out as zeros; one that no region table entry names is not there at all.
SeenRegion(f, id) == Has(CurrentTable(f).entries, id)

BlankMeta(e) == [sig |-> FALSE, entries |-> <<>>, items |-> <<>>, len |-> e.len * HalfMib]
SeenMetadata(f) ==
  IF MetadataReadable(f) THEN Metadata(f)
  ELSE BlankMeta(Find(CurrentTable(f).entries, "metadata"))

\* has_parent, block_size, logical_sector_size, virtual_disk_size: 0 on any error.
SeenWord(f, id) ==
  IF ~SeenRegion(f, "metadata") \/ NumberMissing(SeenMetadata(f), id) THEN 0
  ELSE ItemData(SeenMetadata(f), id).data.word
SeenParent(f) ==
  SeenRegion(f, "metadata") /\ "parent" \in FileParameters(SeenMetadata(f)).flags
-----------------------------------------------------------------------------
\* validate_single_header
ValidHeader(h) == h.ok /\ VersionSupported(h)

\* Mutant: one valid header is enough.
ValidHeaderEither(f) ==
  f.fti /\ \E s \in Slots : ValidHeader(f.hdr[s])

\* validate_header
ValidHeaders(f) ==
  /\ f.fti
  /\ \A s \in Slots : ValidHeader(f.hdr[s])
  /\ f.hdr[1].seq # f.hdr[2].seq
  /\ f.hdr[1].logGuid = f.hdr[2].logGuid
  /\ CurrentHeader(f).logLen % Mib = 0 /\ CurrentHeader(f).logOff % Mib = 0

\* validate_region_entries
ValidRegion(es, k) ==
  /\ es[k].off % Mib = 0 /\ es[k].off >= Mib /\ es[k].len % Mib = 0
  /\ \A j \in 1 .. k - 1 :
       ~(es[k].off < es[j].off + es[j].len /\ es[j].off < es[k].off + es[k].len)
  /\ es[k].id \in KnownRegions

\* validate_region_table: both tables must parse, only the current one is looked at.
ValidRegions(f) ==
  /\ \A s \in Slots : f.rt[s].ok
  /\ \A k \in DOMAIN CurrentTable(f).entries : ValidRegion(CurrentTable(f).entries, k)

\* validate_bat.  An entry is the MiB of a block that is present, or 0.
BatEntries(f) == IF BatReadable(f) THEN [i \in 0 .. BatLength(f) - 1 |-> BatAt(f, i)]
                 ELSE [i \in 0 .. BatLength(f) - 1 |-> 0]

ValidBat(f) ==
  LET block == SeenWord(f, "FileParameters")
      lss   == SeenWord(f, "LogicalSectorSize")
      ratio == ChunkRatio(block, lss)
      bat   == BatEntries(f)
      Payload == {i \in DOMAIN bat : i % (ratio + 1) # ratio /\ bat[i] # 0}
  IN  SeenRegion(f, "bat") /\ block # 0 /\ lss # 0 /\ ratio # 0 =>
        /\ BatLength(f) >= CeilDiv(SeenWord(f, "VirtualDiskSize"), block * SectorsPerMib)
        /\ \A i \in DOMAIN bat : i % (ratio + 1) = ratio /\ ~SeenParent(f) => bat[i] = 0
        /\ \A i \in Payload : bat[i] % block = 0
        /\ \A i, j \in Payload : bat[i] = bat[j] => i = j

\* validate_metadata_entry
ValidItem(e, len) ==
  /\ e.len = 0 => e.off = 0
  /\ e.len > 0 => e.off >= TableSize /\ e.off + e.len =< len
  /\ ~e.reserved
  /\ e.id \in KnownItems

\* validate_metadata
ValidMetadata(f) ==
  LET m == SeenMetadata(f) IN
  SeenRegion(f, "metadata") =>
    /\ m.len >= TableSize /\ m.sig
    /\ \A k \in DOMAIN m.entries : ValidItem(m.entries[k], m.len)
    /\ \A j, k \in DOMAIN m.entries :
         j < k /\ m.entries[j].len > 0 /\ m.entries[k].len > 0 =>
           ~(m.entries[j].off < m.entries[k].off + m.entries[k].len
               /\ m.entries[k].off < m.entries[j].off + m.entries[j].len)
    \* push_corrupted_known_metadata_items
    /\ \A id \in KnownItems \ {"ParentLocator"} : Has(m.entries, id) =>
         Find(m.entries, id).len \notin 1 .. Width(id) - 1

\* validate_required_metadata_items
HasRequiredItems(f) ==
  LET m == SeenMetadata(f) IN
  SeenRegion(f, "metadata") =>
    /\ \A id \in KnownItems \ {"ParentLocator", "FileParameters"} : ~NumberMissing(m, id)
    /\ FileParameters(m).ok /\ "reserved" \notin FileParameters(m).flags
    /\ SeenParent(f) => ItemData(m, "ParentLocator").ok

\* validate_parent_locator_keys.  A value that is a GUID in braces is named so; of
\* several linkages that can be read the last one counts.
ValidLocator(f) ==
  LET d  == ItemData(SeenMetadata(f), "ParentLocator")
      es == LocatorEntries(d)
      Key(k) == Text(d, es[k].koff, es[k].klen)
      Linkage(k) == Text(d, es[k].voff, es[k].vlen)
      Linkages == {k \in DOMAIN es : Key(k) = "parent_linkage" /\ Linkage(k) # "error"}
  IN  SeenParent(f) /\ d.ok =>
        /\ \A k \in DOMAIN es : Key(k) \notin {"error", "parent_linkage2"}
        /\ \E k \in Linkages : (\A j \in Linkages : j =< k) /\ Linkage(k) \in {"guid 1", "guid 2"}
        /\ \E k \in DOMAIN es : Key(k) \in {"relative_path", "volume_path", "absolute_win32_path"}

\* validate_file
Accepts(f) ==
  /\ CurrentIndex(f.hdr) # 0
  /\ ValidHeaders(f)
  /\ ValidRegions(f)
  /\ ValidBat(f)
  /\ ValidMetadata(f)
  /\ HasRequiredItems(f)
  /\ ValidLocator(f)
=============================================================================
