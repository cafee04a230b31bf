------------------------------ MODULE IsoWriter ------------------------------
(***************************************************************************)
(* Writing the structures of an ISO 9660 volume (lib/iso9660/iso9660.c):   *)
(* a program that makes a volume has the library fill blocks of its memory *)
(* with directory records and path table entries, check and complete its   *)
(* names, and pad the identifiers of the volume descriptor, which the      *)
(* readers of descriptors strip again (also iso9660_fs.c).                 *)
(*                                                                         *)
(* A block is what it was started as: a directory, with its records by     *)
(* the byte they begin at, or a path table, with its entries in order.     *)
(* Names in records have a length only; in the calls about names they are  *)
(* sequences of character codes.                                           *)
(***************************************************************************)
EXTENDS Integers, Sequences, SequencesExt, FiniteSetsExt, Functions

CONSTANTS
  ISO_BLOCKSIZE,    \* bytes of a block
  MAX_ISOPATHNAME,  \* longest path name
  NameMax, ExtMax,  \* longest part of a name before its dot, and after it
  Files,            \* what may be entered: [len, su : lengths, id : any value]
  DirSizes,         \* sizes that a directory is started with
  TableEntries,     \* entries of path tables: [len : length, id : any value]
  TableMax,         \* a bound: entries of a table
  Strings,          \* strings that are checked and completed as names
  Ids,              \* strings that are written as identifiers
  Versions,         \* version numbers that complete a name
  FieldSize         \* characters of a descriptor's identifier

VARIABLES
  block,            \* the memory that is written
  given,            \* what the calls for this block were asked to enter
  said              \* the last call's answer, "stopped" after an assertion
vars == <<block, given, said>>

HeaderSize == 33                      \* sizeof(iso9660_dir_t)
TableHeaderSize == 8                  \* sizeof(iso_path_table_t)
Blank == [kind |-> "blank"]
Nothing == [call |-> "none"]
Stopped == [call |-> "stopped"]
Unknown == -1

Even(n) == n + (n % 2)                \* _cdio_ceil2block(n, 2)

---------------------------------------------------------------------------
(* Directory records.                                                      *)

(* iso9660_dir_calc_record_size: what a program plans with.                *)
CalcRecordSize(namelen, su) == Even(Even(HeaderSize + namelen) + su)

(* _cdio_ofs_add: past an addend that does not go across blocks.           *)
CeilBlock(n) == ((n + (ISO_BLOCKSIZE - 1)) \div ISO_BLOCKSIZE) * ISO_BLOCKSIZE
OfsAdd(offset, length) ==
  (IF ISO_BLOCKSIZE - (offset % ISO_BLOCKSIZE) < length THEN CeilBlock(offset) ELSE offset) + length

(* Where the last record ends: a record's first byte is its length, and    *)
(* blank bytes are gone over one by one.                                   *)
LastRecordEnd(ext) == Max({0} \cup {at + ext[at].len : at \in DOMAIN ext})
DirectorySize(dir) == IF 0 \in DOMAIN dir.ext THEN dir.ext[0].size ELSE ISO_BLOCKSIZE

(* iso9660_dir_add_entry_su; an assertion leaves one byte after the record *)
(* at least, and an empty name takes one character all the same.           *)
WithRecord(dir, f) ==
  LET length == Even(Even(HeaderSize + f.len) + f.su)
      at     == OfsAdd(LastRecordEnd(dir.ext), length) - length
  IN IF at + length >= DirectorySize(dir) THEN Stopped
     ELSE [dir EXCEPT !.ext = [o \in DOMAIN @ \cup {at} |->
                                 IF o = at THEN [len |-> length % 256, id |-> f.id, size |-> f.size]
                                 ELSE @[o]]]

Dot(size) == [len |-> 0, su |-> 0, id |-> "self", size |-> size]
DotDot(size) == [len |-> 1, su |-> 0, id |-> "parent", size |-> size]

(* iso9660_dir_init_new *)
NewDirectory(size, parentSize) ==
  /\ block = Blank /\ said = Nothing
  /\ block' = WithRecord(WithRecord([kind |-> "directory", ext |-> << >>], Dot(size)), DotDot(parentSize))
  /\ given' = <<Dot(size), DotDot(parentSize)>>
  /\ UNCHANGED said

AddEntry(f) ==
  /\ block.kind = "directory" /\ said # Stopped
  /\ LET dir == WithRecord(block, f)
     IN \/ dir = Stopped /\ said' = Stopped /\ UNCHANGED block
        \/ dir # Stopped /\ block' = dir /\ UNCHANGED said
  /\ given' = Append(given, f)

---------------------------------------------------------------------------
(* Path tables, in either order of bytes.                                  *)

EntrySize(e) == Even(TableHeaderSize + (IF e.len = 0 THEN 1 ELSE e.len))

(* pathtable_get_size_and_entries: up to an entry without a name.          *)
TableSize(entries) == FoldLeft(LAMBDA size, e : size + EntrySize(e), 0, entries)

(* iso9660_pathtable_init clears one block.                                *)
ClearTable ==
  /\ block = Blank /\ said = Nothing
  /\ block' = [kind |-> "table", entries |-> << >>]
  /\ UNCHANGED <<given, said>>

(* The assertion after the entry was written: the one before it has not a  *)
(* greater parent.                                                         *)
ParentsTurned(entries) ==
  /\ Len(entries) > 1
  /\ entries[Len(entries) - 1].parent > Last(entries).parent

(* iso9660_pathtable_l_add_entry and _m_add_entry: the assertion about the  *)
(* size is made before the entry is added, and past the cleared block the  *)
(* count of entries goes on into whatever the memory holds.                *)
Added(entries) ==
  IF TableSize(entries) >= ISO_BLOCKSIZE THEN [call |-> "table", number |-> Unknown]
  ELSE IF ParentsTurned(entries) THEN Stopped
  ELSE [call |-> "table", number |-> Len(entries)]

AddTableEntry(e, parent) ==
  /\ block.kind = "table" /\ said # Stopped /\ Len(block.entries) < TableMax
  /\ LET full    == TableSize(block.entries) >= ISO_BLOCKSIZE
         entries == Append(block.entries, [len |-> e.len, id |-> e.id, parent |-> parent])
     IN IF full THEN said' = Stopped /\ UNCHANGED block
        ELSE block' = [block EXCEPT !.entries = entries] /\ said' = Added(entries)
  /\ given' = Append(given, [id |-> e.id, parent |-> parent])

---------------------------------------------------------------------------
(* Names.                                                                  *)

Slash == 47
Period == 46
Semicolon == 59
Blanks == 32

IsDchar(c) == c \in 48 .. 95 /\ c \notin 58 .. 64 /\ c \notin 91 .. 94
ToLower(c) == IF c \in 65 .. 90 THEN c + 32 ELSE c

(* iso9660_dirname_valid_p: the length of the part it is in, or -1.        *)
PartAfter(len, c) ==
  IF len = -1 THEN -1
  ELSE IF IsDchar(c) THEN (IF len = NameMax THEN -1 ELSE len + 1)
  ELSE IF c = Slash /\ len > 0 THEN 0 ELSE -1

DirnameValid(p) ==
  /\ p # << >> /\ Head(p) \notin {Slash, Period}
  /\ Len(p) <= MAX_ISOPATHNAME
  /\ FoldLeft(PartAfter, 0, p) > 0

(* iso9660_pathname_valid_p *)
LastSlash(p) == Max({0} \cup {i \in DOMAIN p : p[i] = Slash})
InName(acc, c) ==
  IF acc.len = -1 THEN acc
  ELSE IF IsDchar(c) /\ acc.len < (IF acc.dots = 0 THEN NameMax ELSE ExtMax)
       THEN [acc EXCEPT !.len = @ + 1]
  ELSE IF c = Period /\ acc.dots = 0 /\ acc.len > 0 THEN [len |-> 0, dots |-> 1]
  ELSE [acc EXCEPT !.len = -1]

PathnameValid(p) ==
  LET name == FoldLeft(InName, [len |-> 0, dots |-> 0], SubSeq(p, LastSlash(p) + 1, Len(p)))
  IN /\ LastSlash(p) > 0 => DirnameValid(SubSeq(p, 1, LastSlash(p) - 1))
     /\ Len(p) <= MAX_ISOPATHNAME - 6
     /\ name.len # -1 /\ name.dots = 1

(* iso9660_pathname_isofy *)
Digits(n) ==
  LET digits[k \in 0 .. n] == IF k < 10 THEN <<48 + k>> ELSE Append(digits[k \div 10], 48 + (k % 10))
  IN digits[n]
Isofy(p, version) == p \o <<Semicolon>> \o Digits(version)

(* iso9660_name_translate_ext: the name is cut at a version of 1 at its    *)
(* end, with the period before it.                                         *)
EndsWith(s, t) == Len(s) >= Len(t) /\ SubSeq(s, Len(s) - Len(t) + 1, Len(s)) = t
CutAt(s) ==
  IF EndsWith(s, <<Period, Semicolon, 49>>) THEN Len(s) - 3
  ELSE IF EndsWith(s, <<Semicolon, 49>>) THEN Len(s) - 2 ELSE Len(s)
Translate(s, joliet) ==
  [i \in 1 .. CutAt(s) |-> IF s[i] = Semicolon THEN Period
                           ELSE IF joliet > 0 THEN s[i] ELSE ToLower(s[i])]

CheckName(p, version) ==
  /\ block = Blank /\ said = Nothing
  /\ said' = [call |-> "name", of |-> p, version |-> version,
              directory |-> DirnameValid(p), path |-> PathnameValid(p),
              listed |-> Translate(Isofy(p, version), 0)]
  /\ UNCHANGED <<block, given>>

---------------------------------------------------------------------------
(* Identifiers of a volume descriptor.                                     *)

(* iso9660_strncpy_pad *)
Padded(s, len) == [i \in 1 .. len |-> IF i <= Len(s) THEN s[i] ELSE Blanks]

(* strip_trail *)
StripTrail(field) == SubSeq(field, 1, Max({0} \cup {i \in DOMAIN field : field[i] # Blanks}))

(* get_member_id: the Joliet descriptor's identifier, of half as many      *)
(* characters, unless it is blank or how the primary one's begins; a blank *)
(* primary one is none at all.                                             *)
NoId == <<0>>
PlainId(pvd) == IF StripTrail(pvd) = << >> THEN NoId ELSE StripTrail(pvd)
MemberId(level, pvd, svd) ==
  IF level > 0 /\ ~IsPrefix(svd, pvd) /\ StripTrail(svd) # << >> THEN StripTrail(svd)
  ELSE PlainId(pvd)

(* iso9660_get_volume_id and its like, from a descriptor; and              *)
(* iso9660_ifs_get_volume_id and its like, from an opened image.           *)
PvdId(pvd) == StripTrail(pvd)
IfsId(level, pvd, svd) == MemberId(level, pvd, svd)

(* iso9660_set_pvd, and a descriptor that another program made for Joliet. *)
Identify(plain, joliet, level) ==
  /\ block = Blank /\ said = Nothing
  /\ LET pvd == Padded(plain, FieldSize)
         svd == Padded(joliet, FieldSize \div 2)
     IN said' = [call |-> "identify", plain |-> plain, joliet |-> joliet, level |-> level,
                 stripped |-> PvdId(pvd), member |-> IfsId(level, pvd, svd)]
  /\ UNCHANGED <<block, given>>

---------------------------------------------------------------------------
(* The block is written out, or the program that was stopped is started    *)
(* again.                                                                  *)
Done ==
  /\ <<block, said>> # <<Blank, Nothing>>
  /\ block' = Blank /\ given' = << >> /\ said' = Nothing

Init == block = Blank /\ given = << >> /\ said = Nothing

Next ==
  \/ \E size, parent \in DirSizes : NewDirectory(size, parent)
  \/ \E f \in Files : AddEntry(f)
  \/ ClearTable
  \/ \E e \in TableEntries, parent \in 1 .. TableMax : AddTableEntry(e, parent)
  \/ \E p \in Strings, v \in Versions : CheckName(p, v)
  \/ \E plain, joliet \in Ids, level \in {0, 3} : Identify(plain, joliet, level)
  \/ Done

Spec == Init /\ [][Next]_vars

---------------------------------------------------------------------------
(* Properties.                                                             *)

(* A program that plans a directory with calc_record_size and ofs_add gets *)
(* the directory it planned: the records end where the sizes say, and an    *)
(* entry is refused by the assertion only when the plan leaves not a byte  *)
(* of the directory's size (iso9660_dir_calc_record_size, _cdio_ofs_add,    *)
(* iso9660_dir_add_entry_su).                                              *)
Planned == FoldLeft(LAMBDA at, f : OfsAdd(at, CalcRecordSize(IF f.len = 0 THEN 1 ELSE f.len, f.su)),
                    0, given)
FilledAsPlanned ==
  block.kind = "directory" =>
    IF said = Stopped THEN Planned >= DirectorySize(block)
    ELSE LastRecordEnd(block.ext) = Planned

(* The number that is answered for an entry of a path table is its place,  *)
(* by which later entries name it as their parent, and the parents never   *)
(* turn back over the whole table, though each call compares two entries   *)
(* only (iso9660_pathtable_l_add_entry, _m_add_entry).                     *)
TableAsGiven ==
  said.call = "table" =>
    /\ said.number \in {Len(given), Unknown}
    /\ said.number = Unknown => TableSize(block.entries) >= ISO_BLOCKSIZE
    /\ \A i, j \in DOMAIN given : i < j /\ j <= said.number => given[i].parent <= given[j].parent

(* Valid names are those of the standard's first level, and a valid path   *)
(* completed with a version is listed under the path again: in lower case, *)
(* without the version if it is 1, and then without an empty extension's   *)
(* period (iso9660_dirname_valid_p, _pathname_valid_p, _pathname_isofy,    *)
(* _name_translate_ext).                                                   *)
Components(p) ==
  LET cuts == {0, Len(p) + 1} \cup {i \in DOMAIN p : p[i] = Slash}
      next(a) == Min({b \in cuts : b > a})
  IN {SubSeq(p, a + 1, next(a) - 1) : a \in cuts \ {Len(p) + 1}}
AllDchars(s, n) == Len(s) <= n /\ \A i \in DOMAIN s : IsDchar(s[i])
LevelOneDirectory(p) == \A s \in Components(p) : s # << >> /\ AllDchars(s, NameMax)
LevelOnePath(p) ==
  LET dir == SubSeq(p, 1, LastSlash(p) - 1)
  IN /\ LastSlash(p) > 0 => LevelOneDirectory(dir)
     /\ \E dot \in LastSlash(p) + 2 .. Len(p) :
          /\ p[dot] = Period
          /\ AllDchars(SubSeq(p, LastSlash(p) + 1, dot - 1), NameMax)
          /\ AllDchars(SubSeq(p, dot + 1, Len(p)), ExtMax)
Lowered(p) == [i \in DOMAIN p |-> ToLower(p[i])]
ListedName(p, version) ==
  IF version # 1 THEN Lowered(p) \o <<Period>> \o Digits(version)
  ELSE IF EndsWith(p, <<Period>>) THEN Lowered(Front(p)) ELSE Lowered(p)
NamesOfLevelOne ==
  said.call = "name" =>
    /\ said.directory = LevelOneDirectory(said.of)
    /\ said.path = LevelOnePath(said.of)
    /\ said.path => said.listed = ListedName(said.of, said.version)

(* An identifier is read as it was written, cut to its field: the primary  *)
(* descriptor's, and with Joliet one that begins as the Joliet descriptor's *)
(* does (iso9660_strncpy_pad, strip_trail, get_member_id).                 *)
IdentifiedAsWritten ==
  said.call = "identify" =>
    LET kept(s, n) == StripTrail(SubSeq(s, 1, Min({n, Len(s)})))
        joliet     == kept(said.joliet, FieldSize \div 2)
    IN /\ said.stripped = kept(said.plain, FieldSize)
       /\ said.level > 0 /\ joliet # << >> => IsPrefix(joliet, said.member)
       /\ said.level = 0 => said.member = PlainId(said.stripped)

WrittenAsGiven == FilledAsPlanned /\ TableAsGiven /\ NamesOfLevelOne /\ IdentifiedAsWritten
============================================================================
