------------------------------- MODULE SzymFS -------------------------------
(***************************************************************************)
(* kernel/filesystem.c: SzymFS, the kernel's one-level filesystem.  The    *)
(* whole image (a header with one entry per slot, then a fixed data area   *)
(* per slot) lives in RAM; every create and delete rewrites it to the      *)
(* drive, sector by sector, header first, data after; a boot reads it      *)
(* back in the same order.  Between two sectors the power may go, and any  *)
(* sector may fail: the granularity of this module is one sector.          *)
(*                                                                         *)
(* The caller is the shell (one command at a time) and, at boot,           *)
(* kernel_main, which creates README.txt when it does not find it.         *)
(***************************************************************************)
EXTENDS Integers, Sequences, FiniteSets

CONSTANTS
  MAX_FILES,      \* slots in the header
  MAX_FILE_SIZE,  \* room of one slot, counted in data sectors
  SECTOR_SIZE,    \* bytes in a sector
  COUNT_MOD,      \* where the unsigned file_count wraps: 2^32 in the code
  NUL,            \* the byte that ends a name
  Part,           \* the bytes of a name on one side of a sector boundary
  ShortPart,      \* those of them that already hold the NUL
  Names,          \* names of at most MAX_FILENAME - 1 bytes callers pass
  LongNames,      \* longer names callers pass ...
  Trunc,          \* ... and the name fs_create_file cuts each of them down to
  Block,          \* the contents of one data sector
  ZERO,           \* the block memset leaves
  WILD,           \* what a read past the end of fs_data returns
  Contents,       \* what callers store: nonempty sequences of blocks
  README, README_TEXT,
  InitDisks,      \* the images the drive may hold before the first boot
  Strays,         \* images whose sectors are what another sector's words
                  \* amount to when they are stored there
  Faults          \* "power": it goes between two sectors; "read", "write": a
                  \* sector times out; "late": the drive may go on with it;
                  \* "probe": so it may with what disks asks; "lost": a
                  \* sector is dropped with an error nobody looks at

Slots       == 0 .. MAX_FILES - 1
DataSectors == 0 .. MAX_FILES * MAX_FILE_SIZE - 1

(* filesystem_header_t: magic and file_count (8 bytes), then per slot the  *)
(* 32 bytes of the name, size, offset, used and padding (44 bytes).        *)
EntryByte(s)    == 8 + 44 * s
NameLoSector(s) == EntryByte(s) \div SECTOR_SIZE
NameHiSector(s) == (EntryByte(s) + 31) \div SECTOR_SIZE
MetaSector(s)   == (EntryByte(s) + 32) \div SECTOR_SIZE
HEADER_SECTORS  == (EntryByte(MAX_FILES) + SECTOR_SIZE - 1) \div SECTOR_SIZE

(* A name is what precedes a sector boundary inside the field, and what    *)
(* follows it.                                                             *)
Name      == [lo: Part \cup {NUL}, hi: Part \cup {NUL}]
EmptyName == [lo |-> NUL, hi |-> NUL]
Ends(lo)  == lo \in ShortPart \cup {NUL}

Entry  == [lo: Part \cup {NUL}, hi: Part \cup {NUL},
           size: Nat, offset: Nat, used: BOOLEAN]
Header == [magic: BOOLEAN, file_count: 0 .. COUNT_MOD - 1,
           files: [Slots -> Entry]]
Image  == [hdr: Header, data: [DataSectors -> Block]]

ASSUME SizeAssumption ==
  /\ MAX_FILES \in Nat \ {0} /\ MAX_FILE_SIZE \in Nat \ {0}
  /\ SECTOR_SIZE \in Nat /\ SECTOR_SIZE >= 32
  /\ COUNT_MOD \in Nat \ {0}

(* size, offset and used of an entry never straddle a sector boundary: so  *)
(* it is in the code, where only the names of entries 11 and 23 do.        *)
ASSUME LayoutAssumption ==
  \A s \in Slots : MetaSector(s) = (EntryByte(s) + 40) \div SECTOR_SIZE

ASSUME NameAssumption ==
  /\ ShortPart \subseteq Part /\ NUL \notin Part
  /\ Names \subseteq Name /\ README \in Names
  /\ \A n \in Names : n # EmptyName /\ (Ends(n.lo) => n.hi = NUL)
  /\ LongNames \cap Name = {} /\ Trunc \in [LongNames -> Names]

ASSUME ContentAssumption ==
  /\ ZERO \in Block /\ WILD \notin Block
  /\ Contents \subseteq Seq(Block) \ {<<>>}
  /\ README_TEXT \in Contents /\ Len(README_TEXT) <= MAX_FILE_SIZE

ASSUME DiskAssumption ==
  /\ InitDisks \subseteq Image /\ Strays \subseteq Image
  /\ Faults \subseteq {"power", "read", "write", "late", "probe", "lost"}

VARIABLES
  hdr,         \* fs_header
  data,        \* fs_data, one block per data sector
  persistent,  \* fs_persistent
  selected,    \* fs_drive_selected, and what ata_is_selected() returns
  disk,        \* the image on the drive from FS_START_SECTOR on
  pc,          \* where the kernel is
  sec,         \* the loop index i of the load or save in progress
  back,        \* where fs_save_to_disk returns to
  said,        \* the last verdict on persistence printed on the terminal
  reply,       \* what the last filesystem call gave its caller: a code,
               \* with the bytes read or the names listed
  owed,        \* the command the drive goes on with after a timeout
  durable,     \* history: files said to be saved, not deleted since
  hit          \* history: those with a part in a sector that another one's
               \* words were stored in, since the last save that was good

ram  == <<hdr, data, persistent, selected>>
vars == <<hdr, data, persistent, selected, disk, pc, sec, back, said, reply,
          owed, durable, hit>>

-----------------------------------------------------------------------------
(* Reading an image.                                                       *)

EmptyHeader ==
  [magic |-> TRUE, file_count |-> 0,
   files |-> [s \in Slots |-> [lo |-> NUL, hi |-> NUL, size |-> 0,
                               offset |-> 0, used |-> FALSE]]]
ZeroData == [i \in DataSectors |-> ZERO]

(* The string a name field holds: bytes after the NUL do not count.        *)
StoredName(e) == [lo |-> e.lo, hi |-> IF Ends(e.lo) THEN NUL ELSE e.hi]

UsedSlots(h)   == {s \in Slots : h.files[s].used}
FreeSlots(h)   == {s \in Slots : ~h.files[s].used}
Matching(h, n) == {s \in UsedSlots(h) : StoredName(h.files[s]) = n}

(* The slot the linear searches stop at.                                   *)
IsFirst(s, S) == s \in S /\ \A t \in S : s <= t

(* The bytes fs_read_file copies: at most max_size - 1 = MAX_FILE_SIZE.    *)
FileText(h, d, s) ==
  LET e == h.files[s]
  IN  [k \in 1 .. (IF e.size > MAX_FILE_SIZE THEN MAX_FILE_SIZE ELSE e.size)
         |-> IF e.offset + k - 1 \in DataSectors THEN d[e.offset + k - 1]
                                                 ELSE WILD]

(* The files of an image, each with the slot it is in.                     *)
FilesIn(img) ==
  IF img.hdr.magic
  THEN {[slot |-> s, name |-> StoredName(img.hdr.files[s]),
         text |-> FileText(img.hdr, img.data, s)] : s \in UsedSlots(img.hdr)}
  ELSE {}

RamImage == [hdr |-> hdr, data |-> data]

(* Where the data of slot s begins, and the files that lie there (others   *)
(* are made of bytes of other files).                                      *)
SlotStart_OneShort(s) == s * (MAX_FILE_SIZE - 1)
SlotStart(s)          == s * MAX_FILE_SIZE

InPlace(h, s) == /\ h.files[s].offset = SlotStart(s)
                 /\ h.files[s].size <= MAX_FILE_SIZE
OwnFiles(img) == {f \in FilesIn(img) : InPlace(img.hdr, f.slot)}

(* Header "to" once header sector i of "from" has been copied over it.     *)
WithHeaderSector(to, from, i) ==
  [magic      |-> IF i = 0 THEN from.magic ELSE to.magic,
   file_count |-> IF i = 0 THEN from.file_count ELSE to.file_count,
   files      |-> [s \in Slots |->
     LET t == to.files[s]  f == from.files[s]  meta == MetaSector(s) = i
     IN  [lo     |-> IF NameLoSector(s) = i THEN f.lo ELSE t.lo,
          hi     |-> IF NameHiSector(s) = i THEN f.hi ELSE t.hi,
          size   |-> IF meta THEN f.size ELSE t.size,
          offset |-> IF meta THEN f.offset ELSE t.offset,
          used   |-> IF meta THEN f.used ELSE t.used]]]

(* An image once one sector of "from" has been stored in it.               *)
WithSector(to, from, place) ==
  IF place.area = "header"
  THEN [to EXCEPT !.hdr = WithHeaderSector(to.hdr, from.hdr, place.sec)]
  ELSE [to EXCEPT !.data[place.sec] = from.data[place.sec]]

(* The sectors a file has a part in.                                       *)
HasPartIn(f, place) ==
  IF place.area = "header"
  THEN place.sec \in {NameLoSector(f.slot), NameHiSector(f.slot), MetaSector(f.slot)}
  ELSE place.sec - SlotStart(f.slot) \in 0 .. Len(f.text) - 1

-----------------------------------------------------------------------------
(* Powering up: fs_init empties the image and loads it if a drive has been *)
(* selected.  Everything in RAM is lost when the machine goes down.        *)

(* Commands that time out waiting for DRQ, which the drive may go on with. *)
Order   == [op: {"READ", "WRITE", "IDENTIFY"}, area: {"header", "data"}, sec: Nat]
NoOrder == [op |-> "none", area |-> "header", sec |-> 0]

NoReply == [op |-> "done", code |-> 0, text |-> <<>>, names |-> {}]

Init ==
  /\ hdr = EmptyHeader /\ data = ZeroData
  /\ persistent = FALSE /\ selected = FALSE
  /\ disk \in InitDisks
  /\ pc = "off" /\ sec = 0 /\ back = "shell"
  /\ said = "quiet" /\ reply = NoReply
  /\ owed = NoOrder /\ durable = OwnFiles(disk) /\ hit = {}

Boot(drive) ==
  /\ pc = "off"
  /\ hdr' = EmptyHeader /\ data' = ZeroData
  /\ selected' = drive
  /\ pc' = IF drive THEN "loadHeader" ELSE "loaded"
  /\ sec' = 0
  /\ UNCHANGED <<persistent, disk, back, said, reply, owed, durable, hit>>

PowerDown ==
  /\ pc' = "off" /\ sec' = 0 /\ back' = "shell"
  /\ hdr' = EmptyHeader /\ data' = ZeroData
  /\ persistent' = FALSE /\ selected' = FALSE
  /\ said' = "quiet" /\ reply' = NoReply /\ owed' = NoOrder
  /\ UNCHANGED <<disk, durable, hit>>

Reboot    == pc = "shell" /\ PowerDown
PowerLoss == "power" \in Faults /\ pc \notin {"off", "shell"} /\ PowerDown

-----------------------------------------------------------------------------
(* The loops over sectors 0 .. n - 1 go on after sector sec.               *)

More_OffByOne(n)   == sec < n
More_StopsShort(n) == sec + 2 < n
More(n)            == sec + 1 < n
DATA_SECTORS       == MAX_FILES * MAX_FILE_SIZE

-----------------------------------------------------------------------------
(* fs_save_to_disk.  The RAM-only warning returns at once; otherwise the   *)
(* header sectors are written, then the data sectors.                      *)

BeginSave(ret) ==
  /\ pc' = "saveHeader" /\ sec' = 0 /\ back' = ret
  /\ said' = "quiet"

Save(ret) ==
  IF selected
  THEN BeginSave(ret) /\ UNCHANGED persistent
  ELSE /\ pc' = ret /\ sec' = 0 /\ back' = ret
       /\ said' = "ram-only" /\ persistent' = FALSE

(* The sector a loop is at.                                                *)
Here(op) ==
  [op   |-> op,
   area |-> IF pc \in {"loadHeader", "saveHeader"} THEN "header" ELSE "data",
   sec  |-> sec]

(* A call gave up, waiting to be let in or for DRQ.  In the second case    *)
(* the drive has the command.                                              *)
GivenUp(op) ==
  \/ UNCHANGED owed
  \/ "late" \in Faults /\ owed = NoOrder /\ owed' = Here(op)

(* A timeout in fs_write_sector_direct gives up on the whole save.         *)
WriteFails_StartsOver ==
  /\ "write" \in Faults /\ GivenUp("WRITE")
  /\ persistent' = FALSE /\ said' = "error"
  /\ pc' = pc /\ sec' = 0
  /\ UNCHANGED <<disk, durable, hit>>

WriteFails ==
  /\ "write" \in Faults /\ GivenUp("WRITE")
  /\ persistent' = FALSE /\ said' = "error"
  /\ pc' = back /\ sec' = 0
  /\ UNCHANGED <<disk, durable, hit>>

(* The words go to the sector of the write still owed, or nowhere when the *)
(* drive waits to be read.                                                 *)
WrittenLate(img) ==
  \/ /\ owed.op = "WRITE" /\ owed' = NoOrder
     /\ \/ owed = Here("WRITE") /\ disk' = img
        \/ /\ owed # Here("WRITE")
           /\ \E stray \in Strays : disk' = WithSector(disk, stray, owed)
  \/ owed.op \in {"READ", "IDENTIFY"} /\ UNCHANGED <<disk, owed>>

(* The drive took the sector, or reported an error in a status bit that    *)
(* the code does not read and dropped it, or was at another command: the   *)
(* call returns 0 all the same.                                            *)
Written_Unchecked(img) ==
  (disk' = img \/ disk' = disk) /\ owed' = NoOrder

Written(img) ==
  \/ owed = NoOrder /\ disk' = img /\ UNCHANGED owed
  \/ "lost" \in Faults /\ owed = NoOrder /\ UNCHANGED <<disk, owed>>
  \/ WrittenLate(img)

NowHit ==
  IF owed.op = "WRITE" /\ owed # Here("WRITE")
  THEN hit \cup {f \in durable : HasPartIn(f, owed)} ELSE hit

SaveHeaderSector ==
  /\ pc = "saveHeader"
  /\ \/ /\ Written([disk EXCEPT !.hdr = WithHeaderSector(disk.hdr, hdr, sec)])
        /\ IF More(HEADER_SECTORS)
           THEN pc' = pc /\ sec' = sec + 1
           ELSE pc' = "saveData" /\ sec' = 0
        /\ hit' = NowHit
        /\ UNCHANGED <<persistent, said, durable>>
     \/ WriteFails
  /\ UNCHANGED <<hdr, data, selected, back, reply>>

(* Success is reported, and the files are saved, if no save has timed out  *)
(* since the boot.                                                         *)
SaveDataSector ==
  /\ pc = "saveData"
  /\ \/ /\ Written([disk EXCEPT !.data[sec] = data[sec]])
        /\ IF More(DATA_SECTORS)
           THEN pc' = pc /\ sec' = sec + 1
           ELSE pc' = back /\ sec' = 0
        /\ IF ~More(DATA_SECTORS) /\ persistent
           THEN /\ said' = "saved"
                /\ durable' = OwnFiles(RamImage) /\ hit' = {}
           ELSE /\ hit' = NowHit
                /\ UNCHANGED <<said, durable>>
        /\ UNCHANGED persistent
     \/ WriteFails
  /\ UNCHANGED <<hdr, data, selected, back, reply>>

-----------------------------------------------------------------------------
(* fs_load_from_disk.  A header sector that cannot be read abandons the    *)
(* load, with the sectors read so far in fs_header; a data sector that     *)
(* cannot be read leaves its zeros in fs_data.                             *)

ReadFails == "read" \in Faults

LoadHeaderSector ==
  /\ pc = "loadHeader"
  /\ \/ /\ hdr' = WithHeaderSector(hdr, disk.hdr, sec)
        /\ IF More(HEADER_SECTORS)
           THEN pc' = pc /\ sec' = sec + 1
           ELSE pc' = "checkMagic" /\ sec' = 0
        /\ UNCHANGED owed
     \/ /\ ReadFails /\ GivenUp("READ")
        /\ pc' = "loaded" /\ sec' = 0 /\ UNCHANGED hdr
  /\ UNCHANGED <<data, persistent, selected, disk, back, said, reply, durable,
                 hit>>

(* Without the magic the slots are marked free, their other fields left as *)
(* the disk had them, and the new image is saved.                          *)
Formatted_KeepsCount(h) ==
  [h EXCEPT !.magic = TRUE,
            !.files = [s \in Slots |-> [h.files[s] EXCEPT !.used = FALSE]]]

Formatted(h) ==
  [magic |-> TRUE, file_count |-> 0,
   files |-> [s \in Slots |-> [h.files[s] EXCEPT !.used = FALSE]]]

CheckMagic ==
  /\ pc = "checkMagic"
  /\ \/ /\ hdr.magic
        /\ pc' = "loadData" /\ sec' = 0
        /\ UNCHANGED <<hdr, data, persistent, back, said>>
     \/ /\ ~hdr.magic
        /\ hdr' = Formatted(hdr) /\ data' = ZeroData
        /\ persistent' = TRUE
        /\ BeginSave("loaded")
  /\ UNCHANGED <<selected, disk, reply, owed, durable, hit>>

(* What comes is the sector of the read still owed, if there is one.       *)
Arriving == IF owed = NoOrder THEN sec ELSE owed.sec

LoadDataSector ==
  /\ pc = "loadData"
  /\ \/ data' = [data EXCEPT ![sec] = disk.data[Arriving]] /\ owed' = NoOrder
     \/ ReadFails /\ GivenUp("READ") /\ UNCHANGED data
  /\ IF More(DATA_SECTORS)
     THEN pc' = pc /\ sec' = sec + 1 /\ UNCHANGED persistent
     ELSE pc' = "loaded" /\ sec' = 0 /\ persistent' = TRUE
  /\ UNCHANGED <<hdr, selected, disk, back, said, reply, durable, hit>>

-----------------------------------------------------------------------------
(* The calls.                                                              *)

Cut(n) == IF n \in LongNames THEN Trunc[n] ELSE n

(* What fs_create_file answers, in the order of its tests.  The test for   *)
(* an existing file compares the name as given, before it is cut.          *)
CreateCode_FullFirst(n, c) ==
  CASE FreeSlots(hdr) = {} -> -3
    [] FreeSlots(hdr) # {} /\ Matching(hdr, n) # {} -> -2
    [] FreeSlots(hdr) # {} /\ Matching(hdr, n) = {}
         -> IF Len(c) > MAX_FILE_SIZE THEN -4 ELSE 0

CreateCode_NoLookup(n, c) == IF FreeSlots(hdr) = {} THEN -3 ELSE 0

CreateCode(n, c) ==
  CASE Matching(hdr, n) # {}   -> -2
    [] Matching(hdr, n) = {} /\ FreeSlots(hdr) = {} -> -3
    [] Matching(hdr, n) = {} /\ FreeSlots(hdr) # {}
         -> IF Len(c) > MAX_FILE_SIZE THEN -4 ELSE 0

(* Entry e given the name n: bytes after the NUL keep what they held.      *)
Named(e, n) ==
  [e EXCEPT !.lo = n.lo, !.hi = IF Ends(n.lo) THEN @ ELSE n.hi]

Fill(s, n, c) ==
  /\ hdr' = [hdr EXCEPT
       !.file_count = (@ + 1) % COUNT_MOD,
       !.files[s] = [Named(@, Cut(n)) EXCEPT !.size = Len(c),
                       !.offset = SlotStart(s), !.used = TRUE]]
  /\ data' = [i \in DataSectors |->
       IF i - SlotStart(s) \in 0 .. Len(c) - 1
       THEN c[i - SlotStart(s) + 1] ELSE data[i]]

CreateFile(n, c) ==
  \/ /\ CreateCode(n, c) # 0
     /\ pc' = "shell" /\ sec' = 0
     /\ UNCHANGED <<hdr, data, persistent, back, said>>
  \/ /\ CreateCode(n, c) = 0
     /\ \E s \in Slots : IsFirst(s, FreeSlots(hdr)) /\ Fill(s, n, c)
     /\ Save("shell")

Answer(op, code, text, names) ==
  reply' = [op |-> op, code |-> code, text |-> text, names |-> names]

FsCreateFile(n, c) ==
  /\ pc = "shell"
  /\ CreateFile(n, c)
  /\ Answer("done", CreateCode(n, c), <<>>, {})
  /\ UNCHANGED <<selected, disk, owed, durable, hit>>

(* name[0] = 0 ends the name at its first byte.                            *)
Cleared(h, s) ==
  [h EXCEPT !.file_count = (@ - 1) % COUNT_MOD,
            !.files[s] = [@ EXCEPT !.used = FALSE, !.lo = NUL]]

FsDeleteFile(n) ==
  /\ pc = "shell"
  /\ \/ /\ Matching(hdr, n) = {}
        /\ Answer("done", -1, <<>>, {})
        /\ UNCHANGED <<hdr, persistent, pc, sec, back, said, durable, hit>>
     \/ \E s \in Slots :
          /\ IsFirst(s, Matching(hdr, n))
          /\ hdr' = Cleared(hdr, s)
          /\ IF selected
             THEN /\ durable' = {f \in durable : f.slot # s}
                  /\ hit' = {f \in hit : f.slot # s}
             ELSE UNCHANGED <<durable, hit>>
          /\ Answer("done", 0, <<>>, {})
          /\ Save("shell")
  /\ UNCHANGED <<data, selected, disk, owed>>

FsReadFile(n) ==
  /\ pc = "shell"
  /\ \/ Matching(hdr, n) = {} /\ Answer("read", -1, <<>>, {})
     \/ \E s \in Slots : /\ IsFirst(s, Matching(hdr, n))
                         /\ Answer("read", 0, FileText(hdr, data, s), {})
  /\ UNCHANGED <<ram, disk, pc, sec, back, said, owed, durable, hit>>

(* fs_list_files trusts file_count before it looks at the entries.         *)
FsListFiles ==
  /\ pc = "shell"
  /\ Answer("list", 0, <<>>,
            IF hdr.file_count = 0 THEN {}
            ELSE {StoredName(hdr.files[s]) : s \in UsedSlots(hdr)})
  /\ UNCHANGED <<ram, disk, pc, sec, back, said, owed, durable, hit>>

(* The shell's "save" command.                                             *)
SaveCommand ==
  /\ pc = "shell"
  /\ Save("shell")
  /\ Answer("done", 0, <<>>, {})
  /\ UNCHANGED <<hdr, data, selected, disk, owed, durable, hit>>

(* kernel_main once fs_init has returned.                                  *)
EnsureReadme ==
  /\ pc = "loaded"
  /\ \/ /\ Matching(hdr, README) # {}
        /\ pc' = "shell"
        /\ UNCHANGED <<hdr, data, persistent, sec, back, said>>
     \/ Matching(hdr, README) = {} /\ CreateFile(README, README_TEXT)
  /\ UNCHANGED <<selected, disk, reply, owed, durable, hit>>

(* The disks command gives up on a slow drive's identification.            *)
DisksGivesUp ==
  /\ pc = "shell" /\ selected /\ "probe" \in Faults /\ owed = NoOrder
  /\ owed' = [NoOrder EXCEPT !.op = "IDENTIFY"]
  /\ UNCHANGED <<ram, disk, pc, sec, back, said, reply, durable, hit>>

(* The drive drops what it owes, or the disks command takes it.            *)
Settle ==
  /\ owed # NoOrder /\ owed' = NoOrder
  /\ UNCHANGED <<ram, disk, pc, sec, back, said, reply, durable, hit>>

-----------------------------------------------------------------------------

Program ==
  \/ LoadHeaderSector \/ CheckMagic \/ LoadDataSector
  \/ EnsureReadme \/ SaveHeaderSector \/ SaveDataSector

(* cat and rm take the rest of the line, the empty one included.           *)
User ==
  \/ \E drive \in BOOLEAN : Boot(drive)
  \/ \E n \in Names \cup LongNames \cup {EmptyName} : FsDeleteFile(n) \/ FsReadFile(n)
  \/ \E n \in Names \cup LongNames, c \in Contents : FsCreateFile(n, c)
  \/ FsListFiles \/ SaveCommand \/ DisksGivesUp \/ Reboot

Next == Program \/ User \/ PowerLoss \/ Settle

Spec     == Init /\ [][Next]_vars
FairSpec == Spec /\ WF_vars(Program)

-----------------------------------------------------------------------------
(* What is meant to hold.                                                  *)

PCs == {"off", "loadHeader", "checkMagic", "loadData", "loaded",
        "saveHeader", "saveData", "shell"}

FileRecord == [slot: Slots, name: Name, text: Seq(Block \cup {WILD})]
Reply == [op: {"done", "read", "list"},
          code: -4 .. 0, text: Seq(Block \cup {WILD}), names: SUBSET Name]

RamTypeOK ==
  /\ hdr \in Header /\ data \in [DataSectors -> Block]
  /\ persistent \in BOOLEAN /\ selected \in BOOLEAN
ControlTypeOK ==
  /\ pc \in PCs /\ sec \in Nat
  /\ pc \in {"loadHeader", "saveHeader"} => sec < HEADER_SECTORS
  /\ pc \in {"loadData", "saveData"} => sec \in DataSectors
  /\ back \in {"loaded", "shell"}
  /\ said \in {"quiet", "ram-only", "error", "saved"}
RecordsTypeOK ==
  /\ disk \in Image /\ reply \in Reply
  /\ durable \subseteq FileRecord /\ hit \subseteq FileRecord
OwedTypeOK ==
  /\ owed \in Order \cup {NoOrder}
  /\ owed.op \in {"READ", "WRITE"} => "late" \in Faults
  /\ owed.op = "IDENTIFY" => "probe" \in Faults
  /\ pc \in {"off", "loadHeader", "checkMagic"} => owed = NoOrder
  /\ pc = "loadData" /\ owed # NoOrder
       => owed.op = "READ" /\ owed.sec \in DataSectors
(* Every variable keeps its type: in particular the loop index stays       *)
(* inside the area it walks, a save returns either to the load that        *)
(* formats or to the shell, and a boot never meets a write that is owed.   *)
TypeOK == RamTypeOK /\ ControlTypeOK /\ RecordsTypeOK /\ OwedTypeOK

(* The header in RAM is one the calls work on.                             *)
Mounted == pc \in {"loaded", "saveHeader", "saveData", "shell"}

(* The header's file_count is the number of slots in use, so "ls" never    *)
(* answers "No files found." over files that "cat" can read.               *)
CountMatches == Mounted => hdr.file_count = Cardinality(UsedSlots(hdr))

(* No two slots hold the same name, so that the file fs_find_file stops at *)
(* is the only one.  Only a delete torn between the start of the name and  *)
(* the used flag leaves an entry without a name; "cat " and "rm ", with    *)
(* nothing after the space, reach the first of those there are: two in the *)
(* real layout, entries 11 and 23.                                         *)
NamesUnique ==
  Mounted => \A s, t \in UsedSlots(hdr) :
    /\ StoredName(hdr.files[s]) = EmptyName => NameLoSector(s) # MetaSector(s)
    /\ StoredName(hdr.files[s]) = StoredName(hdr.files[t])
         => s = t \/ StoredName(hdr.files[s]) = EmptyName

(* Every file in use lies in the data area of its own slot: fs_read_file   *)
(* copies from fs_data and nowhere else, and no two files overlap.         *)
Bounded(h) ==
  \A s \in UsedSlots(h) : /\ h.files[s].offset = s * MAX_FILE_SIZE
                          /\ h.files[s].size <= MAX_FILE_SIZE
EntriesInBounds == Mounted => Bounded(hdr)

(* Drives that never held anything, or only images of this filesystem.     *)
CleanDrives == \A img \in InitDisks : Bounded(img.hdr)

(* A file whose save completed, and that nobody has deleted since, is on   *)
(* the drive with its contents at every instant: in the middle of a later  *)
(* save, after a save that failed half way, after a power cut, across any  *)
(* number of boots with and without the drive ...                          *)
DurableOnDisk == durable \subseteq FilesIn(disk)

(* ... but for the files with a part in the one sector a write that timed  *)
(* out was meant for, where a drive that goes on with it stores the first  *)
(* words it is sent afterwards.                                            *)
LossConfined == durable \ hit \subseteq FilesIn(disk)

(* "Filesystem saved to disk!" is only said when the drive holds exactly   *)
(* the image in RAM.                                                       *)
SavedMeansOnDisk == said = "saved" => disk = RamImage

(* "ls" lists every file there is.                                         *)
ListsAllFiles ==
  reply.op = "list" =>
    reply.names = {StoredName(hdr.files[s]) : s \in UsedSlots(hdr)}

(* Every call and every boot comes to an end, whatever the drive does.     *)
CallsReturn == pc \notin {"off", "shell"} ~> pc \in {"off", "shell"}

=============================================================================
