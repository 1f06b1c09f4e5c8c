---------------------------- MODULE SzymFS_proofs ----------------------------
(* Theorems about SzymFS for every size of the filesystem, every layout of *)
(* the header and every set of names and contents: types, the bounds of    *)
(* the entries, and durability.                                            *)
EXTENDS SzymFS, SequenceTheorems, TLAPS

-----------------------------------------------------------------------------
(* The geometry.                                                           *)

(* Dividing by a positive number is what it should be.                     *)
LEMMA DivFacts ==
  ASSUME NEW a \in Nat, NEW d \in Nat \ {0}
  PROVE  /\ a \div d \in Nat
         /\ d * (a \div d) <= a
         /\ a < d * (a \div d) + d
  OBVIOUS

(* A byte below b lies in a sector below those that b bytes fill.          *)
LEMMA SectorBelow ==
  ASSUME NEW a \in Nat, NEW b \in Nat, NEW d \in Nat \ {0}, a < b
  PROVE  a \div d < (b + d - 1) \div d
<1> DEFINE p == a \div d
           q == (b + d - 1) \div d
<1>1. p \in Nat /\ d * p <= a  BY DivFacts
<1>2. q \in Nat /\ b + d - 1 < d * q + d
  <2>1. b + d - 1 \in Nat  OBVIOUS
  <2>. QED  BY <2>1, DivFacts
<1> HIDE DEF p, q
<1>3. d * p < d * q  BY <1>1, <1>2
<1>4. CASE q <= p
  <2>1. d * q <= d * p  BY <1>1, <1>2, <1>4
  <2>. QED  BY <1>1, <1>2, <1>3, <2>1
<1>. QED  BY <1>1, <1>2, <1>4 DEF p, q

(* Every part of every entry is in one of the header's sectors.            *)
LEMMA HeaderSectors ==
  /\ HEADER_SECTORS \in Nat \ {0}
  /\ \A s \in Slots : /\ NameLoSector(s) \in 0 .. HEADER_SECTORS - 1
                      /\ NameHiSector(s) \in 0 .. HEADER_SECTORS - 1
                      /\ MetaSector(s) \in 0 .. HEADER_SECTORS - 1
<1>1. SECTOR_SIZE \in Nat \ {0} /\ MAX_FILES \in Nat \ {0}
  BY SizeAssumption
<1>2. EntryByte(MAX_FILES) \in Nat /\ 8 <= EntryByte(MAX_FILES)
  BY <1>1 DEF EntryByte
<1>3. \A a \in Nat : a < EntryByte(MAX_FILES)
        => a \div SECTOR_SIZE \in Nat /\ a \div SECTOR_SIZE < HEADER_SECTORS
  BY <1>1, <1>2, SectorBelow, DivFacts DEF HEADER_SECTORS
<1>4. HEADER_SECTORS \in Nat
  <2>1. EntryByte(MAX_FILES) + SECTOR_SIZE - 1 \in Nat  BY <1>1, <1>2
  <2>. QED  BY <2>1, <1>1, DivFacts DEF HEADER_SECTORS
<1>5. HEADER_SECTORS # 0
  BY <1>2, <1>3, <1>4
<1>6. ASSUME NEW s \in Slots
      PROVE  /\ EntryByte(s) \in Nat /\ EntryByte(s) + 31 \in Nat
             /\ EntryByte(s) + 32 \in Nat
             /\ EntryByte(s) + 32 < EntryByte(MAX_FILES)
  BY <1>1 DEF EntryByte, Slots
<1>7. ASSUME NEW s \in Slots
      PROVE  /\ NameLoSector(s) \in 0 .. HEADER_SECTORS - 1
             /\ NameHiSector(s) \in 0 .. HEADER_SECTORS - 1
             /\ MetaSector(s) \in 0 .. HEADER_SECTORS - 1
  <2>1. EntryByte(s) < EntryByte(MAX_FILES)
        /\ EntryByte(s) + 31 < EntryByte(MAX_FILES)
    BY <1>2, <1>6
  <2>. QED  BY <1>3, <1>4, <1>6, <2>1 DEF NameLoSector, NameHiSector, MetaSector
<1>. QED  BY <1>4, <1>5, <1>7

(* The data area has at least one sector, and slots do not overlap.        *)
LEMMA DataArea ==
  /\ DATA_SECTORS \in Nat \ {0}
  /\ DataSectors = 0 .. DATA_SECTORS - 1
  BY SizeAssumption DEF DATA_SECTORS, DataSectors

LEMMA SlotInData ==
  ASSUME NEW s \in Slots, NEW k \in 0 .. MAX_FILE_SIZE - 1
  PROVE  s * MAX_FILE_SIZE \in Nat /\ s * MAX_FILE_SIZE + k \in DataSectors
<1>1. MAX_FILES \in Nat \ {0} /\ MAX_FILE_SIZE \in Nat \ {0}
      /\ s \in Nat /\ s <= MAX_FILES - 1
  BY SizeAssumption DEF Slots
<1>2. (MAX_FILES - 1 - s) * MAX_FILE_SIZE >= 0  BY <1>1
<1>3. (MAX_FILES - 1 - s) * MAX_FILE_SIZE
        = MAX_FILES * MAX_FILE_SIZE - MAX_FILE_SIZE - s * MAX_FILE_SIZE
  BY <1>1
<1>. QED  BY <1>1, <1>2, <1>3 DEF DataSectors

LEMMA SlotsApart ==
  ASSUME NEW s \in Slots, NEW t \in Slots, s # t,
         NEW j \in 0 .. MAX_FILE_SIZE - 1, NEW k \in 0 .. MAX_FILE_SIZE - 1
  PROVE  s * MAX_FILE_SIZE + j # t * MAX_FILE_SIZE + k
<1>1. MAX_FILE_SIZE \in Nat \ {0} /\ s \in Nat /\ t \in Nat
  BY SizeAssumption DEF Slots
<1>2. ASSUME NEW m \in Nat, NEW n \in Nat, m < n
      PROVE  m * MAX_FILE_SIZE + MAX_FILE_SIZE <= n * MAX_FILE_SIZE
  <2>1. (n - m - 1) * MAX_FILE_SIZE >= 0  BY <1>1, <1>2
  <2>2. (n - m - 1) * MAX_FILE_SIZE
          = n * MAX_FILE_SIZE - m * MAX_FILE_SIZE - MAX_FILE_SIZE
    BY <1>1, <1>2
  <2>. QED  BY <1>1, <1>2, <2>1, <2>2
<1>3. CASE s < t  BY <1>1, <1>2, <1>3
<1>4. CASE t < s  BY <1>1, <1>2, <1>4
<1>. QED  BY <1>1, <1>3, <1>4

-----------------------------------------------------------------------------
(* Types.                                                                  *)

LEMMA EmptyType == EmptyHeader \in Header /\ ZeroData \in [DataSectors -> Block]
  BY SizeAssumption, ContentAssumption DEF EmptyHeader, ZeroData, Header, Entry

LEMMA StoredNameType ==
  ASSUME NEW e \in Entry
  PROVE  StoredName(e) \in Name
  BY DEF StoredName, Entry, Name

LEMMA FileTextType ==
  ASSUME NEW h \in Header, NEW d \in [DataSectors -> Block], NEW s \in Slots
  PROVE  FileText(h, d, s) \in Seq(Block \cup {WILD})
<1> DEFINE n == IF h.files[s].size > MAX_FILE_SIZE THEN MAX_FILE_SIZE
                                                   ELSE h.files[s].size
<1>1. n \in Nat
  BY SizeAssumption DEF Header, Entry
<1>2. FileText(h, d, s) \in [1 .. n -> Block \cup {WILD}]
  BY DEF FileText
<1>. QED  BY <1>1, <1>2, SeqDef

LEMMA FilesInType ==
  ASSUME NEW img \in Image
  PROVE  FilesIn(img) \subseteq FileRecord
<1>1. img.hdr \in Header /\ img.data \in [DataSectors -> Block]
  BY DEF Image
<1>2. ASSUME NEW s \in UsedSlots(img.hdr)
      PROVE  [slot |-> s, name |-> StoredName(img.hdr.files[s]),
              text |-> FileText(img.hdr, img.data, s)] \in FileRecord
  <2>1. s \in Slots  BY DEF UsedSlots
  <2>2. img.hdr.files[s] \in Entry  BY <1>1, <2>1 DEF Header
  <2>. QED  BY <1>1, <2>1, <2>2, StoredNameType, FileTextType DEF FileRecord
<1>. QED  BY <1>2 DEF FilesIn

LEMMA WithHeaderSectorType ==
  ASSUME NEW to \in Header, NEW from \in Header, NEW i \in Nat
  PROVE  WithHeaderSector(to, from, i) \in Header
  BY DEF WithHeaderSector, Header, Entry

LEMMA WithSectorType ==
  ASSUME NEW to \in Image, NEW from \in Image,
         NEW place, place.sec \in Nat
  PROVE  WithSector(to, from, place) \in Image
<1>1. WithHeaderSector(to.hdr, from.hdr, place.sec) \in Header
  BY WithHeaderSectorType DEF Image
<1>2. [to.data EXCEPT ![place.sec] = from.data[place.sec]] \in [DataSectors -> Block]
  <2>1. CASE place.sec \in DataSectors
    BY <2>1 DEF Image
  <2>2. CASE place.sec \notin DataSectors
    BY <2>2 DEF Image
  <2>. QED  BY <2>1, <2>2
<1>. QED  BY <1>1, <1>2 DEF WithSector, Image

(* What a call leaves on the drive.                                        *)
LEMMA WrittenType ==
  ASSUME TypeOK, NEW img \in Image, Written(img)
  PROVE  disk' \in Image
<1>1. CASE WrittenLate(img)
  <2>1. CASE owed.op = "WRITE"
    <3>1. owed \in Order  BY <2>1 DEF TypeOK, OwedTypeOK, NoOrder
    <3>2. ASSUME NEW stray \in Strays
          PROVE  WithSector(disk, stray, owed) \in Image
      BY <3>1, WithSectorType, DiskAssumption DEF Order, TypeOK, RecordsTypeOK
    <3>. QED  BY <1>1, <2>1, <3>2 DEF WrittenLate
  <2>. QED  BY <1>1, <2>1 DEF WrittenLate, TypeOK, RecordsTypeOK
<1>. QED  BY <1>1 DEF Written, TypeOK, RecordsTypeOK

LEMMA FormattedType ==
  ASSUME NEW h \in Header
  PROVE  Formatted(h) \in Header
<1>1. \A s \in Slots : [h.files[s] EXCEPT !.used = FALSE] \in Entry
  BY DEF Header, Entry
<1>. QED  BY <1>1, SizeAssumption DEF Formatted, Header

LEMMA ClearedType ==
  ASSUME NEW h \in Header, NEW s \in Slots
  PROVE  Cleared(h, s) \in Header
<1>1. (h.file_count - 1) % COUNT_MOD \in 0 .. COUNT_MOD - 1
  BY SizeAssumption DEF Header
<1>2. [h.files[s] EXCEPT !.used = FALSE, !.lo = NUL] \in Entry
  BY DEF Header, Entry
<1>. QED  BY <1>1, <1>2 DEF Cleared, Header

LEMMA CutType ==
  ASSUME NEW n \in Names \cup LongNames
  PROVE  Cut(n) \in Name
  BY NameAssumption DEF Cut

LEMMA CreateCodeType ==
  ASSUME NEW n, NEW c
  PROVE  CreateCode(n, c) \in -4 .. 0
  BY DEF CreateCode

LEMMA FillType ==
  ASSUME hdr \in Header, data \in [DataSectors -> Block],
         NEW s \in Slots, NEW n \in Names \cup LongNames, NEW c \in Contents,
         Fill(s, n, c)
  PROVE  hdr' \in Header /\ data' \in [DataSectors -> Block]
<1>1. c \in Seq(Block)  BY ContentAssumption
<1>2. SlotStart(s) \in Nat
  BY SizeAssumption DEF SlotStart, Slots
<1>3. Cut(n).lo \in Part \cup {NUL} /\ Cut(n).hi \in Part \cup {NUL}
  BY CutType DEF Name
<1>4. (hdr.file_count + 1) % COUNT_MOD \in 0 .. COUNT_MOD - 1
  BY SizeAssumption DEF Header
<1>5. hdr.files[s] \in Entry  BY DEF Header
<1>6. [Named(hdr.files[s], Cut(n)) EXCEPT !.size = Len(c),
         !.offset = SlotStart(s), !.used = TRUE] \in Entry
  <2>1. Named(hdr.files[s], Cut(n)) \in Entry
    BY <1>3, <1>5 DEF Named, Entry
  <2>2. Len(c) \in Nat  BY <1>1
  <2>. QED  BY <1>2, <2>1, <2>2 DEF Entry
<1>7. hdr' \in Header
  BY <1>4, <1>5, <1>6 DEF Fill, Header
<1>8. data' \in [DataSectors -> Block]
  <2>1. ASSUME NEW i \in DataSectors, i - SlotStart(s) \in 0 .. Len(c) - 1
        PROVE  c[i - SlotStart(s) + 1] \in Block
    <3>1. i \in Int  BY DEF DataSectors
    <3>2. i - SlotStart(s) + 1 \in 1 .. Len(c)
      BY <1>1, <1>2, <2>1, <3>1
    <3>. QED  BY <1>1, <3>2
  <2>. QED  BY <2>1 DEF Fill
<1>. QED  BY <1>7, <1>8

LEMMA SaveType ==
  ASSUME TypeOK, NEW ret \in {"loaded", "shell"}, Save(ret)
  PROVE  /\ persistent' \in BOOLEAN
         /\ pc' \in PCs /\ sec' = 0
         /\ pc' \notin {"loadHeader", "loadData", "saveData"}
         /\ back' \in {"loaded", "shell"}
         /\ said' \in {"quiet", "ram-only", "error", "saved"}
  BY DEF TypeOK, RamTypeOK, ControlTypeOK, Save, BeginSave, PCs

LEMMA CreateType ==
  ASSUME TypeOK, NEW n \in Names \cup LongNames, NEW c \in Contents,
         CreateFile(n, c)
  PROVE  /\ hdr' \in Header /\ data' \in [DataSectors -> Block]
         /\ persistent' \in BOOLEAN
         /\ pc' \in PCs /\ sec' = 0
         /\ pc' \notin {"loadHeader", "loadData", "saveData"}
         /\ back' \in {"loaded", "shell"}
         /\ said' \in {"quiet", "ram-only", "error", "saved"}
<1>1. CASE CreateCode(n, c) # 0
  BY <1>1 DEF CreateFile, TypeOK, RamTypeOK, ControlTypeOK, PCs
<1>2. CASE CreateCode(n, c) = 0
  <2>1. Save("shell")  BY <1>2 DEF CreateFile
  <2>2. PICK s \in Slots : Fill(s, n, c)  BY <1>2 DEF CreateFile
  <2>3. hdr' \in Header /\ data' \in [DataSectors -> Block]
    BY <2>2, FillType DEF TypeOK, RamTypeOK
  <2>. QED  BY <2>1, <2>3, SaveType
<1>. QED  BY <1>1, <1>2

(* Every step keeps the types.                                             *)
LEMMA RamTypeStep ==
  ASSUME TypeOK, [Next]_vars
  PROVE  RamTypeOK'
<1>. USE DEF TypeOK, RamTypeOK, RecordsTypeOK
<1>1. CASE LoadHeaderSector
  <2>1. WithHeaderSector(hdr, disk.hdr, sec) \in Header
    BY WithHeaderSectorType DEF Image, ControlTypeOK
  <2>. QED  BY <1>1, <2>1 DEF LoadHeaderSector
<1>2. CASE CheckMagic
  BY <1>2, FormattedType, EmptyType DEF CheckMagic
<1>3. CASE LoadDataSector
  <2>1. Arriving \in DataSectors
    BY <1>3 DEF LoadDataSector, Arriving, ControlTypeOK, OwedTypeOK
  <2>2. disk.data[Arriving] \in Block
    BY <2>1 DEF Image
  <2>. QED  BY <1>3, <2>2 DEF LoadDataSector
<1>4. CASE EnsureReadme
  <2>1. CASE Matching(hdr, README) # {}
    BY <1>4, <2>1 DEF EnsureReadme
  <2>2. CASE CreateFile(README, README_TEXT)
    BY <1>4, <2>2, CreateType, NameAssumption, ContentAssumption
    DEF EnsureReadme
  <2>. QED  BY <1>4, <2>1, <2>2 DEF EnsureReadme
<1>5. CASE SaveHeaderSector
  BY <1>5 DEF SaveHeaderSector, WriteFails
<1>6. CASE SaveDataSector
  BY <1>6 DEF SaveDataSector, WriteFails
<1>7. ASSUME NEW drive \in BOOLEAN, Boot(drive)
      PROVE  RamTypeOK'
  BY <1>7, EmptyType DEF Boot
<1>8. ASSUME NEW n \in Names \cup LongNames \cup {EmptyName}, FsDeleteFile(n)
      PROVE  RamTypeOK'
  <2>1. CASE hdr' = hdr /\ persistent' = persistent
    BY <1>8, <2>1 DEF FsDeleteFile
  <2>2. ASSUME NEW s \in Slots, hdr' = Cleared(hdr, s), Save("shell")
        PROVE  RamTypeOK'
    BY <1>8, <2>2, ClearedType, SaveType DEF FsDeleteFile
  <2>. QED  BY <1>8, <2>1, <2>2 DEF FsDeleteFile
<1>9. ASSUME NEW n \in Names \cup LongNames \cup {EmptyName}, FsReadFile(n)
      PROVE  RamTypeOK'
  BY <1>9 DEF FsReadFile, ram
<1>10. ASSUME NEW n \in Names \cup LongNames, NEW c \in Contents,
              FsCreateFile(n, c)
       PROVE  RamTypeOK'
  BY <1>10, CreateType DEF FsCreateFile
<1>11. CASE FsListFiles
  BY <1>11 DEF FsListFiles, ram
<1>12. CASE SaveCommand
  BY <1>12, SaveType DEF SaveCommand
<1>13. CASE PowerDown
  BY <1>13, EmptyType DEF PowerDown
<1>14. CASE UNCHANGED vars
  BY <1>14 DEF vars
<1>15. CASE DisksGivesUp \/ Settle
  BY <1>15 DEF DisksGivesUp, Settle, ram
<1>. QED
  BY <1>1, <1>2, <1>3, <1>4, <1>5, <1>6, <1>7, <1>8, <1>9, <1>10, <1>11,
     <1>12, <1>13, <1>14, <1>15
  DEF Next, Program, User, Reboot, PowerLoss

LEMMA ControlTypeStep ==
  ASSUME TypeOK, [Next]_vars
  PROVE  ControlTypeOK'
<1>. USE DEF TypeOK, ControlTypeOK, PCs
<1>1. CASE LoadHeaderSector
  BY <1>1 DEF LoadHeaderSector, More
<1>2. CASE CheckMagic
  <2>1. 0 \in DataSectors /\ 0 < HEADER_SECTORS
    BY DataArea, HeaderSectors
  <2>. QED  BY <1>2, <2>1 DEF CheckMagic, BeginSave
<1>3. CASE LoadDataSector
  <2>1. sec \in DataSectors /\ (More(DATA_SECTORS) => sec + 1 \in DataSectors)
    BY <1>3, DataArea DEF More, LoadDataSector
  <2>. QED  BY <1>3, <2>1 DEF LoadDataSector
<1>4. CASE EnsureReadme
  <2>1. CASE Matching(hdr, README) # {}
    BY <1>4, <2>1 DEF EnsureReadme
  <2>2. CASE CreateFile(README, README_TEXT)
    BY <1>4, <2>2, CreateType, HeaderSectors, NameAssumption, ContentAssumption
  <2>. QED  BY <1>4, <2>1, <2>2 DEF EnsureReadme
<1>5. CASE SaveHeaderSector
  <2>1. 0 \in DataSectors  BY DataArea
  <2>. QED  BY <1>5, <2>1 DEF SaveHeaderSector, WriteFails, More
<1>6. CASE SaveDataSector
  <2>1. sec \in DataSectors /\ (More(DATA_SECTORS) => sec + 1 \in DataSectors)
    BY <1>6, DataArea DEF More, SaveDataSector
  <2>. QED  BY <1>6, <2>1 DEF SaveDataSector, WriteFails
<1>7. ASSUME NEW drive \in BOOLEAN, Boot(drive)
      PROVE  ControlTypeOK'
  BY <1>7, HeaderSectors DEF Boot
<1>8. ASSUME NEW n \in Names \cup LongNames \cup {EmptyName}, FsDeleteFile(n)
      PROVE  ControlTypeOK'
  <2>1. CASE UNCHANGED <<pc, sec, back, said>>
    BY <2>1
  <2>2. CASE Save("shell")
    BY <2>2, SaveType, HeaderSectors
  <2>. QED  BY <1>8, <2>1, <2>2 DEF FsDeleteFile
<1>9. ASSUME NEW n \in Names \cup LongNames \cup {EmptyName}, FsReadFile(n)
      PROVE  ControlTypeOK'
  BY <1>9 DEF FsReadFile
<1>10. ASSUME NEW n \in Names \cup LongNames, NEW c \in Contents,
              FsCreateFile(n, c)
       PROVE  ControlTypeOK'
  BY <1>10, CreateType, HeaderSectors DEF FsCreateFile
<1>11. CASE FsListFiles
  BY <1>11 DEF FsListFiles
<1>12. CASE SaveCommand
  BY <1>12, SaveType, HeaderSectors DEF SaveCommand
<1>13. CASE PowerDown
  BY <1>13 DEF PowerDown
<1>14. CASE UNCHANGED vars
  BY <1>14 DEF vars
<1>15. CASE DisksGivesUp \/ Settle
  BY <1>15 DEF DisksGivesUp, Settle
<1>. QED
  BY <1>1, <1>2, <1>3, <1>4, <1>5, <1>6, <1>7, <1>8, <1>9, <1>10, <1>11,
     <1>12, <1>13, <1>14, <1>15
  DEF Next, Program, User, Reboot, PowerLoss

LEMMA RecordsTypeStep ==
  ASSUME TypeOK, [Next]_vars
  PROVE  RecordsTypeOK'
<1>. USE DEF TypeOK, RecordsTypeOK
<1>1. CASE LoadHeaderSector
  BY <1>1 DEF LoadHeaderSector
<1>2. CASE CheckMagic
  BY <1>2 DEF CheckMagic
<1>3. CASE LoadDataSector
  BY <1>3 DEF LoadDataSector
<1>4. CASE EnsureReadme
  BY <1>4 DEF EnsureReadme
<1>5. CASE SaveHeaderSector
  <2>1. [disk EXCEPT !.hdr = WithHeaderSector(disk.hdr, hdr, sec)] \in Image
    BY WithHeaderSectorType DEF Image, RamTypeOK, ControlTypeOK
  <2>2. hit' \subseteq FileRecord
    BY <1>5 DEF SaveHeaderSector, NowHit, WriteFails
  <2>. QED  BY <1>5, <2>1, <2>2, WrittenType DEF SaveHeaderSector, WriteFails
<1>6. CASE SaveDataSector
  <2>1. sec \in DataSectors
    BY <1>6 DEF SaveDataSector, ControlTypeOK
  <2>2. [disk EXCEPT !.data[sec] = data[sec]] \in Image
    BY <2>1 DEF Image, RamTypeOK
  <2>3. OwnFiles(RamImage) \subseteq FileRecord
    BY FilesInType DEF OwnFiles, RamImage, Image, RamTypeOK
  <2>4. hit' \subseteq FileRecord
    BY <1>6 DEF SaveDataSector, NowHit, WriteFails
  <2>. QED  BY <1>6, <2>2, <2>3, <2>4, WrittenType DEF SaveDataSector, WriteFails
<1>7. ASSUME NEW drive \in BOOLEAN, Boot(drive)
      PROVE  RecordsTypeOK'
  BY <1>7 DEF Boot
<1>8. ASSUME NEW n \in Names \cup LongNames \cup {EmptyName}, FsDeleteFile(n)
      PROVE  RecordsTypeOK'
  <2>1. reply' \in Reply
    <3>1. ASSUME NEW code \in -4 .. 0, Answer("done", code, <<>>, {})
          PROVE  reply' \in Reply
      BY <3>1 DEF Answer, Reply
    <3>. QED  BY <1>8, <3>1 DEF FsDeleteFile
  <2>2. durable' \subseteq durable /\ hit' \subseteq hit
    BY <1>8 DEF FsDeleteFile
  <2>. QED  BY <1>8, <2>1, <2>2 DEF FsDeleteFile
<1>9. ASSUME NEW n \in Names \cup LongNames \cup {EmptyName}, FsReadFile(n)
      PROVE  RecordsTypeOK'
  <2>1. CASE Answer("read", -1, <<>>, {})
    BY <1>9, <2>1 DEF FsReadFile, Answer, Reply
  <2>2. ASSUME NEW s \in Slots, Answer("read", 0, FileText(hdr, data, s), {})
        PROVE  reply' \in Reply
    BY <2>2, FileTextType DEF Answer, Reply, RamTypeOK
  <2>. QED  BY <1>9, <2>1, <2>2 DEF FsReadFile
<1>10. ASSUME NEW n \in Names \cup LongNames, NEW c \in Contents,
              FsCreateFile(n, c)
       PROVE  RecordsTypeOK'
  <2>1. reply' \in Reply
    BY <1>10, CreateCodeType DEF FsCreateFile, Answer, Reply
  <2>. QED  BY <1>10, <2>1 DEF FsCreateFile
<1>11. CASE FsListFiles
  <2>1. {StoredName(hdr.files[s]) : s \in UsedSlots(hdr)} \subseteq Name
    BY StoredNameType DEF UsedSlots, Header, RamTypeOK
  <2>2. reply' \in Reply
    BY <1>11, <2>1 DEF FsListFiles, Answer, Reply
  <2>. QED  BY <1>11, <2>2 DEF FsListFiles
<1>12. CASE SaveCommand
  <2>1. reply' \in Reply
    BY <1>12 DEF SaveCommand, Answer, Reply
  <2>. QED  BY <1>12, <2>1 DEF SaveCommand
<1>13. CASE PowerDown
  BY <1>13 DEF PowerDown, NoReply, Reply
<1>14. CASE UNCHANGED vars
  BY <1>14 DEF vars
<1>15. CASE DisksGivesUp \/ Settle
  BY <1>15 DEF DisksGivesUp, Settle
<1>. QED
  BY <1>1, <1>2, <1>3, <1>4, <1>5, <1>6, <1>7, <1>8, <1>9, <1>10, <1>11,
     <1>12, <1>13, <1>14, <1>15
  DEF Next, Program, User, Reboot, PowerLoss

(* A command is given up on at the sector a loop is at.                    *)
LEMMA GivenUpType ==
  ASSUME TypeOK, NEW op \in {"READ", "WRITE"}, GivenUp(op)
  PROVE  /\ owed' \in Order \cup {NoOrder}
         /\ owed'.op \in {"READ", "WRITE"} => "late" \in Faults
         /\ owed'.op = "IDENTIFY" => "probe" \in Faults
         /\ owed' = owed \/ owed' = Here(op)
<1>1. CASE owed' = owed
  BY <1>1 DEF TypeOK, OwedTypeOK
<1>2. CASE "late" \in Faults /\ owed' = Here(op)
  <2>1. Here(op) \in Order /\ Here(op).op = op
    BY DEF Here, Order, TypeOK, ControlTypeOK
  <2>. QED  BY <1>2, <2>1
<1>. QED  BY <1>1, <1>2 DEF GivenUp

LEMMA WrittenOwes ==
  ASSUME NEW img, Written(img)
  PROVE  owed' = owed \/ owed' = NoOrder
  BY DEF Written, WrittenLate

LEMMA OwedTypeStep ==
  ASSUME TypeOK, [Next]_vars
  PROVE  OwedTypeOK'
<1>. USE DEF TypeOK, OwedTypeOK
<1>1. NoOrder.op = "none"
  BY DEF NoOrder
<1>2. ASSUME owed' = NoOrder
      PROVE  OwedTypeOK'
  BY <1>1, <1>2
<1>3. ASSUME owed' = owed,
             pc' \notin {"off", "loadHeader", "checkMagic", "loadData"}
               \/ owed = NoOrder
      PROVE  OwedTypeOK'
  BY <1>1, <1>3
<1>4. CASE LoadHeaderSector
  <2>1. CASE UNCHANGED owed /\ pc' \in {"loadHeader", "checkMagic"}
    BY <1>3, <1>4, <2>1 DEF LoadHeaderSector
  <2>2. CASE GivenUp("READ") /\ pc' = "loaded"
    BY <2>2, GivenUpType
  <2>. QED  BY <1>4, <2>1, <2>2 DEF LoadHeaderSector
<1>5. CASE CheckMagic
  BY <1>3, <1>5 DEF CheckMagic
<1>6. CASE LoadDataSector
  <2>1. CASE owed' = NoOrder
    BY <1>2, <2>1
  <2>2. CASE GivenUp("READ")
    <3>1. Here("READ").op = "READ" /\ Here("READ").sec \in DataSectors
      BY <1>6 DEF Here, LoadDataSector, ControlTypeOK
    <3>2. pc = "loadData" /\ pc' \in {"loadData", "loaded"}
      BY <1>6 DEF LoadDataSector
    <3>. QED  BY <2>2, <3>1, <3>2, GivenUpType
  <2>. QED  BY <1>6, <2>1, <2>2 DEF LoadDataSector
<1>7. ASSUME WriteFails
      PROVE  OwedTypeOK'
  <2>1. GivenUp("WRITE") /\ pc' \in {"loaded", "shell"}
    BY <1>7 DEF WriteFails, ControlTypeOK
  <2>. QED  BY <2>1, GivenUpType
<1>8. CASE SaveHeaderSector
  <2>1. ASSUME NEW img, Written(img), pc' \in {"saveHeader", "saveData"}
        PROVE  OwedTypeOK'
    BY <1>2, <1>3, <2>1, WrittenOwes
  <2>. QED  BY <1>7, <1>8, <2>1 DEF SaveHeaderSector
<1>9. CASE SaveDataSector
  <2>1. ASSUME NEW img, Written(img), pc' \in {"saveData", "loaded", "shell"}
        PROVE  OwedTypeOK'
    BY <1>2, <1>3, <2>1, WrittenOwes
  <2>. QED  BY <1>7, <1>9, <2>1 DEF SaveDataSector, ControlTypeOK
<1>10. ASSUME UNCHANGED owed,
              pc' \in {"shell", "saveHeader"} \/ pc = "off" \/ pc' = pc
       PROVE  OwedTypeOK'
  BY <1>10, <1>1
<1>11. ASSUME NEW ret, Save(ret)
       PROVE  pc' \in {ret, "saveHeader"}
  BY <1>11 DEF Save, BeginSave
<1>12. ASSUME NEW n, NEW c, CreateFile(n, c)
       PROVE  pc' \in {"shell", "saveHeader"}
  BY <1>11, <1>12 DEF CreateFile
<1>13. CASE EnsureReadme
  BY <1>10, <1>12, <1>13 DEF EnsureReadme
<1>14. ASSUME NEW drive, Boot(drive)
       PROVE  OwedTypeOK'
  BY <1>3, <1>14 DEF Boot
<1>15. ASSUME NEW n, FsDeleteFile(n)
       PROVE  OwedTypeOK'
  BY <1>10, <1>11, <1>15 DEF FsDeleteFile
<1>16. ASSUME NEW n, FsReadFile(n)
       PROVE  OwedTypeOK'
  BY <1>10, <1>16 DEF FsReadFile
<1>17. ASSUME NEW n, NEW c, FsCreateFile(n, c)
       PROVE  OwedTypeOK'
  BY <1>10, <1>12, <1>17 DEF FsCreateFile
<1>18. CASE FsListFiles \/ UNCHANGED vars
  BY <1>10, <1>18 DEF FsListFiles, vars
<1>19. CASE SaveCommand
  BY <1>10, <1>11, <1>19 DEF SaveCommand
<1>20. CASE DisksGivesUp
  BY <1>20 DEF DisksGivesUp, Order, NoOrder
<1>21. CASE Settle \/ PowerDown
  BY <1>2, <1>21 DEF Settle, PowerDown
<1>. QED
  BY <1>4, <1>5, <1>6, <1>8, <1>9, <1>13, <1>14, <1>15, <1>16, <1>17, <1>18,
     <1>19, <1>20, <1>21
  DEF Next, Program, User, Reboot, PowerLoss

LEMMA TypeStep ==
  ASSUME TypeOK, [Next]_vars
  PROVE  TypeOK'
  BY RamTypeStep, ControlTypeStep, RecordsTypeStep, OwedTypeStep DEF TypeOK

LEMMA TypeInit ==
  ASSUME Init
  PROVE  TypeOK
<1>1. disk \in Image  BY DiskAssumption DEF Init
<1>2. durable \subseteq FileRecord /\ hit \subseteq FileRecord
  BY <1>1, FilesInType DEF Init, OwnFiles
<1>3. NoReply \in Reply  BY DEF NoReply, Reply
<1>. QED
  BY <1>1, <1>2, <1>3, EmptyType
  DEF Init, TypeOK, RamTypeOK, ControlTypeOK, RecordsTypeOK, OwedTypeOK,
      NoOrder, PCs

(* The types hold throughout, whatever faults the drive has: the counter   *)
(* stays a machine word, the loops stay inside the areas they walk.        *)
THEOREM TypeCorrect == Spec => []TypeOK
  BY TypeInit, TypeStep, PTL DEF Spec

-----------------------------------------------------------------------------
(* Entries stay inside the data area of their slots, whatever faults occur *)
(* and wherever they leave a save or a load, because an entry's size,      *)
(* offset and used flag share a sector.  The images in RAM and on the      *)
(* drive have to be bounded together: each is copied over the other.       *)

BoundsInv == Bounded(hdr) /\ Bounded(disk.hdr)

LEMMA BoundedMerge ==
  ASSUME NEW to, NEW from, NEW i, Bounded(to), Bounded(from)
  PROVE  Bounded(WithHeaderSector(to, from, i))
  BY DEF Bounded, UsedSlots, WithHeaderSector

LEMMA BoundedFormatted ==
  ASSUME NEW h \in Header
  PROVE  Bounded(Formatted(h))
  BY DEF Bounded, UsedSlots, Formatted, Header, Entry

LEMMA BoundedCleared ==
  ASSUME NEW h \in Header, NEW s \in Slots, Bounded(h)
  PROVE  Bounded(Cleared(h, s))
<1>1. ASSUME NEW t \in Slots, Cleared(h, s).files[t].used
      PROVE  t # s /\ Cleared(h, s).files[t] = h.files[t]
  BY <1>1 DEF Cleared, Header, Entry
<1>. QED  BY <1>1 DEF Bounded, UsedSlots

LEMMA BoundedEmpty == Bounded(EmptyHeader)
  BY DEF Bounded, UsedSlots, EmptyHeader

(* What fs_create_file leaves in the slot it fills and in the others.      *)
LEMMA FillEntries ==
  ASSUME hdr \in Header, NEW s \in Slots, NEW n, NEW c, Fill(s, n, c)
  PROVE  /\ hdr'.files[s].used
         /\ hdr'.files[s].offset = s * MAX_FILE_SIZE
         /\ hdr'.files[s].size = Len(c)
         /\ \A t \in Slots \ {s} : hdr'.files[t] = hdr.files[t]
         /\ hdr'.magic = hdr.magic
<1>1. hdr' = [hdr EXCEPT
         !.file_count = (@ + 1) % COUNT_MOD,
         !.files[s] = [Named(@, Cut(n)) EXCEPT !.size = Len(c),
                         !.offset = SlotStart(s), !.used = TRUE]]
  BY DEF Fill
<1>2. hdr'.files[s] = [Named(hdr.files[s], Cut(n)) EXCEPT !.size = Len(c),
                         !.offset = SlotStart(s), !.used = TRUE]
  BY <1>1 DEF Header
<1>3. hdr.files[s] \in Entry  BY DEF Header
<1>4. /\ hdr'.files[s].used
      /\ hdr'.files[s].offset = s * MAX_FILE_SIZE
      /\ hdr'.files[s].size = Len(c)
  BY <1>2, <1>3 DEF Named, Entry, SlotStart
<1>. QED  BY <1>1, <1>4 DEF Header

LEMMA BoundedCreate ==
  ASSUME hdr \in Header, Bounded(hdr), NEW n, NEW c \in Contents, CreateFile(n, c)
  PROVE  Bounded(hdr')
<1>1. CASE CreateCode(n, c) # 0
  BY <1>1 DEF CreateFile
<1>2. CASE CreateCode(n, c) = 0
  <2>1. PICK s \in Slots : Fill(s, n, c)  BY <1>2 DEF CreateFile
  <2>2. Len(c) <= MAX_FILE_SIZE
    BY <1>2, ContentAssumption, SizeAssumption DEF CreateCode
  <2>. QED  BY <2>1, <2>2, FillEntries DEF Bounded, UsedSlots
<1>. QED  BY <1>1, <1>2

(* A drive that goes on with nothing stores every sector where it belongs. *)
LEMMA WrittenInPlace ==
  ASSUME TypeOK, "late" \notin Faults, NEW img, Written(img)
  PROVE  disk' = img \/ disk' = disk
  BY DEF TypeOK, OwedTypeOK, Written, WrittenLate

LEMMA BoundsStep ==
  ASSUME TypeOK, "late" \notin Faults, BoundsInv, [Next]_vars
  PROVE  BoundsInv'
<1>. USE DEF TypeOK, RamTypeOK, RecordsTypeOK, Image, BoundsInv
<1>1. CASE LoadHeaderSector
  BY <1>1, BoundedMerge DEF LoadHeaderSector
<1>2. CASE CheckMagic
  BY <1>2, BoundedFormatted DEF CheckMagic
<1>3. CASE LoadDataSector
  BY <1>3 DEF LoadDataSector
<1>4. CASE EnsureReadme
  BY <1>4, BoundedCreate, ContentAssumption DEF EnsureReadme
<1>5. CASE SaveHeaderSector
  <2>1. [disk EXCEPT !.hdr = WithHeaderSector(disk.hdr, hdr, sec)].hdr
          = WithHeaderSector(disk.hdr, hdr, sec)
    OBVIOUS
  <2>. QED  BY <1>5, <2>1, BoundedMerge, WrittenInPlace
            DEF SaveHeaderSector, WriteFails
<1>6. CASE SaveDataSector
  <2>1. [disk EXCEPT !.data[sec] = data[sec]].hdr = disk.hdr
    OBVIOUS
  <2>. QED  BY <1>6, <2>1, WrittenInPlace DEF SaveDataSector, WriteFails
<1>7. ASSUME NEW drive \in BOOLEAN, Boot(drive)
      PROVE  BoundsInv'
  BY <1>7, BoundedEmpty DEF Boot
<1>8. ASSUME NEW n \in Names \cup LongNames \cup {EmptyName}, FsDeleteFile(n)
      PROVE  BoundsInv'
  BY <1>8, BoundedCleared DEF FsDeleteFile
<1>9. ASSUME NEW n \in Names \cup LongNames \cup {EmptyName}, FsReadFile(n)
      PROVE  BoundsInv'
  BY <1>9 DEF FsReadFile, ram
<1>10. ASSUME NEW n \in Names \cup LongNames, NEW c \in Contents,
              FsCreateFile(n, c)
       PROVE  BoundsInv'
  BY <1>10, BoundedCreate DEF FsCreateFile
<1>11. CASE FsListFiles
  BY <1>11 DEF FsListFiles, ram
<1>12. CASE SaveCommand
  BY <1>12 DEF SaveCommand
<1>13. CASE PowerDown
  BY <1>13, BoundedEmpty DEF PowerDown
<1>14. CASE UNCHANGED vars
  BY <1>14 DEF vars
<1>15. CASE DisksGivesUp \/ Settle
  BY <1>15 DEF DisksGivesUp, Settle, ram
<1>. QED
  BY <1>1, <1>2, <1>3, <1>4, <1>5, <1>6, <1>7, <1>8, <1>9, <1>10, <1>11,
     <1>12, <1>13, <1>14, <1>15
  DEF Next, Program, User, Reboot, PowerLoss

(* On a drive that never held foreign data, and that does not go on with a *)
(* command given up on, no file the calls work on reaches outside its      *)
(* slot: not after a torn save, a failed or silently lost write, a failed  *)
(* read, or any number of them.                                            *)
THEOREM BoundsCorrect ==
  ASSUME CleanDrives, "late" \notin Faults
  PROVE  Spec => []EntriesInBounds
<1>1. Init => BoundsInv
  BY BoundedEmpty, CleanDrives DEF Init, BoundsInv, CleanDrives
<1>2. TypeOK /\ BoundsInv /\ [Next]_vars => BoundsInv'
  BY BoundsStep
<1>3. BoundsInv => EntriesInBounds
  BY DEF BoundsInv, EntriesInBounds
<1>. QED  BY <1>1, <1>2, <1>3, TypeCorrect, PTL DEF Spec

-----------------------------------------------------------------------------
(* Durability: on a drive that reads back what it holds, does not drop a   *)
(* sector silently and is not left with a probe, a file whose save         *)
(* completed stays on the drive through failed saves, power cuts and       *)
(* boots, but for what the words sent to a write given up on land in; and  *)
(* "saved" is true.                                                        *)

Reliable == Faults \cap {"read", "probe", "lost"} = {}

(* File f is in header h and data area d, where it belongs.                *)
Holds(h, d, f) ==
  /\ h.files[f.slot].used
  /\ StoredName(h.files[f.slot]) = f.name
  /\ h.files[f.slot].size = Len(f.text)
  /\ h.files[f.slot].offset = f.slot * MAX_FILE_SIZE
  /\ Len(f.text) <= MAX_FILE_SIZE
  /\ \A k \in 1 .. Len(f.text) : d[f.slot * MAX_FILE_SIZE + (k - 1)] = f.text[k]

AllHold(h, d) == \A f \in durable \ hit : Holds(h, d, f)

(* Headers a and b agree on the sectors below n.                           *)
SameHeader(a, b, n) ==
  /\ 0 < n => a.magic = b.magic /\ a.file_count = b.file_count
  /\ \A s \in Slots :
       /\ NameLoSector(s) < n => a.files[s].lo = b.files[s].lo
       /\ NameHiSector(s) < n => a.files[s].hi = b.files[s].hi
       /\ MetaSector(s) < n => /\ a.files[s].size = b.files[s].size
                               /\ a.files[s].offset = b.files[s].offset
                               /\ a.files[s].used = b.files[s].used

-----------------------------------------------------------------------------
(* The inductive invariant.  The drive holds the durable files; so does    *)
(* RAM once it has been loaded from the drive, which is why no save can    *)
(* take them away; a load, and a save that may still succeed, have made    *)
(* RAM and drive agree on the sectors they have passed.  Only a write is   *)
(* ever owed, only when no save can succeed any more, and the first        *)
(* header sector of the next save settles it: so its magic stays.          *)

DiskInv ==
  (durable # {} => disk.hdr.magic) /\ AllHold(disk.hdr, disk.data)
RamInv ==
  selected /\ Mounted => hdr.magic /\ AllHold(hdr, data)
LoadInv ==
  /\ pc \in {"loadHeader", "checkMagic", "loadData"} => selected
  /\ pc = "loadHeader" => SameHeader(hdr, disk.hdr, sec)
  /\ pc \in {"checkMagic", "loadData"} => hdr = disk.hdr
  /\ pc = "loadData" => /\ hdr.magic
                        /\ \A j \in 0 .. sec - 1 : data[j] = disk.data[j]
SaveInv ==
  /\ pc \in {"saveHeader", "saveData"} => selected
  /\ pc = "saveHeader" /\ persistent => SameHeader(disk.hdr, hdr, sec)
  /\ pc = "saveData" /\ persistent
       => /\ disk.hdr = hdr
          /\ \A j \in 0 .. sec - 1 : disk.data[j] = data[j]
SaidInv ==
  /\ said = "saved" => pc \in {"loaded", "shell"} /\ disk = RamImage
OwedInv ==
  owed # NoOrder => /\ owed.op = "WRITE" /\ ~persistent
                    /\ pc \in {"loaded", "shell", "saveHeader"}
                    /\ pc = "saveHeader" => sec = 0
HitInv == "late" \notin Faults => hit = {}

DurabilityInv ==
  DiskInv /\ RamInv /\ LoadInv /\ SaveInv /\ SaidInv /\ OwedInv /\ HitInv

-----------------------------------------------------------------------------
(* Lemmas about images.                                                    *)

(* What the file of an entry in its place reads as.                        *)
LEMMA InPlaceText ==
  ASSUME NEW h \in Header, NEW d \in [DataSectors -> Block],
         NEW s \in UsedSlots(h), InPlace(h, s)
  PROVE  /\ s \in Slots /\ h.files[s].size \in 0 .. MAX_FILE_SIZE
         /\ FileText(h, d, s) =
              [k \in 1 .. h.files[s].size |-> d[s * MAX_FILE_SIZE + (k - 1)]]
<1>1. s \in Slots  BY DEF UsedSlots
<1>2. /\ h.files[s].size \in 0 .. MAX_FILE_SIZE
      /\ h.files[s].offset = s * MAX_FILE_SIZE
  BY <1>1, SizeAssumption DEF InPlace, SlotStart, Header, Entry
<1>3. ASSUME NEW k \in 1 .. h.files[s].size
      PROVE  /\ h.files[s].offset + k - 1 = s * MAX_FILE_SIZE + (k - 1)
             /\ s * MAX_FILE_SIZE + (k - 1) \in DataSectors
  <2>1. k - 1 \in 0 .. MAX_FILE_SIZE - 1
    BY <1>2, SizeAssumption
  <2>2. s * MAX_FILE_SIZE \in Nat
    BY <1>1, <2>1, SlotInData
  <2>. QED  BY <1>1, <1>2, <2>1, <2>2, SlotInData
<1>4. (IF h.files[s].size > MAX_FILE_SIZE THEN MAX_FILE_SIZE
       ELSE h.files[s].size) = h.files[s].size
  BY <1>2, SizeAssumption
<1>5. FileText(h, d, s) =
        [k \in 1 .. h.files[s].size |->
           IF h.files[s].offset + k - 1 \in DataSectors
           THEN d[h.files[s].offset + k - 1] ELSE WILD]
  BY <1>4 DEF FileText
<1>. QED  BY <1>1, <1>2, <1>3, <1>5

(* A file is one of an image's own files exactly when the image holds it.  *)
LEMMA HoldsIsIn ==
  ASSUME NEW h \in Header, NEW d \in [DataSectors -> Block],
         h.magic, NEW f \in FileRecord
  PROVE  f \in OwnFiles([hdr |-> h, data |-> d]) <=> Holds(h, d, f)
<1> DEFINE img == [hdr |-> h, data |-> d]
<1>1. FilesIn(img) = {[slot |-> s, name |-> StoredName(h.files[s]),
                       text |-> FileText(h, d, s)] : s \in UsedSlots(h)}
  BY DEF FilesIn
<1>2. /\ Len(f.text) \in Nat /\ DOMAIN f.text = 1 .. Len(f.text)
      /\ f.text = [k \in 1 .. Len(f.text) |-> f.text[k]]
      /\ f.slot \in Slots
      /\ f = [slot |-> f.slot, name |-> f.name, text |-> f.text]
  BY DEF FileRecord
<1>3. ASSUME f \in OwnFiles(img)
      PROVE  Holds(h, d, f)
  <2>1. PICK s \in UsedSlots(h) :
          f = [slot |-> s, name |-> StoredName(h.files[s]),
               text |-> FileText(h, d, s)]
    BY <1>1, <1>3 DEF OwnFiles
  <2>2. f.slot = s /\ f.name = StoredName(h.files[s]) /\ h.files[s].used
    BY <2>1 DEF UsedSlots
  <2>3. InPlace(h, s)
    BY <1>3, <2>2 DEF OwnFiles
  <2>4. /\ h.files[s].size \in 0 .. MAX_FILE_SIZE
        /\ f.text = [k \in 1 .. h.files[s].size |->
                       d[s * MAX_FILE_SIZE + (k - 1)]]
    BY <2>1, <2>3, InPlaceText
  <2>5. 1 .. Len(f.text) = 1 .. h.files[s].size
    BY <1>2, <2>4
  <2>6. Len(f.text) = h.files[s].size
    BY <1>2, <2>4, <2>5
  <2>7. h.files[s].offset = s * MAX_FILE_SIZE
    BY <2>3 DEF InPlace, SlotStart
  <2>. QED  BY <2>2, <2>4, <2>6, <2>7, SizeAssumption DEF Holds
<1>4. ASSUME Holds(h, d, f)
      PROVE  f \in OwnFiles(img)
  <2>1. f.slot \in UsedSlots(h)
    BY <1>2, <1>4 DEF Holds, UsedSlots
  <2>2. InPlace(h, f.slot)
    BY <1>4 DEF Holds, InPlace, SlotStart
  <2>3. FileText(h, d, f.slot) =
          [k \in 1 .. Len(f.text) |-> d[f.slot * MAX_FILE_SIZE + (k - 1)]]
    <3>1. h.files[f.slot].size = Len(f.text)
      BY <1>4 DEF Holds
    <3>2. FileText(h, d, f.slot) =
            [k \in 1 .. h.files[f.slot].size |->
               d[f.slot * MAX_FILE_SIZE + (k - 1)]]
      BY <2>1, <2>2, InPlaceText
    <3>. QED  BY <3>1, <3>2
  <2>4. FileText(h, d, f.slot) = f.text
    BY <1>2, <1>4, <2>3 DEF Holds
  <2>5. f.name = StoredName(h.files[f.slot])
    BY <1>4 DEF Holds
  <2>. QED  BY <1>1, <1>2, <2>1, <2>2, <2>4, <2>5 DEF OwnFiles
<1>. QED  BY <1>3, <1>4

(* A header whose sectors come partly from one header that holds f and     *)
(* partly from another one that does holds it too.                         *)
LEMMA HoldsMerge ==
  ASSUME NEW a \in Header, NEW b \in Header, NEW i, NEW d, NEW e,
         NEW f \in FileRecord, Holds(a, d, f), Holds(b, e, f)
  PROVE  Holds(WithHeaderSector(a, b, i), d, f)
<1> DEFINE s == f.slot
           m == WithHeaderSector(a, b, i).files[s]
<1>1. s \in Slots  BY DEF FileRecord
<1>2. m = [lo     |-> IF NameLoSector(s) = i THEN b.files[s].lo ELSE a.files[s].lo,
           hi     |-> IF NameHiSector(s) = i THEN b.files[s].hi ELSE a.files[s].hi,
           size   |-> IF MetaSector(s) = i THEN b.files[s].size
                                           ELSE a.files[s].size,
           offset |-> IF MetaSector(s) = i THEN b.files[s].offset
                                           ELSE a.files[s].offset,
           used   |-> IF MetaSector(s) = i THEN b.files[s].used
                                           ELSE a.files[s].used]
  BY <1>1 DEF WithHeaderSector
<1>3. a.files[s].lo = b.files[s].lo
  BY DEF Holds, StoredName
<1>4. ~Ends(a.files[s].lo) => a.files[s].hi = b.files[s].hi
  BY <1>3 DEF Holds, StoredName
<1>5. StoredName(m) = StoredName(a.files[s])
  BY <1>2, <1>3, <1>4 DEF StoredName
<1>6. m.used /\ m.size = Len(f.text) /\ m.offset = s * MAX_FILE_SIZE
  BY <1>2 DEF Holds
<1>. QED  BY <1>5, <1>6 DEF Holds

(* An image that holds f does so after a sector f has no part in has been  *)
(* replaced.                                                               *)
LEMMA StrayKeeps ==
  ASSUME NEW to \in Image, NEW from \in Image, NEW place \in Order,
         NEW f \in FileRecord, Holds(to.hdr, to.data, f), ~HasPartIn(f, place)
  PROVE  Holds(WithSector(to, from, place).hdr, WithSector(to, from, place).data, f)
<1> DEFINE new == WithSector(to, from, place)
<1>1. f.slot \in Slots /\ Len(f.text) \in Nat
  BY DEF FileRecord
<1>2. CASE place.area = "header"
  <2>1. new.hdr = WithHeaderSector(to.hdr, from.hdr, place.sec) /\ new.data = to.data
    BY <1>2 DEF WithSector, Image
  <2>2. to.hdr.files[f.slot] \in Entry
    BY <1>1 DEF Image, Header
  <2>3. new.hdr.files[f.slot] = to.hdr.files[f.slot]
    <3> DEFINE e == to.hdr.files[f.slot]
    <3>1. e = [lo |-> e.lo, hi |-> e.hi, size |-> e.size, offset |-> e.offset,
               used |-> e.used]
      BY <2>2 DEF Entry
    <3>2. /\ NameLoSector(f.slot) # place.sec /\ NameHiSector(f.slot) # place.sec
          /\ MetaSector(f.slot) # place.sec
      BY <1>2 DEF HasPartIn
    <3>3. WithHeaderSector(to.hdr, from.hdr, place.sec).files[f.slot] =
            [lo |-> e.lo, hi |-> e.hi, size |-> e.size, offset |-> e.offset,
             used |-> e.used]
      BY <1>1, <3>2 DEF WithHeaderSector
    <3>. QED  BY <2>1, <3>1, <3>3
  <2>. QED  BY <2>1, <2>3 DEF Holds
<1>3. CASE place.area # "header"
  <2>1. /\ new.hdr = to.hdr
        /\ new.data = [to.data EXCEPT ![place.sec] = from.data[place.sec]]
    BY <1>3 DEF WithSector, Image
  <2>2. ASSUME NEW k \in 1 .. Len(f.text)
        PROVE  new.data[f.slot * MAX_FILE_SIZE + (k - 1)] = f.text[k]
    <3>1. k - 1 \in 0 .. MAX_FILE_SIZE - 1
      BY <1>1, SizeAssumption DEF Holds
    <3>2. /\ f.slot * MAX_FILE_SIZE \in Nat
          /\ f.slot * MAX_FILE_SIZE + (k - 1) \in DataSectors
      BY <1>1, <3>1, SlotInData
    <3>3. place.sec # f.slot * MAX_FILE_SIZE + (k - 1)
      BY <1>1, <1>3, <3>2 DEF HasPartIn, SlotStart
    <3>. QED  BY <2>1, <3>2, <3>3 DEF Holds, Image
  <2>. QED  BY <2>1, <2>2 DEF Holds
<1>. QED  BY <1>2, <1>3

LEMMA SameStep ==
  ASSUME NEW a \in Header, NEW b \in Header, NEW i \in Nat, SameHeader(a, b, i)
  PROVE  SameHeader(WithHeaderSector(a, b, i), b, i + 1)
<1>1. \A s \in Slots : /\ NameLoSector(s) \in Nat /\ NameHiSector(s) \in Nat
                       /\ MetaSector(s) \in Nat
  BY HeaderSectors
<1>. QED  BY <1>1 DEF SameHeader, WithHeaderSector

LEMMA SameAll ==
  ASSUME NEW a \in Header, NEW b \in Header, SameHeader(a, b, HEADER_SECTORS)
  PROVE  a = b
<1>1. a.magic = b.magic /\ a.file_count = b.file_count
  BY HeaderSectors DEF SameHeader
<1>2. \A s \in Slots : a.files[s] = b.files[s]
  BY HeaderSectors DEF SameHeader, Header, Entry
<1>. QED  BY <1>1, <1>2 DEF Header

LEMMA SameNone ==
  ASSUME NEW a, NEW b
  PROVE  SameHeader(a, b, 0)
<1>1. \A s \in Slots : /\ ~(NameLoSector(s) < 0) /\ ~(NameHiSector(s) < 0)
                       /\ ~(MetaSector(s) < 0)
  BY HeaderSectors
<1>. QED  BY <1>1 DEF SameHeader

-----------------------------------------------------------------------------
(* The calls on a loaded image.                                            *)

LEMMA NotDurable ==
  ASSUME TypeOK, RamInv, selected, Mounted, NEW s \in FreeSlots(hdr)
  PROVE  \A f \in durable \ hit : f.slot # s
  BY DEF RamInv, AllHold, Holds, FreeSlots

(* fs_create_file takes a slot no durable file is in.                      *)
LEMMA FillKeeps ==
  ASSUME TypeOK, RamInv, selected, Mounted, NEW s \in FreeSlots(hdr),
         NEW n, NEW c \in Contents, Len(c) <= MAX_FILE_SIZE, Fill(s, n, c)
  PROVE  hdr'.magic /\ AllHold(hdr', data')
<1>1. s \in Slots  BY DEF FreeSlots
<1>2. hdr.magic /\ hdr'.magic
      /\ \A t \in Slots \ {s} : hdr'.files[t] = hdr.files[t]
  BY <1>1, FillEntries DEF TypeOK, RamTypeOK, RamInv
<1>3. ASSUME NEW f \in durable \ hit
      PROVE  Holds(hdr', data', f)
  <2>1. f.slot \in Slots \ {s} /\ Holds(hdr, data, f)
    BY <1>3, NotDurable DEF TypeOK, RecordsTypeOK, FileRecord, RamInv, AllHold
  <2>2. hdr'.files[f.slot] = hdr.files[f.slot]
    BY <1>2, <2>1
  <2>3. ASSUME NEW k \in 1 .. Len(f.text)
        PROVE  data'[f.slot * MAX_FILE_SIZE + (k - 1)] = f.text[k]
    <3> DEFINE i == f.slot * MAX_FILE_SIZE + (k - 1)
    <3>1. Len(f.text) \in Nat /\ Len(f.text) <= MAX_FILE_SIZE
      BY <2>1 DEF TypeOK, RecordsTypeOK, FileRecord, Holds
    <3>2. k - 1 \in 0 .. MAX_FILE_SIZE - 1
      BY <3>1, SizeAssumption
    <3>3. i \in DataSectors /\ i \in Int
      BY <2>1, <3>2, SlotInData DEF DataSectors
    <3>4. i - SlotStart(s) \notin 0 .. Len(c) - 1
      <4>1. SUFFICES ASSUME i - SlotStart(s) \in 0 .. Len(c) - 1
                     PROVE  FALSE
        OBVIOUS
      <4>2. SlotStart(s) = s * MAX_FILE_SIZE /\ s * MAX_FILE_SIZE \in Nat
        BY <1>1, <3>2, SlotInData DEF SlotStart
      <4>3. Len(c) \in Nat  BY ContentAssumption
      <4> DEFINE j == i - SlotStart(s)
      <4>4. j \in 0 .. MAX_FILE_SIZE - 1
        BY <4>1, <4>3, SizeAssumption
      <4>5. s * MAX_FILE_SIZE + j = i
        BY <3>3, <4>2
      <4>6. s * MAX_FILE_SIZE + j # f.slot * MAX_FILE_SIZE + (k - 1)
        BY <1>1, <2>1, <3>2, <4>4, SlotsApart
      <4>. QED  BY <4>5, <4>6
    <3>5. data'[i] = data[i]
      BY <3>3, <3>4 DEF Fill
    <3>. QED  BY <2>1, <3>5 DEF Holds
  <2>. QED  BY <2>1, <2>2, <2>3 DEF Holds
<1>. QED  BY <1>2, <1>3 DEF AllHold

(* fs_delete_file touches no other slot.                                   *)
LEMMA ClearKeeps ==
  ASSUME NEW h \in Header, NEW d, NEW s \in Slots, NEW f \in FileRecord,
         f.slot # s, Holds(h, d, f)
  PROVE  Holds(Cleared(h, s), d, f) /\ Cleared(h, s).magic = h.magic
<1>1. f.slot \in Slots  BY DEF FileRecord
<1>2. Cleared(h, s).files[f.slot] = h.files[f.slot]
      /\ Cleared(h, s).magic = h.magic
  BY <1>1 DEF Cleared, Header
<1>. QED  BY <1>2 DEF Holds

(* A save that begins when RAM holds the durable files.                    *)
LEMMA SaveKeeps ==
  ASSUME TypeOK, DurabilityInv, pc \in {"loaded", "shell"},
         Save("shell"), UNCHANGED <<selected, owed>>, DiskInv', HitInv',
         selected => hdr'.magic /\ AllHold(hdr, data)'
  PROVE  DurabilityInv'
<1>1. CASE selected
  <2>1. pc' = "saveHeader" /\ sec' = 0 /\ said' = "quiet" /\ UNCHANGED persistent
    BY <1>1 DEF Save, BeginSave
  <2>2. SaveInv'
    BY <1>1, <2>1, SameNone DEF SaveInv
  <2>3. OwedInv'
    BY <2>1 DEF DurabilityInv, OwedInv
  <2>. QED  BY <1>1, <2>1, <2>2, <2>3 DEF DurabilityInv, RamInv, LoadInv, SaidInv
<1>2. CASE ~selected
  <2>1. pc' = "shell" /\ said' = "ram-only" /\ persistent' = FALSE
    BY <1>2 DEF Save
  <2>. QED  BY <1>2, <2>1
            DEF DurabilityInv, RamInv, LoadInv, SaveInv, SaidInv, OwedInv
<1>. QED  BY <1>1, <1>2

LEMMA CreateKeeps ==
  ASSUME TypeOK, DurabilityInv, pc \in {"loaded", "shell"},
         NEW n, NEW c \in Contents, CreateFile(n, c),
         UNCHANGED <<selected, disk, owed, durable, hit>>
  PROVE  DurabilityInv'
<1>1. DiskInv' /\ HitInv'
  BY DEF DurabilityInv, DiskInv, AllHold, HitInv
<1>2. CASE CreateCode(n, c) # 0
  <2>1. UNCHANGED <<hdr, data, persistent, said>> /\ pc' = "shell"
    BY <1>2 DEF CreateFile
  <2>. QED
    BY <1>1, <2>1
    DEF DurabilityInv, RamInv, AllHold, Mounted, LoadInv, SaveInv, SaidInv,
        OwedInv, RamImage
<1>3. CASE CreateCode(n, c) = 0
  <2>1. PICK s \in FreeSlots(hdr) : Fill(s, n, c)
    BY <1>3 DEF CreateFile, IsFirst
  <2>2. Save("shell")
    BY <1>3 DEF CreateFile
  <2>3. Len(c) <= MAX_FILE_SIZE
    BY <1>3, ContentAssumption, SizeAssumption DEF CreateCode
  <2>4. selected => hdr'.magic /\ AllHold(hdr', data')
    BY <2>1, <2>3, FillKeeps DEF DurabilityInv, Mounted
  <2>5. selected => hdr'.magic /\ AllHold(hdr, data)'
    BY <2>4 DEF AllHold
  <2>. QED  BY <1>1, <2>2, <2>5, SaveKeeps
<1>. QED  BY <1>2, <1>3

LEMMA DeleteKeeps ==
  ASSUME TypeOK, DurabilityInv, NEW n, FsDeleteFile(n)
  PROVE  DurabilityInv'
<1>. USE DEF TypeOK, RamTypeOK, RecordsTypeOK
<1>1. CASE UNCHANGED <<hdr, persistent, pc, sec, back, said, durable, hit>>
  BY <1>1
  DEF FsDeleteFile, DurabilityInv, DiskInv, RamInv, AllHold, Mounted, LoadInv,
      SaveInv, SaidInv, OwedInv, HitInv, RamImage
<1>2. ASSUME NEW s \in Slots, hdr' = Cleared(hdr, s), Save("shell"),
             IF selected
             THEN /\ durable' = {f \in durable : f.slot # s}
                  /\ hit' = {f \in hit : f.slot # s}
             ELSE UNCHANGED <<durable, hit>>
      PROVE  DurabilityInv'
  <2>1. UNCHANGED <<data, selected, disk, owed>> /\ pc = "shell"
    BY DEF FsDeleteFile
  <2>2. durable' \subseteq durable /\ durable' \ hit' \subseteq durable \ hit
        /\ hit' \subseteq hit
    BY <1>2
  <2>3. DiskInv' /\ HitInv'
    BY <2>1, <2>2 DEF DurabilityInv, DiskInv, AllHold, HitInv
  <2>4. ASSUME selected
        PROVE  hdr'.magic /\ AllHold(hdr, data)'
    <3>1. hdr.magic /\ AllHold(hdr, data)
      BY <2>1, <2>4 DEF DurabilityInv, RamInv, Mounted
    <3>2. hdr'.magic
      BY <1>2, <3>1 DEF Cleared, Header
    <3>3. ASSUME NEW f \in durable' \ hit'
          PROVE  Holds(hdr', data', f)
      <4>1. f \in durable \ hit /\ f.slot # s /\ f \in FileRecord
        BY <1>2, <2>4, <3>3
      <4>. QED  BY <1>2, <2>1, <3>1, <4>1, ClearKeeps DEF AllHold
    <3>. QED  BY <3>2, <3>3 DEF AllHold
  <2>. QED  BY <1>2, <2>1, <2>3, <2>4, SaveKeeps
<1>. QED  BY <1>1, <1>2 DEF FsDeleteFile

-----------------------------------------------------------------------------
(* The steps of a load and of a save.                                      *)

LEMMA LoadHeaderKeeps ==
  ASSUME Reliable, TypeOK, DurabilityInv, LoadHeaderSector
  PROVE  DurabilityInv'
<1>. USE DEF TypeOK, RamTypeOK, RecordsTypeOK, ControlTypeOK, Image
<1>1. hdr' = WithHeaderSector(hdr, disk.hdr, sec)
  BY DEF LoadHeaderSector, ReadFails, Reliable
<1>2. UNCHANGED <<data, persistent, selected, disk, said, owed, durable, hit>>
      /\ pc = "loadHeader"
      /\ pc' \in {"loadHeader", "checkMagic"}
  BY DEF LoadHeaderSector, ReadFails, Reliable
<1>3. SameHeader(hdr', disk.hdr, sec + 1)
  BY <1>1, <1>2, SameStep DEF DurabilityInv, LoadInv
<1>4. CASE More(HEADER_SECTORS)
  <2>1. pc' = "loadHeader" /\ sec' = sec + 1
    BY <1>4 DEF LoadHeaderSector, ReadFails, Reliable
  <2>2. LoadInv'
    BY <1>2, <1>3, <2>1 DEF DurabilityInv, LoadInv
  <2>. QED
    BY <1>2, <2>1, <2>2
    DEF DurabilityInv, DiskInv, RamInv, AllHold, Mounted, SaveInv, SaidInv,
        OwedInv, HitInv
<1>5. CASE ~More(HEADER_SECTORS)
  <2>1. pc' = "checkMagic" /\ sec' = 0
    BY <1>5 DEF LoadHeaderSector, ReadFails, Reliable
  <2>2. sec + 1 = HEADER_SECTORS
    BY <1>2, <1>5, HeaderSectors DEF More
  <2>3. WithHeaderSector(hdr, disk.hdr, sec) \in Header
    BY WithHeaderSectorType
  <2>4. hdr' = disk.hdr
    BY <1>1, <1>3, <2>2, <2>3, SameAll
  <2>5. LoadInv'
    BY <1>2, <2>1, <2>4 DEF DurabilityInv, LoadInv
  <2>. QED
    BY <1>2, <2>1, <2>5
    DEF DurabilityInv, DiskInv, RamInv, AllHold, Mounted, SaveInv, SaidInv,
        OwedInv, HitInv
<1>. QED  BY <1>4, <1>5

LEMMA CheckMagicKeeps ==
  ASSUME TypeOK, DurabilityInv, CheckMagic
  PROVE  DurabilityInv'
<1>1. UNCHANGED <<selected, disk, owed, durable, hit>> /\ pc = "checkMagic"
      /\ selected /\ hdr = disk.hdr /\ owed = NoOrder
  BY DEF CheckMagic, DurabilityInv, LoadInv, TypeOK, OwedTypeOK
<1>2. DiskInv' /\ OwedInv' /\ HitInv'
  BY <1>1 DEF DurabilityInv, DiskInv, AllHold, OwedInv, HitInv
<1>3. CASE hdr.magic
  <2>1. UNCHANGED <<hdr, data, said>> /\ pc' = "loadData" /\ sec' = 0
    BY <1>3 DEF CheckMagic
  <2>2. LoadInv'
    BY <1>1, <1>3, <2>1 DEF LoadInv
  <2>. QED
    BY <1>1, <1>2, <2>1, <2>2
    DEF DurabilityInv, RamInv, Mounted, SaveInv, SaidInv
<1>4. CASE ~hdr.magic
  <2>1. hdr' = Formatted(hdr) /\ pc' = "saveHeader" /\ sec' = 0
        /\ said' = "quiet"
    BY <1>4 DEF CheckMagic, BeginSave
  <2>2. durable = {}
    BY <1>1, <1>4 DEF DurabilityInv, DiskInv
  <2>3. hdr'.magic
    BY <2>1 DEF Formatted
  <2>4. RamInv'
    BY <1>1, <2>2, <2>3 DEF RamInv, AllHold
  <2>5. SaveInv'
    BY <1>1, <2>1, SameNone DEF SaveInv
  <2>. QED  BY <1>2, <2>1, <2>4, <2>5 DEF DurabilityInv, LoadInv, SaidInv
<1>. QED  BY <1>3, <1>4

LEMMA LoadDataKeeps ==
  ASSUME Reliable, TypeOK, DurabilityInv, LoadDataSector
  PROVE  DurabilityInv'
<1>. USE DEF TypeOK, RamTypeOK, RecordsTypeOK, ControlTypeOK, Image
<1>1. /\ data' = [data EXCEPT ![sec] = disk.data[sec]]
      /\ UNCHANGED <<hdr, selected, disk, said, durable, hit>> /\ pc = "loadData"
      /\ owed' = NoOrder
  <2>1. owed = NoOrder
    BY DEF DurabilityInv, OwedInv, LoadDataSector
  <2>. QED  BY <2>1 DEF LoadDataSector, Arriving, ReadFails, Reliable
<1>2. /\ selected /\ hdr = disk.hdr /\ hdr.magic
      /\ \A j \in 0 .. sec - 1 : data[j] = disk.data[j]
      /\ sec \in DataSectors
  BY <1>1 DEF DurabilityInv, LoadInv
<1>3. \A j \in 0 .. sec : data'[j] = disk.data[j]
  <2>1. 0 .. sec \subseteq DataSectors
    BY <1>2, DataArea
  <2>. QED  BY <1>1, <1>2, <2>1
<1>4. DiskInv' /\ OwedInv' /\ HitInv'
  BY <1>1 DEF DurabilityInv, DiskInv, AllHold, OwedInv, HitInv
<1>5. said' # "saved"
  BY <1>1 DEF DurabilityInv, SaidInv
<1>6. CASE More(DATA_SECTORS)
  <2>1. pc' = "loadData" /\ sec' = sec + 1
    BY <1>1, <1>6 DEF LoadDataSector
  <2>2. LoadInv'
    BY <1>1, <1>2, <1>3, <2>1 DEF LoadInv
  <2>. QED
    BY <1>4, <1>5, <2>1, <2>2 DEF DurabilityInv, RamInv, Mounted, SaveInv, SaidInv
<1>7. CASE ~More(DATA_SECTORS)
  <2>1. pc' = "loaded"
    BY <1>7 DEF LoadDataSector
  <2>2. 0 .. sec = DataSectors
    BY <1>2, <1>7, DataArea DEF More
  <2>3. data' \in [DataSectors -> Block]
    BY <1>1, <1>2
  <2>4. data' = disk.data
    BY <1>3, <2>2, <2>3
  <2>5. RamInv'
    BY <1>1, <1>2, <2>4 DEF DurabilityInv, DiskInv, RamInv, AllHold
  <2>. QED  BY <1>4, <1>5, <2>1, <2>5 DEF DurabilityInv, LoadInv, SaveInv, SaidInv
<1>. QED  BY <1>6, <1>7

LEMMA WriteFailsKeeps ==
  ASSUME TypeOK, DurabilityInv, pc \in {"saveHeader", "saveData"}, WriteFails,
         UNCHANGED <<hdr, data, selected>>
  PROVE  DurabilityInv'
<1>1. /\ UNCHANGED <<disk, durable, hit>> /\ persistent' = FALSE
      /\ pc' \in {"loaded", "shell"} /\ said' = "error"
  BY DEF WriteFails, TypeOK, ControlTypeOK
<1>2. owed' = owed \/ owed' = Here("WRITE")
  BY DEF WriteFails, GivenUp
<1>3. OwedInv'
  BY <1>1, <1>2 DEF DurabilityInv, OwedInv, Here
<1>. QED
  BY <1>1, <1>3
  DEF DurabilityInv, DiskInv, RamInv, AllHold, Mounted, LoadInv, SaveInv,
      SaidInv, HitInv

(* What a call that returns 0 has stored: its own sector, or, for the      *)
(* first one of a save, something in the sector of a write still owed.     *)
LEMMA WrittenWhere ==
  ASSUME Reliable, TypeOK, DurabilityInv, pc \in {"saveHeader", "saveData"},
         NEW img, Written(img)
  PROVE  /\ owed' = NoOrder
         /\ \/ disk' = img /\ NowHit = hit
            \/ /\ ~persistent /\ pc = "saveHeader" /\ sec = 0
               /\ owed \in Order /\ owed # Here("WRITE")
               /\ "late" \in Faults
               /\ NowHit = hit \cup {f \in durable : HasPartIn(f, owed)}
               /\ \E stray \in Strays : disk' = WithSector(disk, stray, owed)
<1>1. NoOrder.op = "none"
  BY DEF NoOrder
<1>2. CASE owed = NoOrder
  BY <1>1, <1>2 DEF Written, WrittenLate, NowHit, Reliable
<1>3. CASE owed # NoOrder
  <2>1. /\ owed.op = "WRITE" /\ ~persistent /\ pc = "saveHeader" /\ sec = 0
        /\ owed \in Order /\ "late" \in Faults
    BY <1>3 DEF DurabilityInv, OwedInv, TypeOK, OwedTypeOK
  <2>2. WrittenLate(img)
    BY <1>3 DEF Written
  <2>. QED  BY <2>1, <2>2 DEF WrittenLate, NowHit
<1>. QED  BY <1>2, <1>3

(* Words that went astray cost the files with a part where they landed.    *)
LEMMA StrayDiskKeeps ==
  ASSUME TypeOK, DurabilityInv, owed \in Order,
         pc = "saveHeader", sec = 0, owed # Here("WRITE"), owed.op = "WRITE",
         NEW stray \in Strays, disk' = WithSector(disk, stray, owed),
         durable' = durable, hit' = hit \cup {f \in durable : HasPartIn(f, owed)}
  PROVE  DiskInv'
<1>1. stray \in Image /\ disk \in Image
  BY DiskAssumption DEF TypeOK, RecordsTypeOK
<1>2. disk'.hdr.magic = disk.hdr.magic
  <2>1. CASE owed.area = "header"
    <3>1. owed.sec # 0
      BY <2>1 DEF Here, Order
    <3>2. disk'.hdr = WithHeaderSector(disk.hdr, stray.hdr, owed.sec)
      BY <1>1, <2>1 DEF WithSector, Image
    <3>. QED  BY <3>1, <3>2 DEF WithHeaderSector
  <2>2. CASE owed.area # "header"
    BY <1>1, <2>2 DEF WithSector, Image
  <2>. QED  BY <2>1, <2>2
<1>3. ASSUME NEW f \in durable' \ hit'
      PROVE  Holds(disk'.hdr, disk'.data, f)
  <2>1. /\ f \in durable \ hit /\ ~HasPartIn(f, owed) /\ f \in FileRecord
        /\ Holds(disk.hdr, disk.data, f)
    BY <1>3 DEF DurabilityInv, DiskInv, AllHold, TypeOK, RecordsTypeOK
  <2>. QED  BY <1>1, <2>1, StrayKeeps
<1>. QED  BY <1>2, <1>3 DEF DurabilityInv, DiskInv, AllHold

LEMMA SaveHeaderKeeps ==
  ASSUME Reliable, TypeOK, DurabilityInv, SaveHeaderSector
  PROVE  DurabilityInv'
<1>. USE DEF TypeOK, RamTypeOK, RecordsTypeOK, ControlTypeOK, Image
<1> DEFINE img == [disk EXCEPT !.hdr = WithHeaderSector(disk.hdr, hdr, sec)]
<1>1. UNCHANGED <<hdr, data, selected>> /\ pc = "saveHeader"
  BY DEF SaveHeaderSector
<1>2. CASE WriteFails
  BY <1>1, <1>2, WriteFailsKeeps
<1>3. CASE ~WriteFails
  <2>1. /\ Written(img) /\ hit' = NowHit
        /\ UNCHANGED <<persistent, said, durable>>
        /\ IF More(HEADER_SECTORS)
           THEN pc' = pc /\ sec' = sec + 1
           ELSE pc' = "saveData" /\ sec' = 0
    BY <1>3 DEF SaveHeaderSector
  <2>2. selected /\ hdr.magic /\ AllHold(hdr, data)
    BY <1>1 DEF DurabilityInv, RamInv, SaveInv, Mounted
  <2>3. owed' = NoOrder /\ hit \subseteq hit'
    BY <1>1, <2>1, WrittenWhere
  <2>4. RamInv' /\ OwedInv' /\ LoadInv'
    BY <1>1, <2>1, <2>2, <2>3 DEF RamInv, AllHold, OwedInv, LoadInv
  <2>5. SaidInv'
    BY <1>1, <2>1 DEF DurabilityInv, SaidInv
  <2>6. CASE disk' = img /\ NowHit = hit
    <3>1. /\ disk'.hdr = WithHeaderSector(disk.hdr, hdr, sec)
          /\ disk'.data = disk.data
          /\ disk'.hdr \in Header
      BY <2>6, WithHeaderSectorType
    <3>2. DiskInv'
      <4>1. ASSUME durable # {}
            PROVE  disk'.hdr.magic
        <5>1. disk.hdr.magic  BY <4>1 DEF DurabilityInv, DiskInv
        <5>. QED  BY <2>2, <3>1, <5>1 DEF WithHeaderSector
      <4>2. ASSUME NEW f \in durable \ hit
            PROVE  Holds(disk'.hdr, disk'.data, f)
        <5>1. f \in FileRecord  BY <4>2
        <5>2. Holds(disk.hdr, disk.data, f) /\ Holds(hdr, data, f)
          BY <2>2, <4>2 DEF DurabilityInv, DiskInv, AllHold
        <5>. QED  BY <3>1, <5>1, <5>2, HoldsMerge
      <4>. QED  BY <2>1, <2>6, <4>1, <4>2 DEF DiskInv, AllHold
    <3>3. SaveInv'
      <4>1. ASSUME persistent
            PROVE  SameHeader(disk'.hdr, hdr, sec + 1)
        BY <1>1, <3>1, <4>1, SameStep DEF DurabilityInv, SaveInv
      <4>2. CASE More(HEADER_SECTORS)
        BY <1>1, <2>1, <2>2, <4>1, <4>2 DEF SaveInv
      <4>3. CASE ~More(HEADER_SECTORS)
        <5>1. sec + 1 = HEADER_SECTORS
          BY <1>1, <4>3, HeaderSectors DEF More
        <5>2. persistent => disk'.hdr = hdr
          BY <3>1, <4>1, <5>1, SameAll
        <5>. QED  BY <1>1, <2>1, <2>2, <4>3, <5>2 DEF SaveInv
      <4>. QED  BY <4>2, <4>3
    <3>4. HitInv'
      BY <2>1, <2>6 DEF DurabilityInv, HitInv
    <3>. QED  BY <2>4, <2>5, <3>2, <3>3, <3>4 DEF DurabilityInv
  <2>7. CASE ~(disk' = img /\ NowHit = hit)
    <3>1. /\ ~persistent /\ sec = 0 /\ owed \in Order /\ owed # Here("WRITE")
          /\ "late" \in Faults
          /\ NowHit = hit \cup {f \in durable : HasPartIn(f, owed)}
      BY <1>1, <2>1, <2>7, WrittenWhere
    <3>2. PICK stray \in Strays : disk' = WithSector(disk, stray, owed)
      BY <1>1, <2>1, <2>7, WrittenWhere
    <3>3. owed.op = "WRITE"
      BY <3>1 DEF DurabilityInv, OwedInv, Order, NoOrder
    <3>4. DiskInv'
      BY <1>1, <2>1, <3>1, <3>2, <3>3, StrayDiskKeeps
    <3>5. SaveInv' /\ HitInv'
      BY <1>1, <2>1, <2>2, <3>1 DEF SaveInv, HitInv
    <3>. QED  BY <2>4, <2>5, <3>4, <3>5 DEF DurabilityInv
  <2>. QED  BY <2>6, <2>7
<1>. QED  BY <1>2, <1>3

LEMMA SaveDataKeeps ==
  ASSUME Reliable, TypeOK, DurabilityInv, SaveDataSector
  PROVE  DurabilityInv'
<1>. USE DEF TypeOK, RamTypeOK, RecordsTypeOK, ControlTypeOK, Image
<1>1. UNCHANGED <<hdr, data, selected>> /\ pc = "saveData" /\ sec \in DataSectors
  BY DEF SaveDataSector
<1>2. CASE WriteFails
  BY <1>1, <1>2, WriteFailsKeeps
<1>3. CASE ~WriteFails
  <2>1. /\ Written([disk EXCEPT !.data[sec] = data[sec]])
        /\ UNCHANGED persistent
        /\ IF More(DATA_SECTORS)
           THEN pc' = pc /\ sec' = sec + 1
           ELSE pc' = back /\ sec' = 0
        /\ IF ~More(DATA_SECTORS) /\ persistent
           THEN /\ said' = "saved"
                /\ durable' = OwnFiles(RamImage) /\ hit' = {}
           ELSE hit' = NowHit /\ UNCHANGED <<said, durable>>
    BY <1>3 DEF SaveDataSector
  <2>2. /\ disk' = [disk EXCEPT !.data[sec] = data[sec]]
        /\ NowHit = hit /\ owed' = NoOrder
    BY <1>1, <2>1, WrittenWhere
  <2>3. /\ disk'.hdr = disk.hdr
        /\ disk'.data = [disk.data EXCEPT ![sec] = data[sec]]
        /\ disk'.data \in [DataSectors -> Block]
        /\ disk' = [hdr |-> disk'.hdr, data |-> disk'.data]
    BY <1>1, <2>2
  <2>4. selected /\ hdr.magic /\ AllHold(hdr, data)
    BY <1>1 DEF DurabilityInv, RamInv, SaveInv, Mounted
  <2>5. ASSUME persistent
        PROVE  disk.hdr = hdr /\ \A j \in 0 .. sec : disk'.data[j] = data[j]
    <3>1. 0 .. sec \subseteq DataSectors
      BY <1>1, DataArea
    <3>2. disk.hdr = hdr /\ \A j \in 0 .. sec - 1 : disk.data[j] = data[j]
      BY <1>1, <2>5 DEF DurabilityInv, SaveInv
    <3>. QED  BY <1>1, <2>3, <3>1, <3>2
  <2>6. said # "saved"
    BY <1>1 DEF DurabilityInv, SaidInv
  <2>7. OwedInv'
    BY <2>2 DEF OwedInv
  <2>8. CASE More(DATA_SECTORS) \/ ~persistent
    <3>1. /\ UNCHANGED <<said, durable, hit>>
          /\ pc' \in {"saveData", "loaded", "shell"}
          /\ pc' = "saveData" => sec' = sec + 1
      BY <1>1, <2>1, <2>2, <2>8
    <3>2. ASSUME NEW f \in durable \ hit
          PROVE  Holds(disk'.hdr, disk'.data, f)
      <4>1. Holds(disk.hdr, disk.data, f) /\ Holds(hdr, data, f)
        BY <2>4, <3>2 DEF DurabilityInv, DiskInv, AllHold
      <4>2. f \in FileRecord /\ f.slot \in Slots /\ Len(f.text) \in Nat
        BY <3>2 DEF FileRecord
      <4>3. ASSUME NEW k \in 1 .. Len(f.text)
            PROVE  disk'.data[f.slot * MAX_FILE_SIZE + (k - 1)] = f.text[k]
        <5>1. k - 1 \in 0 .. MAX_FILE_SIZE - 1
          BY <4>1, <4>2, SizeAssumption DEF Holds
        <5>2. f.slot * MAX_FILE_SIZE + (k - 1) \in DataSectors
          BY <4>2, <5>1, SlotInData
        <5>. QED  BY <2>3, <4>1, <5>2 DEF Holds
      <4>. QED  BY <2>3, <4>1, <4>3 DEF Holds
    <3>3. DiskInv'
      BY <2>3, <3>1, <3>2 DEF DurabilityInv, DiskInv, AllHold
    <3>4. RamInv' /\ HitInv'
      BY <1>1, <2>4, <3>1 DEF DurabilityInv, RamInv, AllHold, HitInv
    <3>5. SaveInv'
      BY <1>1, <2>1, <2>3, <2>4, <2>5, <2>8, <3>1 DEF SaveInv
    <3>. QED  BY <2>6, <2>7, <3>1, <3>3, <3>4, <3>5
              DEF DurabilityInv, LoadInv, SaidInv
  <2>9. CASE ~More(DATA_SECTORS) /\ persistent
    <3>1. /\ pc' \in {"loaded", "shell"} /\ hit' = {}
          /\ durable' = OwnFiles([hdr |-> hdr, data |-> data])
      BY <2>1, <2>9 DEF RamImage
    <3>2. 0 .. sec = DataSectors
      BY <1>1, <2>9, DataArea DEF More
    <3>3. disk'.data = data
      BY <2>3, <2>5, <2>9, <3>2
    <3>4. disk' = [hdr |-> hdr, data |-> data]
      BY <2>3, <2>5, <2>9, <3>3
    <3>5. durable' \subseteq FileRecord
      <4>1. [hdr |-> hdr, data |-> data] \in Image
        OBVIOUS
      <4>. QED  BY <3>1, <4>1, FilesInType DEF OwnFiles
    <3>6. \A f \in durable' : Holds(hdr, data, f)
      BY <2>4, <3>1, <3>5, HoldsIsIn
    <3>7. DiskInv' /\ RamInv' /\ HitInv'
      BY <1>1, <2>4, <3>1, <3>4, <3>6 DEF DiskInv, RamInv, AllHold, HitInv
    <3>8. SaidInv'
      BY <1>1, <3>1, <3>4 DEF SaidInv, RamImage
    <3>. QED  BY <2>7, <3>1, <3>7, <3>8 DEF DurabilityInv, LoadInv, SaveInv
  <2>. QED  BY <2>8, <2>9
<1>. QED  BY <1>2, <1>3

-----------------------------------------------------------------------------

LEMMA DurabilityStep ==
  ASSUME Reliable, TypeOK, DurabilityInv, [Next]_vars
  PROVE  DurabilityInv'
<1>1. ASSUME NEW drive \in BOOLEAN, Boot(drive)
      PROVE  DurabilityInv'
  <2>1. UNCHANGED <<disk, said, owed, durable, hit>> /\ sec' = 0 /\ pc = "off"
        /\ selected' = drive
        /\ pc' = IF drive THEN "loadHeader" ELSE "loaded"
    BY <1>1 DEF Boot
  <2>2. said' # "saved"
    BY <2>1 DEF DurabilityInv, SaidInv
  <2>3. LoadInv'
    BY <2>1, SameNone DEF LoadInv
  <2>4. OwedInv'
    BY <2>1 DEF OwedInv, TypeOK, OwedTypeOK
  <2>. QED
    BY <2>1, <2>2, <2>3, <2>4
    DEF DurabilityInv, DiskInv, RamInv, AllHold, Mounted, SaveInv, SaidInv, HitInv
<1>2. CASE EnsureReadme
  <2>1. CASE CreateFile(README, README_TEXT)
    BY <1>2, <2>1, CreateKeeps, ContentAssumption DEF EnsureReadme
  <2>2. CASE UNCHANGED <<hdr, data, persistent, said>> /\ pc' = "shell"
    BY <1>2, <2>2
    DEF EnsureReadme, DurabilityInv, DiskInv, RamInv, AllHold, Mounted, LoadInv,
        SaveInv, SaidInv, OwedInv, HitInv, RamImage
  <2>. QED  BY <1>2, <2>1, <2>2 DEF EnsureReadme
<1>3. ASSUME NEW n, NEW c \in Contents, FsCreateFile(n, c)
      PROVE  DurabilityInv'
  BY <1>3, CreateKeeps DEF FsCreateFile
<1>4. CASE SaveCommand
  <2>1. UNCHANGED <<hdr, data, selected, disk, owed, durable, hit>>
        /\ Save("shell") /\ pc = "shell"
    BY <1>4 DEF SaveCommand
  <2>2. selected => hdr'.magic /\ AllHold(hdr, data)'
    BY <2>1 DEF DurabilityInv, RamInv, AllHold, Mounted
  <2>3. DiskInv' /\ HitInv'
    BY <2>1 DEF DurabilityInv, DiskInv, AllHold, HitInv
  <2>. QED  BY <2>1, <2>2, <2>3, SaveKeeps
<1>5. CASE PowerDown
  BY <1>5
  DEF PowerDown, DurabilityInv, DiskInv, RamInv, AllHold, Mounted, LoadInv,
      SaveInv, SaidInv, OwedInv, HitInv
<1>6. ASSUME UNCHANGED <<hdr, data, persistent, selected, disk, pc, sec, said,
                         durable, hit>>,
             owed' \in {owed, NoOrder}
      PROVE  DurabilityInv'
  BY <1>6
  DEF DurabilityInv, DiskInv, RamInv, AllHold, Mounted, LoadInv, SaveInv,
      SaidInv, OwedInv, HitInv, RamImage
<1>7. ASSUME NEW n, FsReadFile(n)
      PROVE  DurabilityInv'
  BY <1>6, <1>7 DEF FsReadFile, ram
<1>8. CASE FsListFiles
  BY <1>6, <1>8 DEF FsListFiles, ram
<1>9. CASE UNCHANGED vars
  BY <1>6, <1>9 DEF vars
<1>10. CASE DisksGivesUp \/ Settle
  BY <1>6, <1>10 DEF DisksGivesUp, Settle, ram, Reliable
<1>. QED
  BY <1>1, <1>2, <1>3, <1>4, <1>5, <1>7, <1>8, <1>9, <1>10, LoadHeaderKeeps,
     CheckMagicKeeps, LoadDataKeeps, SaveHeaderKeeps, SaveDataKeeps, DeleteKeeps
  DEF Next, Program, User, Reboot, PowerLoss

LEMMA DurabilityInit ==
  ASSUME Init
  PROVE  DurabilityInv
<1>1. /\ disk \in Image /\ durable = OwnFiles(disk) /\ hit = {}
      /\ pc = "off" /\ said = "quiet" /\ owed = NoOrder
  BY DiskAssumption DEF Init
<1>2. /\ disk.hdr \in Header /\ disk.data \in [DataSectors -> Block]
      /\ disk = [hdr |-> disk.hdr, data |-> disk.data]
      /\ durable \subseteq FileRecord
  BY <1>1, FilesInType DEF Image, OwnFiles
<1>3. durable # {} => disk.hdr.magic
  BY <1>1 DEF OwnFiles, FilesIn
<1>4. AllHold(disk.hdr, disk.data)
  BY <1>1, <1>2, <1>3, HoldsIsIn DEF AllHold
<1>. QED
  BY <1>1, <1>3, <1>4
  DEF DurabilityInv, DiskInv, RamInv, Mounted, LoadInv, SaveInv, SaidInv,
      OwedInv, HitInv

LEMMA DurabilityHolds ==
  ASSUME Reliable
  PROVE  Spec => [](TypeOK /\ DurabilityInv)
<1>1. Init => TypeOK /\ DurabilityInv
  BY TypeInit, DurabilityInit
<1>2. TypeOK /\ DurabilityInv /\ [Next]_vars => TypeOK' /\ DurabilityInv'
  BY TypeStep, DurabilityStep
<1>. QED  BY <1>1, <1>2, PTL DEF Spec

LEMMA HeldIsOnDisk ==
  ASSUME TypeOK, DurabilityInv, NEW f \in durable \ hit
  PROVE  f \in FilesIn(disk)
<1>1. /\ disk.hdr \in Header /\ disk.data \in [DataSectors -> Block]
      /\ disk = [hdr |-> disk.hdr, data |-> disk.data]
      /\ f \in FileRecord
  BY DEF TypeOK, RecordsTypeOK, Image
<1>2. disk.hdr.magic /\ Holds(disk.hdr, disk.data, f)
  BY DEF DurabilityInv, DiskInv, AllHold
<1>. QED  BY <1>1, <1>2, HoldsIsIn DEF OwnFiles

(* A file whose save completed and that nobody deleted is on the drive at  *)
(* every instant, whatever writes fail and wherever the power goes, unless *)
(* it has a part in a sector whose write was given up on and that the      *)
(* drive filled with words sent for another one.                           *)
THEOREM LossCorrect ==
  ASSUME Reliable
  PROVE  Spec => []LossConfined
<1>1. TypeOK /\ DurabilityInv => LossConfined
  BY HeldIsOnDisk DEF LossConfined
<1>. QED  BY <1>1, DurabilityHolds, PTL

(* On a drive that drops the commands that are given up on there is no     *)
(* exception.                                                              *)
THEOREM DurabilityCorrect ==
  ASSUME Reliable, "late" \notin Faults
  PROVE  Spec => []DurableOnDisk
<1>1. TypeOK /\ DurabilityInv => DurableOnDisk
  BY HeldIsOnDisk DEF DurableOnDisk, DurabilityInv, HitInv
<1>. QED  BY <1>1, DurabilityHolds, PTL

(* "Filesystem saved to disk!" is true whenever it is on the screen as the *)
(* last verdict, also when the drive goes on with writes given up on.      *)
THEOREM SavedCorrect ==
  ASSUME Reliable
  PROVE  Spec => []SavedMeansOnDisk
<1>1. DurabilityInv => SavedMeansOnDisk
  BY DEF DurabilityInv, SaidInv, SavedMeansOnDisk
<1>. QED  BY <1>1, DurabilityHolds, PTL
=============================================================================
