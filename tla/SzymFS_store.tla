----------------------------- MODULE SzymFS_store -----------------------------
(* What headers must get right whatever was called and whenever the power  *)
(* went: no two files have the same name, and file_count counts the slots  *)
(* in use.  Then, on a drive that works, SzymFS is FileStore: a map from   *)
(* names to contents that every command reads or changes at once and that  *)
(* boots keep.                                                             *)
EXTENDS SzymFS_proofs, SzymFSCalls, FiniteSetTheorems

(* A write that fails half way and is not tried again, or a load that      *)
(* stops half way and a power cut after it, do leave a file twice: what    *)
(* follows is about drives with one kind of trouble at most.               *)
OneTrouble == Faults \subseteq {"power"} \/ Faults \subseteq {"read"}

(* Drives that store every sector they say they store, where they are told. *)
Prompt == Faults \cap {"lost", "late", "probe"} = {}

Unique(h) ==
  \A s, t \in UsedSlots(h) :
    /\ StoredName(h.files[s]) = EmptyName => NameLoSector(s) # MetaSector(s)
    /\ StoredName(h.files[s]) = StoredName(h.files[t])
         => s = t \/ StoredName(h.files[s]) = EmptyName
Counted(h) == h.file_count = Cardinality(UsedSlots(h))

(* What the drive may hold at first.                                       *)
UniqueDrives  == \A img \in InitDisks : Unique(img.hdr)
CountedDrives == \A img \in InitDisks : img.hdr.magic => Counted(img.hdr)

(* Between header a on the drive and header b in RAM lies at most one      *)
(* call: one that adds a file, or one that takes some away.                *)
SameName(a, b, s) ==
  a.files[s].lo = b.files[s].lo /\ a.files[s].hi = b.files[s].hi
Grows(a, b)   == \A s \in UsedSlots(a) : s \in UsedSlots(b) /\ SameName(a, b, s)
Shrinks(a, b) ==
  /\ Grows(b, a)
  /\ \A s \in UsedSlots(a) :
       /\ a.files[s].hi = b.files[s].hi
       /\ b.files[s].lo \in {a.files[s].lo, NUL}

-----------------------------------------------------------------------------
(* The sectors a load or a save has passed.                                *)
PassInv ==
  /\ pc = "loadHeader" => SameHeader(hdr, disk.hdr, sec)
  /\ pc \in {"checkMagic", "loadData"} => hdr = disk.hdr
  /\ pc = "loadData" => hdr.magic
  /\ pc = "saveHeader" => SameHeader(disk.hdr, hdr, sec)
  /\ pc = "saveData" => disk.hdr = hdr

(* A cut save leaves a mixture of two headers one call apart, so RAM and   *)
(* the drive must agree between calls where the power may go.              *)
NamesInv ==
  /\ Unique(hdr)
  /\ pc # "saveHeader" \/ "power" \in Faults => Unique(disk.hdr)
  /\ pc = "loadHeader" => Grows(hdr, disk.hdr)
  /\ "power" \in Faults =>
       /\ pc = "saveHeader" => Grows(disk.hdr, hdr) \/ Shrinks(disk.hdr, hdr)
       /\ selected /\ pc \in {"loaded", "shell"} => disk.hdr = hdr

CountInv ==
  /\ Mounted => Counted(hdr)
  /\ pc # "saveHeader" /\ disk.hdr.magic => Counted(disk.hdr)

-----------------------------------------------------------------------------
(* Names.                                                                  *)

(* What an entry reads as depends on the bytes of its name alone.          *)
LEMMA NameAlone ==
  ASSUME NEW a, NEW b, NEW s, SameName(a, b, s)
  PROVE  StoredName(a.files[s]) = StoredName(b.files[s])
  BY DEF SameName, StoredName

LEMMA UniqueGrows ==
  ASSUME NEW a, NEW b, Grows(a, b), Unique(b)
  PROVE  Unique(a)
  BY NameAlone DEF Grows, Unique

LEMMA UniqueNone ==
  ASSUME NEW h, UsedSlots(h) = {}
  PROVE  Unique(h) /\ \A b : Grows(h, b)
  BY DEF Unique, Grows

LEMMA NoneUsed ==
  /\ UsedSlots(EmptyHeader) = {}
  /\ \A h \in Header : UsedSlots(Formatted(h)) = {}
  BY DEF UsedSlots, EmptyHeader, Formatted, Header, Entry

(* A name lies before the rest of its entry.                               *)
LEMMA SectorsInOrder ==
  ASSUME NEW s \in Slots
  PROVE  /\ NameLoSector(s) \in Nat /\ NameHiSector(s) \in Nat
         /\ MetaSector(s) \in Nat
         /\ NameLoSector(s) <= MetaSector(s)
         /\ NameHiSector(s) <= MetaSector(s)
<1>1. SECTOR_SIZE \in Nat \ {0}
  BY SizeAssumption
<1>2. EntryByte(s) \in Nat
  BY DEF EntryByte, Slots
<1>3. ASSUME NEW a \in Nat, NEW b \in Nat, a <= b
      PROVE  a \div SECTOR_SIZE <= b \div SECTOR_SIZE
  <2> DEFINE p == a \div SECTOR_SIZE
             q == b \div SECTOR_SIZE
  <2>1. p \in Nat /\ SECTOR_SIZE * p <= a
    BY <1>1, DivFacts
  <2>2. q \in Nat /\ b < SECTOR_SIZE * q + SECTOR_SIZE
    BY <1>1, DivFacts
  <2> HIDE DEF p, q
  <2>3. CASE q + 1 <= p
    <3>1. SECTOR_SIZE * (q + 1) <= SECTOR_SIZE * p
      BY <1>1, <2>1, <2>2, <2>3
    <3>2. SECTOR_SIZE * (q + 1) = SECTOR_SIZE * q + SECTOR_SIZE
      BY <1>1, <2>2
    <3> QED BY <1>1, <1>3, <2>1, <2>2, <3>1, <3>2
  <2> QED BY <2>1, <2>2, <2>3 DEF p, q
<1>4. /\ EntryByte(s) + 31 \in Nat /\ EntryByte(s) + 32 \in Nat
      /\ EntryByte(s) <= EntryByte(s) + 32
      /\ EntryByte(s) + 31 <= EntryByte(s) + 32
  BY <1>2
<1> QED
  BY <1>2, <1>3, <1>4, HeaderSectors
  DEF NameLoSector, NameHiSector, MetaSector

(* One more sector of b over a.                                            *)
LEMMA MergedEntry ==
  ASSUME NEW a, NEW b, NEW i, NEW s \in Slots
  PROVE  LET m == WithHeaderSector(a, b, i).files[s]
         IN  /\ m.lo = IF NameLoSector(s) = i THEN b.files[s].lo
                                              ELSE a.files[s].lo
             /\ m.hi = IF NameHiSector(s) = i THEN b.files[s].hi
                                              ELSE a.files[s].hi
             /\ m.used = IF MetaSector(s) = i THEN b.files[s].used
                                              ELSE a.files[s].used
  BY DEF WithHeaderSector

(* An entry comes into use after its name has.                             *)
LEMMA GrowsOn ==
  ASSUME NEW a, NEW b, NEW i \in Nat, SameHeader(a, b, i), Grows(a, b)
  PROVE  Grows(WithHeaderSector(a, b, i), b)
<1> DEFINE m == WithHeaderSector(a, b, i)
<1> SUFFICES ASSUME NEW s \in UsedSlots(m)
             PROVE  s \in UsedSlots(b) /\ SameName(m, b, s)
  BY DEF Grows
<1>1. s \in Slots /\ m.files[s].used
  BY DEF UsedSlots
<1>2. CASE MetaSector(s) = i
  <2>1. /\ NameLoSector(s) < i => a.files[s].lo = b.files[s].lo
        /\ NameHiSector(s) < i => a.files[s].hi = b.files[s].hi
    BY <1>1 DEF SameHeader
  <2>2. m.files[s].lo = b.files[s].lo /\ m.files[s].hi = b.files[s].hi
    BY <1>1, <1>2, <2>1, MergedEntry, SectorsInOrder
  <2> QED BY <1>1, <1>2, <2>2, MergedEntry DEF UsedSlots, SameName
<1>3. CASE MetaSector(s) # i
  <2>1. s \in UsedSlots(a)
    BY <1>1, <1>3, MergedEntry DEF UsedSlots
  <2>2. s \in UsedSlots(b) /\ SameName(a, b, s)
    BY <2>1 DEF Grows
  <2> QED BY <1>1, <2>2, MergedEntry DEF SameName
<1> QED BY <1>2, <1>3

(* An entry that goes out of use keeps its name or has an empty one.       *)
LEMMA ShrinksOn ==
  ASSUME NEW a, NEW b, NEW i, Shrinks(a, b), Unique(a)
  PROVE  /\ Shrinks(WithHeaderSector(a, b, i), b)
         /\ Unique(WithHeaderSector(a, b, i))
<1> DEFINE m == WithHeaderSector(a, b, i)
<1>1. ASSUME NEW s \in UsedSlots(b)
      PROVE  s \in UsedSlots(m) /\ SameName(b, m, s)
  <2>1. s \in Slots /\ s \in UsedSlots(a) /\ SameName(b, a, s)
    BY <1>1 DEF Shrinks, Grows, UsedSlots
  <2> QED BY <1>1, <2>1, MergedEntry DEF UsedSlots, SameName
<1>2. ASSUME NEW s \in UsedSlots(m)
      PROVE  /\ s \in UsedSlots(a) /\ m.files[s].hi = a.files[s].hi
             /\ m.files[s].hi = b.files[s].hi
             /\ m.files[s].lo \in {a.files[s].lo, NUL}
             /\ b.files[s].lo \in {m.files[s].lo, NUL}
  <2>1. s \in Slots /\ s \in UsedSlots(a)
    BY <1>2, MergedEntry DEF UsedSlots, Shrinks, Grows
  <2>2. a.files[s].hi = b.files[s].hi /\ b.files[s].lo \in {a.files[s].lo, NUL}
    BY <2>1 DEF Shrinks
  <2> QED BY <2>1, <2>2, MergedEntry
<1>3. Shrinks(m, b)
  BY <1>1, <1>2 DEF Shrinks, Grows
<1>4. ASSUME NEW s \in UsedSlots(m)
      PROVE  StoredName(m.files[s]) \in {StoredName(a.files[s]), EmptyName}
  BY <1>2, <1>4 DEF StoredName, Ends, EmptyName
<1>5. ASSUME NEW s \in UsedSlots(m), StoredName(m.files[s]) = EmptyName
      PROVE  NameLoSector(s) # MetaSector(s)
  <2>1. SUFFICES ASSUME NameLoSector(s) = MetaSector(s)
                 PROVE  m.files[s].lo = a.files[s].lo
    BY <1>2, <1>5 DEF StoredName, Unique
  <2>2. s \in Slots
    BY DEF UsedSlots
  <2>3. MetaSector(s) = i => s \in UsedSlots(b)
    BY <2>2, MergedEntry DEF UsedSlots
  <2> QED BY <2>1, <2>2, <2>3, MergedEntry DEF Shrinks, Grows, SameName
<1>6. Unique(m)
  BY <1>2, <1>4, <1>5 DEF Unique
<1> QED BY <1>3, <1>6

(* What the calls do to the header.                                        *)
LEMMA FillNames ==
  ASSUME hdr \in Header, Unique(hdr), NEW s \in FreeSlots(hdr),
         NEW n \in Names, NEW c, n \notin LongNames,
         Matching(hdr, n) = {}, Fill(s, n, c)
  PROVE  Unique(hdr') /\ Grows(hdr, hdr')
<1>1. s \in Slots /\ s \notin UsedSlots(hdr)
  BY DEF FreeSlots, UsedSlots
<1>2. /\ hdr'.files[s].used
      /\ \A t \in Slots \ {s} : hdr'.files[t] = hdr.files[t]
  BY <1>1, FillEntries
<1>3. hdr'.files[s] = [Named(hdr.files[s], n) EXCEPT !.size = Len(c),
                         !.offset = SlotStart(s), !.used = TRUE]
  BY <1>1 DEF Fill, Header, Cut
<1>4. hdr.files[s] \in Entry
  BY <1>1 DEF Header
<1>5. /\ hdr'.files[s].lo = n.lo
      /\ ~Ends(n.lo) => hdr'.files[s].hi = n.hi
  BY <1>3, <1>4 DEF Named, Entry
<1>6. StoredName(hdr'.files[s]) = n
  <2>1. n \in Name /\ (Ends(n.lo) => n.hi = NUL)
    BY NameAssumption
  <2>2. n = [lo |-> n.lo, hi |-> n.hi]
    BY <2>1 DEF Name
  <2> QED BY <1>5, <2>1, <2>2 DEF StoredName
<1>7. UsedSlots(hdr') = UsedSlots(hdr) \cup {s}
  BY <1>1, <1>2 DEF UsedSlots
<1>8. \A t \in UsedSlots(hdr) : StoredName(hdr.files[t]) # n
  BY DEF Matching
<1>9. \A t \in UsedSlots(hdr) : t # s /\ hdr'.files[t] = hdr.files[t]
  BY <1>1, <1>2 DEF UsedSlots
<1>10. Unique(hdr')
  BY <1>6, <1>7, <1>8, <1>9, NameAssumption DEF Unique
<1>11. Grows(hdr, hdr')
  BY <1>7, <1>9 DEF Grows, SameName
<1> QED BY <1>10, <1>11

LEMMA ClearedEntries ==
  ASSUME NEW h \in Header, NEW s \in Slots
  PROVE  /\ UsedSlots(Cleared(h, s)) = UsedSlots(h) \ {s}
         /\ \A t \in Slots \ {s} : Cleared(h, s).files[t] = h.files[t]
         /\ Cleared(h, s).files[s].lo = NUL
         /\ Cleared(h, s).files[s].hi = h.files[s].hi
         /\ Cleared(h, s).magic = h.magic
         /\ Cleared(h, s).file_count = (h.file_count - 1) % COUNT_MOD
<1>1. Cleared(h, s).files[s] = [h.files[s] EXCEPT !.used = FALSE, !.lo = NUL]
  BY DEF Cleared, Header
<1>2. h.files[s] \in Entry
  BY DEF Header
<1>3. /\ ~Cleared(h, s).files[s].used
      /\ Cleared(h, s).files[s].lo = NUL
      /\ Cleared(h, s).files[s].hi = h.files[s].hi
  BY <1>1, <1>2 DEF Entry
<1>4. /\ \A t \in Slots \ {s} : Cleared(h, s).files[t] = h.files[t]
      /\ Cleared(h, s).magic = h.magic
      /\ Cleared(h, s).file_count = (h.file_count - 1) % COUNT_MOD
  BY DEF Cleared, Header
<1> QED BY <1>3, <1>4 DEF UsedSlots

LEMMA ClearedNames ==
  ASSUME NEW h \in Header, NEW s \in Slots, Unique(h)
  PROVE  Unique(Cleared(h, s)) /\ Shrinks(h, Cleared(h, s))
<1> DEFINE g == Cleared(h, s)
<1>1. /\ UsedSlots(g) = UsedSlots(h) \ {s}
      /\ \A t \in Slots \ {s} : g.files[t] = h.files[t]
      /\ g.files[s].lo = NUL /\ g.files[s].hi = h.files[s].hi
  BY ClearedEntries
<1>2. UsedSlots(h) \subseteq Slots
  BY DEF UsedSlots
<1> HIDE DEF g
<1>3. Unique(g)
  BY <1>1, <1>2 DEF Unique
<1>4. Grows(g, h)
  BY <1>1, <1>2 DEF Grows, SameName
<1>5. Shrinks(h, g)
  BY <1>1, <1>2, <1>4 DEF Shrinks
<1> QED BY <1>3, <1>5 DEF g

LEMMA FormattedShrinks ==
  ASSUME NEW h \in Header
  PROVE  Shrinks(h, Formatted(h))
<1>1. \A s \in Slots : /\ Formatted(h).files[s].lo = h.files[s].lo
                       /\ Formatted(h).files[s].hi = h.files[s].hi
  BY DEF Formatted, Header, Entry
<1> QED
  BY <1>1, NoneUsed, UniqueNone DEF Shrinks, UsedSlots
-----------------------------------------------------------------------------
(* Loads and saves, sector by sector.                                      *)

LEMMA Stored ==
  ASSUME Prompt, TypeOK, NEW img, Written(img)
  PROVE  owed = NoOrder /\ disk' = img
<1>1. NoOrder.op = "none"
  BY DEF NoOrder
<1>2. owed = NoOrder
  BY <1>1 DEF Prompt, TypeOK, OwedTypeOK, Order
<1> QED BY <1>1, <1>2 DEF Prompt, Written, WrittenLate

LEMMA LoadHeaderPasses ==
  ASSUME TypeOK, PassInv, LoadHeaderSector
  PROVE  /\ PassInv'
         /\ pc' = "loadHeader" =>
              hdr' = WithHeaderSector(hdr, disk.hdr, sec)
<1> USE DEF TypeOK, RamTypeOK, RecordsTypeOK, ControlTypeOK, Image
<1>1. pc = "loadHeader" /\ UNCHANGED disk /\ sec \in Nat
  BY DEF LoadHeaderSector
<1>2. CASE hdr' = WithHeaderSector(hdr, disk.hdr, sec)
  <2>1. SameHeader(hdr', disk.hdr, sec + 1)
    BY <1>1, <1>2, SameStep DEF PassInv
  <2>2. CASE More(HEADER_SECTORS) /\ pc' = pc /\ sec' = sec + 1
    BY <1>1, <1>2, <2>1, <2>2 DEF PassInv
  <2>3. CASE ~More(HEADER_SECTORS) /\ pc' = "checkMagic"
    <3>1. sec + 1 = HEADER_SECTORS
      BY <1>1, <2>3, HeaderSectors DEF More
    <3>2. hdr' \in Header
      BY <1>1, <1>2, WithHeaderSectorType
    <3>3. hdr' = disk.hdr
      BY <2>1, <3>1, <3>2, SameAll
    <3> QED BY <1>1, <2>3, <3>3 DEF PassInv
  <2>4. CASE pc' = "loaded"
    BY <2>4 DEF PassInv
  <2> QED BY <1>2, <2>2, <2>3, <2>4 DEF LoadHeaderSector
<1>3. CASE pc' = "loaded"
  BY <1>3 DEF PassInv
<1> QED BY <1>2, <1>3 DEF LoadHeaderSector

LEMMA SaveHeaderPasses ==
  ASSUME Prompt, TypeOK, PassInv, SaveHeaderSector
  PROVE  /\ PassInv' /\ UNCHANGED <<hdr, selected>>
         /\ \/ WriteFails /\ pc' = back
            \/ pc' = "saveHeader" /\ disk'.hdr = WithHeaderSector(disk.hdr, hdr, sec)
            \/ pc' = "saveData" /\ disk'.hdr = hdr
<1> USE DEF TypeOK, RamTypeOK, RecordsTypeOK, ControlTypeOK, Image
<1>1. pc = "saveHeader" /\ UNCHANGED <<hdr, selected>> /\ sec \in Nat
  BY DEF SaveHeaderSector
<1>2. CASE WriteFails
  BY <1>1, <1>2 DEF WriteFails, PassInv
<1>3. CASE ~WriteFails
  <2>1. /\ disk' = [disk EXCEPT !.hdr = WithHeaderSector(disk.hdr, hdr, sec)]
        /\ IF More(HEADER_SECTORS)
           THEN pc' = pc /\ sec' = sec + 1
           ELSE pc' = "saveData" /\ sec' = 0
    BY <1>3, Stored DEF SaveHeaderSector
  <2>2. /\ disk'.hdr = WithHeaderSector(disk.hdr, hdr, sec)
        /\ disk'.hdr \in Header
    BY <2>1, WithHeaderSectorType
  <2>3. SameHeader(disk'.hdr, hdr, sec + 1)
    BY <1>1, <2>2, SameStep DEF PassInv
  <2>4. CASE More(HEADER_SECTORS)
    BY <1>1, <2>1, <2>2, <2>3, <2>4 DEF PassInv
  <2>5. CASE ~More(HEADER_SECTORS)
    <3>1. sec + 1 = HEADER_SECTORS
      BY <1>1, <2>5, HeaderSectors DEF More
    <3>2. disk'.hdr = hdr
      BY <2>2, <2>3, <3>1, SameAll
    <3> QED BY <1>1, <2>1, <2>5, <3>2 DEF PassInv
  <2> QED BY <2>4, <2>5
<1> QED BY <1>2, <1>3

LEMMA SaveDataPasses ==
  ASSUME Prompt, PassInv, SaveDataSector, TypeOK
  PROVE  /\ PassInv' /\ disk'.hdr = disk.hdr /\ UNCHANGED <<hdr, selected>>
         /\ disk.hdr = hdr /\ pc' \in {"saveData", back}
<1>1. /\ pc = "saveData" /\ UNCHANGED <<hdr, selected>>
      /\ pc' \in {"saveData", back}
  BY DEF SaveDataSector, WriteFails
<1>2. disk'.hdr = disk.hdr
  <2>1. [disk EXCEPT !.data[sec] = data[sec]].hdr = disk.hdr
    BY DEF TypeOK, RecordsTypeOK, Image
  <2> QED BY <2>1, Stored DEF SaveDataSector, WriteFails
<1>3. disk.hdr = hdr
  BY <1>1 DEF PassInv
<1> QED BY <1>1, <1>2, <1>3 DEF PassInv, TypeOK, ControlTypeOK

LEMMA SavePasses ==
  ASSUME NEW ret \in {"loaded", "shell"}, Save(ret), UNCHANGED disk
  PROVE  /\ PassInv' /\ pc' \in {"saveHeader", ret}
         /\ selected => pc' = "saveHeader"
<1>1. selected => pc' = "saveHeader" /\ sec' = 0
  BY DEF Save, BeginSave
<1>2. ~selected => pc' = ret
  BY DEF Save
<1> QED BY <1>1, <1>2, SameNone DEF PassInv

LEMMA CreatePasses ==
  ASSUME NEW n, NEW c, CreateFile(n, c), UNCHANGED disk
  PROVE  PassInv'
<1>1. CASE pc' = "shell"
  BY <1>1 DEF PassInv
<1>2. CASE Save("shell")
  BY <1>2, SavePasses
<1> QED BY <1>1, <1>2 DEF CreateFile

LEMMA PassStep ==
  ASSUME Prompt, TypeOK, PassInv, [Next]_vars
  PROVE  PassInv'
<1>1. CASE LoadHeaderSector
  BY <1>1, LoadHeaderPasses
<1>2. CASE CheckMagic
  BY <1>2, SameNone DEF CheckMagic, BeginSave, PassInv
<1>3. CASE LoadDataSector
  BY <1>3 DEF LoadDataSector, PassInv
<1>4. CASE EnsureReadme
  <2>1. CASE pc' = "shell"
    BY <2>1 DEF PassInv
  <2> QED BY <1>4, <2>1, CreatePasses DEF EnsureReadme
<1>5. CASE SaveHeaderSector
  BY <1>5, SaveHeaderPasses
<1>6. CASE SaveDataSector
  BY <1>6, SaveDataPasses
<1>7. ASSUME NEW drive \in BOOLEAN, Boot(drive)
      PROVE  PassInv'
  BY <1>7, SameNone DEF Boot, PassInv
<1>8. ASSUME NEW n \in Names \cup LongNames \cup {EmptyName}, FsDeleteFile(n)
      PROVE  PassInv'
  <2>1. CASE pc' = "shell"
    BY <2>1 DEF PassInv
  <2> QED BY <1>8, <2>1, SavePasses DEF FsDeleteFile
<1>9. ASSUME NEW n \in Names \cup LongNames \cup {EmptyName}, FsReadFile(n)
      PROVE  PassInv'
  BY <1>9 DEF FsReadFile, PassInv
<1>10. ASSUME NEW n \in Names \cup LongNames, NEW c \in Contents,
              FsCreateFile(n, c)
       PROVE  PassInv'
  BY <1>10, CreatePasses DEF FsCreateFile
<1>11. CASE FsListFiles
  BY <1>11 DEF FsListFiles, PassInv
<1>12. CASE SaveCommand
  BY <1>12, SavePasses DEF SaveCommand
<1>13. CASE PowerDown
  BY <1>13 DEF PowerDown, PassInv
<1>14. CASE UNCHANGED vars
  BY <1>14 DEF vars, PassInv
<1>15. CASE DisksGivesUp \/ Settle
  BY <1>15 DEF DisksGivesUp, Settle, ram, PassInv
<1> QED
  BY <1>1, <1>2, <1>3, <1>4, <1>5, <1>6, <1>7, <1>8, <1>9, <1>10, <1>11,
     <1>12, <1>13, <1>14, <1>15
  DEF Next, Program, User, Reboot, PowerLoss

-----------------------------------------------------------------------------
(* Names stay unique.                                                      *)

LEMMA LoadHeaderNames ==
  ASSUME OneTrouble, TypeOK, PassInv, NamesInv, LoadHeaderSector
  PROVE  NamesInv'
<1> USE DEF TypeOK, RamTypeOK, RecordsTypeOK, ControlTypeOK, Image
<1>1. /\ pc = "loadHeader" /\ UNCHANGED <<disk, selected>> /\ sec \in Nat
      /\ pc' \in {"loadHeader", "checkMagic", "loaded"}
      /\ pc' = "loaded" => "read" \in Faults /\ hdr' = hdr
      /\ pc' # "loaded" => hdr' = WithHeaderSector(hdr, disk.hdr, sec)
  BY DEF LoadHeaderSector, ReadFails
<1>2. Unique(disk.hdr) /\ Grows(hdr, disk.hdr) /\ SameHeader(hdr, disk.hdr, sec)
  BY <1>1 DEF NamesInv, PassInv
<1>3. Grows(hdr', disk.hdr)
  BY <1>1, <1>2, GrowsOn
<1>4. Unique(hdr')
  BY <1>2, <1>3, UniqueGrows
<1>5. pc' = "loaded" => "power" \notin Faults
  BY <1>1 DEF OneTrouble
<1> QED BY <1>1, <1>2, <1>3, <1>4, <1>5 DEF NamesInv

LEMMA CheckMagicNames ==
  ASSUME TypeOK, PassInv, NamesInv, CheckMagic
  PROVE  NamesInv'
<1> USE DEF TypeOK, RamTypeOK
<1>1. pc = "checkMagic" /\ UNCHANGED <<disk, selected>> /\ hdr = disk.hdr
  BY DEF CheckMagic, PassInv
<1>2. CASE pc' = "loadData" /\ hdr' = hdr
  BY <1>1, <1>2 DEF NamesInv
<1>3. CASE pc' = "saveHeader" /\ hdr' = Formatted(hdr)
  <2>1. Unique(hdr')
    BY <1>3, NoneUsed, UniqueNone
  <2>2. Shrinks(disk.hdr, hdr')
    BY <1>1, <1>3, FormattedShrinks
  <2> QED BY <1>1, <1>3, <2>1, <2>2 DEF NamesInv
<1> QED BY <1>2, <1>3 DEF CheckMagic, BeginSave

LEMMA SaveHeaderNames ==
  ASSUME OneTrouble, TypeOK, PassInv, NamesInv, SaveHeaderSector
  PROVE  NamesInv'
<1> USE DEF TypeOK, RamTypeOK, RecordsTypeOK, ControlTypeOK, Image
<1>1. /\ pc = "saveHeader" /\ sec \in Nat /\ UNCHANGED <<hdr, selected>>
      /\ SameHeader(disk.hdr, hdr, sec) /\ Unique(hdr)
  BY DEF SaveHeaderSector, WriteFails, PassInv, NamesInv
<1>2. \/ /\ pc' = "saveHeader"
         /\ disk'.hdr = WithHeaderSector(disk.hdr, hdr, sec)
      \/ pc' = "saveData" /\ disk'.hdr = hdr
  BY SaveHeaderPasses DEF OneTrouble, Prompt, WriteFails
<1>3. CASE pc' = "saveData" /\ disk'.hdr = hdr
  BY <1>1, <1>3 DEF NamesInv
<1>4. CASE /\ pc' = "saveHeader" /\ "power" \in Faults
           /\ disk'.hdr = WithHeaderSector(disk.hdr, hdr, sec)
  <2>1. CASE Grows(disk.hdr, hdr)
    BY <1>1, <1>4, <2>1, GrowsOn, UniqueGrows DEF NamesInv
  <2>2. CASE Shrinks(disk.hdr, hdr)
    BY <1>1, <1>4, <2>2, ShrinksOn DEF NamesInv
  <2> QED BY <1>1, <1>4, <2>1, <2>2 DEF NamesInv
<1>5. CASE pc' = "saveHeader" /\ "power" \notin Faults
  BY <1>1, <1>5 DEF NamesInv
<1> QED BY <1>2, <1>3, <1>4, <1>5

(* A save that begins when RAM and the drive are one call apart.           *)
LEMMA SaveNames ==
  ASSUME NamesInv, pc \in {"loaded", "shell"}, Save("shell"),
         UNCHANGED <<disk, selected>>, Unique(hdr'),
         Grows(hdr, hdr') \/ Shrinks(hdr, hdr')
  PROVE  NamesInv'
<1>1. Unique(disk.hdr)
  BY DEF NamesInv
<1>2. CASE selected
  <2>1. pc' = "saveHeader"
    BY <1>2 DEF Save, BeginSave
  <2>2. "power" \in Faults => disk.hdr = hdr
    BY <1>2 DEF NamesInv
  <2> QED BY <1>1, <2>1, <2>2 DEF NamesInv
<1>3. CASE ~selected
  <2>1. pc' = "shell"
    BY <1>3 DEF Save
  <2> QED BY <1>1, <1>3, <2>1 DEF NamesInv
<1> QED BY <1>2, <1>3

LEMMA CreateNames ==
  ASSUME LongNames = {}, TypeOK, NamesInv, pc \in {"loaded", "shell"},
         NEW n \in Names, NEW c, CreateFile(n, c), UNCHANGED <<disk, selected>>
  PROVE  NamesInv'
<1>1. CASE CreateCode(n, c) # 0
  BY <1>1 DEF CreateFile, NamesInv
<1>2. CASE CreateCode(n, c) = 0
  <2>1. PICK s \in Slots : IsFirst(s, FreeSlots(hdr)) /\ Fill(s, n, c)
    BY <1>2 DEF CreateFile
  <2>2. Matching(hdr, n) = {}
    BY <1>2 DEF CreateCode
  <2>3. Unique(hdr') /\ Grows(hdr, hdr')
    BY <2>1, <2>2, FillNames DEF IsFirst, NamesInv, TypeOK, RamTypeOK
  <2> QED BY <1>2, <2>3, SaveNames DEF CreateFile
<1> QED BY <1>1, <1>2

LEMMA GrowsSelf == \A h : Grows(h, h)
  BY DEF Grows, SameName

LEMMA NamesStep ==
  ASSUME OneTrouble, LongNames = {}, TypeOK, PassInv, NamesInv, [Next]_vars
  PROVE  NamesInv'
<1> USE DEF TypeOK, RamTypeOK
<1>1. CASE LoadHeaderSector
  BY <1>1, LoadHeaderNames
<1>2. CASE CheckMagic
  BY <1>2, CheckMagicNames
<1>3. CASE LoadDataSector
  BY <1>3 DEF LoadDataSector, NamesInv, PassInv
<1>4. CASE EnsureReadme
  <2>1. CASE pc' = "shell" /\ hdr' = hdr
    BY <1>4, <2>1 DEF EnsureReadme, NamesInv
  <2> QED BY <1>4, <2>1, CreateNames, NameAssumption DEF EnsureReadme
<1>5. CASE SaveHeaderSector
  BY <1>5, SaveHeaderNames
<1>6. CASE SaveDataSector
  <2>1. pc = "saveData" /\ back \in {"loaded", "shell"}
    BY <1>6 DEF SaveDataSector, ControlTypeOK
  <2> QED BY <1>6, <2>1, SaveDataPasses DEF NamesInv, OneTrouble, Prompt
<1>7. ASSUME NEW drive \in BOOLEAN, Boot(drive)
      PROVE  NamesInv'
  BY <1>7, NoneUsed, UniqueNone DEF Boot, NamesInv
<1>8. ASSUME NEW n \in Names \cup LongNames \cup {EmptyName}, FsDeleteFile(n)
      PROVE  NamesInv'
  <2>1. pc = "shell" /\ UNCHANGED <<disk, selected>>
    BY <1>8 DEF FsDeleteFile
  <2>2. CASE hdr' = hdr /\ pc' = pc
    BY <2>1, <2>2 DEF NamesInv
  <2>3. ASSUME NEW s \in Slots, hdr' = Cleared(hdr, s), Save("shell")
        PROVE  NamesInv'
    BY <2>1, <2>3, ClearedNames, SaveNames DEF NamesInv
  <2> QED BY <1>8, <2>2, <2>3 DEF FsDeleteFile
<1>9. ASSUME NEW n \in Names \cup LongNames \cup {EmptyName}, FsReadFile(n)
      PROVE  NamesInv'
  BY <1>9 DEF FsReadFile, ram, NamesInv
<1>10. ASSUME NEW n \in Names \cup LongNames, NEW c \in Contents,
              FsCreateFile(n, c)
       PROVE  NamesInv'
  BY <1>10, CreateNames DEF FsCreateFile
<1>11. CASE FsListFiles
  BY <1>11 DEF FsListFiles, ram, NamesInv
<1>12. CASE SaveCommand
  BY <1>12, SaveNames, GrowsSelf DEF SaveCommand, NamesInv
<1>13. CASE PowerDown /\ (pc # "saveHeader" \/ "power" \in Faults)
  BY <1>13, NoneUsed, UniqueNone DEF PowerDown, NamesInv
<1>14. CASE UNCHANGED vars
  BY <1>14 DEF vars, NamesInv
<1>15. CASE DisksGivesUp \/ Settle
  BY <1>15 DEF DisksGivesUp, Settle, ram, NamesInv
<1> QED
  BY <1>1, <1>2, <1>3, <1>4, <1>5, <1>6, <1>7, <1>8, <1>9, <1>10, <1>11,
     <1>12, <1>13, <1>14, <1>15
  DEF Next, Program, User, Reboot, PowerLoss

LEMMA PassInit == Init => PassInv
  BY DEF Init, PassInv

(* However often the power goes, or else however often a read fails, and   *)
(* wherever that leaves a load or a save, no two files ever have the same  *)
(* name, as long as no caller gives a name too long for its field: but for *)
(* the entries that a torn delete left without one, and those are entries  *)
(* with the start of the name and the used flag in different sectors.      *)
THEOREM NamesCorrect ==
  ASSUME OneTrouble, LongNames = {}, UniqueDrives
  PROVE  Spec => []NamesUnique
<1>1. Init => NamesInv
  BY NoneUsed, UniqueNone DEF Init, NamesInv, UniqueDrives
<1>2. Prompt
  BY DEF OneTrouble, Prompt
<1>3. NamesInv => NamesUnique
  BY DEF NamesInv, NamesUnique, Unique
<1> QED
  BY <1>1, <1>2, <1>3, PassInit, PassStep, NamesStep, TypeCorrect, PTL DEF Spec
-----------------------------------------------------------------------------
(* The count.                                                              *)

LEMMA UsedFinite ==
  ASSUME NEW h
  PROVE  /\ IsFiniteSet(UsedSlots(h)) /\ Cardinality(UsedSlots(h)) \in Nat
         /\ Cardinality(UsedSlots(h)) <= MAX_FILES
         /\ FreeSlots(h) # {} => Cardinality(UsedSlots(h)) < MAX_FILES
<1>1. IsFiniteSet(Slots) /\ Cardinality(Slots) = MAX_FILES
  <2>1. MAX_FILES \in Nat \ {0} /\ 0 \in Int /\ MAX_FILES - 1 \in Int
    BY SizeAssumption
  <2> QED BY <2>1, FS_Interval DEF Slots
<1>2. UsedSlots(h) \in SUBSET Slots
  BY DEF UsedSlots
<1>3. /\ IsFiniteSet(UsedSlots(h))
      /\ Cardinality(UsedSlots(h)) <= MAX_FILES
      /\ Cardinality(UsedSlots(h)) = MAX_FILES => UsedSlots(h) = Slots
  BY <1>1, <1>2, FS_Subset
<1>4. Cardinality(UsedSlots(h)) \in Nat
  BY <1>3, FS_CardinalityType
<1>5. FreeSlots(h) # {} => UsedSlots(h) # Slots
  BY DEF FreeSlots, UsedSlots
<1> QED BY <1>3, <1>4, <1>5, SizeAssumption

LEMMA NoneCounted == Counted(EmptyHeader) /\ \A h \in Header : Counted(Formatted(h))
<1>1. Cardinality({}) = 0
  BY FS_EmptySet
<1> QED BY <1>1, NoneUsed DEF Counted, EmptyHeader, Formatted

(* One file more, one file fewer; the counter does not wrap, for there are *)
(* fewer slots than it can count.                                          *)
LEMMA FillCounts ==
  ASSUME hdr \in Header, Counted(hdr), MAX_FILES < COUNT_MOD,
         NEW s \in FreeSlots(hdr), NEW n, NEW c, Fill(s, n, c)
  PROVE  Counted(hdr')
<1>1. s \in Slots /\ s \notin UsedSlots(hdr)
  BY DEF FreeSlots, UsedSlots
<1>2. UsedSlots(hdr') = UsedSlots(hdr) \cup {s}
  BY <1>1, FillEntries DEF UsedSlots
<1> DEFINE k == Cardinality(UsedSlots(hdr))
<1>3. k \in Nat /\ k < MAX_FILES
  BY UsedFinite
<1>4. Cardinality(UsedSlots(hdr')) = k + 1
  BY <1>1, <1>2, UsedFinite, FS_AddElement
<1>5. hdr'.file_count = (hdr.file_count + 1) % COUNT_MOD
  BY DEF Fill, Header
<1>6. hdr.file_count = k
  BY DEF Counted
<1> HIDE DEF k
<1>7. (k + 1) % COUNT_MOD = k + 1
  BY <1>3, SizeAssumption
<1> QED BY <1>4, <1>5, <1>6, <1>7 DEF Counted

LEMMA ClearedCounts ==
  ASSUME NEW h \in Header, Counted(h), MAX_FILES < COUNT_MOD,
         NEW s \in UsedSlots(h)
  PROVE  Counted(Cleared(h, s))
<1>1. s \in Slots
  BY DEF UsedSlots
<1> DEFINE k == Cardinality(UsedSlots(h))
<1>2. k \in Nat /\ k <= MAX_FILES
  BY UsedFinite
<1>3. UsedSlots(Cleared(h, s)) = UsedSlots(h) \ {s}
  BY <1>1, ClearedEntries
<1>4. Cardinality(UsedSlots(Cleared(h, s))) = k - 1
  BY <1>3, UsedFinite, FS_RemoveElement
<1>5. Cardinality(UsedSlots(Cleared(h, s))) \in Nat
  BY UsedFinite
<1>6. Cleared(h, s).file_count = (h.file_count - 1) % COUNT_MOD
  BY <1>1, ClearedEntries
<1>7. h.file_count = k
  BY DEF Counted
<1> HIDE DEF k
<1>8. (k - 1) % COUNT_MOD = k - 1
  BY <1>2, <1>4, <1>5, SizeAssumption
<1> QED BY <1>4, <1>6, <1>7, <1>8 DEF Counted

LEMMA SaveCounts ==
  ASSUME CountInv, pc \in {"loaded", "shell"}, Save("shell"), UNCHANGED disk,
         Counted(hdr')
  PROVE  CountInv'
<1>1. pc' \in {"saveHeader", "shell"}
  BY DEF Save, BeginSave
<1> QED BY <1>1 DEF CountInv

LEMMA CreateCounts ==
  ASSUME MAX_FILES < COUNT_MOD, TypeOK, CountInv, pc \in {"loaded", "shell"},
         NEW n, NEW c, CreateFile(n, c), UNCHANGED disk
  PROVE  CountInv'
<1>1. CASE CreateCode(n, c) # 0
  BY <1>1 DEF CreateFile, CountInv, Mounted
<1>2. CASE CreateCode(n, c) = 0
  <2>1. PICK s \in FreeSlots(hdr) : Fill(s, n, c)
    BY <1>2 DEF CreateFile, IsFirst
  <2>2. Counted(hdr')
    BY <2>1, FillCounts DEF CountInv, Mounted, TypeOK, RamTypeOK
  <2> QED BY <1>2, <2>2, SaveCounts DEF CreateFile
<1> QED BY <1>1, <1>2

LEMMA CountStep ==
  ASSUME Faults = {}, MAX_FILES < COUNT_MOD, TypeOK, PassInv, CountInv,
         [Next]_vars
  PROVE  CountInv'
<1> USE DEF TypeOK, RamTypeOK
<1>1. CASE LoadHeaderSector
  BY <1>1 DEF LoadHeaderSector, ReadFails, CountInv, Mounted
<1>2. CASE CheckMagic
  BY <1>2, NoneCounted DEF CheckMagic, BeginSave, CountInv, Mounted
<1>3. CASE LoadDataSector
  BY <1>3 DEF LoadDataSector, PassInv, CountInv, Mounted
<1>4. CASE EnsureReadme
  <2>1. CASE pc' = "shell" /\ hdr' = hdr
    BY <1>4, <2>1 DEF EnsureReadme, CountInv, Mounted
  <2> QED BY <1>4, <2>1, CreateCounts DEF EnsureReadme
<1>5. CASE SaveHeaderSector
  <2>1. /\ pc = "saveHeader"
        /\ Prompt /\ ~WriteFails
    BY <1>5 DEF SaveHeaderSector, WriteFails, Prompt
  <2>2. hdr' = hdr
    BY <1>5 DEF SaveHeaderSector
  <2>3. pc' = "saveHeader" \/ (pc' = "saveData" /\ disk'.hdr = hdr)
    BY <1>5, <2>1, SaveHeaderPasses
  <2> QED BY <2>1, <2>2, <2>3 DEF CountInv, Mounted
<1>6. CASE SaveDataSector
  <2>1. pc = "saveData" /\ back \in {"loaded", "shell"}
    BY <1>6 DEF SaveDataSector, ControlTypeOK
  <2> QED BY <1>6, <2>1, SaveDataPasses DEF CountInv, Mounted, Prompt
<1>7. ASSUME NEW drive \in BOOLEAN, Boot(drive)
      PROVE  CountInv'
  BY <1>7, NoneCounted DEF Boot, CountInv, Mounted
<1>8. ASSUME NEW n \in Names \cup LongNames \cup {EmptyName}, FsDeleteFile(n)
      PROVE  CountInv'
  <2>1. pc = "shell" /\ UNCHANGED disk
    BY <1>8 DEF FsDeleteFile
  <2>2. CASE hdr' = hdr /\ pc' = pc
    BY <2>1, <2>2 DEF CountInv, Mounted
  <2>3. ASSUME NEW s \in Matching(hdr, n), hdr' = Cleared(hdr, s), Save("shell")
        PROVE  CountInv'
    BY <2>1, <2>3, ClearedCounts, SaveCounts DEF CountInv, Mounted, Matching
  <2> QED BY <1>8, <2>2, <2>3 DEF FsDeleteFile, IsFirst
<1>9. ASSUME NEW n \in Names \cup LongNames \cup {EmptyName}, FsReadFile(n)
      PROVE  CountInv'
  BY <1>9 DEF FsReadFile, ram, CountInv, Mounted
<1>10. ASSUME NEW n \in Names \cup LongNames, NEW c \in Contents,
              FsCreateFile(n, c)
       PROVE  CountInv'
  BY <1>10, CreateCounts DEF FsCreateFile
<1>11. CASE FsListFiles
  BY <1>11 DEF FsListFiles, ram, CountInv, Mounted
<1>12. CASE SaveCommand
  BY <1>12, SaveCounts DEF SaveCommand, CountInv, Mounted
<1>13. CASE PowerDown /\ pc = "shell"
  BY <1>13 DEF PowerDown, CountInv, Mounted
<1>14. CASE UNCHANGED vars
  BY <1>14 DEF vars, CountInv, Mounted
<1>15. CASE DisksGivesUp \/ Settle
  BY <1>15 DEF DisksGivesUp, Settle, ram, CountInv, Mounted
<1> QED
  BY <1>1, <1>2, <1>3, <1>4, <1>5, <1>6, <1>7, <1>8, <1>9, <1>10, <1>11,
     <1>12, <1>13, <1>14, <1>15
  DEF Next, Program, User, Reboot, PowerLoss

(* On a drive that works, file_count is the number of slots in use at      *)
(* every command, however the calls before it came out.                    *)
THEOREM CountCorrect ==
  ASSUME Faults = {}, MAX_FILES < COUNT_MOD, CountedDrives
  PROVE  Spec => []CountMatches
<1>1. Init => CountInv
  BY DEF Init, CountInv, Mounted, CountedDrives
<1>2. CountInv => CountMatches
  BY DEF CountInv, CountMatches, Counted
<1>3. Prompt
  BY DEF Prompt
<1> QED
  BY <1>1, <1>2, <1>3, PassInit, PassStep, CountStep, TypeCorrect, PTL DEF Spec

-----------------------------------------------------------------------------
(* The file store.                                                         *)


(* As long as no power cut tears a name, not even the empty name is there  *)
(* twice.                                                                  *)
Distinct(h) ==
  \A s, t \in UsedSlots(h) :
    StoredName(h.files[s]) = StoredName(h.files[t]) => s = t

(* Drives that hold an image of this filesystem, or something without the  *)
(* magic, whatever that is.                                                *)
OwnDrives ==
  \A img \in InitDisks :
    img.hdr.magic => Distinct(img.hdr) /\ Bounded(img.hdr) /\ Counted(img.hdr)

-----------------------------------------------------------------------------
(* The map an image stands for.                                            *)

LEMMA SlotIsInt ==
  ASSUME NEW h, NEW s \in UsedSlots(h)
  PROVE  s \in Slots /\ s \in Int
  BY DEF UsedSlots, Slots

NamesIn(h) == {StoredName(h.files[s]) : s \in UsedSlots(h)}

LEMMA InNames ==
  ASSUME NEW h, NEW n
  PROVE  n \in NamesIn(h) <=> \E s \in UsedSlots(h) : StoredName(h.files[s]) = n
  BY DEF NamesIn

LEMMA MapDomain ==
  ASSUME NEW h, NEW d
  PROVE  /\ DOMAIN FileMap(h, d) = NamesIn(h)
         /\ FileMap(h, d) = [n \in NamesIn(h) |-> FileMap(h, d)[n]]
  BY DEF FileMap, NamesIn

(* A name is in the map when the search for it finds a slot.               *)
LEMMA InMap ==
  ASSUME NEW h, NEW d, NEW n
  PROVE  n \in DOMAIN FileMap(h, d) <=> Matching(h, n) # {}
  BY MapDomain, InNames DEF Matching

(* The search for the name in slot s stops at s.                           *)
LEMMA MapAt ==
  ASSUME NEW h, NEW d, Distinct(h), NEW s \in UsedSlots(h)
  PROVE  /\ Matching(h, StoredName(h.files[s])) = {s}
         /\ IsFirst(s, Matching(h, StoredName(h.files[s])))
         /\ FileMap(h, d)[StoredName(h.files[s])] = FileText(h, d, s)
<1> DEFINE n == StoredName(h.files[s])
           stop == CHOOSE u \in UsedSlots(h) : IsFirst(u, Matching(h, n))
<1>1. Matching(h, n) = {s}
  BY DEF Matching, Distinct
<1>2. IsFirst(s, Matching(h, n))
  BY <1>1, SlotIsInt DEF IsFirst
<1>3. \A u : IsFirst(u, Matching(h, n)) => u = s
  BY <1>1 DEF IsFirst
<1>4. stop = s
  BY <1>2, <1>3
<1>5. FileMap(h, d)[n] = FileText(h, d, stop)
  BY DEF FileMap
<1> QED BY <1>1, <1>2, <1>4, <1>5

(* Functions with the same values on the names in use are the same map.    *)
LEMMA MapIs ==
  ASSUME NEW h, NEW d, Distinct(h), NEW F,
         F = [n \in NamesIn(h) |-> F[n]],
         \A s \in UsedSlots(h) : F[StoredName(h.files[s])] = FileText(h, d, s)
  PROVE  FileMap(h, d) = F
<1>1. \A n \in NamesIn(h) : FileMap(h, d)[n] = F[n]
  BY MapAt, InNames
<1>2. FileMap(h, d) = [n \in NamesIn(h) |-> FileMap(h, d)[n]]
  BY MapDomain
<1> QED BY <1>1, <1>2

LEMMA NoMap ==
  ASSUME NEW h, NEW d, UsedSlots(h) = {}
  PROVE  FileMap(h, d) = <<>> /\ Distinct(h) /\ Bounded(h)
<1>1. NamesIn(h) = {}
  BY InNames
<1>2. FileMap(h, d) = [n \in {} |-> FileMap(h, d)[n]]
  BY <1>1, MapDomain
<1>3. <<>> = [n \in {} |-> FileMap(h, d)[n]]
  OBVIOUS
<1> QED BY <1>2, <1>3 DEF Distinct, Bounded

(* As many names as slots in use.                                          *)
LEMMA MapCount ==
  ASSUME NEW h, NEW d, Distinct(h)
  PROVE  /\ Cardinality(DOMAIN FileMap(h, d)) = Cardinality(UsedSlots(h))
         /\ Cardinality(DOMAIN FileMap(h, d)) < MAX_FILES <=> FreeSlots(h) # {}
         /\ Cardinality(DOMAIN FileMap(h, d)) \in Nat
<1> DEFINE U == UsedSlots(h)
           N == NamesIn(h)
           f == [s \in U |-> StoredName(h.files[s])]
<1>1. f \in [U -> N] /\ \A n \in N : \E s \in U : f[s] = n
  BY InNames
<1>2. \A s, t \in U : f[s] = f[t] => s = t
  BY DEF Distinct
<1>3. f \in Surjection(U, N) /\ f \in Injection(U, N)
  BY <1>1, <1>2 DEF Surjection, Injection, IsInjective
<1>4. IsFiniteSet(U) /\ Cardinality(U) \in Nat /\ Cardinality(U) <= MAX_FILES
      /\ (FreeSlots(h) # {} => Cardinality(U) < MAX_FILES)
  BY UsedFinite
<1>5. Cardinality(N) = Cardinality(U)
  BY <1>3, <1>4, FS_Surjection
<1>6. FreeSlots(h) = {} => Cardinality(U) = MAX_FILES
  <2>1. FreeSlots(h) = {} => U = Slots
    BY DEF FreeSlots, UsedSlots
  <2>2. MAX_FILES \in Nat \ {0} /\ 0 \in Int /\ MAX_FILES - 1 \in Int
    BY SizeAssumption
  <2>3. Cardinality(Slots) = MAX_FILES
    BY <2>2, FS_Interval DEF Slots
  <2> QED BY <2>1, <2>3
<1> QED BY <1>4, <1>5, <1>6, MapDomain, SizeAssumption

-----------------------------------------------------------------------------
(* What the commands do to the map.                                        *)

LEMMA FilledSlot ==
  ASSUME hdr \in Header, NEW s \in FreeSlots(hdr), NEW n \in Names, NEW c, Fill(s, n, c)
  PROVE  /\ s \in Slots /\ s \notin UsedSlots(hdr)
         /\ UsedSlots(hdr') = UsedSlots(hdr) \cup {s}
         /\ StoredName(hdr'.files[s]) = n
         /\ \A t \in UsedSlots(hdr) : hdr'.files[t] = hdr.files[t]
<1>1. s \in Slots /\ s \notin UsedSlots(hdr)
  BY DEF FreeSlots, UsedSlots
<1>2. /\ hdr'.files[s].used
      /\ \A t \in Slots \ {s} : hdr'.files[t] = hdr.files[t]
  BY <1>1, FillEntries
<1>3. n \in Name /\ (Ends(n.lo) => n.hi = NUL) /\ Cut(n) = n
  BY NameAssumption DEF Cut
<1>4. hdr'.files[s] = [Named(hdr.files[s], n) EXCEPT !.size = Len(c),
                         !.offset = SlotStart(s), !.used = TRUE]
  BY <1>1, <1>3 DEF Fill, Header
<1>5. hdr.files[s] \in Entry
  BY <1>1 DEF Header
<1>6. /\ hdr'.files[s].lo = n.lo
      /\ ~Ends(n.lo) => hdr'.files[s].hi = n.hi
  BY <1>4, <1>5 DEF Named, Entry
<1>7. n = [lo |-> n.lo, hi |-> n.hi]
  BY <1>3 DEF Name
<1>8. StoredName(hdr'.files[s]) = n
  BY <1>3, <1>6, <1>7 DEF StoredName
<1> QED BY <1>1, <1>2, <1>8 DEF UsedSlots

(* Where every entry is in its place, what each of them reads as.          *)
LEMMA BoundedText ==
  ASSUME NEW h \in Header, NEW d \in [DataSectors -> Block],
         Bounded(h), NEW s \in UsedSlots(h)
  PROVE  /\ s \in Slots /\ h.files[s].size \in 0 .. MAX_FILE_SIZE
         /\ FileText(h, d, s) =
              [k \in 1 .. h.files[s].size |-> d[s * MAX_FILE_SIZE + (k - 1)]]
  BY InPlaceText DEF Bounded, InPlace, SlotStart

(* The bytes go to the slot's own area, and to no other file's.            *)
LEMMA FilledText ==
  ASSUME hdr \in Header, data \in [DataSectors -> Block], Bounded(hdr),
         NEW s \in FreeSlots(hdr), NEW n \in Names,
         NEW c \in Contents, Len(c) <= MAX_FILE_SIZE, Fill(s, n, c)
  PROVE  /\ Bounded(hdr')
         /\ FileText(hdr', data', s) = c
         /\ \A t \in UsedSlots(hdr) : FileText(hdr', data', t) = FileText(hdr, data, t)
<1>1. /\ s \in Slots /\ s \notin UsedSlots(hdr)
      /\ UsedSlots(hdr') = UsedSlots(hdr) \cup {s}
      /\ \A t \in UsedSlots(hdr) : hdr'.files[t] = hdr.files[t]
  BY FilledSlot
<1>2. hdr'.files[s].offset = s * MAX_FILE_SIZE /\ hdr'.files[s].size = Len(c)
  BY <1>1, FillEntries
<1>3. hdr' \in Header /\ data' \in [DataSectors -> Block]
  BY <1>1, FillType
<1>4. Bounded(hdr')
  BY <1>1, <1>2 DEF Bounded
<1>5. c \in Seq(Block) /\ Len(c) \in Nat
  BY ContentAssumption
<1>6. s * MAX_FILE_SIZE \in Nat /\ SlotStart(s) = s * MAX_FILE_SIZE
  BY <1>1, SizeAssumption DEF SlotStart, Slots
<1>7. FileText(hdr', data', s) = c
  <2>1. FileText(hdr', data', s) = [k \in 1 .. Len(c) |-> data'[s * MAX_FILE_SIZE + (k - 1)]]
    BY <1>1, <1>2, <1>3, <1>4, BoundedText
  <2>2. ASSUME NEW k \in 1 .. Len(c)
        PROVE  data'[s * MAX_FILE_SIZE + (k - 1)] = c[k]
    <3> DEFINE i == s * MAX_FILE_SIZE + (k - 1)
    <3>1. k - 1 \in 0 .. MAX_FILE_SIZE - 1
      BY <1>5, SizeAssumption
    <3>2. i \in DataSectors
      BY <1>1, <3>1, SlotInData
    <3>3. i - SlotStart(s) = k - 1 /\ k - 1 \in 0 .. Len(c) - 1 /\ k - 1 + 1 = k
      BY <1>5, <1>6
    <3> HIDE DEF i
    <3>4. data'[i] = c[i - SlotStart(s) + 1]
      BY <3>2, <3>3 DEF Fill
    <3> QED BY <3>3, <3>4 DEF i
  <2>3. c = [k \in 1 .. Len(c) |-> c[k]]
    BY <1>5
  <2> QED BY <2>1, <2>2, <2>3
<1>8. ASSUME NEW t \in UsedSlots(hdr)
      PROVE  FileText(hdr', data', t) = FileText(hdr, data, t)
  <2> DEFINE z == hdr.files[t].size
  <2>1. /\ t \in Slots /\ z \in 0 .. MAX_FILE_SIZE /\ t # s /\ hdr'.files[t].size = z
        /\ FileText(hdr, data, t) = [k \in 1 .. z |-> data[t * MAX_FILE_SIZE + (k - 1)]]
        /\ FileText(hdr', data', t) = [k \in 1 .. z |-> data'[t * MAX_FILE_SIZE + (k - 1)]]
    BY <1>1, <1>3, <1>4, <1>8, BoundedText
  <2>2. ASSUME NEW k \in 1 .. z
        PROVE  data'[t * MAX_FILE_SIZE + (k - 1)] = data[t * MAX_FILE_SIZE + (k - 1)]
    <3> DEFINE i == t * MAX_FILE_SIZE + (k - 1)
               j == i - SlotStart(s)
    <3>1. k - 1 \in 0 .. MAX_FILE_SIZE - 1
      BY <2>1, SizeAssumption
    <3>2. i \in DataSectors /\ i \in Int
      BY <2>1, <3>1, SlotInData DEF DataSectors
    <3>3. j \notin 0 .. Len(c) - 1
      <4>1. SUFFICES ASSUME j \in 0 .. Len(c) - 1 PROVE FALSE
        OBVIOUS
      <4>2. j \in 0 .. MAX_FILE_SIZE - 1
        BY <1>5, <4>1, SizeAssumption
      <4>3. s * MAX_FILE_SIZE + j = i
        BY <1>6, <3>2
      <4> QED BY <1>1, <2>1, <3>1, <4>2, <4>3, SlotsApart
    <3> QED BY <3>2, <3>3 DEF Fill
  <2> HIDE DEF z
  <2> QED BY <2>1, <2>2
<1> QED BY <1>4, <1>7, <1>8

LEMMA FillMap ==
  ASSUME hdr \in Header, data \in [DataSectors -> Block], Bounded(hdr), Distinct(hdr),
         NEW s \in FreeSlots(hdr), NEW n \in Names, Matching(hdr, n) = {},
         NEW c \in Contents, Len(c) <= MAX_FILE_SIZE, Fill(s, n, c)
  PROVE  /\ Bounded(hdr') /\ Distinct(hdr') /\ hdr'.magic = hdr.magic
         /\ FileMap(hdr', data') =
              [m \in DOMAIN FileMap(hdr, data) \cup {n} |->
                 IF m = n THEN c ELSE FileMap(hdr, data)[m]]
<1> DEFINE M == FileMap(hdr, data)
           F == [m \in DOMAIN M \cup {n} |-> IF m = n THEN c ELSE M[m]]
<1>1. /\ s \in Slots /\ s \notin UsedSlots(hdr)
      /\ UsedSlots(hdr') = UsedSlots(hdr) \cup {s}
      /\ StoredName(hdr'.files[s]) = n
      /\ \A t \in UsedSlots(hdr) : hdr'.files[t] = hdr.files[t]
  BY FilledSlot
<1>2. /\ Bounded(hdr') /\ FileText(hdr', data', s) = c
      /\ \A t \in UsedSlots(hdr) : FileText(hdr', data', t) = FileText(hdr, data, t)
  BY FilledText
<1>3. \A t \in UsedSlots(hdr) : StoredName(hdr.files[t]) # n
  BY DEF Matching
<1>4. Distinct(hdr')
  BY <1>1, <1>3 DEF Distinct
<1>5. hdr'.magic = hdr.magic
  BY <1>1, FillEntries
<1>6. NamesIn(hdr') = DOMAIN M \cup {n}
  <2>1. DOMAIN M = NamesIn(hdr)
    BY MapDomain
  <2>2. \A m : m \in NamesIn(hdr') <=> m \in NamesIn(hdr) \/ m = n
    BY <1>1, InNames
  <2> QED BY <2>1, <2>2
<1>7. \A t \in UsedSlots(hdr) : M[StoredName(hdr.files[t])] = FileText(hdr, data, t)
                                /\ StoredName(hdr.files[t]) \in DOMAIN M
  BY MapAt, MapDomain, InNames
<1> HIDE DEF M
<1>8. \A t \in UsedSlots(hdr') : F[StoredName(hdr'.files[t])] = FileText(hdr', data', t)
  BY <1>1, <1>2, <1>3, <1>7
<1>9. F = [m \in NamesIn(hdr') |-> F[m]]
  BY <1>6
<1> HIDE DEF F
<1>10. FileMap(hdr', data') = F
  BY <1>4, <1>8, <1>9, MapIs
<1> QED BY <1>2, <1>4, <1>5, <1>10 DEF M, F

Without(f, n) == [m \in DOMAIN f \ {n} |-> f[m]]

LEMMA ClearMap ==
  ASSUME NEW h \in Header, NEW d, Bounded(h), Distinct(h), NEW n,
         NEW s \in Matching(h, n)
  PROVE  /\ Bounded(Cleared(h, s)) /\ Distinct(Cleared(h, s))
         /\ Cleared(h, s).magic = h.magic
         /\ FileMap(Cleared(h, s), d) = Without(FileMap(h, d), n)
<1> DEFINE g == Cleared(h, s)
           M == FileMap(h, d)
           F == [m \in DOMAIN M \ {n} |-> M[m]]
<1>1. s \in Slots /\ s \in UsedSlots(h) /\ StoredName(h.files[s]) = n
  BY DEF Matching, UsedSlots
<1>2. /\ UsedSlots(g) = UsedSlots(h) \ {s} /\ g.magic = h.magic
      /\ \A t \in UsedSlots(g) : g.files[t] = h.files[t]
  BY <1>1, ClearedEntries DEF UsedSlots
<1>3. Bounded(g)
  BY <1>1, BoundedCleared
<1>4. Distinct(g)
  BY <1>2 DEF Distinct
<1>5. \A t \in UsedSlots(g) : FileText(g, d, t) = FileText(h, d, t)
  BY <1>2 DEF FileText
<1>6. \A t \in UsedSlots(h) : StoredName(h.files[t]) = n <=> t = s
  BY <1>1 DEF Distinct
<1>7. NamesIn(g) = DOMAIN M \ {n}
  <2>1. DOMAIN M = NamesIn(h)
    BY MapDomain
  <2>2. \A m : m \in NamesIn(g) <=> m \in NamesIn(h) /\ m # n
    BY <1>2, <1>6, InNames
  <2> QED BY <2>1, <2>2
<1>8. \A t \in UsedSlots(h) : M[StoredName(h.files[t])] = FileText(h, d, t)
                              /\ StoredName(h.files[t]) \in DOMAIN M
  BY MapAt, MapDomain, InNames
<1> HIDE DEF M, g
<1>9. \A t \in UsedSlots(g) : F[StoredName(g.files[t])] = FileText(g, d, t)
  BY <1>2, <1>5, <1>6, <1>8
<1>10. F = [m \in NamesIn(g) |-> F[m]]
  BY <1>7
<1> HIDE DEF F
<1>11. FileMap(g, d) = F
  BY <1>4, <1>9, <1>10, MapIs
<1> QED BY <1>2, <1>3, <1>4, <1>11 DEF M, F, g, Without

-----------------------------------------------------------------------------
(* Image in RAM and image on the drive.  Both are in order except where a  *)
(* load or a save is half way; a load and a save make them agree, sector   *)
(* by sector, and between commands they are the same.                      *)
StoreInv ==
  /\ Mounted => hdr.magic /\ Distinct(hdr) /\ Bounded(hdr)
  /\ pc # "saveHeader" /\ disk.hdr.magic => Distinct(disk.hdr) /\ Bounded(disk.hdr)
  /\ pc \in {"loadHeader", "checkMagic", "loadData", "saveHeader", "saveData"} => selected
  /\ pc = "loadData" => \A j \in 0 .. sec - 1 : data[j] = disk.data[j]
  /\ pc = "saveData" => \A j \in 0 .. sec - 1 : disk.data[j] = data[j]
  /\ selected /\ pc \in {"loaded", "shell"} => disk = RamImage

LEMMA DiskIs ==
  ASSUME NEW d \in Image, NEW h, NEW a \in [DataSectors -> Block],
         d.hdr = h, \A j \in DataSectors : d.data[j] = a[j]
  PROVE  d = [hdr |-> h, data |-> a]
<1>1. d.data = a
  BY DEF Image
<1> QED BY <1>1 DEF Image

LEMMA EmptyImage ==
  /\ EmptyHeader.magic /\ Distinct(EmptyHeader) /\ Bounded(EmptyHeader)
  /\ \A d : FileMap(EmptyHeader, d) = <<>>
  /\ \A h \in Header : /\ Formatted(h).magic /\ Distinct(Formatted(h))
                       /\ Bounded(Formatted(h))
                       /\ \A d : FileMap(Formatted(h), d) = <<>>
<1>1. EmptyHeader.magic /\ \A h \in Header : Formatted(h).magic
  BY DEF EmptyHeader, Formatted
<1> QED BY <1>1, NoneUsed, NoMap

LEMMA NothingOwed ==
  ASSUME Faults = {}, TypeOK
  PROVE  owed = NoOrder
<1>1. NoOrder.op = "none"
  BY DEF NoOrder
<1> QED BY <1>1 DEF TypeOK, OwedTypeOK, Order

LEMMA LoadDataStores ==
  ASSUME Faults = {}, TypeOK, PassInv, StoreInv, LoadDataSector
  PROVE  /\ StoreInv'
         /\ pc = "loadData" /\ UNCHANGED <<hdr, disk, selected, back, reply>>
         /\ pc' = "loadData" \/ (pc' = "loaded" /\ data' = disk.data)
<1> USE DEF TypeOK, RamTypeOK, RecordsTypeOK, ControlTypeOK
<1>1. /\ pc = "loadData" /\ UNCHANGED <<hdr, disk, selected, back, reply>>
      /\ data' = [data EXCEPT ![sec] = disk.data[sec]]
  BY NothingOwed DEF LoadDataSector, ReadFails, Arriving
<1>2. /\ sec \in DataSectors /\ selected /\ hdr = disk.hdr /\ hdr.magic
      /\ Distinct(hdr) /\ Bounded(hdr) /\ disk.data \in [DataSectors -> Block]
      /\ \A j \in 0 .. sec - 1 : data[j] = disk.data[j]
  BY <1>1 DEF StoreInv, PassInv, Image
<1>3. sec \in Nat /\ sec < DATA_SECTORS
  BY <1>2, DataArea
<1>4. \A j \in 0 .. sec : data'[j] = disk.data[j]
  BY <1>1, <1>2, <1>3, DataArea
<1>5. CASE More(DATA_SECTORS)
  <2>1. pc' = "loadData" /\ sec' = sec + 1
    BY <1>1, <1>5 DEF LoadDataSector
  <2>2. \A j \in 0 .. sec' - 1 : data'[j] = disk'.data[j]
    BY <1>1, <1>3, <1>4, <2>1
  <2> QED BY <1>1, <1>2, <2>1, <2>2 DEF StoreInv, Mounted
<1>6. CASE ~More(DATA_SECTORS)
  <2>1. pc' = "loaded"
    BY <1>1, <1>6 DEF LoadDataSector
  <2>2. DataSectors = 0 .. sec
    BY <1>3, <1>6, DataArea DEF More
  <2>3. data' = disk.data
    BY <1>1, <1>2, <1>4, <2>2
  <2>4. disk = [hdr |-> hdr, data |-> disk.data]
    BY <1>2, DiskIs
  <2>5. disk' = RamImage'
    BY <1>1, <2>3, <2>4 DEF RamImage
  <2> QED BY <1>1, <1>2, <2>1, <2>3, <2>5 DEF StoreInv, Mounted
<1> QED BY <1>1, <1>5, <1>6

LEMMA SaveDataStores ==
  ASSUME Faults = {}, TypeOK, PassInv, StoreInv, SaveDataSector
  PROVE  /\ StoreInv'
         /\ pc = "saveData" /\ UNCHANGED <<hdr, data, selected, back, reply>>
         /\ pc' = "saveData" \/ (pc' = back /\ disk' = RamImage)
<1> USE DEF TypeOK, RamTypeOK, RecordsTypeOK, ControlTypeOK
<1>1. /\ pc = "saveData" /\ UNCHANGED <<hdr, data, selected, reply>>
      /\ disk' = [disk EXCEPT !.data[sec] = data[sec]] /\ back' = back
      /\ IF More(DATA_SECTORS) THEN pc' = pc /\ sec' = sec + 1
                               ELSE pc' = back /\ sec' = 0
  BY Stored DEF SaveDataSector, WriteFails, Prompt
<1>2. /\ sec \in DataSectors /\ selected /\ hdr = disk.hdr /\ hdr.magic
      /\ Distinct(hdr) /\ Bounded(hdr) /\ disk.data \in [DataSectors -> Block]
      /\ \A j \in 0 .. sec - 1 : disk.data[j] = data[j]
      /\ back \in {"loaded", "shell"}
  BY <1>1 DEF StoreInv, PassInv, Image, Mounted
<1>3. sec \in Nat /\ sec < DATA_SECTORS
  BY <1>2, DataArea
<1>4. /\ disk'.hdr = hdr /\ disk' \in Image
      /\ \A j \in 0 .. sec : disk'.data[j] = data[j]
  <2>1. disk' = [hdr |-> hdr, data |-> [disk.data EXCEPT ![sec] = data[sec]]]
    BY <1>1, <1>2 DEF Image
  <2>2. disk' \in Image
    BY <1>2, <2>1 DEF Image
  <2>3. \A j \in 0 .. sec : disk'.data[j] = data[j]
    BY <1>2, <1>3, <2>1, DataArea
  <2> QED BY <2>1, <2>2, <2>3
<1>5. CASE More(DATA_SECTORS)
  <2>1. \A j \in 0 .. sec' - 1 : disk'.data[j] = data'[j]
    BY <1>1, <1>3, <1>4, <1>5
  <2> QED BY <1>1, <1>2, <1>4, <1>5, <2>1 DEF StoreInv, Mounted
<1>6. CASE ~More(DATA_SECTORS)
  <2>1. DataSectors = 0 .. sec
    BY <1>3, <1>6, DataArea DEF More
  <2>2. disk' = RamImage
    BY <1>4, <2>1, DiskIs DEF RamImage
  <2>3. disk' = RamImage'
    BY <1>1, <2>2 DEF RamImage
  <2> QED BY <1>1, <1>2, <1>4, <1>6, <2>2, <2>3 DEF StoreInv, Mounted
<1> QED BY <1>1, <1>5, <1>6

LEMMA SaveStores ==
  ASSUME StoreInv, pc \in {"loaded", "shell"}, Save("shell"),
         UNCHANGED <<selected, disk>>,
         hdr'.magic /\ Distinct(hdr') /\ Bounded(hdr')
  PROVE  StoreInv'
BY DEF Save, BeginSave, StoreInv, Mounted

(* A file is created in a slot that is free, under a name that is not.     *)
LEMMA CreateFills ==
  ASSUME TypeOK, StoreInv, pc \in {"loaded", "shell"},
         NEW n \in Names, NEW c \in Contents, CreateFile(n, c), CreateCode(n, c) = 0
  PROVE  /\ Save("shell") /\ Matching(hdr, n) = {}
         /\ FreeSlots(hdr) # {} /\ Len(c) <= MAX_FILE_SIZE
         /\ hdr'.magic /\ Distinct(hdr') /\ Bounded(hdr')
         /\ FileMap(hdr', data') =
              [m \in DOMAIN FileMap(hdr, data) \cup {n} |->
                 IF m = n THEN c ELSE FileMap(hdr, data)[m]]
<1>1. Matching(hdr, n) = {} /\ FreeSlots(hdr) # {} /\ ~(Len(c) > MAX_FILE_SIZE)
  BY DEF CreateCode
<1>2. Len(c) <= MAX_FILE_SIZE
  <2>1. Len(c) \in Nat
    BY ContentAssumption
  <2> QED BY <1>1, <2>1, SizeAssumption
<1>3. PICK s \in FreeSlots(hdr) : Fill(s, n, c) /\ Save("shell")
  BY DEF CreateFile, IsFirst
<1>4. hdr \in Header /\ data \in [DataSectors -> Block]
      /\ hdr.magic /\ Bounded(hdr) /\ Distinct(hdr)
  BY DEF TypeOK, RamTypeOK, StoreInv, Mounted
<1> QED BY <1>1, <1>2, <1>3, <1>4, FillMap, ZenonT(30)

LEMMA CreateStores ==
  ASSUME TypeOK, StoreInv, pc \in {"loaded", "shell"}, NEW n \in Names,
         NEW c \in Contents, CreateFile(n, c), UNCHANGED <<selected, disk>>
  PROVE  StoreInv'
<1>1. CASE CreateCode(n, c) = 0
  BY <1>1, CreateFills, SaveStores
<1>2. CASE CreateCode(n, c) # 0
  BY <1>2 DEF CreateFile, StoreInv, Mounted, RamImage
<1> QED BY <1>1, <1>2

LEMMA DeleteStores ==
  ASSUME TypeOK, StoreInv, NEW n, FsDeleteFile(n)
  PROVE  StoreInv'
<1>1. pc = "shell" /\ UNCHANGED <<data, selected, disk>>
  BY DEF FsDeleteFile
<1>2. CASE hdr' = hdr /\ pc' = pc
  BY <1>1, <1>2 DEF StoreInv, Mounted, RamImage
<1>3. ASSUME NEW s \in Matching(hdr, n), hdr' = Cleared(hdr, s), Save("shell")
      PROVE  StoreInv'
  <2>1. hdr \in Header /\ hdr.magic /\ Bounded(hdr) /\ Distinct(hdr)
    BY <1>1 DEF TypeOK, RamTypeOK, StoreInv, Mounted
  <2>2. Bounded(hdr') /\ Distinct(hdr') /\ hdr'.magic
    BY <1>3, <2>1, ClearMap
  <2> QED BY <1>1, <1>3, <2>2, SaveStores
<1> QED BY <1>2, <1>3 DEF FsDeleteFile, IsFirst

LEMMA StoreStep ==
  ASSUME Faults = {}, LongNames = {}, TypeOK, PassInv, StoreInv, [Next]_vars
  PROVE  StoreInv'
<1> USE DEF TypeOK, RamTypeOK
<1>1. CASE LoadHeaderSector
  BY <1>1 DEF LoadHeaderSector, ReadFails, StoreInv, Mounted
<1>2. CASE CheckMagic
  BY <1>2, EmptyImage DEF CheckMagic, BeginSave, StoreInv, Mounted
<1>3. CASE LoadDataSector
  BY <1>3, LoadDataStores
<1>4. CASE EnsureReadme
  <2>1. CASE pc' = "shell" /\ UNCHANGED <<hdr, data>>
    BY <1>4, <2>1 DEF EnsureReadme, StoreInv, Mounted, RamImage
  <2>2. CASE CreateFile(README, README_TEXT)
    BY <1>4, <2>2, CreateStores, NameAssumption, ContentAssumption DEF EnsureReadme
  <2> QED BY <1>4, <2>1, <2>2 DEF EnsureReadme
<1>5. CASE SaveHeaderSector
  <2>1. /\ pc = "saveHeader" /\ UNCHANGED <<hdr, data, selected>>
        /\ Prompt /\ ~WriteFails
    BY <1>5 DEF SaveHeaderSector, WriteFails, Prompt
  <2>2. pc' = "saveHeader" \/ (pc' = "saveData" /\ disk'.hdr = hdr /\ sec' = 0)
    BY <1>5, <2>1, SaveHeaderPasses DEF SaveHeaderSector
  <2> QED BY <2>1, <2>2 DEF StoreInv, Mounted
<1>6. CASE SaveDataSector
  BY <1>6, SaveDataStores
<1>7. ASSUME NEW drive \in BOOLEAN, Boot(drive)
      PROVE  StoreInv'
  BY <1>7, EmptyImage DEF Boot, StoreInv, Mounted
<1>8. ASSUME NEW n \in Names \cup LongNames \cup {EmptyName}, FsDeleteFile(n)
      PROVE  StoreInv'
  BY <1>8, DeleteStores
<1>9. ASSUME NEW n \in Names \cup LongNames \cup {EmptyName}, FsReadFile(n)
      PROVE  StoreInv'
  BY <1>9 DEF FsReadFile, ram, StoreInv, Mounted, RamImage
<1>10. ASSUME NEW n \in Names \cup LongNames, NEW c \in Contents,
              FsCreateFile(n, c)
       PROVE  StoreInv'
  BY <1>10, CreateStores DEF FsCreateFile
<1>11. CASE FsListFiles
  BY <1>11 DEF FsListFiles, ram, StoreInv, Mounted, RamImage
<1>12. CASE SaveCommand
  BY <1>12, SaveStores DEF SaveCommand, StoreInv, Mounted
<1>13. CASE PowerDown /\ pc = "shell"
  BY <1>13 DEF PowerDown, StoreInv, Mounted
<1>14. CASE UNCHANGED vars
  BY <1>14 DEF vars, StoreInv, Mounted, RamImage
<1>15. CASE DisksGivesUp \/ Settle
  BY <1>15 DEF DisksGivesUp, Settle, ram, StoreInv, Mounted, RamImage
<1> QED
  BY <1>1, <1>2, <1>3, <1>4, <1>5, <1>6, <1>7, <1>8, <1>9, <1>10, <1>11,
     <1>12, <1>13, <1>14, <1>15
  DEF Next, Program, User, Reboot, PowerLoss

-----------------------------------------------------------------------------
(* Every step is a step of FileStore or none.                              *)
Step == Store!Next \/ UNCHANGED Store!vars

(* What a step of a load, or of a save, looks like from outside.           *)
LEMMA Unseen ==
  ASSUME Files' = Files, StoredFiles' = StoredFiles, Attached' = Attached,
         Mode' = Mode, reply' = reply, call' = call
  PROVE  Step
BY DEF Step, Store!vars

LEMMA Mounts ==
  ASSUME Mode = "off", Mode' = "mounted", Attached' \in BOOLEAN,
         Files' = IF Attached' THEN StoredFiles ELSE <<>>,
         StoredFiles' = StoredFiles, reply' = reply, call' = call
  PROVE  Step
BY DEF Step, Store!Next, Store!Mount, Store!None

LEMMA LoadHeaderImplements ==
  ASSUME Faults = {}, LoadHeaderSector, UNCHANGED call
  PROVE  Step
<1>1. /\ pc = "loadHeader" /\ pc' \in {"loadHeader", "checkMagic"}
      /\ UNCHANGED <<disk, reply>>
  BY DEF LoadHeaderSector, ReadFails
<1>2. Mode = "off" /\ Mode' = "off" /\ ~Saving /\ ~Saving'
  BY <1>1 DEF Mode, Saving
<1> QED BY <1>1, <1>2, Unseen DEF Files, StoredFiles, Attached, FilesOn

(* Formatting a drive without the magic leaves it as empty as it counted.  *)
LEMMA CheckMagicImplements ==
  ASSUME TypeOK, PassInv, CheckMagic, UNCHANGED call
  PROVE  Step
<1>1. pc = "checkMagic" /\ hdr = disk.hdr /\ hdr \in Header /\ UNCHANGED <<disk, reply>>
  BY DEF CheckMagic, PassInv, TypeOK, RamTypeOK
<1>2. Mode = "off" /\ ~Saving
  BY <1>1 DEF Mode, Saving
<1>3. CASE pc' = "loadData"
  <2>1. Mode' = "off" /\ ~Saving'
    BY <1>3 DEF Mode, Saving
  <2> QED BY <1>1, <1>2, <2>1, Unseen DEF Files, StoredFiles, Attached, FilesOn
<1>4. CASE ~hdr.magic /\ hdr' = Formatted(hdr) /\ pc' = "saveHeader" /\ back' = "loaded"
  <2>1. Mode' = "off" /\ Saving'
    BY <1>4 DEF Mode, Saving
  <2>2. FileMap(hdr, data)' = <<>>
    BY <1>1, <1>4, EmptyImage
  <2> QED BY <1>1, <1>2, <1>4, <2>1, <2>2, Unseen
          DEF Files, StoredFiles, Attached, FilesOn
<1> QED BY <1>3, <1>4 DEF CheckMagic, BeginSave

LEMMA LoadDataImplements ==
  ASSUME Faults = {}, TypeOK, PassInv, StoreInv, LoadDataSector, UNCHANGED call
  PROVE  Step
<1>1. /\ pc = "loadData" /\ UNCHANGED <<hdr, disk, selected, back, reply>>
      /\ pc' = "loadData" \/ (pc' = "loaded" /\ data' = disk.data)
  BY LoadDataStores
<1>2. Mode = "off" /\ ~Saving /\ hdr = disk.hdr /\ hdr.magic /\ selected = TRUE
  BY <1>1 DEF Mode, Saving, PassInv, StoreInv, TypeOK, RamTypeOK
<1>3. CASE pc' = "loadData"
  <2>1. Mode' = "off" /\ ~Saving'
    BY <1>3 DEF Mode, Saving
  <2> QED BY <1>1, <1>2, <2>1, Unseen DEF Files, StoredFiles, Attached, FilesOn
<1>4. CASE pc' = "loaded" /\ data' = disk.data
  <2>1. Mode' = "mounted" /\ ~Saving'
    BY <1>4 DEF Mode, Saving
  <2>2. StoredFiles = FileMap(hdr, disk.data) /\ StoredFiles' = StoredFiles
    BY <1>1, <1>2, <2>1 DEF StoredFiles, FilesOn
  <2>3. Files' = StoredFiles /\ Attached' = TRUE
    BY <1>1, <1>2, <1>4, <2>1, <2>2 DEF Files, Attached
  <2> QED BY <1>1, <1>2, <2>1, <2>2, <2>3, Mounts
<1> QED BY <1>1, <1>3, <1>4

LEMMA SaveHeaderImplements ==
  ASSUME Faults = {}, SaveHeaderSector, UNCHANGED call
  PROVE  Step
<1>1. /\ pc = "saveHeader" /\ pc' \in {"saveHeader", "saveData"}
      /\ UNCHANGED <<hdr, data, selected, back, reply>>
  BY DEF SaveHeaderSector, WriteFails
<1>2. Mode' = Mode /\ Saving /\ Saving'
  BY <1>1 DEF Mode, Saving
<1> QED BY <1>1, <1>2, Unseen DEF Files, StoredFiles, Attached

(* The last sector of a save ends the formatting of a boot, or a command   *)
(* that has been answered already.                                         *)
LEMMA SaveDataImplements ==
  ASSUME Faults = {}, TypeOK, PassInv, StoreInv, SaveDataSector, UNCHANGED call
  PROVE  Step
<1>1. /\ pc = "saveData" /\ UNCHANGED <<hdr, data, selected, back, reply>>
      /\ pc' = "saveData" \/ (pc' = back /\ disk' = RamImage)
      /\ selected = TRUE /\ hdr.magic /\ back \in {"loaded", "shell"}
  BY SaveDataStores DEF StoreInv, Mounted, TypeOK, RamTypeOK, ControlTypeOK
<1>2. Saving /\ StoredFiles = FileMap(hdr, data)
  BY <1>1 DEF Saving, StoredFiles
<1>3. CASE pc' = "saveData"
  <2>1. Mode' = Mode /\ Saving'
    BY <1>1, <1>3 DEF Mode, Saving
  <2> QED BY <1>1, <1>2, <2>1, Unseen DEF Files, StoredFiles, Attached
<1>4. CASE pc' = back /\ disk' = RamImage
  <2>1. ~Saving' /\ StoredFiles' = StoredFiles
    BY <1>1, <1>2, <1>4 DEF Saving, StoredFiles, FilesOn, RamImage
  <2>2. CASE back = "shell"
    <3>1. Mode = "ready" /\ Mode' = "ready"
      BY <1>1, <1>2, <1>4, <2>2 DEF Mode, Saving
    <3> QED BY <1>1, <2>1, <3>1, Unseen DEF Files, Attached
  <2>3. CASE back = "loaded"
    <3>1. Mode = "off" /\ Mode' = "mounted"
      BY <1>1, <1>2, <1>4, <2>3 DEF Mode, Saving
    <3>2. Files' = StoredFiles /\ Attached' = TRUE
      BY <1>1, <1>2, <3>1 DEF Files, Attached
    <3> QED BY <1>1, <2>1, <3>1, <3>2, Mounts
  <2> QED BY <1>1, <2>2, <2>3
<1> QED BY <1>1, <1>3, <1>4

LEMMA BootImplements ==
  ASSUME NEW drive \in BOOLEAN, Boot(drive), UNCHANGED call
  PROVE  Step
<1>1. /\ pc = "off" /\ hdr' = EmptyHeader /\ selected' = drive
      /\ UNCHANGED <<disk, reply>>
  BY DEF Boot
<1>2. Mode = "off" /\ ~Saving
  BY <1>1 DEF Mode, Saving
<1>3. CASE drive = TRUE
  <2>1. Mode' = "off" /\ ~Saving'
    BY <1>3 DEF Boot, Mode, Saving
  <2> QED BY <1>1, <1>2, <2>1, Unseen DEF Files, StoredFiles, Attached, FilesOn
<1>4. CASE drive = FALSE
  <2>1. Mode' = "mounted" /\ ~Saving'
    BY <1>4 DEF Boot, Mode, Saving
  <2>2. Files' = <<>>
    BY <1>1, <2>1, EmptyImage DEF Files
  <2>3. StoredFiles' = StoredFiles /\ Attached' = FALSE
    BY <1>1, <1>2, <1>4, <2>1 DEF StoredFiles, Attached, FilesOn
  <2> QED BY <1>1, <1>2, <2>1, <2>2, <2>3, Mounts
<1> QED BY <1>3, <1>4

-----------------------------------------------------------------------------
(* The commands.                                                           *)

LEMMA Commanding ==
  ASSUME pc \in {"loaded", "shell"}
  PROVE  /\ Files = FileMap(hdr, data) /\ StoredFiles = FilesOn(disk)
         /\ Attached = selected
         /\ Mode = IF pc = "loaded" THEN "mounted" ELSE "ready"
<1>1. Mode = (IF pc = "loaded" THEN "mounted" ELSE "ready") /\ ~Saving
  BY DEF Mode, Saving
<1> QED BY <1>1 DEF Files, StoredFiles, Attached

(* With a drive, what is there is stored, and what a save begins to write  *)
(* will be.                                                                *)
LEMMA SaveChanges ==
  ASSUME TypeOK, StoreInv, pc \in {"loaded", "shell"}, Save("shell"),
         UNCHANGED <<selected, disk>>
  PROVE  /\ Mode' = "ready" /\ Attached' = selected
         /\ Files' = FileMap(hdr', data')
         /\ StoredFiles' = IF Attached THEN FileMap(hdr', data') ELSE StoredFiles
<1>1. Attached = selected /\ StoredFiles = FilesOn(disk) /\ selected \in BOOLEAN
  BY Commanding DEF TypeOK, RamTypeOK
<1>2. CASE selected = TRUE
  <2>1. pc' = "saveHeader" /\ back' = "shell"
    BY <1>2 DEF Save, BeginSave
  <2>2. Mode' = "ready" /\ Saving'
    BY <2>1 DEF Mode, Saving
  <2> QED BY <1>1, <1>2, <2>2 DEF Files, StoredFiles, Attached
<1>3. CASE selected = FALSE
  <2>1. pc' = "shell"
    BY <1>3 DEF Save
  <2>2. Mode' = "ready" /\ ~Saving'
    BY <2>1 DEF Mode, Saving
  <2> QED BY <1>1, <1>3, <2>2 DEF Files, StoredFiles, Attached, FilesOn
<1> QED BY <1>1, <1>2, <1>3

LEMMA NothingChanges ==
  ASSUME pc \in {"loaded", "shell"}, pc' = "shell", UNCHANGED <<hdr, data, selected, disk>>
  PROVE  /\ Mode' = "ready" /\ Attached' = Attached
         /\ Files' = Files /\ StoredFiles' = StoredFiles
<1>1. Mode' = "ready" /\ ~Saving'
  BY DEF Mode, Saving
<1> QED BY <1>1, Commanding DEF Files, StoredFiles, Attached, FilesOn

(* FileStore counts as SzymFS does.                                        *)
LEMMA SameCount ==
  ASSUME NEW S
  PROVE  Store!Cardinality(S) = Cardinality(S)
BY Zenon DEF Store!Cardinality, Cardinality

(* The answers mean the same of the map as of the slots.                   *)
LEMMA CreateAnswers ==
  ASSUME StoreInv, pc \in {"loaded", "shell"}, NEW n \in Names, NEW c \in Contents
  PROVE  /\ CreateCode(n, c) = -2 <=> n \in DOMAIN Files
         /\ CreateCode(n, c) = -3 <=>
              n \notin DOMAIN Files /\ Cardinality(DOMAIN Files) >= MAX_FILES
         /\ CreateCode(n, c) = -4 <=>
              n \notin DOMAIN Files /\ Cardinality(DOMAIN Files) < MAX_FILES
                /\ Len(c) > MAX_FILE_SIZE
         /\ CreateCode(n, c) = 0 <=> n \notin DOMAIN Files /\ Store!Fits(c)
         /\ CreateCode(n, c) \in {0, -2, -3, -4}
<1>1. Files = FileMap(hdr, data) /\ Distinct(hdr)
  BY Commanding DEF StoreInv, Mounted
<1>2. n \in DOMAIN Files <=> Matching(hdr, n) # {}
  BY <1>1, InMap
<1>3. /\ Cardinality(DOMAIN Files) < MAX_FILES <=> FreeSlots(hdr) # {}
      /\ Cardinality(DOMAIN Files) \in Nat /\ MAX_FILES \in Nat
      /\ Len(c) \in Nat /\ MAX_FILE_SIZE \in Nat
  BY <1>1, MapCount, ContentAssumption, SizeAssumption
<1>4. Store!Fits(c) <=> FreeSlots(hdr) # {} /\ ~(Len(c) > MAX_FILE_SIZE)
  BY <1>3, SameCount DEF Store!Fits
<1>5. CASE Matching(hdr, n) # {}
  <2>1. CreateCode(n, c) = -2
    BY <1>5 DEF CreateCode
  <2> QED BY <1>2, <1>5, <2>1
<1>6. CASE Matching(hdr, n) = {} /\ FreeSlots(hdr) = {}
  <2>1. CreateCode(n, c) = -3
    BY <1>6 DEF CreateCode
  <2>2. n \notin DOMAIN Files /\ ~Store!Fits(c)
    BY <1>2, <1>4, <1>6
  <2>3. /\ Cardinality(DOMAIN Files) >= MAX_FILES
        /\ ~(Cardinality(DOMAIN Files) < MAX_FILES)
    BY <1>3, <1>6
  <2> QED BY <2>1, <2>2, <2>3
<1>7. CASE Matching(hdr, n) = {} /\ FreeSlots(hdr) # {}
  <2>1. CreateCode(n, c) = IF Len(c) > MAX_FILE_SIZE THEN -4 ELSE 0
    BY <1>7 DEF CreateCode
  <2>2. n \notin DOMAIN Files
    BY <1>2, <1>7
  <2>3. /\ ~(Cardinality(DOMAIN Files) >= MAX_FILES)
        /\ Cardinality(DOMAIN Files) < MAX_FILES
    BY <1>3, <1>7
  <2>4. Store!Fits(c) <=> ~(Len(c) > MAX_FILE_SIZE)
    BY <1>4, <1>7
  <2> QED BY <2>1, <2>2, <2>3, <2>4
<1> QED BY <1>5, <1>6, <1>7

LEMMA CreateDone ==
  ASSUME TypeOK, StoreInv, pc \in {"loaded", "shell"}, NEW n \in Names,
         NEW c \in Contents, CreateFile(n, c), UNCHANGED <<selected, disk>>
  PROVE  /\ Mode' = "ready" /\ Attached' = Attached
         /\ CreateCode(n, c) = 0 => Store!Put(n, c)
         /\ CreateCode(n, c) # 0 => Files' = Files /\ StoredFiles' = StoredFiles
<1>1. CASE CreateCode(n, c) = 0
  <2>1. /\ Mode' = "ready" /\ Attached' = selected
        /\ Files' = FileMap(hdr', data')
        /\ StoredFiles' = IF Attached THEN FileMap(hdr', data') ELSE StoredFiles
    BY <1>1, CreateFills, SaveChanges
  <2>2. FileMap(hdr', data') = [m \in DOMAIN Files \cup {n} |-> IF m = n THEN c ELSE Files[m]]
    BY <1>1, CreateFills, Commanding, ZenonT(30)
  <2> QED BY <1>1, <2>1, <2>2, Commanding DEF Store!Put, Store!Change
<1>2. CASE CreateCode(n, c) # 0
  BY <1>2, NothingChanges DEF CreateFile
<1> QED BY <1>1, <1>2

LEMMA ReadmeImplements ==
  ASSUME TypeOK, StoreInv, EnsureReadme, UNCHANGED call
  PROVE  Step
<1>1. /\ pc = "loaded" /\ UNCHANGED <<selected, disk, reply>>
      /\ README \in Names /\ README_TEXT \in Contents
      /\ Mode = "mounted" /\ Files = FileMap(hdr, data)
  BY NameAssumption, ContentAssumption, Commanding DEF EnsureReadme
<1>2. README \in DOMAIN Files <=> Matching(hdr, README) # {}
  BY <1>1, InMap
<1>3. CASE Matching(hdr, README) # {} /\ pc' = "shell" /\ UNCHANGED <<hdr, data>>
  <2>1. Mode' = "ready" /\ Attached' = Attached /\ Files' = Files
        /\ StoredFiles' = StoredFiles
    BY <1>1, <1>3, NothingChanges
  <2> QED BY <1>1, <1>2, <1>3, <2>1 DEF Store!FirstBoot, Store!Next, Step
<1>4. CASE Matching(hdr, README) = {} /\ CreateFile(README, README_TEXT)
  <2>1. /\ Mode' = "ready" /\ Attached' = Attached
        /\ CreateCode(README, README_TEXT) = 0 => Store!Put(README, README_TEXT)
        /\ CreateCode(README, README_TEXT) # 0 => Files' = Files /\ StoredFiles' = StoredFiles
    BY <1>1, <1>4, CreateDone
  <2>2. CreateCode(README, README_TEXT) = 0 <=> Store!Fits(README_TEXT)
    BY <1>1, <1>2, <1>4, CreateAnswers
  <2> QED BY <1>1, <1>2, <1>4, <2>1, <2>2 DEF Store!FirstBoot, Store!Next, Step
<1> QED BY <1>3, <1>4 DEF EnsureReadme

LEMMA CreateImplements ==
  ASSUME TypeOK, StoreInv, NEW n \in Names, NEW c \in Contents, FsCreateFile(n, c),
         call' = Call("create", n, c)
  PROVE  Step
<1>1. /\ pc = "shell" /\ CreateFile(n, c) /\ UNCHANGED <<selected, disk>>
      /\ reply' = [op |-> "done", code |-> CreateCode(n, c), text |-> <<>>, names |-> {}]
      /\ Mode = "ready"
  BY Commanding DEF FsCreateFile, Answer
<1>2. /\ Mode' = "ready" /\ Attached' = Attached
      /\ CreateCode(n, c) = 0 => Store!Put(n, c)
      /\ CreateCode(n, c) # 0 => Files' = Files /\ StoredFiles' = StoredFiles
  BY <1>1, CreateDone
<1>3. call' = Store!Call("create", n, c)
  BY DEF Call, Store!Call
<1>4. Store!Ready("done", CreateCode(n, c), <<>>, {})
  BY <1>1, <1>2 DEF Store!Ready
<1>5. Store!Create(n, c)
  <2>1. CASE CreateCode(n, c) = 0
    BY <1>1, <1>2, <1>3, <1>4, <2>1, CreateAnswers DEF Store!Create
  <2>2. CASE CreateCode(n, c) = -2
    BY <1>1, <1>2, <1>3, <1>4, <2>2, CreateAnswers DEF Store!Create
  <2>3. CASE CreateCode(n, c) = -3
    <3>1. n \notin DOMAIN Files /\ Cardinality(DOMAIN Files) >= MAX_FILES
      BY <1>1, <2>3, CreateAnswers
    <3>2. Files' = Files /\ StoredFiles' = StoredFiles
      BY <1>2, <2>3
    <3>3. Store!Ready("done", -3, <<>>, {})
      BY <1>4, <2>3
    <3> QED BY <1>3, <3>1, <3>2, <3>3, SameCount DEF Store!Create
  <2>4. CASE CreateCode(n, c) = -4
    <3>1. /\ n \notin DOMAIN Files /\ Cardinality(DOMAIN Files) < MAX_FILES
          /\ Len(c) > MAX_FILE_SIZE
      BY <1>1, <2>4, CreateAnswers
    <3>2. Files' = Files /\ StoredFiles' = StoredFiles
      BY <1>2, <2>4
    <3>3. Store!Ready("done", -4, <<>>, {})
      BY <1>4, <2>4
    <3> QED BY <1>3, <3>1, <3>2, <3>3, SameCount DEF Store!Create
  <2> QED BY <1>1, <2>1, <2>2, <2>3, <2>4, CreateAnswers
<1> QED BY <1>5 DEF Store!Next, Step

LEMMA DeleteImplements ==
  ASSUME TypeOK, StoreInv, NEW n \in Names \cup {EmptyName}, FsDeleteFile(n),
         call' = Call("delete", n, <<>>)
  PROVE  Step
<1>1. /\ pc = "shell" /\ UNCHANGED <<data, selected, disk>>
      /\ Mode = "ready" /\ Files = FileMap(hdr, data)
  BY Commanding DEF FsDeleteFile
<1>2. n \in DOMAIN Files <=> Matching(hdr, n) # {}
  BY <1>1, InMap
<1>3. call' = Store!Call("delete", n, <<>>)
  BY DEF Call, Store!Call
<1>4. CASE Matching(hdr, n) = {} /\ Answer("done", -1, <<>>, {}) /\ UNCHANGED <<hdr, pc>>
  <2>1. Mode' = "ready" /\ Attached' = Attached /\ Files' = Files
        /\ StoredFiles' = StoredFiles
    BY <1>1, <1>4, NothingChanges
  <2>2. Store!Delete(n)
    BY <1>1, <1>2, <1>3, <1>4, <2>1 DEF Answer, Store!Ready, Store!Delete
  <2> QED BY <2>2 DEF Store!Next, Step
<1>5. ASSUME NEW s \in Matching(hdr, n), hdr' = Cleared(hdr, s), Save("shell"),
             Answer("done", 0, <<>>, {})
      PROVE  Step
  <2>1. hdr \in Header /\ hdr.magic /\ Bounded(hdr) /\ Distinct(hdr)
    BY <1>1 DEF TypeOK, RamTypeOK, StoreInv, Mounted
  <2>2. FileMap(hdr', data') = [m \in DOMAIN Files \ {n} |-> Files[m]]
    <3>1. FileMap(Cleared(hdr, s), data) = Without(FileMap(hdr, data), n)
      BY <1>5, <2>1, ClearMap
    <3> QED BY <1>1, <1>5, <3>1 DEF Without
  <2>3. /\ Mode' = "ready" /\ Attached' = selected /\ Attached = selected
        /\ Files' = FileMap(hdr', data')
        /\ StoredFiles' = IF Attached THEN FileMap(hdr', data') ELSE StoredFiles
    BY <1>1, <1>5, SaveChanges, Commanding
  <2>4. Store!Change([m \in DOMAIN Files \ {n} |-> Files[m]])
    BY <2>2, <2>3 DEF Store!Change
  <2>5. Store!Ready("done", 0, <<>>, {})
    BY <1>1, <1>5, <2>3 DEF Answer, Store!Ready
  <2>6. Store!Delete(n)
    BY <1>2, <1>3, <1>5, <2>4, <2>5 DEF Store!Delete
  <2> QED BY <2>6 DEF Store!Next, Step
<1> QED BY <1>4, <1>5 DEF FsDeleteFile, IsFirst

LEMMA ReadImplements ==
  ASSUME StoreInv, NEW n \in Names \cup {EmptyName}, FsReadFile(n), call' = Call("read", n, <<>>)
  PROVE  Step
<1>1. /\ pc = "shell" /\ pc' = "shell" /\ UNCHANGED <<hdr, data, selected, disk>>
      /\ Mode = "ready" /\ Files = FileMap(hdr, data) /\ Distinct(hdr)
  BY Commanding DEF FsReadFile, ram, StoreInv, Mounted
<1>2. n \in DOMAIN Files <=> Matching(hdr, n) # {}
  BY <1>1, InMap
<1>3. Mode' = "ready" /\ Attached' = Attached /\ Files' = Files
      /\ StoredFiles' = StoredFiles
  BY <1>1, NothingChanges
<1>4. call' = Store!Call("read", n, <<>>)
  BY DEF Call, Store!Call
<1>5. CASE Matching(hdr, n) = {} /\ Answer("read", -1, <<>>, {})
  <2>1. Store!Read(n)
    BY <1>1, <1>2, <1>3, <1>4, <1>5 DEF Answer, Store!Ready, Store!Read
  <2> QED BY <2>1 DEF Store!Next, Step
<1>6. ASSUME NEW s \in Matching(hdr, n), Answer("read", 0, FileText(hdr, data, s), {})
      PROVE  Step
  <2>1. s \in UsedSlots(hdr) /\ StoredName(hdr.files[s]) = n
    BY <1>6 DEF Matching
  <2>2. Files[n] = FileText(hdr, data, s)
    BY <1>1, <2>1, MapAt
  <2>3. Store!Ready("read", 0, Files[n], {})
    BY <1>1, <1>3, <1>6, <2>2 DEF Answer, Store!Ready
  <2>4. Store!Read(n)
    BY <1>2, <1>3, <1>4, <1>6, <2>3 DEF Store!Read
  <2> QED BY <2>4 DEF Store!Next, Step
<1> QED BY <1>5, <1>6 DEF FsReadFile, IsFirst

(* The count is 0 only when there is nothing to list.                      *)
LEMMA ListImplements ==
  ASSUME StoreInv, CountMatches, FsListFiles, call' = NoCall
  PROVE  Step
<1>1. /\ pc = "shell" /\ pc' = "shell" /\ UNCHANGED <<hdr, data, selected, disk>>
      /\ Mode = "ready" /\ Files = FileMap(hdr, data)
      /\ hdr.file_count = Cardinality(UsedSlots(hdr))
  BY Commanding DEF FsListFiles, ram, CountMatches, Mounted
<1>2. Mode' = "ready" /\ Attached' = Attached /\ Files' = Files
      /\ StoredFiles' = StoredFiles
  BY <1>1, NothingChanges
<1>3. DOMAIN Files = NamesIn(hdr)
  BY <1>1, MapDomain
<1>4. hdr.file_count = 0 => NamesIn(hdr) = {}
  <2>1. hdr.file_count = 0 => UsedSlots(hdr) = {}
    BY <1>1, UsedFinite, FS_EmptySet
  <2> QED BY <2>1 DEF NamesIn
<1>5. Store!Ready("list", 0, <<>>, DOMAIN Files)
  BY <1>1, <1>2, <1>3, <1>4 DEF FsListFiles, Answer, NamesIn, Store!Ready
<1>6. call' = Store!NoCall
  BY DEF NoCall, Call, Store!NoCall, Store!Call
<1> QED BY <1>2, <1>5, <1>6 DEF Store!List, Store!Next, Step

LEMMA SaveImplements ==
  ASSUME TypeOK, StoreInv, SaveCommand, call' = NoCall
  PROVE  Step
<1>1. /\ pc = "shell" /\ UNCHANGED <<hdr, data, selected, disk>>
      /\ Save("shell") /\ Answer("done", 0, <<>>, {})
      /\ Mode = "ready" /\ Files = FileMap(hdr, data) /\ Attached = selected
  BY Commanding DEF SaveCommand
<1>2. /\ Mode' = "ready" /\ Attached' = Attached /\ Files' = Files
      /\ StoredFiles' = IF Attached THEN Files ELSE StoredFiles
  BY <1>1, SaveChanges
<1>3. call' = Store!NoCall
  BY DEF NoCall, Call, Store!NoCall, Store!Call
<1> QED BY <1>1, <1>2, <1>3
        DEF Answer, Store!Ready, Store!Change, Store!SaveAll, Store!Next, Step

LEMMA RebootImplements ==
  ASSUME Reboot, call' = NoCall
  PROVE  Step
<1>1. /\ pc = "shell" /\ pc' = "off" /\ UNCHANGED disk
      /\ reply' = NoReply /\ Mode = "ready"
  BY Commanding DEF Reboot, PowerDown
<1>2. Mode' = "off" /\ ~Saving' /\ ~Saving
  BY <1>1 DEF Mode, Saving
<1>3. Files' = <<>> /\ Attached' = FALSE /\ StoredFiles' = StoredFiles
  BY <1>1, <1>2 DEF Files, Attached, StoredFiles, FilesOn
<1>4. call' = Store!NoCall /\ NoReply = Store!NoReply
  BY DEF NoCall, Call, Store!NoCall, Store!Call, NoReply, Store!NoReply
<1> QED BY <1>1, <1>2, <1>3, <1>4 DEF Store!None, Store!Reboot, Store!Next, Step

LEMMA CallImplements ==
  ASSUME Faults = {}, TypeOK, PassInv, CountMatches, StoreInv,
         [CallNext]_<<vars, call>>
  PROVE  Step
<1>1. CASE Program /\ UNCHANGED call
  BY <1>1, LoadHeaderImplements, CheckMagicImplements, LoadDataImplements,
     ReadmeImplements, SaveHeaderImplements, SaveDataImplements DEF Program
<1>2. CASE (\E drive \in BOOLEAN : Boot(drive)) /\ UNCHANGED call
  BY <1>2, BootImplements
<1>3. CASE (FsListFiles \/ SaveCommand \/ Reboot) /\ call' = NoCall
  BY <1>3, ListImplements, SaveImplements, RebootImplements
<1>4. ASSUME NEW n \in Names \cup {EmptyName},
             \/ FsDeleteFile(n) /\ call' = Call("delete", n, <<>>)
             \/ FsReadFile(n)   /\ call' = Call("read", n, <<>>)
      PROVE  Step
  BY <1>4, DeleteImplements, ReadImplements
<1>5. ASSUME NEW n \in Names, NEW c \in Contents,
             FsCreateFile(n, c) /\ call' = Call("create", n, c)
      PROVE  Step
  BY <1>5, CreateImplements
<1>6. CASE UNCHANGED <<vars, call>>
  <2>1. /\ Files' = Files /\ StoredFiles' = StoredFiles /\ Attached' = Attached
        /\ Mode' = Mode
    BY <1>6 DEF vars, Files, StoredFiles, FilesOn, Attached, Mode, Saving
  <2> QED BY <1>6, <2>1, Unseen DEF vars
<1> QED BY <1>1, <1>2, <1>3, <1>4, <1>5, <1>6 DEF CallNext

(* While the drive works, SzymFS is a map from names to contents: what is  *)
(* read back was written last, under that name, whatever slots, sectors    *)
(* and counts lie behind it; a boot finds on the drive what the commands   *)
(* left; and a drive without the magic, whatever it holds, starts empty.   *)
THEOREM StoreCorrect ==
  ASSUME Faults = {}, LongNames = {}, MAX_FILES < COUNT_MOD, OwnDrives
  PROVE  CallSpec => ImplementsFileStore
<1>1. CountedDrives /\ Prompt
  BY DEF OwnDrives, CountedDrives, Prompt
<1>2. CallInit => Init /\ StoreInv /\ Store!Init
  <2> SUFFICES ASSUME CallInit PROVE Init /\ StoreInv /\ Store!Init
    OBVIOUS
  <2>1. Init
    BY DEF CallInit
  <2>2. StoreInv
    BY <2>1 DEF Init, StoreInv, Mounted, OwnDrives
  <2>3. Mode = "off" /\ ~Saving
    BY <2>1 DEF Init, Mode, Saving
  <2>4. /\ Files = <<>> /\ Attached = FALSE
        /\ StoredFiles \in {FilesOn(d) : d \in InitDisks}
    BY <2>1, <2>3 DEF Init, Files, Attached, StoredFiles
  <2>5. call = Store!NoCall /\ reply = Store!NoReply
    BY <2>1 DEF CallInit, Init, NoCall, Call, Store!NoCall, Store!Call, NoReply,
                Store!NoReply
  <2> QED BY <2>1, <2>2, <2>3, <2>4, <2>5 DEF Store!Init, Store!None
<1>3. [CallNext]_<<vars, call>> => [Next]_vars
  BY DEF CallNext, Next, User
<1>4. CallSpec => Spec
  BY <1>2, <1>3, PTL DEF CallSpec, Spec
<1>5. Spec => []TypeOK /\ []CountMatches
  BY <1>1, TypeCorrect, CountCorrect, PTL
<1>6. TypeOK /\ PassInv /\ [Next]_vars => PassInv'
  BY <1>1, PassStep
<1>7. TypeOK /\ PassInv /\ StoreInv /\ [Next]_vars => StoreInv'
  BY StoreStep
<1>8. TypeOK /\ PassInv /\ StoreInv /\ CountMatches /\ [CallNext]_<<vars, call>>
        => [Store!Next]_Store!vars
  BY CallImplements DEF Step
<1> QED
  BY <1>2, <1>3, <1>4, <1>5, <1>6, <1>7, <1>8, PassInit, PTL
  DEF CallSpec, ImplementsFileStore, Store!Spec
=============================================================================
