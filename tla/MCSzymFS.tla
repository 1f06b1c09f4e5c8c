------------------------------ MODULE MCSzymFS ------------------------------
(* Small instances of SzymFS.  A sector of 64 bytes gives the second of    *)
(* two entries the shape entries 11 and 23 have in the real layout: its    *)
(* name straddles a sector boundary, and nothing else does.                *)
EXTENDS SzymFS

(* The real layout (512-byte sectors, 32 entries): three header sectors,   *)
(* and entries 11 and 23 straddle, in the name only.                       *)
ASSUME RealLayout ==
  LET Byte(s)   == 8 + 44 * s
      Sector(b) == b \div 512
  IN  /\ Sector(Byte(32) - 1) = 2
      /\ {s \in 0 .. 31 : Sector(Byte(s)) # Sector(Byte(s) + 31)} = {11, 23}
      /\ \A s \in 0 .. 31 : Sector(Byte(s) + 31) = Sector(Byte(s) + 43)
      /\ 32 * 4096 = 256 * 512

MCPart      == {"R", "a", "p", "q"}
MCShortPart == {"R", "a"}
MCREADME    == [lo |-> "R", hi |-> "0"]
MCShort     == [lo |-> "a", hi |-> "0"]
MCLong      == [lo |-> "p", hi |-> "q"]
MCAllShort  == {"R", "a", "p"}
MCShortNames == {MCREADME, MCShort, [lo |-> "p", hi |-> "0"]}
MCOneName   == {MCREADME}
MCTwoNames  == {MCREADME, MCLong}
MCTooLong   == {[lo |-> "p", hi |-> "q", tail |-> "a"]}
MCTrunc     == [n \in MCTooLong |-> MCLong]
MCNoTrunc   == <<>>

MCText1     == <<"B">>
MCOneText   == {<<"B">>}
MCContents2 == {<<"A">>, <<"B">>}
MCContents3 == {<<"A">>, <<"B">>, <<"A", "A">>}

Junk == [lo |-> "q", hi |-> "p", size |-> 3, offset |-> 9, used |-> TRUE]
EmptyEntry == [lo |-> NUL, hi |-> NUL, size |-> 0, offset |-> 0, used |-> FALSE]

(* A drive never used before, one that held other data, and one that       *)
(* already holds a filesystem with one file.                               *)
ZeroDisk ==
  [hdr |-> [EmptyHeader EXCEPT !.magic = FALSE], data |-> ZeroData]
ForeignDisk ==
  [hdr  |-> [magic |-> FALSE, file_count |-> 2 % COUNT_MOD, files |-> [s \in Slots |-> Junk]],
   data |-> [i \in DataSectors |-> "B"]]
OldDisk ==
  [hdr  |-> [magic |-> TRUE, file_count |-> 1 % COUNT_MOD,
             files |-> [s \in Slots |->
               IF s = MAX_FILES - 1 THEN [lo |-> "p", hi |-> "q", size |-> 1,
                              offset |-> s * MAX_FILE_SIZE, used |-> TRUE]
                        ELSE EmptyEntry]],
   data |-> [i \in DataSectors |-> "B"]]

(* A header sector taken for another one, or for data: entries that are    *)
(* not in use, and entries that are, with bytes of names for their fields. *)
MCStrays ==
  {[hdr |-> [magic |-> FALSE, file_count |-> 1 % COUNT_MOD, files |-> [s \in Slots |-> e]],
    data |-> [i \in DataSectors |-> ZERO]] : e \in {EmptyEntry, Junk}}

MCJunkStrays == {img \in MCStrays : UsedSlots(img.hdr) # {}}

MCOwnDisks   == {ZeroDisk, OldDisk}
MCForeignDisk == {ForeignDisk}
MCZeroDisk   == {ZeroDisk}
=============================================================================
