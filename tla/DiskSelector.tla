---------------------------- MODULE DiskSelector ----------------------------
(***************************************************************************)
(* kernel/disk_selector.c and the boot around it: detect the drives, let   *)
(* the user pick one key by key (a fixed disk only after a second          *)
(* question), bind the filesystem to it, and go on to the shell, whose     *)
(* "disks" command detects again while the filesystem stays bound.         *)
(***************************************************************************)
EXTENDS AtaDriver

VARIABLES
  pc,         \* "start", "detect", "anyKey", "menu", "confirm", "shell"
  after,      \* where ata_detect_drives returns to: "selector" or "shell"
  selection,  \* the index typed at the menu
  fs_drive,   \* fs_drive_io_base and fs_drive_num
  fs_drive_selected,
  picked,     \* history: the place listed at the index the user typed last
  confirmed   \* history: the fixed drives the user said yes to

vars == <<ataVars, pc, after, selection, fs_drive, fs_drive_selected,
          picked, confirmed>>

Digits == 0 .. 9
Keys   == {"n", "N", "y", "Y", "other"}

Init ==
  /\ AtaStart
  /\ pc = "start" /\ after = "selector" /\ selection = 0
  /\ fs_drive = NoPlace /\ fs_drive_selected = FALSE
  /\ picked = NoPlace /\ confirmed = {}

Unbound == UNCHANGED <<fs_drive, fs_drive_selected>>

Start ==
  /\ pc = "start" /\ ata_init
  /\ pc' = "detect"
  /\ UNCHANGED <<after, selection, picked, confirmed>> /\ Unbound

(* The last probe returns to disk_selector_run, which looks at the count.  *)
Detect ==
  /\ pc = "detect"
  /\ \E found \in BOOLEAN : Probe(found)
  /\ pc' = IF probe # Len(Probes) THEN "detect"
           ELSE IF after = "shell" THEN "shell"
           ELSE IF drive_count' = 0 THEN "anyKey" ELSE "menu"
  /\ UNCHANGED <<after, selection, picked, confirmed>> /\ Unbound

AnyKey ==
  /\ pc = "anyKey" /\ pc' = "shell"
  /\ UNCHANGED <<ataVars, after, selection, picked, confirmed>> /\ Unbound

RamOnly(key) ==
  /\ pc = "menu" /\ key \in {"n", "N"}
  /\ pc' = "shell"
  /\ UNCHANGED <<ataVars, after, selection, picked, confirmed>> /\ Unbound

(* fs_set_drive_info copies the place out of the table.                    *)
Bind(i) ==
  \/ /\ SelectDrive(i)
     /\ fs_drive' = drives[i].place /\ fs_drive_selected' = TRUE
  \/ UNCHANGED ataVars /\ Unbound

NeedsYes_Inverted(i) == drives[i].is_removable
NeedsYes(i)          == ~drives[i].is_removable

(* A digit past the last drive asks again; keys of no meaning are ignored. *)
Pick(digit) ==
  /\ pc = "menu" /\ digit < drive_count
  /\ selection' = digit /\ picked' = drives[digit].place
  /\ IF NeedsYes(digit)
     THEN pc' = "confirm" /\ UNCHANGED ataVars /\ Unbound
     ELSE pc' = "shell" /\ Bind(digit)
  /\ UNCHANGED <<after, confirmed>>

Confirm(key) ==
  /\ pc = "confirm"
  /\ IF key \in {"y", "Y"}
     THEN /\ confirmed' = confirmed \cup {picked}
          /\ pc' = "shell" /\ Bind(selection)
     ELSE /\ pc' = "menu"
          /\ UNCHANGED <<ataVars, confirmed>> /\ Unbound
  /\ UNCHANGED <<after, selection, picked>>

(* The shell's "disks" command.                                            *)
Disks ==
  /\ pc = "shell"
  /\ StartDetection
  /\ pc' = "detect" /\ after' = "shell"
  /\ UNCHANGED <<selection, picked, confirmed>> /\ Unbound

Next ==
  \/ Start \/ Detect \/ AnyKey \/ Disks
  \/ \E key \in Keys : RamOnly(key) \/ Confirm(key)
  \/ \E digit \in Digits : Pick(digit)

Spec == Init /\ [][Next]_vars

-----------------------------------------------------------------------------
(* The drive that fs_read_sector_direct and fs_write_sector_direct         *)
(* address.                                                                *)
Target_ByIndex == drives[selected_drive].place
Target         == fs_drive

(* Every variable keeps its type; no probe writes past the table.          *)
TypeOK ==
  /\ drives \in [Indices -> Device]
  /\ drive_count \in {-999} \cup 0 .. MAX_DRIVES
  /\ selected_drive \in {-999, -1} \cup Indices
  /\ probe \in 0 .. MAX_DRIVES
  /\ probe # 0 => drive_count < probe
  /\ pc \in {"start", "detect", "anyKey", "menu", "confirm", "shell"}
  /\ (pc = "detect") = (probe # 0)
  /\ after \in {"selector", "shell"}
  /\ selection \in Digits
  /\ pc = "confirm" => Selectable(selection)
  /\ fs_drive \in Place /\ fs_drive_selected \in BOOLEAN
  /\ picked \in Place /\ confirmed \subseteq Place

(* The filesystem reads and writes the drive the user picked, and a fixed  *)
(* one only if the user said yes to it, however often "disks" has probed   *)
(* again since and whatever answered.                                      *)
TargetIsChosen ==
  fs_drive_selected =>
    /\ Target = picked
    /\ Target \in Removable \cup confirmed

(* The two flags that decide whether there is a drive, one in ata.c and    *)
(* one in filesystem.c, agree: a save is never accepted by one and refused *)
(* by the other.                                                           *)
SelectionAgrees == ata_is_selected = fs_drive_selected

(* What the menu offers: the entries below drive_count hold a drive each,  *)
(* every drive at most once, in probing order, with its own removable bit  *)
(* (or what it gave for it, when disks probes a drive that owes a sector). *)
ListedInOrder ==
  \A i \in 0 .. drive_count - 1 :
    /\ drives[i].present
    /\ drives[i].is_removable = (drives[i].place \in Removable)
    /\ \E k \in DOMAIN Probes :
         /\ Probes[k] = drives[i].place
         /\ \A j \in 0 .. i - 1 : \A m \in k .. Len(Probes) :
              drives[j].place # Probes[m]
=============================================================================
