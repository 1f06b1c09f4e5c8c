------------------------------ MODULE AtaDriver ------------------------------
(***************************************************************************)
(* kernel/ata.c: the table of drives that answered IDENTIFY, in the order  *)
(* they were probed, and the index of the one selected.  The table is      *)
(* filled at boot and filled again, from the start, by the shell's "disks" *)
(* command; the selected index is set once and never adjusted.             *)
(*                                                                         *)
(* Whether a drive answers a probe (it is there, reports no error, raises  *)
(* DRQ within the polls ata_identify allows it) is up to the hardware, and *)
(* may differ from one detection to the next.  The words it answers with   *)
(* are taken to be its identification: at boot no drive owes another       *)
(* sector, but after disks one that does (AtaPio) may give that instead.   *)
(***************************************************************************)
EXTENDS Integers, Sequences, FiniteSets

CONSTANTS
  Probes,     \* the places ata_detect_drives tries, in its order
  Removable   \* the places whose drive sets the removable-media bit

NoPlace    == [io_base |-> "none", drive |-> 0]
Place      == {Probes[k] : k \in DOMAIN Probes} \cup {NoPlace}
MAX_DRIVES == Len(Probes)
Indices    == 0 .. MAX_DRIVES - 1

ASSUME ProbesAssumption ==
  /\ Probes \in Seq([io_base : {"primary", "secondary"}, drive : 0 .. 1])
  /\ MAX_DRIVES > 0
  /\ \A j, k \in DOMAIN Probes : Probes[j] = Probes[k] => j = k
  /\ Removable \subseteq Place \ {NoPlace}

VARIABLES
  drives,         \* the table: place, present, is_removable
  drive_count,    \* entries of it that count
  selected_drive, \* the index selected, or -1
  probe           \* the probe ata_detect_drives is at, 0 outside it

ataVars == <<drives, drive_count, selected_drive, probe>>

Device == [place : Place, present : BOOLEAN, is_removable : BOOLEAN]

(* Static storage: the table is zero, the two counters are -999.           *)
AtaStart ==
  /\ drives = [i \in Indices |->
       [place |-> NoPlace, present |-> FALSE, is_removable |-> FALSE]]
  /\ drive_count = -999 /\ selected_drive = -999 /\ probe = 0

(* ata_init, then into the first probe of ata_detect_drives.               *)
ata_init ==
  /\ drives' = [i \in Indices |->
       [drives[i] EXCEPT !.place = NoPlace, !.present = FALSE]]
  /\ drive_count' = 0 /\ selected_drive' = -1 /\ probe' = 1

StartDetection ==
  /\ drive_count' = 0 /\ probe' = 1
  /\ UNCHANGED <<drives, selected_drive>>

(* ata_identify fills the next free entry with the place it tries before   *)
(* it knows whether a drive is there.                                      *)
Identified_PresentFirst(entry, place, found) ==
  IF found THEN [place |-> place, present |-> TRUE,
                 is_removable |-> entry.is_removable]
           ELSE [entry EXCEPT !.place = place, !.present = FALSE]

Identified(entry, place, found) ==
  IF found THEN [place |-> place, present |-> TRUE,
                 is_removable |-> place \in Removable]
           ELSE [entry EXCEPT !.place = place, !.present = FALSE]

(* Only a probe that found a drive moves on to the next entry.             *)
CountAfter_Always(found) == drive_count + 1
CountAfter(found)        == IF found THEN drive_count + 1 ELSE drive_count

Probe(found) ==
  /\ probe # 0
  /\ drives' = [drives EXCEPT ![drive_count] =
                  Identified(@, Probes[probe], found)]
  /\ drive_count' = CountAfter(found)
  /\ probe' = IF probe = Len(Probes) THEN 0 ELSE probe + 1
  /\ UNCHANGED selected_drive

(* ata_select_drive: the tests on the index and the entry, then the drive  *)
(* must come out of BSY and be ready.                                      *)
Selectable(i) == i \in 0 .. drive_count - 1 /\ drives[i].present

SelectDrive(i) ==
  /\ Selectable(i)
  /\ selected_drive' = i
  /\ UNCHANGED <<drives, drive_count, probe>>

ata_is_selected_ByCount == drive_count > 0
ata_is_selected         == selected_drive >= 0
=============================================================================
