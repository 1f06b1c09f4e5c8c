------------------------- MODULE DiskSelector_proofs -------------------------
(* Theorems about DiskSelector for every table of places to probe, every   *)
(* set of removable drives and whatever answers a probe.                   *)
EXTENDS DiskSelector, TLAPS

-----------------------------------------------------------------------------
(* Types.  The table has room for the probe under way because an entry is  *)
(* counted at most once per probe; the count is only -999 before ata_init. *)

TypeInv == TypeOK /\ (pc # "start" => drive_count >= 0)

LEMMA ProbesFacts ==
  /\ MAX_DRIVES \in Nat \ {0} /\ MAX_DRIVES = Len(Probes)
  /\ Indices = 0 .. MAX_DRIVES - 1
  /\ DOMAIN Probes = 1 .. MAX_DRIVES
  /\ \A k \in 1 .. MAX_DRIVES : Probes[k] \in Place
  /\ NoPlace \in Place
BY ProbesAssumption DEF MAX_DRIVES, Indices, Place

LEMMA EntryTypes ==
  ASSUME NEW e \in Device, NEW p \in Place
  PROVE  /\ [e EXCEPT !.place = p, !.present = FALSE] \in Device
         /\ [place |-> p, present |-> TRUE,
             is_removable |-> p \in Removable] \in Device
<1>1. [e EXCEPT !.place = p, !.present = FALSE] \in Device
  BY DEF Device
<1>2. (p \in Removable) \in BOOLEAN
  OBVIOUS
<1>3. [place |-> p, present |-> TRUE,
       is_removable |-> p \in Removable] \in Device
  BY <1>2, Zenon DEF Device
<1> QED BY <1>1, <1>3

(* Where a probe writes, and what it leaves alone.                         *)
LEMMA ProbeWrites ==
  ASSUME TypeInv, pc = "detect", NEW found \in BOOLEAN, Probe(found)
  PROVE  /\ probe \in 1 .. MAX_DRIVES
         /\ drive_count \in Indices /\ drive_count < probe
         /\ drives' \in [Indices -> Device]
         /\ \A i \in Indices \ {drive_count} : drives'[i] = drives[i]
         /\ found => drives'[drive_count] =
              [place |-> Probes[probe], present |-> TRUE,
               is_removable |-> Probes[probe] \in Removable]
         /\ drive_count' = IF found THEN drive_count + 1 ELSE drive_count
         /\ probe' = IF probe = MAX_DRIVES THEN 0 ELSE probe + 1
<1>1. /\ probe \in 1 .. MAX_DRIVES /\ drive_count \in Indices
      /\ drive_count < probe /\ drives \in [Indices -> Device]
  BY ProbesFacts DEF TypeInv, TypeOK
<1>2. Identified(drives[drive_count], Probes[probe], found) \in Device
  <2>1. drives[drive_count] \in Device /\ Probes[probe] \in Place
    BY <1>1, ProbesFacts
  <2> QED BY <2>1, EntryTypes DEF Identified
<1>3. drives' = [drives EXCEPT ![drive_count] =
                   Identified(drives[drive_count], Probes[probe], found)]
  BY DEF Probe
<1>4. /\ drives' \in [Indices -> Device]
      /\ \A i \in Indices \ {drive_count} : drives'[i] = drives[i]
      /\ drives'[drive_count]
           = Identified(drives[drive_count], Probes[probe], found)
  BY <1>1, <1>2, <1>3
<1> QED BY <1>1, <1>4, ProbesFacts DEF Identified, Probe, CountAfter

LEMMA TypeInit == Init => TypeInv
<1> SUFFICES ASSUME Init PROVE TypeInv
  OBVIOUS
<1>1. [place |-> NoPlace, present |-> FALSE, is_removable |-> FALSE] \in Device
  BY ProbesFacts DEF Device
<1>2. drives \in [Indices -> Device]
  BY <1>1 DEF Init, AtaStart
<1>3. /\ drive_count = -999 /\ selected_drive = -999 /\ probe = 0
      /\ pc = "start" /\ after = "selector" /\ selection = 0
      /\ fs_drive = NoPlace /\ fs_drive_selected = FALSE
      /\ picked = NoPlace /\ confirmed = {}
  BY DEF Init, AtaStart
<1>4. /\ drive_count \in {-999} \cup 0 .. MAX_DRIVES
      /\ selected_drive \in {-999, -1} \cup Indices
      /\ probe \in 0 .. MAX_DRIVES /\ selection \in Digits
  BY <1>3, ProbesFacts DEF Digits
<1>5. /\ probe = 0 /\ pc = "start" /\ after = "selector"
      /\ fs_drive \in Place /\ fs_drive_selected \in BOOLEAN
      /\ picked \in Place /\ confirmed \subseteq Place
  BY <1>3, ProbesFacts
<1> QED BY <1>2, <1>4, <1>5 DEF TypeInv, TypeOK

(* The table at the end of a detection is the one at its last probe.       *)
LEMMA TypeDetect ==
  ASSUME TypeInv, Detect
  PROVE  TypeInv'
<1>1. PICK found \in BOOLEAN : Probe(found)
  BY DEF Detect
<1>2. pc = "detect"
  BY DEF Detect
<1>3. /\ drives' \in [Indices -> Device]
      /\ probe' \in 0 .. MAX_DRIVES /\ drive_count' \in 0 .. MAX_DRIVES
      /\ probe' # 0 => drive_count' < probe'
      /\ (probe' = 0) = (probe = MAX_DRIVES)
  BY <1>1, <1>2, ProbeWrites, ProbesFacts
<1>4. selected_drive' = selected_drive
  BY <1>1 DEF Probe
<1>5. pc' \in {"detect", "shell", "anyKey", "menu"}
      /\ (pc' = "detect") = (probe' # 0)
  BY <1>3, ProbesFacts DEF Detect
<1> QED BY <1>3, <1>4, <1>5 DEF TypeInv, TypeOK, Detect, Unbound

LEMMA BindTypes ==
  ASSUME TypeInv, NEW i, Selectable(i), Bind(i)
  PROVE  /\ UNCHANGED <<drives, drive_count, probe>>
         /\ selected_drive' \in {-999, -1} \cup Indices
         /\ fs_drive' \in Place /\ fs_drive_selected' \in BOOLEAN
<1>1. i \in Indices
  BY ProbesFacts DEF Selectable, TypeInv, TypeOK
<1>2. drives[i].place \in Place
  BY <1>1 DEF TypeInv, TypeOK, Device
<1>3. CASE SelectDrive(i) /\ fs_drive' = drives[i].place
           /\ fs_drive_selected' = TRUE
  BY <1>1, <1>2, <1>3 DEF SelectDrive
<1>4. CASE UNCHANGED ataVars /\ Unbound
  BY <1>4 DEF Unbound, ataVars, TypeInv, TypeOK
<1> QED BY <1>3, <1>4 DEF Bind

LEMMA TypeStep ==
  ASSUME TypeInv, ListedInOrder, [Next]_vars
  PROVE  TypeInv'
<1>1. CASE Start
  <2>1. NoPlace \in Place /\ drives \in [Indices -> Device]
    BY ProbesFacts DEF TypeInv, TypeOK
  <2>2. drives' \in [Indices -> Device]
    BY <1>1, <2>1, EntryTypes DEF Start, ata_init
  <2>3. /\ drive_count' = 0 /\ selected_drive' = -1 /\ probe' = 1
        /\ pc' = "detect" /\ Unbound
        /\ UNCHANGED <<after, selection, picked, confirmed>>
    BY <1>1 DEF Start, ata_init
  <2> QED BY <2>2, <2>3, ProbesFacts DEF Unbound, TypeInv, TypeOK
<1>2. CASE Detect
  BY <1>2, TypeDetect
<1>3. CASE AnyKey
  BY <1>3 DEF AnyKey, Unbound, ataVars, TypeInv, TypeOK, Selectable
<1>4. CASE Disks
  BY <1>4, ProbesFacts
  DEF Disks, StartDetection, Unbound, TypeInv, TypeOK, Selectable
<1>5. ASSUME NEW key \in Keys, RamOnly(key) PROVE TypeInv'
  BY <1>5 DEF RamOnly, Unbound, ataVars, TypeInv, TypeOK, Selectable
<1>6. ASSUME NEW key \in Keys, Confirm(key) PROVE TypeInv'
  <2>1. Selectable(selection)
    BY <1>6 DEF Confirm, TypeInv, TypeOK
  <2>2. CASE key \in {"y", "Y"}
    BY <1>6, <2>1, <2>2, BindTypes DEF Confirm, TypeInv, TypeOK
  <2>3. CASE key \notin {"y", "Y"}
    BY <1>6, <2>3 DEF Confirm, Unbound, ataVars, TypeInv, TypeOK, Selectable
  <2> QED BY <2>2, <2>3
<1>7. ASSUME NEW digit \in Digits, Pick(digit) PROVE TypeInv'
  <2>1. Selectable(digit)
    BY <1>7 DEF Pick, Selectable, ListedInOrder, TypeInv, TypeOK, Digits
  <2>2. digit \in Indices
    BY <2>1, ProbesFacts DEF Selectable, TypeInv, TypeOK
  <2>3. picked' \in Place
    BY <1>7, <2>2 DEF Pick, TypeInv, TypeOK, Device
  <2>4. CASE NeedsYes(digit)
    BY <1>7, <2>1, <2>3, <2>4
    DEF Pick, Unbound, ataVars, TypeInv, TypeOK, Selectable
  <2>5. CASE ~NeedsYes(digit)
    BY <1>7, <2>1, <2>3, <2>5, BindTypes DEF Pick, TypeInv, TypeOK
  <2> QED BY <2>4, <2>5
<1>8. CASE UNCHANGED vars
  BY <1>8 DEF vars, ataVars, TypeInv, TypeOK, Selectable
<1> QED BY <1>1, <1>2, <1>3, <1>4, <1>5, <1>6, <1>7, <1>8 DEF Next
-----------------------------------------------------------------------------
(* The list.  Each entry that counts was found by a probe before the one   *)
(* under way, and by a later one than the entries before it.               *)

FoundBy(i, k) ==
  /\ Probes[k] = drives[i].place
  /\ \A j \in 0 .. i - 1 : \A m \in k .. Len(Probes) :
       drives[j].place # Probes[m]
Before(k) == probe # 0 => k < probe
Listed(i) ==
  /\ drives[i].present
  /\ drives[i].is_removable = (drives[i].place \in Removable)
  /\ \E k \in DOMAIN Probes : Before(k) /\ FoundBy(i, k)
ListInv == \A i \in 0 .. drive_count - 1 : Listed(i)

LEMMA ListMeans == ListInv => ListedInOrder
  BY DEF ListInv, Listed, FoundBy, ListedInOrder

(* A step that leaves the counted entries alone and ends no probe early.   *)
LEMMA ListKept ==
  ASSUME ListInv, UNCHANGED <<drives, drive_count, probe>>
  PROVE  ListInv'
  BY DEF ListInv, Listed, FoundBy, Before

LEMMA ListDetect ==
  ASSUME TypeInv, ListInv, Detect
  PROVE  ListInv'
<1>1. PICK found \in BOOLEAN : Probe(found)
  BY DEF Detect
<1>2. pc = "detect"
  BY DEF Detect
<1> PICK n \in Int, p \in Int : n = drive_count /\ p = probe
  BY <1>1, <1>2, ProbeWrites, ProbesFacts
<1>3. /\ p \in 1 .. MAX_DRIVES /\ n \in Indices
      /\ \A i \in Indices \ {n} : drives'[i] = drives[i]
      /\ found => drives'[n] = [place |-> Probes[p], present |-> TRUE,
                                is_removable |-> Probes[p] \in Removable]
      /\ drive_count' = IF found THEN n + 1 ELSE n
      /\ probe' = IF p = MAX_DRIVES THEN 0 ELSE p + 1
  BY <1>1, <1>2, ProbeWrites
<1>4. \A i \in 0 .. n - 1 : i \in Indices /\ drives'[i] = drives[i]
  BY <1>3, ProbesFacts
<1>5. \A k \in DOMAIN Probes : Before(k) => k < p /\ Before(k)'
  BY <1>3, ProbesFacts DEF Before
<1>6. ASSUME NEW i \in 0 .. n - 1 PROVE Listed(i)'
  <2>1. PICK k \in DOMAIN Probes : Before(k) /\ FoundBy(i, k)
    BY DEF ListInv, Listed
  <2>2. \A j \in 0 .. i : drives'[j] = drives[j]
    BY <1>3, <1>4, ProbesFacts
  <2>3. i \in 0 .. i /\ 0 .. i - 1 \subseteq 0 .. i
    BY <1>3, ProbesFacts
  <2>4. FoundBy(i, k)'
    BY <2>1, <2>2, <2>3 DEF FoundBy
  <2> QED BY <1>4, <1>5, <2>1, <2>4 DEF ListInv, Listed
<1>7. CASE found
  <2>1. FoundBy(n, p)'
    <3>1. ASSUME NEW j \in 0 .. n - 1, NEW m \in p .. Len(Probes)
          PROVE  drives'[j].place # Probes[m]
      <4>1. PICK k \in DOMAIN Probes : Before(k) /\ FoundBy(j, k)
        BY DEF ListInv, Listed
      <4>2. Probes[k] = drives'[j].place /\ k < p
        BY <1>4, <1>5, <4>1 DEF FoundBy
      <4>3. m \in DOMAIN Probes /\ k # m
        BY <1>3, <4>2, ProbesFacts
      <4> QED BY <4>2, <4>3, ProbesAssumption
    <3> QED BY <1>3, <1>7, <3>1 DEF FoundBy
  <2>2. p \in DOMAIN Probes /\ Before(p)'
    BY <1>3, ProbesFacts DEF Before
  <2>3. Listed(n)'
    BY <1>3, <1>7, <2>1, <2>2 DEF Listed
  <2>4. drive_count' = n + 1 /\ \A i \in 0 .. n : i = n \/ i \in 0 .. n - 1
    BY <1>3, <1>7, ProbesFacts
  <2> QED BY <1>6, <2>3, <2>4 DEF ListInv
<1>8. CASE ~found
  BY <1>3, <1>6, <1>8 DEF ListInv
<1> QED BY <1>7, <1>8

LEMMA ListStep ==
  ASSUME TypeInv, ListInv, [Next]_vars
  PROVE  ListInv'
<1>1. CASE Start
  <2>1. drive_count' = 0
    BY <1>1 DEF Start, ata_init
  <2> QED BY <2>1 DEF ListInv
<1>2. CASE Detect
  BY <1>2, ListDetect
<1>3. CASE AnyKey
  BY <1>3, ListKept DEF AnyKey, ataVars
<1>4. CASE Disks
  BY <1>4 DEF Disks, StartDetection, ListInv
<1>5. ASSUME NEW key \in Keys, RamOnly(key) PROVE ListInv'
  BY <1>5, ListKept DEF RamOnly, ataVars
<1>6. ASSUME NEW key \in Keys, Confirm(key) PROVE ListInv'
  BY <1>6, ListKept DEF Confirm, Bind, SelectDrive, ataVars
<1>7. ASSUME NEW digit \in Digits, Pick(digit) PROVE ListInv'
  BY <1>7, ListKept DEF Pick, Bind, SelectDrive, ataVars
<1>8. CASE UNCHANGED vars
  BY <1>8, ListKept DEF vars, ataVars
<1> QED BY <1>1, <1>2, <1>3, <1>4, <1>5, <1>6, <1>7, <1>8 DEF Next

LEMMA SelectorInit == Init => TypeInv /\ ListInv
  BY TypeInit DEF Init, AtaStart, ListInv

LEMMA SelectorStep == TypeInv /\ ListInv /\ [Next]_vars => (TypeInv /\ ListInv)'
  BY TypeStep, ListStep, ListMeans

(* Every variable keeps its type: no probe writes past the table, and the  *)
(* question about a fixed drive is asked about an entry that exists.       *)
THEOREM TypeCorrect == Spec => []TypeOK
<1>1. TypeInv => TypeOK
  BY DEF TypeInv
<1> QED BY <1>1, SelectorInit, SelectorStep, PTL DEF Spec

(* The menu offers each drive that answered once, in probing order, with   *)
(* its own removable bit, through any number of detections.                *)
THEOREM ListCorrect == Spec => []ListedInOrder
  BY ListMeans, SelectorInit, SelectorStep, PTL DEF Spec

-----------------------------------------------------------------------------
(* The binding.  A drive is bound at most once, on the way to the shell,   *)
(* from which no menu is reached: so nothing the user types later and no   *)
(* later detection can part what is bound from what was picked.            *)

Settled == pc = "shell" \/ (pc = "detect" /\ after = "shell")
BindInv ==
  /\ fs_drive_selected => Settled
  /\ pc = "confirm" => picked = drives[selection].place
  /\ SelectionAgrees
  /\ TargetIsChosen

(* The drive of an entry the menu offers that needs no second question.    *)
LEMMA NoQuestion ==
  ASSUME ListInv, NEW i, Selectable(i), ~NeedsYes(i)
  PROVE  drives[i].place \in Removable
  BY DEF NeedsYes, Selectable, ListInv, Listed

LEMMA BindBinds ==
  ASSUME TypeInv, BindInv, NEW i, Selectable(i), Bind(i), ~fs_drive_selected,
         picked' = drives[i].place, confirmed \subseteq confirmed',
         picked' \in Removable \cup confirmed', pc' = "shell"
  PROVE  BindInv'
<1>1. CASE SelectDrive(i) /\ fs_drive' = drives[i].place /\ fs_drive_selected'
  <2>1. selected_drive' >= 0
    BY <1>1 DEF SelectDrive, Selectable, TypeInv, TypeOK
  <2> QED BY <1>1, <2>1
          DEF BindInv, Settled, SelectionAgrees, ata_is_selected,
              TargetIsChosen, Target
<1>2. CASE UNCHANGED ataVars /\ Unbound
  BY <1>2 DEF Unbound, ataVars, BindInv, Settled, SelectionAgrees,
              ata_is_selected, TargetIsChosen, Target
<1> QED BY <1>1, <1>2 DEF Bind

LEMMA BindStep ==
  ASSUME TypeInv, ListInv, BindInv, [Next]_vars
  PROVE  BindInv'
<1> USE DEF BindInv, Settled, SelectionAgrees, ata_is_selected,
            TargetIsChosen, Target
<1>1. CASE Start
  <2>1. /\ pc = "start" /\ pc' = "detect" /\ selected_drive' = -1
        /\ fs_drive_selected' = fs_drive_selected
    BY <1>1 DEF Start, ata_init, Unbound
  <2>2. ~fs_drive_selected
    BY <2>1
  <2> QED BY <2>1, <2>2 DEF TypeInv, TypeOK
<1>2. CASE Detect
  BY <1>2 DEF Detect, Probe, Unbound
<1>3. CASE AnyKey
  BY <1>3 DEF AnyKey, Unbound, ataVars
<1>4. CASE Disks
  BY <1>4 DEF Disks, StartDetection, Unbound
<1>5. ASSUME NEW key \in Keys, RamOnly(key) PROVE BindInv'
  BY <1>5 DEF RamOnly, Unbound, ataVars
<1>6. ASSUME NEW key \in Keys, Confirm(key) PROVE BindInv'
  <2>1. Selectable(selection) /\ ~fs_drive_selected
        /\ picked = drives[selection].place
    BY <1>6 DEF Confirm, TypeInv, TypeOK
  <2>2. CASE key \in {"y", "Y"}
    <3> HIDE DEF BindInv
    <3> QED BY <1>6, <2>1, <2>2, BindBinds DEF Confirm
  <2>3. CASE key \notin {"y", "Y"}
    BY <1>6, <2>1, <2>3 DEF Confirm, Unbound, ataVars
  <2> QED BY <2>2, <2>3
<1>7. ASSUME NEW digit \in Digits, Pick(digit) PROVE BindInv'
  <2>1. Selectable(digit)
    BY <1>7 DEF Pick, Selectable, ListInv, Listed, TypeInv, TypeOK, Digits
  <2>2. ~fs_drive_selected
    BY <1>7 DEF Pick
  <2>3. CASE NeedsYes(digit)
    BY <1>7, <2>2, <2>3 DEF Pick, Unbound, ataVars
  <2>4. CASE ~NeedsYes(digit)
    <3>1. drives[digit].place \in Removable
      BY <2>1, <2>4, NoQuestion
    <3> HIDE DEF BindInv
    <3> QED BY <1>7, <2>1, <2>2, <2>4, <3>1, BindBinds DEF Pick
  <2> QED BY <2>3, <2>4
<1>8. CASE UNCHANGED vars
  BY <1>8 DEF vars, ataVars
<1> QED BY <1>1, <1>2, <1>3, <1>4, <1>5, <1>6, <1>7, <1>8 DEF Next

LEMMA BindInit == Init => BindInv
<1> SUFFICES ASSUME Init PROVE BindInv
  OBVIOUS
<1>1. /\ pc = "start" /\ fs_drive_selected = FALSE /\ selected_drive = -999
  BY DEF Init, AtaStart
<1>2. (selected_drive >= 0) = FALSE
  BY <1>1
<1>3. SelectionAgrees
  BY <1>1, <1>2 DEF SelectionAgrees, ata_is_selected
<1> QED BY <1>1, <1>3 DEF BindInv, TargetIsChosen

(* What the filesystem reads and writes is the drive the user picked, and  *)
(* a fixed one only after a yes, however often "disks" has probed since    *)
(* and whatever answered.                                                  *)
THEOREM TargetCorrect == Spec => []TargetIsChosen
<1>1. BindInv => TargetIsChosen
  BY DEF BindInv
<1>2. TypeInv /\ ListInv /\ BindInv /\ [Next]_vars => BindInv'
  BY BindStep
<1> QED BY <1>1, <1>2, BindInit, SelectorInit, SelectorStep, PTL DEF Spec

(* ata.c and filesystem.c agree at every step on whether there is a drive. *)
THEOREM AgreeCorrect == Spec => []SelectionAgrees
<1>1. BindInv => SelectionAgrees
  BY DEF BindInv
<1>2. TypeInv /\ ListInv /\ BindInv /\ [Next]_vars => BindInv'
  BY BindStep
<1> QED BY <1>1, <1>2, BindInit, SelectorInit, SelectorStep, PTL DEF Spec
=============================================================================
