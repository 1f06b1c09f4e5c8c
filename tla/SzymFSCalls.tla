----------------------------- MODULE SzymFSCalls -----------------------------
(***************************************************************************)
(* What SzymFS is to its callers: the commands with what they were given,  *)
(* and the map from names to contents an image stands for.                 *)
(***************************************************************************)
EXTENDS SzymFS

(* SzymFS with one more history variable, the last command with what it    *)
(* was given: without it an answer could not be held against its question. *)
(* The drive works: it gives up nothing, and nothing cuts a call short.    *)
VARIABLE call

Call(op, n, c) == [op |-> op, name |-> n, text |-> c]
NoCall         == Call("none", README, <<>>)

CallInit == Init /\ call = NoCall
CallNext ==
  \/ (Program \/ \E drive \in BOOLEAN : Boot(drive)) /\ UNCHANGED call
  \/ (FsListFiles \/ SaveCommand \/ Reboot) /\ call' = NoCall
  \/ \E n \in Names \cup {EmptyName} :
       \/ FsDeleteFile(n) /\ call' = Call("delete", n, <<>>)
       \/ FsReadFile(n)   /\ call' = Call("read", n, <<>>)
  \/ \E n \in Names, c \in Contents :
       FsCreateFile(n, c) /\ call' = Call("create", n, c)
CallSpec == CallInit /\ [][CallNext]_<<vars, call>>

(* The map an image stands for: each name to the file the search stops at. *)
FileMap(h, d) ==
  LET used == UsedSlots(h)
  IN  [n \in {StoredName(h.files[s]) : s \in used} |->
         FileText(h, d, CHOOSE s \in used : IsFirst(s, Matching(h, n)))]

Saving == pc \in {"saveHeader", "saveData"}
Mode ==
  CASE pc = "loaded" -> "mounted"
    [] pc = "shell" \/ (Saving /\ back = "shell") -> "ready"
    [] OTHER -> "off"

(* What the commands see; what the next boot will find, a save under way   *)
(* being as good as finished, for nothing stops it; and whether the        *)
(* commands' changes go to the drive.                                      *)
Files       == IF Mode = "off" THEN <<>> ELSE FileMap(hdr, data)
FilesOn(d)  == IF d.hdr.magic THEN FileMap(d.hdr, d.data) ELSE <<>>
StoredFiles == IF Saving THEN FileMap(hdr, data) ELSE FilesOn(disk)
Attached    == IF Mode = "off" THEN FALSE ELSE selected

Store == INSTANCE FileStore WITH
  Capacity   <- MAX_FILES,
  Room       <- MAX_FILE_SIZE,
  Asked      <- Names \cup {EmptyName},
  InitStored <- {FilesOn(d) : d \in InitDisks},
  files      <- Files,
  stored     <- StoredFiles,
  attached   <- Attached,
  mode       <- Mode

(* While the drive works, every command and every boot of SzymFS is one    *)
(* step of FileStore: what is read back is what was written last, what is  *)
(* deleted is gone, and the next boot finds the same files.                *)
ImplementsFileStore == Store!Spec
=============================================================================
