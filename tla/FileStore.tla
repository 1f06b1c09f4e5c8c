------------------------------ MODULE FileStore ------------------------------
(***************************************************************************)
(* What SzymFS promises its callers while the drive works: a map from      *)
(* names to contents that every command reads or changes at once, and that *)
(* the drive keeps between boots when one was selected.  No sectors, no    *)
(* slots, no counter.                                                      *)
(***************************************************************************)
EXTENDS Integers, Sequences, FiniteSets

CONSTANTS
  Names,          \* the names callers give to files
  Asked,          \* the names they ask for
  Contents,       \* what they store
  Capacity,       \* how many files fit
  Room,           \* how long a file may be
  README, README_TEXT,
  InitStored      \* what the drive may hold at first

VARIABLES
  files,    \* the files the commands see
  stored,   \* the files the drive will give back at the next boot
  attached, \* a drive was selected at this boot
  mode,     \* "off", "mounted" (before README.txt is looked for), "ready"
  call,     \* the last command, with what it was given
  reply     \* the answer to it

vars == <<files, stored, attached, mode, call, reply>>

None == <<>>
Call(op, n, c) == [op |-> op, name |-> n, text |-> c]
NoCall == Call("none", README, <<>>)
NoReply == [op |-> "done", code |-> 0, text |-> <<>>, names |-> {}]

Init ==
  /\ files = None /\ stored \in InitStored
  /\ attached = FALSE /\ mode = "off"
  /\ call = NoCall /\ reply = NoReply

Mount(drive) ==
  /\ mode = "off"
  /\ mode' = "mounted" /\ attached' = drive
  /\ files' = IF drive THEN stored ELSE None
  /\ UNCHANGED <<stored, call, reply>>

Change(new) ==
  /\ files' = new
  /\ stored' = IF attached THEN new ELSE stored

Put(n, c) ==
  Change([m \in DOMAIN files \cup {n} |-> IF m = n THEN c ELSE files[m]])

Fits(c) == Cardinality(DOMAIN files) < Capacity /\ Len(c) <= Room

(* README.txt exists when the first command runs, unless every slot is     *)
(* taken by other files.                                                   *)
FirstBoot ==
  /\ mode = "mounted" /\ mode' = "ready"
  /\ \/ README \notin DOMAIN files /\ Fits(README_TEXT) /\ Put(README, README_TEXT)
     \/ /\ README \in DOMAIN files \/ ~Fits(README_TEXT)
        /\ UNCHANGED <<files, stored>>
  /\ UNCHANGED <<attached, call, reply>>

Ready(op, code, text, names) ==
  /\ mode = "ready"
  /\ reply' = [op |-> op, code |-> code, text |-> text, names |-> names]
  /\ UNCHANGED <<attached, mode>>

Create(n, c) ==
  /\ call' = Call("create", n, c)
  /\ \/ /\ Ready("done", 0, <<>>, {})
        /\ n \notin DOMAIN files /\ Fits(c) /\ Put(n, c)
     \/ /\ Ready("done", -2, <<>>, {}) /\ n \in DOMAIN files
        /\ UNCHANGED <<files, stored>>
     \/ /\ Ready("done", -3, <<>>, {})
        /\ n \notin DOMAIN files /\ Cardinality(DOMAIN files) >= Capacity
        /\ UNCHANGED <<files, stored>>
     \/ /\ Ready("done", -4, <<>>, {})
        /\ n \notin DOMAIN files /\ Cardinality(DOMAIN files) < Capacity
        /\ Len(c) > Room
        /\ UNCHANGED <<files, stored>>

Delete(n) ==
  /\ call' = Call("delete", n, <<>>)
  /\ \/ /\ Ready("done", 0, <<>>, {})
        /\ n \in DOMAIN files
        /\ Change([m \in DOMAIN files \ {n} |-> files[m]])
     \/ /\ Ready("done", -1, <<>>, {}) /\ n \notin DOMAIN files
        /\ UNCHANGED <<files, stored>>

Read(n) ==
  /\ call' = Call("read", n, <<>>)
  /\ IF n \in DOMAIN files THEN Ready("read", 0, files[n], {})
                           ELSE Ready("read", -1, <<>>, {})
  /\ UNCHANGED <<files, stored>>

List ==
  /\ call' = NoCall
  /\ Ready("list", 0, <<>>, DOMAIN files) /\ UNCHANGED <<files, stored>>

SaveAll ==
  /\ call' = NoCall
  /\ Ready("done", 0, <<>>, {}) /\ Change(files)

Reboot ==
  /\ mode = "ready" /\ mode' = "off"
  /\ files' = None /\ attached' = FALSE
  /\ call' = NoCall /\ reply' = NoReply
  /\ UNCHANGED stored

Next ==
  \/ \E drive \in BOOLEAN : Mount(drive)
  \/ FirstBoot \/ List \/ SaveAll \/ Reboot
  \/ \E n \in Asked : Delete(n) \/ Read(n)
  \/ \E n \in Names, c \in Contents : Create(n, c)

Spec == Init /\ [][Next]_vars
=============================================================================
