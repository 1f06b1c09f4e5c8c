# SzymOS kernel: TLA+ models, checks and proofs

SzymOS is a small 32-bit x86 kernel: one thread, no interrupts (every device
is polled), a text console, a shell, and SzymFS, a filesystem of 32 slots kept
whole in RAM and rewritten whole to an ATA drive after every change.  What can
go wrong in it is therefore not a race of threads but what a drive that fails,
power that goes between two sectors, a drive table filled again under a
selected index, and long sequences of commands and boots do to it.  The models
aim there.

## 1. Inventory

| Part | Source | State | Operations | Interacts with |
|---|---|---|---|---|
| SzymFS | `kernel/filesystem.c/.h` | `fs_header` (magic, `file_count`, 32 entries), `fs_data`, `fs_persistent`, the drive it is bound to | `fs_init`, load, save, create, read, delete, list, exists | drive (ports), `ata_is_selected`, terminal |
| Sector transfer | `filesystem.c:21-93` | none | read, write one sector by polling | drive |
| ATA driver | `kernel/ata.c/.h` | `drives[]`, `drive_count`, `selected_drive` | init, detect, print, select | drive |
| Disk selector | `kernel/disk_selector.c` | the keys typed | `disk_selector_run` | ATA driver, SzymFS, keyboard |
| Boot | `kernel/kernel.c`, `boot/boot.asm` | none | detect, select, `fs_init`, README.txt, shell; panic | all |
| Shell | `kernel/shell.c` | `command_buffer`, `command_index` | line editing, 20 commands | all |
| Keyboard | `kernel/keyboard.c` | `shift_pressed`, `last_scancode` | `keyboard_getchar` | shell, selector |
| Terminal | `kernel/terminal.c` | screen, row, column, colour | putchar, printf, clear, scroll | all |
| Serial | `kernel/serial.h` | none | init with loopback, print, read | shell |
| Memory, CPU | `kernel/memory.c`, `cpu.c` | three numbers | print | shell |

Hard behaviours, and what makes each part correct:

- **SzymFS** — a save is hundreds of sector writes over the only copy, without
  a journal, header before data; names of entries 11 and 23 and the pair
  (`file_count`, entries) are spread over sectors; any sector may time out, be
  refused unnoticed, or not be read back; a drive may go on with a command that
  was given up on and take the next sector's words for it; RAM is lost at each
  boot.  Correct means: files saved and not deleted stay on the drive; success
  is reported only for what is on it; entries stay inside their slot; a name
  means one file; the count matches; every call ends; while the drive works,
  the whole is an atomic map that survives boots.
- **ATA driver and selector** — the table of drives is filled again by the
  `disks` command while an index into it stays selected; refusing a fixed disk
  re-enters the selector; selection may fail.  Correct means: the drive SzymFS
  writes to is the one the user picked, and a fixed one only after a yes; the
  two "is a drive selected" flags agree; the menu lists each drive once, in
  order, with its own attributes.
- **Sector transfer** — a drive may be slower than the loops that wait for it;
  it then goes on with a command that was given up on, and its channel has a
  second drive.  Correct means: a call that returns 0 moved its own sector, on
  its own drive; where the code cannot promise that, the one way it happens.
- **Shell and terminal** — what the screen shows is what Enter executes; what
  is parsed is what was typed; the numbers shown are right; a command returns.
- **Keyboard** — one flag for two shift keys, a filter that compares a code with
  the one before it only, keys that send 0xE0 before their code, keys that send
  the codes of a shift key themselves, characters that only one of the two maps
  has, and codes that wait while a command runs.  Correct means: a press gives
  one character in the right case.
- **Serial** — `serial_init` clears a port that may be at work and sends a test
  byte through it.  Correct means: bytes go out and come in once and in order;
  a command returns unless the port never answers.

`PROJECT.json` ("hazards") lists each hard point at its line with the
properties that watch it.

## 2. Modules

| Module | What it is |
|---|---|
| `SzymFS` | `filesystem.c` and its callers, one action per sector moved and per call |
| `FileStore` | the abstract contract: a map from names to contents, no sectors, slots or counter |
| `MCSzymFS` | small values for SzymFS's constants, and an `ASSUME` that computes the real 512-byte layout |
| `SzymFSCalls` | `SzymFS` with a history variable for the last command and its arguments, so that an answer is held against its question, and the refinement mapping to `FileStore` |
| `MCSzymFSRefines` | `SzymFSCalls` with small values and no faults |
| `AtaDriver` | `ata.c`'s table, detection and selection (actions without a `Next`, composed by `DiskSelector`) |
| `DiskSelector` | boot, menu, binding of the filesystem, the `disks` command, over `AtaDriver` |
| `MCDiskSelector` | the four places of a PC, one removable |
| `Keyboard` | `keyboard.c` and the keyboard in front of it |
| `Terminal` | `terminal_putchar`, scrolling and clearing, as operators on the screen |
| `Paper` | the abstract contract of the screen: an endless sheet |
| `MCTerminal` | any characters written to a small screen, and the mapping to `Paper` |
| `Console` | the shell's line editor over `Terminal` |
| `AtaPio` | `filesystem.c:21-93` and `ata_identify` look by look, with two drives on a channel |
| `SectorDrive` | the abstract contract of the sector calls: atomic sectors, and a command that may still be owed |
| `Serial` | `serial.h` and its commands, with the port and the other end |
| `Calc` | `cmd_calc` and the `%d` of `terminal_printf`, as operators |
| `Kernel` | power-on, detection and the shell's commands as one thread over `AtaPio`, `Serial`, `Calc` and the keyboard controller, and the mapping to `SectorDrive` |
| `MCKernel` | small machines |
| `MCKeyboard`, `MCConsole` | small values for their constants |
| `SzymFS_proofs` | geometry and typing lemmas; types, bounds, durability |
| `SzymFS_store` | unique names, the count, and the implementation of `FileStore` |
| `DiskSelector_proofs`, `Keyboard_proofs`, `Terminal_proofs`, `Console_proofs`, `Kernel_proofs` | the theorems about the module they are named after (`Terminal_proofs`: about `MCTerminal`, whose specification is the screen) |
| `Folding` | least and greatest numbers, induction over them, and what a `FoldLeft` goes through |

### SzymFS

The unit of atomicity is one sector.  A drive takes a sector whole or not at
all; between two sectors the power may go, and each sector may fail.

State: `hdr`, `data`, `persistent`, `selected` are `fs_header`, `fs_data`,
`fs_persistent` and the selection flag; `disk` is the image on the drive; `pc`,
`sec`, `back` say where the kernel is (which loop, which index, where
`fs_save_to_disk` returns to: the load that formats, or the shell); `said` is
the last verdict printed on persistence and `reply` the last answer of a call;
`owed` is the command the drive goes on with after the call that sent it has
given up.  `durable` and `hit` are history: the files whose save completed,
without those deleted since, and those of them that have a part in a sector
which another one's words were stored in.

Data are abstracted to what the properties tell apart.  A name is two parts,
`lo` before and `hi` after a sector boundary that may cross its field, because a
torn header leaves one old and one new; `ShortPart` are the parts that already
hold the terminating NUL, so that what `strcmp` ignores after it is still there
and can come back.  Contents are sequences of sector-sized blocks.  `magic` is
whether the number is right.  `file_count` wraps at `COUNT_MOD` (2^32 in C).

| Action | Code |
|---|---|
| `Boot` | `fs_init`, with or without a drive selected |
| `LoadHeaderSector`, `CheckMagic`, `LoadDataSector` | `fs_load_from_disk`: a header sector that cannot be read abandons the load, a data sector that cannot be read is skipped |
| `SaveHeaderSector`, `SaveDataSector` | `fs_save_to_disk` |
| `EnsureReadme` | `kernel_main` creating README.txt |
| `FsCreateFile`, `FsDeleteFile`, `FsReadFile`, `FsListFiles`, `SaveCommand` | the shell's `write`, `rm`, `cat`, `ls`, `save` |
| `Reboot` | `reboot`, `panic`, or the power switch at the prompt |
| `DisksGivesUp` | the `disks` command giving up on the drive's identification |
| `Settle` | the drive dropping the command it owes |
| `PowerLoss` | the power going in the middle of a load or save |

`cat` and `rm` take the rest of the line as it is, so the name may be empty;
`write` refuses an empty name.

`Faults` says which of these happen: `"read"` (a sector read times out),
`"write"` (a sector write times out before its data phase), `"lost"` (the drive
reports an error after it, which the code does not read), `"power"`, and what a
drive does after a timeout in which it already had the command: `"late"` (it
may go on with the read or write), `"probe"` (or with an IDENTIFY of `disks`).
The outcomes are those of `SectorDrive`: while a write is owed, the next words
go to its sector and the call returns 0; while a read or an identification is,
they go nowhere and the call returns 0; the next read gets the owed read's
sector.  `Strays` are the images whose sectors are what one sector's words
amount to when they are stored in another's place: any image at all in the
proofs, one of unused entries and one of junk entries in the runs.  A reset of
the machine ends what the drive was at.

Layout.  The real geometry (512-byte sectors, 32 entries of 44 bytes after 8
bytes, 256 data sectors) is too large to enumerate.  What matters in it is
which fields share a sector: the count is in sector 0 with entries 0-10; the
names of entries 11 and 23 straddle a boundary; size, offset and used never do.
`EntryByte`, `NameLoSector`, `NameHiSector`, `MetaSector` and `HEADER_SECTORS`
are the C layout as functions of `SECTOR_SIZE`, so that a smaller sector gives
a smaller header the same shape; `RealLayout` in `MCSzymFS` evaluates them for
the real numbers.  With 64-byte sectors and two entries the second name
straddles; with 40 both do; with 36 the only name does; with 52 the count and the last
entry are in different sectors and no name straddles; with 128 the header is
one sector.

### AtaDriver and DiskSelector

`drives`, `drive_count`, `selected_drive` are `ata.c`'s statics, with the -999
they start from; `probe` is the position inside `ata_detect_drives`, one action
per `ata_identify`, whose answer is free: a drive may be found at one detection
and not at the next.  `pc` follows `disk_selector_run`; the recursive call after
a refusal is the return to the menu (every return path of the inner call
returns from the outer one).  `fs_drive` is the copy `fs_set_drive_info` keeps.
`picked` and `confirmed` are history.

### Keyboard

The environment presses, holds and releases keys; `queue` is the controller's
buffer; `Getchar` is one turn of the polling loop that finds a code.  Each
waiting code carries what the typist meant by it, and `answer` holds what the
code taken last gave against that; both are history.

A key is not its code (`CodeOf`): the two Enter keys share one, and the second
sends the prefix 0xE0 first (`Prefixed`).  Some prefixed keys also fake a shift
(`Fakers`): PrintScreen, and the grey keys depending on NumLock.  They send E0
2A before their code, or E0 AA when a shift key is down, and undo it when they
come up, which `keyboard.c:92-101` takes for left shift.  Keyboards differ in
when they do so, and `Fakes` and `Undoes` leave it free.  What a faker's own
code gives is nobody's meaning: PrintScreen gives the asterisk of the keypad.
`PlainChars` and `ShiftedChars` are the codes with a character in each map; the
keypad's two signs are only in the first.

What the code delivers depends on the typist, so `habits` is chosen once, among
`Typists`: one holds keys until they repeat and moves one key at a time; one
overlaps keys and uses the keypad; one does everything but hold two keys of one
code, both shift keys, PrintScreen and typing during boot included; one does
that too but lets nothing repeat.  The first two are `Careful`: each of their presses that has a
character gives it once, and nothing else gives any.  The others are held to
`NothingLost` and `NoStuckShift` only, because `keyboard.c:85-86` compares a
code only with the one just before, so that the release of one key, or a
prefix, lets the repeat of another through as a new press.  The codes of one
move arrive together; at most `QUEUE` wait and none is lost.  The Pause key,
whose codes pass through without a character, is left out.

### Terminal, Paper and Console

`Terminal` has no state of its own: `Putchar(t, c)` is the screen after a
character, with the branches of `terminal_putchar`.  `MCTerminal` writes
arbitrary characters and keeps the rows scrolled away, so that screen and rows
together are a sheet of `Paper`, whose actions only ever touch the last row.
`Console` is `shell_run`: `Type`, `Backspace`, `Enter`, each with all it
writes.  A command's output is any of `Outputs`, which need not end a row
(`serial_read` prints without a newline), so prompts start in any column.

Enter also takes apart a `write` line (`cmd_write`; the word itself is one
glyph); `call` is what it asked of `fs_create_file`.

### AtaPio, SectorDrive, Serial, Calc and Kernel

`AtaPio` has one action per look of a loop.  `phase` and `job` are what each
drive is doing; `DriveWorks` lets it get on, or report an error, at any time,
so that it may answer within the looks, after them or never.  A command sent to
a drive that is BSY is ignored; sent while the drive still waits to move a
sector it may be ignored or taken, since drives differ.  `select` is the drive
register: the looks see the drive it names, and only `WaitReady`, when it
succeeds, and `Identify` write it.  `Met` has the boundary of
`while (... && timeout--)`: what is met at the look that finds `timeout` 0 is
reported as a timeout.  The 256 words are one step, and go to or come from the
sector of the command the drive is at.  The two waits for BSY and the two for
DRQ are the same code, so each is one action for both calls.

`SectorDrive` has one action per call.  Its `owed` is the command given up on
(or an IDENTIFY that was): while it is none, a call that returns 0 read exactly
the sector asked for, or wrote it, or lost the write unnoticed; those and the
failure are the outcomes `SzymFS` allows.  While a command is owed, a read may
get that command's sector and a write may go to that command's address, with
the code 0 all the same.  The mapping computes `owed` from the drive's job.

`Serial` holds what is unsent, the byte waiting in the transmitter (`thr`), the
byte being shifted out (`tsr`), the bytes received and the buffer.  Status 0x20,
which `write_serial` waits for, is about the first of these only, so two bytes
may be in the port.  `serial_init` empties both queues and sends its test byte
in loopback, which it ends at once: the byte may have been received by then, be
received later, be lost, or leave on the line; a byte being shifted out goes on
or is lost.  `message`, `ahead` (what `serial_init` left in the transmitter),
`line` and `arrived` are history.  The port is not overrun while polled (`FIFO`
bounds what waits).

`Calc` wraps sums and products at `INT_BITS`, resets the machine on the
quotient that does not fit, and lets the int without a negation print as right
digits, none or junk, which is what compilers make of it.

`Kernel` is the thread: `pc` is the command it is in, and the next one is only
taken at the prompt.  Its `Sector` is any one sector call, at boot or from a
command: which ones SzymFS makes, in which order, is in `SzymFS`.  `Binds` is
the selector: it selects our drive and finds it ready, or leaves the filesystem
unbound, perhaps with another drive selected.  `Off` is a reset or the power
switch, at any time.  `session` fixes the machine's devices and the commands its
user types, so that the product of unrelated devices stays small.

## 3. Runs

Every run keeps TLC's deadlock check.

| Run | Bounds | Faults | Checks |
|---|---|---|---|
| `SzymFS_power` | 2 slots of 1 sector, 64-byte sectors, 2 names, 1 content, blank drive, junk strays | power, write, late | `LossConfined`, `SavedMeansOnDisk` |
| `SzymFS_torn` | 2 slots of 1 sector, 40-byte sectors, in which both names straddle, 2 names, 2 contents, blank and used drives | power | `NamesUnique`, `EntriesInBounds` |
| `SzymFS_returns` | 1 slot of 1 sector, 36-byte sectors, 2 names and one too long, 1 content, blank drive | all six | `TypeOK`, `CallsReturn` |
| `SzymFS_refines` | 2 slots of 1 sector, 128-byte sectors, 3 names, 3 contents (one too large), foreign drive | none | `CountMatches`, `ImplementsFileStore` |
| `Keyboard` | 2 Enter keys, a sign of the keypad, 2 shifts, PrintScreen, 4 codes waiting | repeat, overlap, both shifts, prefixes, fake shifts, typing during boot | `TypeOK`, `AnswersMeant`, `NothingLost`, `NoStuckShift` |
| `Terminal` | 5 x 2 screen, 2 glyphs, 1 row scrolled away | none | `TypeOK`, `ImplementsPaper` |
| `Console` | 3 x 2 screen, 3 glyphs, commands of up to 6 characters, names of up to 2 | none | `TypeOK`, `LineShown`, `RowShown`, `WriteAsTyped` |
| `Kernel` | 2 drives, 2 sectors, 2 contents, loops of 3 looks (identify 2), 2 bytes received and waiting, a buffer of 3, messages of 0, 1 and 3 bytes, 5-bit ints, 5 machines | slow drives, errors, dropped writes, late answers, test bytes that come late, leave or are lost, power off at any step | `TypeOK`, `PrintedInOrder`, `ReadInOrder`, `CalcExact`, `OnlyOursWritten`, `ImplementsSectorDrive`, `ComesBack` |
| `DiskSelector` | 4 places, 1 removable | probes and selections fail freely | `TypeOK`, `TargetIsChosen`, `SelectionAgrees`, `ListedInOrder` |

Three drives to start from: `ZeroDisk` (never used), `ForeignDisk` (other
data: no magic, entries and count of junk), `OldDisk` (a SzymFS with one file in
its last slot).

Why the bounds are enough to see what matters: two slots are the least at which
a search can stop at the wrong one, a slot can be reused while another is in
use, and "full" differs from "one used"; with README.txt always recreated every
boot of a non-full drive writes.  Two names with a straddling one give every
torn combination.  Two contents tell old from new; where one must do for
`SzymFS_power` to end, a blank sector is the other.  The number of boots,
commands and faults is not bounded.  `COUNT_MOD` = 3 counts 0, 1, 2 files and
makes the unsigned count wrap within reach; `SzymFS_power` and `SzymFS_torn`
leave the number out (1), so that the first holds `SavedMeansOnDisk` to all of
the image but the count, which its theorem includes; `SzymFS_hidden_files` has
room for more than there are slots (8).

Three runs end in a violation, each against what the repository says of itself:

- `SzymFS_lost_write` (`SavedMeansOnDisk`): `fs_write_sector_direct` returns 0
  without reading the error bits (`filesystem.c:88-92`), so "Filesystem saved to
  disk!" is printed over a drive that dropped a sector.
- `SzymFS_lost_files` (`DurableOnDisk`): one header sector that times out at
  boot leaves an empty image with the drive bound; the README.txt that
  `kernel_main` then creates overwrites the drive's files.
- `SzymFS_hidden_files` (`ListsAllFiles`): a power cut in the middle of a save
  leaves `file_count` below the slots in use; a later delete takes it to 0 and
  `ls` says "No files found." over a file that `cat` would show.

The first two properties pass where their fault is absent (`SzymFS_power`, and
`DurabilityCorrect` below), and that border is what the theorems make exact:
`LossConfined` is `DurableOnDisk` with what late writes may cost taken out.
`EntriesInBounds` is checked under power cuts; failed reads and writes, dropped
writes and probes are covered by its proof.

What the model allows, as the code does, and no property forbids:

- a write that timed out waiting for DRQ (`filesystem.c:75-80`) is still the
  drive's command at the next save, whose first header sector is stored in its
  place: over a file saved before, or as junk entries over a header sector;
- a data sector that cannot be read is skipped (`filesystem.c:163`), the load is
  reported as good, and the next save writes the zeros back;
- after a torn save `file_count` may pass the number of slots, or wrap below 0;
- the first format of a drive that held other data, cut after its first sector
  (`filesystem.c:145`), leaves the magic number above the old bytes; the next
  boot takes them for files, and `cat` copies from beyond `fs_data`;
- two torn deletes leave two entries in use without a name, and `cat` and `rm`
  with nothing after the space reach only the first of them;
- a held keypad Enter or / repeats, since its prefix replaces `last_scancode`
  each time (`keyboard.c:85-89`); an overlapped key that repeats may too.

`CountMatches` is not checked under power cuts: it is false there, and
`SzymFS_hidden_files` shows what a user sees of it.  `NamesUnique` is not
checked with write timeouts: a delete whose save stopped half way and a create
in an earlier slot, followed by a power cut before the sector of the name's old
entry is rewritten, leave two (TLC finds it with 52-byte sectors).  It allows
more than one entry without a name, as the code does, and requires that each of
them straddles a boundary as entries 11 and 23 do, so that a torn delete is
their only origin.  Names
longer than 31 characters reach `fs_create_file` only from other callers than
the shell, which cuts them itself; the run `SzymFS_returns` includes one,
`SzymFS_torn` and `SzymFS_refines` do not, since a file created twice under such
a name is two files with one stored name.

A 5-column screen has a tab stop inside it and one past its edge; three rows in
all (two on the screen) make every kind of row change scroll.  On a 3-column
screen a full command takes three rows, more than fit.  `LineShown` excuses a
line in which a backspace was typed at the start of a row: there the terminal
stays where it is (`terminal.c:102`) and the erased character stays on the row
above; `RowShown` is what remains true.  Five characters after `write ` are the
least that hold a leading space, a cut name, a gap and a text with a space.

Four codes hold a whole move of any key of the run, fake shift included, and
let two moves of plain keys wait.  The two Enter keys are one code with and
without the prefix, the keypad's sign is a code of one map, PrintScreen a faker
whose code has a character.

A message of three bytes fills the transmitter and the shift register and leaves
one to wait.  Three looks give every loop a first, a middle and a last one,
which are the three that differ.  Two sectors tell a command's own sector from the one owed.
Five bits hold numbers of one and two digits of both signs, products that fit
and that do not, and both the least int and -1 as what an overflow leaves.
`LateRead`, `LateWrite`, `ProbeGivenUp` and `Settle` are all needed: without any
one of them in `SectorDrive`, `ImplementsSectorDrive` fails.

### Fairness

`FairSpec` assumes `WF_vars(Program)`: the kernel, once inside a load or a
save, keeps executing.  The code justifies it: there is one thread, interrupts
are not enabled, and every poll is bounded by 100000 reads.  Nothing is assumed
of the user, who may leave the machine off or the prompt untouched, nor of the
drive, whose sectors may fail each time, nor of the power.

`Kernel`'s `FairSpec` assumes the same of its thread, a poll that finds nothing
being a step (bounded loops) or no step at all (unbounded ones).  Nothing is
assumed of drives, ports, the keyboard controller or the user.  `ComesBack`
therefore says: the thread is at rest again and again, or it waits for ever for
one of the three devices that are polled without a limit.

## 4. Theorems

Every invariant and action property of every passing run, and the three
refinements, are theorems for all values of the constants that meet the named
assumptions.

| Module | Theorem | Statement |
|---|---|---|
| `SzymFS_proofs` | `TypeCorrect` | `Spec => []TypeOK`, under every fault |
| | `BoundsCorrect` | `CleanDrives` implies `Spec => []EntriesInBounds`, under every fault but `"late"` |
| | `LossCorrect` | `Reliable` implies `Spec => []LossConfined` |
| | `DurabilityCorrect` | `Reliable` without `"late"` implies `Spec => []DurableOnDisk` |
| | `SavedCorrect` | `Reliable` implies `Spec => []SavedMeansOnDisk` |
| `SzymFS_store` | `NamesCorrect` | `OneTrouble`, `UniqueDrives` and no long names imply `Spec => []NamesUnique` |
| | `CountCorrect` | no faults, a counter wide enough and `CountedDrives` imply `Spec => []CountMatches` |
| | `StoreCorrect` | no faults, no long names, a counter wide enough and `OwnDrives` imply `CallSpec => ImplementsFileStore` |
| `DiskSelector_proofs` | `TypeCorrect`, `ListCorrect`, `TargetCorrect`, `AgreeCorrect` | `Spec => []` of `TypeOK`, `ListedInOrder`, `TargetIsChosen`, `SelectionAgrees` |
| `Keyboard_proofs` | `TypeCorrect`, `ShiftCorrect`, `NothingLostCorrect`, `MeantCorrect` | `Spec => []` of `TypeOK`, `NoStuckShift`, `NothingLost`, `AnswersMeant` |
| `Terminal_proofs` | `TypeCorrect`, `PaperCorrect` | `Spec => []TypeOK`, `Spec => ImplementsPaper` |
| `Console_proofs` | `TypeCorrect`, `LineCorrect`, `RowCorrect`, `WriteCorrect` | `Spec => []` of `TypeOK`, `LineShown`, `RowShown`; `Spec => WriteAsTyped` |
| `Kernel_proofs` | `TypeCorrect`, `PrintCorrect`, `ReadCorrect`, `CalcCorrect` | `Spec => []` of `TypeOK`, `PrintedInOrder`, `ReadInOrder`, `CalcExact` |
| | `OtherDriveSafe`, `SectorsCorrect` | `Spec => OnlyOursWritten`, `Spec => ImplementsSectorDrive` |

### Assumptions

Those on the constants, each in the module that declares them:

- `SizeAssumption`, `LayoutAssumption`, `NameAssumption`, `ContentAssumption`,
  `DiskAssumption` (`SzymFS`): sizes are positive, a sector holds at least a
  name, size, offset and used do not straddle, a name ends at its NUL, contents
  are nonempty, README.txt fits.
- `ProbesAssumption` (`AtaDriver`): the places probed differ and there is one.
- `KeyboardAssumption`: a shift key has no prefix and no character, a character
  of the shifted map is in the plain map too, keys that fake a shift have a
  prefix, and no code is the prefix's.
- `ScreenAssumption` (`Terminal`): the screen has a cell, and newline, backspace
  and tab are three characters, none a glyph.  `SheetAssumption` (`MCTerminal`)
  adds a second row: its `gone` takes the row that scrolls off as it was before
  the step, so that row must not be the one being written.
- `ConsoleAssumption`, `PioAssumption`, `SerialAssumption`, `KernelAssumption`:
  positive limits and sizes, prompts and output of characters, numbers of
  digits.
- `CalcAssumption` and `PowersAssumption` (`Calc`): the width is positive, and
  2 to it is twice 2 to one less.  The second is arithmetic, which the provers
  lack for a variable exponent.

The hypotheses of single theorems, and why they cannot go:

- `CleanDrives`: no drive starts with an entry in use outside its slot's area,
  as blank drives and SzymFS images do not.  A drive of other data whose format
  was cut after the first sector gives such entries.
- No `"late"`, for the bounds and for durability: a sector stored in another's
  place leaves junk for entries and for contents.
- `Reliable`: none of `"read"`, `"lost"` and `"probe"` is among the faults; power
  cuts, write timeouts and late writes may be.  A bad read loses files
  (`SzymFS_lost_files`), a dropped write makes the success line false
  (`SzymFS_lost_write`), and a probe left waiting swallows the words of a save
  as a dropped write does.
- `OneTrouble`: power cuts alone or failed reads alone.  A write that times out
  leaves drive and RAM apart between commands, and so does a dropped one; the
  next cut then mixes headers that are two calls apart.  A load that stops half
  way does the same when a cut follows.
- `UniqueDrives`, `CountedDrives`, `OwnDrives`: what holds of the images that
  SzymFS itself writes; a drive without the magic may hold anything where only
  its bytes below the magic matter (`CountedDrives`, `OwnDrives`).
- No long names: `fs_create_file` looks a name up whole and stores it cut, so
  that two creates of one long name are two files of one stored name; the
  shell's own names are never long.
- No faults, for the count and the map: a torn save breaks the first
  (`SzymFS_hidden_files`) and is not a step of the second.

### Arguments

- *Types of SzymFS.*  `SzymFS_proofs` first settles the geometry: a slot's data
  lie in the data area and slots are apart (`SlotInData`, `SlotsApart`), every
  field's sector is below `HEADER_SECTORS` (`HeaderSectors`).  `TypeOK` is
  inductive; it is split into RAM, control and records, one lemma each, one
  step per action.
- *Bounds.*  "Every used entry is in its slot" is inductive only of RAM and
  drive together, and at all times, not only once mounted.  The step that makes
  it hold through torn and mixed headers is `BoundedMerge`: an entry's used,
  size and offset are in one sector, so a mixture of two bounded headers is
  bounded.  `LayoutAssumption` is what this rests on.
- *Durability.*  `LossConfined` says nothing of RAM, yet the next save
  overwrites the drive from RAM: the invariant must say that RAM holds the
  durable files too (`RamInv`), and why it does: a load in progress has made RAM
  equal to the drive in the sectors passed (`LoadInv`) and a completed one
  everywhere.  A save in progress that may still succeed has made the drive
  equal to RAM in the sectors passed (`SaveInv`), which gives `SavedMeansOnDisk`
  at its end (`SaidInv`).  A durable file is the same in both images, so every
  mixture of the two that a cut can leave holds it (`HoldsMerge`); a create
  fills a free slot, which is no durable file's (`FillKeeps`), and a delete
  removes from `durable` what it removes from RAM (`ClearKeeps`).  A late write
  is owed only after a timeout, when no save can succeed any more before a
  boot, and the first header sector of the next save settles it (`OwedInv`): so
  it disturbs one sector, whose files are `hit`, never the magic number, and no
  save that reports success.  `DurabilityCorrect` is the case in which nothing
  is ever hit (`HitInv`).
- *Names.*  A cut leaves a mixture of the header on the drive and the one in
  RAM, so uniqueness of both is not enough.  `NamesInv` says in addition that
  the two are one call apart while a save runs: one adds a file (`Grows`) or
  takes some away (`Shrinks`).  A mixture of such two has the names of the
  larger one or torn ones that end at once, which are the empty name.  Between
  commands, where the power may go, both are the same.
- *The count.*  `PassInv` (which sectors a load or save has passed, and that a
  load that passed them all has the drive's header) carries the count from the
  drive to RAM and back; one create and one delete change count and slots
  together (`CountInv`).  The counter must be wider than the number of slots,
  as 32 bits are.
- *The file store.*  `StoreInv` says that a mounted image has distinct names and
  bounded entries, and that drive and RAM are the same between commands.  Then
  filling the first free slot is adding to the map, clearing the first match is
  taking from it, and reading the first match is applying it, whatever the
  slots freed earlier still hold; loads and saves leave the map as it is.
- *Drive table.*  `ListInv` says of every listed entry which probe found it and
  that no later probe is for its place, so that two entries are never one drive
  while the table fills.  `BindInv` says that a drive is bound only on the way
  to the shell, from which no menu is reached: that, and the copy
  `fs_set_drive_info` makes, is why `disks` cannot move it.
- *Keyboard.*  What a code does depends on the codes before it, so the
  invariant follows the waiting codes: `WaitingOK` says that they lead from the
  driver's state (the shift flag and the last code) through what `Getchar` makes
  of each (`Runs`, `Path`), each heeded as the typist's habits promise, to a
  state that fits the keys now held (`EndOK`): the flag is on only if a shift
  key or a faker is down, and exactly then for a careful typist; the last code
  is not one whose next use would be mistaken for a repeat.  A move appends its
  codes at that end, `Getchar` takes one from the other, and the end state is
  the same: so each action is checked at one end of the queue only, whatever
  its length.  `NoStuckShift` is `EndOK` with an empty queue; `AnswersMeant` and
  `NothingLost` say of the code taken what `Runs` said of it while it waited.
- *Terminal.*  `TerminalInv` is the types and that the rows below the cursor
  are blank: the last row of the sheet is then the cursor's, and a scroll moves
  one row from the screen to the rows gone.
- *Console.*  `FoldLeft` over a string of any length is reasoned about in
  `Folding`: the least-number principle (`LeastNatural`) gives induction over a
  set (`Counting`), and with it the value at every prefix.  A cell is then
  numbered by how far it is from the top left, so that wrapping and scrolling
  are one shift by a whole row (`ShowMoves`), which moves cells and cursor alike
  and so keeps `LineShown`.  `TypeOK`, `LineShown` and `RowShown` are inductive
  together (`ConsoleInv`).  `WriteAsTyped` is a statement about `cmd_write`
  alone: trimming and cutting at the first end of the name lose no character,
  and a line that is refused has no reading.
- *Sector calls.*  `PioInv` relates the place in a loop to the drive: what was
  sent is what the drive is at if the drive took it, a drive that gives or takes
  words is at a command, and a call has no answer before its end.  `ThreadInv`
  says that only commands that move sectors or probe are in those loops.  Then
  every look is a stutter of `SectorDrive` except the one after which the words
  move, or at which the call gives up.
- *The other drive.*  Only `WriteWords` changes a drive, the selected one.  The
  invariant `OursSelected` says that from the command of a sector call to its
  end ours is selected; it needs no word about what the drives do.
- *The serial port.*  What is on the line, being shifted out, waiting and still
  to be written is always what `serial_init` left ahead and the message
  (`Conserved`), and it leaves an old byte and its test byte at most
  (`LeftAhead`), so order and count follow at the end.
  What `serial_read` stored and what waits in the port is always what came
  since `serial_init` (`Came`); when the read is over the port goes on filling,
  so the invariant keeps why it ended, a full buffer or a NUL (`Ended`), in
  terms of what came, which only grows.
- *calc.*  The invariant is only that the line shown is one `cmd_calc` may give
  for what was typed; the rest is about operators.  The value read so far never
  exceeds the whole (`ReadGrows`), so a number that fits is read without an
  overflow on the way (`ReadExact`).  Taking digits off is a recursive function,
  whose equation is proved (`TakenIs`) from its values up to each number; in
  reverse they have that number as their value and no leading zero (`Shown`).

### Only model-checked

Liveness (`CallsReturn`, `ComesBack`), which is outside the prover's reach, as
is `ENABLED`; and `ListsAllFiles`, which is false.  `DurableOnDisk` is proved
where its faults are absent; the passing runs check the stronger
`LossConfined` instead.

## 5. Not modelled

- More than one command owed at a time, and a drive that stores a sector given
  up on without being sent its words.  The polls of `ata_select_device`
  (`ata.c:200-223`) have an outcome only (`SelectDrive`, `Binds`); words of one
  sector are one step; DRDY and DF are not distinguished from ready and ERR.
- `ata_read_sector`, `ata_write_sector` (`ata.c:269-364`) and `show_disks_run`
  (`io.c`): never called.
- The 120 bytes after `fs_header` that the last header sector carries to the
  drive (`filesystem.c:192`): they are written and never read back into the
  header, since the load clips its copy.
- Colours, banners and the wording of messages, except the three verdicts on
  persistence.
- Scancodes the controller drops when its queue is full, the Pause key, and
  codes of one move that arrive apart; the hardware cursor;
  `%x`; characters after the second number of `calc`, which it ignores; bytes
  a serial port loses because it is overrun.
- The depth of the stack when fixed disks are refused again and again
  (`disk_selector.c:69`): the call is in tail position and the Makefile's `-O2`
  makes it a jump.
- `memory.c`, `cpu.c`, `boot.asm`, build files: no state that later steps
  depend on.

## 6. Plan

1. A form of `EntriesInBounds` that survives late writes, as `LossConfined` does
   for `DurableOnDisk`: entries are in bounds but for those of the sector hit;
   and one for drives of other data, under what a cut of the first format leaves.
2. A weaker form of `NamesUnique` that survives failed writes, and its theorem.
