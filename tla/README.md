# Illinix OS: a TLA+ model of the kernel

Illinix is a single-CPU x86 teaching kernel with three text terminals, at most
six programs, a round-robin scheduler, a read-only file system and an
RTC/keyboard/terminal driver set. This directory holds TLA+ modules that model
its core, the TLC configurations that check them and TLAPS proofs about them.
Paths such as `pit.c:158` are in `src/`.

## 1. The system

### Parts, state and operations

| Part | State | Operations |
|---|---|---|
| task slots (`system_call_handler.c`) | `phys_addr_available[6]`, per terminal `phys_mem_idx[6]` (a stack of slots), one PCB per slot (parent context, descriptor table, arguments), `exception_flag` | `execute`, `halt`, `getargs` |
| scheduler (`pit.c`) | `curr_running_terminal_idx`, `flag_first_execute`, `flag`, current context in the PCB | `PIT_interrupt_handler`: boot the three shells, then switch terminals |
| exceptions (`interrupt_desc_table.c`) | `exception_flag` | 20 handlers with one body: print, set the flag, `halt(0)` |
| paging (`page.c`) | one page directory per slot, `%cr3`; `vid_on` per terminal | `set_page`, `set_page_1`, called by `execute` and `vidmap` |
| system call linkage (`syscall.S`) | `store_eax` | `int 0x80` dispatch and return |
| descriptors (`system_call_handler.c`) | 8 entries per PCB | `open`, `close`, `read`, `write` |
| file system (`file_system.c`) | image in memory; `last_round`, `directory_index` | lookups, `read_data`, `file_read`, `dir_read` |
| RTC (`RTC.c`) | `rate`, `interrupt_bool` | `RTC_read`, `RTC_write`, interrupt |
| keyboard (`keyboard.c`) | modifier flags; per terminal `typed_buf`, `share_buf`, `curr_char_idx`, `typing_finish`, history | interrupt handler: editing, Enter, Alt+F1..F3 |
| terminal (`terminal.c`) | the same buffers | `terminal_read`, `terminal_write` |
| screen (`lib.c`) | cursor and memory per terminal | `putc`, `putc_background`, `clear` |
| interrupt controller (`i8259.c`) | masks | `enable_irq`, `disable_irq`, `send_eoi` |
| mouse (`mouse.c`) | position; it draws on the screen and types a word | interrupt handler |
| graphics, sound, boot | | not part of the core |

### How the parts interact

`execute` pushes EFLAGS after `cli`, so **programs run with interrupts
disabled**, and `int 0x80` enters through an interrupt gate: a system call is
atomic up to the `sti` that some of its callees execute. `terminal_read` spins
with interrupts on; `terminal_write`, `RTC_read`, `RTC_write` and `getargs`
return with interrupts on; the exception handlers print, and `putc` ends with
`sti`. At those points the timer may save the context in the PCB of the running
terminal's top task and resume another terminal, and the keyboard may change
the displayed terminal or complete a line. The three *terminals* are what the
scheduler switches between; inside one terminal only the top task runs, and
`execute`/`halt` push and pop it.

### What is hard

* Two terminal indices, *displayed* (`curr_terminal_idx`) and *running*
  (`curr_running_terminal_idx`), are easily confused, and Alt+F and the timer
  change them independently.
* Slot numbers carry meaning ("below 3" = bottom shell) while slots are freed
  and handed out again.
* Contexts are spread over `tss`, `%cr3`, the stack pointer and two sets of PCB
  fields that are written at different times by `execute`, `halt`, `vidmap` and
  the timer.
* `exception_flag`, `last_round`, `directory_index`, the RTC rate and
  `store_eax` are globals that several tasks use across interruptible points.
* The mask register of the 8259 is read, changed and written with interrupts on,
  and handlers send their end of interrupt late: who can interrupt whom depends
  on masks, the interrupt flag and the interrupts in service together.
* A terminal's text is in two places, the screen and a backup page, written by
  two functions, and Alt+F changes which terminal is where.

`PROJECT.json` lists these hazards line by line, with the property that covers
each or why none does.

### What makes each part correct

Slots: no leak, no sharing, stacks without holes, slot `t` is the bottom shell
of terminal `t`. Scheduler: what is resumed is what was saved, on its own stack
and directory; no terminal starves. Exceptions: a faulting task ends, and only
it reports 256. Descriptors: an entry in use can be called through. Files: a
reader receives the file once, whole, in order, and reaches its end. `read_data`:
the right bytes across block boundaries. Keyboard: indices in their buffers, the
buffer is the line the user sees, and a reader is given the line finished on its
own terminal. Interrupt controller and system calls: nothing stays masked, a
call that waits returns, and returns its own result. Screen: each character is
printed on its program's terminal, and the screen shows the displayed one.

## 2. Modules

| Module | Models | Used by |
|---|---|---|
| `Tasks` | slots, `execute`, `halt`, exceptions, timer, `vidmap`, and the keyboard and device calls as far as the scheduler sees them | `MCTasks`, `TasksProofs` |
| `FileData` | the result of `read_data` (`ReadResult`): the contract between the next two | `Files`, `ReadData` |
| `Files` | descriptor tables, `open`/`close`, `file_read`, `dir_read`, `RTC_write` and their shared globals, for several tasks | `MCFiles`, `FilesProofs` |
| `ReadData` | the loops of one `read_data` call, byte by byte | its `.cfg` file, `ReadDataProofs` |
| `Keyboard` | the line editor of `keyboard_interrupt_handler`, its history and the end of `terminal_read` | `MCKeyboard`, `KeyboardProofs` |
| `Interrupts` | masks, end of interrupt, IF, `RTC_read`, `store_eax`: the system calls in steps | its `.cfg` files, `InterruptsProofs` |
| `Screen` | `putc`, `putc_background`, `clear`, the loop of `terminal_write`, Alt+F, the mouse | its `.cfg` files, `ScreenProofs` |
| `Consoles` | abstract: a page of text per terminal | `Screen` |
| `ProcessStacks` | abstract: a stack of processes per terminal | `TasksRefinement` |
| `TasksRefinement` | the mapping from `Tasks` to `ProcessStacks` | `MCTasks`, `TasksRefinementProofs` |
| `MCTasks`, `MCFiles`, `MCKeyboard` | the views, the directory and the files for TLC | the `.cfg` files |
| `TasksProofs`, `TasksRefinementProofs`, `FilesProofs`, `ReadDataProofs`, `KeyboardProofs`, `InterruptsProofs`, `ScreenProofs` | theorems about the module of that name | |
| `NaturalFacts` | lemmas: least element, rows and columns | `KeyboardProofs`, `ScreenProofs` |

Definitions called *Mutant* in the modules are not part of the model: each is a
plausible bug in the definition below it, kept to show that a property notices.

### Tasks

An address is named by the task it belongs to: `esp0 = p` is
`EIGHTMB - p*EIGHTKB`, `cr3 = p+1` is `pde_arr[p+1]` (0 is the boot directory),
`stack = p` is a stack pointer into kernel stack `p`. A *context* is the record
of these and of a program point `at`; `parent[p]` and `curr[p]` are the
`parent_*` and `curr_*` fields of PCB `p`, and `cpu` is the machine. `at` says
whether interrupts are on (`Interruptible`).

Each system call is one action up to its `sti`. `Launch` is `execute` after its
checks; `Execute` calls it for a program, `Halt` for a bottom shell that exits
(the code's `addl $8,%esp` onto the frame of the old `execute`), `PITFirst` and
`PITNextShell` for the boot. The exception handlers are three steps (`Fault`,
`RaiseFlag`, `FaultHalt`) because `printf` enables interrupts; the handlers of
`interrupt_desc_table.c` all have this body. `Top(t)` for a terminal without tasks
is what the code reads there: the word in front of `phys_mem_idx` in `terminal_t`,
`vid_on`.

What lies on the kernel stacks is not modelled, with one exception. A bottom
shell that exits or faults is executed again at `halt_ebp + 8`, the place it was
first executed from (`system_call_handler.c:166`). For the shell of terminal `t+1`
that is a frame of the PIT handler on the kernel stack of shell `t`
(`pit.c:111`); for shell 0 it is the boot stack, whose memory is kernel stack 0,
so no other terminal's. The new `execute` pushes its frames below that place, where
terminal `t`, suspended meanwhile, may have frames of its own. `Halt` therefore
may, or may not, add `RestartStack(h)` to the history variable `overwritten`: how
far down the suspended frames reach depends on where they were interrupted and on
the compiler. To resume overwritten frames is undefined; the model goes on as if
they were intact, and the properties say what that leaves of them.

Left out: `ss0`, arguments, command parsing and the image (a failing `execute` is
`ExecuteFails`), the screen copies, `init_flag` and `order` (written, never used),
`hello_flag` (in `Keyboard`). Assumed: the timer does not fire again between the
`sti` at `pit.c:110` and `execute`'s `cli`, a few instructions in a 50 ms period;
ring 3 code faults, kernel code does not; the general registers of an interrupted
task, which `PIT_interrupt_handler` does not save, survive the switch (section 5).

Two constants restrict the environment. `EarlyInput = FALSE`: no line is
entered before the last shell is up (150 ms after the first tick).
`VidmapCallers`: whether tasks of the displayed or of a hidden terminal call
`vidmap`. Section 3 says what happens without them.

### ProcessStacks, TasksRefinement

What the task subsystem promises: each terminal has a stack of processes, only
the top of the running terminal's stack moves, a process goes on exactly where it
stopped, a terminal whose last process ends gets a new one, terminals take turns.
There are no PCBs, stack pointers or directories in it. Under the mapping, the
point of a process is found in one of three places: in `cpu` (top of the running
terminal), in its own `curr` fields (top of another terminal), in the `parent`
fields of its child (waiting in `execute`). A field saved at the wrong time or in
the wrong PCB makes a step that `ProcessStacks` does not have, even if everything
is well typed and belongs to the right task.

### FileData, Files

Byte `k` of a file is the number `k`; `got[p][fd]` is the sequence of bytes a
descriptor has delivered since `open` and `done` that the last read returned 0
or -1. Programs read like `cat` and `grep`: one buffer size, until the end.
`Exclusive = TRUE` restricts the environment to one open regular file at a time.
`file_position` is reduced modulo `Word` (2^32), which an empty file reaches:
`read_data` returns -1 and the position becomes the largest word. The system
calls of this module run with interrupts disabled and are one action each.
`close` does not call the device's close function, as in the code.

### ReadData

The variables are those of the C function; `pc` is `outer` at the test of the
outer loop, `inner` in the inner one. Block numbers of the inode may be out of
range. The offset is in the file, as `file_read` guarantees; `execute`'s read at
24 of a shorter file is the case left out. So is the first test of the function
(`file_system.c:170`), an inode number beyond `inode_num`: the numbers come from
directory entries, which name existing inodes.

### Keyboard

The variables are the fields of `terminal_t`. A key that is finished before its
first `putc` is one action (`Type`, `CtrlL`, `AltF`); for the others the handler
is suspended at `kbd.at`. After the first `putc` every statement that touches what
a reader reads or writes (`typed_buf`, `curr_char_idx`, `share_buf`,
`typing_finish`) is a step: `Erase` for backspace; `History`, `Newline`, `Share`,
`Finish`, `Clear`, `Reset` for Enter and for a key at a full buffer (`Overflow`),
which is then stored and counted as the first of the next line (`StoreKey`,
`Count`); `UnwindOne`, `Recall`, `Length` for the up arrow. Between two steps
tasks run and `Read` may happen on any terminal but the one whose stack the
handler is on (`kbd.host`); no second key is taken before the end of interrupt. A
loop that copies or clears a buffer is one step. `Store` places `typed_buf`
between `share_buf` and `typing_finish`, as `terminal_t` does. `line` and
`entered` are the user's view: what is typed and what was last finished. `dropped`
names the terminals on which a reader cleared the buffer between the store and the
count of a key (`keyboard.c:355`, `356`): `curr_char_idx` and the screen then
count a character that is not in the buffer, until the line is erased or read.

`hello_flag` is never cleared once set (`keyboard.c:261` clears it only when it
is clear); `ExecuteHello` sets it at any time. Two constants restrict the user:
`Patient`, who after Enter presses no key, Alt+F included, until the line has
been read (so a reader can only overlap with the end of the handler), and
`FullLines = FALSE`, who does not press Enter on a full buffer. A full line of
the history is not recalled (`Up`): `strlen` would run on into the next entry.

### Interrupts

One task per terminal, in ring 3 (IF = 0) or at a point of a system call. Before
the call's `sti` it is atomic; after it each access to the mask port, to
`interrupt_bool` and to `store_eax` is a step: `enable_irq` and `disable_irq` are
a read and a write. A call has an abstract result that tells it from the others,
so that reading another call's `store_eax` is noticed. The 8259 is external: an
interrupt is held back while it is masked or while one of the same or a higher
priority is in service. Timer and RTC handlers are one step, as nothing else can
come in before their end of interrupt; the keyboard handler begins, is open to
the timer (its `putc` executes `sti`), and ends with `send_eoi(1)`; `kbd` is the
terminal on whose stack it is. The timer's switch keeps the interrupted task's
`value` and point although the handler saves no general registers (section 5).
The mouse (IRQ 12) and command execution below
`execute` are left out. `Calls` and `Exponents` are what programs do: the runs
have every call but `bad_write`, and `Exponents = {1}`, which stands for every
frequency but 1, as only a rate of 0 makes a difference.

### Screen, Consoles

`VIDEO` is the memory the screen shows, `video_mem[t]` the backup page of a
terminal; `putc` writes to both, `putc_background` to the backup. They run under
`cli` and are one step each, but `terminal_write` chooses between them before
(`WriteTest`), and Alt+F, echo, Ctrl-L and the mouse come in between. The timer
is masked by `terminal_write`, so there is one at a time. The mouse restores the
cell it leaves from the backup, draws `?`, and with a button pressed types the
word it points at, `putc` by `putc` (`MouseType`).

`Consoles` has only text and positions: a page is a row of cells, a program prints
on its own terminal, echo goes to the displayed one. Under the mapping the
backup page of terminal `t` with `NUM_COLS*screen_y + screen_x` is its page.
Backup pages are blank at the start, where the code leaves what the memory held.

## 3. Runs

| Run | Bounds | Result |
|---|---|---|
| `tasks_safe` | 2 terminals, 5 slots | passes; 207,764 states; includes the refinement of `ProcessStacks` |
| `tasks_live` | 2 terminals, 3 slots, fairness | passes; 49,652 states |
| `tasks_exit` | 2 terminals, 4 slots | `ExitStatus` is violated |
| `files_read` | 2 tasks (a bottom shell and a program), 4 descriptors, files of 3 and 4 bytes, buffer 2 | passes; 904,684 states |
| `files_finish` | 3 descriptors, files of 0, 3, 4 bytes, buffers 1 and 2, fairness | passes; 14,024 states |
| `read_data` | block of 2, 3 blocks, files to 5 bytes, requests to 4 | passes; 15,807 states |
| `keyboard_line` | 2 terminals, buffer of 2, history of 1, two characters (symmetric) | passes; about 9.6 million states |
| `interrupts_safe` | 2 terminals, all calls but `bad_write`, fairness | passes; 57,328 states |
| `interrupts_hang` | the same | `NeverStuck` is violated |
| `interrupts_result` | the same | `OwnResult` is violated |
| `screen_safe` | 2 terminals, 2x2 cells, `BUFFERLENGTH` 1, writes of up to 2 bytes | passes; 2,941,798 states; the refinement of `Consoles` but for three named steps |
| `screen_wrap` | the same | `KeepsPromise` is violated |

*Bounds.* Three spare slots give a program with a child and a grandchild, or
programs on two terminals; all slots taken is reached, and so is the restart of
a bottom shell with every other slot free or taken. The theorems of section 4
cover three and more terminals. In `Files` the lengths 3 and 4 with buffer
2 are the two cases of the last chunk (short, exact), 0 is the empty file; one
or two free descriptors make `open` fail. In `ReadData` files have up to three
blocks, with every position of both ends in a block. In `Keyboard` a buffer of
two is empty, partly filled and full; a history of one entry wraps with every
line; two characters tell lines apart. In `Interrupts` two terminals give every
pair of overlapping calls, and a suspended handler on one with any call on the
other. In `Screen` every cell of a 2x2 page is in the first or last row and
column, so wrapping, scrolling and backing up meet in every combination; a write
of two bytes passes `BUFFERLENGTH` and has interrupts on at its second character;
the mouse starts in row 1 and moves to a cell of row 0.

*View.* The task runs use `LiveState`, which drops the `curr` fields of PCBs
whose task is not suspended: the timer writes them before anything reads them,
so two states that differ only there have the same future. `TypeOK` sees one
representative; the theorem `TypeCorrect` covers the rest. `keyboard_line` drops
`share_buf` and `entered` of terminals without a finished line, which the handler
writes before it sets `typing_finish`, and the dropped character of a line, which
no property reads. Nothing tells one character from another, so the two are
symmetric.

*Deadlock* is checked, except in `ReadData`, where the call ends, and in
`interrupts_safe` and `interrupts_result`, because the machine really can stop
(`NeverStuck` below).

*Fairness.* `Tasks`: the 8259 latches IRQ 0, so the timer is strongly fair, and
a 50 ms slice is enough for a task that is in the kernel to take its next step,
so the kernel steps of each terminal are strongly fair. This takes the timer as
never masked for good and never held back, which is not always so (`NeverStuck`,
`bad_write`): the liveness properties of `Tasks` are about the scheduler, and
`Interrupts` is about whether it gets its interrupts. A program that never
makes a call that enables interrupts stops the machine, because it runs with
IF = 0: `WF(DeviceCall)` assumes that programs do make one. `Files`: a program
that reads a file keeps reading. `ReadData`: the CPU executes. `Interrupts`: the
8259 latches the requests it holds back, so timer, RTC and the end of the
keyboard handler are strongly fair, as are the steps of a call (a slice is longer
than they take) and, as in `Tasks`, the calls that enable interrupts. `Screen`:
`terminal_write` goes on; no property rests on it.

### What the passing runs show, and where they name exceptions

`tasks_safe`: `Isolation` says that no step changes the tasks, the saved context or
the frames of a terminal that is not running, but for one case written into it,
`NeighbourRestarts`: when the bottom shell of terminal `t+1` exits or faults, its
restart may overwrite frames of the bottom shell of terminal `t`; no other
terminal and no program above a shell is reached. The other properties of this
run, the refinement included, are about tables and registers: they say which task
runs and is resumed with which stack, not that its frames are intact.
`tasks_live` promises nothing once frames are lost (`FramesLost`).

`keyboard_line`: buffer, index and line agree whenever the handler is idle
(`Editing`), and a reader is given the finished line (`LineDelivered`). The
exception, in both, is the first character of a line on a terminal in `dropped`.
It needs no haste of the user: a key overflows the buffer while another terminal
runs, `typing_finish` is already set when the handler stores the key, and a timer
interrupt right there lets the reader in, which clears buffer and index.

`interrupts_safe`: the masks are read and written in overlapping steps, and still
none is left set without a task that will clear it (`MaskHasOwner`); a call that
ends under `cli` gets its own result (`ClosedResult`). `RTC_read` returns and all
terminals run, with one exception, written into both properties as `Stuck`. On the
machine there is a second one: the mouse handler, which also calls `putc` before
its end of interrupt, suspended with IRQ 12 (and IRQ 2) in service. IRQ 12 is not
in the model.

`screen_safe`: the screen mirrors the displayed terminal's page and cursor
(`StaysMirrored`), and every step but three kinds is a step of `Consoles`
(`KeepsPromiseOtherwise`), from any state, including the ones the exceptions
left: `RowFilledHidden` (the column test of `putc_background`),
`SwitchedBeforeCall` (Alt+F between the test in `terminal_write` and the call)
and `BufferFilledHidden` (the final new line of a full buffer goes to the
displayed terminal).

### What the violated properties show

* **ExitStatus.** `exception_flag` is cleared by `execute` only. A parent whose
  child faulted returns 256 when it exits normally; an `execute` elsewhere
  between the handler's store and `halt` hides an exception.
* **OwnResult.** `store_eax` is one word for all tasks. A call that returns with
  interrupts enabled may be switched away from between the store and the load.
* **NeverStuck.** The timer suspends the keyboard handler before its end of
  interrupt; `RTC_read` on the next terminal masks the timer, and its own
  interrupt is held back behind IRQ 1. Nothing moves any more.
* **KeepsPromise.** A hidden program that fills a row goes on at the start of the
  same row (`lib.c:247`); `putc` goes to the next.

### What the constants that restrict the environment are for

Each excludes something the code does not handle, so the passing runs, and the
theorems with the same hypotheses, do not guard against it: `PROJECT.json` lists
these hazards without a property. To see one, change the constant
in the `.cfg` of the passing run:

| Constant | Then | Because |
|---|---|---|
| `EarlyInput = TRUE` (`MCTasks_safe`) | `BootOrder` fails | a program started before the last shell fails the test at `pit.c:85`, and the handler resumes a terminal without a task |
| `VidmapCallers` with `"background"` (`MCTasks_safe`) | `CpuMatchesRunning` fails | `vidmap` looks up the displayed terminal (`system_call_handler.c:70`) and leaves the other task's directory loaded |
| `Exclusive = FALSE` (`MCFiles_read`) | `WholeFile` fails | `last_round` is global: the end of one file ends another |
| `Patient = FALSE` (`MCKeyboard_line`) | `Editing` fails | `terminal_read` clears `typed_buf` of the displayed terminal (`terminal.c:128`), not of the one it reads |
| `FullLines = TRUE` (`MCKeyboard_line`) | `LineDelivered` fails | the newline goes to `typed_buf[128]`, which is `typing_finish` |
| `Calls` with `"bad_write"` (`Interrupts_safe`) | `MaskHasOwner` fails | `terminal_write` returns -1 with the timer masked |
| `Exponents = {0}` (`Interrupts_safe`) | `RTCReadReturns` fails | frequency 1 is rate 16, stored as 0: no periodic interrupt |

Met while modelling, without a run of their own: `close` never calls `RTC_close`,
so the rate a program wrote stays (against `suicide_squad_bug_log.txt:81`);
`directory_index` is global and `open` does not reset it, so a listing starts
where another one stopped; `dir_read` returns 0 at the end where its comment,
`file_system.c:378`, says -1, and the loop of `tests.c:314` waits for -1;
`execute` calls `set_page` with `fourkb_on` 0, which leaves entry 34 of a reused
directory as the last task's `vidmap` set it; `halt` of a child clears `vid_on`
of its terminal although the parent may have called `vidmap`.

## 4. Proofs

Every invariant, action property and refinement of the passing runs is a theorem,
for every value of the constants that the module's `ASSUME` admits:

| Module | Hypothesis | Theorem (property) |
|---|---|---|
| `TasksProofs` | `Disciplined` | `TypeCorrect` (`TypeOK`), `NoHoles` (`StackShape`), `ShellsInOrder` (`BootOrder`), `SlotsOwned` (`SlotOwnership`), `ShellsAtBottom` (`BaseShells`), `CpuCorrect` (`CpuMatchesRunning`), `ResumeCorrect` (`SuspendedResumable`), `ParentsCorrect` (`ParentLinks`), `TerminalsIsolated` (`Isolation`) |
| `TasksRefinementProofs` | `Disciplined` | `StacksImplemented` (`ImplementsStacks`) |
| `FilesProofs` | none | `FilesTypes` (`TypeOK`), `TablesSound` (`DescriptorsSound`) |
| | `Exclusive` | `ReaderGetsFile` (`WholeFile`) |
| `ReadDataProofs` | none | `LoopTypes` (`TypeOK`), `CopiesFile` (`Copied`), `KeepsPromise` (`Promise`) |
| `KeyboardProofs` | `WaitingUser` | `IndicesInBounds` (`TypeOK`), `BufferIsLine` (`Editing`), `ReaderGetsLine` (`LineDelivered`) |
| `InterruptsProofs` | none | `InterruptTypes` (`TypeOK`) |
| | `NoBadWrite` | `MasksReleased` (`MaskHasOwner`), `ClosedCallsResult` (`ClosedResult`) |
| `ScreenProofs` | none | `CursorStaysInPage` (`TypeOK`), `ScreenMirrorsPage` (`StaysMirrored`), `PromiseKeptOtherwise` (`KeepsPromiseOtherwise`) |

The hypotheses are those under which the runs pass, and the table at the end of
section 3 says what the code does without them:
`Disciplined == ~EarlyInput /\ "background" \notin VidmapCallers`,
`WaitingUser == Patient /\ ~FullLines`, `NoBadWrite == "bad_write" \notin Calls`.
The assumptions on constants are sizes that are not zero, at least as many slots
as terminals, a directory whose entries have inodes, and, in `Files` and
`ReadData`, that length and request together stay below 2^32. Each module has one
lemma per action; every `Inv` below was an invariant of TLC before it was proved.

**Tasks.** `Inv` is the conjunction of the invariants of the run, none of which is
inductive alone: that `halt` returns to the right stack (`CpuMatchesRunning`)
needs `ParentLinks` for the popped task; that the slot test "below 3" decides
between restart and return needs `BaseShells`; that a restarted shell takes its
old slot needs `SlotOwnership` (only the freed slot and slots that belong to no
bottom shell are free, and the lowest is taken); that the timer resumes what it
saved needs `SuspendedResumable`, and that another task's `execute` or `halt`
does not write that PCB needs `SlotOwnership` again; the boot actions need
`BootOrder`.

`TerminalsIsolated` needs more than `Inv`, because the stack on which a shell is
restarted was recorded when it was first executed: `RestartStacks` says that
`parent[t]` of a bottom shell holds stack `t - 1` (`None` for shell 0), and is
preserved because programs never get a shell's slot, a restart stores its old
place again, and each boot step runs on the stack of the shell before it; for the
first one `BootStack` says that the CPU is still on the boot stack. So a restart
can reach the frames of shell `t` only from terminal `t + 1`
(`OverwritesNeighbour`).

**Tasks implements ProcessStacks.** From `Inv` before and after a step, the point
of every process is known: in `cpu`, in its own PCB, or, below another task,
inside `execute`. `phys_mem_idx` up to its depth is turned into a sequence, of
which `execute` is an `Append` and `halt` a `SubSeq`. Then each action is compared
with one abstract action: `Execute` with `Push`; `Halt` with `Pop`, or `Restart`
for a bottom shell; the device calls and the exception handlers with `Move`; the
timer with the start of a shell or `Switch`. `Vidmap`, `Enter`, `AltF` and a
failing `execute` are stutters.

**Files.** `Inv` adds to types and descriptors that `file_position` stays in a
file that is not empty; without it `read_data` would be given a negative rest.
For `WholeFile` two more conjuncts are needed: at most one regular file is open
(`OneFile`, which the other tasks' steps preserve because of `Exclusive`), and
`AllDelivered`: until `last_round` is set the reader has got exactly what lies
before `file_position`, and from then on the whole file, although the position
still names the last chunk. `WholeFile` itself speaks only of readers that are
done.

**read_data.** The loop invariant: `i + copy_length` is the number of bytes to
copy, and the next byte, `offset + i`, is at `curr_data_addr` of block
`offset_data_block_idx`, except when nothing is left. `KeepsPromise` is the bridge
to `Files`, where `ReadResult` stands for the call.

**Keyboard.** `Editing` speaks of an idle handler and `LineDelivered` of a finished
line. `Inv` says what holds at each point where the handler is suspended
(`HandlerState`): buffer, index and line agree until the line is handed over; from
`share` on the newline is in the buffer, from `finish` on in `share_buf`. From then
on the reader may run at any step, and `RestartState` says what survives it: the
line is empty, the index is 0 until the key is counted, and the key is in the
buffer at `count` unless a reader was there (`dropped`). Hidden
terminals agree throughout, and a line is finished on the displayed terminal only
(`OneFinished`): that makes it harmless that `terminal_read` clears the displayed
terminal's buffer. `Strlen` is a `CHOOSE` of a least number, so the recalled
length rests on `LeastElement` in `NaturalFacts`, from the well-foundedness of the
natural numbers.

**Interrupts.** `MaskHasOwner` is about values read from the mask port and not yet
written back. A task with interrupts disabled is never suspended
(`SuspendedOpen`), and one that has masked the timer keeps the CPU until it has
unmasked it (`TimerMasked`); so only the value of `disable_irq(0)` can be out of
date, and it can bring back a keyboard bit only while its own call goes on to
clear that bit (`ValuesSound`, `KeyboardMasked`).

**Screen.** The cursor is in the page or at the start of the row below
(`CursorOK`), which is what makes the two scroll tests enough. `ScreenMirrorsPage`:
`putc` computes screen and backup from the same cursor; a scrolled arrow is
replaced, and the mouse restores the cell it leaves from the page that is
displayed by then; only a call decided before an Alt+F (`SwitchedBeforeCall`) can
break the mirror, and the property says so. `PromiseKeptOtherwise`: the address
`NUM_COLS*screen_y + screen_x` determines row and column (`ColumnOf`), so a new
line, a backspace and a character are each the abstract step on a row of cells;
in a `terminal_write` that is outside the three named steps the function chosen at
`WriteTest` is still the right one. The proof uses no relation between the steps
before and after an exception: the promise holds again from whatever state one
leaves.

Only model-checked: the liveness properties (`EveryTerminalScheduled`,
`ReaderServed`, `FaultFinishes`, `ReaderFinishes`, `Terminates`, `RTCReadReturns`,
`EveryTerminalRuns`), since fairness and `ENABLED` are outside the prover. The
violated properties of section 3 are false, and TLC's counterexamples are the
evidence.

## 5. Not modelled

* Boot (`kernel.c`, `boot.S`, descriptor tables): straight-line initialisation
  that ends in `Init`; of `idt_init` only that every gate is an interrupt gate is
  used, as the reason why handlers and system calls start with IF = 0.
* What kernel stacks hold, and so what a terminal does that is resumed on frames
  which a restarted shell has overwritten; that they were is modelled
  (`overwritten`).
* General registers across `PIT_interrupt_handler`, which saves none (`pit.c:63`):
  the code it resumes goes on with those of another terminal. The models assume
  that they survive. Unoptimised code keeps a value in a register for a few
  instructions only, but in those windows the code may do something else.
* Graphics mode, fonts and sound: port I/O and data.
* Command parsing, arguments and the program image: `execute` succeeds or fails.
* The entries of the page tables, and what a program draws through `vidmap`; only
  which directory is loaded and who has the window.
* The attribute bytes of the screen, `printf` and the string and memory functions
  of `lib.c`: sequential, and without state of their own.
* Mouse packets and initialisation (port I/O), and what a click does to
  `typed_buf`.
* `set_handler` and `sigreturn`, which return 0, and `tests.c`, used as a source
  of expectations.

## 6. Plan

Left for later, in this order:

1. Types without hypotheses for `Tasks` and `Keyboard`: how much of `TypeOK`
   survives `EarlyInput`, a hidden caller of `vidmap` and an impatient user.
2. `WholeFile` under a weaker hypothesis than `Exclusive`: readers may overlap as
   long as none is between the read that sets `last_round` and the one that
   clears it.
3. A converse of the exceptions of `PromiseKeptOtherwise`: each of the three named
   steps changes only the text or the cursor of the terminals it names.
4. The hazards of `PROJECT.json` without a property: a click's effect on
   `typed_buf`, what lies behind the newline in `share_buf`, `getargs`.
