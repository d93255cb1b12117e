# A TLA+ verification of KernelSO

KernelSO is a small 32-bit x86 kernel: it boots from GRUB into the higher half,
manages physical frames and a heap, prints on the VGA text screen and the serial
port, and echoes the keyboard from an interrupt handler. This directory holds
TLA+ models of its components, the TLC configurations that check them on small
instances, and proofs, checked by TLAPS, that the main properties hold for every
value of the constants. `PROJECT.json` lists the runs, the line-by-line map from
definitions to source, the mutants that show each property can fail, the
findings, the hazards and the theorems.

## 1. Inventory

The kernel that the Makefile builds consists of `kmain gdt interrupt pic keyboard
framebuffer serial paging pmm heap fs` (.c) and `loader io gdt_asm
interrupt_handlers program paging_asm` (.s). `logger.c`, `fb.c` and the copies
under `iso/boot/` are not compiled; `KernelSO-main/` is an older kernel with a
user-mode demonstration. `com1.out` is the serial log of one boot.

| Component | State | Operations | Correct when | Hard because |
|---|---|---|---|---|
| Physical memory manager (`pmm.c`) | bitmap, total, used | `pmm_init`, `pmm_alloc_frame`, `pmm_free_frame`, the counts | no frame is granted twice, leaks, or overlaps reserved memory; the counter agrees with the bitmap | rounding at both ends of memory, the search by whole words, long call sequences |
| Heap (`heap.c`) | `base`, `freep`, block headers in the heap itself | `heap_init`, `kmalloc`, `kfree` | blocks tile the region; the list is sorted, circular, merged; a request fails only if nothing fits | pointer surgery in a circular list, `freep` anywhere, size arithmetic |
| Memory set-up (`kmain.c`) | `test_frame` | Multiboot sizes → `pmm_init`, a probe, paging, heap | the manager's contract is kept; nobody else owns a granted frame | the refused probe; regions that two components both own |
| Text screen (`framebuffer.c`) | video memory, CRTC index, cursor registers | cell, string, line, area, scroll, cursor | writes stay on the screen | four port writes share an index register with the interrupt handler |
| Keyboard console (`keyboard.c`, `keyboard_handler`) | `cursor_pos` | glyph, backspace, enter, ignored codes | the screen shows the last lines typed, the cursor at their end | the edges of the screen |
| Keyboard interrupt path (`kmain.c`, `keyboard_init`, `pic.c`, `interrupt.c`) | 8042 buffer and configuration, PIC mask/request/service, interrupt flag, kmain's place | initialisation, delivery, acknowledgement, return | no key is lost, repeated or reordered; no wakeup is lost | a key may come at every step; edge-triggered requests; late replies |
| Interrupt stubs and IDT (`interrupt_handlers.s`, `interrupt.c`) | stack, registers, IDT entries | 256 stubs, `interrupt_handler`, its log | registers, flag, stack and place are restored; the handler knows its vector | error codes; an NMI inside a handler; exceptions that return to the faulting instruction |
| Serial port (`serial.c`) | UART registers, FIFO | initialise, write | every character is sent, in order, at the speed meant | kmain and the handlers poll and write the same UART |
| Paging, loader, GDT (`loader.s`, `paging.c`, `paging_asm.s`, `gdt.c`, `gdt_asm.s`) | CR3, CR4, CR0, TLB, two page directories, GDT, segment registers | the switch to the higher half, then away from the identity map | no access to what is not mapped, or mapped elsewhere | the order of the steps, under running code; stale translations |
| Logger (`logger.c`) | `log_level`, `logger_x`, `logger_y` | log with prefixes, scroll, clear, status line, blink | the message is on the screen and agrees with the serial line; the status line stands | prefixes near the edge; the reserved status line |
| User-mode demonstration (`KernelSO-main/`) | page tables, user page, iret frame, segments, ring | build, copy, activate, go to ring 3, the program | ring 3 has what it needs and nothing of the kernel's | two levels of tables; no IDT and no TSS: any fault is the end |
| File system (`fs.c`), `vfs`, `inode` | one pointer | none that does anything | – | – |

How they interact: `kmain` calls everything in one fixed order with interrupts
off, enables them (`kmain.c:233`), goes on printing, and then halts in a loop. From
then on `interrupt_handler` runs for interrupts and exceptions; for IRQ1 it calls
`keyboard_handler`. The handlers and `kmain` share video memory, the CRTC and the
serial port without any lock. The memory manager and the heap are called from
`kmain` only.

## 2. Modules

| Module | What it is |
|---|---|
| `FrameAllocator` | abstract: a pool of frames, grant, refuse, return |
| `Pmm` | `pmm.c`, implements `FrameAllocator`; `PmmProofs` its theorems |
| `BootMemory` | the memory part of `kmain`, composed with `Pmm`; `MCBootMemory` the instances of both; its theorems are in `PmmProofs` |
| `BlockAllocator` | abstract: requests for units in a row, answered unless none fits |
| `Heap` | `heap.c`, one step per turn of a loop, implements `BlockAllocator`; `MCHeap`, `HeapProofs` |
| `TextWindow` | abstract: the last lines of a text, with type, erase and new line |
| `Screen` | operators for `framebuffer.c` and the CRT controller |
| `Keyboard` | `keyboard_handler` on a `Screen`, implements `TextWindow`; `KeyboardProofs` its theorems |
| `KeyboardIrq` | from `gdt_install` to the hlt loop against the interrupt handler, the 8042 and the PIC; uses `Keyboard`; `MCKeyboardIrq`, `KeyboardIrqProofs` |
| `Serial` | the transmitting UART and `serial.c` |
| `Interrupts` | gates, stubs, `interrupt_handler` and a `kmain` that prints, on one stack, over `Serial`; `InterruptsProofs` |
| `Descriptors` | what `gdt_set_gate` encodes and what the processor decodes |
| `Boot` | `loader.s`, `paging_init`, `gdt_install` and the rest of `kmain` against page directories and TLB; `BootProofs` |
| `Logger` | `logger.c` on a `Screen` and a serial line; `MCLogger`, `LoggerProofs` |
| `UserDemo` | the older kernel's way to ring 3 and its user program; `MCUserDemo`, `UserDemoProofs` |

### Pmm

`total`, `used` and `bitmap` are the statics of `pmm.c`; `bitmap` is the set of the
bits that are 1, and `Searched` keeps the fact that `pmm_alloc_frame` looks at whole
32-bit words only. `machine` is the argument of `pmm_init`, `held` what clients have.
Each function is one action: nothing preempts them. Products and sums of addresses
wrap at `AddressSpace` (2^32). Clients free only what they hold.

### BootMemory

`pc` walks through `kmain` lines 143–221. The boot loader may give no memory sizes,
in which case the manager is never set up. When `kmain` is done, `Serve` lets any
client use the manager as its header says.

### Heap

Addresses count units of one header (8 bytes). `nxt` and `size` are the two words
of a header; `Stale` marks words that the code no longer reads. `kmalloc` and `kfree`
are entered by one action and then take one step per turn of their loop, so that
their termination is a property and not an assumption. `asked` remembers what a
client asked for. Clients free a block once and write only inside it.

### Screen and Keyboard

`cells` and `crtc` are video memory and the cursor registers; colours are left out
because no decision reads them. `Screen` has an operator for each function of
`framebuffer.c`, which the keyboard, `kmain` and the logger compose; the four port
writes of `fb_move_cursor` exist one by one (`MoveCursorOutb`) and together.
A scan code is what the handler's table makes of it:
a glyph, Backspace, Enter, or Ignored (no entry, or the release of a key; Tab and
Escape, which the table maps to characters, are glyphs to the code).
The refinement maps `text` to the cells before `cursor_pos`. One detail of the code
shows in `TextWindow`: when the screen is exactly full, enter begins the line that
scrolls in, without an empty line.

### KeyboardIrq

The hardware: `typed` and `sent` are what the keyboard has sent and what has reached
the output buffer `out`, whose last byte stays readable when the buffer is empty;
a byte is the number of a key, or 0 for anything else. `asked` is a pending command
0x20. The PIC sets its request when the line (buffer full and enabled) rises. If the
line falls before the request is served, an 8259A forgets the request; the machine of
`com1.out` serves it, as the log shows (an interrupt before any key was pressed, scan
code 0x61, which is the configuration byte). `setup` chooses, and both kinds
are checked, as are controllers that reply after `keyboard_init` has given up. Only IRQ1 is unmasked.

The program: `kmain` names the call `kmain` is at, `After` their order, `step` the
character of the prompt or the port write of `fb_move_cursor`; `kmain` moves only
while `handler = "none"`. The handler has three steps: it reads the buffer and
runs the whole of `keyboard_handler`, acknowledges, returns. These are separate
because a key may arrive between them; nothing else can, as the gate clears the
interrupt flag. Between its test of the status port and its read `keyboard_init` is not
split: only the program empties the buffer, so the test cannot become stale.

Left out: the serial debug output (it is in `Interrupts`); the module list that `kmain` hands to
`fs_init`, at which `kmain` never arrives with a module (`Boot`); the other bits of the
configuration byte (a scan code that is taken for it scrambles those too); the keyboard's own
16-byte buffer, which `MaxKeys` keeps below its limit; masked IRQs; exceptions; registers and
stack (they are in `Interrupts`).

### Serial and Interrupts

`Serial` is the driver's side of COM1: the registers that `serial_init` writes, the divisor
latch behind two of the ports, the FIFO (one place while it is off), and the transmitter. A
character written to a full FIFO is lost; the line status says "empty", never "has room". The
driver's operators are programs, that is sequences of port writes, and one character is a poll, a
test and a write.

`Interrupts` runs programs on one processor: `eip` is a program and a place in it, `regs` four
general registers, `stack` the words pushed, the last first. The stubs are the instructions of
`interrupt_handlers.s`: the dummy or real error code, the vector, the saving of the registers, the call, the
restoring, `add esp`, `iret`. `interrupt_handler` prints `Message` characters, clobbers
the caller-saved registers as a C function may, and returns. `kmain` initialises the port,
prints a first text with interrupts off (`BeforeSti`, `kmain.c:93-227`), enables them, prints that it has
(`BeforeModules`, line 235), looks for modules, and prints the rest (`KmainLength`, lines 242 and 251). When the boot
loader announces modules the read of their list is a page fault for ever, and the rest is never printed: `TextArrives` asks for
the whole text without modules and for what comes before the read with them. An IRQ may come whenever the flag is
on, an NMI at any instruction from `idt_init` on (`IdtLoaded`; not inside an NMI, up to its iret). Before
`idt_init` the table is the boot loader's, and what an NMI does then is not modelled. `pic_init`, `idt_init` and `keyboard_init`
are the instruction before `sti` here, as they print nothing; they are in `KeyboardIrq`. Characters are tagged with who writes them, `kmain` or
the handler of a vector, and with their place in its text. `frames` is a history of what each interrupt found. A read of the line status,
the test and the write are three steps, so that a handler fits between any two. The calls of
`keyboard_handler` and `pic_acknowledge` are in `KeyboardIrq`.

### Descriptors and Boot

`Descriptors` has the six fields that `gdt_set_gate` makes of base, limit, access and granularity
and the reading of them, in weights and remainders of integers. `Boot` sees memory in pages of
4 MB. `Reached(v)` is the set of physical pages an access to `v` may end up in: the entry of the
directory in use and every translation the TLB still holds. The TLB fills itself with any mapped page and
drops any entry at any time; only a load of CR3 empties it, so that a stale entry is a possible
behaviour wherever the hardware allows one. `pc` names the steps; `loader`, `paging_init` and
`kmain` give their order, and `Lands` says for each step which pages it touches (the code, the stack,
the tables it writes, the Multiboot record) and where they must be. Before `lgdt` the descriptor table is the boot
loader's, which paging_init has unmapped. A page fault runs the handler if there are gate, segment and
stub, else the processor shuts down; it returns to the instruction that faulted.

### Logger

A call of the logger is one action but for the loop of `logger_write_with_color`, which takes a step
for each character of the message (`turn` counts them): it runs on one thread, no handler calls it, and the
next call begins when the loop is over. `Page` is the logger's view of the screen. `said`, `whole`
and `intact` are histories: the last message, whether its prefix fitted, and whether the status
line is still the one `logger_init` wrote. `kfatal` never returns; its blinking is an action of
its own. As nothing links the logger, its callers are any sequence of calls.

### UserDemo

Addresses count words, pages are numbered; `tables` are the three page tables, `Permitted` and
`May` the processor's two-level walk with its rights. `frame` (where the linker has put the two user
pages) and `payload` (size and link address of the program) are chosen in `Init`. The kernel's steps
are those of `user_mode_start_demo` and `enter_user_mode` down to the five words for `iret`; the
user's are `start.s`'s pushes, the reading of the message and the writes to the screen. Any fault
shuts the processor down: there is no interrupt table.

## 3. Runs

Passing runs:

| Run | Instance | Shows |
|---|---|---|
| `memory` | 16 frames, words of 4, five machines: full words, a partial word, half a frame, and two whose size in bytes wraps, to no frame and to nine | of `Pmm` under `kmain`: `OwnershipExact`, `GrantedFramesUsable`, `FreeCountExact`, `RefusedOnlyWhenFewLeft`, refinement of `FrameAllocator`; of `kmain`: `ProbeIsNeutral`, `KmainKeepsContract` (its steps are steps of `Pmm`) |
| `heap` | 9 units; requests of 0, 2, 3 and 5 units and one that never fits | tiling, sizes, sorted list, merging, `CallsReturn`, refinement of `BlockAllocator` |
| `keyboard` | 3×2 screen, two letters and blank | `BlankAhead`, `CursorShown`, refinement of `TextWindow` |
| `keyboard_irq` | 2×3 screen, 3 keys at any time, both PICs, every firmware setting; late replies where the firmware has enabled the keyboard | `KeysHandledInOrder`, `PendingByteIsSignalled`, `ReadBytesNotHandled`, `EveryKeyHandled` |
| `interrupts` | one IRQ, NMI and page fault, 3 of them at most, at any instruction; with and without modules; FIFO of 3, messages of 2 characters, one character of `kmain`'s before `sti`, one after it and one after the module list | every interrupt returns to what it found (`ReturnsRestore`), `HandlerToldVector`, `NothingLost`, `LineSpeed`, `LogReadable`, `TextArrives`, the bound on the stack (`TypeOK`) |
| `boot` | directories of 6 entries, higher half from 3; 0, 1 or 2 modules; any TLB | `AccessesLand`, `HigherHalfOnly`, `InterruptsReceivable`, `BootsWithoutModules` |
| `logger` | 3×3 screen, prefixes of 0, 1 and 2 glyphs, messages that are null, empty, broken, or longer than a line and than `serial_write`'s limit; 7 calls | `MessageStands`, `SinksAgree`, `StatusLineStands`, and that the logger's line stays on the screen (`TypeOK`) |
| `user_demo` | pages of 8 words, tables of 6, three frames for the user's two pages, programs below, at and above a page, linked right and wrong | `UserIsConfined`, `KernelGoesOn`, `UserPagesServe`, `RingThreeSealed`, `FittingMessageShown` |

The type invariants that TLAPS proves for every value of the constants are not repeated in the
runs, except `TypeOK` of `interrupts` and `logger`, where it also bounds the stack and the logger's place.

The bounds reach every branch. Frames: every rounding case and an
exhausted manager. Heap: exact fits, splits, failures, merges on either
side and on both. Screen: filled, scrolled and erased. Keys: three are enough for one
that is read by `keyboard_init`, one in the buffer and one waiting, and for a request
that is served twice. Interrupts: `MaxInterrupts` = 3 is one inside another and one after it; two
can be nested and no more, an NMI in any handler, as gates clear the flag. `FifoDepth` = 3 is the
least for which `NothingLost` can hold and the point of the run: after its poll `kmain` may be
preceded by one character of a handler's that had polled too, and one of an NMI's inside that handler; with
2 the run fails, the UART has 16. Boot: six directory entries, three in
each half, leave entries that the loader maps and entries that it does not in both. Logger: seven calls fill the screen, scroll it twice and come back to
the edge; `MaxColumn` caps `logger_x`, which prefixes of empty messages push on without end;
`SetLevels` and `SetPlaces` hold the extremes and one value out of range. The values of constants are scaled
down, never the structure: `Pmm` keeps `WordBits`, `BlockSize` and the wrap as parameters, `Screen` the
byte size of the CRTC's registers (3 or 4 here, so that both bytes of the cursor vary), `Interrupts`
the halves of a stub's address (`HalfWord`, with the stubs on both sides of a boundary).

Each of the following runs violates what a comment, a header or a message of the code
says; the property is right by the documentation and wrong for the code:

| Run | What happens |
|---|---|
| `boot_memory_heap` | the heap's own frames are granted to clients |
| `keyboard_irq_text` | a key between `sti` and `keyboard_set_cursor` overwrites the first line |
| `boot_modules` | with two modules `kmain` reads their list at its physical address, which is unmapped; the handler returns to the read for ever |
| `user_demo_message` | the user program is linked for address 0, reads its message in a page of the kernel's, and the machine shuts down |

Smaller edges that the models show and no run asks about: the frames of a last partial word are counted
as free and never granted (`RefusedOnlyWhenFewLeft` bounds how many); on a machine without a free frame `kmain` gives the
refused probe's 0 back and frees frame 0, which is reserved (the theorems about `kmain` exclude
such machines by name, `Roomy`); a `kmalloc` within a header of 2^32 wraps and gets a block of one
header (`NoWrap`); a scroll takes away the status line, though `logger.c:10` reserves line 0 for it; a PIC that keeps withdrawn requests makes the handler read a byte a second time
(`KeysHandledInOrder` allows for it); after a character in the last cell the visible cursor is set to
`FB_SIZE`, one past the screen (`framebuffer.c:60` allows 0 to 1999); a key between two of the four port
writes of `keyboard_set_cursor` leaves the visible cursor elsewhere until the next key; when the
reply to command 0x20 is late, `keyboard_init` returns without having enabled the keyboard
and tells nobody. A machine where that leaves the keyboard off is dead to the keyboard, which is
why the slow machines of `keyboard_irq` are those whose firmware has enabled it. `kfatal`'s blinking clears
the message it has just shown.

Deadlock is checked except where the system stops for good: in `KeyboardIrq` and `Interrupts` the processor
halts once the bounded typing or interrupting is over, in `Logger` after `kfatal` and after `MaxCalls`,
in `UserDemo` in the user's endless loop or in shutdown.

Fairness. `heap`: a call that was begun goes on (there is no preemption that could
stop it for good). `keyboard_irq`: `kmain` and the handler go on while they can, a pending
interrupt is taken when interrupts are on, and the 8042 moves a waiting byte to its empty
buffer. Nobody is assumed to type, so `EveryKeyHandled` speaks of keys that were typed.
Unless `slowReply` holds, `keyboard_init` waits for the reply however long that takes, which
stands for a controller that answers within the 10000 polls. `interrupts`: the processor executes
and the UART sends; no interrupt is assumed to come. `boot` and `user_demo`: the processor executes; of the TLB nothing
is assumed.

## 4. Proofs

All theorems hold for every value of the constants that satisfies the named
assumptions of the module (`PmmAssumption`, `HeapAssumption`, `ScreenAssumption`, ...).

`PmmProofs`. The invariant `PmmInv` conjoins the types, what `pmm_init` made of the size
of memory (`TotalExact`), `OwnershipExact`, that clients hold addresses of searched, unreserved
frames (`HeldAreFrames`), and the counter as a cardinality (`UsedExact`). Ownership alone is not
inductive: that a freed frame gives back its own bit, and no reserved one, needs
`HeldAreFrames`, and the counter is exact only together with the bits it counts. From it follow
`TypeCorrect`, `Ownership`, `GrantsUsable`, `FreeCount`, `AllocFresh`, `RefusedLate` (the frames left over are those of
one partial word) and `Implements` (initial states map to initial states, each action to its abstract
one or to a stutter).

`PmmProofs`, about `kmain`. `ProbeInv` adds to `PmmInv` what `kmain` has in its hands at each step. Under the stated
assumption that every machine is `Roomy` (its probe succeeds, or it has no memory at all) every step of `kmain`
is one of the manager's (`ContractKept`), and so all that is proved of the manager holds of the kernel; and the probe
leaves no trace (`ProbeNeutral`).

`HeapProofs`. `HeapInv` conjoins the types, the shape of the list and the blocks
(`ListInv`: sorted, merged, no two blocks overlap, no unit is left out), and facts about the
local variables in the middle of a loop: what `kmalloc` has passed is too small
(`SearchInv`), and `kfree` walks free blocks with a client's block in hand (`WalkInv`). That a
search which fails has seen every block, and so that `heap.c` implements its abstract
specification, needs `SearchInv`: the turns of the loop are stutters of `BlockAllocator`. From it follow
`TypeCorrect`, `Sorted`, `Coalesced`, `Tiled`, `Whole`, `Implements` and, under the
assumption `NoWrap` that no request is within a header of `SizeMod`, `BigEnough`. `Advance` is the half of
`CallsReturn` that needs no fairness: every turn ends the call or shortens `Distance`, the addresses from
where the search is, upwards and round past `Base`, to where it ends.

`KeyboardProofs`. `TypeOK`, `BlankAhead` and `CursorShown` are inductive together, as
`ConsoleInv`: the cursor stays within the screen because a full screen scrolls, and a
cursor that is one byte's range too far could not be shown (`BytesOfPlace`, for every screen
with fewer places than the square of `ByteSize`). `Implements` maps each key to a step of `TextWindow`; enter in the
last line needs `BlankAhead`, for the text that it fills up with blanks is on the screen already.

`KeyboardIrqProofs`. `IrqInv` follows the boot: up to `sti` no handler has run and `keyboard_init` has read
every key that left the output buffer (`EarlyQuiet`); from the first drain on a raised line has a
request or a handler on its way (`LineSignalled`); a PIC that forgets withdrawn requests holds one only while the
line is raised (`RequestsStand`). With `LastKey`, the byte in the buffer is the last key sent, the handler's byte
is then the next key, and not one read before. `LineSteps` sorts all actions by what
they do to the line, so that the two invariants about it have five cases and not twenty.
`DroppedRead` is needed because `KeysHandledInOrder` says nothing of its bounds while its interval is empty.

`BootProofs`. `BootInv` says what each step has set up for the next ones, and `TlbAgrees`: every translation in
the TLB is one of the directory in use, because no directory changes while it is in use and a load of CR3 empties the
TLB. `AccessesLand` alone is not inductive: whether a step lands depends on what the TLB may hold.
`BootAlwaysAdvances` is the half of `BootsWithoutModules` that needs no fairness. `SegmentsReadBack` is about
`gdt_set_gate` for any base of 32 bits and limit of 20, not only the entries this kernel makes.

`UserDemoProofs`. `UserInv` gives tables, segments, the frame on the stack and the ring as functions of `pc`; from
the three tables in closed form `Leaf` is computed for any page, and with it what ring 3 can reach.
`FittingAlwaysShows` is the half of `FittingMessageShown` that needs no fairness: a program that fits and is linked where
it is loaded never faults, and shows its message from the first character to the last. It assumes of the addresses
that the code page begins with the program and that the three words pushed lie in one page (`Placed`; 0x00400000
and 0xBFFFFFFC do), and of a program that it contains its message, without a NUL inside (`Contained`).

`InterruptsProofs`. `ReturnInv` says, for each instruction of a stub, how many words it has put on the stack
over what its interrupt found (`Depth`, `Above`) and which registers it has changed or put back (`RegistersAt`).
`ReturnsRestore` alone says nothing before the iret; and the running stub alone is not enough, because
what runs after an iret is known only from what was interrupted: so the invariant holds the same of every frame
under the last (`Interrupted`). `ReturnInv` does not bound the nesting nor use the interrupt flag, and a stub may be at any
address below the square of `HalfWord` (`GateLeads`), so the same argument
would carry over to handlers that enable interrupts. `Nesting` adds flag and NMI mask: nothing, one handler, or an NMI's
handler inside another one. With `SetUp` (how far `serial_init` is, and that nothing else runs meanwhile) follow
`TypeCorrect`, the 11 words of stack for each handler included, and `SpeedAlwaysSet`.

`NothingLost` is not inductive: a writer that has polled writes at any time later, whatever is in the FIFO by then.
`WaitingFew` counts such a writer, running or interrupted, as one more character in the FIFO, and there are never more
than three of them together: a poll that succeeds adds one to an empty FIFO and to at most two interrupted writers, a
write turns one of them into a character, interrupt and iret only move them (`PendingKept`). `CharactersNeverLost` has
`FifoDepth >= 3` as its one hypothesis. `LogReadable` needs to know what is under way: where `kmain` is, interrupted
or not (`KmainOrder`), and that the message of each handler on the stack can go on where it is (`UnderWay`), which during an NMI's
handler holds of the one below as long as the NMI's has not begun to write (`Before`), and again once its message is whole (`After`).

`LoggerProofs`. `LoggerInv` conjoins four things that hold at every turn of the loop. `Fits`: the place is on its
line unless a prefix has pushed it past the edge, and then nothing of the message is written yet.
`MessageStands`: the last line of what has gone through the loop stands before the place. `Sinks`: what the serial line got of this call is the prefix and the same characters.
`Status`: while the status line is intact, the place is below it. A turn writes a character (`PutKeeps`) or
begins a line, scrolling or not (`NewlineKeeps`); the last turn gives the properties at the end of
a call. The message is a sequence of any length on a screen of any size: the induction that a fold over its characters would need is
the one over the steps of the behaviour.

Model-checked only: the liveness properties `CallsReturn`, `EveryKeyHandled`, `TextArrives`,
`BootsWithoutModules` and `FittingMessageShown`, because TLAPS has no rules for fairness and ENABLED. What a proof of
three of them would rest on is proved (`Advance`, `BootAlwaysAdvances`, `FittingAlwaysShows`). Of `EveryKeyHandled` and
`TextArrives` the safety that belongs to them is proved (`KeysAlwaysInOrder`, `CharactersNeverLost`). All invariants and all action
properties that the passing runs check are theorems.

## 5. Plan

What is left, in order:

1. `KeyboardIrq` over `Interrupts`, with the handler's debug output on the serial port between its read and
   its acknowledgement.
2. The keyboard's 16-byte buffer at its limit, and the 8042's input buffer for commands.

Not modelled: `fs.c`, `vfs`, `inode` (no behaviour yet; the only call is behind the fault of `boot_modules`), `io.s`
(single instructions, in the models of the devices), the copies
under `iso/boot` and `fb.c` (not compiled, and equal to what is modelled but for the order of the
divisor's bytes, which is the mutant of `LineSpeed`), build files.
