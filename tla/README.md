# A verification project for the LaptopOS kernel (VVBright-OS)

TLA+ models of the repository's own code (the kernel and the scripts that run as
process 1), checked with TLC on small instances and, where it matters most,
proved with TLAPS for every instance.

## 1. The system

The repository holds about 1800 lines of its own code; the rest is a vendored
copy of GNU GRUB (`grub/`) and a package mirror, which are not modelled.

| Part | Source | State it keeps | Operations |
|---|---|---|---|
| Physical frame allocator | `kernel/memory.c` | bitmap `frames`, `n_frames` | `alloc_frame`, `free_frame` |
| Paging | `kernel/memory.c`, `memory.h` | `kernel_directory`, page tables in frames, CR0/CR3 | `paging_init`, `map_page`, `switch_directory` |
| Kernel heap | `kernel/memory.c` | `heap_start`, `heap_end`, `heap_position` | `heap_init`, `kmalloc`, `kfree` |
| Text terminal | `kernel/terminal.c`, `kernel.h` | row, column, colour, the VGA buffer | `terminal_initialize`, `_setcolor`, `_putchar`, `_write` |
| Interrupts | `kernel/interrupts.c/.h/.s` | IDT, `interrupt_handlers`, the two 8259s | `interrupts_init`, `pic_remap`, `pic_send_eoi`, `interrupt_handler`, the stubs |
| Keyboard driver | `kernel/keyboard.c/.h` | `keyboard_state` | `keyboard_init`, `keyboard_handler`, `keyboard_scancode_to_char` |
| Boot entry | `kernel/boot.s`, `linker.ld` | stack pointer | calls `kmain`, which is defined nowhere |
| Desktop | `kernel/kernel.c`, `kernel/video/` | framebuffer | `kernel_main`, `draw_rect`, `put_pixel` |
| Initramfs | `initramfs/build.sh` | list of devices, what is mounted at `/mnt` | the script `/init`: search, `switch_root`, emergency shell |
| Root file system | `rootfs/build.sh` | programs present, console | the script `/sbin/init`: setup, command loop, power-off |
| Image build | `build.sh`, `kernel/build.sh`, `tools/create-iso.sh` | files | sequential scripts |

How they interact. `map_page` calls `alloc_frame` for page tables and writes
them through pointers that, once paging is on, go through the tables being
built. `keyboard_init` registers `keyboard_handler` with the dispatcher; a key
reaches it through the i8042 controller, the 8259s, an assembly stub and
`interrupt_handler`; it prints with `terminal_putchar` and ends with an end of
interrupt. `docs/phase2.md` ("How It Works") gives the boot order: memory,
interrupts, keyboard, then halting with interrupts on. The desktop kernel
(`kernel_main`) and the Linux-based image (`/init`, then `/sbin/init`) are two
other systems of the same repository and share no code with it.

What is hard here. The keyboard delivers bytes while the handler for the previous
byte runs; requests are edge-triggered, so one that is lost never comes back; two
interrupt controllers each want their own acknowledgement; the allocator hands out
the memory its own tables live in; frame 0 and `NULL` are the same value; the heap
and the terminal have boundaries met only after a long sequence of calls. The
processor walks page tables while `map_page` writes them and keeps what it found.
Disks appear late, or vanish, while `/init` searches them, and process 1 must
not end for a failing command. `PROJECT.json` lists each hazard at its line.

What makes each part correct:

* frame allocator: never grants a frame twice, never loses one, grants the
  lowest free one, refuses only when all are in use;
* paging: a page reaches the frame it was last mapped to and nothing else; the
  identity map survives; tables belong to the kernel alone; no page grants more
  than was asked; no translation in use is older than the tables, except where
  the code leaves it so;
* heap: blocks are disjoint, aligned and inside the heap; refusals are final;
* terminal: no store leaves the screen; scrolling loses no line;
* interrupts and keyboard: every byte is decoded once, in order, eventually;
  every interrupt is retired; no device's interrupt is taken for an exception;
  modifier flags and letter case follow the keys held; an exception is reported
  under its own name (it is not: finding 4);
* process 1: the first bootable disk wins, nothing piles up on `/mnt`, a live
  system boots (it does not: finding 5), the boot always ends, and process 1 ends
  only when its user, its disk or the programs left out of the images end it;
* desktop: every pixel lies in the framebuffer, the picture is complete.

## 2. The modules

| Module | What it models |
|---|---|
| `FrameSet` | abstract: a pool granting its least frame |
| `FrameAllocator` | the bitmap and its scan; implements `FrameSet` |
| `FrameAllocatorProofs` | its theorems |
| `Paging`, `PagingProofs` | `paging_init`, `map_page`, the page walk, the translation cache; instantiates `FrameAllocator`; its theorems |
| `Heap`, `HeapProofs` | the bump heap with wrapping sums; its theorems |
| `PaperRoll` | abstract: text printed on an ever-growing roll |
| `Terminal`, `TerminalProofs` | the VGA terminal, implements `PaperRoll`; its theorems |
| `Keyboard` | decoding of a scancode: tables, modifiers, case |
| `Interrupts` | the 8259 pair (external), `pic_remap`, `pic_send_eoi`, dispatch, the stubs' argument |
| `Input`, `InputProofs` | composition: typist, i8042, 8259s, processor, boot order, dispatcher and handler; its theorems |
| `Initramfs` | the script `/init` and the disks it searches |
| `Userland`, `UserlandProofs` | composition: `Initramfs`, then the script `/sbin/init` and its console; its theorems |
| `Framebuffer`, `FramebufferProofs` | the desktop drawn by `kernel_main`; its theorems |
| `MC*` | constants for TLC, one per checked module |

Operators defined directly before a definition and named for a mistake
(`SetWrongBit`, `ForgetsSlave`, `AlignDown`, ...) are its mutants: each run's
properties are known to fail when the definition is replaced by one of them.

**FrameAllocator.** A word of the bitmap is the set of its one bits. Addresses
are divided by `PAGE_SIZE`, so the address returned is the frame number and
`NULL` is 0. `FirstFree` is the pair of loops of `first_free_frame`. `owned`
is a history variable: what clients were given and have not freed. `free_frame`
does not check its argument; the model's clients free only what they own.

**Paging.** Every frame of `mem` is read as a page table whose entries start
with arbitrary contents (`Junk`). A call of `map_page` is cut wherever the
processor can see the difference, and `call` says how far it is. `MapInTable`
enters it when the table exists; otherwise `MapNewTable` puts the new frame into
the directory, present, and `ClearTable` is the loop that clears it. Then each of
the six stores into the page's entry is a step of its own (`StoreEntry`, in the
order of `Fields`: frame, present, then the rights). The stores go through physical
pointers, which `Reach` translates once paging is on; they fault where nothing
is mapped. `Walk` gives the frame and the rights both levels grant. `Fill` is
the processor caching a walk between any two of these steps; the cache is followed
for the pages in `Watched` only, since the property about it speaks of one page at a
time. The clearing loop is one step: what a walk could find in its middle is what
it finds before it, with the frame possibly 0, and the page is exempt in either case.

memory.c has no `invlpg`, so what is cached too early stays. Three histories record
for which pages that can be: `remapped`, mapped twice; `exposed`, cached from a table
not yet cleared; and `early`, cached between the stores of their own entry.
`TranslationsCurrent` says that every other page is translated as the tables say,
and that a page in `early` reaches the right frame with no right too many but
writing: present is stored before rw, over the loop's rw = 1, so a page asked
read-only may be cached as writable.

Clients hold and map frames; their own stores are not modelled, so the model can
go on after a client was granted a frame of the kernel's (which `paging_reserved`
shows) and reaches the last frame. A *page table* may also come to lie in reserved
memory or above the identity map (`~Intact`). The call that put it there goes on as
the code does: its stores fault, or hit whatever its pointer reaches. No further call
is modelled then, since the kernel, its bitmap or its tables may be overwritten; the
properties about the tables' contents are stated for `Intact` memory.
`FaultsExplained` says when `map_page` faults: without a frame left, where the store
through `NULL` meets the unmapped page 0, or with a table above the identity map,
which happens with frames left. Clients do not free frames they have mapped: there
is no `unmap_page`.

**Heap.** `kmalloc` with its two sums modulo `WORD`. Before `heap_init` the
variables are zero and every request is answered with a null pointer.

**Terminal.** The screen is one array indexed as in the code; `stray` records a
store outside it. `gone` keeps the lines scrolled off, so that `gone` followed
by the screen is the roll of `PaperRoll`. `terminal_row` may run past the
screen on newlines; in the roll the cursor waits on the line below it.

**Input.** One action per handler or device step. `keyboard_handler` is split at
`inb`: the controller may refill its buffer between `KeyboardRead` and
`KeyboardDecode`. Interrupt gates clear the interrupt flag and no handler sets it,
so handlers do not nest; exceptions (`Fault`) may strike anywhere after `lidt`.
`Gate` is the processor's part: an exception without a gate faults again, and for
numbers 20 and 21, which belong to the class of page faults and contributory
exceptions, that second fault makes a double fault, number 8. The boot sequence runs
on the same processor: its steps need `cpu = "main"`, so none follows a fault.
`pic_remap`'s first command word forgets latched requests, and a line that is
already high does not request again (8259A data sheet); `early` records that a byte
was waiting at that moment. Spurious interrupts of either controller occur when
nothing is requested.

**Initramfs, Userland.** One program counter for process 1, whichever script it
runs. A disk holds one of six kinds of contents: ext4 with or without `/sbin/init`;
vfat with `/boot/vmlinuz`, with that and `/sbin/init`, or with neither; something
else. Disks appear under a free name (with any contents) and vanish at any time,
before and after the hand-over; `[ -b ]`, each mount and each file test are steps of
their own, and a file test on a disk that is gone may come out either way. The three
globs are expanded in one step, since the shell does so before the first iteration,
to the one list that holds the names present, sorted as in `Order` (`Expansion`); a
pattern that matches nothing stays as it is and fails `[ -b ]`, so it is left out.
The file system drivers are built in (`kernel/laptopos.config`), so the `modprobe`
lines change nothing. Whether `switch_root` and `poweroff` can be found depends on
the machine that built the images, and so does whether `/bin/bash`, the interpreter
of `/sbin/init`, runs: it is copied if present and without its libraries. `applets`
and `tools` are arbitrary. The exec of `/sbin/init` (`ExecInit`) fails without bash,
and may fail with the disk gone; once bash runs, a disk that is gone may end it at
any step (`DiskFails`). Leaving the emergency shell ends process 1 (`LeaveShell`).
That the initramfs' own `/bin/sh` runs is assumed: it is what executes `/init`.
`reboot` and `poweroff` without `-f` act through process 1, which handles no signal,
or by themselves: both outcomes are allowed.

**Framebuffer.** One step per pixel, per row and per rectangle. The sizes of
taskbar and button are constants; every conversion between `uint32_t` and `int`
is kept.

The constant `STUB_PASSES` separates the C code from the assembly. With
`"vector"` the stubs fulfil the prototype of `interrupt_handler`, and the run
`input` checks the C code against that contract. With `"saved_gs"` they do what
`interrupts.s` does: `call interrupt_handler` with the saved GS and FS on top of
the stack; the run `input_stub` shows what follows. (`interrupts.s` also
invokes its two-argument macro `IRQ` with one argument and pushes the request
number rather than the vector.)

## 3. The runs

| Run | Bounds | What it shows |
|---|---|---|
| `frames` | 3-bit words, 7 frames | bitmap and owners agree; implements `FrameSet`. Two full words and a partial one: holes in either word, a full bitmap, an unmanaged tail |
| `paging` | 5 frames, 3 tables of 4 entries, 4 identity pages, 3 client pages (1 watched), 2 flag sets, memory that held present entries | identity map, mappings and rights as asked, current translations, private tables, faults explained. Two client pages share a table and one needs another; both tables can be created, all frames used up; a table in frame 4, above the identity map, faults although `alloc_frame` succeeded |
| `paging_page_zero` | as `paging` | finding: page 0 is unmapped |
| `paging_reserved` | as `paging` | finding: reserved frames are granted |
| `heap` | 7-bit words, 28-byte heap, sizes 0, 1, 8, 9, 24, 25, four blocks | blocks sound, refusals final. The sizes lie on both sides of alignment and of the heap's end |
| `heap_huge_request` | one size that wraps | finding: it is granted |
| `terminal` | 2 x 2 cells, row up to 4, two scrolls | on-screen stores; implements `PaperRoll`. Newlines run two rows past the bottom |
| `input` | 5 keys, 3 bytes, one device above and one below the keyboard, an exception with a gate and one without (20, delivered as 8) | ordering, retirement, modifiers, case, and that every key is shown |
| `input_stub` | as `input`, 1 byte | finding: the first interrupt halts the machine |
| `boot` | 2 disks, 6 kinds of contents, 2 setup commands | the search, the hand-over, the prompt and every way process 1 can end. Two disks are enough for one to hide or follow the other, to vanish and to come back with other contents |
| `boot_live` | as `boot` | finding: a live system that was found is not booted |
| `desktop` | 9 x 8 pixels, taskbar 4, button 5 x 2 at (1, 3 from below), 8-bit words | stores in the framebuffer, a complete picture at the halt, which comes and stays |

Three bytes are enough for the handler to be overtaken twice and for the
two-shift sequence; interrupts of the devices are not bounded.

`terminal_row` counts newlines modulo 2^32; `MaxRow` keeps the model below that
wrap, which takes four billion newlines without a printed character.

Deadlock is not checked in the `paging` runs (the machine stops on a fault or where
a page table lies wrong), `heap` (every block handed out and freed), the `input`
runs (after an exception the kernel halts), `boot` (the machine may be down) and
`desktop` (`kernel_main` ends in `hlt`).

Fairness. In `Input`, weak fairness of the boot steps, of the
handler's steps and of taking some acknowledgeable request: the processor runs.
Weak fairness of `LoadByte`: the keyboard sends what was typed. Strong fairness
of taking the keyboard's request: a higher request may be taken first again and
again, but a device does not request while its previous request is being served
(`DeviceRequest`), so the keyboard's turn keeps coming. Nothing is assumed of
the typist, the devices, spurious interrupts or faults. In `Userland`, weak
fairness of process 1's own steps: Linux schedules it, and each command it runs
ends. Disks and the user owe it nothing. In `Framebuffer`, weak fairness of the
only thread there is.

## 4. What is proved

Every invariant and every refinement that a passing run checks is also a theorem,
for arbitrary constants under the named assumptions of the modules
(`FrameConstants`, `PagingConstants`, `HeapConstants`, `TerminalConstants`,
`InputConstants`, `UserlandConstants`, `FramebufferConstants`). They ask for no
more than the code sets: `PagingConstants`, for instance, that the bitmap has
whole words (`n_frames % BITS = 0`: 32 divides the number of frames), that page 1
is in the identity map and that clients map pages above it; `UserlandConstants`
that `Order` lists devices, each once.

* `FrameAllocatorProofs`: `TypeCorrect`, `BitmapCorrect`, `Refinement`. The
  lemmas show that word and bit address frames one to one (division with
  remainder by an arbitrary word size), then what setting, clearing and scanning
  mean for frames. `TypeOK /\ BitmapMatchesOwners` is inductive; `Refinement`
  maps each call to `Grant`, `Refuse` or `Release`.
* `PagingProofs`: `PagingTypeCorrect`, `IdentityMapHolds`, `PagesMappedAsAsked`,
  `PagesGrantRightsAsked`, `KeptTranslationsCurrent`, `TablesPrivate`,
  `FaultsJustified`. No property is inductive alone, since each depends on no table
  being overwritten, hence on whose frame is whose. `PagingInv` joins the owners of
  frames with the bitmap, the slots of the directory with the frames of their
  tables, the progress of `paging_init`, what a call of `map_page` has left undone
  at each of its steps, and, as long as every table lies below the end of the
  identity map and outside reserved memory, each entry of each table with what was
  asked for it, field by field for the entry being stored. The lemmas of
  `FrameAllocatorProofs` are used for the bitmap.
* `HeapProofs`: `HeapTypeCorrect`, `HeapBlocksSound` and `HeapRefusalIsFinal`,
  under the hypothesis `RequestsFit` that no request reaches the end of the
  address space (finding 3 shows what happens otherwise). `HeapInv` adds where
  `heap_position` is relative to the heap and to the blocks already given.
* `TerminalProofs`: `TerminalTypeCorrect` and `StoresStayOnScreen`, from type
  correctness (the column stays below the width) and the scroll before the store;
  and `TerminalImplementsRoll`. `Paper(gone, screen)` is the roll; a store into the
  array strikes one cell of one line of it (`PaperStore`: no two cells share an
  index), scrolling appends one blank line to it (`PaperScroll`), and the cursor's
  line is the same before and after the scroll (`CursorArithmetic`). Each action
  then is the roll's action of the same meaning.
* `InputProofs`: `InputTypeCorrect` for any stubs, and for stubs that pass the
  vector (`VectorPassed`, the contract of `interrupt_handler`; finding 4 shows that
  `interrupts.s` breaks it) `WaitingBytesArePending`, `InterruptsRetired`,
  `HaltsAfterFaultsOnly`, `BytesReadOnceInOrder`,
  `FlagsFollowKeys`, `LettersInCase`. `DispatchInv` relates the boot step, the
  interrupt being handled, the in-service registers and the waiting byte.
  `KeysInv` relates the typist to the driver through the bytes: a key is down, or
  held as far as the driver knows, if it was pressed and not released among the
  bytes typed, or decoded (`HeldAfterBytes`); only with that can a release that
  arrives late be told to belong to a key held.
* `UserlandProofs`: `UserlandTypeCorrect`, `MountPointStaysClean`,
  `FirstBootableIsTaken`, `ProcessOneGoesOn`, for any number of disks. `UserlandInv`
  says that the names tried are those before the rest of the list, that a name not
  unplugged since the globs were expanded stands for the same disk, and, at each
  test, what the tests before it have shown of the disk at hand.
* `FramebufferProofs`: `FramebufferTypeCorrect`, `DesktopStaysInside` and
  `DesktopIsComplete`, for every framebuffer with room for taskbar and button and
  fewer than 2^31 pixels. The conversions keep numbers below 2^31, so the three
  rectangles fit; `LoopInv` says that the loop variables stay in the rectangle
  being drawn, and a pixel on the screen is an element of the buffer. `PaintInv`
  says what is on the screen after every single store: the last rectangle that
  covers the pixel and whose loops have passed it.

The inductive invariants were checked by TLC on the runs' instances before they were
proved.

Only model-checked: the liveness properties `EveryKeyIsShown`, `BootEnds` and
`DesktopAppears` (fairness is outside the prover's reach; the safety half of the
last, `HaltsOnDesktop`, is proved), and the violations behind the findings.

## 5. Findings

1. Page 0 is not mapped although the first 4MB are said to be (`paging_page_zero`).
2. The kernel's own frames are granted (`paging_reserved`).
3. `kmalloc` grants sizes that wrap (`heap_huge_request`).
4. The interrupt stubs do not pass the interrupt's number (`input_stub`). For the same
   reason an exception is reported by the saved GS, a number past the end of
   `exception_messages`.
5. A live (vfat) system ends the search but is never booted, since `/init` then asks
   for `/sbin/init` (`boot_live`).

Seen while reading and not turned into runs: the bitmap's fixed place at
0x100000 is also the load address of the image; the keypad's `-` and `+` sit one
entry too high in both scancode tables (0x4B and 0x4F against `SCAN_KP_MINUS`
0x4A and `SCAN_KP_PLUS` 0x4E); extended (0xE0) scancodes are decoded as the keys
they share a code with; a byte that arrives before `pic_remap` silences the keyboard
for good, since its request is forgotten and nothing reads port 0x60 (`early`, exempt
from `WaitingByteIsPending` and `EveryKeyIsShown`); two shift keys share one flag,
which the release of either clears (`bothHeld`, exempt from `ModifiersFollowKeys`),
against `docs/phase2.md`; no GDT is loaded although the gates use selector 0x08;
`enable_interrupts` is never called; a page mapped read-only may be cached as
writable while `map_page` stores its entry, and a page mapped again keeps its old
translation (the exemptions of `TranslationsCurrent`); the directory entry keeps the
flags of the first mapping in its table, so that a right asked for later may be
missing (`RightsAsAsked`).

Of process 1: a disk found after the globs were expanded is never tried; an image
written to a stick with `dd`, as `docs/phase1.md` says, is an ISO 9660 file system,
which the search does not mount; `switch_root` has no link in the initramfs, bash is
copied without its libraries and `poweroff` is not copied into the root file system,
so each hand-over and each `exit` may end process 1; so does pulling the disk, and
leaving the emergency shell (`ProcessOneEnds` names these causes and excludes every
other).

Of the build: `kernel/build.sh:20` copies `../kernel/laptopos.config` from inside
`kernel/linux`, where that path does not exist, so `build.sh` stops in its first
phase; `initramfs/build.sh:112` writes to `build/build/`; `tools/create-iso.sh`
uses `/tmp/grub-efi.cfg` before it is written.

## 6. Plan

What remains is to state more, rather than to prove what is stated: that the frame
allocator inside `Paging` implements `FrameSet` there too; that frames, once
handed to clients and page tables, stay apart in every step (an action property);
and what the heap guarantees to requests that do not wrap when others do.

## 7. Not modelled

* GNU GRUB (`grub/`), vendored, and the package mirror. They make up more than 99%
  of the repository's lines: the models cover most of the repository's own C code
  and scripts and, by lines, almost nothing of the whole. Nothing in the
  repository changes GRUB; modelling another project's file systems and ciphers
  would say nothing about this one.
* The image build scripts: sequential, without state but the files they leave, and
  made of calls to external tools.
* The stubs' saving of registers: only interrupts return through them, by one
  straight path.
* The Windows set-up scripts, `vbsw` and `iso/rootfs/init` (no state); boot.s's
  header and stack.
* Message texts and colours, CR3 alignment, clients' stores into frames the
  allocator wrongly granted, and the contents of the scancode tables beyond which
  key prints, which is a letter and which has two glyphs.
* An interrupt inside `terminal_putchar`: the code prints only before interrupts
  are enabled and inside handlers, which do not nest.
