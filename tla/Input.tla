------------------------------- MODULE Input -------------------------------
(***************************************************************************)
(* From a key to a character on the screen: the keyboard and its i8042     *)
(* controller (external), the interrupt controllers (external), the        *)
(* processor, interrupt_handler() and keyboard_handler(), with the kernel's*)
(* boot sequence before them.                                              *)
(*                                                                         *)
(* kmain() is not in the repository: boot.s calls it and docs/phase2.md    *)
(* gives its order, which ends in halting with interrupts enabled.         *)
(***************************************************************************)
EXTENDS Interrupts, Keyboard, Sequences, FiniteSets

CONSTANTS
    Keys,               \* keys of the keyboard
    MaxBytes,           \* bound on the scancode bytes sent
    Devices,            \* requests of devices without a handler
    Exceptions          \* exceptions the kernel's code may raise

IRQ_KEYBOARD == 1

ASSUME InputConstants ==
    /\ Keys \subseteq Scancodes /\ MaxBytes \in Nat
    /\ Devices \subseteq IRQs \ {IRQ_KEYBOARD, CASCADE, 7, 15}
    /\ Exceptions \subseteq 0 .. 21

VARIABLES
    kmain,              \* where the boot sequence is
    idt, handlers,      \* gates present; vectors with a registered handler
    IF_flag,            \* the processor accepts interrupts
    cpu,                \* what it executes
    number,             \* the argument interrupt_number
    pic,                \* the interrupt controllers
    down, wire,         \* keys held by the typist; bytes still to be sent
    outbuf, obf,        \* i8042 output buffer and its full flag
    scancode,           \* keyboard_handler's local
    keyboard_state,
    typed, handled,     \* history: bytes sent, bytes the handler has read
    held, bothHeld,     \* history: keys down as far as decoded; both shifts
    shown,              \* history: the characters given to terminal_putchar
    early,              \* history: a byte was waiting when ICW1 was written
    raised              \* history: the exception the kernel's code raised

bootVars == <<kmain, idt, handlers>>
kbdVars  == <<keyboard_state, shown, held, bothHeld, scancode, handled>>
wireVars == <<down, wire, typed>>
portVars == <<outbuf, obf>>
vars == <<bootVars, IF_flag, cpu, number, pic, wireVars, portVars, kbdVars,
          early, raised>>

Bytes == 0 .. 255
NONE  == -1

-----------------------------------------------------------------------------
Init ==
    /\ kmain = "memory" /\ idt = {} /\ handlers = {}
    /\ IF_flag = FALSE /\ cpu = "main" /\ number = 0
    /\ \E masked \in {{}, {IRQ_KEYBOARD}} : pic = FirmwarePic(masked)
    /\ down = {} /\ wire = <<>> /\ typed = <<>> /\ handled = <<>>
    /\ outbuf = 0 /\ obf = FALSE /\ scancode = 0
    /\ keyboard_state = ClearedState
    /\ held = {} /\ bothHeld = FALSE /\ shown = <<>>
    /\ early = FALSE /\ raised = NONE

(***************************************************************************)
(* The typist.  A held key may repeat, so a press needs no earlier release.*)
(***************************************************************************)
Send(byte) ==
    /\ Len(typed) < MaxBytes
    /\ typed' = Append(typed, byte)
    /\ wire' = Append(wire, byte)
    /\ UNCHANGED <<bootVars, IF_flag, cpu, number, pic, portVars, kbdVars, early, raised>>

Press(k)   == Send(k) /\ down' = down \cup {k}
Release(k) == k \in down /\ Send(k + 128) /\ down' = down \ {k}

\* The i8042 takes the next byte when its output buffer is empty, and IRQ1 rises.
LoadByte ==
    /\ wire # <<>> /\ ~obf
    /\ outbuf' = Head(wire) /\ wire' = Tail(wire) /\ obf' = TRUE
    /\ pic' = Raise(pic, IRQ_KEYBOARD)
    /\ UNCHANGED <<bootVars, IF_flag, cpu, number, down, typed, kbdVars, early, raised>>

(***************************************************************************)
(* Timers and other devices request at any time, but not while their last  *)
(* request is served: a handler is shorter than a device's period.         *)
(***************************************************************************)
DeviceRequest(irq) ==
    /\ irq \notin pic.irr \cup pic.isr
    /\ pic' = Raise(pic, irq)
    /\ UNCHANGED <<bootVars, IF_flag, cpu, number, wireVars, portVars, kbdVars, early, raised>>

-----------------------------------------------------------------------------
\* The IDT and the controllers; the keyboard may have a byte waiting already.
interrupts_init ==
    /\ kmain = "memory" /\ cpu = "main"
    /\ kmain' = "interrupts"
    /\ handlers' = {} /\ idt' = Gates
    /\ pic' = pic_remap(pic)
    /\ early' = obf
    /\ UNCHANGED <<IF_flag, cpu, number, wireVars, portVars, kbdVars, raised>>

keyboard_init ==
    /\ kmain = "interrupts" /\ cpu = "main"
    /\ kmain' = "keyboard"
    /\ keyboard_state' = ClearedState
    /\ handlers' = irq_install_handler(handlers, IRQ_KEYBOARD)
    /\ UNCHANGED <<idt, IF_flag, cpu, number, pic, wireVars, portVars, shown,
                   held, bothHeld, scancode, handled, early, raised>>

enable_interrupts ==
    /\ kmain = "keyboard" /\ cpu = "main"
    /\ kmain' = "loop"
    /\ IF_flag' = TRUE
    /\ UNCHANGED <<idt, handlers, cpu, number, pic, wireVars, portVars, kbdVars, early, raised>>

-----------------------------------------------------------------------------
\* The processor enters interrupt gate v, which clears the interrupt flag.
Enter(v) ==
    /\ IF_flag /\ cpu = "main"
    /\ cpu' = "dispatch" /\ number' = interrupt_number(Gate(idt, v))
    /\ IF_flag' = FALSE
    /\ UNCHANGED <<bootVars, wireVars, portVars, kbdVars, early, raised>>

Interrupt(irq) ==
    /\ Acknowledgeable(pic, irq)
    /\ Enter(VectorOf(pic, irq))
    /\ pic' = Acknowledge(pic, irq)

\* A request that vanished before the acknowledge: 7, or 15 by the slave.
NoRequest == \A irq \in IRQs : ~Acknowledgeable(pic, irq)

SpuriousMaster ==
    /\ NoRequest
    /\ Enter(pic.master + 7)
    /\ UNCHANGED pic

SpuriousSlave ==
    /\ NoRequest
    /\ Enter(pic.slave + 7)
    /\ pic' = [pic EXCEPT !.isr = @ \cup {CASCADE}]

\* An exception raised by the kernel's own code, anywhere after lidt.
Fault(n) ==
    /\ idt # {} /\ cpu # "halted" /\ raised = NONE
    /\ cpu' = "dispatch" /\ number' = interrupt_number(Gate(idt, n))
    /\ IF_flag' = FALSE /\ raised' = n
    /\ UNCHANGED <<bootVars, pic, wireVars, portVars, kbdVars, early>>

\* interrupt_handler: no handler and not an exception.
UnhandledIrq ==
    /\ cpu = "dispatch" /\ IsUnhandled(handlers, number)
    /\ pic' = pic_send_eoi(pic, number - 32)
    /\ cpu' = "main" /\ IF_flag' = TRUE
    /\ UNCHANGED <<bootVars, number, wireVars, portVars, kbdVars, early, raised>>

\* interrupt_handler: an exception is reported, then cli and hlt forever.
Exception ==
    /\ cpu = "dispatch" /\ IsException(handlers, number)
    /\ cpu' = "halted" /\ IF_flag' = FALSE
    /\ UNCHANGED <<bootVars, number, pic, wireVars, portVars, kbdVars, early, raised>>

(***************************************************************************)
(* keyboard_handler up to inb(0x60): reading empties the output buffer, so *)
(* the next byte may arrive while this one is being decoded.  With the     *)
(* buffer empty, inb returns the last byte once more.                      *)
(***************************************************************************)
KeyboardRead ==
    /\ cpu = "dispatch" /\ IsHandled(handlers, number)
    /\ scancode' = outbuf /\ obf' = FALSE
    /\ handled' = Append(handled, outbuf)
    /\ cpu' = "decode"
    /\ UNCHANGED <<bootVars, IF_flag, number, pic, wireVars, outbuf, keyboard_state,
                   shown, held, bothHeld, early, raised>>

HeldAfter(byte) == IF IsRelease(byte) THEN held \ {byte % 128} ELSE held \cup {byte}

ReturnsWithoutEoi ==
    /\ cpu = "decode"
    /\ keyboard_state' = StateAfter(keyboard_state, scancode)
    /\ pic' = IF IsRelease(scancode) THEN pic ELSE EoiToMaster(pic)
    /\ cpu' = "main" /\ IF_flag' = TRUE
    /\ UNCHANGED <<bootVars, number, wireVars, portVars, scancode, handled,
                   shown, held, bothHeld, early, raised>>

\* The rest of keyboard_handler, and iret.
KeyboardDecode ==
    LET c == CharPrinted(keyboard_state, scancode) IN
    /\ cpu = "decode"
    /\ keyboard_state' = StateAfter(keyboard_state, scancode)
    /\ shown' = IF c = NoChar THEN shown ELSE Append(shown, c)
    /\ held' = HeldAfter(scancode)
    /\ bothHeld' = (held' \cap Shifts # {} /\ (bothHeld \/ Shifts \subseteq held'))
    /\ pic' = EoiToMaster(pic)
    /\ cpu' = "main" /\ IF_flag' = TRUE
    /\ UNCHANGED <<bootVars, number, wireVars, portVars, scancode, handled, early, raised>>

Boot == interrupts_init \/ keyboard_init \/ enable_interrupts
Dispatch == UnhandledIrq \/ Exception \/ KeyboardRead \/ KeyboardDecode

Next ==
    \/ \E k \in Keys : Press(k) \/ Release(k)
    \/ LoadByte
    \/ \E irq \in Devices : DeviceRequest(irq)
    \/ Boot
    \/ \E irq \in IRQs : Interrupt(irq)
    \/ SpuriousMaster \/ SpuriousSlave
    \/ \E n \in Exceptions : Fault(n)
    \/ Dispatch

(***************************************************************************)
(* The processor runs, the keyboard sends what was typed, and a request is *)
(* taken sooner or later.  Requests of higher level come back, so for the  *)
(* keyboard's this is strong fairness.                                     *)
(***************************************************************************)
Fairness ==
    /\ WF_vars(Boot) /\ WF_vars(Dispatch) /\ WF_vars(LoadByte)
    /\ WF_vars(\E irq \in IRQs : Interrupt(irq))
    /\ SF_vars(Interrupt(IRQ_KEYBOARD))

Spec == Init /\ [][Next]_vars /\ Fairness

-----------------------------------------------------------------------------
TypeOK ==
    /\ kmain \in {"memory", "interrupts", "keyboard", "loop"}
    /\ idt \subseteq Vectors /\ handlers \subseteq Vectors
    /\ IF_flag \in BOOLEAN /\ cpu \in {"main", "dispatch", "decode", "halted"}
    /\ number \in Gates \cup {GS} /\ pic \in Pics
    /\ down \subseteq Keys /\ held \subseteq Scancodes
    /\ wire \in Seq(Bytes) /\ typed \in Seq(Bytes) /\ handled \in Seq(Bytes)
    /\ outbuf \in Bytes /\ scancode \in Bytes /\ obf \in BOOLEAN
    /\ keyboard_state \in KeyboardState
    /\ shown \in Seq(KeyChars)
    /\ bothHeld \in BOOLEAN /\ early \in BOOLEAN
    /\ raised \in Exceptions \cup {NONE}

(***************************************************************************)
(* keyboard_handler reads every byte the keyboard sends once and in order, *)
(* though the controller refills its buffer while the handler still runs.  *)
(***************************************************************************)
Waiting == IF obf THEN <<outbuf>> ELSE <<>>

BytesOnceInOrder == typed = handled \o Waiting \o wire

(***************************************************************************)
(* A waiting byte is never forgotten: its request is latched, or its       *)
(* handler is about to read it.  Only a byte that was waiting already when *)
(* pic_remap wrote ICW1 loses its request.                                 *)
(***************************************************************************)
WaitingByteIsPending ==
    obf /\ kmain # "memory" /\ ~early /\ raised = NONE =>
        IRQ_KEYBOARD \in pic.irr \cup pic.isr /\ IRQ_KEYBOARD \notin pic.imr

(***************************************************************************)
(* Every interrupt that was taken has been retired by the time the kernel  *)
(* is back in its loop, in both controllers, spurious ones included: none  *)
(* blocks those of its level and below for ever.                           *)
(***************************************************************************)
AllRetired == cpu = "main" => pic.isr = {}

(***************************************************************************)
(* No device's request is ever reported as an exception: the machine stops *)
(* only after a fault of the kernel's own code.                            *)
(***************************************************************************)
OnlyFaultsHalt == cpu = "halted" => raised # NONE

(***************************************************************************)
(* The modifier flags say what the typist does: Ctrl and Alt always, Shift *)
(* unless both shift keys have been down at once, when the release of one  *)
(* clears the flag while the other is still held.                          *)
(***************************************************************************)
ModifiersFollowKeys ==
    /\ keyboard_state.ctrl_pressed <=> SCAN_LEFTCTRL \in held
    /\ keyboard_state.alt_pressed <=> SCAN_LEFTALT \in held
    /\ keyboard_state.shift_pressed => held \cap Shifts # {}
    /\ held \cap Shifts # {} /\ ~bothHeld => keyboard_state.shift_pressed

(***************************************************************************)
(* Back in the kernel's loop, a letter read last is on the screen last,    *)
(* once per press, in the case the shift keys and Caps Lock give it.       *)
(***************************************************************************)
LetterPresses == {i \in DOMAIN handled : handled[i] \in Letters}
LettersShown  == {i \in DOMAIN shown : shown[i].key \in Letters}

LettersShownInCase ==
    cpu = "main" =>
        /\ Cardinality(LettersShown) = Cardinality(LetterPresses)
        /\ handled # <<>> /\ handled[Len(handled)] \in Letters /\ ~bothHeld =>
               shown[Len(shown)] =
                   [key |-> handled[Len(handled)],
                    upper |-> (held \cap Shifts # {}) # keyboard_state.caps_lock]

(***************************************************************************)
(* docs/phase2.md, `Type characters and see them appear on screen': every  *)
(* byte sent is decoded, unless the kernel faults or a byte was waiting    *)
(* when the controllers were initialised.                                  *)
(***************************************************************************)
EveryKeyIsShown ==
    \A n \in 1 .. MaxBytes :
        Len(typed) >= n ~> (Len(handled) >= n \/ early \/ raised # NONE)

=============================================================================
