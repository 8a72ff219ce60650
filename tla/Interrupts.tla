----------------------------- MODULE Interrupts -----------------------------
(***************************************************************************)
(* Interrupt dispatch of kernel/interrupts.c, the stubs of interrupts.s    *)
(* and, external to the repository, the pair of 8259 controllers they      *)
(* program.  Interrupt requests are numbered 0 .. 15; the slave's eight    *)
(* reach the master through its request 2.                                 *)
(*                                                                         *)
(* A controller pair is a record of the requests latched (irr) and in      *)
(* service (isr) in each controller, of the masked ones and of the first   *)
(* vector of each.                                                         *)
(***************************************************************************)
EXTENDS Integers

CONSTANTS
    STUB_PASSES,        \* what the stubs pass: "vector" or "saved_gs"
    GS                  \* the selector the boot loader left in GS

ASSUME StubConstants == STUB_PASSES \in {"vector", "saved_gs"} /\ GS \in 0 .. 255

IRQs    == 0 .. 15
Vectors == 0 .. 255
CASCADE == 2
EXC_DOUBLE_FAULT == 8
EXC_GENERAL_PROTECTION == 13

Pics == [irr : SUBSET IRQs, isr : SUBSET IRQs, imr : SUBSET IRQs,
         master : Vectors, slave : Vectors]

\* As the firmware leaves the controllers: 8259 vectors 8 .. 15, 0x70 .. 0x77.
FirmwarePic(masked) ==
    [irr |-> {}, isr |-> {}, imr |-> masked, master |-> 8, slave |-> 112]

MasterOf(irqs) == {i \in irqs : i < 8}
SlaveOf(irqs)  == {i \in irqs : i >= 8}
First(irqs, i) == i \in irqs /\ \A j \in irqs : i <= j

\* A low-to-high transition on the input of request irq.
Raise(pic, irq) == [pic EXCEPT !.irr = @ \cup {irq}]

(***************************************************************************)
(* The request the pair would have the processor serve: the highest        *)
(* unmasked one, if nothing of the same or a higher level is in service.   *)
(* A slave's request has the master's level CASCADE.                       *)
(***************************************************************************)
Level(irq) == IF irq < 8 THEN irq ELSE CASCADE

Acknowledgeable(pic, irq) ==
    LET ready == pic.irr \ pic.imr IN
    /\ irq \in ready
    /\ \A j \in MasterOf(pic.isr) : Level(irq) < j
    /\ \A j \in ready : \/ Level(irq) < Level(j)
                        \/ Level(irq) = Level(j) /\ irq <= j
    /\ irq >= 8 => \A j \in SlaveOf(pic.isr) : irq < j

\* The processor's acknowledge cycle moves the request into service.
Acknowledge(pic, irq) ==
    [pic EXCEPT !.irr = @ \ {irq},
                !.isr = @ \cup {irq, Level(irq)}]

VectorOf(pic, irq) == IF irq < 8 THEN pic.master + irq ELSE pic.slave + irq - 8

LeavesMasks(pic) ==
    [irr |-> {}, isr |-> {}, imr |-> pic.imr, master |-> 32, slave |-> 40]

KeepsFirmwareVectors(pic) ==
    [irr |-> {}, isr |-> {}, imr |-> {}, master |-> pic.master, slave |-> pic.slave]

(***************************************************************************)
(* The four ICWs and the cleared masks.  ICW1 resets the edge sense: what  *)
(* was latched is forgotten, and an input that is already high must fall   *)
(* before it can request again.                                            *)
(***************************************************************************)
pic_remap(pic) ==
    [irr |-> {}, isr |-> {}, imr |-> {}, master |-> 32, slave |-> 40]

\* A non-specific end of interrupt: the first in service is retired.
Retire(irqs) == {i \in irqs : ~First(irqs, i)}

\* outb(0x20, 0x20)
EoiToMaster(pic) == [pic EXCEPT !.isr = SlaveOf(@) \cup Retire(MasterOf(@))]

ForgetsSlave(pic, irq) == EoiToMaster(pic)

pic_send_eoi(pic, irq) ==
    [pic EXCEPT !.isr = Retire(MasterOf(@)) \cup
                        (IF irq >= 8 THEN Retire(SlaveOf(@)) ELSE SlaveOf(@))]

-----------------------------------------------------------------------------
InstallsOneLow(handlers, irq) == handlers \cup {irq + 31}

\* The vectors whose interrupt_handlers entry is not NULL.
irq_install_handler(handlers, irq) == handlers \cup {irq + 32}

\* The gates interrupts_init fills: isr0 .. isr19 and irq0 .. irq15.
Gates == (0 .. 19) \cup (32 .. 47)

(***************************************************************************)
(* The processor (external) delivers vector v.  An all-zero gate is no     *)
(* interrupt gate, hence a general protection fault; while it delivers one *)
(* of the two exceptions without a gate, 20 and 21, that makes a double    *)
(* fault.                                                                  *)
(***************************************************************************)
Gate(idt, v) ==
    IF v \in idt THEN v
    ELSE IF v \in {20, 21} THEN EXC_DOUBLE_FAULT ELSE EXC_GENERAL_PROTECTION

AddsBaseTwice(v) == v + 32

(***************************************************************************)
(* interrupt_handler's argument interrupt_number for vector v.  The common *)
(* stubs call it with the saved segment registers on top of the stack, so  *)
(* the word it finds in the place of its first argument is the saved GS;   *)
(* its prototype and irq_install_handler expect the vector.                *)
(***************************************************************************)
interrupt_number(v) == IF STUB_PASSES = "vector" THEN v ELSE GS

\* The three ways through interrupt_handler.
IsHandled(handlers, n)   == n \in handlers
IsException(handlers, n) == n \notin handlers /\ n < 32
IsUnhandled(handlers, n) == n \notin handlers /\ n >= 32

=============================================================================
