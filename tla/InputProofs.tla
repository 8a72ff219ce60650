----------------------------- MODULE InputProofs -----------------------------
(***************************************************************************)
(* Proofs about interrupt dispatch and the keyboard driver, for every set  *)
(* of keys and devices, every text and every exception.                    *)
(*                                                                         *)
(* All but the types is proved of stubs that pass the vector, the          *)
(* interface interrupt_handler is written for (VectorPassed): with the     *)
(* stubs as interrupts.s has them no handler is ever reached.              *)
(***************************************************************************)
EXTENDS Input, FiniteSetTheorems, SequenceTheorems, TLAPS

VectorPassed == STUB_PASSES = "vector"
KEYBOARD_VECTOR == 33

-----------------------------------------------------------------------------
(***************************************************************************)
(* Types.                                                                  *)
(***************************************************************************)
TypeInv == TypeOK /\ idt \in {{}, Gates}

\* What keyboard_handler does to a byte is a state and a character.
LEMMA DecodeTypes ==
    ASSUME NEW ks \in KeyboardState, NEW byte \in Bytes
    PROVE  /\ StateAfter(ks, byte) \in KeyboardState
           /\ CharPrinted(ks, byte) # NoChar => CharPrinted(ks, byte) \in KeyChars
<1>1. \A sc : KeyRelease(ks, sc) \in KeyboardState
  BY DEF KeyRelease, KeyboardState
<1>2. \A sc : KeyPress(ks, sc) \in KeyboardState
  BY DEF KeyPress, KeyboardState
<1>3. CharPrinted(ks, byte) # NoChar => CharPrinted(ks, byte) \in KeyChars
  <2>1. SUFFICES ASSUME ~IsRelease(byte), byte \in Printing, byte \notin Modifiers
                PROVE  keyboard_scancode_to_char(ks, byte) \in KeyChars
    BY DEF CharPrinted, keyboard_scancode_to_char
  <2>2. byte \in Scancodes
    BY <2>1 DEF IsRelease, Bytes, Scancodes
  <2>3. ks.shift_pressed \in BOOLEAN
    BY DEF KeyboardState
  <2>4. CASE byte \in Letters
    BY <2>1, <2>2, <2>4 DEF keyboard_scancode_to_char, KeyChars
  <2>5. CASE byte \notin Letters /\ byte \in OneGlyph
    BY <2>1, <2>2, <2>5 DEF keyboard_scancode_to_char, KeyChars
  <2>6. CASE byte \notin Letters /\ byte \notin OneGlyph
    BY <2>1, <2>2, <2>3, <2>6 DEF keyboard_scancode_to_char, KeyChars
  <2>7. QED BY <2>4, <2>5, <2>6
<1>4. QED BY <1>1, <1>2, <1>3 DEF StateAfter

\* The controllers' operations yield controllers.
LEMMA PicTypes ==
    ASSUME NEW p \in Pics, NEW irq \in IRQs
    PROVE  /\ Raise(p, irq) \in Pics /\ Acknowledge(p, irq) \in Pics
           /\ pic_remap(p) \in Pics /\ EoiToMaster(p) \in Pics
           /\ \A i : pic_send_eoi(p, i) \in Pics
           /\ [p EXCEPT !.isr = @ \cup {CASCADE}] \in Pics
<1>1. Level(irq) \in IRQs /\ CASCADE \in IRQs
  BY DEF Level, CASCADE, IRQs
<1>2. \A S \in SUBSET IRQs : /\ MasterOf(S) \in SUBSET IRQs /\ SlaveOf(S) \in SUBSET IRQs
                             /\ Retire(S) \in SUBSET IRQs
  BY DEF MasterOf, SlaveOf, Retire
<1>3. Raise(p, irq) \in Pics /\ Acknowledge(p, irq) \in Pics
  BY <1>1 DEF Raise, Acknowledge, Pics
<1>4. pic_remap(p) \in Pics
  BY DEF pic_remap, Pics, Vectors
<1>5. EoiToMaster(p) \in Pics /\ \A i : pic_send_eoi(p, i) \in Pics
  BY <1>2 DEF EoiToMaster, pic_send_eoi, Pics
<1>6. [p EXCEPT !.isr = @ \cup {CASCADE}] \in Pics
  BY <1>1 DEF Pics
<1>7. QED BY <1>3, <1>4, <1>5, <1>6

\* A gate that is present, or the general protection fault's.
LEMMA NumberType ==
    ASSUME NEW i \in {{}, Gates}, NEW v PROVE interrupt_number(Gate(i, v)) \in Gates \cup {GS}
<1>1. EXC_GENERAL_PROTECTION \in Gates /\ EXC_DOUBLE_FAULT \in Gates
  BY DEF EXC_GENERAL_PROTECTION, EXC_DOUBLE_FAULT, Gates
<1>2. QED BY <1>1 DEF Gate, interrupt_number

\* Before the kernel runs.
LEMMA InitTypes == Init => TypeInv
<1> SUFFICES ASSUME Init PROVE TypeInv
  OBVIOUS
<1>1. pic \in Pics
  BY DEF Init, FirmwarePic, Pics, IRQs, IRQ_KEYBOARD, Vectors
<1>2. 0 \in Gates /\ 0 \in Bytes
  BY DEF Gates, Bytes
<1>3. keyboard_state \in KeyboardState
  BY DEF Init, ClearedState, KeyboardState
<1>4. IF_flag \in BOOLEAN /\ obf \in BOOLEAN /\ bothHeld \in BOOLEAN /\ early \in BOOLEAN
  BY Zenon DEF Init
<1>5. wire \in Seq(Bytes) /\ typed \in Seq(Bytes) /\ handled \in Seq(Bytes)
      /\ shown \in Seq(KeyChars)
  BY DEF Init
<1>6. QED BY <1>1, <1>2, <1>3, <1>4, <1>5 DEF Init, TypeInv, TypeOK

\* Every step keeps the types, whatever the stubs pass.
LEMMA NextTypes == TypeInv /\ [Next]_vars => TypeInv'
<1> SUFFICES ASSUME TypeInv, [Next]_vars PROVE TypeInv'
  OBVIOUS
<1> USE DEF TypeInv, TypeOK, bootVars, kbdVars, wireVars, portVars
<1>0. IRQ_KEYBOARD \in IRQs /\ Devices \subseteq IRQs /\ Keys \subseteq Bytes
  BY InputConstants DEF IRQ_KEYBOARD, IRQs, Bytes, Scancodes
<1>1. CASE \E k \in Keys : Press(k) \/ Release(k)
  <2>1. PICK k \in Keys : Press(k) \/ Release(k)
    BY <1>1
  <2>2. k \in Bytes /\ k + 128 \in Bytes
    BY InputConstants DEF Bytes, Scancodes
  <2>3. CASE Press(k)
    BY <2>2, <2>3 DEF Press, Send
  <2>4. CASE Release(k)
    BY <2>2, <2>4 DEF Release, Send
  <2>5. QED BY <2>1, <2>3, <2>4
<1>2. CASE LoadByte
  <2>1. pic' \in Pics /\ obf' \in BOOLEAN
    BY <1>0, <1>2, PicTypes DEF LoadByte
  <2>2. QED BY <1>2, <2>1 DEF LoadByte
<1>3. CASE \E irq \in Devices : DeviceRequest(irq)
  <2>1. PICK irq \in IRQs : DeviceRequest(irq)
    BY <1>0, <1>3
  <2>2. pic' \in Pics
    BY <2>1, PicTypes DEF DeviceRequest
  <2>3. QED BY <2>1, <2>2 DEF DeviceRequest
<1>4. CASE interrupts_init
  <2>1. pic' \in Pics
    BY <1>0, <1>4, PicTypes DEF interrupts_init
  <2>2. Gates \subseteq Vectors
    BY DEF Gates, Vectors
  <2>3. QED BY <1>4, <2>1, <2>2 DEF interrupts_init
<1>5. CASE keyboard_init
  <2>1. ClearedState \in KeyboardState /\ IRQ_KEYBOARD + 32 \in Vectors
    BY DEF ClearedState, KeyboardState, IRQ_KEYBOARD, Vectors
  <2>2. QED BY <1>5, <2>1 DEF keyboard_init, irq_install_handler
<1>6. CASE enable_interrupts
  <2>1. IF_flag' \in BOOLEAN
    BY <1>6, Zenon DEF enable_interrupts
  <2>2. QED BY <1>6, <2>1 DEF enable_interrupts
<1>7. ASSUME NEW v, Enter(v), pic' \in Pics PROVE TypeInv'
  <2>1. IF_flag' \in BOOLEAN
    BY <1>7, Zenon DEF Enter
  <2>2. QED BY <1>7, <2>1, NumberType DEF Enter
<1>8. CASE \E irq \in IRQs : Interrupt(irq)
  BY <1>7, <1>8, PicTypes DEF Interrupt
<1>9. CASE SpuriousMaster \/ SpuriousSlave
  BY <1>0, <1>7, <1>9, PicTypes DEF SpuriousMaster, SpuriousSlave
<1>10. CASE \E n \in Exceptions : Fault(n)
  <2>1. PICK n \in Exceptions : Fault(n)
    BY <1>10
  <2>2. IF_flag' \in BOOLEAN
    BY <2>1, Zenon DEF Fault
  <2>3. QED BY <2>1, <2>2, NumberType DEF Fault
<1>11. CASE UnhandledIrq
  <2>1. IF_flag' \in BOOLEAN
    BY <1>11, Zenon DEF UnhandledIrq
  <2>2. QED BY <1>0, <1>11, <2>1, PicTypes DEF UnhandledIrq
<1>12. CASE Exception
  <2>1. IF_flag' \in BOOLEAN
    BY <1>12, Zenon DEF Exception
  <2>2. QED BY <1>12, <2>1 DEF Exception
<1>13. CASE KeyboardRead
  <2>1. obf' \in BOOLEAN
    BY <1>13, Zenon DEF KeyboardRead
  <2>2. QED BY <1>13, <2>1 DEF KeyboardRead
<1>14. CASE KeyboardDecode
  <2>1. IF_flag' \in BOOLEAN
    BY <1>14, Zenon DEF KeyboardDecode
  <2>2. keyboard_state' \in KeyboardState /\ shown' \in Seq(KeyChars)
    BY <1>14, DecodeTypes DEF KeyboardDecode
  <2>3. held' \subseteq Scancodes
    BY <1>14 DEF KeyboardDecode, HeldAfter, IsRelease, Scancodes, Bytes
  <2>4. bothHeld' \in BOOLEAN
    BY <1>14, Zenon DEF KeyboardDecode
  <2>5. pic' \in Pics
    BY <1>0, <1>14, PicTypes DEF KeyboardDecode
  <2>6. QED BY <1>14, <2>1, <2>2, <2>3, <2>4, <2>5 DEF KeyboardDecode
<1>15. CASE UNCHANGED vars
  BY <1>15 DEF vars
<1>16. QED BY <1>1, <1>2, <1>3, <1>4, <1>5, <1>6, <1>8, <1>9, <1>10, <1>11, <1>12, <1>13,
              <1>14, <1>15 DEF Next, Boot, Dispatch

\* The driver's, the controllers' and the histories' variables have their types.
THEOREM InputTypeCorrect == Spec => []TypeOK
<1>1. TypeInv => TypeOK
  BY DEF TypeInv
<1>2. QED BY <1>1, InitTypes, NextTypes, PTL DEF Spec

-----------------------------------------------------------------------------
(***************************************************************************)
(* Dispatch.  How far kmain has come; what a fault leaves behind; what is  *)
(* in service, by where the processor is; and where the request of a byte  *)
(* that waits in the controller's buffer is.                               *)
(***************************************************************************)
BootOrder ==
    /\ kmain = "memory" => idt = {} /\ raised = NONE
    /\ kmain # "memory" => /\ idt = Gates /\ pic.imr = {}
                           /\ pic.master = 32 /\ pic.slave = 40
    /\ kmain \in {"memory", "interrupts"} => handlers = {}
    /\ kmain \in {"keyboard", "loop"} => handlers = {KEYBOARD_VECTOR}
    /\ kmain # "loop" => ~IF_flag /\ (raised = NONE => cpu = "main")

FaultSound ==
    /\ raised = NONE => cpu # "halted"
    /\ raised # NONE => /\ cpu \in {"dispatch", "halted"}
                        /\ number \in 0 .. 31

\* A request, its slave's cascade with it, or what a spurious one leaves.
InService ==
    \/ number = 39 /\ pic.isr = {}
    \/ number = 47 /\ pic.isr = {CASCADE}
    \/ \E irq \in IRQs : number = irq + 32 /\ pic.isr = {irq, Level(irq)}

ServiceSound ==
    /\ cpu = "main" => pic.isr = {}
    /\ cpu = "dispatch" /\ raised = NONE => InService
    /\ cpu = "decode" => pic.isr = {IRQ_KEYBOARD}

Serving == cpu = "dispatch" /\ raised = NONE /\ number = KEYBOARD_VECTOR

ByteSound ==
    /\ IRQ_KEYBOARD \in pic.irr => obf
    /\ Serving => obf /\ IRQ_KEYBOARD \notin pic.irr
    /\ obf /\ kmain # "memory" /\ ~early /\ raised = NONE =>
           IRQ_KEYBOARD \in pic.irr \/ Serving

DispatchInv == TypeInv /\ BootOrder /\ FaultSound /\ ServiceSound /\ ByteSound

\* What the operations change of a controller pair.
LEMMA PicFields ==
    ASSUME NEW p \in Pics, NEW irq \in IRQs
    PROVE  /\ Raise(p, irq).irr = p.irr \cup {irq} /\ Raise(p, irq).isr = p.isr
           /\ Raise(p, irq).imr = p.imr /\ Raise(p, irq).master = p.master
           /\ Raise(p, irq).slave = p.slave
           /\ Acknowledge(p, irq).irr = p.irr \ {irq}
           /\ Acknowledge(p, irq).isr = p.isr \cup {irq, Level(irq)}
           /\ Acknowledge(p, irq).imr = p.imr /\ Acknowledge(p, irq).master = p.master
           /\ Acknowledge(p, irq).slave = p.slave
           /\ \A i : /\ pic_send_eoi(p, i).irr = p.irr /\ pic_send_eoi(p, i).imr = p.imr
                     /\ pic_send_eoi(p, i).master = p.master
                     /\ pic_send_eoi(p, i).slave = p.slave
           /\ EoiToMaster(p).irr = p.irr /\ EoiToMaster(p).imr = p.imr
           /\ EoiToMaster(p).master = p.master /\ EoiToMaster(p).slave = p.slave
<1>1. DOMAIN p = {"irr", "isr", "imr", "master", "slave"}
  BY DEF Pics
<1>2. QED BY <1>1 DEF Raise, Acknowledge, pic_send_eoi, EoiToMaster, Pics

\* A non-specific end of interrupt retires the only level in service.
LEMMA RetireOne ==
    /\ Retire({}) = {} /\ \A i \in IRQs : Retire({i}) = {}
    /\ MasterOf({}) = {} /\ SlaveOf({}) = {}
    /\ \A i \in IRQs : /\ i < 8 => /\ MasterOf({i, Level(i)}) = {i}
                                   /\ SlaveOf({i, Level(i)}) = {}
                       /\ i >= 8 => /\ MasterOf({i, Level(i)}) = {CASCADE}
                                    /\ SlaveOf({i, Level(i)}) = {i}
    /\ MasterOf({CASCADE}) = {CASCADE} /\ SlaveOf({CASCADE}) = {}
    /\ MasterOf({IRQ_KEYBOARD}) = {IRQ_KEYBOARD} /\ SlaveOf({IRQ_KEYBOARD}) = {}
    /\ CASCADE \in IRQs /\ IRQ_KEYBOARD \in IRQs
<1>1. Retire({}) = {} /\ \A i \in IRQs : Retire({i}) = {}
  BY DEF Retire, First, IRQs
<1>2. MasterOf({}) = {} /\ SlaveOf({}) = {}
  BY DEF MasterOf, SlaveOf
<1>3. ASSUME NEW i \in IRQs, i < 8
      PROVE  MasterOf({i, Level(i)}) = {i} /\ SlaveOf({i, Level(i)}) = {}
  BY <1>3 DEF MasterOf, SlaveOf, Level, IRQs
<1>4. ASSUME NEW i \in IRQs, i >= 8
      PROVE  MasterOf({i, Level(i)}) = {CASCADE} /\ SlaveOf({i, Level(i)}) = {i}
  BY <1>4 DEF MasterOf, SlaveOf, Level, IRQs, CASCADE
<1>5. /\ MasterOf({CASCADE}) = {CASCADE} /\ SlaveOf({CASCADE}) = {}
      /\ MasterOf({IRQ_KEYBOARD}) = {IRQ_KEYBOARD} /\ SlaveOf({IRQ_KEYBOARD}) = {}
      /\ CASCADE \in IRQs /\ IRQ_KEYBOARD \in IRQs
  BY DEF MasterOf, SlaveOf, CASCADE, IRQ_KEYBOARD, IRQs
<1>6. QED BY <1>1, <1>2, <1>3, <1>4, <1>5

\* pic_send_eoi with the number of what is in service retires it in both.
LEMMA SendEoiRetires ==
    ASSUME TypeInv, InService PROVE pic_send_eoi(pic, number - 32).isr = {}
<1>1. pic \in Pics /\ "isr" \in DOMAIN pic
  BY DEF TypeInv, TypeOK, Pics
<1>2. \A i : pic_send_eoi(pic, i).isr =
               Retire(MasterOf(pic.isr)) \cup
                 (IF i >= 8 THEN Retire(SlaveOf(pic.isr)) ELSE SlaveOf(pic.isr))
  BY <1>1 DEF pic_send_eoi, Pics
<1>3. CASE number = 39 /\ pic.isr = {}
  BY <1>2, <1>3, RetireOne
<1>4. CASE number = 47 /\ pic.isr = {CASCADE}
  <2>1. number - 32 >= 8
    BY <1>4
  <2>2. pic_send_eoi(pic, number - 32).isr =
          Retire(MasterOf({CASCADE})) \cup Retire(SlaveOf({CASCADE}))
    BY <1>2, <1>4, <2>1
  <2>3. QED BY <2>2, RetireOne
<1>5. ASSUME NEW irq \in IRQs, number = irq + 32, pic.isr = {irq, Level(irq)}
      PROVE  pic_send_eoi(pic, number - 32).isr = {}
  <2>1. number - 32 = irq /\ irq \in Int
    BY <1>5 DEF IRQs
  <2>2. CASE irq < 8
    BY <1>2, <1>5, <2>1, <2>2, RetireOne
  <2>3. CASE irq >= 8
    BY <1>2, <1>5, <2>1, <2>3, RetireOne
  <2>4. QED BY <2>1, <2>2, <2>3
<1>6. QED BY <1>3, <1>4, <1>5 DEF InService

\* keyboard_handler's outb(0x20, 0x20) retires the keyboard's request.
LEMMA MasterEoiRetires ==
    ASSUME TypeInv, pic.isr = {IRQ_KEYBOARD} PROVE EoiToMaster(pic).isr = {}
<1>1. EoiToMaster(pic).isr = SlaveOf(pic.isr) \cup Retire(MasterOf(pic.isr))
  BY DEF EoiToMaster, Pics, TypeInv, TypeOK
<1>2. QED BY <1>1, RetireOne

\* The vectors of the remapped controllers have gates, their own ones.
LEMMA GateNumbers ==
    ASSUME VectorPassed
    PROVE  /\ \A v \in 32 .. 47 : interrupt_number(Gate(Gates, v)) = v
           /\ \A n \in 0 .. 21 : interrupt_number(Gate(Gates, n)) \in 0 .. 31
  BY DEF VectorPassed, interrupt_number, Gate, Gates, EXC_DOUBLE_FAULT, EXC_GENERAL_PROTECTION

\* At power on nothing is in service and nothing is waiting.
LEMMA InitDispatch == Init => DispatchInv
<1> SUFFICES ASSUME Init PROVE DispatchInv
  OBVIOUS
<1>1. pic.irr = {} /\ pic.isr = {}
  BY DEF Init, FirmwarePic
<1>2. ~obf /\ ~IF_flag
  BY Zenon DEF Init
<1>3. BootOrder /\ FaultSound
  BY <1>2 DEF Init, BootOrder, FaultSound
<1>4. ServiceSound /\ ByteSound
  BY <1>1, <1>2 DEF Init, ServiceSound, ByteSound, Serving
<1>5. QED BY <1>3, <1>4, InitTypes DEF DispatchInv

\* The processor takes an interrupt whose vector is v and serves what is now in service.
LEMMA EnterDispatch ==
    ASSUME VectorPassed, DispatchInv, TypeInv', NEW v \in 32 .. 47, Enter(v),
           pic'.imr = pic.imr, pic'.master = pic.master, pic'.slave = pic.slave,
           pic'.irr \subseteq pic.irr,
           \/ v = 39 /\ pic'.isr = {} /\ pic'.irr = pic.irr
           \/ v = 47 /\ pic'.isr = {CASCADE} /\ pic'.irr = pic.irr
           \/ \E irq \in IRQs : /\ v = irq + 32 /\ pic'.isr = {irq, Level(irq)}
                                /\ irq \in pic.irr /\ pic'.irr = pic.irr \ {irq}
    PROVE  DispatchInv'
<1>1. /\ IF_flag /\ cpu = "main" /\ cpu' = "dispatch" /\ ~IF_flag'
      /\ number' = interrupt_number(Gate(idt, v))
      /\ kmain' = kmain /\ idt' = idt /\ handlers' = handlers /\ obf' = obf
      /\ early' = early /\ raised' = raised
  BY DEF Enter, bootVars, portVars
<1>2. kmain = "loop" /\ idt = Gates /\ raised = NONE
  BY <1>1 DEF DispatchInv, BootOrder, FaultSound, TypeInv, TypeOK
<1>3. number' = v
  BY <1>1, <1>2, GateNumbers
<1>4. BootOrder' /\ FaultSound'
  BY <1>1, <1>2 DEF DispatchInv, BootOrder, FaultSound
<1>5. ServiceSound'
  BY <1>1, <1>3 DEF ServiceSound, InService
<1>6. ByteSound'
  <2>1. IRQ_KEYBOARD \in pic.irr /\ IRQ_KEYBOARD \notin pic'.irr => v = KEYBOARD_VECTOR
    BY DEF KEYBOARD_VECTOR, IRQ_KEYBOARD
  <2>2. v = KEYBOARD_VECTOR => IRQ_KEYBOARD \in pic.irr \ pic'.irr
    BY DEF KEYBOARD_VECTOR, IRQ_KEYBOARD, IRQs
  <2>3. QED BY <1>1, <1>2, <1>3, <2>1, <2>2 DEF DispatchInv, ByteSound, Serving
<1>7. QED BY <1>4, <1>5, <1>6 DEF DispatchInv

\* DispatchInv is inductive when the stubs pass the vector.
LEMMA NextDispatch == ASSUME VectorPassed PROVE DispatchInv /\ [Next]_vars => DispatchInv'
<1> SUFFICES ASSUME DispatchInv, [Next]_vars PROVE DispatchInv'
  OBVIOUS
<1> USE DEF bootVars, kbdVars, wireVars, portVars
<1>0. TypeInv /\ TypeInv' /\ pic \in Pics /\ IRQ_KEYBOARD \in IRQs
      /\ Devices \subseteq IRQs \ {IRQ_KEYBOARD}
  BY NextTypes, InputConstants, RetireOne DEF DispatchInv, TypeInv, TypeOK
<1>1. CASE \E k \in Keys : Press(k) \/ Release(k)
  <2>1. /\ UNCHANGED <<kmain, idt, handlers, IF_flag, cpu, number, pic, obf, early, raised>>
    BY <1>1 DEF Press, Release, Send
  <2>2. QED BY <1>0, <2>1 DEF DispatchInv, BootOrder, FaultSound, ServiceSound, InService,
                              ByteSound, Serving
<1>2. CASE LoadByte
  <2>1. /\ UNCHANGED <<kmain, idt, handlers, IF_flag, cpu, number, early, raised>>
        /\ pic' = Raise(pic, IRQ_KEYBOARD) /\ ~obf /\ obf'
    BY <1>2 DEF LoadByte
  <2>2. /\ pic'.irr = pic.irr \cup {IRQ_KEYBOARD} /\ pic'.isr = pic.isr
        /\ pic'.imr = pic.imr /\ pic'.master = pic.master /\ pic'.slave = pic.slave
    BY <1>0, <2>1, PicFields
  <2>3. BootOrder' /\ FaultSound' /\ ServiceSound'
    BY <2>1, <2>2 DEF DispatchInv, BootOrder, FaultSound, ServiceSound, InService
  <2>4. ByteSound'
    BY <2>1, <2>2 DEF DispatchInv, ByteSound, Serving
  <2>5. QED BY <1>0, <2>3, <2>4 DEF DispatchInv
<1>3. CASE \E irq \in Devices : DeviceRequest(irq)
  <2>1. PICK irq \in Devices : DeviceRequest(irq)
    BY <1>3
  <2>2. /\ UNCHANGED <<kmain, idt, handlers, IF_flag, cpu, number, early, raised, obf>>
        /\ pic' = Raise(pic, irq) /\ irq \in IRQs \ {IRQ_KEYBOARD}
    BY <1>0, <2>1 DEF DeviceRequest
  <2>3. /\ pic'.irr = pic.irr \cup {irq} /\ pic'.isr = pic.isr
        /\ pic'.imr = pic.imr /\ pic'.master = pic.master /\ pic'.slave = pic.slave
    BY <1>0, <2>2, PicFields
  <2>4. BootOrder' /\ FaultSound' /\ ServiceSound'
    BY <2>2, <2>3 DEF DispatchInv, BootOrder, FaultSound, ServiceSound, InService
  <2>5. ByteSound'
    BY <2>2, <2>3 DEF DispatchInv, ByteSound, Serving
  <2>6. QED BY <1>0, <2>4, <2>5 DEF DispatchInv
<1>4. CASE interrupts_init
  <2>1. /\ kmain = "memory" /\ kmain' = "interrupts" /\ handlers' = {} /\ idt' = Gates
        /\ cpu = "main" /\ early' = obf
        /\ UNCHANGED <<IF_flag, cpu, number, raised, obf>>
    BY <1>4 DEF interrupts_init
  <2>2. /\ pic'.irr = {} /\ pic'.isr = {} /\ pic'.imr = {}
        /\ pic'.master = 32 /\ pic'.slave = 40
    BY <1>4 DEF interrupts_init, pic_remap
  <2>3. BootOrder' /\ FaultSound' /\ ServiceSound'
    BY <2>1, <2>2 DEF DispatchInv, BootOrder, FaultSound, ServiceSound
  <2>4. ByteSound'
    BY <2>1, <2>2 DEF ByteSound, Serving
  <2>5. QED BY <1>0, <2>3, <2>4 DEF DispatchInv
<1>5. CASE keyboard_init
  <2>1. /\ kmain = "interrupts" /\ kmain' = "keyboard" /\ cpu = "main"
        /\ handlers' = handlers \cup {KEYBOARD_VECTOR}
        /\ UNCHANGED <<idt, IF_flag, cpu, number, pic, obf, early, raised>>
    BY <1>5 DEF keyboard_init, irq_install_handler, IRQ_KEYBOARD, KEYBOARD_VECTOR
  <2>2. QED BY <1>0, <2>1 DEF DispatchInv, BootOrder, FaultSound, ServiceSound,
                              ByteSound, Serving
<1>6. CASE enable_interrupts
  <2>1. /\ kmain = "keyboard" /\ kmain' = "loop" /\ cpu = "main"
        /\ UNCHANGED <<idt, handlers, cpu, number, pic, obf, early, raised>>
    BY <1>6 DEF enable_interrupts
  <2>2. QED BY <1>0, <2>1 DEF DispatchInv, BootOrder, FaultSound, ServiceSound,
                              ByteSound, Serving
<1>7. CASE \E irq \in IRQs : Interrupt(irq)
  <2>1. PICK irq \in IRQs : Interrupt(irq)
    BY <1>7
  <2>2. /\ Enter(VectorOf(pic, irq)) /\ pic' = Acknowledge(pic, irq) /\ irq \in pic.irr
    BY <2>1 DEF Interrupt, Acknowledgeable
  <2>3. pic.isr = {} /\ pic.master = 32 /\ pic.slave = 40
    BY <2>2 DEF Enter, DispatchInv, BootOrder, ServiceSound
  <2>4. VectorOf(pic, irq) = irq + 32 /\ irq + 32 \in 32 .. 47
    BY <2>3 DEF VectorOf, IRQs
  <2>5. /\ pic'.irr = pic.irr \ {irq} /\ pic'.isr = {irq, Level(irq)}
        /\ pic'.imr = pic.imr /\ pic'.master = pic.master /\ pic'.slave = pic.slave
    BY <1>0, <2>2, <2>3, PicFields
  <2>6. QED BY <1>0, <2>2, <2>4, <2>5, EnterDispatch
<1>8. CASE SpuriousMaster
  <2>1. Enter(pic.master + 7) /\ pic' = pic
    BY <1>8 DEF SpuriousMaster
  <2>2. pic.isr = {} /\ pic.master + 7 = 39
    BY <2>1 DEF Enter, DispatchInv, BootOrder, ServiceSound
  <2>3. Enter(39) /\ 39 \in 32 .. 47
    BY <2>1, <2>2
  <2>4. QED BY <1>0, <2>1, <2>2, <2>3, EnterDispatch
<1>9. CASE SpuriousSlave
  <2>1. Enter(pic.slave + 7) /\ pic' = [pic EXCEPT !.isr = @ \cup {CASCADE}]
    BY <1>9 DEF SpuriousSlave
  <2>2. pic.isr = {} /\ pic.slave + 7 = 47
    BY <2>1 DEF Enter, DispatchInv, BootOrder, ServiceSound
  <2>3. Enter(47) /\ 47 \in 32 .. 47
    BY <2>1, <2>2
  <2>4. /\ pic'.isr = {CASCADE} /\ pic'.irr = pic.irr /\ pic'.imr = pic.imr
        /\ pic'.master = pic.master /\ pic'.slave = pic.slave
    BY <1>0, <2>1, <2>2 DEF Pics
  <2>5. QED BY <1>0, <2>2, <2>3, <2>4, EnterDispatch
<1>10. CASE \E n \in Exceptions : Fault(n)
  <2>1. PICK n \in Exceptions : Fault(n)
    BY <1>10
  <2>2. /\ cpu' = "dispatch" /\ number' = interrupt_number(Gate(idt, n))
        /\ ~IF_flag' /\ raised' = n /\ idt # {} /\ n \in 0 .. 21
        /\ UNCHANGED <<kmain, idt, handlers, pic, obf, early>>
    BY <2>1, InputConstants DEF Fault
  <2>3. idt = Gates /\ raised' # NONE
    BY <2>2 DEF DispatchInv, TypeInv, NONE
  <2>4. number' \in 0 .. 31
    BY <2>2, <2>3, GateNumbers
  <2>5. BootOrder' /\ FaultSound'
    BY <2>2, <2>3, <2>4 DEF DispatchInv, BootOrder, FaultSound
  <2>6. ServiceSound' /\ ByteSound'
    BY <2>2, <2>3 DEF DispatchInv, ServiceSound, ByteSound, Serving
  <2>7. QED BY <1>0, <2>5, <2>6 DEF DispatchInv
<1>11. ASSUME cpu = "dispatch", raised = NONE
       PROVE  kmain = "loop" /\ handlers = {KEYBOARD_VECTOR} /\ number \in 32 .. 47 /\ InService
  <2>1. InService /\ kmain = "loop"
    BY <1>11 DEF DispatchInv, ServiceSound, BootOrder
  <2>2. number \in 32 .. 47
    BY <2>1 DEF InService, IRQs
  <2>3. QED BY <2>1, <2>2 DEF DispatchInv, BootOrder
<1>12. ASSUME raised # NONE PROVE number \in 0 .. 31 /\ handlers \subseteq {KEYBOARD_VECTOR}
  <2>1. number \in 0 .. 31
    BY <1>12 DEF DispatchInv, FaultSound
  <2>2. QED BY <1>0, <2>1 DEF DispatchInv, BootOrder, TypeInv, TypeOK
<1>13. CASE UnhandledIrq
  <2>1. /\ cpu = "dispatch" /\ number >= 32 /\ number \notin handlers
        /\ pic' = pic_send_eoi(pic, number - 32) /\ cpu' = "main"
        /\ UNCHANGED <<kmain, idt, handlers, number, obf, early, raised>>
    BY <1>13 DEF UnhandledIrq, IsUnhandled
  <2>2. raised = NONE /\ InService /\ kmain = "loop" /\ number # KEYBOARD_VECTOR
    BY <1>11, <1>12, <2>1
  <2>3. /\ pic'.isr = {} /\ pic'.irr = pic.irr /\ pic'.imr = pic.imr
        /\ pic'.master = pic.master /\ pic'.slave = pic.slave
    BY <1>0, <2>1, <2>2, SendEoiRetires, PicFields
  <2>4. BootOrder' /\ FaultSound' /\ ServiceSound'
    BY <2>1, <2>2, <2>3 DEF DispatchInv, BootOrder, FaultSound, ServiceSound
  <2>5. ByteSound'
    BY <2>1, <2>2, <2>3 DEF DispatchInv, ByteSound, Serving
  <2>6. QED BY <1>0, <2>4, <2>5 DEF DispatchInv
<1>14. CASE Exception
  <2>1. /\ cpu = "dispatch" /\ number < 32 /\ cpu' = "halted" /\ ~IF_flag'
        /\ UNCHANGED <<kmain, idt, handlers, number, pic, obf, early, raised>>
    BY <1>14 DEF Exception, IsException
  <2>2. raised # NONE
    BY <1>11, <2>1
  <2>3. QED BY <1>0, <2>1, <2>2 DEF DispatchInv, BootOrder, FaultSound, ServiceSound,
                                    ByteSound, Serving
<1>15. CASE KeyboardRead
  <2>1. /\ cpu = "dispatch" /\ number \in handlers /\ cpu' = "decode" /\ ~obf'
        /\ UNCHANGED <<kmain, idt, handlers, IF_flag, number, pic, early, raised>>
    BY <1>15 DEF KeyboardRead, IsHandled
  <2>2. raised = NONE /\ number = KEYBOARD_VECTOR /\ kmain = "loop" /\ InService
    BY <1>11, <1>12, <2>1 DEF KEYBOARD_VECTOR
  <2>3. pic.isr = {IRQ_KEYBOARD}
    BY <2>2 DEF InService, KEYBOARD_VECTOR, IRQ_KEYBOARD, Level, IRQs
  <2>4. ByteSound'
    <3>1. IRQ_KEYBOARD \notin pic.irr
      BY <2>1, <2>2 DEF DispatchInv, ByteSound, Serving
    <3>2. QED BY <2>1, <3>1 DEF ByteSound, Serving
  <2>5. QED BY <1>0, <2>1, <2>2, <2>3, <2>4 DEF DispatchInv, BootOrder, FaultSound,
                                                ServiceSound
<1>16. CASE KeyboardDecode
  <2>1. /\ cpu = "decode" /\ cpu' = "main" /\ pic' = EoiToMaster(pic)
        /\ UNCHANGED <<kmain, idt, handlers, number, obf, early, raised>>
    BY <1>16 DEF KeyboardDecode
  <2>2. raised = NONE /\ kmain = "loop" /\ pic.isr = {IRQ_KEYBOARD}
    BY <2>1, <1>0 DEF DispatchInv, FaultSound, BootOrder, ServiceSound
  <2>3. /\ pic'.isr = {} /\ pic'.irr = pic.irr /\ pic'.imr = pic.imr
        /\ pic'.master = pic.master /\ pic'.slave = pic.slave
    BY <1>0, <2>1, <2>2, MasterEoiRetires, PicFields
  <2>4. QED BY <1>0, <2>1, <2>2, <2>3 DEF DispatchInv, BootOrder, FaultSound, ServiceSound,
                                          ByteSound, Serving
<1>17. CASE UNCHANGED vars
  <2>1. UNCHANGED <<kmain, idt, handlers, IF_flag, cpu, number, pic, obf, early, raised>>
    BY <1>17 DEF vars
  <2>2. QED BY <1>0, <2>1 DEF DispatchInv, BootOrder, FaultSound, ServiceSound, InService,
                              ByteSound, Serving
<1>18. QED BY <1>1, <1>2, <1>3, <1>4, <1>5, <1>6, <1>7, <1>8, <1>9, <1>10, <1>13, <1>14,
              <1>15, <1>16, <1>17 DEF Next, Boot, Dispatch

\* The inductive invariant of dispatch holds of every run.
LEMMA DispatchInvariance == ASSUME VectorPassed PROVE Spec => []DispatchInv
  BY InitDispatch, NextDispatch, PTL DEF Spec

(***************************************************************************)
(* A byte in the controller's buffer always has its request latched or its *)
(* handler about to read it, unless ICW1 dropped it.                       *)
(***************************************************************************)
THEOREM WaitingBytesArePending == ASSUME VectorPassed PROVE Spec => []WaitingByteIsPending
<1>1. DispatchInv => WaitingByteIsPending
  <2> SUFFICES ASSUME DispatchInv, obf, kmain # "memory", ~early, raised = NONE
               PROVE  IRQ_KEYBOARD \in pic.irr \cup pic.isr /\ IRQ_KEYBOARD \notin pic.imr
    BY DEF WaitingByteIsPending
  <2>1. Serving => IRQ_KEYBOARD \in pic.isr
    BY DEF DispatchInv, ServiceSound, Serving, InService, KEYBOARD_VECTOR, IRQ_KEYBOARD, IRQs
  <2>2. QED BY <2>1 DEF DispatchInv, ByteSound, BootOrder
<1>2. QED BY <1>1, DispatchInvariance, PTL

(***************************************************************************)
(* Back in its loop, the kernel has retired every interrupt it took.       *)
(***************************************************************************)
THEOREM InterruptsRetired == ASSUME VectorPassed PROVE Spec => []AllRetired
<1>1. DispatchInv => AllRetired
  BY DEF DispatchInv, ServiceSound, AllRetired
<1>2. QED BY <1>1, DispatchInvariance, PTL

(***************************************************************************)
(* No device's interrupt is taken for an exception.                        *)
(***************************************************************************)
THEOREM HaltsAfterFaultsOnly == ASSUME VectorPassed PROVE Spec => []OnlyFaultsHalt
<1>1. DispatchInv => OnlyFaultsHalt
  BY DEF DispatchInv, FaultSound, OnlyFaultsHalt
<1>2. QED BY <1>1, DispatchInvariance, PTL

-----------------------------------------------------------------------------
(***************************************************************************)
(* Keys.  A key is held after the first n bytes of s when its last press   *)
(* among them was not followed by a release.                               *)
(***************************************************************************)
HeldAfterBytes(s, n, k) ==
    \E j \in 1 .. n : s[j] = k /\ \A m \in j + 1 .. n : s[m] # k + 128

\* The bytes keyboard_handler has decoded.
Decoded == IF cpu = "decode" THEN Len(handled) - 1 ELSE Len(handled)

BytesSound ==
    /\ BytesOnceInOrder
    /\ cpu = "decode" => handled # <<>> /\ scancode = handled[Len(handled)]

\* Only held keys are released, in the order of the bytes.
TypistSound ==
    /\ \A k \in Scancodes : k \in down <=> HeldAfterBytes(typed, Len(typed), k)
    /\ \A i \in 1 .. Len(typed) :
          typed[i] >= 128 => HeldAfterBytes(typed, i - 1, typed[i] - 128)

HeldSound ==
    raised = NONE => \A k \in Scancodes : k \in held <=> HeldAfterBytes(typed, Decoded, k)

QuietBoot ==
    kmain # "loop" => /\ handled = <<>> /\ shown = <<>> /\ held = {} /\ ~bothHeld
                      /\ keyboard_state = ClearedState

ShiftsNoted == Shifts \subseteq held => bothHeld

DecodedLetters == {i \in 1 .. Decoded : handled[i] \in Letters}

LettersSound ==
    raised = NONE =>
        /\ Cardinality(LettersShown) = Cardinality(DecodedLetters)
        /\ cpu # "decode" /\ handled # <<>> /\ handled[Len(handled)] \in Letters =>
               /\ shown # <<>>
               /\ ~bothHeld => shown[Len(shown)] =
                      [key |-> handled[Len(handled)],
                       upper |-> (held \cap Shifts # {}) # keyboard_state.caps_lock]

KeysInv ==
    /\ DispatchInv /\ BytesSound /\ TypistSound /\ HeldSound /\ QuietBoot /\ ShiftsNoted
    /\ ModifiersFollowKeys /\ LettersSound

-----------------------------------------------------------------------------
\* The steps that neither type, load, read nor decode a byte, nor clear the flags.
OtherStep ==
    /\ UNCHANGED <<down, wire, typed, outbuf, obf>>
    /\ UNCHANGED <<keyboard_state, shown, held, bothHeld, scancode, handled>>
    /\ cpu' = "decode" => cpu = "decode"
    /\ raised' = NONE => raised = NONE /\ (cpu = "decode" <=> cpu' = "decode")
    /\ kmain' # "loop" => kmain # "loop"

\* The kinds of steps, as far as bytes and keys are concerned.
LEMMA NextKinds ==
    ASSUME DispatchInv, [Next]_vars
    PROVE  \/ \E k \in Keys : Press(k) \/ Release(k)
           \/ LoadByte \/ keyboard_init \/ KeyboardRead \/ KeyboardDecode
           \/ OtherStep
<1> USE DEF OtherStep, bootVars, kbdVars, wireVars, portVars
<1>1. CASE \E irq \in Devices : DeviceRequest(irq)
  BY <1>1 DEF DeviceRequest
<1>2. CASE interrupts_init
  BY <1>2 DEF interrupts_init
<1>3. CASE enable_interrupts
  BY <1>3 DEF enable_interrupts
<1>4. ASSUME NEW v, Enter(v) PROVE OtherStep
  BY <1>4 DEF Enter
<1>5. CASE (\E irq \in IRQs : Interrupt(irq)) \/ SpuriousMaster \/ SpuriousSlave
  BY <1>4, <1>5 DEF Interrupt, SpuriousMaster, SpuriousSlave
<1>6. CASE \E n \in Exceptions : Fault(n)
  <2>1. PICK n \in Exceptions : Fault(n)
    BY <1>6
  <2>2. n # NONE
    BY InputConstants DEF NONE
  <2>3. QED BY <2>1, <2>2 DEF Fault
<1>7. CASE UnhandledIrq
  BY <1>7 DEF UnhandledIrq
<1>8. CASE Exception
  BY <1>8 DEF Exception
<1>9. CASE UNCHANGED vars
  BY <1>9 DEF vars
<1>10. QED BY <1>1, <1>2, <1>3, <1>5, <1>6, <1>7, <1>8, <1>9 DEF Next, Boot, Dispatch

\* A key is held after one byte more if that presses it, or does not release it.
LEMMA HeldStep ==
    ASSUME NEW s \in Seq(Bytes), NEW n \in Nat, n < Len(s), NEW k \in Scancodes
    PROVE  HeldAfterBytes(s, n + 1, k) <=>
              s[n + 1] = k \/ (HeldAfterBytes(s, n, k) /\ s[n + 1] # k + 128)
<1>0. k \in Int /\ k # k + 128
  BY DEF Scancodes
<1>1. ASSUME HeldAfterBytes(s, n + 1, k), s[n + 1] # k
      PROVE  HeldAfterBytes(s, n, k) /\ s[n + 1] # k + 128
  <2>1. PICK j \in 1 .. n + 1 : s[j] = k /\ \A m \in j + 1 .. n + 1 : s[m] # k + 128
    BY <1>1 DEF HeldAfterBytes
  <2>2. j \in 1 .. n /\ n + 1 \in j + 1 .. n + 1
    BY <1>1, <2>1
  <2>3. \A m \in j + 1 .. n : m \in j + 1 .. n + 1
    BY <2>2
  <2>4. QED BY <2>1, <2>2, <2>3 DEF HeldAfterBytes
<1>2. ASSUME s[n + 1] = k PROVE HeldAfterBytes(s, n + 1, k)
  <2>1. n + 1 \in 1 .. n + 1 /\ (n + 1) + 1 .. n + 1 = {}
    OBVIOUS
  <2>2. QED BY <1>2, <2>1 DEF HeldAfterBytes
<1>3. ASSUME HeldAfterBytes(s, n, k), s[n + 1] # k + 128
      PROVE  HeldAfterBytes(s, n + 1, k)
  <2>1. PICK j \in 1 .. n : s[j] = k /\ \A m \in j + 1 .. n : s[m] # k + 128
    BY <1>3 DEF HeldAfterBytes
  <2>2. j \in 1 .. n + 1 /\ \A m \in j + 1 .. n + 1 : m \in j + 1 .. n \/ m = n + 1
    BY <2>1
  <2>3. QED BY <1>3, <2>1, <2>2 DEF HeldAfterBytes
<1>4. QED BY <1>1, <1>2, <1>3

\* What is held after n bytes does not depend on the bytes after them.
LEMMA HeldPrefix ==
    ASSUME NEW s, NEW r, NEW n \in Nat, NEW k, \A i \in 1 .. n : s[i] = r[i]
    PROVE  HeldAfterBytes(s, n, k) <=> HeldAfterBytes(r, n, k)
<1>1. \A j \in 1 .. n : \A m \in j + 1 .. n : m \in 1 .. n
  OBVIOUS
<1>2. QED BY <1>1 DEF HeldAfterBytes

\* The bytes read are the first of those typed.
LEMMA HandledPrefix ==
    ASSUME TypeInv, BytesOnceInOrder
    PROVE  /\ Len(handled) \in Nat /\ Len(typed) \in Nat /\ Len(handled) <= Len(typed)
           /\ \A i \in 1 .. Len(handled) : handled[i] = typed[i]
<1>1. /\ handled \in Seq(Bytes) /\ wire \in Seq(Bytes) /\ Waiting \in Seq(Bytes)
      /\ typed \in Seq(Bytes)
  BY DEF TypeInv, TypeOK, Waiting
<1>2. typed = (handled \o Waiting) \o wire
  BY DEF BytesOnceInOrder
<1>3. ASSUME NEW p \in Seq(Bytes), NEW q \in Seq(Bytes)
      PROVE  /\ p \o q \in Seq(Bytes) /\ Len(p \o q) = Len(p) + Len(q)
             /\ \A i \in 1 .. Len(p) : (p \o q)[i] = p[i]
  OBVIOUS
<1>4. PICK b \in Seq(Bytes) : b = handled \o Waiting
  BY <1>1, <1>3
<1>5. /\ Len(b) = Len(handled) + Len(Waiting)
      /\ \A i \in 1 .. Len(handled) : b[i] = handled[i]
  BY <1>1, <1>3, <1>4
<1>6. /\ Len(typed) = Len(b) + Len(wire)
      /\ \A i \in 1 .. Len(b) : typed[i] = b[i]
  BY <1>1, <1>2, <1>3, <1>4
<1>7. PICK n \in Nat, m \in Nat, w \in Nat, l \in Nat :
        n = Len(handled) /\ m = Len(Waiting) /\ w = Len(wire) /\ l = Len(typed)
  BY <1>1
<1>8. Len(b) = n + m /\ l = (n + m) + w
  BY <1>5, <1>6, <1>7
<1>9. n <= l /\ \A i \in 1 .. n : i \in 1 .. n + m
  BY <1>8
<1>10. \A i \in 1 .. n : handled[i] = typed[i]
  BY <1>5, <1>6, <1>7, <1>8, <1>9
<1>11. QED BY <1>7, <1>9, <1>10

\* keyboard_handler runs for its own request only, with a byte to read.
LEMMA ReadServes ==
    ASSUME DispatchInv, KeyboardRead
    PROVE  Serving /\ obf /\ kmain = "loop" /\ raised = NONE /\ cpu = "dispatch"
<1>1. cpu = "dispatch" /\ number \in handlers
  BY DEF KeyboardRead, IsHandled
<1>2. number = KEYBOARD_VECTOR
  BY <1>1 DEF DispatchInv, BootOrder, TypeInv, TypeOK
<1>3. raised = NONE
  <2>1. SUFFICES ASSUME raised # NONE PROVE FALSE
    OBVIOUS
  <2>2. number \in 0 .. 31
    BY <2>1 DEF DispatchInv, FaultSound
  <2>3. QED BY <1>2, <2>2 DEF KEYBOARD_VECTOR
<1>4. QED BY <1>1, <1>2, <1>3 DEF DispatchInv, BootOrder, ByteSound, Serving

\* Every step keeps the bytes in order, none lost and none read twice.
LEMMA NextBytes ==
    ASSUME DispatchInv, BytesSound, [Next]_vars
    PROVE  BytesSound'
<1>0. /\ handled \in Seq(Bytes) /\ wire \in Seq(Bytes) /\ typed \in Seq(Bytes)
      /\ Waiting \in Seq(Bytes) /\ outbuf \in Bytes /\ obf \in BOOLEAN
  BY DEF DispatchInv, TypeInv, TypeOK, Waiting
<1>1. typed = (handled \o Waiting) \o wire
  BY DEF BytesSound, BytesOnceInOrder
<1>2. CASE \E k \in Keys : Press(k) \/ Release(k)
  <2>1. PICK k \in Keys : Press(k) \/ Release(k)
    BY <1>2
  <2>2. PICK b \in Bytes : Send(b)
    <3>1. k \in Bytes /\ k + 128 \in Bytes
      BY InputConstants DEF Bytes, Scancodes
    <3>2. QED BY <2>1, <3>1 DEF Press, Release
  <2>3. /\ typed' = Append(typed, b) /\ wire' = Append(wire, b)
        /\ UNCHANGED <<handled, outbuf, obf, cpu, scancode>>
    BY <2>2 DEF Send, portVars, kbdVars
  <2>4. Waiting' = Waiting
    BY <2>3 DEF Waiting
  <2>5. PICK p \in Seq(Bytes) : p = handled \o Waiting
    BY <1>0, ConcatProperties
  <2>6. Append(typed, b) = p \o Append(wire, b)
    <3>1. typed = p \o wire /\ <<b>> \in Seq(Bytes)
      BY <1>1, <2>5
    <3>2. Append(typed, b) = typed \o <<b>> /\ Append(wire, b) = wire \o <<b>>
      BY <1>0, AppendIsConcat
    <3>3. (p \o wire) \o <<b>> = p \o (wire \o <<b>>)
      BY <1>0, <3>1, ConcatAssociative
    <3>4. QED BY <3>1, <3>2, <3>3
  <2>7. BytesOnceInOrder'
    BY <2>3, <2>4, <2>5, <2>6 DEF BytesOnceInOrder
  <2>8. QED BY <2>3, <2>7 DEF BytesSound
<1>3. CASE LoadByte
  <2>1. /\ wire # <<>> /\ obf = FALSE /\ obf' = TRUE
        /\ outbuf' = Head(wire) /\ wire' = Tail(wire)
        /\ UNCHANGED <<typed, handled, cpu, scancode>>
    BY <1>0, <1>3 DEF LoadByte, kbdVars
  <2>2. typed = handled \o wire
    BY <1>0, <1>1, <2>1 DEF Waiting
  <2>3. Waiting' = <<Head(wire)>>
    BY <2>1 DEF Waiting
  <2>4. PICK h \in Bytes : h = Head(wire)
    BY <1>0, <2>1
  <2>5. PICK w \in Seq(Bytes) : w = Tail(wire)
    BY <1>0, <2>1, HeadTailProperties
  <2>6. wire = <<h>> \o w /\ <<h>> \in Seq(Bytes)
    BY <1>0, <2>1, <2>4, <2>5
  <2>7. (handled \o <<h>>) \o w = handled \o (<<h>> \o w)
    BY <1>0, <2>6, ConcatAssociative
  <2>8. BytesOnceInOrder'
    BY <2>1, <2>2, <2>3, <2>4, <2>5, <2>6, <2>7 DEF BytesOnceInOrder
  <2>9. QED BY <2>1, <2>8 DEF BytesSound
<1>4. CASE KeyboardRead
  <2>1. obf
    BY <1>4, ReadServes
  <2>2. /\ handled' = Append(handled, outbuf) /\ scancode' = outbuf /\ obf' = FALSE
        /\ UNCHANGED <<typed, wire>>
    BY <1>4 DEF KeyboardRead, wireVars
  <2>3. Waiting = <<outbuf>> /\ Waiting' = <<>>
    BY <2>1, <2>2 DEF Waiting
  <2>4. Append(handled, outbuf) = handled \o <<outbuf>>
    BY <1>0, AppendIsConcat
  <2>5. handled' \in Seq(Bytes) /\ handled' \o <<>> = handled'
    <3>1. Append(handled, outbuf) \in Seq(Bytes)
      BY <1>0
    <3>2. QED BY <2>2, <3>1, ConcatEmptySeq
  <2>6. BytesOnceInOrder'
    BY <1>1, <2>2, <2>3, <2>4, <2>5 DEF BytesOnceInOrder
  <2>7. handled' # <<>> /\ scancode' = handled'[Len(handled')]
    <3>1. /\ Append(handled, outbuf) # <<>>
          /\ Append(handled, outbuf)[Len(Append(handled, outbuf))] = outbuf
      BY <1>0, AppendProperties
    <3>2. QED BY <2>2, <3>1
  <2>8. QED BY <2>6, <2>7 DEF BytesSound
<1>5. CASE keyboard_init \/ KeyboardDecode \/ OtherStep
  <2>1. /\ UNCHANGED <<typed, wire, outbuf, obf, handled, scancode>>
        /\ cpu' = "decode" => cpu = "decode"
    BY <1>5 DEF keyboard_init, KeyboardDecode, OtherStep, wireVars, portVars
  <2>2. QED BY <2>1 DEF BytesSound, BytesOnceInOrder, Waiting
<1>6. QED BY <1>2, <1>3, <1>4, <1>5, NextKinds

\* What one byte more on the line means for the keys held.
LEMMA HeldAppend ==
    ASSUME NEW s \in Seq(Bytes), NEW b \in Bytes, NEW k \in Scancodes
    PROVE  /\ HeldAfterBytes(Append(s, b), Len(s) + 1, k) <=>
                 b = k \/ (HeldAfterBytes(s, Len(s), k) /\ b # k + 128)
           /\ \A n \in 0 .. Len(s) :
                 HeldAfterBytes(Append(s, b), n, k) <=> HeldAfterBytes(s, n, k)
<1>1. PICK r \in Seq(Bytes) : r = Append(s, b)
  BY AppendProperties
<1>2. /\ Len(r) = Len(s) + 1 /\ Len(s) \in Nat
      /\ \A i \in 1 .. Len(s) : r[i] = s[i] /\ r[Len(s) + 1] = b
  BY <1>1, AppendProperties
<1>3. r[Len(s) + 1] = b
  BY <1>1, AppendProperties
<1>4. ASSUME NEW n \in 0 .. Len(s) PROVE HeldAfterBytes(r, n, k) <=> HeldAfterBytes(s, n, k)
  <2>1. n \in Nat /\ \A i \in 1 .. n : r[i] = s[i]
    BY <1>2
  <2>2. QED BY <2>1, HeldPrefix
<1>5. HeldAfterBytes(r, Len(s) + 1, k) <=>
        b = k \/ (HeldAfterBytes(r, Len(s), k) /\ b # k + 128)
  BY <1>2, <1>3, HeldStep
<1>6. QED BY <1>1, <1>2, <1>4, <1>5

\* The typist's keys are those its bytes say, whatever it does next.
LEMMA NextTypist ==
    ASSUME DispatchInv, TypistSound, [Next]_vars
    PROVE  TypistSound'
<1>0. typed \in Seq(Bytes) /\ Len(typed) \in Nat
  BY DEF DispatchInv, TypeInv, TypeOK
<1>1. ASSUME NEW k \in Keys, NEW b \in Bytes, Send(b),
             \/ b = k /\ down' = down \cup {k}
             \/ b = k + 128 /\ k \in down /\ down' = down \ {k}
      PROVE  TypistSound'
  <2>1. k \in Scancodes /\ k \in 0 .. 127
    BY InputConstants DEF Scancodes
  <2>2. typed' = Append(typed, b) /\ Len(typed') = Len(typed) + 1
    BY <1>0, <1>1, AppendProperties DEF Send
  <2>3. /\ \A i \in 1 .. Len(typed) : typed'[i] = typed[i]
        /\ typed'[Len(typed) + 1] = b
    BY <1>0, <2>2, AppendProperties
  <2>4. ASSUME NEW q \in Scancodes
        PROVE  q \in down' <=> HeldAfterBytes(typed', Len(typed'), q)
    <3>1. HeldAfterBytes(typed', Len(typed'), q) <=>
            b = q \/ (HeldAfterBytes(typed, Len(typed), q) /\ b # q + 128)
      BY <1>0, <2>2, HeldAppend
    <3>2. q \in down <=> HeldAfterBytes(typed, Len(typed), q)
      BY DEF TypistSound
    <3>3. q \in 0 .. 127
      BY DEF Scancodes
    <3>4. CASE b = k /\ down' = down \cup {k}
      <4>1. b # q + 128
        BY <2>1, <3>3, <3>4
      <4>2. QED BY <3>1, <3>2, <3>4, <4>1
    <3>5. CASE b = k + 128 /\ k \in down /\ down' = down \ {k}
      <4>1. b # q /\ (b # q + 128 <=> q # k)
        BY <2>1, <3>3, <3>5
      <4>2. QED BY <3>1, <3>2, <3>5, <4>1
    <3>6. QED BY <1>1, <3>4, <3>5
  <2>5. ASSUME NEW i \in 1 .. Len(typed'), typed'[i] >= 128
        PROVE  HeldAfterBytes(typed', i - 1, typed'[i] - 128)
    <3>1. i \in Nat /\ i - 1 \in 0 .. Len(typed)
      BY <1>0, <2>2
    <3>2. CASE i \in 1 .. Len(typed)
      <4>1. typed'[i] = typed[i] /\ typed[i] \in Bytes
        BY <1>0, <2>3, <3>2, ElementOfSeq
      <4>2. typed[i] - 128 \in Scancodes
        <5>1. PICK c \in Bytes : c = typed[i]
          BY <4>1
        <5>2. c >= 128
          BY <2>5, <4>1, <5>1
        <5>3. c - 128 \in Scancodes
          BY <5>2 DEF Bytes, Scancodes
        <5>4. QED BY <5>1, <5>3
      <4>3. HeldAfterBytes(typed, i - 1, typed[i] - 128)
        BY <2>5, <3>2, <4>1 DEF TypistSound
      <4>4. QED BY <1>0, <2>2, <3>1, <4>1, <4>2, <4>3, HeldAppend
    <3>3. CASE i = Len(typed) + 1
      <4>1. typed'[i] = b /\ i - 1 = Len(typed) /\ Len(typed) \in 0 .. Len(typed)
        BY <1>0, <2>3, <3>3
      <4>2. b = k + 128 /\ k \in down /\ b - 128 = k
        <5>1. b >= 128
          BY <2>5, <4>1
        <5>2. b # k
          BY <2>1, <5>1
        <5>3. QED BY <1>1, <2>1, <5>2
      <4>3. HeldAfterBytes(typed, Len(typed), k)
        BY <2>1, <4>2 DEF TypistSound
      <4>4. HeldAfterBytes(Append(typed, b), Len(typed), k)
        BY <1>0, <2>1, <4>1, <4>3, HeldAppend
      <4>5. QED BY <2>2, <4>1, <4>2, <4>4
    <3>4. QED BY <1>0, <2>2, <3>2, <3>3
  <2>6. QED BY <2>4, <2>5 DEF TypistSound
<1>2. CASE \E k \in Keys : Press(k) \/ Release(k)
  <2>1. PICK k \in Keys : Press(k) \/ Release(k)
    BY <1>2
  <2>2. k \in Bytes /\ k + 128 \in Bytes
    BY InputConstants DEF Bytes, Scancodes
  <2>3. CASE Press(k)
    BY <1>1, <2>2, <2>3 DEF Press
  <2>4. CASE Release(k)
    <3>1. PICK c \in Bytes : c = k + 128
      BY <2>2
    <3>2. Send(c) /\ k \in down /\ down' = down \ {k}
      BY <2>4, <3>1 DEF Release
    <3>3. QED BY <1>1, <3>1, <3>2
  <2>5. QED BY <2>1, <2>3, <2>4
<1>3. CASE LoadByte \/ keyboard_init \/ KeyboardRead \/ KeyboardDecode \/ OtherStep
  <2>1. UNCHANGED <<typed, down>>
    BY <1>3 DEF LoadByte, keyboard_init, KeyboardRead, KeyboardDecode, OtherStep, wireVars
  <2>2. QED BY <2>1 DEF TypistSound
<1>4. QED BY <1>2, <1>3, NextKinds

\* The bytes decoded are among those typed.
LEMMA DecodedBound ==
    ASSUME DispatchInv, BytesSound PROVE Decoded \in 0 .. Len(typed) /\ Len(typed) \in Nat
<1>1. Len(handled) \in Nat /\ Len(typed) \in Nat /\ Len(handled) <= Len(typed)
  BY HandledPrefix DEF DispatchInv, BytesSound
<1>2. cpu = "decode" => Len(handled) # 0
  <2>1. cpu = "decode" => handled # <<>>
    BY DEF BytesSound
  <2>2. handled \in Seq(Bytes)
    BY DEF DispatchInv, TypeInv, TypeOK
  <2>3. QED BY <2>1, <2>2, EmptySeq
<1>3. QED BY <1>1, <1>2 DEF Decoded

\* The byte being decoded: a release is of a key that is held so far.
LEMMA DecodedByte ==
    ASSUME DispatchInv, BytesSound, TypistSound, HeldSound, cpu = "decode"
    PROVE  /\ raised = NONE /\ kmain = "loop" /\ scancode \in Bytes
           /\ Decoded < Len(typed) /\ scancode = typed[Decoded + 1]
           /\ Len(handled) = Decoded + 1
           /\ IsRelease(scancode) => scancode - 128 \in Scancodes /\ scancode - 128 \in held
           /\ ~IsRelease(scancode) => scancode \in Scancodes
<1>1. raised = NONE /\ kmain = "loop" /\ scancode \in Bytes
  BY DEF DispatchInv, FaultSound, BootOrder, TypeInv, TypeOK
<1>2. PICK n \in Nat : n = Decoded /\ Len(handled) = n + 1
  BY DecodedBound, HandledPrefix DEF Decoded, DispatchInv, BytesSound
<1>3. /\ n + 1 \in 1 .. Len(handled) /\ n + 1 \in 1 .. Len(typed) /\ n < Len(typed)
      /\ Len(typed) \in Nat
  BY <1>2, HandledPrefix DEF DispatchInv, BytesSound
<1>4. scancode = typed[n + 1]
  BY <1>2, <1>3, HandledPrefix DEF DispatchInv, BytesSound
<1>5. PICK c \in Bytes : c = scancode
  BY <1>1
<1>6. ASSUME c >= 128 PROVE c - 128 \in Scancodes /\ c - 128 \in held
  <2>1. c - 128 \in Scancodes
    BY <1>6 DEF Bytes, Scancodes
  <2>2. HeldAfterBytes(typed, (n + 1) - 1, c - 128)
    BY <1>3, <1>4, <1>5, <1>6 DEF TypistSound
  <2>3. HeldAfterBytes(typed, Decoded, c - 128)
    BY <1>2, <2>2
  <2>4. QED BY <1>1, <2>1, <2>3 DEF HeldSound
<1>7. c < 128 => c \in Scancodes
  BY DEF Bytes, Scancodes
<1>8. c \in Int
  BY DEF Bytes
<1>9. /\ IsRelease(scancode) => scancode - 128 \in Scancodes /\ scancode - 128 \in held
      /\ ~IsRelease(scancode) => scancode \in Scancodes
  BY <1>5, <1>6, <1>7, <1>8 DEF IsRelease
<1>10. QED BY <1>1, <1>2, <1>3, <1>4, <1>9

\* held is what the bytes decoded so far say.
LEMMA NextHeld ==
    ASSUME DispatchInv, BytesSound, TypistSound, HeldSound, [Next]_vars
    PROVE  HeldSound'
<1> SUFFICES ASSUME raised' = NONE, NEW k \in Scancodes
             PROVE  k \in held' <=> HeldAfterBytes(typed', Decoded', k)
  BY DEF HeldSound
<1>0. typed \in Seq(Bytes) /\ handled \in Seq(Bytes) /\ Decoded \in 0 .. Len(typed)
  BY DecodedBound DEF DispatchInv, TypeInv, TypeOK
<1>1. raised = NONE => (k \in held <=> HeldAfterBytes(typed, Decoded, k))
  BY DEF HeldSound
<1>2. CASE \E q \in Keys : Press(q) \/ Release(q)
  <2>1. PICK q \in Keys : Press(q) \/ Release(q)
    BY <1>2
  <2>2. PICK b \in Bytes : Send(b)
    <3>1. q \in Bytes /\ q + 128 \in Bytes
      BY InputConstants DEF Bytes, Scancodes
    <3>2. QED BY <2>1, <3>1 DEF Press, Release
  <2>3. typed' = Append(typed, b) /\ UNCHANGED <<handled, held, cpu, raised>>
    BY <2>2 DEF Send, kbdVars
  <2>4. Decoded' = Decoded
    BY <2>3 DEF Decoded
  <2>5. QED BY <1>0, <1>1, <2>3, <2>4, HeldAppend
<1>3. CASE LoadByte \/ keyboard_init \/ OtherStep
  <2>1. /\ UNCHANGED <<typed, handled, held>> /\ raised = NONE
        /\ cpu = "decode" <=> cpu' = "decode"
    BY <1>3 DEF LoadByte, keyboard_init, OtherStep, kbdVars, wireVars
  <2>2. Decoded' = Decoded
    BY <2>1 DEF Decoded
  <2>3. QED BY <1>1, <2>1, <2>2
<1>4. CASE KeyboardRead
  <2>1. raised = NONE /\ cpu = "dispatch"
    BY <1>4, ReadServes
  <2>2. /\ handled' = Append(handled, outbuf) /\ cpu' = "decode"
        /\ UNCHANGED <<typed, held>>
    BY <1>4 DEF KeyboardRead, wireVars
  <2>3. Len(handled') = Len(handled) + 1 /\ Len(handled) \in Nat
    <3>1. outbuf \in Bytes
      BY DEF DispatchInv, TypeInv, TypeOK
    <3>2. QED BY <1>0, <2>2, <3>1, AppendProperties
  <2>4. Decoded' = Decoded
    BY <2>1, <2>2, <2>3 DEF Decoded
  <2>5. QED BY <1>1, <2>1, <2>2, <2>4
<1>5. CASE KeyboardDecode
  <2>1. /\ cpu = "decode" /\ cpu' = "main" /\ held' = HeldAfter(scancode)
        /\ UNCHANGED <<typed, handled>>
    BY <1>5 DEF KeyboardDecode, wireVars
  <2>2. /\ raised = NONE /\ scancode \in Bytes /\ Decoded < Len(typed)
        /\ scancode = typed[Decoded + 1] /\ Len(handled) = Decoded + 1
    BY <2>1, DecodedByte
  <2>3. Decoded' = Decoded + 1
    BY <2>1, <2>2 DEF Decoded
  <2>4. HeldAfterBytes(typed, Decoded + 1, k) <=>
           scancode = k \/ (HeldAfterBytes(typed, Decoded, k) /\ scancode # k + 128)
    <3>1. PICK n \in Nat : n = Decoded
      BY <1>0
    <3>2. n < Len(typed)
      BY <2>2, <3>1
    <3>3. HeldAfterBytes(typed, n + 1, k) <=>
           typed[n + 1] = k \/ (HeldAfterBytes(typed, n, k) /\ typed[n + 1] # k + 128)
      BY <1>0, <3>2, HeldStep
    <3>4. QED BY <2>2, <3>1, <3>3
  <2>5. PICK c \in Bytes : c = scancode
    BY <2>2
  <2>6. k \in HeldAfter(c) <=> c = k \/ (k \in held /\ c # k + 128)
    BY DEF HeldAfter, IsRelease, Bytes, Scancodes
  <2>7. QED BY <1>1, <2>1, <2>2, <2>3, <2>4, <2>5, <2>6
<1>6. QED BY <1>2, <1>3, <1>4, <1>5, NextKinds

\* Until kmain has enabled interrupts no key has been decoded.
LEMMA NextQuiet ==
    ASSUME DispatchInv, BytesSound, TypistSound, HeldSound, QuietBoot, [Next]_vars
    PROVE  QuietBoot'
<1>1. CASE (\E k \in Keys : Press(k) \/ Release(k)) \/ LoadByte \/ OtherStep
  <2>1. /\ UNCHANGED <<keyboard_state, shown, held, bothHeld, handled>>
        /\ kmain' # "loop" => kmain # "loop"
    BY <1>1 DEF Press, Release, Send, LoadByte, OtherStep, bootVars, kbdVars
  <2>2. QED BY <2>1 DEF QuietBoot
<1>2. CASE keyboard_init
  <2>1. /\ kmain # "loop" /\ UNCHANGED <<shown, held, bothHeld, handled>>
        /\ keyboard_state' = ClearedState
    BY <1>2 DEF keyboard_init
  <2>2. QED BY <2>1 DEF QuietBoot
<1>3. CASE KeyboardRead
  <2>1. kmain = "loop" /\ kmain' = kmain
    BY <1>3, ReadServes DEF KeyboardRead, bootVars
  <2>2. QED BY <2>1 DEF QuietBoot
<1>4. CASE KeyboardDecode
  <2>1. cpu = "decode" /\ kmain' = kmain
    BY <1>4 DEF KeyboardDecode, bootVars
  <2>2. kmain = "loop"
    BY <2>1, DecodedByte
  <2>3. QED BY <2>1, <2>2 DEF QuietBoot
<1>5. QED BY <1>1, <1>2, <1>3, <1>4, NextKinds

\* The modifier flags after a byte, one by one.
LEMMA FlagsAfter ==
    ASSUME NEW ks \in KeyboardState, NEW c \in Bytes
    PROVE  /\ c \in Shifts => StateAfter(ks, c).shift_pressed = TRUE
           /\ c - 128 \in Shifts => StateAfter(ks, c).shift_pressed = FALSE
           /\ c \notin Shifts /\ c - 128 \notin Shifts =>
                 StateAfter(ks, c).shift_pressed = ks.shift_pressed
           /\ c = SCAN_LEFTCTRL => StateAfter(ks, c).ctrl_pressed = TRUE
           /\ c - 128 = SCAN_LEFTCTRL => StateAfter(ks, c).ctrl_pressed = FALSE
           /\ c # SCAN_LEFTCTRL /\ c - 128 # SCAN_LEFTCTRL =>
                 StateAfter(ks, c).ctrl_pressed = ks.ctrl_pressed
           /\ c = SCAN_LEFTALT => StateAfter(ks, c).alt_pressed = TRUE
           /\ c - 128 = SCAN_LEFTALT => StateAfter(ks, c).alt_pressed = FALSE
           /\ c # SCAN_LEFTALT /\ c - 128 # SCAN_LEFTALT =>
                 StateAfter(ks, c).alt_pressed = ks.alt_pressed
           /\ c # SCAN_CAPSLOCK => StateAfter(ks, c).caps_lock = ks.caps_lock
<1> USE DEF Shifts, SCAN_LEFTSHIFT, SCAN_RIGHTSHIFT, SCAN_LEFTCTRL, SCAN_LEFTALT, SCAN_CAPSLOCK
<1>1. DOMAIN ks = {"shift_pressed", "ctrl_pressed", "alt_pressed", "caps_lock"}
  BY DEF KeyboardState
<1>2. CASE IsRelease(c)
  <2>1. c % 128 = c - 128 /\ c - 128 \in 0 .. 127
    BY <1>2 DEF IsRelease, Bytes
  <2>2. StateAfter(ks, c) = KeyRelease(ks, c - 128)
    BY <1>2, <2>1 DEF StateAfter
  <2>3. c # 42 /\ c # 54 /\ c # 29 /\ c # 56
    BY <1>2 DEF IsRelease, Bytes
  <2>4. CASE c - 128 \in Shifts
    <3>1. StateAfter(ks, c) = [ks EXCEPT !.shift_pressed = FALSE]
      BY <2>2, <2>4 DEF KeyRelease
    <3>2. /\ StateAfter(ks, c).shift_pressed = FALSE
          /\ StateAfter(ks, c).ctrl_pressed = ks.ctrl_pressed
          /\ StateAfter(ks, c).alt_pressed = ks.alt_pressed
          /\ StateAfter(ks, c).caps_lock = ks.caps_lock
      BY <1>1, <3>1
    <3>3. c \notin Shifts /\ c # SCAN_LEFTCTRL /\ c - 128 # SCAN_LEFTCTRL
          /\ c # SCAN_LEFTALT /\ c - 128 # SCAN_LEFTALT /\ c - 128 \in Shifts
      BY <2>1, <2>3, <2>4
    <3>4. QED BY <3>2, <3>3, Zenon
  <2>5. CASE c - 128 = SCAN_LEFTCTRL
    <3>1. StateAfter(ks, c) = [ks EXCEPT !.ctrl_pressed = FALSE]
      BY <2>2, <2>5 DEF KeyRelease
    <3>2. QED BY <1>1, <2>3, <2>5, <3>1
  <2>6. CASE c - 128 = SCAN_LEFTALT
    <3>1. StateAfter(ks, c) = [ks EXCEPT !.alt_pressed = FALSE]
      BY <2>2, <2>6 DEF KeyRelease
    <3>2. QED BY <1>1, <2>3, <2>6, <3>1
  <2>7. CASE c - 128 \notin Shifts \cup {SCAN_LEFTCTRL, SCAN_LEFTALT}
    <3>1. StateAfter(ks, c) = ks
      BY <2>2, <2>7 DEF KeyRelease
    <3>2. QED BY <2>3, <2>7, <3>1
  <2>8. QED BY <2>4, <2>5, <2>6, <2>7
<1>3. CASE ~IsRelease(c)
  <2>1. StateAfter(ks, c) = KeyPress(ks, c)
    BY <1>3 DEF StateAfter
  <2>2. c \in 0 .. 127 /\ c - 128 # 42 /\ c - 128 # 54 /\ c - 128 # 29 /\ c - 128 # 56
    BY <1>3 DEF IsRelease, Bytes
  <2>3. CASE c \in Shifts
    <3>1. StateAfter(ks, c) = [ks EXCEPT !.shift_pressed = TRUE]
      BY <2>1, <2>3 DEF KeyPress
    <3>2. /\ StateAfter(ks, c).shift_pressed = TRUE
          /\ StateAfter(ks, c).ctrl_pressed = ks.ctrl_pressed
          /\ StateAfter(ks, c).alt_pressed = ks.alt_pressed
          /\ StateAfter(ks, c).caps_lock = ks.caps_lock
      BY <1>1, <3>1
    <3>3. c - 128 \notin Shifts /\ c # SCAN_LEFTCTRL /\ c - 128 # SCAN_LEFTCTRL
          /\ c # SCAN_LEFTALT /\ c - 128 # SCAN_LEFTALT /\ c \in Shifts
      BY <2>2, <2>3
    <3>4. QED BY <3>2, <3>3, Zenon
  <2>4. CASE c = SCAN_LEFTCTRL
    <3>1. StateAfter(ks, c) = [ks EXCEPT !.ctrl_pressed = TRUE]
      BY <2>1, <2>4 DEF KeyPress
    <3>2. QED BY <1>1, <2>2, <2>4, <3>1
  <2>5. CASE c = SCAN_LEFTALT
    <3>1. StateAfter(ks, c) = [ks EXCEPT !.alt_pressed = TRUE]
      BY <2>1, <2>5 DEF KeyPress
    <3>2. QED BY <1>1, <2>2, <2>5, <3>1
  <2>6. CASE c = SCAN_CAPSLOCK
    <3>1. StateAfter(ks, c) = [ks EXCEPT !.caps_lock = ~ks.caps_lock]
      BY <2>1, <2>6 DEF KeyPress
    <3>2. QED BY <1>1, <2>2, <2>6, <3>1
  <2>7. CASE c \notin Shifts \cup {SCAN_LEFTCTRL, SCAN_LEFTALT, SCAN_CAPSLOCK}
    <3>1. StateAfter(ks, c) = ks
      BY <2>1, <2>7 DEF KeyPress
    <3>2. QED BY <2>2, <2>7, <3>1
  <2>8. QED BY <2>3, <2>4, <2>5, <2>6, <2>7
<1>4. QED BY <1>2, <1>3

\* The keys held after a byte.
LEMMA KeysAfter ==
    ASSUME NEW c \in Bytes, NEW k \in Scancodes
    PROVE  k \in HeldAfter(c) <=> c = k \/ (k \in held /\ c - 128 # k)
  BY DEF HeldAfter, IsRelease, Bytes, Scancodes

\* The flags follow the keys, and the history notes both shifts together.
LEMMA NextModifiers ==
    ASSUME DispatchInv, BytesSound, TypistSound, HeldSound, QuietBoot, ShiftsNoted,
           ModifiersFollowKeys, [Next]_vars
    PROVE  ShiftsNoted' /\ ModifiersFollowKeys'
<1>1. CASE (\E k \in Keys : Press(k) \/ Release(k)) \/ LoadByte \/ KeyboardRead \/ OtherStep
  <2>1. UNCHANGED <<keyboard_state, held, bothHeld>>
    BY <1>1 DEF Press, Release, Send, LoadByte, KeyboardRead, OtherStep, kbdVars
  <2>2. QED BY <2>1 DEF ShiftsNoted, ModifiersFollowKeys
<1>2. CASE keyboard_init
  <2>1. UNCHANGED <<keyboard_state, held, bothHeld>>
    BY <1>2 DEF keyboard_init, QuietBoot
  <2>2. QED BY <2>1 DEF ShiftsNoted, ModifiersFollowKeys
<1>3. CASE KeyboardDecode
  <2>1. /\ cpu = "decode" /\ held' = HeldAfter(scancode)
        /\ keyboard_state' = StateAfter(keyboard_state, scancode)
        /\ bothHeld' = (held' \cap Shifts # {} /\ (bothHeld \/ Shifts \subseteq held'))
    BY <1>3 DEF KeyboardDecode
  <2>2. PICK c \in Bytes : c = scancode
    BY <2>1, DecodedByte
  <2>3. IsRelease(c) => c - 128 \in held
    BY <2>1, <2>2, DecodedByte
  <2>4. PICK ks \in KeyboardState : ks = keyboard_state
    BY DEF DispatchInv, TypeInv, TypeOK
  <2>5. SCAN_LEFTSHIFT \in Shifts /\ Shifts \subseteq Scancodes
        /\ SCAN_LEFTCTRL \in Scancodes /\ SCAN_LEFTALT \in Scancodes
    BY DEF Shifts, SCAN_LEFTSHIFT, SCAN_RIGHTSHIFT, SCAN_LEFTCTRL, SCAN_LEFTALT, Scancodes
  <2>6. \A k \in Scancodes : k \in held' <=> c = k \/ (k \in held /\ c - 128 # k)
    BY <2>1, <2>2, KeysAfter
  <2>7. ShiftsNoted'
    BY <2>1, <2>5 DEF ShiftsNoted
  <2>8. /\ keyboard_state'.ctrl_pressed <=> SCAN_LEFTCTRL \in held'
        /\ keyboard_state'.alt_pressed <=> SCAN_LEFTALT \in held'
    <3>1. c # c - 128
      BY DEF Bytes
    <3>2. /\ ks.ctrl_pressed <=> SCAN_LEFTCTRL \in held
          /\ ks.alt_pressed <=> SCAN_LEFTALT \in held
      BY <2>4 DEF ModifiersFollowKeys
    <3>3. /\ c = SCAN_LEFTCTRL => keyboard_state'.ctrl_pressed = TRUE
          /\ c - 128 = SCAN_LEFTCTRL => keyboard_state'.ctrl_pressed = FALSE
          /\ c # SCAN_LEFTCTRL /\ c - 128 # SCAN_LEFTCTRL =>
                 keyboard_state'.ctrl_pressed = ks.ctrl_pressed
          /\ c = SCAN_LEFTALT => keyboard_state'.alt_pressed = TRUE
          /\ c - 128 = SCAN_LEFTALT => keyboard_state'.alt_pressed = FALSE
          /\ c # SCAN_LEFTALT /\ c - 128 # SCAN_LEFTALT =>
                 keyboard_state'.alt_pressed = ks.alt_pressed
      <4>1. keyboard_state' = StateAfter(ks, c)
        BY <2>1, <2>2, <2>4
      <4>2. /\ c = SCAN_LEFTCTRL => StateAfter(ks, c).ctrl_pressed = TRUE
            /\ c - 128 = SCAN_LEFTCTRL => StateAfter(ks, c).ctrl_pressed = FALSE
            /\ c # SCAN_LEFTCTRL /\ c - 128 # SCAN_LEFTCTRL =>
                   StateAfter(ks, c).ctrl_pressed = ks.ctrl_pressed
        BY FlagsAfter
      <4>3. /\ c = SCAN_LEFTALT => StateAfter(ks, c).alt_pressed = TRUE
            /\ c - 128 = SCAN_LEFTALT => StateAfter(ks, c).alt_pressed = FALSE
            /\ c # SCAN_LEFTALT /\ c - 128 # SCAN_LEFTALT =>
                   StateAfter(ks, c).alt_pressed = ks.alt_pressed
        BY FlagsAfter
      <4>4. QED BY <4>1, <4>2, <4>3
    <3>4. /\ SCAN_LEFTCTRL \in held' <=>
               c = SCAN_LEFTCTRL \/ (SCAN_LEFTCTRL \in held /\ c - 128 # SCAN_LEFTCTRL)
          /\ SCAN_LEFTALT \in held' <=>
               c = SCAN_LEFTALT \/ (SCAN_LEFTALT \in held /\ c - 128 # SCAN_LEFTALT)
      BY <2>5, <2>6
    <3>5. QED BY <3>1, <3>2, <3>3, <3>4, Zenon
  <2>9. keyboard_state'.shift_pressed => held' \cap Shifts # {}
    <3>1. CASE c \in Shifts
      BY <2>5, <2>6, <3>1
    <3>2. CASE c \notin Shifts /\ c - 128 \notin Shifts
      <4>1. keyboard_state'.shift_pressed = keyboard_state.shift_pressed
        BY <2>1, <2>2, <2>4, <3>2, FlagsAfter
      <4>2. held' \cap Shifts = held \cap Shifts
        BY <2>5, <2>6, <3>2
      <4>3. QED BY <4>1, <4>2 DEF ModifiersFollowKeys
    <3>3. CASE c \notin Shifts /\ c - 128 \in Shifts
      BY <2>1, <2>2, <2>4, <3>3, FlagsAfter
    <3>4. QED BY <3>1, <3>2, <3>3
  <2>10. ASSUME held' \cap Shifts # {}, ~bothHeld' PROVE keyboard_state'.shift_pressed
    <3>1. ~bothHeld
      BY <2>1, <2>10
    <3>2. CASE c \in Shifts
      BY <2>1, <2>2, <2>4, <3>2, FlagsAfter
    <3>3. CASE c \notin Shifts /\ c - 128 \notin Shifts
      <4>1. keyboard_state'.shift_pressed = keyboard_state.shift_pressed
        BY <2>1, <2>2, <2>4, <3>3, FlagsAfter
      <4>2. held' \cap Shifts = held \cap Shifts
        BY <2>5, <2>6, <3>3
      <4>3. QED BY <2>10, <3>1, <4>1, <4>2 DEF ModifiersFollowKeys
    <3>4. CASE c \notin Shifts /\ c - 128 \in Shifts
      <4>1. IsRelease(c)
        BY <3>4 DEF IsRelease, Bytes, Shifts, SCAN_LEFTSHIFT, SCAN_RIGHTSHIFT
      <4>2. Shifts \subseteq held
        <5>1. PICK k \in Shifts : k \in held'
          BY <2>10
        <5>2. k \in held /\ k # c - 128 /\ c - 128 \in held
          BY <2>3, <2>5, <2>6, <3>4, <4>1, <5>1
        <5>3. QED BY <3>4, <5>1, <5>2 DEF Shifts
      <4>3. QED BY <3>1, <4>2 DEF ShiftsNoted
    <3>5. QED BY <3>2, <3>3, <3>4
  <2>11. QED BY <2>7, <2>8, <2>9, <2>10 DEF ModifiersFollowKeys
<1>4. QED BY <1>1, <1>2, <1>3, NextKinds

\* Counting indices: one more at the end counts once.
LEMMA CountStep ==
    ASSUME NEW n \in Nat, NEW A, A \subseteq 1 .. n
    PROVE  /\ IsFiniteSet(A) /\ Cardinality(A) \in Nat
           /\ Cardinality(A \cup {n + 1}) = Cardinality(A) + 1
<1>1. IsFiniteSet(1 .. n)
  BY FS_Interval
<1>2. IsFiniteSet(A)
  BY <1>1, FS_Subset
<1>3. Cardinality(A) \in Nat
  BY <1>2, FS_CardinalityType
<1>4. n + 1 \notin A
  OBVIOUS
<1>5. QED BY <1>2, <1>3, <1>4, FS_AddElement

\* A letter is printed, as the key it is, in the case of the flags.
LEMMA LetterPrinted ==
    ASSUME NEW ks \in KeyboardState, NEW c \in Bytes
    PROVE  /\ c \in Letters =>
                /\ CharPrinted(ks, c) # NoChar
                /\ CharPrinted(ks, c) =
                     [key |-> c, upper |-> ks.shift_pressed # ks.caps_lock]
                /\ ~IsRelease(c) /\ c \notin Shifts /\ c - 128 \notin Shifts
                /\ c # SCAN_CAPSLOCK
           /\ CharPrinted(ks, c) # NoChar => CharPrinted(ks, c).key = c
<1>1. ASSUME c \in Letters
      PROVE  /\ ~IsRelease(c) /\ c \notin Modifiers /\ c \in Printing /\ c # 0
             /\ c - 128 \notin Shifts /\ c # SCAN_CAPSLOCK
  BY <1>1 DEF Letters, IsRelease, Modifiers, Shifts, SCAN_LEFTSHIFT, SCAN_RIGHTSHIFT,
              SCAN_LEFTCTRL, SCAN_LEFTALT, SCAN_CAPSLOCK, Printing, Bytes
<1>2. ASSUME c \in Letters
      PROVE  CharPrinted(ks, c) = [key |-> c, upper |-> ks.shift_pressed # ks.caps_lock]
  <2>1. CharPrinted(ks, c) = keyboard_scancode_to_char(ks, c)
    BY <1>1, <1>2 DEF CharPrinted
  <2>2. c \notin OneGlyph
    BY <1>2 DEF Letters, OneGlyph
  <2>3. QED BY <1>1, <1>2, <2>1, <2>2 DEF keyboard_scancode_to_char
<1>3. ASSUME c \in Letters PROVE CharPrinted(ks, c) # NoChar
  <2>1. CharPrinted(ks, c).key = c /\ NoChar.key = 0
    BY <1>2, <1>3 DEF NoChar
  <2>2. QED BY <1>1, <1>3, <2>1
<1>4. CharPrinted(ks, c) # NoChar => CharPrinted(ks, c).key = c
  BY DEF CharPrinted, keyboard_scancode_to_char
<1>5. QED BY <1>1, <1>2, <1>3, <1>4 DEF Modifiers

\* Letters on the screen are the letters decoded.
LEMMA NextLetters ==
    ASSUME DispatchInv, BytesSound, TypistSound, HeldSound, QuietBoot, ShiftsNoted,
           ModifiersFollowKeys, LettersSound, [Next]_vars
    PROVE  LettersSound'
<1>0. /\ handled \in Seq(Bytes) /\ shown \in Seq(KeyChars) /\ Len(handled) \in Nat
      /\ Len(shown) \in Nat /\ outbuf \in Bytes
  BY DEF DispatchInv, TypeInv, TypeOK
<1>1. CASE (\E k \in Keys : Press(k) \/ Release(k)) \/ LoadByte \/ OtherStep \/ keyboard_init
  <2>1. SUFFICES ASSUME raised' = NONE PROVE LettersSound'
    BY DEF LettersSound
  <2>2. /\ UNCHANGED <<keyboard_state, shown, held, bothHeld, handled>>
        /\ raised = NONE /\ (cpu = "decode" <=> cpu' = "decode")
    <3>1. CASE (\E k \in Keys : Press(k) \/ Release(k)) \/ LoadByte \/ OtherStep
      BY <2>1, <3>1 DEF Press, Release, Send, LoadByte, OtherStep, kbdVars
    <3>2. CASE keyboard_init
      BY <2>1, <3>2 DEF keyboard_init, QuietBoot
    <3>3. QED BY <1>1, <3>1, <3>2
  <2>3. Decoded' = Decoded /\ LettersShown' = LettersShown
    BY <2>2 DEF Decoded, LettersShown
  <2>4. DecodedLetters' = DecodedLetters
    BY <2>2, <2>3 DEF DecodedLetters
  <2>5. QED BY <2>2, <2>3, <2>4 DEF LettersSound
<1>2. CASE KeyboardRead
  <2>1. raised = NONE /\ cpu = "dispatch"
    BY <1>2, ReadServes
  <2>2. /\ handled' = Append(handled, outbuf) /\ cpu' = "decode" /\ shown' = shown
    BY <1>2 DEF KeyboardRead
  <2>3. /\ Len(handled') = Len(handled) + 1
        /\ \A i \in 1 .. Len(handled) : handled'[i] = handled[i]
    BY <1>0, <2>2, AppendProperties
  <2>4. Decoded' = Len(handled) /\ Decoded = Len(handled)
    BY <1>0, <2>1, <2>2, <2>3 DEF Decoded
  <2>5. DecodedLetters' = DecodedLetters
    BY <2>3, <2>4 DEF DecodedLetters
  <2>6. LettersShown' = LettersShown
    BY <2>2 DEF LettersShown
  <2>7. QED BY <2>1, <2>2, <2>5, <2>6 DEF LettersSound
<1>3. CASE KeyboardDecode
  <2>1. /\ cpu = "decode" /\ cpu' = "main" /\ held' = HeldAfter(scancode)
        /\ keyboard_state' = StateAfter(keyboard_state, scancode)
        /\ bothHeld' = (held' \cap Shifts # {} /\ (bothHeld \/ Shifts \subseteq held'))
        /\ shown' = IF CharPrinted(keyboard_state, scancode) = NoChar THEN shown
                    ELSE Append(shown, CharPrinted(keyboard_state, scancode))
        /\ handled' = handled
    BY <1>3 DEF KeyboardDecode
  <2>2. PICK c \in Bytes : c = scancode
    BY <2>1, DecodedByte
  <2>3. PICK ks \in KeyboardState : ks = keyboard_state
    BY DEF DispatchInv, TypeInv, TypeOK
  <2>4. PICK n \in Nat : n = Decoded /\ Len(handled) = n + 1
    BY <2>1, DecodedBound, DecodedByte
  <2>5. Decoded' = n + 1 /\ handled[n + 1] = c
    BY <2>1, <2>2, <2>4 DEF Decoded, BytesSound
  <2>6. PICK ch : ch = CharPrinted(ks, c)
    OBVIOUS
  <2>7. shown' = IF ch = NoChar THEN shown ELSE Append(shown, ch)
    BY <2>1, <2>2, <2>3, <2>6
  <2>8. ch # NoChar => ch \in KeyChars /\ ch.key = c
    BY <2>6, DecodeTypes, LetterPrinted
  <2>9. /\ c \in Letters => ch # NoChar /\ c \notin Shifts /\ c - 128 \notin Shifts
        /\ c \in Letters => ch = [key |-> c, upper |-> ks.shift_pressed # ks.caps_lock]
        /\ c \in Letters => c # SCAN_CAPSLOCK
    BY <2>6, LetterPrinted
  <2>10. DecodedLetters \subseteq 1 .. n /\ LettersShown \subseteq 1 .. Len(shown)
    BY <1>0, <2>4 DEF DecodedLetters, LettersShown
  <2>11. /\ c \in Letters => DecodedLetters' = DecodedLetters \cup {n + 1}
         /\ c \notin Letters => DecodedLetters' = DecodedLetters
    BY <2>1, <2>4, <2>5 DEF DecodedLetters
  <2>12. /\ c \in Letters => LettersShown' = LettersShown \cup {Len(shown) + 1}
         /\ c \notin Letters => LettersShown' = LettersShown
    <3>1. CASE ch = NoChar
      BY <2>7, <2>9, <3>1 DEF LettersShown
    <3>2. CASE ch # NoChar
      <4>1. shown' = Append(shown, ch) /\ ch \in KeyChars /\ ch.key = c
        BY <2>7, <2>8, <3>2
      <4>2. /\ DOMAIN shown' = 1 .. Len(shown) + 1 /\ DOMAIN shown = 1 .. Len(shown)
            /\ \A i \in 1 .. Len(shown) : shown'[i] = shown[i]
            /\ shown'[Len(shown) + 1] = ch
        BY <1>0, <4>1, AppendProperties, LenProperties
      <4>3. \A i \in 1 .. Len(shown) + 1 : i \in 1 .. Len(shown) \/ i = Len(shown) + 1
        BY <1>0
      <4>4. Len(shown) + 1 \in 1 .. Len(shown) + 1 /\ 1 .. Len(shown) \subseteq 1 .. Len(shown) + 1
        BY <1>0
      <4>5. QED BY <4>1, <4>2, <4>3, <4>4 DEF LettersShown
    <3>3. QED BY <3>1, <3>2
  <2>13. raised = NONE /\ Cardinality(LettersShown) = Cardinality(DecodedLetters)
    BY <2>1, DecodedByte DEF LettersSound
  <2>14. Cardinality(LettersShown') = Cardinality(DecodedLetters')
    <3>1. CASE c \in Letters
      <4>1. Cardinality(LettersShown') = Cardinality(LettersShown) + 1
        BY <1>0, <2>10, <2>12, <3>1, CountStep
      <4>2. Cardinality(DecodedLetters') = Cardinality(DecodedLetters) + 1
        BY <2>10, <2>11, <3>1, CountStep
      <4>3. QED BY <2>13, <4>1, <4>2
    <3>2. CASE c \notin Letters
      BY <2>11, <2>12, <2>13, <3>2
    <3>3. QED BY <3>1, <3>2
  <2>15. ASSUME c \in Letters
         PROVE  /\ shown' # <<>>
                /\ ~bothHeld' => shown'[Len(shown')] =
                     [key |-> c, upper |-> (held' \cap Shifts # {}) # keyboard_state'.caps_lock]
    <3>1. /\ shown' = Append(shown, ch) /\ ch \in KeyChars
          /\ ch = [key |-> c, upper |-> ks.shift_pressed # ks.caps_lock]
      BY <2>7, <2>8, <2>9, <2>15
    <3>2. shown' # <<>> /\ shown'[Len(shown')] = ch
      BY <1>0, <3>1, AppendProperties
    <3>3. keyboard_state'.caps_lock = ks.caps_lock
      BY <2>1, <2>2, <2>3, <2>9, <2>15, FlagsAfter
    <3>4. held' \cap Shifts = held \cap Shifts
      <4>1. \A k \in Scancodes : k \in held' <=> c = k \/ (k \in held /\ c - 128 # k)
        BY <2>1, <2>2, KeysAfter
      <4>2. Shifts \subseteq Scancodes
        BY DEF Shifts, SCAN_LEFTSHIFT, SCAN_RIGHTSHIFT, Scancodes
      <4>3. QED BY <2>9, <2>15, <4>1, <4>2
    <3>5. ~bothHeld' => (ks.shift_pressed <=> held \cap Shifts # {})
      BY <2>1, <2>3, <3>4 DEF ModifiersFollowKeys
    <3>6. ks.shift_pressed \in BOOLEAN
      BY DEF KeyboardState
    <3>7. ~bothHeld' => ks.shift_pressed = (held' \cap Shifts # {})
      BY <3>4, <3>5, <3>6
    <3>8. QED BY <3>1, <3>2, <3>3, <3>7
  <2>16. QED BY <2>1, <2>4, <2>5, <2>14, <2>15 DEF LettersSound
<1>4. QED BY <1>1, <1>2, <1>3, NextKinds

\* Before the first byte.
LEMMA InitKeys == Init => KeysInv
<1> SUFFICES ASSUME Init PROVE KeysInv
  OBVIOUS
<1>1. DispatchInv
  BY InitDispatch
<1>2. /\ down = {} /\ wire = <<>> /\ typed = <<>> /\ handled = <<>> /\ shown = <<>>
      /\ obf = FALSE /\ held = {} /\ bothHeld = FALSE /\ cpu = "main"
      /\ keyboard_state = ClearedState
  BY DEF Init
<1>3. Len(typed) = 0 /\ Len(handled) = 0 /\ Len(shown) = 0 /\ Decoded = 0
  BY <1>2 DEF Decoded
<1>4. BytesSound
  <2>1. Waiting = <<>>
    BY <1>2 DEF Waiting
  <2>2. <<>> \o <<>> = <<>>
    BY EmptySeq, ConcatEmptySeq
  <2>3. typed = handled \o Waiting \o wire
    BY <1>2, <2>1, <2>2
  <2>4. QED BY <1>2, <2>3 DEF BytesSound, BytesOnceInOrder
<1>5. TypistSound /\ HeldSound
  BY <1>2, <1>3 DEF TypistSound, HeldSound, HeldAfterBytes
<1>6. QuietBoot
  BY <1>2 DEF QuietBoot
<1>7. ShiftsNoted
  BY <1>2 DEF ShiftsNoted, Shifts
<1>8. ModifiersFollowKeys
  BY <1>2 DEF ModifiersFollowKeys, ClearedState
<1>9. LettersSound
  <2>1. LettersShown = {}
    BY <1>2 DEF LettersShown
  <2>2. DecodedLetters = {}
    BY <1>3 DEF DecodedLetters
  <2>3. QED BY <1>2, <2>1, <2>2 DEF LettersSound
<1>10. QED BY <1>1, <1>4, <1>5, <1>6, <1>7, <1>8, <1>9 DEF KeysInv

\* The inductive invariant of bytes, keys and letters holds of every run.
LEMMA KeysInvariance == ASSUME VectorPassed PROVE Spec => []KeysInv
<1>1. ASSUME KeysInv, [Next]_vars PROVE KeysInv'
  <2>1. /\ DispatchInv /\ BytesSound /\ TypistSound /\ HeldSound /\ QuietBoot
        /\ ShiftsNoted /\ ModifiersFollowKeys /\ LettersSound
    BY <1>1 DEF KeysInv
  <2>2. DispatchInv'
    BY <1>1, <2>1, NextDispatch
  <2>3. BytesSound' /\ TypistSound' /\ HeldSound' /\ QuietBoot'
    BY <1>1, <2>1, NextBytes, NextTypist, NextHeld, NextQuiet
  <2>4. ShiftsNoted' /\ ModifiersFollowKeys' /\ LettersSound'
    BY <1>1, <2>1, NextModifiers, NextLetters
  <2>5. QED BY <2>2, <2>3, <2>4 DEF KeysInv
<1>2. QED BY <1>1, InitKeys, PTL DEF Spec

(***************************************************************************)
(* keyboard_handler reads every byte sent, once and in the order sent, for *)
(* texts of any length and wherever interrupts and faults fall.            *)
(***************************************************************************)
THEOREM BytesReadOnceInOrder == ASSUME VectorPassed PROVE Spec => []BytesOnceInOrder
<1>1. KeysInv => BytesOnceInOrder
  BY DEF KeysInv, BytesSound
<1>2. QED BY <1>1, KeysInvariance, PTL

(***************************************************************************)
(* Ctrl and Alt flags are the keys held; the shift flag too, but after     *)
(* both shift keys were down together.                                     *)
(***************************************************************************)
THEOREM FlagsFollowKeys == ASSUME VectorPassed PROVE Spec => []ModifiersFollowKeys
<1>1. KeysInv => ModifiersFollowKeys
  BY DEF KeysInv
<1>2. QED BY <1>1, KeysInvariance, PTL

(***************************************************************************)
(* Every letter read is on the screen once, the last one in the case that  *)
(* the shift keys and Caps Lock give it.                                   *)
(***************************************************************************)
THEOREM LettersInCase == ASSUME VectorPassed PROVE Spec => []LettersShownInCase
<1>1. KeysInv => LettersShownInCase
  <2> SUFFICES ASSUME KeysInv, cpu = "main"
               PROVE  /\ Cardinality(LettersShown) = Cardinality(LetterPresses)
                      /\ handled # <<>> /\ handled[Len(handled)] \in Letters /\ ~bothHeld =>
                           shown[Len(shown)] =
                             [key |-> handled[Len(handled)],
                              upper |-> (held \cap Shifts # {}) # keyboard_state.caps_lock]
    BY DEF LettersShownInCase
  <2>1. LettersSound /\ raised = NONE
    BY DEF KeysInv, DispatchInv, FaultSound
  <2>2. DecodedLetters = LetterPresses
    <3>1. handled \in Seq(Bytes)
      BY DEF KeysInv, DispatchInv, TypeInv, TypeOK
    <3>2. DOMAIN handled = 1 .. Len(handled)
      BY <3>1, LenProperties
    <3>3. QED BY <3>2 DEF DecodedLetters, LetterPresses, Decoded
  <2>3. QED BY <2>1, <2>2 DEF LettersSound
<1>2. QED BY <1>1, KeysInvariance, PTL

=============================================================================
