--------------------------- MODULE UserlandProofs ---------------------------
(***************************************************************************)
(* Proofs about process 1, for any list of devices, any number of setup    *)
(* commands, and disks that come and go at any moment.                     *)
(***************************************************************************)
EXTENDS Userland, SequenceTheorems, TLAPS

(***************************************************************************)
(* The names already tried are those before todo, a suffix of names.       *)
(* A name that was not unplugged since the globs were expanded still       *)
(* stands for the disk it stood for then, and if it was tried and passed   *)
(* over, that disk is not bootable.                                        *)
(***************************************************************************)
Tried == Len(names) - Len(todo)

ListSound ==
    /\ Len(todo) <= Len(names)
    /\ \A i \in 1 .. Len(todo) : todo[i] = names[Tried + i]
    /\ \A i, j \in 1 .. Len(names) : names[i] = names[j] => i = j
    /\ pc = "start" => names = <<>> /\ todo = <<>>

DisksSound == \A i \in 1 .. Len(names) : disk[names[i]] = "absent" => names[i] \in lost

TriedSound == \A i \in 1 .. Tried : names[i] \in lost \/ disk[names[i]] \notin Bootable

(***************************************************************************)
(* What is mounted is the device the loop is at, and what the two tests    *)
(* and the two mounts before have found of it.                             *)
(***************************************************************************)
Trying == {"ext4", "root", "vfat", "live"}

MountSound ==
    /\ pc \in Trying => todo # <<>>
    /\ pc \in {"start", "next", "ext4", "vfat"} => mnt = <<>>
    /\ pc \in {"root", "live"} => mnt # <<>>
    /\ mnt # <<>> => /\ Len(mnt) = 1 /\ todo # <<>> /\ mnt[1].dev = todo[1]
                     /\ mnt[1].dev \in lost \/ disk[mnt[1].dev] = mnt[1].kind
    /\ pc = "vfat" => todo[1] \in lost \/ disk[todo[1]] \notin Ext4
    /\ pc = "root" => mnt[1].kind \in Ext4
    /\ pc = "live" => mnt[1].kind \in Vfat

(***************************************************************************)
(* How the search ends, and what process 1 was asked before it ends.       *)
(***************************************************************************)
Searching == pc \in {"start", "next", "ext4", "root", "vfat", "live", "switch"}

EndSound ==
    /\ pc \in {"switch", "shell"} =>
          \/ mnt = <<>> /\ todo = <<>>
          \/ mnt # <<>> /\ (mnt[1].kind \in Bootable \/ mnt[1].dev \in lost)
    /\ pc = "shell" /\ mnt # <<>> => ~HasInit(mnt[1]) \/ mnt[1].dev \in lost
    /\ pc \in {"exec", "setup", "prompt", "exit"} =>
          mnt # <<>> /\ (HasInit(mnt[1]) \/ mnt[1].dev \in lost)
    /\ Searching \/ pc \in {"shell", "exec"} => done = 0
    /\ pc = "exit" => command = "exit"
    /\ ProcessOneEnds

UserlandInv == TypeOK /\ ListSound /\ DisksSound /\ TriedSound /\ MountSound /\ EndSound

-----------------------------------------------------------------------------
\* What the list, the mount point and the devices are, as sets and sequences.
LEMMA Shapes ==
    ASSUME UserlandInv
    PROVE  /\ Len(names) \in Nat /\ Len(todo) \in Nat /\ Tried \in Nat
           /\ Tried + Len(todo) = Len(names)
           /\ \A i \in 1 .. Len(names) : names[i] \in Devices
           /\ \A i \in 1 .. Len(todo) : todo[i] \in Devices
           /\ todo # <<>> => /\ Len(todo) >= 1 /\ Head(todo) = todo[1]
                             /\ todo[1] = names[Tried + 1] /\ Tried + 1 \in 1 .. Len(names)
                             /\ todo[1] \in Devices /\ Tail(todo) \in Seq(Devices)
                             /\ Len(Tail(todo)) = Len(todo) - 1
                             /\ \A i \in 1 .. Len(todo) - 1 : Tail(todo)[i] = todo[i + 1]
<1>1. /\ names \in Seq(Devices) /\ todo \in Seq(Devices) /\ Len(todo) <= Len(names)
      /\ \A i \in 1 .. Len(todo) : todo[i] = names[Tried + i]
  BY DEF UserlandInv, TypeOK, ListSound
<1>2. /\ Len(names) \in Nat /\ Len(todo) \in Nat /\ Tried \in Nat
      /\ Tried + Len(todo) = Len(names)
  BY <1>1 DEF Tried
<1>3. /\ \A i \in 1 .. Len(names) : names[i] \in Devices
      /\ \A i \in 1 .. Len(todo) : todo[i] \in Devices
  BY <1>1, ElementOfSeq
<1>4. ASSUME todo # <<>>
      PROVE  /\ Len(todo) >= 1 /\ Head(todo) = todo[1]
             /\ todo[1] = names[Tried + 1] /\ Tried + 1 \in 1 .. Len(names)
             /\ todo[1] \in Devices /\ Tail(todo) \in Seq(Devices)
             /\ Len(Tail(todo)) = Len(todo) - 1
             /\ \A i \in 1 .. Len(todo) - 1 : Tail(todo)[i] = todo[i + 1]
  <2>1. Len(todo) >= 1 /\ Len(todo) # 0
    BY <1>1, <1>2, <1>4, EmptySeq
  <2>2. 1 \in 1 .. Len(todo) /\ Tried + 1 \in 1 .. Len(names)
    BY <1>2, <2>1
  <2>3. /\ Head(todo) = todo[1] /\ Tail(todo) \in Seq(Devices)
        /\ Len(Tail(todo)) = Len(todo) - 1
        /\ \A i \in 1 .. Len(todo) - 1 : Tail(todo)[i] = todo[i + 1]
    BY <1>1, <1>4, HeadTailProperties, <2>1
  <2>4. QED BY <1>1, <1>3, <2>1, <2>2, <2>3
<1>5. QED BY <1>2, <1>3, <1>4

\* The list part of the invariant.
Listed == ListSound /\ DisksSound /\ TriedSound

\* A step that leaves the list and the disks alone.
LEMMA ListStays ==
    ASSUME UserlandInv, UNCHANGED <<todo, names, disk, lost>>, pc' # "start" \/ pc' = pc
    PROVE  Listed'
<1>1. Tried' = Tried
  BY DEF Tried
<1>2. QED BY <1>1 DEF UserlandInv, Listed, ListSound, DisksSound, TriedSound, Bootable

\* A step to the next name: the device passed over is gone or not bootable.
LEMMA ListAdvances ==
    ASSUME UserlandInv, todo # <<>>, todo' = Tail(todo), UNCHANGED <<names, disk, lost>>,
           pc' # "start", todo[1] \in lost \/ disk[todo[1]] \notin Bootable
    PROVE  Listed' /\ todo' \in Seq(Devices)
<1>1. PICK t \in Nat : t = Tried
  BY Shapes
<1>2. PICK n \in Nat : n = Len(todo) /\ n >= 1 /\ Len(names) = t + n
  BY <1>1, Shapes
<1>3. /\ todo' \in Seq(Devices) /\ Len(todo') = n - 1
      /\ \A i \in 1 .. n - 1 : todo'[i] = todo[i + 1]
  BY <1>2, Shapes
<1>4. Tried' = t + 1
  BY <1>2, <1>3 DEF Tried
<1>5. \A i \in 1 .. n : todo[i] = names[t + i]
  BY <1>1, <1>2 DEF UserlandInv, ListSound
<1>6. \A i \in 1 .. n - 1 : todo'[i] = names[(t + 1) + i]
  <2>1. SUFFICES ASSUME NEW i \in 1 .. n - 1 PROVE todo'[i] = names[(t + 1) + i]
    OBVIOUS
  <2>2. i + 1 \in 1 .. n /\ t + (i + 1) = (t + 1) + i
    BY <1>2
  <2>3. QED BY <1>3, <1>5, <2>2
<1>7. ListSound'
  <2>1. Len(todo') <= Len(names')
    BY <1>2, <1>3
  <2>2. \A i \in 1 .. Len(todo') : todo'[i] = names'[Tried' + i]
    BY <1>3, <1>4, <1>6
  <2>3. \A i, j \in 1 .. Len(names') : names'[i] = names'[j] => i = j
    BY DEF UserlandInv, ListSound
  <2>4. QED BY <2>1, <2>2, <2>3 DEF ListSound
<1>8. DisksSound'
  BY DEF UserlandInv, DisksSound
<1>9. TriedSound'
  <2>1. \A i \in 1 .. t : names[i] \in lost \/ disk[names[i]] \notin Bootable
    BY <1>1 DEF UserlandInv, TriedSound
  <2>2. names[t + 1] \in lost \/ disk[names[t + 1]] \notin Bootable
    BY <1>1, Shapes
  <2>3. \A i \in 1 .. t + 1 : i \in 1 .. t \/ i = t + 1
    OBVIOUS
  <2>4. \A i \in 1 .. t + 1 : names[i] \in lost \/ disk[names[i]] \notin Bootable
    BY <2>1, <2>2, <2>3
  <2>5. QED BY <1>4, <2>4 DEF TriedSound
<1>10. QED BY <1>3, <1>7, <1>8, <1>9 DEF Listed

-----------------------------------------------------------------------------
PCs == {"start", "next", "ext4", "root", "vfat", "live", "switch",
        "exec", "setup", "prompt", "exit", "shell", "panic", "down"}

\* The loop's steps leave the root file system's variables alone.
LEMMA ScanTypes ==
    ASSUME TypeOK, UNCHANGED <<applets, tools, done, tty, command>>, pc' \in PCs,
           disk' \in [Devices -> Kinds \cup {"absent"}], lost' \subseteq Devices,
           todo' \in Seq(Devices), names' \in Seq(Devices),
           mnt' \in Seq(Mounts), Len(mnt') <= 1
    PROVE  TypeOK'
  BY DEF TypeOK, PCs, Mounts, Kinds, Devices, Range

\* The expansion of the globs: no name twice, and each one of a present disk.
LEMMA ExpandKeeps ==
    ASSUME UserlandInv, ExpandGlobs, UNCHANGED <<tools, rootVars>> PROVE UserlandInv'
<1>1. PICK s \in SeqOf(Devices, Len(Order)) : Expansion(s) /\ names' = s
  BY DEF ExpandGlobs
<1>2. /\ pc = "start" /\ pc' = "next" /\ todo' = s /\ names' = s /\ lost' = {}
      /\ UNCHANGED <<disk, mnt, applets, tools, done, tty, command>>
  BY <1>1 DEF ExpandGlobs, rootVars
<1>3. s \in Seq(Devices)
  <2>1. PICK m \in 0 .. Len(Order) : s \in [1 .. m -> Devices]
    BY DEF SeqOf
  <2>2. Len(Order) \in Nat
    BY UserlandConstants
  <2>3. m \in Nat
    BY <2>1, <2>2
  <2>4. QED BY <2>1, <2>3, IsASeq
<1>4. DOMAIN s = 1 .. Len(s) /\ Len(s) \in Nat
  BY <1>3, LenProperties
<1>5. ASSUME NEW i \in 1 .. Len(s), NEW j \in 1 .. Len(s), s[i] = s[j] PROVE i = j
  <2>1. ASSUME NEW a \in 1 .. Len(s), NEW b \in 1 .. Len(s), a < b, s[a] = s[b] PROVE FALSE
    <3>1. Earlier(s[a], s[b])
      BY <1>1, <1>4, <2>1 DEF Expansion
    <3>2. PICK p, q \in DOMAIN Order : p < q /\ Order[p] = s[a] /\ Order[q] = s[b]
      BY <3>1 DEF Earlier
    <3>3. p = q
      BY <2>1, <3>2, UserlandConstants DEF IsInjective
    <3>4. p \in Nat
      BY UserlandConstants, LenProperties
    <3>5. QED BY <3>2, <3>3, <3>4
  <2>2. i \in Nat /\ j \in Nat
    BY <1>4
  <2>3. QED BY <1>5, <2>1, <2>2
<1>6. \A i \in 1 .. Len(s) : disk[s[i]] # "absent"
  BY <1>1, <1>4 DEF Expansion, Present, Range
<1>7. Tried' = 0
  BY <1>2, <1>4 DEF Tried
<1>8. ListSound'
  BY <1>2, <1>4, <1>5, <1>7 DEF ListSound
<1>9. DisksSound' /\ TriedSound'
  BY <1>2, <1>6, <1>7 DEF DisksSound, TriedSound
<1>10. mnt = <<>>
  BY <1>2 DEF UserlandInv, MountSound
<1>11. MountSound'
  BY <1>2, <1>10 DEF MountSound, Trying
<1>12. EndSound'
  BY <1>2 DEF UserlandInv, EndSound, Searching, ProcessOneEnds
<1>13. TypeOK'
  BY <1>2, <1>3, ScanTypes DEF UserlandInv, TypeOK, PCs
<1>14. QED BY <1>8, <1>9, <1>11, <1>12, <1>13 DEF UserlandInv

\* The next name is a block device, or is passed over.
LEMMA TryKeeps ==
    ASSUME UserlandInv, TryDevice, UNCHANGED <<tools, rootVars>> PROVE UserlandInv'
<1>1. /\ pc = "next" /\ todo # <<>>
      /\ UNCHANGED <<disk, lost, mnt, names, applets, tools, done, tty, command>>
  BY DEF TryDevice, diskVars, rootVars
<1>2. mnt = <<>> /\ done = 0
  BY <1>1 DEF UserlandInv, MountSound, EndSound, Searching
<1>3. /\ Head(todo) = todo[1] /\ todo[1] = names[Tried + 1] /\ Tried + 1 \in 1 .. Len(names)
  BY <1>1, Shapes
<1>4. CASE disk[todo[1]] # "absent"
  <2>1. pc' = "ext4" /\ todo' = todo
    BY <1>3, <1>4 DEF TryDevice, Present, device
  <2>2. Listed'
    BY <1>1, <2>1, ListStays
  <2>3. MountSound'
    BY <1>1, <1>2, <2>1 DEF MountSound, Trying
  <2>4. EndSound'
    BY <1>1, <1>2, <2>1 DEF EndSound, Searching, ProcessOneEnds
  <2>5. TypeOK'
    BY <1>1, <2>1, ScanTypes DEF UserlandInv, TypeOK, PCs
  <2>6. QED BY <2>2, <2>3, <2>4, <2>5 DEF UserlandInv, Listed
<1>5. CASE disk[todo[1]] = "absent"
  <2>1. pc' = "next" /\ todo' = Tail(todo)
    BY <1>1, <1>3, <1>5 DEF TryDevice, Present, device
  <2>2. todo[1] \in lost
    BY <1>3, <1>5 DEF UserlandInv, DisksSound
  <2>3. Listed' /\ todo' \in Seq(Devices)
    BY <1>1, <2>1, <2>2, ListAdvances
  <2>4. MountSound'
    BY <1>1, <1>2, <2>1 DEF MountSound, Trying
  <2>5. EndSound'
    BY <1>1, <1>2, <2>1 DEF EndSound, Searching, ProcessOneEnds
  <2>6. TypeOK'
    BY <1>1, <2>1, <2>3, ScanTypes DEF UserlandInv, TypeOK, PCs
  <2>7. QED BY <2>3, <2>4, <2>5, <2>6 DEF UserlandInv, Listed
<1>6. QED BY <1>4, <1>5

\* The end of the list.
LEMMA EndOfListKeeps ==
    ASSUME UserlandInv, EndOfList, UNCHANGED <<tools, rootVars>> PROVE UserlandInv'
<1>1. /\ pc = "next" /\ todo = <<>> /\ pc' = "switch" /\ UNCHANGED todo
      /\ UNCHANGED <<disk, lost, mnt, names, applets, tools, done, tty, command>>
  BY DEF EndOfList, diskVars, rootVars
<1>2. mnt = <<>> /\ done = 0
  BY <1>1 DEF UserlandInv, MountSound, EndSound, Searching
<1>3. Listed'
  BY <1>1, ListStays
<1>4. MountSound' /\ EndSound'
  BY <1>1, <1>2 DEF MountSound, Trying, EndSound, Searching, ProcessOneEnds
<1>5. TypeOK'
  BY <1>1, ScanTypes DEF UserlandInv, TypeOK, PCs
<1>6. QED BY <1>3, <1>4, <1>5 DEF UserlandInv, Listed

\* A successful mount of the device the loop is at.
LEMMA MountSucceeds ==
    ASSUME UserlandInv, todo # <<>>, mnt = <<>>, Searching, disk[todo[1]] \in Kinds,
           mnt' = Append(mnt, [dev |-> todo[1], kind |-> disk[todo[1]]]),
           \/ pc' = "root" /\ disk[todo[1]] \in Ext4
           \/ pc' = "live" /\ disk[todo[1]] \in Vfat,
           UNCHANGED <<todo, disk, lost, names, applets, tools, done, tty, command>>
    PROVE  UserlandInv'
<1>1. PICK m \in Mounts : m = [dev |-> todo[1], kind |-> disk[todo[1]]]
  BY Shapes DEF Mounts
<1>2. mnt' = <<m>>
  BY <1>1
<1>3. /\ mnt' # <<>> /\ Len(mnt') = 1 /\ mnt'[1] = m /\ mnt' \in Seq(Mounts)
      /\ m.dev = todo[1] /\ m.kind = disk[todo[1]]
  BY <1>1, <1>2
<1>4. Listed'
  BY ListStays
<1>5. MountSound'
  <2>1. /\ pc' \in {"root", "live"} /\ todo' # <<>> /\ mnt'[1].dev = todo'[1]
        /\ disk'[mnt'[1].dev] = mnt'[1].kind
        /\ pc' = "root" => mnt'[1].kind \in Ext4
        /\ pc' = "live" => mnt'[1].kind \in Vfat
    BY <1>3
  <2>2. QED BY <1>3, <2>1 DEF MountSound, Trying, Ext4, Vfat
<1>6. EndSound'
  BY DEF UserlandInv, EndSound, Searching, ProcessOneEnds
<1>7. TypeOK'
  <2>1. pc' \in PCs /\ Len(mnt') <= 1
    BY <1>3 DEF PCs
  <2>2. /\ TypeOK /\ disk' \in [Devices -> Kinds \cup {"absent"}] /\ lost' \subseteq Devices
        /\ todo' \in Seq(Devices) /\ names' \in Seq(Devices)
    BY DEF UserlandInv, TypeOK
  <2>3. QED BY <1>3, <2>1, <2>2, ScanTypes
<1>8. QED BY <1>4, <1>5, <1>6, <1>7 DEF UserlandInv, Listed

\* mount -t ext4
LEMMA MountExt4Keeps ==
    ASSUME UserlandInv, MountExt4, UNCHANGED <<tools, rootVars>> PROVE UserlandInv'
<1>1. /\ pc = "ext4" /\ todo # <<>> /\ mnt = <<>> /\ done = 0
      /\ UNCHANGED <<disk, lost, names, applets, tools, done, tty, command>>
  BY DEF MountExt4, Mount, diskVars, rootVars, UserlandInv, MountSound, Trying, EndSound,
         Searching
<1>2. Head(todo) = todo[1]
  BY <1>1, Shapes
<1>3. CASE disk[todo[1]] \in Ext4
  <2>1. /\ mnt' = Append(mnt, [dev |-> todo[1], kind |-> disk[todo[1]]])
        /\ pc' = "root" /\ todo' = todo
    BY <1>2, <1>3 DEF MountExt4, Mount, device
  <2>2. Searching /\ disk[todo[1]] \in Kinds
    BY <1>1, <1>3 DEF Searching, Kinds
  <2>3. QED BY <1>1, <1>3, <2>1, <2>2, MountSucceeds
<1>4. CASE disk[todo[1]] \notin Ext4
  <2>1. pc' = "vfat" /\ mnt' = mnt /\ todo' = todo
    BY <1>2, <1>4 DEF MountExt4, Mount, device
  <2>2. Listed'
    BY <1>1, <2>1, ListStays
  <2>3. MountSound'
    BY <1>1, <1>4, <2>1 DEF MountSound, Trying
  <2>4. EndSound'
    BY <1>1, <2>1 DEF EndSound, Searching, ProcessOneEnds
  <2>5. TypeOK'
    BY <1>1, <2>1, ScanTypes DEF UserlandInv, TypeOK, PCs
  <2>6. QED BY <2>2, <2>3, <2>4, <2>5 DEF UserlandInv, Listed
<1>5. QED BY <1>3, <1>4

\* The loop goes on with the next name, nothing mounted.
LEMMA GoesOn ==
    ASSUME UserlandInv, todo # <<>>, todo' = Tail(todo), mnt' = <<>>, pc' = "next",
           done = 0, UNCHANGED <<disk, lost, names, applets, tools, done, tty, command>>,
           todo[1] \in lost \/ disk[todo[1]] \notin Bootable
    PROVE  UserlandInv'
<1>1. Listed' /\ todo' \in Seq(Devices)
  BY ListAdvances
<1>2. MountSound'
  BY DEF MountSound, Trying
<1>3. EndSound'
  BY DEF EndSound, Searching, ProcessOneEnds
<1>4. mnt' \in Seq(Mounts) /\ Len(mnt') <= 1
  OBVIOUS
<1>5. TypeOK'
  BY <1>1, <1>4, ScanTypes DEF UserlandInv, TypeOK, PCs
<1>6. QED BY <1>1, <1>2, <1>3, <1>5 DEF UserlandInv, Listed

\* mount -t vfat; a device neither mount takes is not bootable.
LEMMA MountVfatKeeps ==
    ASSUME UserlandInv, MountVfat, UNCHANGED <<tools, rootVars>> PROVE UserlandInv'
<1>1. /\ pc = "vfat" /\ todo # <<>> /\ mnt = <<>> /\ done = 0
      /\ todo[1] \in lost \/ disk[todo[1]] \notin Ext4
      /\ UNCHANGED <<disk, lost, names, applets, tools, done, tty, command>>
  BY DEF MountVfat, Mount, diskVars, rootVars, UserlandInv, MountSound, Trying, EndSound,
         Searching
<1>2. Head(todo) = todo[1]
  BY <1>1, Shapes
<1>3. CASE disk[todo[1]] \in Vfat
  <2>1. /\ mnt' = Append(mnt, [dev |-> todo[1], kind |-> disk[todo[1]]])
        /\ pc' = "live" /\ todo' = todo
    BY <1>2, <1>3 DEF MountVfat, Mount, device
  <2>2. Searching /\ disk[todo[1]] \in Kinds
    BY <1>1, <1>3 DEF Searching, Kinds
  <2>3. QED BY <1>1, <1>3, <2>1, <2>2, MountSucceeds
<1>4. CASE disk[todo[1]] \notin Vfat
  <2>1. pc' = "next" /\ mnt' = <<>> /\ todo' = Tail(todo)
    BY <1>1, <1>2, <1>4 DEF MountVfat, Mount, device
  <2>2. todo[1] \in lost \/ disk[todo[1]] \notin Bootable
    BY <1>1, <1>4 DEF Bootable, Ext4, Vfat
  <2>3. QED BY <1>1, <2>1, <2>2, GoesOn
<1>5. QED BY <1>3, <1>4

\* The loop ends at a device on which a file was found.
LEMMA Breaks ==
    ASSUME UserlandInv, mnt # <<>>, done = 0, pc' = "switch",
           UNCHANGED <<todo, mnt, disk, lost, names, applets, tools, done, tty, command>>,
           mnt[1].kind \in Bootable \/ mnt[1].dev \in lost
    PROVE  UserlandInv'
<1>1. Listed'
  BY ListStays
<1>2. MountSound'
  BY DEF UserlandInv, MountSound, Trying
<1>3. EndSound'
  BY DEF EndSound, Searching, ProcessOneEnds
<1>4. TypeOK'
  BY ScanTypes DEF UserlandInv, TypeOK, PCs
<1>5. QED BY <1>1, <1>2, <1>3, <1>4 DEF UserlandInv, Listed

\* The file systems at /mnt while a test runs: one, of the device tried.
LEMMA OneMounted ==
    ASSUME UserlandInv, pc \in {"root", "live"}
    PROVE  /\ mnt # <<>> /\ todo # <<>> /\ Last(mnt) = mnt[1] /\ Front(mnt) = <<>>
           /\ mnt[1].dev = todo[1] /\ done = 0
           /\ mnt[1].dev \in lost \/ disk[mnt[1].dev] = mnt[1].kind
<1>1. /\ mnt # <<>> /\ todo # <<>> /\ Len(mnt) = 1 /\ mnt \in Seq(Mounts)
      /\ mnt[1].dev = todo[1] /\ done = 0
      /\ mnt[1].dev \in lost \/ disk[mnt[1].dev] = mnt[1].kind
  BY DEF UserlandInv, TypeOK, MountSound, EndSound, Searching
<1>2. Front(mnt) = <<>>
  BY <1>1 DEF Front
<1>3. QED BY <1>1, <1>2 DEF Last

\* The test for /sbin/init
LEMMA CheckRootKeeps ==
    ASSUME UserlandInv, CheckRoot, UNCHANGED <<tools, rootVars>> PROVE UserlandInv'
<1>1. /\ pc = "root"
      /\ UNCHANGED <<disk, lost, names, applets, tools, done, tty, command>>
  BY DEF CheckRoot, diskVars, rootVars
<1>2. /\ mnt # <<>> /\ todo # <<>> /\ Last(mnt) = mnt[1] /\ Front(mnt) = <<>>
      /\ mnt[1].dev = todo[1] /\ done = 0
      /\ mnt[1].dev \in lost \/ disk[mnt[1].dev] = mnt[1].kind
  BY <1>1, OneMounted
<1>3. mnt[1].kind \in Ext4
  BY <1>1 DEF UserlandInv, MountSound
<1>4. PICK found \in FileTest(mnt[1], HasInit(mnt[1])) : IF found THEN Break ELSE Umount
  BY <1>2 DEF CheckRoot
<1>5. mnt[1].dev \in lost \/ found = HasInit(mnt[1])
  BY <1>4 DEF FileTest
<1>6. CASE found
  <2>1. mnt[1].kind \in Bootable \/ mnt[1].dev \in lost
    BY <1>5, <1>6 DEF HasInit, Bootable
  <2>2. QED BY <1>1, <1>2, <1>4, <1>6, <2>1, Breaks DEF Break
<1>7. CASE ~found
  <2>1. todo[1] \in lost \/ disk[todo[1]] \notin Bootable
    BY <1>2, <1>3, <1>5, <1>7 DEF HasInit, Bootable, Ext4
  <2>2. QED BY <1>1, <1>2, <1>4, <1>7, <2>1, GoesOn DEF Umount
<1>8. QED BY <1>6, <1>7

\* The test for /boot/vmlinuz
LEMMA CheckLiveKeeps ==
    ASSUME UserlandInv, CheckLive, UNCHANGED <<tools, rootVars>> PROVE UserlandInv'
<1>1. /\ pc = "live"
      /\ UNCHANGED <<disk, lost, names, applets, tools, done, tty, command>>
  BY DEF CheckLive, diskVars, rootVars
<1>2. /\ mnt # <<>> /\ todo # <<>> /\ Last(mnt) = mnt[1] /\ Front(mnt) = <<>>
      /\ mnt[1].dev = todo[1] /\ done = 0
      /\ mnt[1].dev \in lost \/ disk[mnt[1].dev] = mnt[1].kind
  BY <1>1, OneMounted
<1>3. mnt[1].kind \in Vfat
  BY <1>1 DEF UserlandInv, MountSound
<1>4. PICK found \in FileTest(mnt[1], HasVmlinuz(mnt[1])) : IF found THEN Break ELSE Umount
  BY <1>2 DEF CheckLive
<1>5. mnt[1].dev \in lost \/ found = HasVmlinuz(mnt[1])
  BY <1>4 DEF FileTest
<1>6. CASE found
  <2>1. mnt[1].kind \in Bootable \/ mnt[1].dev \in lost
    BY <1>5, <1>6 DEF HasVmlinuz, Bootable
  <2>2. QED BY <1>1, <1>2, <1>4, <1>6, <2>1, Breaks DEF Break
<1>7. CASE ~found
  <2>1. todo[1] \in lost \/ disk[todo[1]] \notin Bootable
    BY <1>2, <1>3, <1>5, <1>7 DEF HasVmlinuz, Bootable, Vfat
  <2>2. QED BY <1>1, <1>2, <1>4, <1>7, <2>1, GoesOn DEF Umount
<1>8. QED BY <1>6, <1>7

\* The last test, and what process 1 executes next.
LEMMA SwitchKeeps ==
    ASSUME UserlandInv, SwitchRoot, UNCHANGED <<tools, rootVars>> PROVE UserlandInv'
<1>1. /\ pc = "switch"
      /\ UNCHANGED <<disk, lost, todo, mnt, names, applets, tools, done, tty, command>>
  BY DEF SwitchRoot, diskVars, rootVars
<1>2. /\ done = 0 /\ mnt \in Seq(Mounts) /\ applets \in BOOLEAN
      /\ mnt # <<>> => Len(mnt) = 1 /\ Last(mnt) = mnt[1]
      /\ \/ mnt = <<>> /\ todo = <<>>
         \/ mnt # <<>> /\ (mnt[1].kind \in Bootable \/ mnt[1].dev \in lost)
  BY <1>1 DEF UserlandInv, TypeOK, EndSound, Searching, MountSound, Last
<1>3. PICK found \in (IF mnt = <<>> THEN {FALSE}
                       ELSE FileTest(Last(mnt), HasInit(Last(mnt)))) :
        pc' = CASE ~found            -> "shell"
                [] found /\ applets  -> "exec"
                [] found /\ ~applets -> "panic"
  BY DEF SwitchRoot
<1>4. /\ mnt = <<>> => ~found
      /\ mnt # <<>> /\ found => HasInit(mnt[1]) \/ mnt[1].dev \in lost
      /\ mnt # <<>> /\ ~found => ~HasInit(mnt[1]) \/ mnt[1].dev \in lost
  <2>1. mnt = <<>> => found = FALSE
    BY <1>3
  <2>2. mnt # <<>> => found = HasInit(mnt[1]) \/ mnt[1].dev \in lost
    BY <1>2, <1>3 DEF FileTest
  <2>3. QED BY <2>1, <2>2
<1>5. pc' \in {"shell", "exec", "panic"}
  BY <1>2, <1>3, <1>4
<1>6. Listed'
  BY <1>1, <1>5, ListStays
<1>7. MountSound'
  BY <1>1, <1>5 DEF UserlandInv, MountSound, Trying
<1>8. EndSound'
  <2>1. CASE ~found
    <3>1. pc' = "shell"
      BY <1>3, <2>1
    <3>2. QED BY <1>1, <1>2, <1>4, <2>1, <3>1 DEF EndSound, ProcessOneEnds
  <2>2. CASE found /\ applets
    <3>1. pc' = "exec"
      BY <1>3, <2>2
    <3>2. QED BY <1>1, <1>2, <1>4, <2>2, <3>1 DEF EndSound, ProcessOneEnds, Searching
  <2>3. CASE found /\ ~applets
    <3>1. pc' = "panic"
      BY <1>3, <2>3
    <3>2. QED BY <1>1, <1>2, <1>4, <2>3, <3>1 DEF EndSound, ProcessOneEnds, Searching
  <2>4. QED BY <1>2, <1>4, <2>1, <2>2, <2>3
<1>9. TypeOK'
  BY <1>1, <1>5, ScanTypes DEF UserlandInv, TypeOK, PCs
<1>10. QED BY <1>6, <1>7, <1>8, <1>9 DEF UserlandInv, Listed

\* A disk disappears, and counts as lost from then on.
LEMMA UnplugKeeps ==
    ASSUME UserlandInv, NEW d \in Devices, Unplug(d), UNCHANGED <<tools, rootVars>>
    PROVE  UserlandInv'
<1>1. /\ disk' = [disk EXCEPT ![d] = "absent"] /\ lost' = lost \cup {d}
      /\ UNCHANGED <<pc, todo, mnt, names, applets, tools, done, tty, command>>
  BY DEF Unplug, scanVars, rootVars
<1>2. /\ disk \in [Devices -> Kinds \cup {"absent"}]
      /\ \A e \in Devices : e # d => disk'[e] = disk[e]
  BY <1>1 DEF UserlandInv, TypeOK
<1>3. Tried' = Tried
  BY <1>1 DEF Tried
<1>4. ListSound'
  BY <1>1, <1>3 DEF UserlandInv, ListSound
<1>5. DisksSound'
  BY <1>1, <1>2, Shapes DEF UserlandInv, DisksSound
<1>6. TriedSound'
  <2>1. \A i \in 1 .. Tried : names[i] \in Devices
    BY Shapes
  <2>2. QED BY <1>1, <1>2, <1>3, <2>1 DEF UserlandInv, TriedSound
<1>7. MountSound'
  <2>1. todo # <<>> => todo[1] \in Devices
    BY Shapes
  <2>2. QED BY <1>1, <1>2, <2>1 DEF UserlandInv, MountSound, Trying
<1>8. EndSound'
  BY <1>1 DEF UserlandInv, EndSound, Searching, ProcessOneEnds
<1>9. TypeOK'
  <2>1. disk' \in [Devices -> Kinds \cup {"absent"}] /\ lost' \subseteq Devices
    BY <1>1, <1>2 DEF UserlandInv, TypeOK
  <2>2. QED BY <1>1, <2>1, ScanTypes DEF UserlandInv, TypeOK, PCs
<1>10. QED BY <1>4, <1>5, <1>6, <1>7, <1>8, <1>9 DEF UserlandInv

\* A disk appears under a free name: one not in the list, or lost before.
LEMMA AppearKeeps ==
    ASSUME UserlandInv, NEW d \in Devices, NEW kind \in Kinds, Appear(d, kind),
           UNCHANGED <<tools, rootVars>>
    PROVE  UserlandInv'
<1>1. /\ disk[d] = "absent" /\ disk' = [disk EXCEPT ![d] = kind]
      /\ UNCHANGED <<lost, pc, todo, mnt, names, applets, tools, done, tty, command>>
  BY DEF Appear, scanVars, rootVars
<1>2. /\ disk \in [Devices -> Kinds \cup {"absent"}] /\ disk'[d] = kind
      /\ \A e \in Devices : e # d => disk'[e] = disk[e]
  BY <1>1 DEF UserlandInv, TypeOK
<1>3. Tried' = Tried /\ "absent" \notin Kinds
  BY <1>1 DEF Tried, Kinds, Ext4, Vfat
<1>4. \A i \in 1 .. Len(names) : names[i] = d => d \in lost
  BY <1>1 DEF UserlandInv, DisksSound
<1>5. ListSound'
  BY <1>1, <1>3 DEF UserlandInv, ListSound
<1>6. DisksSound'
  BY <1>1, <1>2, <1>3, Shapes DEF UserlandInv, DisksSound
<1>7. TriedSound'
  <2>1. \A i \in 1 .. Tried : i \in 1 .. Len(names) /\ names[i] \in Devices
    BY Shapes
  <2>2. QED BY <1>1, <1>2, <1>3, <1>4, <2>1 DEF UserlandInv, TriedSound
<1>8. MountSound'
  <2>1. todo # <<>> => todo[1] \in Devices /\ (todo[1] # d \/ d \in lost)
    BY <1>4, Shapes
  <2>2. QED BY <1>1, <1>2, <2>1 DEF UserlandInv, MountSound, Trying
<1>9. EndSound'
  BY <1>1 DEF UserlandInv, EndSound, Searching, ProcessOneEnds
<1>10. TypeOK'
  <2>1. disk' \in [Devices -> Kinds \cup {"absent"}]
    BY <1>1, <1>2
  <2>2. QED BY <1>1, <2>1, ScanTypes DEF UserlandInv, TypeOK, PCs
<1>11. QED BY <1>5, <1>6, <1>7, <1>8, <1>9, <1>10 DEF UserlandInv

\* The emergency shell is left.
LEMMA LeaveKeeps ==
    ASSUME UserlandInv, LeaveShell, UNCHANGED <<tools, rootVars>> PROVE UserlandInv'
<1>1. /\ pc = "shell" /\ pc' = "panic"
      /\ UNCHANGED <<disk, lost, todo, mnt, names, applets, tools, done, tty, command>>
  BY DEF LeaveShell, diskVars, rootVars
<1>2. Listed'
  BY <1>1, ListStays
<1>3. MountSound'
  BY <1>1 DEF UserlandInv, MountSound, Trying
<1>4. /\ done = 0
      /\ mnt # <<>> => ~HasInit(mnt[1]) \/ mnt[1].dev \in lost
  BY <1>1 DEF UserlandInv, EndSound
<1>5. EndSound'
  BY <1>1, <1>4 DEF EndSound, Searching, ProcessOneEnds
<1>6. TypeOK'
  BY <1>1, ScanTypes DEF UserlandInv, TypeOK, PCs
<1>7. QED BY <1>2, <1>3, <1>5, <1>6 DEF UserlandInv, Listed

\* switch_root executes /sbin/init, or cannot.
LEMMA ExecKeeps ==
    ASSUME UserlandInv, ExecInit PROVE UserlandInv'
<1>1. /\ pc = "exec" /\ pc' \in {"setup", "panic"}
      /\ UNCHANGED <<disk, lost, todo, mnt, names, applets, tools, done, tty, command>>
  BY DEF ExecInit, diskVars, rootVars
<1>2. Listed'
  BY <1>1, ListStays
<1>3. MountSound'
  BY <1>1 DEF UserlandInv, MountSound, Trying
<1>4. /\ done = 0 /\ mnt # <<>> /\ Len(mnt) = 1 /\ Last(mnt) = mnt[1]
      /\ HasInit(mnt[1]) \/ mnt[1].dev \in lost
  BY <1>1 DEF UserlandInv, EndSound, MountSound, Last
<1>5. ASSUME pc' = "panic" PROVE "bash" \notin tools \/ mnt[1].dev \in lost
  <2>1. PICK runs \in FileTest(mnt[1], "bash" \in tools) :
          pc' = IF runs THEN "setup" ELSE "panic"
    BY <1>4 DEF ExecInit
  <2>2. ~runs
    BY <1>5, <2>1
  <2>3. mnt[1].dev \in lost \/ runs = ("bash" \in tools)
    BY <2>1 DEF FileTest
  <2>4. QED BY <2>2, <2>3
<1>6. EndSound'
  BY <1>1, <1>4, <1>5 DEF EndSound, Searching, ProcessOneEnds
<1>7. TypeOK'
  BY <1>1, ScanTypes DEF UserlandInv, TypeOK, PCs
<1>8. QED BY <1>2, <1>3, <1>6, <1>7 DEF UserlandInv, Listed

\* The steps of /sbin/init and of its user, and its end with its disk gone.
Running == \/ SetupCommand \/ Prompt \/ ReadAtEof \/ PowerOff \/ HangUp \/ DiskFails
           \/ \E c \in Commands : ReadCommand(c)

\* They keep the invariant.
LEMMA RootKeeps ==
    ASSUME UserlandInv, Running PROVE UserlandInv'
<1>1. /\ UNCHANGED <<disk, lost, todo, mnt, names, applets, tools>>
      /\ pc \in {"setup", "prompt", "exit"}
  BY DEF Running, SetupCommand, Prompt, ReadAtEof, PowerOff, HangUp, DiskFails, ReadCommand,
         diskVars, scanVars
<1>2. pc' \in {"setup", "prompt", "exit", "down", "panic"}
  BY DEF Running, SetupCommand, Prompt, ReadAtEof, PowerOff, HangUp, DiskFails, ReadCommand,
         scanVars
<1>3. Listed'
  BY <1>1, <1>2, ListStays
<1>4. MountSound'
  BY <1>1, <1>2 DEF UserlandInv, MountSound, Trying
<1>5. EndSound'
  <2>1. mnt # <<>> /\ Last(mnt) = mnt[1] /\ (HasInit(mnt[1]) \/ mnt[1].dev \in lost)
    BY <1>1 DEF UserlandInv, EndSound, MountSound, Last
  <2>2. pc' = "exit" => command' = "exit"
    BY DEF Running, SetupCommand, Prompt, ReadAtEof, PowerOff, HangUp, DiskFails, ReadCommand,
           scanVars, rootVars, UserlandInv, EndSound
  <2>3. pc' = "panic" => \/ command' = "exit" /\ "poweroff" \notin tools
                         \/ mnt[1].dev \in lost
    BY <2>1 DEF Running, SetupCommand, Prompt, ReadAtEof, PowerOff, HangUp, DiskFails,
                ReadCommand, scanVars, rootVars, UserlandInv, EndSound
  <2>4. QED BY <1>1, <1>2, <2>1, <2>2, <2>3 DEF EndSound, Searching, ProcessOneEnds, HasInit
<1>6. TypeOK'
  <2>1. done' \in 0 .. SETUP
    <3>1. done' = done \/ (done < SETUP /\ done' = done + 1)
      BY DEF Running, SetupCommand, Prompt, ReadAtEof, PowerOff, HangUp, DiskFails,
             ReadCommand, rootVars
    <3>2. done \in 0 .. SETUP
      BY DEF UserlandInv, TypeOK
    <3>3. QED BY <3>1, <3>2, UserlandConstants
  <2>2. tty' \in BOOLEAN
    <3>1. tty' = tty \/ tty' = FALSE
      BY DEF Running, SetupCommand, Prompt, ReadAtEof, PowerOff, HangUp, DiskFails,
             ReadCommand, rootVars
    <3>2. QED BY <3>1, Zenon DEF UserlandInv, TypeOK
  <2>3. command' \in Commands \cup {""}
    BY DEF Running, SetupCommand, Prompt, ReadAtEof, PowerOff, HangUp, DiskFails, ReadCommand,
           rootVars, Commands, UserlandInv, TypeOK
  <2>4. QED BY <1>1, <1>2, <2>1, <2>2, <2>3 DEF UserlandInv, TypeOK
<1>7. QED BY <1>3, <1>4, <1>5, <1>6 DEF UserlandInv, Listed

\* The inductive invariant holds at first and is kept by every step.
LEMMA UserlandInvariance == Spec => []UserlandInv
<1>1. ASSUME Init PROVE UserlandInv
  <2>1. /\ pc = "start" /\ todo = <<>> /\ mnt = <<>> /\ names = <<>> /\ lost = {} /\ done = 0
    BY <1>1 DEF Init, ScanInit
  <2>2. Len(todo) = 0 /\ Len(names) = 0 /\ Len(mnt) = 0 /\ Tried = 0
    BY <2>1 DEF Tried
  <2>3. ListSound /\ DisksSound /\ TriedSound
    BY <2>1, <2>2 DEF ListSound, DisksSound, TriedSound
  <2>4. MountSound /\ EndSound
    BY <2>1 DEF MountSound, EndSound, Trying, Searching, ProcessOneEnds
  <2>5. tty \in BOOLEAN /\ applets \in BOOLEAN
    BY <1>1, Zenon DEF Init, ScanInit
  <2>6. todo \in Seq(Devices) /\ names \in Seq(Devices) /\ mnt \in Seq(Mounts)
    BY <2>1
  <2>7. done \in 0 .. SETUP
    BY <2>1, UserlandConstants
  <2>8. /\ disk \in [Devices -> Kinds \cup {"absent"}] /\ tools \subseteq Tools
        /\ command \in Commands \cup {""}
    BY <1>1 DEF Init, ScanInit
  <2>9. TypeOK
    <3>1. pc \in PCs /\ lost \subseteq Devices /\ Len(mnt) <= 1
      BY <2>1, <2>2 DEF PCs
    <3>2. QED BY <2>5, <2>6, <2>7, <2>8, <3>1 DEF TypeOK, PCs
  <2>10. QED BY <2>3, <2>4, <2>9 DEF UserlandInv
<1>2. ASSUME UserlandInv, [Next]_vars PROVE UserlandInv'
  <2>1. CASE ScanStep
    BY <1>2, <2>1, ExpandKeeps, TryKeeps, EndOfListKeeps, MountExt4Keeps, MountVfatKeeps,
       CheckRootKeeps, CheckLiveKeeps, SwitchKeeps DEF ScanStep, Scan
  <2>2. CASE DiskStep
    BY <1>2, <2>2, UnplugKeeps, AppearKeeps DEF DiskStep
  <2>3. CASE RootStep \/ HangUp \/ DiskFails \/ \E c \in Commands : ReadCommand(c)
    BY <1>2, <2>3, ExecKeeps, RootKeeps DEF RootStep, Running
  <2>4. CASE LeaveShell /\ UNCHANGED <<tools, rootVars>>
    BY <1>2, <2>4, LeaveKeeps
  <2>5. CASE UNCHANGED vars
    <3>1. /\ UNCHANGED <<disk, lost, todo, mnt, names, applets, tools>>
          /\ UNCHANGED <<pc, done, tty, command>>
      BY <2>5 DEF vars, scanVars, diskVars, rootVars
    <3>2. Tried' = Tried
      BY <3>1 DEF Tried
    <3>3. Listed'
      BY <1>2, <3>1, ListStays
    <3>4. TypeOK'
      BY <1>2, <3>1 DEF UserlandInv, TypeOK
    <3>5. MountSound' /\ EndSound'
      BY <1>2, <3>1 DEF UserlandInv, MountSound, EndSound, Trying, Searching, ProcessOneEnds
    <3>6. QED BY <3>3, <3>4, <3>5 DEF UserlandInv, Listed
  <2>6. QED BY <1>2, <2>1, <2>2, <2>3, <2>4, <2>5 DEF Next
<1>3. QED BY <1>1, <1>2, PTL DEF Spec

\* The scripts' variables have their types; at most one file system is mounted.
THEOREM UserlandTypeCorrect == Spec => []TypeOK
<1>1. UserlandInv => TypeOK
  BY DEF UserlandInv
<1>2. QED BY <1>1, UserlandInvariance, PTL

(***************************************************************************)
(* /mnt is empty whenever the loop looks at another device, and what is    *)
(* mounted there in the end comes from the list.                           *)
(***************************************************************************)
THEOREM MountPointStaysClean == Spec => []MountPointClean
<1>1. UserlandInv => MountPointClean
  <2>1. SUFFICES ASSUME UserlandInv, NEW m \in Range(mnt) PROVE m.dev \in Range(names)
    BY DEF MountPointClean, UserlandInv, MountSound
  <2>2. mnt \in Seq(Mounts) /\ DOMAIN mnt = 1 .. Len(mnt) /\ DOMAIN names = 1 .. Len(names)
    BY <2>1, LenProperties DEF UserlandInv, TypeOK
  <2>3. PICK i \in 1 .. Len(mnt) : m = mnt[i]
    BY <2>1, <2>2 DEF Range
  <2>4. mnt # <<>>
    BY <2>2, <2>3, EmptySeq
  <2>5. Len(mnt) = 1 /\ todo # <<>> /\ mnt[1].dev = todo[1]
    BY <2>1, <2>4 DEF UserlandInv, MountSound
  <2>6. i = 1
    BY <2>3, <2>5
  <2>7. QED BY <2>1, <2>2, <2>3, <2>5, <2>6, Shapes DEF Range
<1>2. QED BY <1>1, UserlandInvariance, PTL

(***************************************************************************)
(* The search stops at the first bootable disk of the list that was there  *)
(* all along, at none only if there is none, and process 1 goes on from a  *)
(* file system with /sbin/init.                                            *)
(***************************************************************************)
THEOREM FirstBootableIsTaken == Spec => []FirstBootableWins
<1>1. ASSUME UserlandInv, mnt # <<>>, NEW d \in Before(mnt[1].dev) \ lost
      PROVE  disk[d] \notin Bootable
  <2>1. names \in Seq(Devices) /\ DOMAIN names = 1 .. Len(names)
    BY <1>1, LenProperties DEF UserlandInv, TypeOK
  <2>2. PICK k \in 1 .. Len(names) :
          d = names[k] /\ \E m \in 1 .. Len(names) : names[m] = mnt[1].dev /\ k < m
    BY <1>1, <2>1 DEF Before
  <2>3. PICK m \in 1 .. Len(names) : names[m] = mnt[1].dev /\ k < m
    BY <2>2
  <2>4. mnt[1].dev = names[Tried + 1] /\ Tried + 1 \in 1 .. Len(names)
    BY <1>1, Shapes DEF UserlandInv, MountSound
  <2>5. m = Tried + 1
    BY <1>1, <2>3, <2>4 DEF UserlandInv, ListSound
  <2>6. k \in 1 .. Tried
    BY <1>1, <2>3, <2>5, Shapes
  <2>7. QED BY <1>1, <2>2, <2>6 DEF UserlandInv, TriedSound
<1>2. ASSUME UserlandInv, pc \in {"switch", "shell"}, mnt = <<>>
      PROVE  \A d \in Range(names) \ lost : disk[d] \notin Bootable
  <2>1. todo = <<>>
    BY <1>2 DEF UserlandInv, EndSound
  <2>2. names \in Seq(Devices) /\ Len(todo) = 0
    BY <1>2, <2>1 DEF UserlandInv, TypeOK
  <2>3. Tried = Len(names) /\ DOMAIN names = 1 .. Len(names)
    BY <2>2, LenProperties DEF Tried
  <2>4. QED BY <1>2, <2>3 DEF UserlandInv, TriedSound, Range
<1>3. UserlandInv => FirstBootableWins
  BY <1>1, <1>2 DEF FirstBootableWins, UserlandInv, EndSound
<1>4. QED BY <1>3, UserlandInvariance, PTL

(***************************************************************************)
(* Process 1 ends only when the emergency shell is left, its disk is gone, *)
(* or switch_root, bash or, after exit, poweroff is missing.               *)
(***************************************************************************)
THEOREM ProcessOneGoesOn == Spec => []ProcessOneEnds
<1>1. UserlandInv => ProcessOneEnds
  BY DEF UserlandInv, EndSound
<1>2. QED BY <1>1, UserlandInvariance, PTL

=============================================================================
