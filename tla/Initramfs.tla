----------------------------- MODULE Initramfs -----------------------------
(***************************************************************************)
(* The script /init that initramfs/build.sh puts into the initial RAM      *)
(* disk: it looks through the disks for a root file system and hands the   *)
(* machine over to it, while disks come and go under it.                   *)
(*                                                                         *)
(* What a disk holds is one of Kinds; the file system drivers are built    *)
(* into the kernel (laptopos.config), so no mount fails for want of one.   *)
(* The kernel has started /init, so the initial RAM disk's /bin/sh runs.   *)
(***************************************************************************)
EXTENDS Sequences, SequencesExt

CONSTANT Order          \* /dev/sda* /dev/sdb* /dev/sdc*, as the globs sort them

VARIABLES
    pc,                 \* where process 1 is
    disk,               \* what each device holds, or "absent" (external)
    todo,               \* the device names the loop has still to try
    mnt,                \* the file systems mounted at /mnt, the last on top
    applets,            \* /bin/sh finds switch_root, for which there is no link
    names,              \* history: the names the globs expanded to
    lost                \* history: devices unplugged since

Devices == Range(Order)
Ext4  == {"root", "data"}               \* with and without /sbin/init
Vfat  == {"live", "liveroot", "stick"}  \* with /boot/vmlinuz, and /sbin/init
Kinds == Ext4 \cup Vfat \cup {"other"}
HasInit(m)    == m.kind \in {"root", "liveroot"}
HasVmlinuz(m) == m.kind \in {"live", "liveroot"}

diskVars == <<disk, lost>>
scanVars == <<pc, todo, mnt, names, applets>>

ScanInit ==
    /\ pc = "start" /\ todo = <<>> /\ mnt = <<>> /\ names = <<>>
    /\ disk \in [Devices -> Kinds \cup {"absent"}] /\ lost = {}
    /\ applets \in BOOLEAN

-----------------------------------------------------------------------------
\* A disk is found by its driver, or plugged in, under a free name.
Appear(d, kind) ==
    /\ disk[d] = "absent"
    /\ disk' = [disk EXCEPT ![d] = kind]
    /\ UNCHANGED <<scanVars, lost>>

Unplug(d) ==
    /\ disk[d] # "absent"
    /\ disk' = [disk EXCEPT ![d] = "absent"]
    /\ lost' = lost \cup {d}
    /\ UNCHANGED scanVars

-----------------------------------------------------------------------------
Present(d) == disk[d] # "absent"

Earlier(a, b) == \E i, j \in DOMAIN Order : i < j /\ Order[i] = a /\ Order[j] = b

\* What the globs expand to: the names of the present devices, sorted.
Expansion(s) ==
    /\ Range(s) = {d \in Devices : Present(d)}
    /\ \A i, j \in DOMAIN s : i < j => Earlier(s[i], s[j])

\* The mounts, the modules, and the globs of the for loop: expanded once.
ExpandGlobs ==
    /\ pc = "start"
    /\ \E s \in SeqOf(Devices, Len(Order)) : Expansion(s) /\ names' = s
    /\ todo' = names'
    /\ lost' = {}
    /\ pc' = "next"
    /\ UNCHANGED <<disk, mnt, applets>>

device == Head(todo)

\* Another device, if it is (still) a block device.
TryDevice ==
    /\ pc = "next" /\ todo # <<>>
    /\ IF Present(device) THEN pc' = "ext4" /\ UNCHANGED todo
                          ELSE todo' = Tail(todo) /\ UNCHANGED pc
    /\ UNCHANGED <<diskVars, mnt, names, applets>>

ScansAgain ==
    /\ pc = "next" /\ todo = <<>>
    /\ pc' = "start"
    /\ UNCHANGED <<diskVars, todo, mnt, names, applets>>

EndOfList ==
    /\ pc = "next" /\ todo = <<>>
    /\ pc' = "switch"
    /\ UNCHANGED <<diskVars, todo, mnt, names, applets>>

\* mount -t ... "$device" /mnt succeeds, or the script goes on at otherwise.
Mount(types, success, otherwise) ==
    /\ IF disk[device] \in types
       THEN /\ mnt' = Append(mnt, [dev |-> device, kind |-> disk[device]])
            /\ pc' = success /\ UNCHANGED todo
       ELSE /\ pc' = otherwise /\ UNCHANGED mnt
            /\ todo' = IF otherwise = "next" THEN Tail(todo) ELSE todo
    /\ UNCHANGED <<diskVars, names, applets>>

MountExt4 == pc = "ext4" /\ Mount(Ext4, "root", "vfat")
MountVfat == pc = "vfat" /\ Mount(Vfat, "live", "next")

\* [ -f file ] on the mounted file system; anything once its disk is gone.
FileTest(m, has) == IF m.dev \in lost THEN BOOLEAN ELSE {has}

Break == pc' = "switch" /\ UNCHANGED <<todo, mnt>>
Umount == mnt' = Front(mnt) /\ todo' = Tail(todo) /\ pc' = "next"

UmountsAlways ==
    /\ pc = "root"
    /\ Umount
    /\ UNCHANGED <<diskVars, names, applets>>

CheckRoot ==
    /\ pc = "root"
    /\ \E found \in FileTest(Last(mnt), HasInit(Last(mnt))) :
         IF found THEN Break ELSE Umount
    /\ UNCHANGED <<diskVars, names, applets>>

ForgetsUmount ==
    /\ pc = "live"
    /\ \E found \in FileTest(Last(mnt), HasVmlinuz(Last(mnt))) :
         IF found THEN Break
                  ELSE todo' = Tail(todo) /\ pc' = "next" /\ UNCHANGED mnt
    /\ UNCHANGED <<diskVars, names, applets>>

CheckLive ==
    /\ pc = "live"
    /\ \E found \in FileTest(Last(mnt), HasVmlinuz(Last(mnt))) :
         IF found THEN Break ELSE Umount
    /\ UNCHANGED <<diskVars, names, applets>>

(***************************************************************************)
(* The last test: exec switch_root, or exec of an emergency shell.  When   *)
(* switch_root is not found, the script ends, and with it process 1.       *)
(***************************************************************************)
SwitchRoot ==
    /\ pc = "switch"
    /\ \E found \in (IF mnt = <<>> THEN {FALSE}
                     ELSE FileTest(Last(mnt), HasInit(Last(mnt)))) :
         pc' = CASE ~found            -> "shell"
                 [] found /\ applets  -> "exec"
                 [] found /\ ~applets -> "panic"
    /\ UNCHANGED <<diskVars, todo, mnt, names, applets>>

\* exit, or the end of the console's input: the emergency shell is process 1.
LeaveShell ==
    /\ pc = "shell"
    /\ pc' = "panic"
    /\ UNCHANGED <<diskVars, todo, mnt, names, applets>>

Scan == \/ ExpandGlobs \/ TryDevice \/ EndOfList
        \/ MountExt4 \/ MountVfat \/ CheckRoot \/ CheckLive
        \/ SwitchRoot

=============================================================================
