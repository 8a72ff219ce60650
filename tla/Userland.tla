------------------------------ MODULE Userland ------------------------------
(***************************************************************************)
(* Process 1 from the initial RAM disk to the command prompt: the script   *)
(* /init, see Initramfs, then the script /sbin/init that rootfs/build.sh   *)
(* writes, which sets the system up and reads commands in an endless loop. *)
(*                                                                         *)
(* Commands that only show something, the empty line and unknown words     *)
(* included, are one value, "show".                                        *)
(***************************************************************************)
EXTENDS Initramfs, Naturals

CONSTANT SETUP          \* commands /sbin/init runs before the prompt

ASSUME UserlandConstants ==
    /\ Order \in Seq(Devices) /\ IsInjective(Order)
    /\ SETUP \in Nat

VARIABLES
    tools,              \* programs of the root file system that can run
    done,               \* setup commands that have ended
    tty,                \* the console's input is open
    command             \* the last line read

rootVars == <<done, tty, command>>
vars == <<scanVars, diskVars, tools, rootVars>>

Commands == {"show", "reboot", "poweroff", "exit"}

Tools == {"bash", "reboot", "poweroff"}

\* bash is copied if the building machine has it, without its libraries.
Init ==
    /\ ScanInit
    /\ tools \in SUBSET Tools
    /\ done = 0 /\ tty = TRUE /\ command = ""

-----------------------------------------------------------------------------
(***************************************************************************)
(* switch_root executes /sbin/init, a script for /bin/bash.  If that does  *)
(* not run, switch_root ends, and with it process 1; with the disk gone    *)
(* since the last test it may run all the same, from the page cache.       *)
(***************************************************************************)
ExecInit ==
    /\ pc = "exec"
    /\ \E runs \in FileTest(Last(mnt), "bash" \in tools) :
         pc' = IF runs THEN "setup" ELSE "panic"
    /\ UNCHANGED <<diskVars, todo, mnt, names, applets, tools, rootVars>>

(***************************************************************************)
(* bash reads itself and its script from the mounted disk.  Once that disk *)
(* is gone, what is not in the page cache can no longer be read, and bash  *)
(* may be killed at any moment.                                            *)
(***************************************************************************)
DiskFails ==
    /\ pc \in {"setup", "prompt", "exit"} /\ Last(mnt).dev \in lost
    /\ pc' = "panic"
    /\ UNCHANGED <<diskVars, todo, mnt, names, applets, tools, rootVars>>

AbortsOnError ==
    /\ pc = "setup" /\ done < SETUP
    /\ done' = done + 1
    /\ pc' \in {"setup", "panic"}
    /\ UNCHANGED <<diskVars, todo, mnt, names, applets, tools, tty, command>>

\* mount, hostname, udevd, modprobe: the script ignores how each one ended.
SetupCommand ==
    /\ pc = "setup" /\ done < SETUP
    /\ done' = done + 1
    /\ UNCHANGED <<scanVars, diskVars, tools, tty, command>>

Prompt ==
    /\ pc = "setup" /\ done = SETUP
    /\ pc' = "prompt"
    /\ UNCHANGED <<diskVars, todo, mnt, names, applets, tools, rootVars>>

(***************************************************************************)
(* read and the case statement.  reboot and poweroff (external) go through *)
(* process 1, which handles none of their signals, or act by themselves,   *)
(* depending on whose they are; the script goes on after both.             *)
(***************************************************************************)
ReadCommand(c) ==
    /\ pc = "prompt" /\ tty
    /\ command' = c
    /\ \/ c \in {"show", "reboot", "poweroff"} /\ UNCHANGED pc
       \/ c \in tools /\ pc' = "down"
       \/ c = "exit" /\ pc' = "exit"
    /\ UNCHANGED <<diskVars, todo, mnt, names, applets, tools, done, tty>>

\* The terminal closes: from now on read fails and leaves an empty line.
HangUp ==
    /\ pc = "prompt" /\ tty
    /\ tty' = FALSE
    /\ UNCHANGED <<scanVars, diskVars, tools, done, command>>

ReadAtEof ==
    /\ pc = "prompt" /\ ~tty
    /\ command' = "show"
    /\ UNCHANGED <<scanVars, diskVars, tools, done, tty>>

\* sync, poweroff -f, and the end of the script if there is no poweroff.
PowerOff ==
    /\ pc = "exit"
    /\ pc' = IF "poweroff" \in tools THEN "down" ELSE "panic"
    /\ UNCHANGED <<diskVars, todo, mnt, names, applets, tools, rootVars>>

-----------------------------------------------------------------------------
ScanStep == Scan /\ UNCHANGED <<tools, rootVars>>
RootStep == ExecInit \/ SetupCommand \/ Prompt \/ ReadAtEof \/ PowerOff
Stopped  == pc \in {"panic", "down"}

DiskStep == /\ ~Stopped
            /\ \E d \in Devices : Unplug(d) \/ \E kind \in Kinds : Appear(d, kind)
            /\ UNCHANGED <<tools, rootVars>>

Next == \/ ScanStep \/ RootStep \/ DiskStep
        \/ \E c \in Commands : ReadCommand(c)
        \/ HangUp \/ DiskFails
        \/ LeaveShell /\ UNCHANGED <<tools, rootVars>>

\* Process 1 is scheduled; disks and the user owe it nothing.
Spec == Init /\ [][Next]_vars /\ WF_vars(ScanStep \/ RootStep)

-----------------------------------------------------------------------------
Mounts == [dev : Devices, kind : Kinds]

TypeOK ==
    /\ pc \in {"start", "next", "ext4", "root", "vfat", "live", "switch",
               "exec", "setup", "prompt", "exit", "shell", "panic", "down"}
    /\ disk \in [Devices -> Kinds \cup {"absent"}]
    /\ todo \in Seq(Devices) /\ names \in Seq(Devices)
    /\ mnt \in Seq(Mounts) /\ Len(mnt) <= 1
    /\ lost \subseteq Devices /\ applets \in BOOLEAN
    /\ tools \subseteq Tools /\ done \in 0 .. SETUP
    /\ tty \in BOOLEAN /\ command \in Commands \cup {""}

(***************************************************************************)
(* Every try starts with an empty mount point and leaves it empty unless   *)
(* it ends the search: file systems never pile up on /mnt, where the top   *)
(* one would hide the one the script tests.  And what is mounted when the  *)
(* search has ended comes from the list.                                   *)
(***************************************************************************)
MountPointClean ==
    /\ pc \in {"start", "next", "ext4", "vfat"} => mnt = <<>>
    /\ \A m \in Range(mnt) : m.dev \in Range(names)

(***************************************************************************)
(* The first bootable disk wins.  Once the search has stopped at a disk,   *)
(* every disk before it in the list that was there all along held neither  *)
(* a root nor a live system; when it has stopped at none, no disk of the   *)
(* list did; and process 1 goes on from a file system that holds           *)
(* /sbin/init, or has lost its disk.                                       *)
(***************************************************************************)
Bootable == {"root", "live", "liveroot"}
Before(d) == {names[n] : n \in {k \in DOMAIN names :
                 \E m \in DOMAIN names : names[m] = d /\ k < m}}

FirstBootableWins ==
    /\ pc \in {"switch", "exec", "setup", "prompt"} /\ mnt # <<>> =>
          \A d \in Before(mnt[1].dev) \ lost : disk[d] \notin Bootable
    /\ pc \in {"switch", "shell"} /\ mnt = <<>> =>
          \A d \in Range(names) \ lost : disk[d] \notin Bootable
    /\ pc \in {"exec", "setup", "prompt", "exit"} =>
          mnt # <<>> /\ (HasInit(mnt[1]) \/ mnt[1].dev \in lost)

(***************************************************************************)
(* README.md, `Live USB: Boot without installation': a live system that    *)
(* the search has found, on a disk that stays, does not end in the         *)
(* emergency shell with `No root filesystem found!'.                       *)
(***************************************************************************)
LiveSystemBoots == pc = "shell" => mnt = <<>> \/ mnt[1].dev \in lost

(***************************************************************************)
(* Process 1 ends, which stops the kernel, for four causes only: the user  *)
(* has left the emergency shell, to which no root file system led; the     *)
(* disk it runs from is gone; switch_root or the interpreter of /sbin/init *)
(* is missing; or poweroff is, after `exit'.  No failing setup command,    *)
(* no other line typed and no hang-up of the terminal ends it.             *)
(***************************************************************************)
ProcessOneEnds ==
    pc = "panic" =>
        \/ done = 0 /\ (mnt = <<>> \/ ~HasInit(mnt[1]))
        \/ mnt # <<>> /\ mnt[1].dev \in lost
        \/ done = 0 /\ (~applets \/ "bash" \notin tools)
        \/ command = "exit" /\ "poweroff" \notin tools

(***************************************************************************)
(* The machine always comes up to a prompt or an emergency shell, or stops *)
(* for one of the causes above, however disks come and go.                 *)
(***************************************************************************)
BootEnds == <>(pc \in {"prompt", "shell", "panic"})

=============================================================================
