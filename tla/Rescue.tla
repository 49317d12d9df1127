------------------------------- MODULE Rescue -------------------------------
(***************************************************************************)
(* The rescue program (rescue_fluke_cda.c), which runs as init of the      *)
(* rescue kernel.  It waits for a key and otherwise boots the normal       *)
(* system; at its menu the user restores partitions from their factory     *)
(* backups.  All its work is done by commands it runs one after the other, *)
(* giving up at the first that fails.  A command may fail and the power    *)
(* may go at any point, in the middle of a write too.                      *)
(*                                                                         *)
(* A partition is <<item, "work">> or <<item, "backup">>; its content is   *)
(* the factory image of an item, named as the item, or one of Other.       *)
(***************************************************************************)
EXTENDS Naturals, Sequences

CONSTANTS
    Options,            \* the menu options the user chooses from
    BootImages,         \* what the boot filesystem may be at first
    MaxFaults,          \* bound: commands that fail for a reason of their own
    MaxPowerLosses,     \* bound: losses of power
    MaxChoices          \* bound: choices at the menu

FileSystems == {"boot", "root"}
Flashed == {"deviceTree", "fpga", "uboot", "environment", "kernel", "initrd"}
Items == FileSystems \cup Flashed
AllOptions == {"exit", "filesystems", "deviceTree", "fpga", "uboot",
               "environment", "rescue"}

\* Changed since it left the factory; a filesystem without a kernel to load;
\* written to in part only; nothing.
Other == {"changed", "noKernel", "broken", "empty"}
Images == Items \cup Other
Partitions == Items \X {"work", "backup"}

ASSUME RescueAssumption ==
    /\ Options \subseteq AllOptions
    /\ BootImages \subseteq {"boot", "changed", "noKernel"}
    /\ MaxFaults \in Nat /\ MaxPowerLosses \in Nat /\ MaxChoices \in Nat

VARIABLES
    content,            \* what each partition holds
    tmp,                \* /tmp/mtdX
    mounted,            \* the boot filesystem is mounted on /mnt/target_boot
    loaded,             \* a kernel is loaded for kexec
    pc,                 \* where the program is
    seconds,            \* seconds left to press the key
    option,             \* what is being done
    script,             \* the commands still to run
    started,            \* the first of them has been started
    printed,            \* the option whose success was printed last
    input,              \* "ended": the console gives no more, or only errors
    faults, losses, choices

media == <<content, tmp, mounted, loaded>>
outside == <<input, faults, losses, choices>>
vars == <<media, pc, seconds, option, script, started, printed, outside>>

Init ==
    /\ \E boot \in BootImages, changed \in {{}, Items} :
          content = [p \in Partitions |->
                       CASE p[2] = "backup" -> p[1]
                         [] p = <<"boot", "work">> -> boot
                         [] OTHER -> IF p[1] \in changed THEN "changed" ELSE p[1]]
    /\ tmp = "empty"
    /\ mounted = FALSE
    /\ loaded = FALSE
    /\ pc = "wait"
    /\ seconds = 4
    /\ option = "none"
    /\ script = <<>>
    /\ started = FALSE
    /\ printed = "none"
    /\ input = "open"
    /\ faults = 0
    /\ losses = 0
    /\ choices = 0

-----------------------------------------------------------------------------
(* The commands of each option. *)

Command(name, part) == [name |-> name, part |-> part]
NoPart == <<"boot", "work">>

BootScriptLoadFirst ==          \* mutant: the kernel is loaded before the mount
    <<Command("kexecLoad", NoPart), Command("mount", NoPart),
      Command("kexecExec", NoPart)>>

\* do_boot()
BootScript ==
    <<Command("mount", NoPart), Command("kexecLoad", NoPart),
      Command("kexecExec", NoPart)>>

Success == <<Command("printSuccess", NoPart)>>

\* do_restore_filesystems()
FileSystemsScript ==
    <<Command("dd", <<"boot", "work">>), Command("dd", <<"root", "work">>)>>
        \o Success

RestoreMtdPartitionSwapped(from, to) ==     \* mutant: source and target swapped
    <<Command("ddToTmp", to), Command("flashcp", from)>> \o Success

\* do_restore_mtd_partition()
RestoreMtdPartition(from, to) ==
    <<Command("ddToTmp", from), Command("flashcp", to)>> \o Success

\* do_interactive_restore_device_tree() and its like.
RestoreItem(item) ==
    RestoreMtdPartition(<<item, "backup">>, <<item, "work">>)

FpgaScriptFromWork ==           \* mutant: the backup is written from the partition in use
    RestoreMtdPartition(<<"fpga", "work">>, <<"fpga", "backup">>)

\* do_interactive_restore_fpga(): the source is the target.
FpgaScript == RestoreMtdPartition(<<"fpga", "backup">>, <<"fpga", "backup">>)

RescueScriptOneForBoth ==       \* mutant: the kernel's partitions for the initrd's
    RestoreItem("kernel") \o RestoreItem("kernel")

\* do_interactive_restore_rescue()
RescueScript == RestoreItem("kernel") \o RestoreItem("initrd")

ScriptOf(o) ==
    CASE o \in {"exit", "timeout"} -> BootScript
      [] o = "filesystems" -> FileSystemsScript
      [] o = "fpga" -> FpgaScript
      [] o = "rescue" -> RescueScript
      [] OTHER -> RestoreItem(o)

-----------------------------------------------------------------------------
(* main(), wait_for_keypress_timeout() and prompt_interactively(). *)

\* The key is pressed: on to the menu.  At the end of the input read() leaves
\* the byte that is compared as it was, and it was never set: it may be the key.
Keypress ==
    /\ pc = "wait"
    /\ pc' = "menu"
    /\ UNCHANGED <<media, seconds, option, script, started, printed, outside>>

SecondStartsOver ==             \* mutant: the count starts over
    /\ pc = "wait"
    /\ input = "open"
    /\ seconds' = IF seconds > 1 THEN seconds - 1 ELSE 4
    /\ UNCHANGED <<media, pc, option, script, started, printed, outside>>

\* A second goes by; after the last one the normal system is booted.  Another
\* key changes nothing: select() goes on with what is left of the second.  It
\* does not look at the time when there is something to read, and the end of
\* the input always is.
Second ==
    /\ pc = "wait"
    /\ input = "open"
    /\ IF seconds > 1
       THEN seconds' = seconds - 1 /\ UNCHANGED <<pc, option, script>>
       ELSE /\ seconds' = 0
            /\ pc' = "run"
            /\ option' = "timeout"
            /\ script' = ScriptOf("timeout")
    /\ UNCHANGED <<media, started, printed, outside>>

\* select() or read() returns an error, and so does main().
WaitFails ==
    /\ pc = "wait"
    /\ input = "ended"
    /\ pc' = "exited"
    /\ UNCHANGED <<media, seconds, option, script, started, printed, outside>>

SelectUnchecked ==              \* mutant: there is no default case
    /\ pc = "menu"
    /\ input = "open"
    /\ choices < MaxChoices
    /\ choices' = choices + 1
    /\ option' \in Options \cup {"invalid"}
    /\ pc' = "confirm"
    /\ UNCHANGED <<media, seconds, script, started, printed, input, faults, losses>>

\* The user selects an option and is asked to confirm it.
Select ==
    /\ pc = "menu"
    /\ input = "open"
    /\ choices < MaxChoices
    /\ choices' = choices + 1
    /\ option' \in Options
    /\ pc' = "confirm"
    /\ UNCHANGED <<media, seconds, script, started, printed, input, faults, losses>>

\* getline() fails at the menu and the line is freed twice: the program is
\* aborted, or goes on asking.
SelectFails ==
    /\ pc = "menu"
    /\ input = "ended"
    /\ pc' \in {"exited", "menu"}
    /\ UNCHANGED <<media, seconds, option, script, started, printed, outside>>

\* confirm_selection()
Confirm ==
    /\ pc = "confirm"
    /\ input = "open"
    /\ pc' = "run"
    /\ script' = ScriptOf(option)
    /\ printed' = "none"
    /\ UNCHANGED <<media, seconds, option, started, outside>>

\* Another answer, or none because getline() fails.
DeclineUnlessAnswered ==        \* mutant: no answer is taken for a yes
    /\ pc = "confirm"
    /\ IF input = "ended"
       THEN pc' = "run" /\ script' = ScriptOf(option) /\ printed' = "none"
       ELSE pc' = "menu" /\ UNCHANGED <<script, printed>>
    /\ UNCHANGED <<media, seconds, option, started, outside>>
Decline ==
    /\ pc = "confirm"
    /\ pc' = "menu"
    /\ UNCHANGED <<media, seconds, option, script, started, printed, outside>>

-----------------------------------------------------------------------------
(* Running the script. *)

\* Where the program goes when a script is over: main() returns the result of
\* the boot it began by itself, the menu comes back after anything else.
Back == IF option = "timeout" THEN "exited" ELSE "menu"

\* system(): the command starts.  What it writes to is no longer what it was.
StartCommand ==
    /\ pc = "run"
    /\ ~started
    /\ started' = TRUE
    /\ LET c == Head(script) IN
          /\ content' = IF c.name \in {"dd", "flashcp"}
                        THEN [content EXCEPT ![c.part] = "broken"]
                        ELSE content
          /\ tmp' = IF c.name = "ddToTmp" THEN "broken" ELSE tmp
    /\ UNCHANGED <<mounted, loaded, pc, seconds, option, script, printed, outside>>

\* A filesystem is mounted once, and one that is broken or without a kernel
\* stops the boot.
CanSucceed(c) ==
    CASE c.name = "mount" -> ~mounted /\ content[<<"boot", "work">>] # "broken"
      [] c.name = "kexecLoad" ->
            mounted /\ content[<<"boot", "work">>] \in {"boot", "changed"}
      [] c.name = "kexecExec" -> loaded
      [] OTHER -> TRUE

\* The command succeeds, and the script goes on.
CommandSucceeds ==
    /\ pc = "run"
    /\ started
    /\ LET c == Head(script) IN
          /\ CanSucceed(c)
          /\ content' = CASE c.name = "dd" ->
                               [content EXCEPT ![c.part] = content[<<c.part[1], "backup">>]]
                          [] c.name = "flashcp" -> [content EXCEPT ![c.part] = tmp]
                          [] OTHER -> content
          /\ tmp' = IF c.name = "ddToTmp" THEN content[c.part] ELSE tmp
          /\ mounted' = (mounted \/ c.name = "mount")
          /\ loaded' = (loaded \/ c.name = "kexecLoad")
          /\ printed' = IF c.name = "printSuccess" THEN option ELSE printed
          /\ pc' = IF c.name = "kexecExec" THEN "booted"
                   ELSE IF Tail(script) = <<>> THEN Back ELSE "run"
    /\ script' = Tail(script)
    /\ started' = FALSE
    /\ UNCHANGED <<seconds, option, outside>>

FailureIgnored ==               \* mutant: the script goes on after a failure
    /\ pc = "run"
    /\ LET c == Head(script) IN
          /\ c.name # "printSuccess"
          /\ \/ ~CanSucceed(c) /\ UNCHANGED faults
             \/ faults < MaxFaults /\ faults' = faults + 1
    /\ script' = Tail(script)
    /\ pc' = IF Tail(script) = <<>> THEN Back ELSE "run"
    /\ started' = FALSE
    /\ UNCHANGED <<media, seconds, option, printed, input, losses, choices>>

\* The command fails, before it touched anything or later, and the script is
\* given up.  What it wrote stays as it is, and so does what the commands
\* before it did: nothing is undone.
CommandFails ==
    /\ pc = "run"
    /\ LET c == Head(script) IN
          /\ c.name # "printSuccess"
          /\ \/ ~CanSucceed(c) /\ UNCHANGED faults
             \/ faults < MaxFaults /\ faults' = faults + 1
    /\ script' = <<>>
    /\ pc' = Back
    /\ started' = FALSE
    /\ UNCHANGED <<media, seconds, option, printed, input, losses, choices>>

Program == Keypress \/ Second \/ WaitFails \/ Select \/ SelectFails
             \/ Confirm \/ Decline \/ StartCommand \/ CommandSucceeds \/ CommandFails

-----------------------------------------------------------------------------
(* Power, and the console. *)

InputEnds ==
    /\ pc \in {"wait", "menu", "confirm", "run"}
    /\ input = "open"
    /\ input' = "ended"
    /\ UNCHANGED <<media, pc, seconds, option, script, started, printed,
                   faults, losses, choices>>

PowerLoss ==
    /\ pc # "off"
    /\ losses < MaxPowerLosses
    /\ losses' = losses + 1
    /\ pc' = "off"
    /\ input' = "open"
    /\ tmp' = "empty"
    /\ mounted' = FALSE
    /\ loaded' = FALSE
    /\ option' = "none"
    /\ script' = <<>>
    /\ started' = FALSE
    /\ printed' = "none"
    /\ UNCHANGED <<content, seconds, faults, choices>>

\* What is needed to come up with this program again.
RescueSystem == {"uboot", "deviceTree", "kernel", "initrd"}

PowerOn ==
    /\ pc = "off"
    /\ \A i \in RescueSystem : content[<<i, "work">>] # "broken"
    /\ pc' = "wait"
    /\ seconds' = 4
    /\ UNCHANGED <<media, option, script, started, printed, outside>>

Next == Program \/ InputEnds \/ PowerLoss \/ PowerOn

Spec == Init /\ [][Next]_vars

(* Time passes, the program runs and its commands end.  The user and the   *)
(* power supply owe nothing.                                               *)
FairSpec ==
    /\ Spec
    /\ WF_vars(Second)
    /\ WF_vars(StartCommand \/ CommandSucceeds \/ CommandFails)

-----------------------------------------------------------------------------
TypeOK ==
    /\ content \in [Partitions -> Images]
    /\ tmp \in Images
    /\ mounted \in BOOLEAN /\ loaded \in BOOLEAN /\ started \in BOOLEAN
    /\ pc \in {"wait", "menu", "confirm", "run", "booted", "exited", "off"}
    /\ seconds \in 0 .. 4
    /\ option \in Options \cup {"none", "timeout"}
    /\ script \in Seq([name : {"mount", "kexecLoad", "kexecExec", "dd", "ddToTmp",
                               "flashcp", "printSuccess"}, part : Partitions])
    /\ printed \in Options \cup {"none"}
    /\ pc = "run" <=> script # <<>>
    /\ input \in {"open", "ended"}
    /\ faults \in 0 .. MaxFaults
    /\ losses \in 0 .. MaxPowerLosses
    /\ choices \in 0 .. MaxChoices

\* The items an option says it restores to factory state.
Restores(o) ==
    CASE o = "filesystems" -> FileSystems
      [] o = "rescue" -> {"kernel", "initrd"}
      [] o \in Flashed -> {o}
      [] OTHER -> {}

\* What it restores of them: the FPGA's option reads its backup and writes it
\* to the backup.
Due(o) == Restores(o) \ {"fpga"}

(***************************************************************************)
(* The factory backups survive every restore, every failure and every      *)
(* loss of power, all but the FPGA's.  That one is written to by its own   *)
(* option, and what a failure or a loss of power leaves of it there is     *)
(* lost for good: no option puts the factory image back.  While the image  *)
(* read just before is still to be written, it is not lost yet.            *)
(***************************************************************************)
FpgaBackup == <<"fpga", "backup">>
FpgaBackupLost ==
    /\ content[FpgaBackup] # "fpga"
    /\ pc = "run" => Head(script) # Command("flashcp", FpgaBackup) \/ tmp # "fpga"
FactoryBackups ==
    /\ [](\A i \in Items \ {"fpga"} : content[<<i, "backup">>] = i)
    /\ [][FpgaBackupLost => FpgaBackupLost']_vars

(***************************************************************************)
(* No partition ever holds the image of another, although all restores     *)
(* share the file /tmp/mtdX and a failed one leaves its image there.       *)
(***************************************************************************)
NoForeignImage == \A i \in Items : content[<<i, "work">>] \in {i} \cup Other

(***************************************************************************)
(* "Operation completed successfully" is the truth: back at the menu, what *)
(* the option says it restores is in factory state.                        *)
(***************************************************************************)
SuccessIsTrue ==
    pc = "menu" =>
        \A i \in Restores(printed) : content[<<i, "work">>] = i

(***************************************************************************)
(* An option that ran to its end, and so printed its last "Operation       *)
(* completed successfully", has restored what is due, which is all it says *)
(* it restores but for the FPGA: whatever failed in earlier choices and    *)
(* although nothing of theirs was undone.                                  *)
(***************************************************************************)
CompletedIsRestored ==
    [][(CommandSucceeds /\ Len(script) = 1) =>
          \A i \in Due(option) : content'[<<i, "work">>] = i]_vars

(***************************************************************************)
(* A restore that was broken off, by a failure or by a loss of power, can  *)
(* be made good: as long as the program comes up, restoring again without  *)
(* a further failure puts the factory image in place, of all but the FPGA. *)
(***************************************************************************)
RestoreEnds ==
    \A i \in Items :
        (pc = "run" /\ faults = MaxFaults /\ losses = MaxPowerLosses
            /\ i \in Due(option)) ~> content[<<i, "work">>] = i

(***************************************************************************)
(* "Exit rescue program and continue normal boot process": once confirmed, *)
(* and with the factory's boot filesystem in place, it does that.          *)
(***************************************************************************)
BootProceeds ==
    (pc = "run" /\ option = "exit" /\ content[<<"boot", "work">>] = "boot")
        ~> (pc = "booted")

(***************************************************************************)
(* The same, of a boot that nothing of an earlier one is in the way of and *)
(* that meets no failure of its own, whatever failed before it; and of the *)
(* boot that begins by itself when the countdown is over.                  *)
(***************************************************************************)
FirstBootProceeds ==
    (/\ pc = "run" /\ option \in {"exit", "timeout"} /\ Len(script) = 3
     /\ content[<<"boot", "work">>] = "boot" /\ ~mounted
     /\ faults = MaxFaults /\ losses = MaxPowerLosses)
        ~> (pc = "booted")

(***************************************************************************)
(* Left alone, the program does not stay: it boots, or has failed to, or   *)
(* the power goes, unless somebody presses the key.  Only an input that    *)
(* has ended keeps it, for ever.                                           *)
(***************************************************************************)
WaitEnds ==
    (pc = "wait") ~> (pc \in {"booted", "exited", "menu", "off"} \/ input = "ended")

(***************************************************************************)
(* Once the console has ended nothing is begun: what was confirmed before  *)
(* is carried out, and then the media stay as they are until the power is  *)
(* cycled.                                                                 *)
(***************************************************************************)
NothingBegunUnasked ==
    [][input = "ended" /\ pc # "run" => pc' # "run" /\ UNCHANGED content]_vars
=============================================================================
