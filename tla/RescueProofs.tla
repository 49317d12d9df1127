---------------------------- MODULE RescueProofs ----------------------------
(***************************************************************************)
(* Whatever the user chooses, whatever fails and however often the power   *)
(* is lost: the factory backups survive, all but the FPGA's, which stays   *)
(* broken once it is; images go where they belong, and only where an       *)
(* option says; an option that ran to its end has done what it says, and a *)
(* success that is printed is true, but for the FPGA and for the second    *)
(* image of the rescue system; and what is begun is carried through.       *)
(***************************************************************************)
EXTENDS Rescue, SequenceTheorems, TLAPS

Commands == [name : {"mount", "kexecLoad", "kexecExec", "dd", "ddToTmp",
                     "flashcp", "printSuccess"}, part : Partitions]

\* The backup that is written to, if its option is on the menu.
Overwritten == Options \cap {"fpga"}

\* What is written to: the partitions in use, but the FPGA's backup for the FPGA.
Writable == ((Items \ {"fpga"}) \X {"work"}) \cup (Overwritten \X {"backup"})
Safe(c) == c \in Commands /\ (c.name \in {"dd", "flashcp"} => c.part \in Writable)
SafeCommands == {c \in Commands : Safe(c)}

\* What the backup of an item may hold.
Kept(i) == {i} \cup (IF i \in Overwritten THEN {"broken"} ELSE {})
BackupsKept == \A i \in Items : content[<<i, "backup">>] \in Kept(i)

IInv ==
    /\ content \in [Partitions -> Images]
    /\ option \in Options \cup {"none", "timeout"}
    /\ tmp \in Images
    /\ script \in Seq(SafeCommands)
    /\ pc = "run" => script # <<>>
    /\ pc = "confirm" => option \in Options
    /\ \A i \in Items \ Overwritten : content[<<i, "backup">>] = i

LEMMA Joined ==
    \A s, t \in Seq(SafeCommands) :
        s \o t \in Seq(SafeCommands) /\ Len(s \o t) = Len(s) + Len(t)
  BY ConcatProperties

LEMMA WritableIsApart ==
    /\ Writable \subseteq Partitions
    /\ \A i \in Items \ Overwritten :
          /\ <<i, "backup">> \in Partitions
          /\ \A p \in Writable : p # <<i, "backup">>
  BY DEF Writable, Overwritten, Partitions, Items, Flashed

LEMMA ScriptsAreSafe ==
    ASSUME NEW o \in Options \cup {"timeout"}
    PROVE  ScriptOf(o) \in Seq(SafeCommands) /\ ScriptOf(o) # <<>>
<1> USE DEF Command, Partitions, Items, FileSystems, Flashed
<1>1. ASSUME NEW n \in {"mount", "kexecLoad", "kexecExec", "printSuccess"}
      PROVE  Command(n, NoPart) \in SafeCommands
  BY <1>1 DEF NoPart, Commands, Safe, SafeCommands
<1>2. ASSUME NEW i \in FileSystems
      PROVE  Command("dd", <<i, "work">>) \in SafeCommands
  BY <1>2 DEF Commands, Safe, SafeCommands, Writable
<1>3. ASSUME NEW i \in Flashed
      PROVE  /\ Command("ddToTmp", <<i, "backup">>) \in SafeCommands
             /\ i # "fpga" => Command("flashcp", <<i, "work">>) \in SafeCommands
             /\ i \in Overwritten =>
                    Command("flashcp", <<i, "backup">>) \in SafeCommands
  BY <1>3 DEF Commands, Safe, SafeCommands, Writable
<1> HIDE DEF Command, Items
<1>4. BootScript \in Seq(SafeCommands) /\ BootScript # <<>>
  BY <1>1 DEF BootScript
<1>5. Success \in Seq(SafeCommands) /\ Len(Success) = 1
  BY <1>1 DEF Success
<1>6. FileSystemsScript \in Seq(SafeCommands) /\ FileSystemsScript # <<>>
  <2> DEFINE two == <<Command("dd", <<"boot", "work">>),
                      Command("dd", <<"root", "work">>)>>
  <2>1. two \in Seq(SafeCommands) /\ Len(two) = 2
    BY <1>2
  <2> HIDE DEF two
  <2>2. /\ two \o Success \in Seq(SafeCommands)
        /\ Len(two \o Success) = Len(two) + Len(Success)
    BY <1>5, <2>1, Joined, Zenon
  <2>3. Len(two \o Success) = 3
    BY <1>5, <2>1, <2>2
  <2> QED
    BY <2>2, <2>3 DEF two, FileSystemsScript
<1>7. ASSUME NEW i \in Flashed, NEW to \in Partitions,
             Command("flashcp", to) \in SafeCommands
      PROVE  LET s == RestoreMtdPartition(<<i, "backup">>, to)
             IN  s \in Seq(SafeCommands) /\ Len(s) = 3
  <2> DEFINE two == <<Command("ddToTmp", <<i, "backup">>), Command("flashcp", to)>>
  <2>1. two \in Seq(SafeCommands) /\ Len(two) = 2
    BY <1>3, <1>7
  <2> HIDE DEF two
  <2>2. /\ two \o Success \in Seq(SafeCommands)
        /\ Len(two \o Success) = Len(two) + Len(Success)
    BY <1>5, <2>1, Joined, Zenon
  <2>3. Len(two \o Success) = 3
    BY <1>5, <2>1, <2>2
  <2> QED
    BY <2>2, <2>3 DEF two, RestoreMtdPartition
<1>a. ASSUME NEW i \in Flashed \ {"fpga"}
      PROVE  RestoreItem(i) \in Seq(SafeCommands) /\ Len(RestoreItem(i)) = 3
  <2>1. /\ i \in Flashed /\ <<i, "work">> \in Partitions
        /\ Command("flashcp", <<i, "work">>) \in SafeCommands
    BY <1>3 DEF Items
  <2> QED
    BY <1>7, <2>1, Zenon DEF RestoreItem
<1>b. o = "fpga" => FpgaScript \in Seq(SafeCommands) /\ Len(FpgaScript) = 3
  <2> SUFFICES ASSUME o = "fpga"
               PROVE  FpgaScript \in Seq(SafeCommands) /\ Len(FpgaScript) = 3
    OBVIOUS
  <2>1. /\ "fpga" \in Flashed /\ <<"fpga", "backup">> \in Partitions
        /\ Command("flashcp", <<"fpga", "backup">>) \in SafeCommands
    BY <1>3 DEF Items, Overwritten
  <2> QED
    BY <1>7, <2>1, Zenon DEF FpgaScript
<1>8. RescueScript \in Seq(SafeCommands) /\ Len(RescueScript) = 6
  <2> DEFINE k == RestoreItem("kernel")
             i == RestoreItem("initrd")
  <2>1. k \in Seq(SafeCommands) /\ Len(k) = 3 /\ i \in Seq(SafeCommands) /\ Len(i) = 3
    BY <1>a DEF Flashed
  <2>2. RescueScript = k \o i
    BY DEF RescueScript
  <2> HIDE DEF k, i
  <2>3. k \o i \in Seq(SafeCommands) /\ Len(k \o i) = Len(k) + Len(i)
    BY <2>1, Joined, Zenon
  <2>4. Len(k \o i) = 6
    BY <2>1, <2>3
  <2> QED
    BY <2>2, <2>3, <2>4
<1>9. CASE o \in {"exit", "timeout"}
  BY <1>4, <1>9 DEF ScriptOf
<1>10. CASE o = "filesystems"
  BY <1>6, <1>10 DEF ScriptOf
<1>11. CASE o = "rescue"
  <2>1. ScriptOf(o) = RescueScript
    BY <1>11 DEF ScriptOf
  <2>2. RescueScript # <<>>
    BY <1>8, EmptySeq, SMTT(60)
  <2> QED
    BY <1>8, <2>1, <2>2
<1>12. CASE o \in Flashed \ {"fpga"} /\ o \notin {"kernel", "initrd"}
  <2>1. ScriptOf(o) = RestoreItem(o)
    BY <1>12 DEF ScriptOf
  <2> QED
    <3>1. RestoreItem(o) \in Seq(SafeCommands) /\ Len(RestoreItem(o)) = 3
      BY <1>a, <1>12
    <3>2. RestoreItem(o) # <<>>
      BY <3>1, EmptySeq, SMTT(60)
    <3> QED
      BY <2>1, <3>1, <3>2
<1>13. CASE o = "fpga"
  BY <1>b, <1>13, EmptySeq DEF ScriptOf
<1> QED
  BY <1>9, <1>10, <1>11, <1>12, <1>13, RescueAssumption
     DEF AllOptions, RescueAssumption

LEMMA InitInv == Init => IInv
<1> SUFFICES ASSUME Init PROVE IInv
  OBVIOUS
<1>1. PICK boot \in BootImages, changed \in {{}, Items} :
        content = [p \in Partitions |->
                     CASE p[2] = "backup" -> p[1]
                       [] p = <<"boot", "work">> -> boot
                       [] OTHER -> IF p[1] \in changed THEN "changed" ELSE p[1]]
  BY DEF Init
<1>2. BootImages \subseteq Images
  BY RescueAssumption DEF RescueAssumption, Images, Other, Items, FileSystems
<1>3. \A p \in Partitions : p[1] \in Items /\ p[1] \in Images /\ "changed" \in Images
  BY DEF Partitions, Images, Other
<1>4. content \in [Partitions -> Images]
  BY <1>1, <1>2, <1>3
<1>5. \A i \in Items : content[<<i, "backup">>] = i
  BY <1>1 DEF Partitions
<1> QED
  BY <1>4, <1>5, EmptySeq DEF Init, IInv, Images, Other

LEMMA NextInv == IInv /\ [Next]_vars => IInv'
<1> SUFFICES ASSUME IInv, [Next]_vars PROVE IInv'
  OBVIOUS
<1> USE DEF IInv, media, outside
<1> DEFINE Intact == \A i \in Items \ Overwritten : content[<<i, "backup">>] = i
<1>0. "broken" \in Images /\ "empty" \in Images
  BY DEF Images, Other
<1>1. CASE \/ Keypress \/ WaitFails \/ Select \/ SelectFails \/ Decline
         \/ InputEnds
  BY <1>1 DEF Keypress, WaitFails, Select, SelectFails, Decline, InputEnds
<1>2. CASE Second
  <2>1. ScriptOf("timeout") \in Seq(SafeCommands) /\ ScriptOf("timeout") # <<>>
    BY ScriptsAreSafe
  <2> QED
    BY <1>2, <2>1 DEF Second
<1>3. CASE Confirm
  <2>1. option \in Options
    BY <1>3 DEF Confirm
  <2> QED
    BY <1>3, <2>1, ScriptsAreSafe DEF Confirm
<1>4. CASE StartCommand
  <2>1. Head(script) \in SafeCommands
    BY <1>4, HeadTailProperties DEF StartCommand
  <2>2. CASE Head(script).name \in {"dd", "flashcp"}
    <3>1. Head(script).part \in Partitions /\ Head(script).part \in Writable
      BY <2>1, <2>2 DEF SafeCommands, Safe, Commands
    <3>2. content' = [content EXCEPT ![Head(script).part] = "broken"]
      BY <1>4, <2>2 DEF StartCommand
    <3>3. content' \in [Partitions -> Images]
      BY <3>1, <3>2 DEF Images, Other
    <3>4. Intact'
      BY <3>1, <3>2, WritableIsApart, Zenon
    <3> QED
      BY <1>0, <1>4, <3>3, <3>4 DEF StartCommand
  <2>3. CASE Head(script).name \notin {"dd", "flashcp"}
    BY <1>0, <1>4, <2>3 DEF StartCommand
  <2> QED
    BY <2>2, <2>3
<1>5. CASE CommandSucceeds
  <2> DEFINE c == Head(script)
  <2>1. c \in SafeCommands /\ Tail(script) \in Seq(SafeCommands)
    BY <1>5, HeadTailProperties DEF CommandSucceeds
  <2>2. /\ script' = Tail(script) /\ option' = option
        /\ pc' \in {"booted", "run", "exited", "menu"}
        /\ pc' = "run" => Tail(script) # <<>>
    BY <1>5 DEF CommandSucceeds, Back
  <2>3. content' \in [Partitions -> Images] /\ Intact'
    <3>1. CASE c.name \in {"dd", "flashcp"}
      <4>1. c.part \in Partitions /\ c.part \in Writable /\ c.part[1] \in Items
        BY <2>1, <3>1 DEF SafeCommands, Safe, Commands, Partitions
      <4>2. PICK image : content' = [content EXCEPT ![c.part] = image]
        BY <1>5, <3>1 DEF CommandSucceeds
      <4>3. Intact'
        BY <4>1, <4>2, WritableIsApart, Zenon
      <4>4. tmp \in Images /\ content[<<c.part[1], "backup">>] \in Images
        BY <4>1 DEF Partitions
      <4> QED
        BY <1>5, <3>1, <4>1, <4>3, <4>4 DEF CommandSucceeds
    <3>2. CASE c.name \notin {"dd", "flashcp"}
      BY <1>5, <3>2 DEF CommandSucceeds
    <3> QED
      BY <3>1, <3>2
  <2>4. tmp' \in Images
    BY <1>5, <2>1 DEF CommandSucceeds, SafeCommands, Safe, Commands
  <2> QED
    BY <2>1, <2>2, <2>3, <2>4
<1>6. CASE CommandFails
  BY <1>6, EmptySeq DEF CommandFails, Back
<1>7. CASE PowerLoss
  BY <1>0, <1>7, EmptySeq DEF PowerLoss
<1>8. CASE PowerOn
  BY <1>8 DEF PowerOn
<1>9. CASE UNCHANGED vars
  BY <1>9 DEF vars
<1> QED
  BY <1>1, <1>2, <1>3, <1>4, <1>5, <1>6, <1>7, <1>8, <1>9 DEF Next, Program

-----------------------------------------------------------------------------
(* Where the images go.  /tmp/mtdX is read right before it is written to a *)
(* partition, what an option has not restored yet is still to come, and    *)
(* nothing else is, and nothing at all after the last success is printed.  *)

\* What an option has restored by the time it first prints a success.
DueFirst(o) == Due(o) \ {"initrd"}

Writes(c, i) == c.name \in {"dd", "flashcp"} /\ c.part = <<i, "work">>

Paired(s) ==
    \A k \in 1 .. Len(s) - 1 :
        s[k + 1].name = "flashcp" =>
            s[k].name = "ddToTmp" /\ s[k].part = <<s[k + 1].part[1], "backup">>

Covers(s, items) == \A i \in items : \E k \in 1 .. Len(s) : Writes(s[k], i)

WritesOnly(s, items) ==
    \A k \in 1 .. Len(s) : \A i \in Items : Writes(s[k], i) => i \in items

\* None of these items is written once a success has been printed.
SuccessLast(s, items) ==
    \A j, k \in 1 .. Len(s) :
        s[j].name = "printSuccess" /\ j < k => \A i \in items : ~Writes(s[k], i)

\* What a script is when it is begun.
Proper(s, o) ==
    /\ Paired(s) /\ s[1].name # "flashcp"
    /\ Covers(s, Due(o)) /\ WritesOnly(s, Due(o)) /\ SuccessLast(s, DueFirst(o))

OrderInv ==
    /\ NoForeignImage
    /\ BackupsKept
    /\ Paired(script)
    /\ script # <<>> /\ script[1].name = "flashcp" => tmp \in Kept(script[1].part[1])
    /\ pc = "run" =>
          /\ \A i \in Due(option) :
                \/ content[<<i, "work">>] = i
                \/ \E k \in 1 .. Len(script) : Writes(script[k], i)
          /\ WritesOnly(script, Due(option))
          /\ SuccessLast(script, DueFirst(option))

LEMMA RestoresItems ==
    \A o : Restores(o) \subseteq Items /\ Due(o) \subseteq Items \ {"fpga"}
              /\ DueFirst(o) \subseteq Due(o)
  BY DEF Due, DueFirst, Restores, Items, FileSystems, Flashed

LEMMA CommandFields ==
    \A n, p : Command(n, p).name = n /\ Command(n, p).part = p
  BY DEF Command

(* The restore of one item, command by command. *)
LEMMA RestoreShape ==
    ASSUME NEW i \in Flashed, NEW to \in Partitions
    PROVE  LET s == RestoreMtdPartition(<<i, "backup">>, to)
           IN  /\ s \in Seq(Commands) /\ Len(s) = 3
               /\ s[1].name = "ddToTmp" /\ s[1].part = <<i, "backup">>
               /\ s[2].name = "flashcp" /\ s[2].part = to
               /\ s[3].name = "printSuccess"
<1> DEFINE two == <<Command("ddToTmp", <<i, "backup">>), Command("flashcp", to)>>
<1>1. /\ Command("ddToTmp", <<i, "backup">>) \in Commands
      /\ Command("flashcp", to) \in Commands
      /\ Command("printSuccess", NoPart) \in Commands
  BY DEF Command, Commands, Partitions, Items, NoPart, FileSystems
<1>2. two \in Seq(Commands) /\ Len(two) = 2
  BY <1>1
<1>3. Success \in Seq(Commands) /\ Len(Success) = 1
  BY <1>1 DEF Success
<1>4. /\ two[1].name = "ddToTmp" /\ two[1].part = <<i, "backup">>
      /\ two[2].name = "flashcp" /\ two[2].part = to
      /\ Success[1].name = "printSuccess"
  BY CommandFields DEF Success
<1>5. RestoreMtdPartition(<<i, "backup">>, to) = two \o Success
  BY DEF RestoreMtdPartition
<1> HIDE DEF two
<1>6. /\ two \o Success \in Seq(Commands)
      /\ Len(two \o Success) = Len(two) + Len(Success)
      /\ \A k \in 1 .. Len(two) + Len(Success) : (two \o Success)[k] =
             IF k <= Len(two) THEN two[k] ELSE Success[k - Len(two)]
  BY <1>2, <1>3, ConcatProperties, Zenon
<1> DEFINE s == two \o Success
<1>7. Len(s) = 3 /\ s[1] = two[1] /\ s[2] = two[2] /\ s[3] = Success[1]
  BY <1>2, <1>3, <1>6
<1>8. s \in Seq(Commands) /\ s = RestoreMtdPartition(<<i, "backup">>, to)
  BY <1>5, <1>6
<1> HIDE DEF s
<1> QED
  BY <1>4, <1>7, <1>8

LEMMA RestoreIsProper ==
    ASSUME NEW i \in Flashed, NEW to \in Partitions, NEW items,
           to[1] = i, to = <<i, "work">> => i \in items,
           items \subseteq {j \in Items : to = <<j, "work">>}
    PROVE  LET s == RestoreMtdPartition(<<i, "backup">>, to)
           IN  /\ Paired(s) /\ s[1].name # "flashcp" /\ Covers(s, items)
               /\ WritesOnly(s, items) /\ SuccessLast(s, items)
<1> DEFINE s == RestoreMtdPartition(<<i, "backup">>, to)
<1>1. /\ s \in Seq(Commands) /\ Len(s) = 3
      /\ s[1].name = "ddToTmp" /\ s[1].part = <<i, "backup">>
      /\ s[2].name = "flashcp" /\ s[2].part = to
      /\ s[3].name = "printSuccess"
  BY RestoreShape
<1> HIDE DEF s
<1>2. Paired(s) /\ s[1].name # "flashcp"
  BY <1>1 DEF Paired
<1>3. Covers(s, items)
  BY <1>1 DEF Covers, Writes
<1>4. WritesOnly(s, items)
  <2> SUFFICES ASSUME NEW k \in 1 .. Len(s), NEW j \in Items, Writes(s[k], j)
               PROVE  j \in items
    BY DEF WritesOnly
  <2>1. k = 2
    BY <1>1 DEF Writes
  <2>2. to = <<j, "work">>
    BY <1>1, <2>1 DEF Writes
  <2>3. j = i
    BY <2>2
  <2> QED
    BY <2>2, <2>3
<1>5. SuccessLast(s, items)
  BY <1>1 DEF SuccessLast, Writes
<1> QED
  BY <1>2, <1>3, <1>4, <1>5 DEF s

LEMMA ScriptsAreProper ==
    ASSUME NEW o \in AllOptions \cup {"timeout"}
    PROVE  Proper(ScriptOf(o), o)
<1>1. CASE o \in {"exit", "timeout"}
  <2>1. ScriptOf(o) = BootScript /\ Due(o) = {} /\ DueFirst(o) = {}
    BY <1>1 DEF ScriptOf, Restores, Flashed, Due, DueFirst
  <2> DEFINE s == BootScript
  <2>2. /\ Len(s) = 3 /\ s[1].name = "mount" /\ s[2].name = "kexecLoad"
        /\ s[3].name = "kexecExec"
    BY CommandFields DEF BootScript
  <2> HIDE DEF s
  <2> QED
    BY <2>1, <2>2 DEF Proper, Paired, Covers, WritesOnly, SuccessLast, Writes, s
<1>2. CASE o = "filesystems"
  <2>1. /\ ScriptOf(o) = FileSystemsScript /\ Due(o) = {"boot", "root"}
        /\ DueFirst(o) = {"boot", "root"}
    BY <1>2 DEF ScriptOf, Restores, FileSystems, Flashed, Due, DueFirst
  <2> DEFINE two == <<Command("dd", <<"boot", "work">>),
                      Command("dd", <<"root", "work">>)>>
  <2>2. /\ Command("dd", <<"boot", "work">>) \in Commands
        /\ Command("dd", <<"root", "work">>) \in Commands
        /\ Command("printSuccess", NoPart) \in Commands
    BY DEF Command, Commands, Partitions, Items, NoPart, FileSystems
  <2>3. two \in Seq(Commands) /\ Len(two) = 2
    BY <2>2
  <2>4. Success \in Seq(Commands) /\ Len(Success) = 1
    BY <2>2 DEF Success
  <2>5. /\ two[1].name = "dd" /\ two[1].part = <<"boot", "work">>
        /\ two[2].name = "dd" /\ two[2].part = <<"root", "work">>
        /\ Success[1].name = "printSuccess"
    BY CommandFields DEF Success
  <2>6. FileSystemsScript = two \o Success
    BY DEF FileSystemsScript
  <2> HIDE DEF two
  <2>7. /\ Len(two \o Success) = Len(two) + Len(Success)
        /\ \A k \in 1 .. Len(two) + Len(Success) : (two \o Success)[k] =
               IF k <= Len(two) THEN two[k] ELSE Success[k - Len(two)]
    BY <2>3, <2>4, ConcatProperties, Zenon
  <2> DEFINE s == two \o Success
  <2>8. Len(s) = 3 /\ s[1] = two[1] /\ s[2] = two[2] /\ s[3] = Success[1]
    BY <2>3, <2>4, <2>7
  <2> HIDE DEF s
  <2>9. Paired(s) /\ s[1].name # "flashcp" /\ Covers(s, {"boot", "root"})
    BY <2>5, <2>8 DEF Paired, Covers, Writes
  <2>10. WritesOnly(s, {"boot", "root"}) /\ SuccessLast(s, {"boot", "root"})
    BY <2>5, <2>8 DEF WritesOnly, SuccessLast, Writes
  <2> QED
    BY <2>1, <2>6, <2>9, <2>10 DEF Proper, s
<1>3. CASE o = "rescue"
  <2> DEFINE a == RestoreItem("kernel")
             b == RestoreItem("initrd")
  <2>1. /\ ScriptOf(o) = a \o b /\ Due(o) = {"kernel", "initrd"}
        /\ DueFirst(o) = {"kernel"}
    BY <1>3 DEF ScriptOf, RescueScript, Restores, Flashed, Due, DueFirst
  <2>2. ASSUME NEW i \in Flashed
        PROVE  LET r == RestoreItem(i)
               IN  /\ r \in Seq(Commands) /\ Len(r) = 3
                   /\ r[1].name = "ddToTmp" /\ r[1].part = <<i, "backup">>
                   /\ r[2].name = "flashcp" /\ r[2].part = <<i, "work">>
                   /\ r[3].name = "printSuccess"
    <3>1. <<i, "work">> \in Partitions
      BY DEF Partitions, Items
    <3> QED
      BY <3>1, RestoreShape, ZenonT(60) DEF RestoreItem
  <2>3. /\ a \in Seq(Commands) /\ Len(a) = 3
        /\ a[1].name = "ddToTmp" /\ a[1].part = <<"kernel", "backup">>
        /\ a[2].name = "flashcp" /\ a[2].part = <<"kernel", "work">>
        /\ a[3].name = "printSuccess"
    BY <2>2 DEF Flashed
  <2>4. /\ b \in Seq(Commands) /\ Len(b) = 3
        /\ b[1].name = "ddToTmp" /\ b[1].part = <<"initrd", "backup">>
        /\ b[2].name = "flashcp" /\ b[2].part = <<"initrd", "work">>
        /\ b[3].name = "printSuccess"
    BY <2>2 DEF Flashed
  <2> HIDE DEF a, b
  <2>5. /\ Len(a \o b) = Len(a) + Len(b)
        /\ \A k \in 1 .. Len(a) + Len(b) :
               (a \o b)[k] = IF k <= Len(a) THEN a[k] ELSE b[k - Len(a)]
    BY <2>3, <2>4, ConcatProperties, Zenon
  <2> DEFINE s == a \o b
  <2>6. /\ Len(s) = 6 /\ s[1] = a[1] /\ s[2] = a[2] /\ s[3] = a[3]
        /\ s[4] = b[1] /\ s[5] = b[2] /\ s[6] = b[3]
    BY <2>3, <2>4, <2>5
  <2>7. ScriptOf(o) = s
    BY <2>1
  <2> HIDE DEF s
  <2>8. Paired(s) /\ s[1].name # "flashcp"
    BY <2>3, <2>4, <2>6 DEF Paired
  <2>9. Covers(s, {"kernel", "initrd"})
    BY <2>3, <2>4, <2>6 DEF Covers, Writes
  <2>10. WritesOnly(s, {"kernel", "initrd"})
    BY <2>3, <2>4, <2>6 DEF WritesOnly, Writes
  <2>11. SuccessLast(s, {"kernel"})
    BY <2>3, <2>4, <2>6 DEF SuccessLast, Writes
  <2> QED
    BY <2>1, <2>7, <2>8, <2>9, <2>10, <2>11 DEF Proper
<1>4. CASE o = "fpga"
  <2>1. /\ ScriptOf(o) = FpgaScript /\ Due(o) = {} /\ DueFirst(o) = {}
        /\ "fpga" \in Flashed /\ <<"fpga", "backup">> \in Partitions
    BY <1>4 DEF ScriptOf, Restores, Flashed, Due, DueFirst, Partitions, Items
  <2> DEFINE s == FpgaScript
  <2>2. /\ Paired(s) /\ s[1].name # "flashcp" /\ Covers(s, {})
        /\ WritesOnly(s, {}) /\ SuccessLast(s, {})
    BY <2>1, RestoreIsProper DEF FpgaScript
  <2> HIDE DEF s
  <2> QED
    BY <2>1, <2>2 DEF Proper, s
<1>5. CASE o \in Flashed \ {"fpga", "kernel", "initrd"}
  <2>1. /\ ScriptOf(o) = RestoreItem(o) /\ Due(o) = {o} /\ DueFirst(o) = {o}
        /\ o \in Flashed /\ <<o, "work">> \in Partitions /\ o \in Items
    BY <1>5 DEF ScriptOf, Restores, Flashed, Due, DueFirst, Partitions, Items
  <2> DEFINE s == RestoreItem(o)
  <2>2. /\ Paired(s) /\ s[1].name # "flashcp" /\ Covers(s, {o})
        /\ WritesOnly(s, {o}) /\ SuccessLast(s, {o})
    BY <2>1, RestoreIsProper DEF RestoreItem
  <2> HIDE DEF s
  <2> QED
    BY <2>1, <2>2 DEF Proper, s
<1> QED
  BY <1>1, <1>2, <1>3, <1>4, <1>5 DEF AllOptions, Flashed

\* The command has written an image that may be in the backup of its item.
Written(c, image) ==
    /\ c.name \in {"dd", "flashcp"} /\ c.part \in Writable
    /\ image \in Kept(c.part[1])
    /\ content \in [Partitions -> Images]
    /\ content' = [content EXCEPT ![c.part] = image]

(* A write changes its target and no other partition, and leaves what may  *)
(* be there.                                                               *)
LEMMA OneWrite ==
    ASSUME NEW c, NEW image, Written(c, image), NEW i \in Items
    PROVE  /\ Writes(c, i) => content'[<<i, "work">>] = i
           /\ ~Writes(c, i) => content'[<<i, "work">>] = content[<<i, "work">>]
           /\ content[<<i, "backup">>] \in Kept(i) =>
                 content'[<<i, "backup">>] \in Kept(i)
<1> USE DEF Written
<1>1. /\ <<i, "work">> \in Partitions /\ <<i, "backup">> \in Partitions
      /\ c.part \in Partitions
  BY WritableIsApart DEF Partitions
<1>2. CASE Writes(c, i)
  <2>1. c.part = <<i, "work">> /\ c.part[1] = i
    BY <1>2 DEF Writes
  <2>2. i # "fpga"
    BY <2>1 DEF Writable
  <2>3. image = i
    BY <2>1, <2>2 DEF Kept, Overwritten
  <2> QED
    BY <1>1, <1>2, <2>1, <2>3
<1>3. CASE c.part = <<i, "backup">>
  <2>1. c.part[1] = i /\ ~Writes(c, i)
    BY <1>3 DEF Writes
  <2> QED
    BY <1>1, <1>3, <2>1
<1>4. CASE c.part \notin {<<i, "work">>, <<i, "backup">>}
  BY <1>1, <1>4 DEF Writes
<1>5. Writes(c, i) \/ c.part = <<i, "backup">>
        \/ c.part \notin {<<i, "work">>, <<i, "backup">>}
  BY DEF Writes
<1> QED
  BY <1>2, <1>3, <1>4, <1>5

(* The command that is started or ends: the first of the script.           *)
LEMMA FirstCommand ==
    ASSUME IInv, pc = "run"
    PROVE  LET c == Head(script)
           IN  /\ c \in SafeCommands /\ c = script[1] /\ 1 \in 1 .. Len(script)
               /\ c.part \in Partitions
               /\ c.name \in {"dd", "flashcp"} => c.part \in Writable
               /\ Tail(script) \in Seq(SafeCommands)
               /\ Len(Tail(script)) = Len(script) - 1 /\ Len(script) \in Nat
               /\ \A k \in 1 .. Len(Tail(script)) :
                     k + 1 \in 1 .. Len(script) /\ Tail(script)[k] = script[k + 1]
<1> DEFINE c == Head(script)
<1>1. script # <<>> /\ script \in Seq(SafeCommands) /\ c = script[1]
  BY DEF IInv
<1>2. /\ c \in SafeCommands /\ Tail(script) \in Seq(SafeCommands)
      /\ Len(Tail(script)) = Len(script) - 1 /\ Len(script) \in Nat
      /\ \A k \in 1 .. Len(Tail(script)) : Tail(script)[k] = script[k + 1]
  BY <1>1, HeadTailProperties
<1>3. /\ c.part \in Partitions
      /\ c.name \in {"dd", "flashcp"} => c.part \in Writable
  BY <1>2 DEF SafeCommands, Safe, Commands
<1>4. 1 \in 1 .. Len(script)
  BY <1>1
<1> HIDE DEF c
<1>5. \A k \in 1 .. Len(Tail(script)) : k + 1 \in 1 .. Len(script)
  BY <1>2
<1> QED
  BY <1>1, <1>2, <1>3, <1>4, <1>5 DEF c

LEMMA StartedWrites ==
    ASSUME IInv, OrderInv, StartCommand
    PROVE  /\ \A i \in Items : \/ content'[<<i, "work">>] = content[<<i, "work">>]
                              \/ /\ content'[<<i, "work">>] = "broken"
                                 /\ Writes(Head(script), i)
           /\ BackupsKept'
<1> DEFINE c == Head(script)
<1>1. /\ c.part \in Partitions
      /\ c.name \in {"dd", "flashcp"} => c.part \in Writable
  BY FirstCommand DEF StartCommand
<1>2. content \in [Partitions -> Images]
  BY DEF IInv
<1>3. \A i \in Items : <<i, "work">> \in Partitions /\ <<i, "backup">> \in Partitions
  BY DEF Partitions
<1>4. CASE c.name \in {"dd", "flashcp"}
  <2>1. content' = [content EXCEPT ![c.part] = "broken"]
    BY <1>4 DEF StartCommand
  <2>2. ASSUME NEW i \in Items
        PROVE  \/ content'[<<i, "work">>] = content[<<i, "work">>]
               \/ content'[<<i, "work">>] = "broken" /\ Writes(c, i)
    <3>1. CASE c.part = <<i, "work">>
      BY <1>1, <1>2, <1>4, <2>1, <3>1 DEF Writes
    <3>2. CASE c.part # <<i, "work">>
      BY <1>2, <1>3, <2>1, <3>2
    <3> QED
      BY <3>1, <3>2
  <2>3. ASSUME NEW i \in Items PROVE content'[<<i, "backup">>] \in Kept(i)
    <3>1. CASE c.part = <<i, "backup">>
      <4>1. i \in Overwritten
        BY <1>1, <1>4, <3>1, WritableIsApart
      <4> QED
        BY <1>1, <1>2, <2>1, <3>1, <4>1 DEF Kept
    <3>2. CASE c.part # <<i, "backup">>
      <4>1. content'[<<i, "backup">>] = content[<<i, "backup">>]
        BY <1>2, <1>3, <2>1, <3>2
      <4> QED
        BY <4>1 DEF OrderInv, BackupsKept
    <3> QED
      BY <3>1, <3>2
  <2> QED
    BY <2>2, <2>3 DEF BackupsKept
<1>5. CASE c.name \notin {"dd", "flashcp"}
  BY <1>5 DEF StartCommand, OrderInv, BackupsKept
<1> QED
  BY <1>4, <1>5

LEMMA SucceededWrites ==
    ASSUME IInv, OrderInv, CommandSucceeds
    PROVE  /\ \A i \in Items :
                 /\ Writes(Head(script), i) => content'[<<i, "work">>] = i
                 /\ ~Writes(Head(script), i) =>
                       content'[<<i, "work">>] = content[<<i, "work">>]
           /\ BackupsKept'
<1> DEFINE c == Head(script)
<1>1. /\ c.part \in Partitions /\ c = script[1] /\ script # <<>>
      /\ c.name \in {"dd", "flashcp"} => c.part \in Writable
  BY FirstCommand DEF CommandSucceeds, IInv
<1>2. content \in [Partitions -> Images] /\ BackupsKept
  BY DEF IInv, OrderInv
<1>3. CASE c.name \in {"dd", "flashcp"}
  <2>1. PICK image \in Kept(c.part[1]) : content' = [content EXCEPT ![c.part] = image]
    <3>1. CASE c.name = "dd"
      <4>1. c.part[1] \in Items
        BY <1>1 DEF Partitions
      <4>2. content[<<c.part[1], "backup">>] \in Kept(c.part[1])
        BY <1>2, <4>1 DEF BackupsKept
      <4> QED
        BY <3>1, <4>2 DEF CommandSucceeds
    <3>2. CASE c.name = "flashcp"
      <4>1. tmp \in Kept(c.part[1])
        BY <1>1, <3>2 DEF OrderInv
      <4> QED
        BY <3>2, <4>1 DEF CommandSucceeds
    <3> QED
      BY <1>3, <3>1, <3>2
  <2>2. Written(c, image)
    BY <1>1, <1>2, <1>3, <2>1 DEF Written
  <2> HIDE DEF c
  <2>3. ASSUME NEW i \in Items
        PROVE  /\ Writes(c, i) => content'[<<i, "work">>] = i
               /\ ~Writes(c, i) => content'[<<i, "work">>] = content[<<i, "work">>]
               /\ content[<<i, "backup">>] \in Kept(i) =>
                     content'[<<i, "backup">>] \in Kept(i)
    BY <2>2, OneWrite, Zenon
  <2> QED
    BY <1>2, <2>3 DEF BackupsKept, c
<1>4. CASE c.name \notin {"dd", "flashcp"}
  BY <1>2, <1>4 DEF CommandSucceeds, Writes, BackupsKept
<1> QED
  BY <1>3, <1>4

LEMMA InitOrder == Init => OrderInv
<1> SUFFICES ASSUME Init PROVE OrderInv
  OBVIOUS
<1>1. PICK boot \in BootImages, changed \in {{}, Items} :
        content = [p \in Partitions |->
                     CASE p[2] = "backup" -> p[1]
                       [] p = <<"boot", "work">> -> boot
                       [] OTHER -> IF p[1] \in changed THEN "changed" ELSE p[1]]
  BY DEF Init
<1>2. BootImages \subseteq {"boot"} \cup Other
  BY RescueAssumption DEF RescueAssumption, Other
<1>3. NoForeignImage
  <2> SUFFICES ASSUME NEW i \in Items
               PROVE  content[<<i, "work">>] \in {i} \cup Other
    BY DEF NoForeignImage
  <2>1. <<i, "work">> \in Partitions
    BY DEF Partitions
  <2>2. CASE i = "boot"
    BY <1>1, <1>2, <2>1, <2>2
  <2>3. CASE i # "boot"
    <3>1. content[<<i, "work">>] = IF i \in changed THEN "changed" ELSE i
      BY <1>1, <2>1, <2>3
    <3> QED
      BY <3>1 DEF Other
  <2> QED
    BY <2>2, <2>3
<1>4. BackupsKept
  BY <1>1 DEF BackupsKept, Kept, Partitions
<1> QED
  BY <1>3, <1>4 DEF Init, OrderInv, Paired

LEMMA NextOrder == IInv /\ OrderInv /\ [Next]_vars => OrderInv'
<1> SUFFICES ASSUME IInv, OrderInv, [Next]_vars PROVE OrderInv'
  OBVIOUS
<1> USE DEF media, outside
<1>1. CASE \/ Keypress \/ WaitFails \/ Select \/ SelectFails \/ Decline
           \/ InputEnds \/ PowerOn \/ UNCHANGED vars
  <2>1. UNCHANGED <<content, tmp, script>> /\ (pc' = "run" => pc = "run" /\ option' = option)
    BY <1>1 DEF Keypress, WaitFails, Select, SelectFails, Decline, InputEnds,
                PowerOn, vars
  <2> QED
    BY <2>1 DEF OrderInv, NoForeignImage, BackupsKept
<1>2. ASSUME NEW o \in AllOptions \cup {"timeout"}, option' = o,
             script' = ScriptOf(o), UNCHANGED content
      PROVE  OrderInv'
  <2>1. Proper(script', option')
    BY <1>2, ScriptsAreProper
  <2>2. NoForeignImage' /\ BackupsKept'
    BY <1>2 DEF OrderInv, NoForeignImage, BackupsKept
  <2> QED
    BY <2>1, <2>2 DEF OrderInv, Proper, Covers
<1>3. CASE Second
  <2>1. CASE seconds > 1
    BY <1>3, <2>1 DEF Second, OrderInv, NoForeignImage, BackupsKept
  <2>2. CASE ~(seconds > 1)
    BY <1>2, <1>3, <2>2 DEF Second
  <2> QED
    BY <2>1, <2>2
<1>4. CASE Confirm
  <2>1. option \in Options /\ option \in AllOptions
    BY <1>4, RescueAssumption DEF Confirm, IInv, RescueAssumption
  <2> QED
    BY <1>2, <1>4, <2>1 DEF Confirm
<1>5. CASE StartCommand
  <2> DEFINE c == Head(script)
  <2>1. c = script[1] /\ 1 \in 1 .. Len(script) /\ pc = "run"
    BY <1>5, FirstCommand DEF StartCommand
  <2>2. script' = script /\ pc' = pc /\ option' = option
    BY <1>5 DEF StartCommand
  <2>3. c.name = "flashcp" => tmp' = tmp
    BY <1>5 DEF StartCommand
  <2>4. /\ \A i \in Items : \/ content'[<<i, "work">>] = content[<<i, "work">>]
                            \/ content'[<<i, "work">>] = "broken" /\ Writes(c, i)
        /\ BackupsKept'
    BY <1>5, StartedWrites
  <2>5. NoForeignImage'
    BY <2>4 DEF OrderInv, NoForeignImage, Other
  <2>6. \A i \in Due(option') :
            \/ content'[<<i, "work">>] = i
            \/ \E k \in 1 .. Len(script') : Writes(script'[k], i)
    BY <2>1, <2>2, <2>4, RestoresItems DEF OrderInv
  <2> HIDE DEF c
  <2> QED
    BY <2>1, <2>2, <2>3, <2>4, <2>5, <2>6 DEF OrderInv
<1>6. CASE CommandSucceeds
  <2> DEFINE c == Head(script)
  <2>1. pc = "run" /\ script' = Tail(script) /\ option' = option
    BY <1>6 DEF CommandSucceeds
  <2>2. /\ c = script[1] /\ 1 \in 1 .. Len(script) /\ Len(script) \in Nat
        /\ Len(script') = Len(script) - 1
        /\ \A k \in 1 .. Len(script') :
              k + 1 \in 1 .. Len(script) /\ script'[k] = script[k + 1]
    BY <2>1, FirstCommand
  <2>3. /\ \A i \in Items :
              /\ Writes(c, i) => content'[<<i, "work">>] = i
              /\ ~Writes(c, i) => content'[<<i, "work">>] = content[<<i, "work">>]
        /\ BackupsKept'
    BY <1>6, SucceededWrites
  <2>4. NoForeignImage'
    BY <2>3 DEF OrderInv, NoForeignImage
  <2>5. Paired(script')
    BY <2>2, SMTT(60) DEF OrderInv, Paired
  <2>6. script' # <<>> /\ script'[1].name = "flashcp" =>
            tmp' \in Kept(script'[1].part[1])
    <3> SUFFICES ASSUME script' # <<>>, script'[1].name = "flashcp"
                 PROVE  tmp' \in Kept(script'[1].part[1])
      OBVIOUS
    <3>1. 1 \in 1 .. Len(script) - 1 /\ script'[1] = script[1 + 1]
      <4>1. script' \in Seq(SafeCommands)
        BY <2>1, FirstCommand
      <4>2. 1 \in 1 .. Len(script')
        BY <4>1, EmptySeq
      <4> QED
        BY <2>2, <4>2
    <3>2. c.name = "ddToTmp" /\ c.part = <<script[2].part[1], "backup">>
      BY <2>2, <3>1 DEF OrderInv, Paired
    <3>3. tmp' = content[c.part]
      BY <1>6, <3>2 DEF CommandSucceeds
    <3>4. script[2].part[1] \in Items
      <4>1. script[2] \in SafeCommands
        BY <2>2, <3>1, ElementOfSeq DEF IInv
      <4> QED
        BY <4>1 DEF SafeCommands, Commands, Partitions
    <3>5. content[<<script[2].part[1], "backup">>] \in Kept(script[2].part[1])
      BY <3>4 DEF OrderInv, BackupsKept
    <3>6. script'[1] = script[2]
      BY <3>1
    <3> QED
      BY <3>2, <3>3, <3>5, <3>6
  <2>7. \A i \in Due(option') :
            \/ content'[<<i, "work">>] = i
            \/ \E k \in 1 .. Len(script') : Writes(script'[k], i)
    <3> SUFFICES ASSUME NEW i \in Due(option), content'[<<i, "work">>] # i
                 PROVE  \E k \in 1 .. Len(script') : Writes(script'[k], i)
      BY <2>1
    <3>1. i \in Items
      BY RestoresItems
    <3>2. ~Writes(c, i) /\ content[<<i, "work">>] # i
      BY <2>3, <3>1
    <3>3. PICK k \in 1 .. Len(script) : Writes(script[k], i)
      BY <2>1, <3>2 DEF OrderInv
    <3>4. k # 1
      BY <2>2, <3>2, <3>3
    <3>5. k - 1 \in 1 .. Len(script') /\ script'[k - 1] = script[k]
      BY <2>2, <3>4
    <3> QED
      BY <3>3, <3>5
  <2>8. WritesOnly(script', Due(option'))
    BY <2>1, <2>2 DEF OrderInv, WritesOnly
  <2>9. SuccessLast(script', DueFirst(option'))
    <3> SUFFICES ASSUME NEW j \in 1 .. Len(script'), NEW k \in 1 .. Len(script'),
                        script'[j].name = "printSuccess", j < k,
                        NEW i \in DueFirst(option)
                 PROVE  ~Writes(script'[k], i)
      BY <2>1 DEF SuccessLast
    <3>1. /\ j + 1 \in 1 .. Len(script) /\ k + 1 \in 1 .. Len(script)
          /\ script'[j] = script[j + 1] /\ script'[k] = script[k + 1] /\ j + 1 < k + 1
      BY <2>2, SMTT(60)
    <3> QED
      BY <2>1, <3>1 DEF OrderInv, SuccessLast
  <2> QED
    BY <2>3, <2>4, <2>5, <2>6, <2>7, <2>8, <2>9 DEF OrderInv
<1>7. CASE CommandFails \/ PowerLoss
  <2>1. script' = <<>> /\ pc' # "run" /\ content' = content
    BY <1>7 DEF CommandFails, PowerLoss, Back
  <2> QED
    BY <2>1 DEF OrderInv, NoForeignImage, BackupsKept, Paired
<1> QED
  BY <1>1, <1>3, <1>4, <1>5, <1>6, <1>7 DEF Next, Program

(* A broken FPGA backup is copied onto itself at best.                     *)
LEMMA LostForGood ==
    IInv /\ OrderInv /\ FpgaBackupLost /\ [Next]_vars => FpgaBackupLost'
<1> SUFFICES ASSUME IInv, OrderInv, FpgaBackupLost, [Next]_vars
             PROVE  FpgaBackupLost'
  OBVIOUS
<1> USE DEF media, outside
<1>a. /\ "fpga" \in Items /\ FpgaBackup \in Partitions
      /\ content[FpgaBackup] = "broken" /\ Kept("fpga") \subseteq {"fpga", "broken"}
  BY DEF OrderInv, BackupsKept, FpgaBackup, FpgaBackupLost, Kept, Items, Flashed,
         Partitions
<1>1. CASE \/ Keypress \/ WaitFails \/ Select \/ SelectFails \/ Decline
           \/ InputEnds \/ PowerOn \/ CommandFails \/ PowerLoss \/ UNCHANGED vars
  <2>1. content' = content /\ (pc' = "run" => pc = "run" /\ UNCHANGED <<script, tmp>>)
    BY <1>1 DEF Keypress, WaitFails, Select, SelectFails, Decline, InputEnds,
                PowerOn, CommandFails, Back, PowerLoss, vars
  <2> QED
    BY <2>1 DEF FpgaBackupLost
<1>2. ASSUME NEW o \in AllOptions \cup {"timeout"}, script' = ScriptOf(o),
             UNCHANGED content
      PROVE  FpgaBackupLost'
  <2>1. Proper(ScriptOf(o), o)
    BY <1>2, ScriptsAreProper
  <2>2. script'[1].name # "flashcp"
    BY <1>2, <2>1 DEF Proper
  <2>3. Head(script') # Command("flashcp", FpgaBackup)
    BY <2>2, CommandFields
  <2> QED
    BY <1>2, <2>3 DEF FpgaBackupLost
<1>3. CASE Second
  <2>1. CASE seconds > 1
    BY <1>3, <2>1 DEF Second, FpgaBackupLost
  <2>2. CASE ~(seconds > 1)
    BY <1>2, <1>3, <2>2 DEF Second
  <2> QED
    BY <2>1, <2>2
<1>4. CASE Confirm
  <2>1. option \in AllOptions
    BY <1>4, RescueAssumption DEF Confirm, IInv, RescueAssumption
  <2> QED
    BY <1>2, <1>4, <2>1 DEF Confirm
<1>5. CASE StartCommand
  <2>1. pc = "run" /\ pc' = pc /\ script' = script
    BY <1>5 DEF StartCommand
  <2>2. tmp' = tmp \/ tmp' = "broken"
    BY <1>5 DEF StartCommand
  <2>3. content'[FpgaBackup] = "broken"
    BY <1>5, <1>a DEF StartCommand, IInv
  <2> QED
    BY <2>1, <2>2, <2>3 DEF FpgaBackupLost
<1>6. CASE CommandSucceeds
  <2> DEFINE c == Head(script)
  <2>1. pc = "run" /\ script' = Tail(script) /\ option' = option
    BY <1>6 DEF CommandSucceeds
  <2>2. /\ c = script[1] /\ 1 \in 1 .. Len(script) /\ Len(script) \in Nat
        /\ Len(script') = Len(script) - 1
        /\ \A k \in 1 .. Len(script') :
              k + 1 \in 1 .. Len(script) /\ script'[k] = script[k + 1]
    BY <2>1, FirstCommand
  <2>3. content'[FpgaBackup] = "broken"
    <3>1. CASE c.name = "flashcp" /\ c.part = FpgaBackup
      <4>1. c = Command("flashcp", FpgaBackup)
        BY <2>2, <3>1, ElementOfSeq DEF IInv, SafeCommands, Commands, Command
      <4>2. tmp # "fpga"
        BY <2>1, <4>1 DEF FpgaBackupLost
      <4>3. script # <<>> /\ script[1].name = "flashcp"
            /\ script[1].part[1] = "fpga"
        BY <2>2, <3>1, EmptySeq DEF FpgaBackup
      <4>4. tmp = "broken"
        BY <1>a, <4>2, <4>3 DEF OrderInv
      <4> QED
        BY <1>6, <1>a, <3>1, <4>4 DEF CommandSucceeds, IInv
    <3>2. CASE c.name = "dd"
      BY <1>6, <1>a, <3>2 DEF CommandSucceeds, IInv, FpgaBackup
    <3>3. CASE c.name = "flashcp" /\ c.part # FpgaBackup
      BY <1>6, <1>a, <3>3 DEF CommandSucceeds, IInv
    <3>4. CASE c.name \notin {"dd", "flashcp"}
      BY <1>6, <1>a, <3>4 DEF CommandSucceeds
    <3> QED
      BY <3>1, <3>2, <3>3, <3>4
  <2>4. ASSUME pc' = "run", Head(script') = Command("flashcp", FpgaBackup)
        PROVE  tmp' # "fpga"
    <3>1. script' # <<>> /\ script'[1] = Command("flashcp", FpgaBackup)
      <4>1. script' # <<>>
        BY <1>6, <2>1, <2>4 DEF CommandSucceeds, Back
      <4>2. script' \in Seq(SafeCommands)
        BY <2>1, FirstCommand
      <4> QED
        BY <2>4, <4>1, <4>2, HeadTailProperties
    <3>2. 1 \in 1 .. Len(script) - 1 /\ script[1 + 1] = script'[1]
      <4>1. script' \in Seq(SafeCommands)
        BY <2>1, FirstCommand
      <4>2. 1 \in 1 .. Len(script')
        BY <3>1, <4>1, EmptySeq
      <4> QED
        BY <2>2, <4>2
    <3>3. script[1 + 1].name = "flashcp" /\ script[1 + 1].part = FpgaBackup
      BY <3>1, <3>2, CommandFields
    <3>4. c.name = "ddToTmp" /\ c.part = FpgaBackup
      BY <2>2, <3>2, <3>3 DEF OrderInv, Paired, FpgaBackup
    <3> QED
      BY <1>6, <1>a, <3>4 DEF CommandSucceeds
  <2> QED
    BY <1>a, <2>3, <2>4 DEF FpgaBackupLost
<1> QED
  BY <1>1, <1>3, <1>4, <1>5, <1>6 DEF Next, Program

(* Whatever is restored, whatever fails and however often the power goes,  *)
(* every backup keeps its factory image, but the FPGA's, which its own     *)
(* option writes to and may leave broken                                   *)
(* (do_interactive_restore_fpga()).                                        *)
THEOREM OthersSurvive == Spec => []BackupsKept
<1>1. OrderInv => BackupsKept
  BY DEF OrderInv
<1> QED
  BY <1>1, InitInv, NextInv, InitOrder, NextOrder, PTL DEF Spec

(* And once the FPGA's backup is broken, with no write of a whole image    *)
(* under way, no option and no further failure ever brings it back.        *)
THEOREM BackupsSurvive == Spec => FactoryBackups
<1> DEFINE Others == \A i \in Items \ {"fpga"} : content[<<i, "backup">>] = i
<1>1. IInv => Others
  BY DEF IInv, Overwritten
<1>2. IInv /\ OrderInv /\ [Next]_vars => [FpgaBackupLost => FpgaBackupLost']_vars
  BY LostForGood
<1>3. Spec => []Others /\ [][FpgaBackupLost => FpgaBackupLost']_vars
  BY <1>1, <1>2, InitInv, NextInv, InitOrder, NextOrder, PTL DEF Spec
<1> QED
  BY <1>3 DEF FactoryBackups

(* No partition ever holds the image of another, whatever is chosen,       *)
(* whatever fails and however often the power goes, although all restores  *)
(* go through /tmp/mtdX (do_restore_mtd_partition()).                      *)
THEOREM ImagesInPlace == Spec => []NoForeignImage
<1>1. OrderInv => NoForeignImage
  BY DEF OrderInv
<1> QED
  BY <1>1, InitInv, NextInv, InitOrder, NextOrder, PTL DEF Spec

OnlyDueChanges ==
    [][\A i \in Items : content'[<<i, "work">>] # content[<<i, "work">>] =>
          pc = "run" /\ i \in Due(option)]_vars

LEMMA ChangesAreDue ==
    ASSUME IInv, OrderInv, [Next]_vars, NEW i \in Items,
           content'[<<i, "work">>] # content[<<i, "work">>]
    PROVE  pc = "run" /\ i \in Due(option)
<1>1. CASE StartCommand
  <2>1. pc = "run" /\ Writes(Head(script), i)
    BY <1>1, StartedWrites DEF StartCommand
  <2> QED
    BY <2>1, FirstCommand DEF OrderInv, WritesOnly
<1>2. CASE CommandSucceeds
  <2>1. pc = "run" /\ Writes(Head(script), i)
    BY <1>2, SucceededWrites DEF CommandSucceeds
  <2> QED
    BY <2>1, FirstCommand DEF OrderInv, WritesOnly
<1>3. CASE \/ Keypress \/ Second \/ WaitFails \/ Select \/ SelectFails \/ Confirm
           \/ Decline \/ CommandFails \/ InputEnds \/ PowerLoss \/ PowerOn
           \/ UNCHANGED vars
  BY <1>3 DEF Keypress, Second, WaitFails, Select, SelectFails, Confirm, Decline,
              CommandFails, InputEnds, PowerLoss, PowerOn, vars, media
<1> QED
  BY <1>1, <1>2, <1>3 DEF Next, Program

(* A partition in use changes only while an option runs that says it       *)
(* restores it, and the FPGA's never does, not by its own option either:   *)
(* what is selected, declined or timed out touches nothing, and a boot     *)
(* writes to nothing.                                                      *)
THEOREM OnlyWhatWasChosen == Spec => OnlyDueChanges
<1>1. ASSUME IInv, OrderInv, [Next]_vars
      PROVE  \A i \in Items : content'[<<i, "work">>] # content[<<i, "work">>] =>
                pc = "run" /\ i \in Due(option)
  BY <1>1, ChangesAreDue
<1> QED
  BY <1>1, InitInv, NextInv, InitOrder, NextOrder, PTL DEF Spec, OnlyDueChanges

LEMMA LastCommand ==
    ASSUME IInv, OrderInv, CommandSucceeds, Len(script) = 1, NEW i \in Due(option)
    PROVE  content'[<<i, "work">>] = i
<1>1. pc = "run" /\ i \in Items /\ Head(script) = script[1]
  BY RestoresItems, FirstCommand DEF CommandSucceeds
<1>2. content[<<i, "work">>] = i \/ Writes(Head(script), i)
  BY <1>1 DEF OrderInv
<1> QED
  BY <1>1, <1>2, SucceededWrites

(* An option that ran to its end has restored all it says it restores,     *)
(* whatever failed in the choices before it, unless it is the FPGA's.      *)
THEOREM CompletedOptions == Spec => CompletedIsRestored
<1>1. ASSUME IInv, OrderInv
      PROVE  (CommandSucceeds /\ Len(script) = 1) =>
                \A i \in Due(option) : content'[<<i, "work">>] = i
  BY <1>1, LastCommand
<1> QED
  BY <1>1, InitInv, NextInv, InitOrder, NextOrder, PTL DEF Spec, CompletedIsRestored

(* Once the console has ended nothing is begun: neither the time-out nor   *)
(* an answer that getline() did not get starts a script, in any system and *)
(* with any options (select() in wait_for_keypress_timeout(), getline() in *)
(* the prompts).                                                           *)
THEOREM NothingUnasked == Spec => NothingBegunUnasked
<1>1. ASSUME [Next]_vars, input = "ended", pc # "run"
      PROVE  pc' # "run" /\ UNCHANGED content
  <2>1. CASE Keypress \/ WaitFails \/ SelectFails \/ Decline
    BY <1>1, <2>1 DEF Keypress, WaitFails, SelectFails, Decline, media
  <2>2. CASE Second \/ Select \/ Confirm
    BY <1>1, <2>2 DEF Second, Select, Confirm
  <2>3. CASE StartCommand \/ CommandSucceeds \/ CommandFails
    BY <1>1, <2>3 DEF StartCommand, CommandSucceeds, CommandFails
  <2>4. CASE InputEnds \/ PowerLoss \/ PowerOn
    BY <1>1, <2>4 DEF InputEnds, PowerLoss, PowerOn, media
  <2>5. CASE UNCHANGED vars
    BY <1>1, <2>5 DEF vars, media
  <2> QED
    BY <1>1, <2>1, <2>2, <2>3, <2>4, <2>5 DEF Next, Program
<1> QED
  BY <1>1, PTL DEF Spec, NothingBegunUnasked
-----------------------------------------------------------------------------
(* Types, with every option, the FPGA's included: exec is the end of a     *)
(* script, and only an option of the menu prints a success.                *)

EndsWithExec(s) == \A k \in 1 .. Len(s) : s[k].name = "kexecExec" => k = Len(s)
NoSuccess(s) == \A k \in 1 .. Len(s) : s[k].name # "printSuccess"

Boots == {"exit", "timeout"}
BootCommands == {"mount", "kexecLoad", "kexecExec"}
NeverBoots(s) == \A k \in 1 .. Len(s) : s[k].name \notin BootCommands

Typed(s) == s \in Seq(Commands) /\ EndsWithExec(s)

TypeInv ==
    /\ TypeOK
    /\ pc = "confirm" => option \in Options
    /\ EndsWithExec(script)
    /\ option \in Options \/ NoSuccess(script)

LEMMA NoCommands == <<>> \in Seq(Commands) /\ EndsWithExec(<<>>) /\ NoSuccess(<<>>)
  BY EmptySeq DEF EndsWithExec, NoSuccess

(* A script that comes back to the menu.                                   *)
LEMMA TypedWithoutExec ==
    ASSUME NEW s \in Seq(Commands), Len(s) > 0,
           \A k \in 1 .. Len(s) : s[k].name \notin BootCommands
    PROVE  Typed(s) /\ s # <<>>
  BY EmptySeq DEF Typed, EndsWithExec, BootCommands

(* Two commands that are not the boot's, and the success after them.       *)
LEMMA TypedThree ==
    ASSUME NEW c \in Commands, NEW d \in Commands,
           c.name \notin BootCommands, d.name \notin BootCommands
    PROVE  LET s == <<c, d>> \o Success
           IN  /\ s \in Seq(Commands) /\ Len(s) = 3
               /\ \A k \in 1 .. Len(s) : s[k].name \notin BootCommands
<1> DEFINE two == <<c, d>>
<1>1. two \in Seq(Commands) /\ Len(two) = 2 /\ two[1] = c /\ two[2] = d
  OBVIOUS
<1>2. Command("printSuccess", NoPart) \in Commands
  BY DEF Command, Commands, NoPart, Partitions, Items, FileSystems
<1>3. /\ Success \in Seq(Commands) /\ Len(Success) = 1
      /\ Success[1].name = "printSuccess"
  BY <1>2, CommandFields DEF Success
<1> HIDE DEF two
<1>4. /\ two \o Success \in Seq(Commands)
      /\ Len(two \o Success) = Len(two) + Len(Success)
      /\ \A k \in 1 .. Len(two) + Len(Success) : (two \o Success)[k] =
             IF k <= Len(two) THEN two[k] ELSE Success[k - Len(two)]
  BY <1>1, <1>3, ConcatProperties, Zenon
<1> QED
  <2> DEFINE s == two \o Success
  <2>1. s \in Seq(Commands) /\ Len(s) = 3 /\ s[1] = c /\ s[2] = d /\ s[3] = Success[1]
    BY <1>1, <1>3, <1>4
  <2> HIDE DEF s
  <2>2. \A k \in 1 .. Len(s) : s[k].name \notin BootCommands
    BY <1>3, <2>1 DEF BootCommands
  <2> QED
    BY <2>1, <2>2 DEF s, two

LEMMA TypedRestore ==
    ASSUME NEW from \in Partitions, NEW to \in Partitions
    PROVE  LET s == RestoreMtdPartition(from, to)
           IN  /\ s \in Seq(Commands) /\ Len(s) = 3
               /\ \A k \in 1 .. Len(s) : s[k].name \notin BootCommands
<1>1. Command("ddToTmp", from) \in Commands /\ Command("flashcp", to) \in Commands
  BY DEF Command, Commands
<1>2. /\ Command("ddToTmp", from).name \notin BootCommands
      /\ Command("flashcp", to).name \notin BootCommands
  BY CommandFields DEF BootCommands
<1> QED
  BY <1>1, <1>2, TypedThree, Zenon DEF RestoreMtdPartition

LEMMA ScriptsAreTyped ==
    ASSUME NEW o \in AllOptions \cup {"timeout"}
    PROVE  /\ Typed(ScriptOf(o)) /\ ScriptOf(o) # <<>>
           /\ o = "timeout" => NoSuccess(ScriptOf(o))
           /\ o \notin Boots => NeverBoots(ScriptOf(o))
<1> USE DEF Typed, EndsWithExec, NoSuccess, NeverBoots, Boots
<1>1. CASE o \in {"exit", "timeout"}
  <2>1. ScriptOf(o) = BootScript
    BY <1>1 DEF ScriptOf
  <2>2. /\ Command("mount", NoPart) \in Commands
        /\ Command("kexecLoad", NoPart) \in Commands
        /\ Command("kexecExec", NoPart) \in Commands
    BY DEF Command, Commands, NoPart, Partitions, Items, FileSystems
  <2> DEFINE s == BootScript
  <2>3. /\ s \in Seq(Commands) /\ Len(s) = 3
        /\ s[1].name = "mount" /\ s[2].name = "kexecLoad" /\ s[3].name = "kexecExec"
    BY <2>2, CommandFields DEF BootScript
  <2> HIDE DEF s
  <2>4. s # <<>> /\ EndsWithExec(s) /\ NoSuccess(s)
    BY <2>3, SMTT(60)
  <2> QED
    BY <1>1, <2>1, <2>3, <2>4 DEF s
<1>2. CASE o = "filesystems"
  <2> DEFINE c == Command("dd", <<"boot", "work">>)
             d == Command("dd", <<"root", "work">>)
  <2>1. c \in Commands /\ d \in Commands /\ c.name = "dd" /\ d.name = "dd"
    BY DEF Command, Commands, Partitions, Items, FileSystems
  <2>2. ScriptOf(o) = <<c, d>> \o Success
    BY <1>2 DEF ScriptOf, FileSystemsScript
  <2> HIDE DEF c, d
  <2>3. c.name \notin BootCommands /\ d.name \notin BootCommands
    BY <2>1 DEF BootCommands
  <2>4. /\ ScriptOf(o) \in Seq(Commands) /\ Len(ScriptOf(o)) = 3
        /\ \A k \in 1 .. Len(ScriptOf(o)) : ScriptOf(o)[k].name \notin BootCommands
    BY <2>1, <2>2, <2>3, TypedThree, ZenonT(60)
  <2>5. Len(ScriptOf(o)) > 0
    BY <2>4
  <2> HIDE DEF Typed
  <2>6. Typed(ScriptOf(o)) /\ ScriptOf(o) # <<>>
    BY <2>4, <2>5, TypedWithoutExec, Zenon
  <2> QED
    BY <1>2, <2>4, <2>6
<1>3. ASSUME NEW i \in Flashed
      PROVE  /\ RestoreItem(i) \in Seq(Commands) /\ Len(RestoreItem(i)) = 3
             /\ \A k \in 1 .. Len(RestoreItem(i)) : RestoreItem(i)[k].name \notin BootCommands
  <2>1. <<i, "backup">> \in Partitions /\ <<i, "work">> \in Partitions
    BY DEF Partitions, Items
  <2> QED
    BY <2>1, TypedRestore, Zenon DEF RestoreItem
<1>4. CASE o = "rescue"
  <2> DEFINE a == RestoreItem("kernel")
             b == RestoreItem("initrd")
  <2>1. ScriptOf(o) = a \o b
    BY <1>4 DEF ScriptOf, RescueScript
  <2>2. /\ a \in Seq(Commands) /\ Len(a) = 3
        /\ \A k \in 1 .. Len(a) : a[k].name \notin BootCommands
        /\ b \in Seq(Commands) /\ Len(b) = 3
        /\ \A k \in 1 .. Len(b) : b[k].name \notin BootCommands
    BY <1>3 DEF Flashed
  <2> HIDE DEF a, b
  <2>3. /\ a \o b \in Seq(Commands) /\ Len(a \o b) = Len(a) + Len(b)
        /\ \A k \in 1 .. Len(a) + Len(b) :
               (a \o b)[k] = IF k <= Len(a) THEN a[k] ELSE b[k - Len(a)]
    BY <2>2, ConcatProperties, Zenon
  <2> HIDE DEF BootCommands
  <2>4. \A k \in 1 .. Len(a \o b) : (a \o b)[k].name \notin BootCommands
    BY <2>2, <2>3
  <2>5. Len(a \o b) = 6
    BY <2>2, <2>3
  <2> DEFINE s == a \o b
  <2>6. s \in Seq(Commands) /\ Len(s) > 0 /\ \A k \in 1 .. Len(s) : s[k].name \notin BootCommands
    BY <2>2, <2>3, <2>4, <2>5
  <2> HIDE DEF Typed, s
  <2>7. Typed(s) /\ s # <<>>
    BY <2>6, TypedWithoutExec, Zenon
  <2> QED
    BY <1>4, <2>1, <2>6, <2>7 DEF s
<1>5. CASE o = "fpga"
  <2>1. <<"fpga", "backup">> \in Partitions
    BY DEF Partitions, Items, Flashed
  <2>2. ScriptOf(o) = RestoreMtdPartition(<<"fpga", "backup">>, <<"fpga", "backup">>)
    BY <1>5 DEF ScriptOf, FpgaScript
  <2>3. /\ ScriptOf(o) \in Seq(Commands) /\ Len(ScriptOf(o)) = 3
        /\ \A k \in 1 .. Len(ScriptOf(o)) : ScriptOf(o)[k].name \notin BootCommands
    BY <2>1, <2>2, TypedRestore, Zenon
  <2>4. Len(ScriptOf(o)) > 0
    BY <2>3
  <2> HIDE DEF Typed
  <2>5. Typed(ScriptOf(o)) /\ ScriptOf(o) # <<>>
    BY <2>3, <2>4, TypedWithoutExec, Zenon
  <2> QED
    BY <1>5, <2>3, <2>5
<1>6. CASE o \in Flashed \ {"fpga"}
  <2>1. ScriptOf(o) = RestoreItem(o) /\ o # "timeout"
    BY <1>6 DEF ScriptOf, Flashed
  <2>2. /\ ScriptOf(o) \in Seq(Commands) /\ Len(ScriptOf(o)) = 3
        /\ \A k \in 1 .. Len(ScriptOf(o)) : ScriptOf(o)[k].name \notin BootCommands
    BY <1>3, <1>6, <2>1
  <2>3. Len(ScriptOf(o)) > 0
    BY <2>2
  <2> HIDE DEF Typed
  <2>4. Typed(ScriptOf(o)) /\ ScriptOf(o) # <<>>
    BY <2>2, <2>3, TypedWithoutExec, Zenon
  <2> QED
    BY <2>1, <2>2, <2>4
<1> QED
  BY <1>1, <1>2, <1>4, <1>5, <1>6 DEF AllOptions, Flashed

LEMMA InitTypes == Init => TypeInv
<1> SUFFICES ASSUME Init PROVE TypeInv
  OBVIOUS
<1>1. IInv
  BY InitInv
<1>2. script = <<>> /\ script \in Seq(Commands) /\ EndsWithExec(script) /\ NoSuccess(script)
  BY NoCommands DEF Init
<1>3. /\ faults \in 0 .. MaxFaults /\ losses \in 0 .. MaxPowerLosses
      /\ choices \in 0 .. MaxChoices
  BY RescueAssumption DEF Init, RescueAssumption
<1> QED
  <2>1. /\ tmp \in Images /\ mounted \in BOOLEAN /\ loaded \in BOOLEAN
        /\ started \in BOOLEAN /\ seconds \in 0 .. 4 /\ pc = "wait"
        /\ option \in Options \cup {"none", "timeout"}
        /\ printed \in Options \cup {"none"} /\ input \in {"open", "ended"}
    <3>1. /\ mounted = FALSE /\ loaded = FALSE /\ started = FALSE /\ seconds = 4
          /\ pc = "wait" /\ option = "none" /\ printed = "none" /\ input = "open"
      BY DEF Init
    <3>2. tmp \in Images
      BY <1>1 DEF IInv
    <3>3. mounted \in BOOLEAN /\ loaded \in BOOLEAN /\ started \in BOOLEAN
      BY <3>1, Zenon
    <3> QED
      BY <3>1, <3>2, <3>3
  <2>2. content \in [Partitions -> Images] /\ ~(pc = "run") /\ script = <<>>
    BY <1>1, <1>2, <2>1 DEF IInv
  <2> QED
    BY <1>2, <1>3, <2>1, <2>2 DEF TypeInv, TypeOK, Commands

LEMMA NextTypes == TypeInv /\ [Next]_vars => TypeInv'
<1> SUFFICES ASSUME TypeInv, [Next]_vars PROVE TypeInv'
  OBVIOUS
<1> USE DEF media, outside
<1>0. "broken" \in Images /\ "empty" \in Images
  BY DEF Images, Other
<1>a. script \in Seq(Commands)
  BY DEF TypeInv, TypeOK, Commands
<1>1. CASE Keypress \/ WaitFails \/ Select \/ SelectFails \/ Decline
  <2>1. script = <<>> /\ script' = script
    BY <1>1 DEF Keypress, WaitFails, Select, SelectFails, Decline, TypeInv, TypeOK
  <2> QED
    BY <1>1, <2>1, RescueAssumption
       DEF Keypress, WaitFails, Select, SelectFails, Decline, TypeInv, TypeOK,
           EndsWithExec, NoSuccess, RescueAssumption
<1>2. CASE InputEnds \/ PowerOn \/ UNCHANGED vars
  BY <1>2 DEF InputEnds, PowerOn, vars, TypeInv, TypeOK, EndsWithExec, NoSuccess
<1>3. CASE Second
  <2>1. CASE seconds > 1
    BY <1>3, <2>1 DEF Second, TypeInv, TypeOK, EndsWithExec, NoSuccess
  <2>2. CASE ~(seconds > 1)
    <3>1. /\ script' = ScriptOf("timeout") /\ option' = "timeout" /\ pc' = "run"
          /\ seconds' = 0 /\ UNCHANGED <<media, started, printed, outside>>
      BY <1>3, <2>2 DEF Second
    <3>2. Typed(script') /\ script' # <<>> /\ NoSuccess(script')
      BY <3>1, ScriptsAreTyped
    <3> QED
      BY <3>1, <3>2 DEF TypeInv, TypeOK, Typed, Commands, EndsWithExec, NoSuccess
  <2> QED
    BY <2>1, <2>2
<1>4. CASE Confirm
  <2>1. option \in Options /\ option \in AllOptions /\ script' = ScriptOf(option)
    BY <1>4, RescueAssumption DEF Confirm, TypeInv, RescueAssumption
  <2>2. Typed(script') /\ script' # <<>>
    BY <2>1, ScriptsAreTyped
  <2> QED
    BY <1>4, <2>1, <2>2 DEF Confirm, TypeInv, TypeOK, Typed, Commands, EndsWithExec
<1>5. CASE StartCommand
  <2>1. script # <<>> /\ Head(script) \in Commands
    BY <1>5, <1>a, HeadTailProperties DEF StartCommand, TypeInv, TypeOK
  <2>2. Head(script).part \in Partitions
    BY <2>1 DEF Commands
  <2>3. content' \in [Partitions -> Images] /\ tmp' \in Images
    BY <1>0, <1>5, <2>2 DEF StartCommand, TypeInv, TypeOK
  <2> QED
    BY <1>5, <2>3 DEF StartCommand, TypeInv, TypeOK, EndsWithExec, NoSuccess
<1>6. CASE CommandSucceeds
  <2> DEFINE c == Head(script)
  <2>1. script # <<>> /\ pc = "run"
    BY <1>6 DEF CommandSucceeds, TypeInv, TypeOK
  <2>2. /\ c \in Commands /\ c = script[1] /\ Tail(script) \in Seq(Commands)
        /\ Len(Tail(script)) = Len(script) - 1 /\ Len(script) \in Nat \ {0}
        /\ \A k \in 1 .. Len(Tail(script)) : Tail(script)[k] = script[k + 1]
    BY <1>a, <2>1, HeadTailProperties, EmptySeq
  <2>3. /\ script' = Tail(script) /\ option' = option /\ started' = FALSE
        /\ UNCHANGED <<seconds, outside>>
    BY <1>6 DEF CommandSucceeds
  <2>4. content' \in [Partitions -> Images] /\ tmp' \in Images
    <3>1. /\ c.part \in Partitions /\ <<c.part[1], "backup">> \in Partitions
          /\ content \in [Partitions -> Images] /\ tmp \in Images
      BY <2>2 DEF Commands, Partitions, TypeInv, TypeOK
    <3> QED
      BY <1>6, <3>1 DEF CommandSucceeds
  <2>5. EndsWithExec(script')
    <3>1. \A k \in 1 .. Len(script') : k + 1 \in 1 .. Len(script)
      BY <2>2, <2>3
    <3>2. EndsWithExec(script) /\ Len(script') = Len(script) - 1
      BY <2>2, <2>3 DEF TypeInv
    <3>3. ASSUME NEW k \in 1 .. Len(script'), script'[k].name = "kexecExec"
          PROVE  k = Len(script')
      <4>1. script[k + 1].name = "kexecExec"
        BY <2>2, <2>3, <3>3
      <4>2. k + 1 = Len(script)
        BY <3>1, <3>2, <4>1 DEF EndsWithExec
      <4>3. k \in Int /\ Len(script) \in Int
        BY <2>2, <3>2
      <4> HIDE DEF c
      <4> QED
        BY <3>2, <4>2, <4>3
    <3> QED
      BY <3>3 DEF EndsWithExec
  <2>6. option' \in Options \/ NoSuccess(script')
    <3>1. CASE option \in Options
      BY <2>3, <3>1
    <3>2. CASE NoSuccess(script)
      <4>1. \A k \in 1 .. Len(script') : k + 1 \in 1 .. Len(script)
        BY <2>2, <2>3
      <4> QED
        BY <2>2, <2>3, <3>2, <4>1 DEF NoSuccess
    <3> QED
      BY <3>1, <3>2 DEF TypeInv
  <2>7. printed' \in Options \cup {"none"}
    <3>0. 1 \in 1 .. Len(script) /\ script[1] = c
      BY <2>2
    <3>1. c.name = "printSuccess" => option \in Options
      BY <3>0 DEF TypeInv, NoSuccess
    <3> QED
      BY <1>6, <3>1 DEF CommandSucceeds, TypeInv, TypeOK
  <2>8. pc' = "run" <=> script' # <<>>
    <3>1. CASE c.name = "kexecExec"
      <4>0. 1 \in 1 .. Len(script) /\ script[1].name = "kexecExec"
        BY <2>2, <3>1
      <4>1. Len(script) = 1
        BY <4>0 DEF TypeInv, EndsWithExec
      <4>2. script' = <<>>
        BY <2>2, <2>3, <4>1, EmptySeq
      <4> QED
        BY <1>6, <3>1, <4>2 DEF CommandSucceeds
    <3>2. CASE c.name # "kexecExec"
      BY <1>6, <2>3, <3>2 DEF CommandSucceeds, Back
    <3> QED
      BY <3>1, <3>2
  <2>9. /\ mounted' \in BOOLEAN /\ loaded' \in BOOLEAN
        /\ pc' \in {"booted", "run", "exited", "menu"}
    BY <1>6 DEF CommandSucceeds, Back
  <2> QED
    BY <2>2, <2>3, <2>4, <2>5, <2>6, <2>7, <2>8, <2>9 DEF TypeInv, TypeOK, Commands
<1>7. CASE CommandFails
  <2>1. faults' \in 0 .. MaxFaults
    BY <1>7, RescueAssumption DEF CommandFails, TypeInv, TypeOK, RescueAssumption
  <2>2. script' = <<>> /\ pc' \in {"exited", "menu"} /\ started' = FALSE
    BY <1>7 DEF CommandFails, Back
  <2>3. script' \in Seq(Commands) /\ EndsWithExec(script') /\ NoSuccess(script')
    BY <2>2, NoCommands
  <2>4. UNCHANGED <<content, tmp, mounted, loaded, seconds, option, printed,
                    input, losses, choices>>
    BY <1>7 DEF CommandFails
  <2> QED
    BY <2>1, <2>2, <2>3, <2>4 DEF TypeInv, TypeOK, Commands
<1>8. CASE PowerLoss
  <2>1. losses' \in 0 .. MaxPowerLosses
    BY <1>8, RescueAssumption DEF PowerLoss, TypeInv, TypeOK, RescueAssumption
  <2>2. script' \in Seq(Commands) /\ EndsWithExec(script') /\ NoSuccess(script')
    BY <1>8, NoCommands DEF PowerLoss
  <2> QED
    BY <1>0, <1>8, <2>1, <2>2 DEF PowerLoss, TypeInv, TypeOK, Commands
<1> QED
  BY <1>1, <1>2, <1>3, <1>4, <1>5, <1>6, <1>7, <1>8 DEF Next, Program

(* Types hold with any options: a script lasts exactly as long as the      *)
(* program runs it, and only an option of the menu reports a success.      *)
THEOREM Types == Spec => []TypeOK
<1>1. TypeInv => TypeOK
  BY DEF TypeInv
<1> QED
  BY <1>1, InitTypes, NextTypes, PTL DEF Spec
-----------------------------------------------------------------------------
(* What the messages say.  Nothing that a success was printed for is       *)
(* written again before the next option is confirmed.                      *)

Stays(i) ==
    /\ content[<<i, "work">>] = i
    /\ pc = "run" => \A k \in 1 .. Len(script) : ~Writes(script[k], i)

PrintedInv == \A i \in DueFirst(printed) : Stays(i)

SuccessIsMostlyTrue ==
    pc = "menu" => \A i \in DueFirst(printed) : content[<<i, "work">>] = i

LEMMA NothingDue == DueFirst("none") = {} /\ Due("timeout") = {}
  BY DEF DueFirst, Due, Restores, Flashed

LEMMA NextPrinted == IInv /\ OrderInv /\ PrintedInv /\ [Next]_vars => PrintedInv'
<1> SUFFICES ASSUME IInv, OrderInv, PrintedInv, [Next]_vars,
                    NEW i \in DueFirst(printed')
             PROVE  Stays(i)'
  BY DEF PrintedInv
<1> USE DEF media, outside
<1>0. i \in Items
  BY RestoresItems
<1>1. CASE \/ Keypress \/ WaitFails \/ Select \/ SelectFails \/ Decline
           \/ InputEnds \/ PowerOn \/ UNCHANGED vars
  <2>1. UNCHANGED <<content, script, printed>> /\ (pc' = "run" => pc = "run")
    BY <1>1 DEF Keypress, WaitFails, Select, SelectFails, Decline, InputEnds,
                PowerOn, vars
  <2> QED
    BY <2>1 DEF PrintedInv, Stays
<1>2. CASE Second
  <2>1. UNCHANGED <<content, printed>>
    BY <1>2 DEF Second
  <2>2. CASE seconds > 1
    BY <1>2, <2>1, <2>2 DEF Second, PrintedInv, Stays
  <2>3. CASE ~(seconds > 1)
    <3>1. script' = ScriptOf("timeout")
      BY <1>2, <2>3 DEF Second
    <3>2. \A k \in 1 .. Len(script') : ~Writes(script'[k], i)
      BY <1>0, <3>1, ScriptsAreProper, NothingDue DEF Proper, WritesOnly
    <3> QED
      BY <2>1, <3>2 DEF PrintedInv, Stays
  <2> QED
    BY <2>2, <2>3
<1>3. CASE Confirm \/ PowerLoss
  <2>1. printed' = "none"
    BY <1>3 DEF Confirm, PowerLoss
  <2> QED
    BY <2>1, NothingDue
<1>4. CASE StartCommand
  <2>1. UNCHANGED <<pc, script, printed>> /\ pc = "run"
    BY <1>4 DEF StartCommand
  <2>2. Stays(i) /\ ~Writes(Head(script), i)
    BY <2>1, FirstCommand DEF PrintedInv, Stays
  <2>3. content'[<<i, "work">>] = content[<<i, "work">>]
    BY <1>0, <1>4, <2>2, StartedWrites
  <2> QED
    BY <2>1, <2>2, <2>3 DEF Stays
<1>5. CASE CommandSucceeds
  <2> DEFINE c == Head(script)
  <2>1. pc = "run" /\ script' = Tail(script)
    BY <1>5 DEF CommandSucceeds
  <2>2. /\ c = script[1] /\ 1 \in 1 .. Len(script)
        /\ \A k \in 1 .. Len(script') :
              k + 1 \in 1 .. Len(script) /\ script'[k] = script[k + 1]
    BY <2>1, FirstCommand
  <2>3. ~Writes(c, i) => content'[<<i, "work">>] = content[<<i, "work">>]
    BY <1>0, <1>5, SucceededWrites
  <2>4. CASE c.name = "printSuccess"
    <3>1. i \in DueFirst(option) /\ i \in Due(option) /\ ~Writes(c, i)
      BY <1>5, <2>4, RestoresItems DEF CommandSucceeds, Writes
    <3>2. \A k \in 1 .. Len(script) : ~Writes(script[k], i)
      <4>1. \A k \in 1 .. Len(script) : k = 1 \/ 1 < k
        BY FirstCommand, <2>1
      <4> HIDE DEF c
      <4> QED
        BY <2>1, <2>2, <2>4, <3>1, <4>1 DEF OrderInv, SuccessLast
    <3>3. content[<<i, "work">>] = i
      BY <2>1, <3>1, <3>2 DEF OrderInv
    <3> HIDE DEF c
    <3> QED
      BY <2>2, <2>3, <3>1, <3>2, <3>3 DEF Stays
  <2>5. CASE c.name # "printSuccess"
    <3>1. printed' = printed
      BY <1>5, <2>5 DEF CommandSucceeds
    <3>2. content[<<i, "work">>] = i /\ \A k \in 1 .. Len(script) : ~Writes(script[k], i)
      BY <2>1, <3>1 DEF PrintedInv, Stays
    <3> HIDE DEF c
    <3> QED
      BY <2>2, <2>3, <3>2 DEF Stays
  <2> QED
    BY <2>4, <2>5
<1>6. CASE CommandFails
  <2>1. UNCHANGED <<content, printed>> /\ pc' # "run"
    BY <1>6 DEF CommandFails, Back
  <2> QED
    BY <2>1 DEF PrintedInv, Stays
<1> QED
  BY <1>1, <1>2, <1>3, <1>4, <1>5, <1>6 DEF Next, Program

(* "Operation completed successfully" is true of all but two items, with   *)
(* any options and whatever fails: the FPGA, which is not written at all,  *)
(* and the initrd, which is written after the message of the kernel        *)
(* (do_interactive_restore_rescue()).                                      *)
THEOREM SuccessSaysSo == Spec => []SuccessIsMostlyTrue
<1>1. Init => PrintedInv
  BY NothingDue DEF Init, PrintedInv
<1>2. PrintedInv => SuccessIsMostlyTrue
  BY DEF PrintedInv, Stays, SuccessIsMostlyTrue
<1> QED
  BY <1>1, <1>2, InitInv, NextInv, InitOrder, NextOrder, NextPrinted, PTL DEF Spec

(* So the message can be relied on where neither the FPGA's option nor the *)
(* rescue system's is used.                                                *)
THEOREM SuccessElsewhere ==
    ASSUME Options \cap {"fpga", "rescue"} = {} PROVE Spec => []SuccessIsTrue
<1>1. TypeOK /\ SuccessIsMostlyTrue => SuccessIsTrue
  <2> SUFFICES ASSUME TypeOK, SuccessIsMostlyTrue PROVE SuccessIsTrue
    OBVIOUS
  <2>1. printed \in AllOptions \cup {"none"} /\ printed \notin {"fpga", "rescue"}
    BY RescueAssumption DEF TypeOK, RescueAssumption
  <2>2. Restores(printed) = DueFirst(printed)
    BY <2>1 DEF AllOptions, DueFirst, Due, Restores, Flashed, FileSystems
  <2> QED
    BY <2>2 DEF SuccessIsMostlyTrue, SuccessIsTrue
<1> QED
  BY <1>1, SuccessSaysSo, Types, PTL
-----------------------------------------------------------------------------
(* How a script ends.  A boot is what is left of BootScript, with what the *)
(* commands before achieved; no other script mounts or boots anything.     *)

BootLeft ==
    /\ Len(script) \in 1 .. 3
    /\ \A k \in 1 .. Len(script) : script[k] = BootScript[k + 3 - Len(script)]
    /\ Len(script) < 3 => mounted
    /\ Len(script) < 2 =>
          loaded /\ content[<<"boot", "work">>] \in {"boot", "changed"}

ScriptInv ==
    pc = "run" => IF option \in Boots THEN BootLeft ELSE NeverBoots(script)

Disturbed == faults' > faults \/ losses' > losses

\* A script that is not a boot's ends with its work done, unless disturbed.
RestoreStops ==
    [][pc = "run" /\ option \notin Boots /\ pc' # "run" =>
          Disturbed \/ \A i \in Due(option) : content'[<<i, "work">>] = i]_vars

BootStops ==
    [][pc = "run" /\ option \in Boots /\ pc' # "run" =>
          \/ Disturbed
          \/ pc' = "booted"
          \/ Len(script) = 3 /\ mounted
          \/ content[<<"boot", "work">>] \notin {"boot", "changed"}]_vars

BootsWhole ==
    [][pc' = "booted" => content[<<"boot", "work">>] \in {"boot", "changed"}]_vars

LEMMA BootShape ==
    /\ Len(BootScript) = 3
    /\ BootScript[1].name = "mount" /\ BootScript[2].name = "kexecLoad"
    /\ BootScript[3].name = "kexecExec"
  BY CommandFields DEF BootScript

\* The first command of a boot, by how many are left.
LEMMA BootHead ==
    ASSUME TypeInv, BootLeft, script # <<>>
    PROVE  /\ Len(script) = 3 => Head(script).name = "mount"
           /\ Len(script) = 2 => Head(script).name = "kexecLoad"
           /\ Len(script) = 1 => Head(script).name = "kexecExec"
<1>1. 1 \in 1 .. Len(script) /\ Head(script) = script[1]
  BY HeadTailProperties DEF BootLeft, TypeInv, TypeOK
<1>2. script[1] = BootScript[1 + 3 - Len(script)] /\ Len(script) \in 1 .. 3
  BY <1>1 DEF BootLeft
<1> DEFINE left == Len(script)
<1>3. /\ Len(script) = 3 => script[1] = BootScript[1]
      /\ Len(script) = 2 => script[1] = BootScript[2]
      /\ Len(script) = 1 => script[1] = BootScript[3]
  <2>1. left \in 1 .. 3 /\ script[1] = BootScript[1 + 3 - left]
    BY <1>2
  <2> HIDE DEF left
  <2>2. /\ left = 3 => script[1] = BootScript[1]
        /\ left = 2 => script[1] = BootScript[2]
        /\ left = 1 => script[1] = BootScript[3]
    BY <2>1
  <2> QED
    BY <2>2 DEF left
<1> QED
  BY <1>1, <1>3, BootShape

\* What is left of a script once its first command is done.
LEMMA TailOfScript ==
    ASSUME TypeInv, pc = "run"
    PROVE  /\ script # <<>> /\ Head(script) = script[1]
           /\ Len(script) \in Nat \ {0} /\ 1 \in 1 .. Len(script)
           /\ Len(Tail(script)) = Len(script) - 1
           /\ \A k \in 1 .. Len(Tail(script)) :
                 k + 1 \in 1 .. Len(script) /\ Tail(script)[k] = script[k + 1]
<1>1. script # <<>> /\ script \in Seq(Commands)
  BY DEF TypeInv, TypeOK, Commands
<1>2. /\ Head(script) = script[1] /\ Len(script) \in Nat \ {0}
      /\ Len(Tail(script)) = Len(script) - 1
      /\ \A k \in 1 .. Len(Tail(script)) : Tail(script)[k] = script[k + 1]
  BY <1>1, HeadTailProperties, EmptySeq
<1>3. 1 \in 1 .. Len(script)
  BY <1>2
<1>4. \A k \in 1 .. Len(Tail(script)) : k + 1 \in 1 .. Len(script)
  BY <1>2
<1> QED
  BY <1>1, <1>2, <1>3, <1>4

LEMMA BeginsProper ==
    ASSUME TypeInv, NEW o \in AllOptions \cup {"timeout"}, option' = o,
           script' = ScriptOf(o)
    PROVE  ScriptInv'
<1>1. CASE o \in Boots
  <2>1. script' = BootScript
    BY <1>1 DEF ScriptOf, Boots
  <2>2. Len(script') = 3 /\ \A k \in 1 .. Len(script') : k + 3 - Len(script') = k
    BY <2>1, BootShape
  <2>3. BootLeft'
    BY <2>1, <2>2 DEF BootLeft
  <2> QED
    BY <1>1, <2>3 DEF ScriptInv
<1>2. CASE o \notin Boots
  BY <1>2, ScriptsAreTyped DEF ScriptInv, NeverBoots
<1> QED
  BY <1>1, <1>2

LEMMA NextScript == IInv /\ TypeInv /\ ScriptInv /\ [Next]_vars => ScriptInv'
<1> SUFFICES ASSUME IInv, TypeInv, ScriptInv, [Next]_vars PROVE ScriptInv'
  OBVIOUS
<1> USE DEF media, outside
<1>1. CASE \/ Keypress \/ WaitFails \/ Select \/ SelectFails \/ Decline
           \/ InputEnds \/ PowerOn \/ CommandFails \/ PowerLoss \/ UNCHANGED vars
  <2>1. \/ pc' # "run"
        \/ UNCHANGED <<pc, option, script, mounted, loaded, content>>
    BY <1>1 DEF Keypress, WaitFails, Select, SelectFails, Decline, InputEnds,
                PowerOn, CommandFails, Back, PowerLoss, vars
  <2> QED
    BY <2>1 DEF ScriptInv, BootLeft, NeverBoots
<1>2. CASE Second
  <2>1. pc' # "run" \/ (option' = "timeout" /\ script' = ScriptOf("timeout"))
    BY <1>2 DEF Second
  <2> QED
    BY <2>1, BeginsProper DEF ScriptInv
<1>3. CASE Confirm
  <2>1. option \in AllOptions /\ option' = option /\ script' = ScriptOf(option)
    BY <1>3, RescueAssumption DEF Confirm, TypeInv, RescueAssumption
  <2> QED
    BY <2>1, BeginsProper
<1>4. CASE StartCommand
  <2>1. pc = "run" /\ UNCHANGED <<pc, option, script, mounted, loaded>>
    BY <1>4 DEF StartCommand
  <2>2. CASE option \in Boots
    <3>1. BootLeft /\ script # <<>> /\ Len(script) \in 1 .. 3
      BY <2>1, <2>2, TailOfScript DEF ScriptInv, BootLeft
    <3>2. Head(script).name \notin {"dd", "flashcp"}
      BY <3>1, BootHead
    <3>3. content' = content
      BY <1>4, <3>2 DEF StartCommand
    <3> QED
      BY <2>1, <2>2, <3>1, <3>3 DEF ScriptInv, BootLeft
  <2>3. CASE option \notin Boots
    BY <2>1, <2>3 DEF ScriptInv, NeverBoots
  <2> QED
    BY <2>2, <2>3
<1>5. CASE CommandSucceeds
  <2>1. pc = "run" /\ script' = Tail(script) /\ option' = option
    BY <1>5 DEF CommandSucceeds
  <2>2. /\ Len(script') = Len(script) - 1 /\ Len(script) \in Nat \ {0}
        /\ \A k \in 1 .. Len(script') :
              k + 1 \in 1 .. Len(script) /\ script'[k] = script[k + 1]
    BY <2>1, TailOfScript
  <2>3. CASE option \in Boots
    <3>1. BootLeft /\ script # <<>> /\ Len(script) \in 1 .. 3
      BY <2>1, <2>3, TailOfScript DEF ScriptInv, BootLeft
    <3>2. /\ Len(script) = 3 => Head(script).name = "mount"
          /\ Len(script) = 2 => Head(script).name = "kexecLoad"
          /\ Len(script) = 1 => Head(script).name = "kexecExec"
      BY <3>1, BootHead
    <3>3. CASE Len(script) = 1
      BY <1>5, <2>1, <3>2, <3>3 DEF CommandSucceeds, ScriptInv
    <3>4. CASE Len(script) = 3
      <4>1. mounted'
        BY <1>5, <3>2, <3>4 DEF CommandSucceeds
      <4>2. \A k \in 1 .. Len(script') : script'[k] = BootScript[k + 3 - Len(script')]
        <5> SUFFICES ASSUME NEW k \in 1 .. Len(script')
                     PROVE  script'[k] = BootScript[k + 3 - Len(script')]
          OBVIOUS
        <5>1. script'[k] = BootScript[(k + 1) + 3 - Len(script)]
          BY <2>2, <3>1 DEF BootLeft
        <5>2. (k + 1) + 3 - Len(script) = k + 3 - Len(script')
          BY <2>2
        <5> QED
          BY <5>1, <5>2
      <4>3. Len(script') = 2
        BY <2>2, <3>4
      <4>4. BootLeft'
        BY <4>1, <4>2, <4>3 DEF BootLeft
      <4> QED
        BY <2>1, <2>3, <4>4 DEF ScriptInv
    <3>5. CASE Len(script) = 2
      <4>1. /\ mounted /\ mounted' /\ loaded' /\ content' = content
            /\ content[<<"boot", "work">>] \in {"boot", "changed"}
        BY <1>5, <3>1, <3>2, <3>5 DEF CommandSucceeds, CanSucceed, BootLeft
      <4>2. \A k \in 1 .. Len(script') : script'[k] = BootScript[k + 3 - Len(script')]
        <5> SUFFICES ASSUME NEW k \in 1 .. Len(script')
                     PROVE  script'[k] = BootScript[k + 3 - Len(script')]
          OBVIOUS
        <5>1. script'[k] = BootScript[(k + 1) + 3 - Len(script)]
          BY <2>2, <3>1 DEF BootLeft
        <5>2. (k + 1) + 3 - Len(script) = k + 3 - Len(script')
          BY <2>2
        <5> QED
          BY <5>1, <5>2
      <4>3. Len(script') = 1
        BY <2>2, <3>5
      <4>4. BootLeft'
        BY <4>1, <4>2, <4>3 DEF BootLeft
      <4> QED
        BY <2>1, <2>3, <4>4 DEF ScriptInv
    <3> QED
      BY <3>1, <3>3, <3>4, <3>5
  <2>4. CASE option \notin Boots
    BY <2>1, <2>2, <2>4 DEF ScriptInv, NeverBoots
  <2> QED
    BY <2>3, <2>4
<1> QED
  BY <1>1, <1>2, <1>3, <1>4, <1>5 DEF Next, Program

LEMMA NeverStopsTheRest ==
    ASSUME TypeInv, ScriptInv, pc = "run", option \notin Boots
    PROVE  CanSucceed(Head(script)) /\ Head(script).name # "kexecExec"
<1>1. Head(script).name \notin BootCommands
  BY TailOfScript DEF ScriptInv, NeverBoots
<1> QED
  BY <1>1 DEF CanSucceed, BootCommands

(* A restore is carried through, whatever failed before it and whatever    *)
(* the partitions hold: only a command that fails by itself or a loss of   *)
(* power ends it with less than it is to restore.                          *)
THEOREM RestoresCarriedThrough == Spec => RestoreStops
<1>1. ASSUME IInv, OrderInv, TypeInv, ScriptInv, [Next]_vars,
             pc = "run", option \notin Boots, pc' # "run"
      PROVE  Disturbed \/ \A i \in Due(option) : content'[<<i, "work">>] = i
  <2>0. faults \in Nat /\ losses \in Nat
    BY <1>1 DEF TypeInv, TypeOK
  <2>1. CASE CommandSucceeds
    <3>1. script # <<>> /\ Tail(script) = <<>>
      BY <1>1, <2>1, NeverStopsTheRest, TailOfScript DEF CommandSucceeds
    <3>2. Len(script) = 1
      <4>1. Len(Tail(script)) = Len(script) - 1 /\ Len(script) \in Nat
        BY <1>1, TailOfScript
      <4>2. Len(Tail(script)) = 0
        BY <3>1, EmptySeq
      <4> QED
        BY <4>1, <4>2
    <3> QED
      BY <1>1, <2>1, <3>2, LastCommand
  <2>2. CASE CommandFails
    <3>1. CanSucceed(Head(script))
      BY <1>1, NeverStopsTheRest
    <3>2. faults' = faults + 1
      BY <2>2, <3>1 DEF CommandFails
    <3> QED
      BY <2>0, <3>2 DEF Disturbed
  <2>3. CASE PowerLoss
    BY <2>0, <2>3 DEF PowerLoss, Disturbed
  <2>4. ASSUME \/ Keypress \/ Second \/ WaitFails \/ Select \/ SelectFails
               \/ Confirm \/ Decline \/ StartCommand \/ InputEnds \/ PowerOn
               \/ UNCHANGED vars
        PROVE  FALSE
    BY <1>1, <2>4 DEF Keypress, Second, WaitFails, Select, SelectFails, Confirm,
                      Decline, StartCommand, InputEnds, PowerOn, vars
  <2> QED
    BY <1>1, <2>1, <2>2, <2>3, <2>4 DEF Next, Program
<1>2. Init => ScriptInv
  BY DEF Init, ScriptInv
<1> QED
  BY <1>1, <1>2, InitInv, NextInv, InitOrder, NextOrder, InitTypes, NextTypes,
     NextScript, PTL DEF Spec, RestoreStops

(* A boot, chosen or not, boots.  All that keeps it from that is a command *)
(* that fails by itself, a loss of power, a boot filesystem that holds no  *)
(* kernel to load, or, at its first command only, that an earlier boot     *)
(* left the filesystem mounted (do_boot() unmounts nothing).               *)
THEOREM BootsCarriedThrough == Spec => BootStops
<1>1. ASSUME TypeInv, ScriptInv, [Next]_vars,
             pc = "run", option \in Boots, pc' # "run", pc' # "booted",
             content[<<"boot", "work">>] \in {"boot", "changed"},
             ~(Len(script) = 3 /\ mounted)
      PROVE  Disturbed
  <2>0. faults \in Nat /\ losses \in Nat
    BY <1>1 DEF TypeInv, TypeOK
  <2>a. BootLeft /\ script # <<>> /\ Len(script) \in 1 .. 3
    BY <1>1, TailOfScript DEF ScriptInv, BootLeft
  <2>b. /\ Len(script) = 3 => Head(script).name = "mount"
        /\ Len(script) = 2 => Head(script).name = "kexecLoad"
        /\ Len(script) = 1 => Head(script).name = "kexecExec"
    BY <1>1, <2>a, BootHead
  <2>1. ~CommandSucceeds
    <3> SUFFICES ASSUME CommandSucceeds PROVE FALSE
      OBVIOUS
    <3>1. Head(script).name # "kexecExec" /\ Tail(script) = <<>>
      BY <1>1 DEF CommandSucceeds
    <3>2. Len(script) = 1
      <4>1. Len(Tail(script)) = Len(script) - 1 /\ Len(script) \in Nat
        BY <1>1, TailOfScript
      <4>2. Len(Tail(script)) = 0
        BY <3>1, EmptySeq
      <4> QED
        BY <4>1, <4>2
    <3> QED
      BY <2>b, <3>1, <3>2
  <2>2. CASE CommandFails
    <3>1. CanSucceed(Head(script))
      <4>1. CASE Len(script) = 3
        BY <1>1, <2>b, <4>1 DEF CanSucceed
      <4>2. CASE Len(script) = 2
        BY <1>1, <2>a, <2>b, <4>2 DEF CanSucceed, BootLeft
      <4>3. CASE Len(script) = 1
        BY <1>1, <2>a, <2>b, <4>3 DEF CanSucceed, BootLeft
      <4> QED
        BY <2>a, <4>1, <4>2, <4>3
    <3>2. faults' = faults + 1
      BY <2>2, <3>1 DEF CommandFails
    <3> QED
      BY <2>0, <3>2 DEF Disturbed
  <2>3. CASE PowerLoss
    BY <2>0, <2>3 DEF PowerLoss, Disturbed
  <2>4. ASSUME \/ Keypress \/ Second \/ WaitFails \/ Select \/ SelectFails
               \/ Confirm \/ Decline \/ StartCommand \/ InputEnds \/ PowerOn
               \/ UNCHANGED vars
        PROVE  FALSE
    BY <1>1, <2>4 DEF Keypress, Second, WaitFails, Select, SelectFails, Confirm,
                      Decline, StartCommand, InputEnds, PowerOn, vars
  <2> QED
    BY <1>1, <2>1, <2>2, <2>3, <2>4 DEF Next, Program
<1>2. Init => ScriptInv
  BY DEF Init, ScriptInv
<1>3. TypeInv /\ ScriptInv /\ [Next]_vars =>
         (pc = "run" /\ option \in Boots /\ pc' # "run" =>
            \/ Disturbed
            \/ pc' = "booted"
            \/ Len(script) = 3 /\ mounted
            \/ content[<<"boot", "work">>] \notin {"boot", "changed"})
  BY <1>1
<1> QED
  BY <1>2, <1>3, InitInv, NextInv, InitTypes, NextTypes, NextScript, PTL
     DEF Spec, BootStops

(* The system that is booted was loaded from a boot filesystem that is     *)
(* whole: nothing that a failed restore left there is ever booted, and     *)
(* not a kernel loaded by an earlier boot either (do_boot() mounts and     *)
(* loads before it executes).                                              *)
THEOREM BootsAreWhole == Spec => BootsWhole
<1>1. ASSUME TypeInv, ScriptInv, [Next]_vars, pc' = "booted", vars' # vars
      PROVE  content[<<"boot", "work">>] \in {"boot", "changed"}
  <2>1. ASSUME \/ Keypress \/ Second \/ WaitFails \/ Select \/ SelectFails
               \/ Confirm \/ Decline \/ StartCommand \/ CommandFails
               \/ InputEnds \/ PowerLoss \/ PowerOn
        PROVE  FALSE
    BY <1>1, <2>1 DEF Keypress, Second, WaitFails, Select, SelectFails, Confirm,
                      Decline, StartCommand, CommandFails, Back, InputEnds,
                      PowerLoss, PowerOn, media, outside
  <2>2. CommandSucceeds
    BY <1>1, <2>1 DEF Next, Program
  <2>3. pc = "run" /\ Head(script).name = "kexecExec"
    BY <1>1, <2>2 DEF CommandSucceeds, Back
  <2>4. option \in Boots
    BY <1>1, <2>3, NeverStopsTheRest
  <2>5. BootLeft /\ script # <<>> /\ Len(script) \in 1 .. 3
    BY <1>1, <2>3, <2>4, TailOfScript DEF ScriptInv, BootLeft
  <2>6. Len(script) = 1
    BY <1>1, <2>3, <2>5, BootHead
  <2> QED
    BY <2>5, <2>6 DEF BootLeft
<1>2. Init => ScriptInv
  BY DEF Init, ScriptInv
<1>3. TypeInv /\ ScriptInv /\ [Next]_vars =>
         [pc' = "booted" => content[<<"boot", "work">>] \in {"boot", "changed"}]_vars
  BY <1>1
<1> QED
  BY <1>2, <1>3, InitInv, NextInv, InitTypes, NextTypes, NextScript, PTL
     DEF Spec, BootsWhole
=============================================================================
