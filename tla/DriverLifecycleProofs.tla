------------------------ MODULE DriverLifecycleProofs ------------------------
(***************************************************************************)
(* Who holds what, for any number of devices, ports, minor numbers and     *)
(* files: whatever step fails and whatever is bound and unbound meanwhile, *)
(* the drivers release what they hold and nothing else, and every probe,   *)
(* every remove and the end of the module run out of steps.                *)
(***************************************************************************)
EXTENDS DriverLifecycle, TLAPS

\* The scripts by position: the step that obtains a thing, the step that sets
\* its note, the step that releases it.  Never is behind every script.
Never == 9

ProbePos(k) ==
    IF driver = "keypad"
    THEN CASE k = "port" -> 1 [] k = "input" -> 2 [] k = "address" -> 3
           [] k = "region" -> 4 [] k = "mapping" -> 5 [] k = "irq" -> 6
           [] OTHER -> Never
    ELSE CASE k = "port" -> 1 [] k = "minor" -> 2 [] k = "node" -> 3
           [] k = "address" -> 4 [] k = "region" -> 5 [] k = "mapping" -> 6
           [] k = "cdev" -> 7 [] OTHER -> Never
ProbeLen == IF driver = "keypad" THEN 6 ELSE 7

NotePos(k) == IF k = "region" THEN ProbePos("address")
              ELSE IF k = "irq" THEN Never ELSE ProbePos(k)

RemovePos(k) ==
    IF driver = "keypad"
    THEN CASE k = "irq" -> 1 [] k = "mapping" -> 2 [] k = "region" -> 3
           [] k = "input" -> 4 [] k = "port" -> 5 [] OTHER -> Never
    ELSE CASE k = "cdev" -> 1 [] k = "mapping" -> 2 [] k = "region" -> 3
           [] k = "node" -> 4 [] k = "minor" -> 5 [] k = "port" -> 6
           [] OTHER -> Never
RemoveLen == IF driver = "keypad" THEN 5 ELSE 6

-----------------------------------------------------------------------------
\* What the notes of a port say when its probe has come to step n.
Marks(p, n) ==
    \A k \in Kinds :
        IF NotePos(k) < n
        THEN port[p].note[k] = "ok" \/ (k = "mapping" /\ port[p].note[k] = "err")
        ELSE port[p].note[k] = "null"

Owns(d) == drvdata[d] \in Ports /\ Live(drvdata[d])

\* No port of the device is cut off.
Alone(d) == \A p \in Ports : Live(p) /\ port[p].device = d => p = drvdata[d]

\* What is so of a device, by what the driver core runs on it.
Resting(d) ==
    /\ d \notin bound => drvdata[d] = 0
    /\ d \in bound => drvdata[d] # 0 /\ (Live(drvdata[d]) => Marks(drvdata[d], 8))

Probing(d) ==
    /\ d \notin bound
    /\ task[d].at <= ProbeLen + 1
    /\ IF task[d].at = 1 THEN drvdata[d] = 0
       ELSE Owns(d) /\ Marks(drvdata[d], task[d].at)

Undoing(d) ==
    /\ d \notin bound
    /\ Owns(d)
    /\ task[d].at <= RemoveLen
    /\ port[drvdata[d]].note["cdev"] = "null"
    /\ driver # "keypad" =>
          /\ port[drvdata[d]].note["minor"] # "null"
          /\ port[drvdata[d]].note["node"] = "null" =>
                \A k \in {"region", "mapping"} : port[drvdata[d]].note[k] = "null"

BeingRemoved(d) ==
    /\ d \in bound
    /\ Owns(d)
    /\ task[d].at <= RemoveLen
    /\ Marks(drvdata[d], 8)
    /\ ended[drvdata[d]] # "no"
    /\ Alone(d)

Stuck(d) == d \notin bound /\ Owns(d) /\ port[drvdata[d]].note["cdev"] = "null"

DeviceInv(d) ==
    /\ drvdata[d] # 0 =>
          port[drvdata[d]].device = d /\ port[drvdata[d]].state # "unborn"
    /\ task[d].run = "none" => Resting(d)
    /\ task[d].run = "probe" => Probing(d)
    /\ task[d].run = "undo" => Undoing(d)
    /\ task[d].run = "remove" => BeingRemoved(d)
    /\ task[d].run = "oops" => Stuck(d)

\* What the driver core has still to do with a thing the port notes.
Pending(p, k) ==
    LET d == port[p].device
    IN  /\ Removing(d) => task[d].at <= RemovePos(k)
        /\ k = "region" => ~(task[d].run = "probe" /\ task[d].at = ProbePos("region"))

PortInv(p) ==
    /\ Live(p) => port[p].device \in Devices
    /\ Live(p) /\ ~Attached(p) =>
          port[p].note["region"] = "ok" /\ port[p].note["cdev"] = "null"
    /\ driver = "keypad" =>
          \A k \in {"minor", "node", "cdev"} : port[p].note[k] = "null"
    /\ driver # "keypad" => port[p].note["input"] = "null"
    /\ port[p].state = "unborn" => ended[p] = "no"
    /\ \A k \in Kinds \ {"irq"} :
          Holds(p, k) <=>
              Live(p) /\ port[p].note[k] = "ok" /\ (Attached(p) => Pending(p, k))
    /\ Holds(p, "irq") /\ ended[p] = "no" =>
          /\ Attached(p)
          /\ port[p].note["mapping"] # "null"
          /\ LET t == task[port[p].device]
             IN  t.run = "none" \/ (t.run = "probe" /\ t.at > ProbeLen)

FileInv(u) ==
    file[u] # 0 =>
        \/ ended[file[u]] = "unbind"
        \/ /\ Live(file[u])
           /\ port[file[u]].note["cdev"] = "ok"
           /\ port[file[u]].note["mapping"] # "null"

Quiet == bound = {} /\ \A d \in Devices : task[d].run = "none"

ModuleInv ==
    /\ module \in {"out", "loading", "gone"} => Quiet
    /\ module = "out" => statics = <<>>
    /\ module = "loading" => Len(statics) < Len(InitScript[driver])
    /\ module = "live" \/ ~Quiet => Len(statics) = Len(InitScript[driver])
    /\ module \in {"unloading", "gone"} => \A u \in Users : file[u] = 0
    /\ \A p \in Ports : ended[p] = "unload" => module \in {"unloading", "gone"}

Ownership ==
    /\ TypeOK
    /\ \A d \in Devices : DeviceInv(d)
    /\ \A p \in Ports : PortInv(p)
    /\ OneOwner /\ NodesHaveNumbers
    /\ \A u \in Users : FileInv(u)
    /\ ModuleInv

-----------------------------------------------------------------------------
(* The scripts are what the positions say. *)

LEMMA ProbeSteps ==
    ASSUME driver \in Drivers
    PROVE  /\ Len(ProbeScript[driver]) = ProbeLen
           /\ \A i \in 1 .. ProbeLen, k \in Kinds \cup {"port", "address"} :
                 ProbeScript[driver][i] = k <=> i = ProbePos(k)
<1> DEFINE s == ProbeScript[driver]
<1>1. CASE driver \in {"gpio", "timer"}
  <2>1. s = <<"port", "minor", "node", "address", "region", "mapping", "cdev">>
    BY <1>1 DEF ProbeScript, GpioProbe, TimerProbe
  <2>2. /\ Len(s) = 7 /\ s[1] = "port" /\ s[2] = "minor" /\ s[3] = "node"
        /\ s[4] = "address" /\ s[5] = "region" /\ s[6] = "mapping" /\ s[7] = "cdev"
    BY <2>1
  <2> HIDE DEF s
  <2>3. ProbeLen = 7
    BY <1>1 DEF ProbeLen
  <2>4. \A i \in 1 .. 7 : i = 1 \/ i = 2 \/ i = 3 \/ i = 4 \/ i = 5 \/ i = 6 \/ i = 7
    OBVIOUS
  <2>5. SUFFICES ASSUME NEW i \in 1 .. 7, NEW k \in Kinds \cup {"port", "address"}
                 PROVE  s[i] = k <=> i = ProbePos(k)
    BY <2>2, <2>3 DEF s
  <2>6. /\ 1 = ProbePos(k) <=> k = "port"
        /\ 2 = ProbePos(k) <=> k = "minor"
        /\ 3 = ProbePos(k) <=> k = "node"
        /\ 4 = ProbePos(k) <=> k = "address"
        /\ 5 = ProbePos(k) <=> k = "region"
        /\ 6 = ProbePos(k) <=> k = "mapping"
        /\ 7 = ProbePos(k) <=> k = "cdev"
    <3>1. ProbePos(k) = CASE k = "port" -> 1 [] k = "minor" -> 2 [] k = "node" -> 3
                          [] k = "address" -> 4 [] k = "region" -> 5
                          [] k = "mapping" -> 6 [] k = "cdev" -> 7 [] OTHER -> 9
      BY <1>1 DEF ProbePos, Never
    <3>2. CASE k \in {"port", "minor", "node", "address"}
      BY <3>1, <3>2
    <3>3. CASE k \in {"region", "mapping", "cdev"}
      BY <3>1, <3>3
    <3>4. CASE k \in {"input", "irq"}
      BY <3>1, <3>4
    <3> QED
      BY <3>2, <3>3, <3>4 DEF Kinds
  <2> QED
    BY <2>2, <2>4, <2>6
<1>2. CASE driver = "keypad"
  <2>1. s = <<"port", "input", "address", "region", "mapping", "irq">>
    BY <1>2 DEF ProbeScript, KeypadProbe
  <2>2. /\ Len(s) = 6 /\ s[1] = "port" /\ s[2] = "input" /\ s[3] = "address"
        /\ s[4] = "region" /\ s[5] = "mapping" /\ s[6] = "irq"
    BY <2>1
  <2> HIDE DEF s
  <2>3. ProbeLen = 6
    BY <1>2 DEF ProbeLen
  <2>4. \A i \in 1 .. 6 : i = 1 \/ i = 2 \/ i = 3 \/ i = 4 \/ i = 5 \/ i = 6
    OBVIOUS
  <2>5. SUFFICES ASSUME NEW i \in 1 .. 6, NEW k \in Kinds \cup {"port", "address"}
                 PROVE  s[i] = k <=> i = ProbePos(k)
    BY <2>2, <2>3 DEF s
  <2> QED
    BY <1>2, <2>2, <2>4 DEF ProbePos, Kinds, Never
<1> QED
  BY <1>1, <1>2 DEF Drivers

LEMMA RemoveSteps ==
    ASSUME driver \in Drivers
    PROVE  /\ \A i \in 1 .. RemoveLen : RemoveScript[driver][i] \in Kinds \cup {"port"}
           /\ \A i \in 1 .. RemoveLen, k \in Kinds \cup {"port"} :
                 RemoveScript[driver][i] = k <=> i = RemovePos(k)
<1>1. CASE driver = "gpio"
  BY <1>1 DEF RemoveScript, GpioRemove, RemoveLen, RemovePos, Kinds, Never
<1>2. CASE driver = "timer"
  BY <1>2 DEF RemoveScript, TimerRemove, RemoveLen, RemovePos, Kinds, Never
<1>3. CASE driver = "keypad"
  BY <1>3 DEF RemoveScript, KeypadRemove, RemoveLen, RemovePos, Kinds, Never
<1> QED
  BY <1>1, <1>2, <1>3 DEF Drivers

LEMMA ProbeAtPos ==
    ASSUME TypeOK, NEW d \in Devices, NEW k \in Kinds \cup {"port", "address"},
           ProbeAt(d, k)
    PROVE  /\ task[d].run = "probe" /\ task[d].at = ProbePos(k)
           /\ ProbePos(k) \in 1 .. ProbeLen
<1>1. driver \in Drivers /\ task[d].at \in 1 .. 8
  BY DEF TypeOK
<1>2. Len(ProbeScript[driver]) = ProbeLen /\ ProbeLen \in Nat
  BY <1>1, ProbeSteps DEF ProbeLen
<1> QED
  BY <1>1, <1>2, ProbeSteps DEF ProbeAt

LEMMA RemoveAtPos ==
    ASSUME TypeOK, NEW d \in Devices, task[d].at <= RemoveLen
    PROVE  /\ RemoveAt(d) \in Kinds \cup {"port"}
           /\ \A k \in Kinds \cup {"port"} : RemoveAt(d) = k <=> task[d].at = RemovePos(k)
           /\ \A k \in Kinds : Passed(RemoveScript, d, k) <=> RemovePos(k) < task[d].at
<1>1. driver \in Drivers /\ task[d].at \in 1 .. RemoveLen /\ RemoveLen \in Nat
  BY SMTT(60) DEF TypeOK, RemoveLen
<1>2. \A k : RemovePos(k) \in 1 .. 9
  BY DEF RemovePos, Never
<1>3. \A i \in 1 .. task[d].at - 1 : i \in 1 .. RemoveLen
  BY <1>1
<1>4. ASSUME NEW k \in Kinds
      PROVE  Passed(RemoveScript, d, k) <=> RemovePos(k) < task[d].at
  <2>1. \A i \in 1 .. RemoveLen : RemoveScript[driver][i] = k <=> i = RemovePos(k)
    BY <1>1, RemoveSteps
  <2> QED
    BY <1>1, <1>2, <1>3, <2>1 DEF Passed
<1> QED
  BY <1>1, <1>4, RemoveSteps DEF RemoveAt

(* The part of the invariant of the model that is about one port. *)
LEMMA BooksOfPorts ==
    ASSUME Ownership PROVE IInv
<1>1. Attachment
  <2>1. \A d \in Devices : /\ DeviceInv(d)
                           /\ task[d].run \in {"none", "probe", "undo", "remove", "oops"}
    BY DEF Ownership, TypeOK
  <2>2. 0 \notin Ports
    BY DEF Ports
  <2> QED
    BY <2>1, <2>2 DEF Attachment, DeviceInv, Resting, Probing, Undoing, BeingRemoved,
                      Stuck, Owns, Removing
<1>2. Books
  <2> SUFFICES ASSUME NEW p \in Ports, NEW k \in Kinds \ {"irq"}
               PROVE  Holds(p, k) <=>
                        /\ Live(p)
                        /\ port[p].note[k] = "ok"
                        /\ Attached(p) =>
                              LET d == port[p].device
                              IN  /\ Removing(d) => ~Passed(RemoveScript, d, k)
                                  /\ k = "region" => ~ProbeAt(d, "region")
    BY DEF Books
  <2>1. PortInv(p) /\ TypeOK /\ driver \in Drivers
    BY DEF Ownership, TypeOK
  <2>2. CASE Attached(p)
    <3> DEFINE d == port[p].device
    <3>1. d \in Devices /\ Live(p)
      BY <2>1, <2>2 DEF PortInv, Attached
    <3>2. DeviceInv(d) /\ task[d].at \in 1 .. 8
      BY <3>1 DEF Ownership, TypeOK
    <3>3. Removing(d) => task[d].at <= RemoveLen
      BY <3>2 DEF DeviceInv, Removing, Undoing, BeingRemoved
    <3>4. Removing(d) => (Passed(RemoveScript, d, k) <=> RemovePos(k) < task[d].at)
      BY <2>1, <3>1, <3>3, RemoveAtPos
    <3>5. RemovePos(k) \in Int
      BY DEF RemovePos, Never
    <3>6. ProbeAt(d, "region") <=>
              task[d].run = "probe" /\ task[d].at = ProbePos("region")
      <4>1. "region" \in Kinds /\ ProbePos("region") \in 1 .. ProbeLen
        BY DEF Kinds, ProbePos, ProbeLen
      <4> QED
        BY <2>1, <3>2, <4>1, ProbeSteps, SMTT(60) DEF ProbeAt
    <3>7. Holds(p, k) <=> Live(p) /\ port[p].note[k] = "ok" /\ Pending(p, k)
      BY <2>1, <2>2 DEF PortInv
    <3>8. Pending(p, k) <=> /\ Removing(d) => ~Passed(RemoveScript, d, k)
                            /\ k = "region" => ~ProbeAt(d, "region")
      BY <3>2, <3>4, <3>5, <3>6 DEF Pending
    <3> QED
      BY <2>2, <3>7, <3>8
  <2>3. CASE ~Attached(p)
    BY <2>1, <2>3 DEF PortInv
  <2> QED
    BY <2>2, <2>3
<1> QED
  BY <1>1, <1>2 DEF Ownership, IInv

-----------------------------------------------------------------------------
(* What a step on one device leaves alone. *)

LEMMA DeviceKept ==
    ASSUME NEW e \in Devices, DeviceInv(e), driver' = driver,
           drvdata'[e] = drvdata[e], task'[e] = task[e], e \in bound' <=> e \in bound,
           drvdata[e] # 0 => /\ port'[drvdata[e]] = port[drvdata[e]]
                             /\ ended'[drvdata[e]] = ended[drvdata[e]],
           \A q \in Ports : Live(q)' /\ port'[q].device = e
                                => Live(q) /\ port[q].device = e
    PROVE  DeviceInv(e)'
<1> DEFINE p == drvdata[e]
<1>1. p # 0 => \A n : Marks(p, n) <=> Marks(p, n)'
  BY DEF Marks, NotePos, ProbePos
<1>2. p # 0 => (Owns(e) <=> Owns(e)') /\ (Live(p) <=> Live(p)')
  BY DEF Owns, Live
<1>3. 0 \notin Ports
  BY DEF Ports
<1>4. Owns(e) => p # 0
  BY <1>3 DEF Owns
<1>5. Resting(e) => Resting(e)'
  BY <1>1, <1>2 DEF Resting
<1>6. Probing(e) => Probing(e)'
  BY <1>1, <1>2, <1>4 DEF Probing, ProbeLen
<1>7. Undoing(e) => Undoing(e)'
  BY <1>2, <1>4 DEF Undoing, RemoveLen
<1>8. Alone(e) => Alone(e)'
  BY DEF Alone
<1>9. BeingRemoved(e) => BeingRemoved(e)'
  BY <1>1, <1>2, <1>4, <1>8 DEF BeingRemoved, RemoveLen
<1>10. Stuck(e) => Stuck(e)'
  BY <1>2, <1>4 DEF Stuck
<1> QED
  BY <1>5, <1>6, <1>7, <1>9, <1>10 DEF DeviceInv

LEMMA PortKept ==
    ASSUME NEW q \in Ports, PortInv(q), driver' = driver,
           port'[q] = port[q], ended'[q] = ended[q],
           \A k : <<k, Key(k, q), q>> \in held' <=> <<k, Key(k, q), q>> \in held,
           Live(q) => (drvdata'[port[q].device] = q <=> drvdata[port[q].device] = q),
           Attached(q) => task'[port[q].device] = task[port[q].device]
    PROVE  PortInv(q)'
<1>1. \A k : Key(k, q)' = Key(k, q)
  BY DEF Key
<1>2. \A k : Holds(q, k)' <=> Holds(q, k)
  BY <1>1 DEF Holds
<1>3. Live(q)' <=> Live(q)
  BY DEF Live
<1>4. Attached(q)' <=> Attached(q)
  BY <1>3 DEF Attached
<1>5. Attached(q) => \A k : Pending(q, k)' <=> Pending(q, k)
  BY DEF Pending, Removing, RemovePos, ProbePos
<1> QED
  BY <1>2, <1>3, <1>4, <1>5 DEF PortInv, ProbeLen

LEMMA Frame ==
    ASSUME Ownership, NEW d \in Devices, NEW p \in 0 .. MaxPorts,
           \/ p = drvdata[d]
           \/ drvdata[d] = 0 /\ p \in Ports /\ port[p].state = "unborn",
           driver' = driver,
           \A e \in Devices \ {d} : /\ drvdata'[e] = drvdata[e]
                                    /\ task'[e] = task[e]
                                    /\ e \in bound' <=> e \in bound,
           drvdata'[d] \in {0, p},
           \A q \in Ports \ {p} : port'[q] = port[q] /\ ended'[q] = ended[q],
           p \in Ports => port'[p].device = d,
           \A k, x, q : q # p => (<<k, x, q>> \in held' <=> <<k, x, q>> \in held)
    PROVE  /\ \A e \in Devices \ {d} : DeviceInv(e)'
           /\ \A q \in Ports \ {p} : PortInv(q)'
<1>0. /\ \A e \in Devices : DeviceInv(e) /\ drvdata[e] \in 0 .. MaxPorts
      /\ \A q \in Ports : PortInv(q)
      /\ \A x : x \in Ports <=> x \in 0 .. MaxPorts /\ x # 0
  <2>1. TypeOK /\ (\A e \in Devices : DeviceInv(e)) /\ (\A q \in Ports : PortInv(q))
    BY DEF Ownership
  <2>2. \A e \in Devices : drvdata[e] \in 0 .. MaxPorts
    BY <2>1 DEF TypeOK
  <2>3. \A x : x \in Ports <=> x \in 0 .. MaxPorts /\ x # 0
    BY LifecycleAssumption DEF Ports, LifecycleAssumption
  <2> QED
    BY <2>1, <2>2, <2>3
<1>1. ASSUME NEW e \in Devices \ {d} PROVE DeviceInv(e)'
  <2>1. drvdata[e] # 0 => drvdata[e] # p
    <3>1. drvdata[e] # 0 => /\ port[drvdata[e]].device = e
                            /\ port[drvdata[e]].state # "unborn"
      BY <1>0 DEF DeviceInv
    <3>2. drvdata[d] # 0 => port[drvdata[d]].device = d
      BY <1>0 DEF DeviceInv
    <3> QED
      BY <1>1, <3>1, <3>2
  <2>2. drvdata[e] # 0 => /\ port'[drvdata[e]] = port[drvdata[e]]
                          /\ ended'[drvdata[e]] = ended[drvdata[e]]
    BY <1>0, <1>1, <2>1
  <2>3. \A q \in Ports : Live(q)' /\ port'[q].device = e
                            => Live(q) /\ port[q].device = e
    BY <1>1 DEF Live
  <2> QED
    BY <1>0, <1>1, <2>2, <2>3, DeviceKept
<1>2. ASSUME NEW q \in Ports \ {p} PROVE PortInv(q)'
  <2>1. port'[q] = port[q] /\ ended'[q] = ended[q] /\ PortInv(q) /\ q # 0
    BY <1>0, <1>2
  <2>2. \A k : <<k, Key(k, q), q>> \in held' <=> <<k, Key(k, q), q>> \in held
    BY <1>2
  <2>3. drvdata[d] # q /\ drvdata'[d] # q
    BY <1>2, <2>1
  <2>4. Live(q) => port[q].device \in Devices
    BY <2>1 DEF PortInv
  <2>5. Live(q) => (drvdata'[port[q].device] = q <=> drvdata[port[q].device] = q)
    BY <2>3, <2>4
  <2>6. Attached(q) => task'[port[q].device] = task[port[q].device]
    BY <2>3, <2>4 DEF Attached
  <2> QED
    BY <1>2, <2>1, <2>2, <2>5, <2>6, PortKept
<1> QED
  BY <1>1, <1>2

LEMMA ModuleKept ==
    ASSUME ModuleInv, ~Quiet \/ module = "live", UNCHANGED <<moduleVars, file>>,
           \A p \in Ports : ended'[p] = "unload" =>
                ended[p] = "unload" \/ module \in {"unloading", "gone"}
    PROVE  ModuleInv'
  BY DEF ModuleInv, moduleVars

LEMMA HeldKept ==
    ASSUME OneOwner, NodesHaveNumbers, held' = held,
           \A t \in held : Key(t[1], t[3])' = Key(t[1], t[3])
    PROVE  OneOwner' /\ NodesHaveNumbers'
  BY DEF OneOwner, NodesHaveNumbers

(* What is known of the device a step is about. *)
LEMMA OneDevice ==
    ASSUME Ownership, NEW d \in Devices
    PROVE  /\ TypeOK /\ DeviceInv(d) /\ driver \in Drivers
           /\ task[d] \in [run : {"none", "probe", "undo", "remove", "oops"},
                           at : 1 .. 8, misread : BOOLEAN]
           /\ drvdata[d] \in 0 .. MaxPorts /\ (drvdata[d] # 0 <=> drvdata[d] \in Ports)
           /\ drvdata[d] \in Ports =>
                 /\ PortInv(drvdata[d])
                 /\ port[drvdata[d]].device = d
                 /\ (Attached(drvdata[d]) <=> Live(drvdata[d]))
<1>1. TypeOK /\ DeviceInv(d)
  BY DEF Ownership
<1>2. drvdata[d] \in 0 .. MaxPorts /\ (drvdata[d] # 0 <=> drvdata[d] \in Ports)
  BY <1>1, LifecycleAssumption DEF TypeOK, Ports, LifecycleAssumption
<1>3. /\ driver \in Drivers
      /\ task[d] \in [run : {"none", "probe", "undo", "remove", "oops"},
                      at : 1 .. 8, misread : BOOLEAN]
  BY <1>1 DEF TypeOK
<1>4. drvdata[d] \in Ports => PortInv(drvdata[d]) /\ port[drvdata[d]].device = d
  BY <1>1, <1>2 DEF Ownership, DeviceInv
<1>5. drvdata[d] \in Ports => (Attached(drvdata[d]) <=> Live(drvdata[d]))
  BY <1>4 DEF Attached
<1> QED
  BY <1>1, <1>2, <1>3, <1>4, <1>5

LEMMA MarksAll ==
    ASSUME NEW p, Marks(p, ProbeLen + 1) PROVE Marks(p, 8)
<1>1. \A k \in Kinds : NotePos(k) < ProbeLen + 1 <=> NotePos(k) < 8
  BY DEF NotePos, ProbePos, ProbeLen, Never, Kinds
<1> QED
  BY <1>1 DEF Marks

-----------------------------------------------------------------------------
(* The steps that leave the ports as they are. *)

LEMMA NothingMoves ==
    ASSUME Ownership, UNCHANGED <<driver, bound, task, portVars, ended>>
    PROVE  /\ \A d \in Devices : DeviceInv(d)'
           /\ \A p \in Ports : PortInv(p)'
           /\ OneOwner' /\ NodesHaveNumbers'
<1>1. /\ driver' = driver /\ bound' = bound /\ task' = task /\ ended' = ended
      /\ drvdata' = drvdata /\ port' = port /\ held' = held
  BY DEF portVars
<1>2. ASSUME NEW d \in Devices PROVE DeviceInv(d)'
  <2>1. DeviceInv(d)
    BY DEF Ownership
  <2>2. \A q \in Ports : Live(q)' => Live(q)
    BY <1>1 DEF Live
  <2> QED
    BY <1>1, <2>1, <2>2, DeviceKept
<1>3. ASSUME NEW p \in Ports PROVE PortInv(p)'
  <2>1. PortInv(p)
    BY DEF Ownership
  <2> QED
    BY <1>1, <2>1, PortKept
<1>4. \A t \in held : Key(t[1], t[3])' = Key(t[1], t[3])
  BY <1>1 DEF Key
<1>5. OneOwner' /\ NodesHaveNumbers'
  BY <1>1, <1>4, HeldKept DEF Ownership
<1> QED
  BY <1>2, <1>3, <1>5

LEMMA Scripts ==
    ASSUME driver \in Drivers
    PROVE  /\ InitScript[driver] \in {<<"class", "numbers", "driver">>, <<"driver">>}
           /\ driver # "keypad" => InitScript[driver] = <<"class", "numbers", "driver">>
  BY DEF Drivers, InitScript, GpioInit, TimerInit, KeypadInit

(* A script of one or three steps, cut off anywhere. *)
LEMMA Prefixes ==
    ASSUME NEW s \in {<<"class", "numbers", "driver">>, <<"driver">>}, NEW x,
           \E n \in 0 .. Len(s) : x = SubSeq(s, 1, n)
    PROVE  /\ Len(x) \in 0 .. Len(s)
           /\ x = SubSeq(s, 1, Len(x))
           /\ Len(x) < Len(s) => Append(x, s[Len(x) + 1]) = SubSeq(s, 1, Len(x) + 1)
           /\ Len(x) < Len(s) => (s[Len(x) + 1] = "driver" <=> Len(x) + 1 = Len(s))
           /\ x # <<>> => SubSeq(x, 1, Len(x) - 1) = SubSeq(s, 1, Len(x) - 1)
           /\ <<>> = SubSeq(s, 1, 0)
           /\ Len(x) = 0 <=> x = <<>>
<1>1. PICK n \in 0 .. Len(s) : x = SubSeq(s, 1, n)
  OBVIOUS
<1>2. CASE s = <<"driver">>
  <2>1. n = 0 \/ n = 1
    BY <1>1, <1>2
  <2> QED
    BY <1>1, <1>2, <2>1
<1>3. CASE s = <<"class", "numbers", "driver">>
  <2>1. n = 0 \/ n = 1 \/ n = 2 \/ n = 3
    BY <1>1, <1>3
  <2> QED
    BY <1>1, <1>3, <2>1
<1> QED
  BY <1>2, <1>3

LEMMA ModuleSteps ==
    ASSUME Ownership, Load \/ LoadStep \/ LoadFails \/ Unload \/ UnloadStep
    PROVE  Ownership'
<1>1. UNCHANGED <<driver, bound, task, portVars, file, ended, broken>>
  BY DEF Load, LoadStep, LoadFails, Unload, UnloadStep
<1> DEFINE s == InitScript[driver]
<1>2. TypeOK /\ driver \in Drivers /\ \E n \in 0 .. Len(s) : statics = SubSeq(s, 1, n)
  BY DEF Ownership, TypeOK
<1>3. s \in {<<"class", "numbers", "driver">>, <<"driver">>} /\ Len(s) \in {1, 3}
  BY <1>2, Scripts
<1> HIDE DEF s
<1>4. /\ Len(statics) \in 0 .. Len(s)
      /\ Len(statics) < Len(s) =>
            Append(statics, s[Len(statics) + 1]) = SubSeq(s, 1, Len(statics) + 1)
      /\ Len(statics) < Len(s) =>
            (s[Len(statics) + 1] = "driver" <=> Len(statics) + 1 = Len(s))
      /\ statics # <<>> =>
            SubSeq(statics, 1, Len(statics) - 1) = SubSeq(s, 1, Len(statics) - 1)
      /\ <<>> = SubSeq(s, 1, 0)
      /\ Len(statics) = 0 <=> statics = <<>>
  BY <1>2, <1>3, Prefixes, ZenonT(60)
<1>5. ModuleInv
  BY DEF Ownership
<1>6. Quiet' <=> Quiet
  BY <1>1 DEF Quiet
<1>7. /\ (\E n \in 0 .. Len(s) : statics' = SubSeq(s, 1, n))
      /\ module' \in {"out", "loading", "live", "unloading", "gone"}
      /\ ModuleInv'
  <2>1. CASE Load
    <3>1. statics = <<>> /\ statics' = statics /\ module' = "loading" /\ Quiet
      BY <1>5, <2>1 DEF Load, ModuleInv
    <3>2. Len(statics') < Len(s)
      BY <1>3, <1>4, <3>1
    <3>3. \A p \in Ports : ended'[p] # "unload"
      BY <1>1, <1>5, <2>1 DEF Load, ModuleInv
    <3>4. ModuleInv'
      BY <1>1, <1>6, <3>1, <3>2, <3>3 DEF ModuleInv, s
    <3> QED
      BY <1>2, <3>1, <3>4
  <2>2. CASE LoadStep
    <3>1. Len(statics) < Len(s) /\ Quiet
      BY <1>5, <2>2 DEF LoadStep, ModuleInv, s
    <3>2. /\ statics' = Append(statics, s[Len(statics) + 1])
          /\ module' = IF s[Len(statics) + 1] = "driver" THEN "live" ELSE "loading"
      BY <2>2 DEF LoadStep, s
    <3>3. statics' = SubSeq(s, 1, Len(statics) + 1) /\ Len(statics') = Len(statics) + 1
      BY <1>3, <1>4, <3>1, <3>2
    <3>4. \A p \in Ports : ended'[p] # "unload"
      BY <1>1, <1>5, <2>2 DEF LoadStep, ModuleInv
    <3>5. ModuleInv'
      BY <1>1, <1>3, <1>4, <1>6, <3>1, <3>2, <3>3, <3>4 DEF ModuleInv, s
    <3> QED
      BY <1>3, <1>4, <3>1, <3>2, <3>3, <3>5
  <2>3. CASE LoadFails
    BY <1>1, <1>3, <1>4, <1>5, <1>6, <2>3 DEF LoadFails, ModuleInv, s
  <2>4. CASE Unload
    BY <1>1, <1>2, <1>5, <1>6, <2>4 DEF Unload, Pinned, ModuleInv, s
  <2>5. CASE UnloadStep
    <3>1. Quiet /\ module = "unloading"
      BY <2>5 DEF UnloadStep, Quiet
    <3>2. \A u \in Users : file'[u] = 0
      BY <1>1, <1>5, <3>1 DEF ModuleInv
    <3>3. CASE statics = <<>>
      BY <1>1, <1>2, <1>6, <2>5, <3>1, <3>2, <3>3 DEF UnloadStep, ModuleInv, s
    <3>4. CASE statics # <<>>
      <4>1. statics' = SubSeq(s, 1, Len(statics) - 1) /\ module' = module
        BY <1>4, <2>5, <3>4 DEF UnloadStep
      <4>2. Len(statics) - 1 \in 0 .. Len(s)
        BY <1>3, <1>4, <3>4
      <4> QED
        BY <1>1, <1>6, <3>1, <3>2, <4>1, <4>2 DEF ModuleInv
    <3> QED
      BY <3>3, <3>4
  <2> QED
    BY <2>1, <2>2, <2>3, <2>4, <2>5
<1>8. TypeOK'
  BY <1>1, <1>2, <1>7 DEF TypeOK, portVars, s
<1>9. \A u \in Users : FileInv(u)'
  BY <1>1 DEF Ownership, FileInv, Live, portVars
<1> QED
  BY <1>1, <1>7, <1>8, <1>9, NothingMoves DEF Ownership

LEMMA FileSteps ==
    ASSUME Ownership, NEW u \in Users, Open(u) \/ Close(u)
    PROVE  Ownership'
<1>1. UNCHANGED <<moduleVars, bound, task, portVars, ended, broken>>
  BY DEF Open, Close
<1>2. TypeOK /\ FileInv(u) /\ ModuleInv /\ (\A v \in Users : FileInv(v))
  BY DEF Ownership
<1>3. CASE Open(u)
  <2>1. PICK p \in Ports : Holds(p, "cdev") /\ file' = [file EXCEPT ![u] = p]
    BY <1>3 DEF Open, Holds
  <2>2. PortInv(p)
    BY DEF Ownership
  <2>3. Live(p) /\ port[p].note["cdev"] = "ok"
    BY <2>1, <2>2 DEF PortInv, Kinds
  <2>4. Attached(p)
    BY <2>2, <2>3 DEF PortInv
  <2> DEFINE d == port[p].device
  <2>5. d \in Devices /\ drvdata[d] = p
    BY <2>2, <2>3, <2>4 DEF PortInv, Attached
  <2>6. \E n \in 1 .. 8 : Marks(p, n)
    <3>1. /\ DeviceInv(d) /\ task[d].at \in 1 .. 8 /\ p # 0
          /\ task[d].run \in {"none", "probe", "undo", "remove", "oops"}
      BY <2>1, <2>5, OneDevice
    <3>2. task[d].run \notin {"undo", "oops"}
      BY <2>3, <2>5, <3>1 DEF DeviceInv, Undoing, Stuck
    <3>3. CASE task[d].run \in {"none", "remove"}
      <4>1. Marks(p, 8)
        BY <2>3, <2>5, <3>1, <3>3 DEF DeviceInv, Resting, BeingRemoved
      <4> QED
        BY <4>1
    <3>4. CASE task[d].run = "probe"
      <4>1. Marks(p, task[d].at)
        BY <2>3, <2>5, <3>1, <3>4 DEF DeviceInv, Probing
      <4> QED
        BY <3>1, <4>1
    <3> QED
      BY <3>1, <3>2, <3>3, <3>4
  <2>7. port[p].note["mapping"] # "null"
    <3>0. driver # "keypad"
      BY <2>2, <2>3 DEF PortInv
    <3>1. NotePos("cdev") = 7 /\ NotePos("mapping") = 6
      BY <3>0 DEF NotePos, ProbePos
    <3>2. PICK n \in 1 .. 8 : Marks(p, n)
      BY <2>6
    <3>3. 7 < n
      BY <2>3, <3>1, <3>2 DEF Marks, Kinds
    <3> QED
      BY <3>1, <3>2, <3>3 DEF Marks, Kinds
  <2>8. FileInv(u)'
    BY <1>1, <1>2, <2>1, <2>3, <2>7 DEF FileInv, Live, portVars, TypeOK
  <2>9. \A v \in Users : FileInv(v)'
    BY <1>1, <1>2, <2>1, <2>8 DEF FileInv, Live, portVars, TypeOK
  <2>10. ModuleInv'
    BY <1>1, <1>2, <1>3 DEF Open, ModuleInv, Quiet, moduleVars
  <2>11. p \in 0 .. MaxPorts
    BY LifecycleAssumption DEF Ports, LifecycleAssumption
  <2>12. TypeOK'
    BY <1>1, <1>2, <2>1, <2>11 DEF TypeOK, portVars, moduleVars
  <2> QED
    BY <1>1, <2>9, <2>10, <2>12, NothingMoves DEF Ownership, moduleVars
<1>4. CASE Close(u)
  <2>1. file' = [file EXCEPT ![u] = 0] /\ 0 \in 0 .. MaxPorts
    BY <1>4, LifecycleAssumption DEF Close, LifecycleAssumption
  <2>2. \A v \in Users : FileInv(v)'
    BY <1>1, <1>2, <2>1 DEF FileInv, Live, portVars, TypeOK
  <2>3. ModuleInv'
    BY <1>1, <1>2, <2>1 DEF ModuleInv, Quiet, moduleVars, TypeOK
  <2>4. TypeOK'
    BY <1>1, <1>2, <2>1 DEF TypeOK, portVars, moduleVars
  <2> QED
    BY <1>1, <2>2, <2>3, <2>4, NothingMoves DEF Ownership, moduleVars
<1> QED
  BY <1>3, <1>4

LEMMA Unchanged ==
    ASSUME Ownership, UNCHANGED <<moduleVars, bound, task, portVars, file, ended>>,
           broken' \in BOOLEAN
    PROVE  Ownership'
<1>1. TypeOK'
  BY DEF Ownership, TypeOK, portVars, moduleVars
<1>2. \A u \in Users : FileInv(u)'
  BY DEF Ownership, FileInv, Live, portVars
<1>3. ModuleInv'
  BY DEF Ownership, ModuleInv, Quiet, moduleVars
<1> QED
  BY <1>1, <1>2, <1>3, NothingMoves DEF Ownership, moduleVars

-----------------------------------------------------------------------------
(* The steps of the driver core around the scripts. *)

(* A step that changes nothing but the task of a device and whether it is  *)
(* bound.  What is left to show is about this device and its port.         *)
LEMMA TaskStep ==
    ASSUME Ownership, NEW d \in Devices, NEW p \in 0 .. MaxPorts, p = drvdata[d],
           NEW t, task' = [task EXCEPT ![d] = t],
           t \in [run : {"none", "probe", "undo", "remove", "oops"},
                  at : 1 .. 8, misread : BOOLEAN],
           bound' = bound \/ bound' = bound \cup {d},
           UNCHANGED <<moduleVars, portVars, file, ended, broken>>,
           task[d].run # "none" \/ d \in bound \/ module = "live",
           DeviceInv(d)', p \in Ports => PortInv(p)'
    PROVE  Ownership'
<1>1. /\ driver' = driver /\ drvdata' = drvdata /\ port' = port /\ held' = held
      /\ ended' = ended
  BY DEF moduleVars, portVars
<1>2. /\ TypeOK /\ p \in 0 .. MaxPorts
      /\ p \in Ports => port[p].device = d
  BY OneDevice
<1>3. \A e \in Devices \ {d} : /\ drvdata'[e] = drvdata[e] /\ task'[e] = task[e]
                               /\ e \in bound' <=> e \in bound
  BY <1>1, <1>2 DEF TypeOK
<1>4. /\ \A e \in Devices \ {d} : DeviceInv(e)'
      /\ \A q \in Ports \ {p} : PortInv(q)'
  BY <1>1, <1>2, <1>3, Frame
<1>5. OneOwner' /\ NodesHaveNumbers'
  <2>1. \A u \in held : Key(u[1], u[3])' = Key(u[1], u[3])
    BY <1>1 DEF Key
  <2> QED
    BY <1>1, <2>1, HeldKept DEF Ownership
<1>6. TypeOK'
  BY <1>2 DEF TypeOK, moduleVars, portVars
<1>7. \A u \in Users : FileInv(u)'
  BY <1>1 DEF Ownership, FileInv, Live
<1>8. ModuleInv'
  BY ModuleKept DEF Ownership, Quiet
<1> QED
  BY <1>4, <1>5, <1>6, <1>7, <1>8 DEF Ownership

LEMMA IdleTask ==
    /\ Idle \in [run : {"none", "probe", "undo", "remove", "oops"},
                 at : 1 .. 8, misread : BOOLEAN]
    /\ Idle.run = "none" /\ Idle.at = 1
  BY DEF Idle

LEMMA BindStep ==
    ASSUME Ownership, NEW d \in Devices, Bind(d)
    PROVE  Ownership'
<1> DEFINE t == [Idle EXCEPT !.run = "probe"]
<1>1. /\ t.run = "probe" /\ t.at = 1
      /\ t \in [run : {"none", "probe", "undo", "remove", "oops"},
                at : 1 .. 8, misread : BOOLEAN]
  BY IdleTask
<1>2. /\ d \notin bound /\ bound' = bound /\ task' = [task EXCEPT ![d] = t]
      /\ drvdata' = drvdata /\ driver' = driver
      /\ UNCHANGED <<moduleVars, portVars, file, ended, broken>>
      /\ task[d].run = "none" /\ module = "live"
  BY DEF Bind, portVars, moduleVars
<1> HIDE DEF t
<1>3. TypeOK /\ DeviceInv(d) /\ (drvdata[d] # 0 <=> drvdata[d] \in Ports)
  BY OneDevice
<1>4. drvdata[d] = 0
  BY <1>2, <1>3 DEF DeviceInv, Resting
<1>5. task'[d] = t /\ drvdata'[d] = 0
  BY <1>2, <1>3, <1>4 DEF TypeOK
<1>6. 1 <= ProbeLen' + 1
  BY DEF ProbeLen
<1>7. DeviceInv(d)'
  BY <1>1, <1>2, <1>5, <1>6 DEF DeviceInv, Probing
<1>8. 0 \in 0 .. MaxPorts /\ 0 \notin Ports
  BY LifecycleAssumption DEF Ports, LifecycleAssumption
<1> QED
  BY <1>1, <1>2, <1>4, <1>7, <1>8, TaskStep

LEMMA NoMemoryStep ==
    ASSUME Ownership, NEW d \in Devices, NoMemory(d)
    PROVE  Ownership'
<1>1. /\ bound' = bound /\ task' = [task EXCEPT ![d] = Idle]
      /\ drvdata' = drvdata /\ driver' = driver /\ ProbeAt(d, "port")
      /\ UNCHANGED <<moduleVars, portVars, file, ended, broken>>
  BY DEF NoMemory, portVars, moduleVars
<1>2. TypeOK /\ DeviceInv(d) /\ (drvdata[d] # 0 <=> drvdata[d] \in Ports)
  BY OneDevice
<1>3. task[d].run = "probe" /\ task[d].at = 1
  <2>1. ProbePos("port") = 1
    BY DEF ProbePos
  <2> QED
    BY <1>1, <1>2, <2>1, ProbeAtPos
<1>4. drvdata[d] = 0 /\ d \notin bound
  BY <1>2, <1>3 DEF DeviceInv, Probing
<1>5. task'[d] = Idle /\ drvdata'[d] = 0
  BY <1>1, <1>2, <1>4 DEF TypeOK
<1>6. DeviceInv(d)'
  BY <1>1, <1>4, <1>5 DEF DeviceInv, Resting, Idle
<1>7. Idle \in [run : {"none", "probe", "undo", "remove", "oops"},
                at : 1 .. 8, misread : BOOLEAN]
  BY DEF Idle
<1>8. 0 \in 0 .. MaxPorts /\ 0 \notin Ports
  BY LifecycleAssumption DEF Ports, LifecycleAssumption
<1> QED
  BY <1>1, <1>3, <1>4, <1>6, <1>7, <1>8, TaskStep

LEMMA ProbeSucceedsStep ==
    ASSUME Ownership, NEW d \in Devices, ProbeSucceeds(d)
    PROVE  Ownership'
<1>0. PICK p \in 0 .. MaxPorts : p = drvdata[d]
  BY OneDevice
<1>1. /\ bound' = bound \cup {d} /\ task' = [task EXCEPT ![d] = Idle]
      /\ drvdata' = drvdata /\ driver' = driver /\ port' = port /\ held' = held
      /\ ended' = ended
      /\ UNCHANGED <<moduleVars, portVars, file, ended, broken>>
      /\ task[d].run = "probe" /\ task[d].at > Len(ProbeScript[driver])
  BY DEF ProbeSucceeds, portVars, moduleVars
<1>2. /\ TypeOK /\ DeviceInv(d) /\ driver \in Drivers /\ task[d].at \in 1 .. 8
      /\ p # 0 <=> p \in Ports
      /\ p \in Ports => PortInv(p) /\ port[p].device = d /\ (Attached(p) <=> Live(p))
  BY <1>0, OneDevice
<1>3. Len(ProbeScript[driver]) = ProbeLen /\ ProbeLen \in {6, 7}
  BY <1>2, ProbeSteps DEF ProbeLen
<1>4. task[d].at = ProbeLen + 1 /\ p \in Ports /\ Live(p) /\ Marks(p, ProbeLen + 1)
  BY <1>0, <1>1, <1>2, <1>3 DEF DeviceInv, Probing, Owns
<1>5. Marks(p, 8)
  BY <1>4, MarksAll
<1>6. task'[d] = Idle /\ drvdata'[d] = p
  BY <1>0, <1>1, <1>2 DEF TypeOK
<1>7. DeviceInv(d)'
  <2>1. Marks(p, 8)'
    BY <1>1, <1>5 DEF Marks, NotePos, ProbePos
  <2>2. Resting(d)'
    BY <1>1, <1>2, <1>4, <1>6, <2>1 DEF Resting
  <2> QED
    BY <1>0, <1>1, <1>2, <1>4, <1>6, <2>2 DEF DeviceInv, Idle
<1>8. PortInv(p)'
  <2>1. Attached(p) /\ Attached(p)' /\ Live(p)'
    BY <1>0, <1>1, <1>2, <1>4 DEF Attached, Live
  <2>2. \A k \in Kinds : Holds(p, k)' <=> Holds(p, k)
    BY <1>1 DEF Holds, Key
  <2>3. ProbePos("region") # ProbeLen + 1
    BY DEF ProbePos, ProbeLen
  <2>4. \A k \in Kinds : Pending(p, k) /\ Pending(p, k)'
    BY <1>1, <1>2, <1>4, <1>6, <2>3 DEF Pending, Removing, Idle
  <2>5. (task[port[p].device])'.run = "none"
    BY <1>1, <1>2, <1>4, <1>6 DEF Idle
  <2> QED
    BY <1>1, <1>2, <1>4, <2>1, <2>2, <2>4, <2>5 DEF PortInv, Live, Kinds
<1>9. Idle \in [run : {"none", "probe", "undo", "remove", "oops"},
                at : 1 .. 8, misread : BOOLEAN]
  BY DEF Idle
<1> QED
  BY <1>0, <1>1, <1>7, <1>8, <1>9, TaskStep

(* A bound device whose port is there has no port that is cut off: it      *)
(* would hold the region this one holds.                                   *)
LEMMA BoundIsAlone ==
    ASSUME Ownership, NEW d \in Devices, d \in bound, Live(drvdata[d])
    PROVE  Alone(d)
<1> DEFINE q == drvdata[d]
<1>1. /\ TypeOK /\ DeviceInv(d) /\ (q # 0 <=> q \in Ports)
      /\ task[d].run \in {"none", "probe", "undo", "remove", "oops"}
      /\ q \in Ports => PortInv(q) /\ port[q].device = d /\ (Attached(q) <=> Live(q))
  BY OneDevice
<1>2. task[d].run = "none" \/ task[d].run = "remove"
  BY <1>1 DEF DeviceInv, Probing, Undoing, Stuck
<1>3. CASE task[d].run = "remove"
  BY <1>1, <1>3 DEF DeviceInv, BeingRemoved
<1>4. CASE task[d].run = "none"
  <2>1. q \in Ports /\ Marks(q, 8)
    BY <1>1, <1>4 DEF DeviceInv, Resting
  <2>2. port[q].note["region"] = "ok"
    <3>1. NotePos("region") < 8 /\ "region" \in Kinds
      BY DEF NotePos, ProbePos, Kinds
    <3> QED
      BY <2>1, <3>1 DEF Marks
  <2>3. Pending(q, "region")
    BY <1>1, <1>4, <2>1 DEF Pending, Removing
  <2>4. Holds(q, "region")
    BY <1>1, <2>1, <2>2, <2>3 DEF PortInv, Kinds
  <2>5. SUFFICES ASSUME NEW p \in Ports, Live(p), port[p].device = d, p # q
                 PROVE  FALSE
    BY DEF Alone
  <2>6. PortInv(p) /\ ~Attached(p)
    BY <2>5 DEF Ownership, Attached
  <2>7. Holds(p, "region")
    BY <2>5, <2>6 DEF PortInv, Kinds
  <2>8. Key("region", p) = d /\ Key("region", q) = d
    BY <1>1, <2>1, <2>5 DEF Key
  <2> QED
    <3>1. <<"region", d, p>> \in held /\ <<"region", d, q>> \in held
      BY <2>4, <2>7, <2>8 DEF Holds
    <3>2. OneOwner
      BY DEF Ownership
    <3> QED
      BY <2>5, <3>1, <3>2 DEF OneOwner
<1> QED
  BY <1>2, <1>3, <1>4

-----------------------------------------------------------------------------
(* The steps that change a port.  p is the port of the device, or the one  *)
(* that becomes it.                                                        *)
LEMMA PortStep ==
    ASSUME Ownership, NEW d \in Devices, NEW p \in Ports,
           p = drvdata[d] \/ (drvdata[d] = 0 /\ port[p].state = "unborn"),
           UNCHANGED <<moduleVars, file, broken>>,
           task[d].run # "none" \/ d \in bound \/ module = "live",
           \A e \in Devices \ {d} : /\ drvdata'[e] = drvdata[e]
                                    /\ task'[e] = task[e]
                                    /\ e \in bound' <=> e \in bound,
           drvdata'[d] \in {0, p},
           \A q \in Ports \ {p} : port'[q] = port[q] /\ ended'[q] = ended[q],
           port'[p].device = d,
           \A k, x, q : q # p => (<<k, x, q>> \in held' <=> <<k, x, q>> \in held),
           TypeOK', DeviceInv(d)', PortInv(p)', OneOwner', NodesHaveNumbers',
           ended'[p] = "unload" =>
               ended[p] = "unload" \/ module \in {"unloading", "gone"},
           \A u \in Users : file[u] = p => FileInv(u)'
    PROVE  Ownership'
<1>1. p \in 0 .. MaxPorts /\ driver' = driver
  BY LifecycleAssumption DEF Ports, LifecycleAssumption, moduleVars
<1>2. /\ \A e \in Devices \ {d} : DeviceInv(e)'
      /\ \A q \in Ports \ {p} : PortInv(q)'
  BY <1>1, Frame
<1>3. \A u \in Users : FileInv(u)'
  <2> SUFFICES ASSUME NEW u \in Users, file[u] # p PROVE FileInv(u)'
    OBVIOUS
  <2>1. FileInv(u) /\ file[u] \in 0 .. MaxPorts /\ file' = file
    BY DEF Ownership, TypeOK
  <2>2. file[u] # 0 => file[u] \in Ports \ {p}
    BY <2>1, LifecycleAssumption DEF Ports, LifecycleAssumption
  <2> QED
    BY <2>1, <2>2 DEF FileInv, Live
<1>4. ModuleInv'
  <2>1. ~Quiet \/ module = "live"
    BY DEF Quiet
  <2>2. \A q \in Ports : ended'[q] = "unload" =>
            ended[q] = "unload" \/ module \in {"unloading", "gone"}
    OBVIOUS
  <2> QED
    BY <2>1, <2>2, ModuleKept DEF Ownership
<1> QED
  BY <1>2, <1>3, <1>4 DEF Ownership

LEMMA StartRemoveStep ==
    ASSUME Ownership, NEW d \in Devices, NEW why \in {"unbind", "unload"},
           why = "unload" => module = "unloading", StartRemove(d, why)
    PROVE  Ownership'
<1>0. PICK p \in 0 .. MaxPorts : p = drvdata[d]
  BY OneDevice
<1>1. /\ bound' = bound /\ drvdata' = drvdata /\ port' = port /\ held' = held
      /\ driver' = driver /\ file' = file /\ d \in bound /\ task[d].run = "none"
      /\ UNCHANGED <<moduleVars, bound, portVars, file>>
  BY DEF StartRemove, moduleVars, portVars
<1>2. /\ TypeOK /\ DeviceInv(d) /\ (p # 0 <=> p \in Ports)
      /\ p \in Ports => PortInv(p) /\ port[p].device = d /\ (Attached(p) <=> Live(p))
  BY <1>0, OneDevice
<1>3. p \in Ports
  BY <1>0, <1>1, <1>2 DEF DeviceInv, Resting
<1>4. CASE ~Live(p)
  <2>1. UNCHANGED <<task, ended>> /\ broken' \in BOOLEAN
    BY <1>0, <1>4 DEF StartRemove
  <2> QED
    BY <1>1, <2>1, Unchanged
<1>5. CASE Live(p)
  <2> DEFINE t == [Idle EXCEPT !.run = "remove"]
  <2>1. /\ task' = [task EXCEPT ![d] = t]
        /\ ended' = [ended EXCEPT ![p] = why] /\ broken' = broken
    BY <1>0, <1>5 DEF StartRemove
  <2>2. /\ t.run = "remove" /\ t.at = 1
        /\ t \in [run : {"none", "probe", "undo", "remove", "oops"},
                  at : 1 .. 8, misread : BOOLEAN]
    BY IdleTask
  <2> HIDE DEF t
  <2>3. Marks(p, 8) /\ Alone(d)
    BY <1>0, <1>1, <1>2, <1>3, <1>5, BoundIsAlone DEF DeviceInv, Resting
  <2>4. TypeOK'
    BY <1>1, <1>2, <1>3, <2>1, <2>2 DEF TypeOK, moduleVars, portVars
  <2>5. task'[d] = t /\ ended'[p] = why /\ drvdata'[d] = p
    BY <1>0, <1>1, <1>2, <1>3, <2>1 DEF TypeOK
  <2>6. DeviceInv(d)'
    <3>1. Marks(p, 8)' /\ Alone(d)' /\ Live(p)'
      BY <1>1, <1>5, <2>3 DEF Marks, NotePos, ProbePos, Alone, Live
    <3>2. 1 <= RemoveLen'
      BY DEF RemoveLen
    <3>3. BeingRemoved(d)'
      BY <1>1, <1>3, <2>2, <2>5, <3>1, <3>2 DEF BeingRemoved, Owns
    <3> QED
      BY <1>0, <1>1, <1>2, <2>2, <2>5, <3>3 DEF DeviceInv
  <2>7. PortInv(p)'
    <3>1. Live(p)' /\ Attached(p) /\ Attached(p)'
      BY <1>0, <1>1, <1>2, <1>3, <1>5 DEF Attached, Live
    <3>2. \A k \in Kinds : Holds(p, k)' <=> Holds(p, k)
      BY <1>1 DEF Holds, Key
    <3>3. \A k : 1 <= RemovePos(k)'
      BY DEF RemovePos, Never
    <3>4. \A k \in Kinds : Pending(p, k) /\ Pending(p, k)'
      BY <1>1, <1>2, <1>3, <2>2, <2>5, <3>3 DEF Pending, Removing
    <3> QED
      BY <1>1, <1>2, <1>3, <1>5, <2>5, <3>1, <3>2, <3>4 DEF PortInv, Live, Kinds
  <2>8. OneOwner' /\ NodesHaveNumbers'
    <3>1. \A u \in held : Key(u[1], u[3])' = Key(u[1], u[3])
      BY <1>1 DEF Key
    <3> QED
      BY <1>1, <3>1, HeldKept DEF Ownership
  <2>9. \A u \in Users : file[u] = p => FileInv(u)'
    <3>1. \A u \in Users : FileInv(u) /\ (why = "unload" => file[u] = 0)
      BY DEF Ownership, ModuleInv
    <3> QED
      BY <1>1, <1>3, <2>5, <3>1 DEF FileInv, Live, Ports
  <2>10. /\ \A e \in Devices \ {d} : task'[e] = task[e]
         /\ \A q \in Ports \ {p} : ended'[q] = ended[q]
    BY <1>2, <2>1 DEF TypeOK
  <2> QED
    BY <1>0, <1>1, <1>2, <1>3, <2>1, <2>4, <2>5, <2>6, <2>7, <2>8, <2>9, <2>10, PortStep
<1> QED
  BY <1>4, <1>5

LEMMA FollowNullStep ==
    ASSUME Ownership, NEW d \in Devices, FollowNull(d)
    PROVE  Ownership'
<1>0. PICK p \in 0 .. MaxPorts : p = drvdata[d]
  BY OneDevice
<1> DEFINE t == [task[d] EXCEPT !.run = "oops"]
<1>1. /\ bound' = bound /\ drvdata' = drvdata /\ port' = port /\ held' = held
      /\ driver' = driver /\ ended' = ended /\ Removing(d)
      /\ UNCHANGED <<moduleVars, portVars, file, ended, broken>>
      /\ RemoveAt(d) = "node" /\ port[p].note["node"] = "null"
      /\ task' = [task EXCEPT ![d] = t]
  BY <1>0 DEF FollowNull, moduleVars, portVars
<1>2. /\ TypeOK /\ DeviceInv(d) /\ (p # 0 <=> p \in Ports)
      /\ p \in Ports => PortInv(p) /\ port[p].device = d /\ (Attached(p) <=> Live(p))
      /\ task[d] \in [run : {"none", "probe", "undo", "remove", "oops"},
                      at : 1 .. 8, misread : BOOLEAN]
  BY <1>0, OneDevice
<1>3. /\ t.run = "oops"
      /\ t \in [run : {"none", "probe", "undo", "remove", "oops"},
                at : 1 .. 8, misread : BOOLEAN]
  BY <1>2
<1> HIDE DEF t
<1>4. p \in Ports /\ Live(p) /\ task[d].at <= RemoveLen
  BY <1>0, <1>1, <1>2 DEF DeviceInv, Removing, Undoing, BeingRemoved, Owns
<1>5. driver # "keypad"
  <2>1. task[d].at = RemovePos("node")
    BY <1>1, <1>2, <1>4, RemoveAtPos DEF Kinds
  <2> QED
    BY <1>4, <2>1 DEF RemovePos, RemoveLen, Never
<1>6. task[d].run = "undo"
  <2>1. ~Marks(p, 8)
    <3>1. NotePos("node") = 3 /\ "node" \in Kinds
      BY <1>5 DEF NotePos, ProbePos, Kinds
    <3> QED
      BY <1>1, <3>1 DEF Marks
  <2> QED
    BY <1>0, <1>1, <1>2, <2>1 DEF DeviceInv, BeingRemoved, Removing
<1>7. /\ d \notin bound /\ port[p].note["cdev"] = "null"
      /\ \A k \in {"region", "mapping"} : port[p].note[k] = "null"
  BY <1>0, <1>1, <1>2, <1>5, <1>6 DEF DeviceInv, Undoing
<1>8. task'[d] = t /\ drvdata'[d] = p
  BY <1>0, <1>1, <1>2 DEF TypeOK
<1>9. DeviceInv(d)'
  BY <1>0, <1>1, <1>2, <1>3, <1>4, <1>7, <1>8 DEF DeviceInv, Stuck, Owns, Live
<1>10. PortInv(p)'
  <2>1. Live(p)' /\ Attached(p) /\ Attached(p)'
    BY <1>0, <1>1, <1>2, <1>4 DEF Attached, Live
  <2>2. \A k \in Kinds : Holds(p, k)' <=> Holds(p, k)
    BY <1>1 DEF Holds, Key
  <2>3. \A k \in Kinds : Pending(p, k)'
    BY <1>1, <1>2, <1>3, <1>4, <1>8 DEF Pending, Removing
  <2>4. task[d].at = 4
    BY <1>1, <1>2, <1>4, <1>5, RemoveAtPos DEF Kinds, RemovePos
  <2>5. \A k \in Kinds \ {"irq"} : port[p].note[k] = "ok" => Pending(p, k)
    <3> SUFFICES ASSUME NEW k \in Kinds \ {"irq"}, port[p].note[k] = "ok"
                 PROVE  Pending(p, k)
      OBVIOUS
    <3>1. k \in {"minor", "node", "input"}
      BY <1>7 DEF Kinds
    <3>2. 4 <= RemovePos(k)
      BY <1>5, <3>1 DEF RemovePos, Never
    <3> QED
      BY <1>2, <1>4, <1>6, <2>4, <3>1, <3>2 DEF Pending
  <2>6. ~(Holds(p, "irq") /\ ended[p] = "no")
    BY <1>2, <1>4, <1>6 DEF PortInv
  <2> QED
    BY <1>1, <1>2, <1>4, <2>1, <2>2, <2>3, <2>5, <2>6 DEF PortInv, Live, Kinds
<1> QED
  BY <1>0, <1>1, <1>3, <1>4, <1>6, <1>9, <1>10, TaskStep

-----------------------------------------------------------------------------
(* The steps of a probe. *)

LEMMA NothingHeldYet ==
    ASSUME Ownership, NEW p \in Ports, port[p].state = "unborn"
    PROVE  /\ \A k, x : <<k, x, p>> \notin held
           /\ \A u \in Users : file[u] # p
           /\ \A e \in Devices : drvdata[e] # p
<1>1. PortInv(p) /\ TypeOK /\ OneOwner /\ p # 0 /\ ~Live(p)
  BY DEF Ownership, Ports, Live
<1>2. \A k \in Kinds : ~Holds(p, k)
  BY <1>1 DEF PortInv, Attached
<1>3. ASSUME NEW k, NEW x, <<k, x, p>> \in held PROVE FALSE
  <2>1. k \in Kinds
    BY <1>1, <1>3 DEF TypeOK
  <2>2. x = Key(k, p)
    BY <1>1, <1>3 DEF OneOwner
  <2> QED
    BY <1>2, <1>3, <2>1, <2>2 DEF Holds
<1>4. \A u \in Users : file[u] # p
  <2>1. \A u \in Users : FileInv(u)
    BY DEF Ownership
  <2> QED
    BY <1>1, <2>1 DEF FileInv, PortInv
<1>5. \A e \in Devices : drvdata[e] # p
  BY <1>1 DEF Ownership, DeviceInv
<1> QED
  BY <1>3, <1>4, <1>5

(* The task of a device goes to its next step. *)
LEMMA NextStep ==
    ASSUME TypeOK, NEW d \in Devices, task' = [task EXCEPT ![d].at = @ + 1],
           task[d].at < 8
    PROVE  /\ task'[d].run = task[d].run /\ task'[d].at = task[d].at + 1
           /\ task'[d].misread = task[d].misread
           /\ \A e \in Devices \ {d} : task'[e] = task[e]
           /\ task' \in [Devices -> [run : {"none", "probe", "undo", "remove", "oops"},
                                     at : 1 .. 8, misread : BOOLEAN]]
<1>1. /\ task \in [Devices -> [run : {"none", "probe", "undo", "remove", "oops"},
                               at : 1 .. 8, misread : BOOLEAN]]
      /\ task[d] \in [run : {"none", "probe", "undo", "remove", "oops"},
                      at : 1 .. 8, misread : BOOLEAN]
  BY DEF TypeOK
<1> DEFINE t == [task[d] EXCEPT !.at = task[d].at + 1]
<1>2. task' = [task EXCEPT ![d] = t]
  OBVIOUS
<1>3. task[d].at + 1 \in 1 .. 8
  BY <1>1
<1>4. /\ t \in [run : {"none", "probe", "undo", "remove", "oops"},
                at : 1 .. 8, misread : BOOLEAN]
      /\ t.run = task[d].run /\ t.at = task[d].at + 1 /\ t.misread = task[d].misread
  BY <1>1, <1>3
<1> HIDE DEF t
<1>5. task'[d] = t /\ \A e \in Devices \ {d} : task'[e] = task[e]
  BY <1>1, <1>2
<1> QED
  BY <1>1, <1>2, <1>4, <1>5

LEMMA AllocateStep ==
    ASSUME Ownership, NEW d \in Devices, AllocatePort(d)
    PROVE  Ownership'
<1>1. PICK p \in Ports :
        /\ port[p].state = "unborn"
        /\ port' = [port EXCEPT ![p] = [NoPort EXCEPT !.state = "live", !.device = d]]
        /\ drvdata' = [drvdata EXCEPT ![d] = p]
  BY DEF AllocatePort
<1>2. /\ UNCHANGED <<moduleVars, bound, held, file, ended, broken>>
      /\ task' = [task EXCEPT ![d].at = @ + 1] /\ ProbeAt(d, "port")
      /\ driver' = driver /\ bound' = bound /\ held' = held /\ file' = file /\ ended' = ended
  BY DEF AllocatePort, moduleVars
<1>3. /\ TypeOK /\ DeviceInv(d)
      /\ task[d] \in [run : {"none", "probe", "undo", "remove", "oops"},
                      at : 1 .. 8, misread : BOOLEAN]
  BY OneDevice
<1>4. task[d].run = "probe" /\ task[d].at = 1
  <2>1. ProbePos("port") = 1
    BY DEF ProbePos
  <2> QED
    BY <1>2, <1>3, <2>1, ProbeAtPos
<1>5. drvdata[d] = 0 /\ d \notin bound
  BY <1>3, <1>4 DEF DeviceInv, Probing
<1>6. /\ \A k, x : <<k, x, p>> \notin held
      /\ \A u \in Users : file[u] # p
      /\ \A e \in Devices : drvdata[e] # p
  BY <1>1, NothingHeldYet
<1> DEFINE fresh == [NoPort EXCEPT !.state = "live", !.device = d]
<1>7. /\ fresh \in [state : {"unborn", "live", "freed"},
                    device : Devices \cup {0}, minor : Minors \cup {0},
                    note : [Kinds -> {"null", "ok", "err"}]]
      /\ fresh.state = "live" /\ fresh.device = d
      /\ \A k \in Kinds : fresh.note[k] = "null"
  <2>1. NoPort \in [state : {"unborn", "live", "freed"},
                    device : Devices \cup {0}, minor : Minors \cup {0},
                    note : [Kinds -> {"null", "ok", "err"}]]
    BY DEF NoPort
  <2>2. \A k \in Kinds : NoPort.note[k] = "null"
    BY DEF NoPort
  <2> QED
    BY <2>1, <2>2
<1> HIDE DEF fresh
<1>8. port' = [port EXCEPT ![p] = fresh]
  BY <1>1 DEF fresh
<1>9. port'[p] = fresh /\ \A q \in Ports \ {p} : port'[q] = port[q]
  BY <1>3, <1>8 DEF TypeOK
<1>10. /\ drvdata'[d] = p /\ p # 0 /\ p \in 0 .. MaxPorts
       /\ \A e \in Devices \ {d} : drvdata'[e] = drvdata[e]
  BY <1>1, <1>3, LifecycleAssumption DEF TypeOK, Ports, LifecycleAssumption
<1>11. /\ task'[d].run = "probe" /\ task'[d].at = 2
       /\ \A e \in Devices \ {d} : task'[e] = task[e]
       /\ task' \in [Devices -> [run : {"none", "probe", "undo", "remove", "oops"},
                                 at : 1 .. 8, misread : BOOLEAN]]
  <2>1. TypeOK /\ task' = [task EXCEPT ![d].at = @ + 1] /\ task[d].at < 8
    BY <1>2, <1>3, <1>4
  <2>2. /\ task'[d].run = task[d].run /\ task'[d].at = task[d].at + 1
        /\ \A e \in Devices \ {d} : task'[e] = task[e]
        /\ task' \in [Devices -> [run : {"none", "probe", "undo", "remove", "oops"},
                                  at : 1 .. 8, misread : BOOLEAN]]
    BY <2>1, NextStep, Zenon
  <2> QED
    BY <1>4, <2>2
<1>12. TypeOK'
  <2>1. port' \in [Ports -> [state : {"unborn", "live", "freed"},
                             device : Devices \cup {0}, minor : Minors \cup {0},
                             note : [Kinds -> {"null", "ok", "err"}]]]
    BY <1>3, <1>7, <1>8 DEF TypeOK
  <2>2. drvdata' \in [Devices -> 0 .. MaxPorts]
    BY <1>1, <1>3, <1>10 DEF TypeOK
  <2> QED
    BY <1>2, <1>3, <1>11, <2>1, <2>2, ZenonT(60) DEF TypeOK, moduleVars
<1>13. Marks(p, 2)'
  <2>1. \A k \in Kinds : ~(NotePos(k) < 2)
    BY DEF NotePos, ProbePos, Never, Kinds
  <2>2. \A k \in Kinds : NotePos(k)' = NotePos(k)
    BY <1>2 DEF NotePos, ProbePos
  <2> QED
    BY <1>7, <1>9, <2>1, <2>2 DEF Marks
<1>14. Live(p)' /\ port'[p].device = d
  BY <1>7, <1>9 DEF Live
<1>15. DeviceInv(d)'
  <2>1. 2 <= ProbeLen' + 1
    BY DEF ProbeLen
  <2>2. Probing(d)'
    BY <1>2, <1>5, <1>10, <1>11, <1>13, <1>14, <2>1 DEF Probing, Owns
  <2> QED
    BY <1>7, <1>9, <1>10, <1>11, <2>2 DEF DeviceInv
<1>16. PortInv(p)'
  <2>1. \A k : ~Holds(p, k)'
    BY <1>2, <1>6 DEF Holds
  <2>2. Attached(p)'
    BY <1>10, <1>14 DEF Attached
  <2> QED
    BY <1>7, <1>9, <1>14, <2>1, <2>2 DEF PortInv, Kinds
<1>17. OneOwner' /\ NodesHaveNumbers'
  <2>1. \A t \in held : Key(t[1], t[3])' = Key(t[1], t[3])
    <3> SUFFICES ASSUME NEW t \in held PROVE Key(t[1], t[3])' = Key(t[1], t[3])
      OBVIOUS
    <3>1. t[3] \in Ports /\ t = <<t[1], t[2], t[3]>>
      BY <1>3 DEF TypeOK
    <3>2. t[3] # p
      BY <1>6, <3>1
    <3> QED
      BY <1>9, <3>1, <3>2 DEF Key
  <2> QED
    BY <1>2, <2>1, HeldKept DEF Ownership
<1> QED
  BY <1>1, <1>2, <1>4, <1>5, <1>6, <1>9, <1>10, <1>11, <1>12, <1>14, <1>15, <1>16,
     <1>17, PortStep

(* What is known while a probe is at a step behind the first.              *)
LEMMA InProbe ==
    ASSUME Ownership, NEW d \in Devices, NEW p, p = drvdata[d],
           NEW s \in (Kinds \cup {"address"}), ProbeAt(d, s)
    PROVE  /\ p \in Ports /\ Live(p) /\ Attached(p) /\ port[p].device = d
           /\ PortInv(p) /\ d \notin bound
           /\ task[d].run = "probe" /\ task[d].at = ProbePos(s)
           /\ ProbePos(s) \in 2 .. ProbeLen
           /\ Marks(p, ProbePos(s))
           /\ ~(Holds(p, "irq") /\ ended[p] = "no")
           /\ \A k \in Kinds \ {"irq"} :
                 Holds(p, k) <=> port[p].note[k] = "ok" /\ (k = "region" => s # "region")
<1>1. /\ TypeOK /\ DeviceInv(d) /\ (p # 0 <=> p \in Ports)
      /\ p \in Ports => PortInv(p) /\ port[p].device = d /\ (Attached(p) <=> Live(p))
  BY OneDevice
<1>2. task[d].run = "probe" /\ task[d].at = ProbePos(s) /\ ProbePos(s) \in 1 .. ProbeLen
  BY <1>1, ProbeAtPos
<1>3. ProbePos(s) # 1 /\ ProbeLen \in Nat
  <2>1. ProbePos("port") = 1 /\ ProbeLen \in Nat /\ s # "port"
    BY DEF ProbePos, ProbeLen, Kinds
  <2>2. ProbeScript[driver][1] = "port"
    BY <1>1, <1>2, <2>1, ProbeSteps DEF TypeOK
  <2>3. ProbeScript[driver][ProbePos(s)] = s
    BY <1>2 DEF ProbeAt
  <2> QED
    BY <2>1, <2>2, <2>3
<1>4. d \notin bound /\ p \in Ports /\ Live(p) /\ Marks(p, ProbePos(s))
  BY <1>1, <1>2, <1>3 DEF DeviceInv, Probing, Owns
<1>5. ~(Holds(p, "irq") /\ ended[p] = "no")
  BY <1>1, <1>2, <1>3, <1>4 DEF PortInv
<1>6. ProbePos(s) = ProbePos("region") <=> s = "region"
  <2>1. driver \in Drivers
    BY <1>1 DEF TypeOK
  <2>2. ProbeScript[driver][ProbePos(s)] = "region" <=> ProbePos(s) = ProbePos("region")
    BY <1>2, <2>1, ProbeSteps DEF Kinds
  <2>3. ProbeScript[driver][ProbePos(s)] = s
    BY <1>2 DEF ProbeAt
  <2> QED
    BY <2>2, <2>3
<1>7. \A k \in Kinds : Pending(p, k) <=> (k = "region" => s # "region")
  BY <1>1, <1>2, <1>4, <1>6 DEF Pending, Removing
<1> QED
  BY <1>1, <1>2, <1>3, <1>4, <1>5, <1>7 DEF PortInv

(* The steps and the notes of a probe by number.                           *)
LEMMA Positions ==
    /\ driver = "keypad" =>
          /\ ProbeLen = 6
          /\ ProbePos("address") = 3 /\ ProbePos("region") = 4
          /\ ProbePos("input") = 2 /\ ProbePos("mapping") = 5 /\ ProbePos("irq") = 6
          /\ ProbePos("minor") = 9 /\ ProbePos("node") = 9 /\ ProbePos("cdev") = 9
          /\ NotePos("input") = 2 /\ NotePos("region") = 3 /\ NotePos("mapping") = 5
          /\ NotePos("minor") = 9 /\ NotePos("node") = 9 /\ NotePos("cdev") = 9
    /\ driver # "keypad" =>
          /\ ProbeLen = 7
          /\ ProbePos("minor") = 2 /\ ProbePos("node") = 3 /\ ProbePos("address") = 4
          /\ ProbePos("region") = 5 /\ ProbePos("mapping") = 6 /\ ProbePos("cdev") = 7
          /\ ProbePos("input") = 9 /\ ProbePos("irq") = 9
          /\ NotePos("minor") = 2 /\ NotePos("node") = 3 /\ NotePos("region") = 4
          /\ NotePos("mapping") = 6 /\ NotePos("cdev") = 7 /\ NotePos("input") = 9
    /\ NotePos("irq") = 9
<1>1. NotePos("irq") = 9
  BY DEF NotePos, Never
<1>2. CASE driver = "keypad"
  BY <1>1, <1>2 DEF NotePos, ProbePos, ProbeLen, Never
<1>3. CASE driver # "keypad"
  BY <1>1, <1>3 DEF NotePos, ProbePos, ProbeLen, Never
<1> QED
  BY <1>1, <1>2, <1>3

(* Where the step of a probe stands among the notes.  k is what it notes.  *)
LEMMA NotePositions ==
    ASSUME NEW s \in (Kinds \cup {"address"}),
           ProbePos(s) \in 2 .. ProbeLen,
           NEW k \in Kinds, k = IF s = "address" THEN "region" ELSE s
    PROVE  /\ ProbeLen <= 7
           /\ \A j \in Kinds \ {k} : NotePos(j) < ProbePos(s) + 1 <=> NotePos(j) < ProbePos(s)
           /\ NotePos(k) < ProbePos(s) + 1 <=> k # "irq"
           /\ s # "region" => ~(NotePos(k) < ProbePos(s))
           /\ ProbePos(s) + 1 = ProbePos("region") <=> s = "address"
           /\ driver = "keypad" => k \notin {"minor", "node", "cdev"}
           /\ driver # "keypad" => k \notin {"input", "irq"}
           /\ s = "minor" => \A j \in {"minor", "node", "cdev"} : ~(NotePos(j) < ProbePos(s))
           /\ s \in {"node", "cdev"} => NotePos("minor") < ProbePos(s)
           /\ s = "irq" => NotePos("mapping") < ProbePos(s) /\ ProbePos(s) = ProbeLen
<1>1. CASE driver = "keypad"
  <2>1. s \in {"input", "address", "region", "mapping", "irq"}
    BY <1>1, Positions DEF Kinds
  <2>2. CASE s = "input"
    BY <1>1, <2>2, Positions DEF Kinds
  <2>3. CASE s = "address"
    BY <1>1, <2>3, Positions DEF Kinds
  <2>4. CASE s = "region"
    BY <1>1, <2>4, Positions DEF Kinds
  <2>5. CASE s = "mapping"
    BY <1>1, <2>5, Positions DEF Kinds
  <2>6. CASE s = "irq"
    BY <1>1, <2>6, Positions DEF Kinds
  <2> QED
    BY <2>1, <2>2, <2>3, <2>4, <2>5, <2>6
<1>2. CASE driver # "keypad"
  <2>1. s \in {"minor", "node", "address", "region", "mapping", "cdev"}
    BY <1>2, Positions DEF Kinds
  <2>2. CASE s = "minor"
    BY <1>2, <2>2, Positions DEF Kinds
  <2>3. CASE s = "node"
    BY <1>2, <2>3, Positions DEF Kinds
  <2>4. CASE s = "address"
    BY <1>2, <2>4, Positions DEF Kinds
  <2>5. CASE s = "region"
    BY <1>2, <2>5, Positions DEF Kinds
  <2>6. CASE s = "mapping"
    BY <1>2, <2>6, Positions DEF Kinds
  <2>7. CASE s = "cdev"
    BY <1>2, <2>7, Positions DEF Kinds
  <2> QED
    BY <2>1, <2>2, <2>3, <2>4, <2>5, <2>6, <2>7
<1> QED
  BY <1>1, <1>2

LEMMA TypeKept ==
    ASSUME TypeOK, driver' = driver, module' = module, statics' = statics,
           bound' = bound, drvdata' = drvdata, file' = file, ended' = ended,
           broken' = broken,
           task' \in [Devices -> [run : {"none", "probe", "undo", "remove", "oops"},
                                 at : 1 .. 8, misread : BOOLEAN]],
           port' \in [Ports -> [state : {"unborn", "live", "freed"},
                               device : Devices \cup {0}, minor : Minors \cup {0},
                               note : [Kinds -> {"null", "ok", "err"}]]],
           held' \subseteq Kinds \X (Minors \cup Devices \cup Ports) \X Ports
    PROVE  TypeOK'
  BY DEF TypeOK

\* A step s of a probe that notes v of k and goes on: c is what the port p
\* holds then, x the key of what the kernel gave out if it did (got).
NotedAs(d, p, s, k, v, c, x, got) ==
    /\ p = drvdata[d]
    /\ ProbeAt(d, s)
    /\ k \in Kinds /\ (s = "address" => k = "region") /\ (s # "address" => k = s)
    /\ v = "ok" \/ (v = "err" /\ s = "mapping") \/ (v = "null" /\ s = "irq")
    /\ s = "irq" => v = "null"
    /\ c \in [state : {"unborn", "live", "freed"},
              device : Devices \cup {0}, minor : Minors \cup {0},
              note : [Kinds -> {"null", "ok", "err"}]]
    /\ c.state = "live" /\ c.device = d /\ (s # "minor" => c.minor = port[p].minor)
    /\ c.note[k] = v /\ \A j \in Kinds \ {k} : c.note[j] = port[p].note[j]
    /\ port' = [port EXCEPT ![p] = c]
    /\ task' = [task EXCEPT ![d].at = @ + 1]
    /\ UNCHANGED <<moduleVars, bound, drvdata, file, ended, broken>>
    /\ k \in {"minor", "node", "cdev"} => x = c.minor
    /\ k = "region" => x = d
    /\ k \notin {"minor", "node", "cdev", "region"} => x = p
    /\ got <=> (v = "ok" /\ s # "address") \/ s = "irq"
    /\ held' = IF got THEN held \cup {<<k, x, p>>} ELSE held
    /\ k \in {"minor", "node", "region"} /\ got => ~Taken(k, x)

LEMMA NotedStep ==
    ASSUME Ownership, NEW d \in Devices, NEW p, NEW s \in (Kinds \cup {"address"}),
           NEW k, NEW v, NEW c, NEW x, NEW got \in BOOLEAN,
           NotedAs(d, p, s, k, v, c, x, got)
    PROVE  Ownership'
<1>a. /\ p = drvdata[d] /\ ProbeAt(d, s)
      /\ UNCHANGED <<moduleVars, bound, drvdata, file, ended, broken>>
  BY DEF NotedAs
<1>b. /\ k \in Kinds /\ (s = "address" => k = "region") /\ (s # "address" => k = s)
      /\ k = IF s = "address" THEN "region" ELSE s
      /\ v = "ok" \/ (v = "err" /\ s = "mapping") \/ (v = "null" /\ s = "irq")
      /\ s = "irq" => v = "null"
  BY DEF NotedAs
<1>c. /\ c \in [state : {"unborn", "live", "freed"},
                device : Devices \cup {0}, minor : Minors \cup {0},
                note : [Kinds -> {"null", "ok", "err"}]]
      /\ c.state = "live" /\ c.device = d /\ (s # "minor" => c.minor = port[p].minor)
      /\ c.note[k] = v /\ \A j \in Kinds \ {k} : c.note[j] = port[p].note[j]
      /\ port' = [port EXCEPT ![p] = c]
  BY DEF NotedAs
<1>d. task' = [task EXCEPT ![d].at = @ + 1]
  BY DEF NotedAs
<1>e. /\ k \in {"minor", "node", "cdev"} => x = c.minor
      /\ k = "region" => x = d
      /\ k \notin {"minor", "node", "cdev", "region"} => x = p
      /\ got <=> (v = "ok" /\ s # "address") \/ s = "irq"
      /\ k \in {"minor", "node", "region"} /\ got => ~Taken(k, x)
  BY DEF NotedAs
<1>f. held' = IF got THEN held \cup {<<k, x, p>>} ELSE held
  BY DEF NotedAs
<1>1. /\ p \in Ports /\ Live(p) /\ Attached(p) /\ port[p].device = d
      /\ PortInv(p) /\ d \notin bound
      /\ task[d].run = "probe" /\ task[d].at = ProbePos(s)
      /\ ProbePos(s) \in 2 .. ProbeLen
      /\ Marks(p, ProbePos(s))
      /\ ~(Holds(p, "irq") /\ ended[p] = "no")
      /\ \A j \in Kinds \ {"irq"} :
            Holds(p, j) <=> port[p].note[j] = "ok" /\ (j = "region" => s # "region")
  BY <1>a, InProbe
<1>2. /\ driver' = driver /\ drvdata' = drvdata /\ bound' = bound /\ ended' = ended
      /\ file' = file
  BY <1>a DEF moduleVars
<1>3. TypeOK /\ OneOwner /\ NodesHaveNumbers /\ driver \in Drivers
  BY DEF Ownership, TypeOK
<1> DEFINE n == ProbePos(s)
<1>4. /\ ProbeLen <= 7
      /\ \A j \in Kinds \ {k} : NotePos(j) < n + 1 <=> NotePos(j) < n
      /\ NotePos(k) < n + 1 <=> k # "irq"
      /\ s # "region" => ~(NotePos(k) < n)
      /\ n + 1 = ProbePos("region") <=> s = "address"
      /\ driver = "keypad" => k \notin {"minor", "node", "cdev"}
      /\ driver # "keypad" => k \notin {"input", "irq"}
      /\ s = "minor" => \A j \in {"minor", "node", "cdev"} : ~(NotePos(j) < n)
      /\ s \in {"node", "cdev"} => NotePos("minor") < n
      /\ s = "irq" => NotePos("mapping") < n /\ n = ProbeLen
  BY <1>1, <1>b, NotePositions
<1>5. n \in 2 .. ProbeLen /\ ProbeLen \in {6, 7}
  BY <1>1 DEF ProbeLen
<1>6. /\ task'[d].run = "probe" /\ task'[d].at = n + 1
      /\ \A e \in Devices \ {d} : task'[e] = task[e]
      /\ task' \in [Devices -> [run : {"none", "probe", "undo", "remove", "oops"},
                                at : 1 .. 8, misread : BOOLEAN]]
  <2>1. task[d].at < 8 /\ task[d].at = n
    BY <1>1, <1>5
  <2>2. /\ task'[d].run = task[d].run /\ task'[d].at = task[d].at + 1
        /\ \A e \in Devices \ {d} : task'[e] = task[e]
        /\ task' \in [Devices -> [run : {"none", "probe", "undo", "remove", "oops"},
                                  at : 1 .. 8, misread : BOOLEAN]]
    BY <1>3, <1>d, <2>1, NextStep, Zenon
  <2> QED
    BY <1>1, <2>1, <2>2
<1> HIDE DEF n
<1>7. port'[p] = c /\ \A q \in Ports \ {p} : port'[q] = port[q]
  BY <1>1, <1>3, <1>c DEF TypeOK
<1>8. /\ k = "minor" <=> s = "minor"
      /\ k = "node" <=> s = "node"
      /\ k = "cdev" <=> s = "cdev"
      /\ k = "irq" <=> s = "irq"
      /\ k = "mapping" <=> s = "mapping"
      /\ k = "region" <=> s \in {"region", "address"}
  BY <1>b
<1>9. \A j \in Kinds : ~(NotePos(j) < n) => port[p].note[j] = "null"
  BY <1>1 DEF Marks, n
<1>10. s # "region" => port[p].note[k] = "null"
  BY <1>4, <1>9, <1>b
<1>11. s = "minor" => \A j \in {"minor", "node", "cdev"} : port[p].note[j] = "null"
  BY <1>4, <1>9 DEF Kinds
\* What was given out, to whom.
<1>12. \A j, y, q : <<j, y, q>> \in held => q \in Ports /\ j \in Kinds /\ y = Key(j, q)
  <2> SUFFICES ASSUME NEW j, NEW y, NEW q, <<j, y, q>> \in held
               PROVE  q \in Ports /\ j \in Kinds /\ y = Key(j, q)
    OBVIOUS
  <2>1. q \in Ports /\ j \in Kinds
    BY <1>3 DEF TypeOK
  <2> QED
    BY <1>3, <2>1 DEF OneOwner
<1>13. s = "minor" => \A y : \A j \in {"minor", "node", "cdev"} : <<j, y, p>> \notin held
  <2> SUFFICES ASSUME s = "minor", NEW j \in {"minor", "node", "cdev"}, NEW y,
                      <<j, y, p>> \in held
               PROVE  FALSE
    OBVIOUS
  <2>1. Holds(p, j)
    BY <1>12 DEF Holds
  <2> QED
    BY <1>1, <1>11, <2>1 DEF Kinds
<1>14. \A j, y : <<j, y, p>> \in held => y = Key(j, p)'
  <2> SUFFICES ASSUME NEW j, NEW y, <<j, y, p>> \in held PROVE y = Key(j, p)'
    OBVIOUS
  <2>1. y = Key(j, p)
    BY <1>12
  <2>2. CASE s = "minor"
    <3>1. j \notin {"minor", "node", "cdev"}
      BY <1>13, <2>2
    <3> QED
      BY <1>1, <1>7, <1>c, <2>1, <3>1 DEF Key
  <2>3. CASE s # "minor"
    BY <1>1, <1>7, <1>c, <2>1, <2>3 DEF Key
  <2> QED
    BY <2>2, <2>3
<1>15. x = Key(k, p)'
  BY <1>1, <1>7, <1>c, <1>e DEF Key
\* Nobody else has what is given out.
<1>16. got => \A q : <<k, x, q>> \in held => q = p
  <2> SUFFICES ASSUME got, NEW q, <<k, x, q>> \in held PROVE q = p
    OBVIOUS
  <2>1. q \in Ports /\ x = Key(k, q)
    BY <1>12
  <2>2. CASE k \in {"minor", "node", "region"}
    BY <1>e, <2>1, <2>2 DEF Taken
  <2>3. CASE k = "cdev"
    <3>1. <<"minor", x, q>> \in held
      BY <1>3, <2>3 DEF NodesHaveNumbers
    <3>2. s = "cdev" /\ x = port[p].minor
      BY <1>8, <1>c, <1>e, <2>3
    <3>3. port[p].note["minor"] = "ok"
      BY <1>1, <1>4, <3>2 DEF Marks, Kinds, n
    <3>4. Holds(p, "minor")
      BY <1>1, <3>3 DEF Kinds
    <3>5. <<"minor", x, p>> \in held
      BY <3>2, <3>4 DEF Holds, Key
    <3> QED
      BY <1>3, <3>1, <3>5 DEF OneOwner
  <2>4. CASE k \in {"mapping", "input", "irq"}
    BY <1>e, <2>1, <2>4 DEF Key
  <2> QED
    BY <1>b, <2>2, <2>3, <2>4 DEF Kinds
<1>17. /\ \A t \in held' : t \in held \/ (got /\ t = <<k, x, p>>)
       /\ \A t \in held : t \in held'
       /\ got => <<k, x, p>> \in held'
  BY <1>f
<1>18. OneOwner'
  <2>1. ASSUME NEW t \in held' PROVE t[2] = Key(t[1], t[3])'
    <3>1. CASE t \in held
      <4>1. t[3] \in Ports /\ t = <<t[1], t[2], t[3]>>
        BY <1>3, <3>1 DEF TypeOK
      <4>2. CASE t[3] = p
        BY <1>14, <3>1, <4>1, <4>2
      <4>3. CASE t[3] # p
        BY <1>3, <1>7, <3>1, <4>1, <4>3 DEF OneOwner, Key
      <4> QED
        BY <4>2, <4>3
    <3>2. CASE t = <<k, x, p>>
      BY <1>15, <3>2
    <3> QED
      BY <1>17, <2>1, <3>1, <3>2
  <2>2. ASSUME NEW t \in held', NEW u \in held', t[1] = u[1], t[2] = u[2]
        PROVE  t[3] = u[3]
    <3>1. \A w \in held : w = <<w[1], w[2], w[3]>>
      BY <1>3 DEF TypeOK
    <3>2. CASE t \in held /\ u \in held
      BY <1>3, <2>2, <3>2 DEF OneOwner
    <3>3. CASE t \in held /\ got /\ u = <<k, x, p>>
      <4>1. t[1] = k /\ t[2] = x
        BY <2>2, <3>3
      <4>2. <<k, x, t[3]>> \in held
        BY <3>1, <3>3, <4>1
      <4> QED
        BY <1>16, <3>3, <4>2
    <3>4. CASE u \in held /\ got /\ t = <<k, x, p>>
      <4>1. u[1] = k /\ u[2] = x
        BY <2>2, <3>4
      <4>2. <<k, x, u[3]>> \in held
        BY <3>1, <3>4, <4>1
      <4> QED
        BY <1>16, <3>4, <4>2
    <3> QED
      BY <1>17, <2>2, <3>2, <3>3, <3>4
  <2> QED
    BY <2>1, <2>2 DEF OneOwner
<1>19. NodesHaveNumbers'
  <2> SUFFICES ASSUME NEW t \in held', t[1] \in {"node", "cdev"}
               PROVE  <<"minor", t[2], t[3]>> \in held'
    BY DEF NodesHaveNumbers
  <2>1. CASE t \in held
    BY <1>3, <1>17, <2>1 DEF NodesHaveNumbers
  <2>2. CASE t = <<k, x, p>>
    <3>1. k \in {"node", "cdev"} /\ s \in {"node", "cdev"} /\ x = port[p].minor
      BY <1>8, <1>c, <1>e, <2>2
    <3>2. port[p].note["minor"] = "ok"
      BY <1>1, <1>4, <3>1 DEF Marks, Kinds, n
    <3>3. Holds(p, "minor")
      BY <1>1, <3>2 DEF Kinds
    <3>4. <<"minor", x, p>> \in held
      BY <3>1, <3>3 DEF Holds, Key
    <3> QED
      BY <1>17, <2>2, <3>4
  <2> QED
    BY <1>17, <2>1, <2>2
<1>20. Live(p)' /\ port'[p].device = d /\ Attached(p)'
  BY <1>1, <1>2, <1>7, <1>c DEF Live, Attached
<1>21. Marks(p, n + 1)'
  <2>1. \A j \in Kinds : NotePos(j)' = NotePos(j)
    BY <1>2 DEF NotePos, ProbePos
  <2>2. ASSUME NEW j \in Kinds \ {k}
        PROVE  IF NotePos(j) < n + 1
               THEN c.note[j] = "ok" \/ (j = "mapping" /\ c.note[j] = "err")
               ELSE c.note[j] = "null"
    <3>1. c.note[j] = port[p].note[j]
      BY <1>c
    <3>2. NotePos(j) < n + 1 <=> NotePos(j) < n
      BY <1>4
    <3> QED
      BY <1>1, <3>1, <3>2 DEF Marks, n
  <2>3. IF NotePos(k) < n + 1
        THEN c.note[k] = "ok" \/ (k = "mapping" /\ c.note[k] = "err")
        ELSE c.note[k] = "null"
    BY <1>4, <1>8, <1>b, <1>c
  <2>4. (n + 1)' = n + 1
    BY <1>2 DEF n, ProbePos
  <2> QED
    BY <1>7, <2>1, <2>2, <2>3, <2>4 DEF Marks
<1>22. DeviceInv(d)'
  <2>1. n + 1 <= ProbeLen' + 1 /\ n + 1 # 1
    BY <1>2, <1>5 DEF ProbeLen
  <2>2. Marks(p, n + 1)' <=> Marks(p, task[d].at)'
    BY <1>2, <1>6 DEF n, ProbePos
  <2>3. Probing(d)'
    BY <1>1, <1>2, <1>6, <1>20, <1>21, <1>a, <2>1, <2>2 DEF Probing, Owns
  <2> QED
    BY <1>1, <1>2, <1>6, <1>7, <1>20, <1>a, <1>c, <2>3 DEF DeviceInv
<1>23. \A j \in Kinds : Pending(p, j)' <=> (j = "region" => s # "address")
  <2>1. ProbePos("region")' = ProbePos("region")
    BY <1>2 DEF ProbePos
  <2> QED
    BY <1>4, <1>6, <1>20, <2>1 DEF Pending, Removing
<1>24. ASSUME NEW j \in Kinds \ {"irq"}
       PROVE  Holds(p, j)' <=> c.note[j] = "ok" /\ (j = "region" => s # "address")
  <2>1. CASE j = k
    <3>1. <<k, x, p>> \in held' <=> got \/ <<k, x, p>> \in held
      BY <1>f
    <3>2. <<k, x, p>> \in held => Holds(p, k)
      BY <1>12 DEF Holds
    <3>3. s # "region" => ~Holds(p, k)
      BY <1>1, <1>10, <1>24, <2>1
    <3>4. s = "region" => got
      BY <1>b, <1>e
    <3>5. Holds(p, j)' <=> got
      BY <1>15, <2>1, <3>1, <3>2, <3>3, <3>4 DEF Holds
    <3>6. got <=> c.note[j] = "ok" /\ (j = "region" => s # "address")
      BY <1>8, <1>24, <1>b, <1>c, <1>e, <2>1
    <3> QED
      BY <3>5, <3>6
  <2>2. CASE j # k
    <3>1. c.note[j] = port[p].note[j]
      BY <1>24, <1>c, <2>2
    <3>2. \A y : <<j, y, p>> \in held' <=> <<j, y, p>> \in held
      BY <1>f, <2>2
    <3>3. j = "region" => s # "address" /\ s # "region"
      BY <1>8, <2>2
    <3>4. Holds(p, j)' <=> Holds(p, j)
      <4>1. Holds(p, j)' <=> <<j, Key(j, p)', p>> \in held
        BY <3>2 DEF Holds
      <4>2. <<j, Key(j, p)', p>> \in held => Key(j, p)' = Key(j, p)
        BY <1>12
      <4>3. <<j, Key(j, p), p>> \in held => Key(j, p)' = Key(j, p)
        BY <1>14
      <4> QED
        BY <4>1, <4>2, <4>3 DEF Holds
    <3> QED
      BY <1>1, <1>24, <3>1, <3>3, <3>4
  <2> QED
    BY <2>1, <2>2
<1>25. PortInv(p)'
  <2>1. \A j \in Kinds \ {"irq"} :
            Holds(p, j)' <=> Live(p)' /\ port'[p].note[j] = "ok"
                             /\ (Attached(p)' => Pending(p, j)')
    BY <1>7, <1>20, <1>23, <1>24
  <2>2. ASSUME Holds(p, "irq")', ended[p] = "no"
        PROVE  /\ port'[p].note["mapping"] # "null"
               /\ task'[d].at > ProbeLen'
    <3>1. s = "irq"
      <4> SUFFICES ASSUME s # "irq" PROVE Holds(p, "irq")
        BY <1>1, <2>2
      <4>1. Key("irq", p)' = p /\ Key("irq", p) = p
        BY DEF Key
      <4> QED
        BY <1>8, <1>17, <2>2, <4>1 DEF Holds
    <3>2. c.note["mapping"] = port[p].note["mapping"]
      BY <1>8, <1>c, <3>1 DEF Kinds
    <3>3. port[p].note["mapping"] # "null"
      BY <1>1, <1>4, <3>1 DEF Marks, Kinds, n
    <3>4. ProbeLen' = ProbeLen
      BY <1>2 DEF ProbeLen
    <3> QED
      BY <1>4, <1>5, <1>6, <1>7, <3>1, <3>2, <3>3, <3>4
  <2>3. \A j \in Kinds : c.note[j] = "null" \/ j = k \/ c.note[j] = port[p].note[j]
    BY <1>c
  <2>4. /\ driver = "keypad" => \A j \in {"minor", "node", "cdev"} : c.note[j] = "null"
        /\ driver # "keypad" => c.note["input"] = "null"
    BY <1>1, <1>4, <2>3 DEF PortInv, Kinds
  <2>5. c.state # "unborn"
    BY <1>c
  <2> QED
    BY <1>2, <1>6, <1>7, <1>20, <2>1, <2>2, <2>4, <2>5 DEF PortInv
<1>26. TypeOK'
  <2>1. port' \in [Ports -> [state : {"unborn", "live", "freed"},
                             device : Devices \cup {0}, minor : Minors \cup {0},
                             note : [Kinds -> {"null", "ok", "err"}]]]
    BY <1>1, <1>3, <1>c DEF TypeOK
  <2>2. x \in Minors \cup Devices \cup Ports
    <3>1. 0 \in Minors
      BY LifecycleAssumption DEF Minors, LifecycleAssumption
    <3>2. c.minor \in Minors
      BY <1>c, <3>1
    <3> QED
      BY <1>1, <1>e, <3>2
  <2>3. held' \subseteq Kinds \X (Minors \cup Devices \cup Ports) \X Ports
    BY <1>1, <1>3, <1>b, <1>f, <2>2 DEF TypeOK
  <2>4. /\ driver' = driver /\ module' = module /\ statics' = statics
        /\ bound' = bound /\ drvdata' = drvdata /\ file' = file
        /\ ended' = ended /\ broken' = broken
    BY <1>a DEF moduleVars
  <2> QED
    BY <1>3, <1>6, <2>1, <2>3, <2>4, TypeKept
<1>27. \A u \in Users : file[u] = p => FileInv(u)'
  <2>1. /\ port[p].note["cdev"] = "ok" => c.note["cdev"] = "ok"
        /\ port[p].note["mapping"] # "null" => c.note["mapping"] # "null"
    <3>1. c.note["cdev"] = port[p].note["cdev"] \/ (k = "cdev" /\ v = "ok")
      BY <1>8, <1>b, <1>c DEF Kinds
    <3>2. c.note["mapping"] = port[p].note["mapping"] \/ (k = "mapping" /\ v # "null")
      BY <1>8, <1>b, <1>c DEF Kinds
    <3> QED
      BY <1>c, <3>1, <3>2
  <2>2. \A u \in Users : FileInv(u)
    BY DEF Ownership
  <2> QED
    BY <1>2, <1>7, <1>20, <2>1, <2>2 DEF FileInv
<1>28. \A j, y, q : q # p => (<<j, y, q>> \in held' <=> <<j, y, q>> \in held)
  BY <1>f
<1>29. drvdata'[d] = p /\ task[d].run # "none" /\ UNCHANGED <<moduleVars, file, broken>>
  BY <1>1, <1>2, <1>a
<1>30. \A e \in Devices \ {d} : /\ drvdata'[e] = drvdata[e] /\ task'[e] = task[e]
                                /\ e \in bound' <=> e \in bound
  BY <1>2, <1>6
<1>31. /\ \A q \in Ports \ {p} : port'[q] = port[q] /\ ended'[q] = ended[q]
       /\ ended'[p] = "unload" => ended[p] = "unload"
  BY <1>2, <1>7
<1> QED
  BY <1>1, <1>a, <1>18, <1>19, <1>20, <1>22, <1>25, <1>26, <1>27, <1>28, <1>29, <1>30, <1>31,
     PortStep, Zenon

(* A step that notes, by the step s and what it notes.                     *)
LEMMA NotingStep ==
    ASSUME Ownership, NEW d \in Devices,
           NEW s \in (Kinds \cup {"address"}) \ {"minor"}, ProbeAt(d, s),
           NEW k \in Kinds, s = "address" => k = "region", s # "address" => k = s,
           NEW v, v = "ok" \/ (v = "err" /\ s = "mapping") \/ (v = "null" /\ s = "irq"),
           s = "irq" => v = "null",
           Noted(d, k, v),
           NEW got \in BOOLEAN, got <=> (v = "ok" /\ s # "address") \/ s = "irq",
           held' = IF got THEN held \cup {<<k, Key(k, drvdata[d]), drvdata[d]>>} ELSE held,
           k \in {"node", "region"} /\ got => ~Taken(k, Key(k, drvdata[d]))
    PROVE  Ownership'
<1>0. PICK p \in 0 .. MaxPorts : p = drvdata[d]
  BY OneDevice
<1>1. p \in Ports /\ Live(p) /\ port[p].device = d
  BY <1>0, InProbe
<1>2. /\ port' = [port EXCEPT ![p].note[k] = v]
      /\ task' = [task EXCEPT ![d].at = @ + 1]
      /\ UNCHANGED <<moduleVars, bound, drvdata, file, ended, broken>>
  BY <1>0 DEF Noted
<1>3. port[p] \in [state : {"unborn", "live", "freed"},
                   device : Devices \cup {0}, minor : Minors \cup {0},
                   note : [Kinds -> {"null", "ok", "err"}]]
  BY <1>1 DEF Ownership, TypeOK
<1> DEFINE c == [port[p] EXCEPT !.note = [port[p].note EXCEPT ![k] = v]]
<1>4. port' = [port EXCEPT ![p] = c]
  BY <1>2
<1>5. /\ c \in [state : {"unborn", "live", "freed"},
                device : Devices \cup {0}, minor : Minors \cup {0},
                note : [Kinds -> {"null", "ok", "err"}]]
      /\ c.state = port[p].state /\ c.device = port[p].device
      /\ c.minor = port[p].minor /\ c.note[k] = v
      /\ \A j \in Kinds \ {k} : c.note[j] = port[p].note[j]
  BY <1>3
<1> HIDE DEF c
<1>6. PICK x : x = Key(k, p)
  OBVIOUS
<1>7. c.state = "live" /\ c.device = d /\ c.minor = port[p].minor
  BY <1>1, <1>5 DEF Live
<1>8. /\ k \in {"minor", "node", "cdev"} => x = c.minor
      /\ k = "region" => x = d
      /\ k \notin {"minor", "node", "cdev", "region"} => x = p
  BY <1>1, <1>6, <1>7 DEF Key
<1>9. held' = IF got THEN held \cup {<<k, x, p>>} ELSE held
  BY <1>0, <1>6
<1>10. k \in {"minor", "node", "region"} /\ got => ~Taken(k, x)
  BY <1>0, <1>6
<1>11. NotedAs(d, p, s, k, v, c, x, got)
  BY <1>0, <1>2, <1>4, <1>5, <1>7, <1>8, <1>9, <1>10 DEF NotedAs
<1>12. s \in Kinds \cup {"address"}
  OBVIOUS
<1> QED
  BY <1>11, <1>12, NotedStep

\* The same, for a step that obtains what it notes.
LEMMA ObtainedStep ==
    ASSUME Ownership, NEW d \in Devices,
           NEW s \in {"node", "region", "mapping", "cdev", "input"}, ProbeAt(d, s),
           Obtained(d, s), s \in {"node", "region"} => ~Taken(s, Key(s, drvdata[d]))
    PROVE  Ownership'
<1>1. /\ Noted(d, s, "ok")
      /\ held' = IF TRUE THEN held \cup {<<s, Key(s, drvdata[d]), drvdata[d]>>} ELSE held
  BY DEF Obtained
<1>2. /\ s \in (Kinds \cup {"address"}) \ {"minor"} /\ s \in Kinds
      /\ s # "address" /\ s # "irq"
  BY DEF Kinds
<1> QED
  BY <1>1, <1>2, NotingStep

LEMMA GetMinorStep ==
    ASSUME Ownership, NEW d \in Devices, GetMinor(d)
    PROVE  Ownership'
<1>0. PICK p \in 0 .. MaxPorts : p = drvdata[d]
  BY OneDevice
<1>1. PICK m \in Minors :
          /\ ~Taken("minor", m)
          /\ held' = held \cup {<<"minor", m, p>>}
          /\ port' = [port EXCEPT ![p].minor = m, ![p].note["minor"] = "ok"]
  BY <1>0 DEF GetMinor
<1>2. /\ ProbeAt(d, "minor")
      /\ task' = [task EXCEPT ![d].at = @ + 1]
      /\ UNCHANGED <<moduleVars, bound, drvdata, file, ended, broken>>
  BY DEF GetMinor
<1>3. "minor" \in Kinds \cup {"address"} /\ "minor" \in Kinds
  BY DEF Kinds
<1>4. p \in Ports /\ Live(p) /\ port[p].device = d
  BY <1>0, <1>2, <1>3, InProbe
<1>5. port[p] \in [state : {"unborn", "live", "freed"},
                   device : Devices \cup {0}, minor : Minors \cup {0},
                   note : [Kinds -> {"null", "ok", "err"}]]
  BY <1>4 DEF Ownership, TypeOK
<1> DEFINE c == [port[p] EXCEPT !.minor = m,
                                !.note = [port[p].note EXCEPT !["minor"] = "ok"]]
<1>6. port' = [port EXCEPT ![p] = c]
  <2>1. port \in [Ports -> [state : {"unborn", "live", "freed"},
                            device : Devices \cup {0}, minor : Minors \cup {0},
                            note : [Kinds -> {"null", "ok", "err"}]]]
    BY DEF Ownership, TypeOK
  <2> QED
    BY <1>1, <1>4, <2>1
<1>7. /\ c \in [state : {"unborn", "live", "freed"},
                device : Devices \cup {0}, minor : Minors \cup {0},
                note : [Kinds -> {"null", "ok", "err"}]]
      /\ c.state = port[p].state /\ c.device = port[p].device
      /\ c.minor = m /\ c.note["minor"] = "ok"
      /\ \A j \in Kinds \ {"minor"} : c.note[j] = port[p].note[j]
  BY <1>3, <1>5
<1> HIDE DEF c
<1>8. held' = IF TRUE THEN held \cup {<<"minor", m, p>>} ELSE held
  BY <1>1
<1>9. NotedAs(d, p, "minor", "minor", "ok", c, m, TRUE)
  <2>1. c.state = "live" /\ c.device = d
    BY <1>4, <1>7 DEF Live
  <2> QED
    BY <1>0, <1>1, <1>2, <1>3, <1>6, <1>7, <1>8, <2>1 DEF NotedAs
<1> QED
  BY <1>3, <1>9, NotedStep

LEMMA NotingSteps ==
    ASSUME Ownership, NEW d \in Devices,
           \/ CreateNode(d) \/ GetAddress(d) \/ RequestRegion(d) \/ MapRegisters(d)
           \/ NoMapping(d) \/ AddCdev(d) \/ RegisterInput(d) \/ RequestIrq(d)
    PROVE  Ownership'
<1>1. CASE CreateNode(d)
  BY <1>1, ObtainedStep DEF CreateNode, Key
<1>2. CASE GetAddress(d)
  <2>1. held' = IF FALSE THEN held \cup {<<"region", Key("region", drvdata[d]), drvdata[d]>>}
                ELSE held
    BY <1>2 DEF GetAddress
  <2>2. /\ "address" \in (Kinds \cup {"address"}) \ {"minor"} /\ "region" \in Kinds
        /\ ProbeAt(d, "address") /\ Noted(d, "region", "ok")
    BY <1>2 DEF Kinds, GetAddress
  <2> QED
    BY <2>1, <2>2, NotingStep
<1>3. CASE RequestRegion(d)
  <2>1. Key("region", drvdata[d]) = d
    <3>1. "region" \in Kinds \cup {"address"} /\ ProbeAt(d, "region")
      BY <1>3 DEF Kinds, RequestRegion
    <3>2. port[drvdata[d]].device = d
      BY <3>1, InProbe
    <3> QED
      BY <3>2 DEF Key
  <2> QED
    BY <1>3, <2>1, ObtainedStep DEF RequestRegion
<1>4. CASE MapRegisters(d)
  BY <1>4, ObtainedStep DEF MapRegisters
<1>5. CASE NoMapping(d)
  <2>1. PICK s, v, got : s = "mapping" /\ v = "err" /\ got = FALSE
    OBVIOUS
  <2>2. held' = IF got THEN held \cup {<<s, Key(s, drvdata[d]), drvdata[d]>>} ELSE held
    BY <1>5, <2>1 DEF NoMapping
  <2>3. /\ s \in (Kinds \cup {"address"}) \ {"minor"} /\ s \in Kinds
        /\ ProbeAt(d, s) /\ Noted(d, s, v)
    BY <1>5, <2>1 DEF Kinds, NoMapping
  <2>4. /\ s # "address" /\ s # "irq"
        /\ got \in BOOLEAN /\ (got <=> (v = "ok" /\ s # "address") \/ s = "irq")
        /\ v = "ok" \/ (v = "err" /\ s = "mapping") \/ (v = "null" /\ s = "irq")
        /\ s \in {"node", "region"} /\ got => ~Taken(s, Key(s, drvdata[d]))
    BY <2>1
  <2> QED
    BY <2>2, <2>3, <2>4, NotingStep, Zenon
<1>6. CASE AddCdev(d)
  BY <1>6, ObtainedStep DEF AddCdev
<1>7. CASE RegisterInput(d)
  BY <1>7, ObtainedStep DEF RegisterInput
<1>8. CASE RequestIrq(d)
  <2>1. held' = IF TRUE THEN held \cup {<<"irq", Key("irq", drvdata[d]), drvdata[d]>>}
                ELSE held
    BY <1>8 DEF RequestIrq
  <2>2. /\ "irq" \in (Kinds \cup {"address"}) \ {"minor"} /\ "irq" \in Kinds
        /\ ProbeAt(d, "irq") /\ Noted(d, "irq", "null")
    BY <1>8 DEF Kinds, RequestIrq
  <2> QED
    BY <2>1, <2>2, NotingStep, ZenonT(60)
<1> QED
  BY <1>1, <1>2, <1>3, <1>4, <1>5, <1>6, <1>7, <1>8

(* A step of a probe fails and its error, or nothing, is noted.            *)
LEMMA GivesUpStep ==
    ASSUME Ownership, NEW d \in Devices,
           NEW s \in (Kinds \cup {"address"}) \ {"mapping", "cdev"}, ProbeAt(d, s),
           NEW k \in Kinds, s = "address" => k = "region", s # "address" => k = s,
           NEW v \in {"err", "null"}, k \in {"minor", "node"} <=> v = "err",
           NEW m \in BOOLEAN, GivesUp(d, k, v, m)
    PROVE  Ownership'
<1>0. PICK p \in 0 .. MaxPorts : p = drvdata[d]
  BY OneDevice
<1> DEFINE n == ProbePos(s)
<1>1. /\ p \in Ports /\ Live(p) /\ Attached(p) /\ port[p].device = d
      /\ PortInv(p) /\ d \notin bound
      /\ task[d].run = "probe" /\ task[d].at = n /\ n \in 2 .. ProbeLen /\ Marks(p, n)
      /\ ~(Holds(p, "irq") /\ ended[p] = "no")
      /\ \A j \in Kinds \ {"irq"} :
            Holds(p, j) <=> port[p].note[j] = "ok" /\ (j = "region" => s # "region")
  BY <1>0, InProbe
<1>2. /\ port' = [port EXCEPT ![p].note[k] = v]
      /\ task' = [task EXCEPT ![d] = [run |-> "undo", at |-> 1, misread |-> m]]
  BY <1>0 DEF GivesUp
<1>3. /\ driver' = driver /\ module' = module /\ statics' = statics
      /\ bound' = bound /\ drvdata' = drvdata /\ file' = file
      /\ ended' = ended /\ broken' = broken /\ held' = held
      /\ UNCHANGED <<moduleVars, file, broken>>
  BY DEF GivesUp, moduleVars
<1>4. TypeOK
  BY DEF Ownership
<1>5. port[p] \in [state : {"unborn", "live", "freed"},
                   device : Devices \cup {0}, minor : Minors \cup {0},
                   note : [Kinds -> {"null", "ok", "err"}]]
  BY <1>1, <1>4 DEF TypeOK
<1> DEFINE c == [port[p] EXCEPT !.note = [port[p].note EXCEPT ![k] = v]]
<1>6. port' = [port EXCEPT ![p] = c]
  BY <1>2
<1>7. /\ c \in [state : {"unborn", "live", "freed"},
                device : Devices \cup {0}, minor : Minors \cup {0},
                note : [Kinds -> {"null", "ok", "err"}]]
      /\ c.state = port[p].state /\ c.device = port[p].device
      /\ c.minor = port[p].minor /\ c.note[k] = v
      /\ \A j \in Kinds \ {k} : c.note[j] = port[p].note[j]
  BY <1>5
<1> HIDE DEF c, n
<1>8. /\ port'[p] = c /\ (\A q \in Ports \ {p} : port'[q] = port[q])
      /\ port' \in [Ports -> [state : {"unborn", "live", "freed"},
                              device : Devices \cup {0}, minor : Minors \cup {0},
                              note : [Kinds -> {"null", "ok", "err"}]]]
  BY <1>1, <1>4, <1>6, <1>7 DEF TypeOK
<1>9. /\ task'[d].run = "undo" /\ task'[d].at = 1
      /\ \A e \in Devices \ {d} : task'[e] = task[e]
      /\ task' \in [Devices -> [run : {"none", "probe", "undo", "remove", "oops"},
                                at : 1 .. 8, misread : BOOLEAN]]
  BY <1>2, <1>4 DEF TypeOK
<1>10. /\ s # "region" => ~(NotePos(k) < n)
       /\ driver = "keypad" => k \notin {"minor", "node", "cdev"}
       /\ driver # "keypad" => k \notin {"input", "irq"}
  BY <1>1, NotePositions DEF n
<1>11. \A j \in Kinds : IF NotePos(j) < n
                        THEN port[p].note[j] = "ok" \/ (j = "mapping" /\ port[p].note[j] = "err")
                        ELSE port[p].note[j] = "null"
  BY <1>1 DEF Marks
<1>12. n \in 2 .. 7
  BY <1>1 DEF ProbeLen
<1>13. port[p].note["cdev"] = "null" /\ c.note["cdev"] = "null"
  <2>1. ~(NotePos("cdev") < n)
    BY <1>12, Positions
  <2> QED
    BY <1>7, <1>11, <2>1 DEF Kinds
<1>14. Live(p)' /\ port'[p].device = d /\ Attached(p)'
  BY <1>0, <1>1, <1>3, <1>7, <1>8 DEF Live, Attached
<1>15. DeviceInv(d)'
  <2>1. ASSUME driver # "keypad"
        PROVE  /\ c.note["minor"] # "null"
               /\ c.note["node"] = "null" =>
                     \A j \in {"region", "mapping"} : c.note[j] = "null"
    <3>1. /\ NotePos("minor") = 2 /\ NotePos("node") = 3 /\ NotePos("region") = 4
          /\ NotePos("mapping") = 6
          /\ ProbePos("minor") = 2 /\ ProbePos("node") = 3
          /\ ProbePos("address") = 4 /\ ProbePos("region") = 5
      BY <2>1, Positions
    <3>2. k \in {"minor", "node", "region"} /\ (k = "region" => s \in {"address", "region"})
      BY <1>10, <2>1 DEF Kinds
    <3>3. CASE k = "minor"
      <4>1. n = 2
        BY <3>1, <3>3 DEF n
      <4> QED
        BY <1>7, <1>11, <3>1, <3>3, <4>1 DEF Kinds
    <3>4. CASE k = "node"
      <4>1. n = 3
        BY <3>1, <3>4 DEF n
      <4> QED
        BY <1>7, <1>11, <3>1, <3>4, <4>1 DEF Kinds
    <3>5. CASE k = "region"
      <4>1. n \in {4, 5}
        BY <3>1, <3>2, <3>5 DEF n
      <4> QED
        BY <1>7, <1>11, <3>1, <3>5, <4>1 DEF Kinds
    <3> QED
      BY <3>2, <3>3, <3>4, <3>5
  <2>2. 1 <= RemoveLen'
    BY DEF RemoveLen
  <2>3. Owns(d)'
    BY <1>0, <1>1, <1>3, <1>14 DEF Owns
  <2>4. Undoing(d)'
    BY <1>0, <1>1, <1>3, <1>8, <1>9, <1>13, <2>1, <2>2, <2>3 DEF Undoing
  <2> QED
    BY <1>0, <1>3, <1>7, <1>8, <1>9, <1>14, <2>4 DEF DeviceInv, Live
<1>16. \A j : \A q \in Ports : Key(j, q)' = Key(j, q)
  BY <1>1, <1>7, <1>8 DEF Key
<1>17. PortInv(p)'
  <2>1. \A j : Holds(p, j)' <=> Holds(p, j)
    BY <1>1, <1>3, <1>16 DEF Holds
  <2>2. \A j \in Kinds : Pending(p, j)'
    <3>1. \A j : 1 <= RemovePos(j)'
      BY DEF RemovePos, Never
    <3> QED
      BY <1>9, <1>14, <3>1 DEF Pending, Removing
  <2>3. ASSUME NEW j \in Kinds \ {"irq"}
        PROVE  Holds(p, j) <=> c.note[j] = "ok"
    <3>1. CASE j # k
      <4>1. j = "region" => s # "region"
        BY <3>1
      <4> QED
        BY <1>1, <1>7, <2>3, <3>1, <4>1
    <3>2. CASE j = k
      <4>1. s # "region" => port[p].note[k] = "null"
        BY <1>10, <1>11
      <4>2. ~Holds(p, k)
        BY <1>1, <2>3, <3>2, <4>1
      <4> QED
        BY <1>7, <3>2, <4>2
    <3> QED
      BY <3>1, <3>2
  <2>4. \A j \in Kinds \ {"irq"} :
            Holds(p, j)' <=> Live(p)' /\ port'[p].note[j] = "ok"
                             /\ (Attached(p)' => Pending(p, j)')
    BY <1>8, <1>14, <2>1, <2>2, <2>3
  <2>5. \A j \in Kinds : j = k \/ c.note[j] = port[p].note[j]
    BY <1>7
  <2>6. /\ driver = "keypad" => \A j \in {"minor", "node", "cdev"} : c.note[j] = "null"
        /\ driver # "keypad" => c.note["input"] = "null"
    BY <1>1, <1>10, <2>5 DEF PortInv, Kinds
  <2>7. c.state # "unborn"
    BY <1>1, <1>7 DEF Live
  <2> QED
    BY <1>1, <1>3, <1>8, <1>14, <2>1, <2>4, <2>6, <2>7 DEF PortInv
<1>18. TypeOK'
  BY <1>3, <1>4, <1>8, <1>9, TypeKept DEF TypeOK
<1>19. OneOwner' /\ NodesHaveNumbers'
  <2>1. \A t \in held : Key(t[1], t[3])' = Key(t[1], t[3])
    BY <1>4, <1>16 DEF TypeOK
  <2> QED
    BY <1>3, <2>1, HeldKept DEF Ownership
<1>20. \A u \in Users : file[u] = p => FileInv(u)'
  BY <1>3, <1>13 DEF FileInv, Ownership
<1>21. \A e \in Devices \ {d} : /\ drvdata'[e] = drvdata[e] /\ task'[e] = task[e]
                                /\ e \in bound' <=> e \in bound
  BY <1>3, <1>9
<1>22. /\ \A q \in Ports \ {p} : port'[q] = port[q] /\ ended'[q] = ended[q]
       /\ ended'[p] = "unload" => ended[p] = "unload"
       /\ \A j, x, q : q # p => (<<j, x, q>> \in held' <=> <<j, x, q>> \in held)
  BY <1>3, <1>8
<1>23. drvdata'[d] = p /\ task[d].run # "none"
  BY <1>0, <1>1, <1>3
<1> QED
  BY <1>0, <1>1, <1>3, <1>14, <1>15, <1>17, <1>18, <1>19, <1>20, <1>21, <1>22, <1>23,
     PortStep, Zenon

(* A failed cdev_add() cuts the port off, with the region taken.           *)
LEMMA NoCdevStep ==
    ASSUME Ownership, NEW d \in Devices, NoCdev(d)
    PROVE  Ownership'
<1>0. PICK p \in 0 .. MaxPorts : p = drvdata[d]
  BY OneDevice
<1>1. /\ ProbeAt(d, "cdev") /\ "cdev" \in Kinds \cup {"address"}
      /\ drvdata' = [drvdata EXCEPT ![d] = 0] /\ task' = [task EXCEPT ![d] = Idle]
  BY DEF NoCdev, Kinds
<1>2. /\ p \in Ports /\ Live(p) /\ Attached(p) /\ port[p].device = d
      /\ PortInv(p) /\ d \notin bound
      /\ task[d].run = "probe" /\ ProbePos("cdev") \in 2 .. ProbeLen
      /\ Marks(p, ProbePos("cdev"))
      /\ ~(Holds(p, "irq") /\ ended[p] = "no")
      /\ \A j \in Kinds \ {"irq"} : Holds(p, j) <=> port[p].note[j] = "ok"
  BY <1>0, <1>1, InProbe
<1>3. /\ driver' = driver /\ module' = module /\ statics' = statics
      /\ bound' = bound /\ port' = port /\ held' = held /\ file' = file
      /\ ended' = ended /\ broken' = broken
      /\ UNCHANGED <<moduleVars, file, broken>>
  BY DEF NoCdev, moduleVars
<1>4. TypeOK /\ p # 0 /\ 0 \in 0 .. MaxPorts
  BY <1>2, LifecycleAssumption DEF Ownership, Ports, LifecycleAssumption
<1>5. driver # "keypad"
  BY <1>2, Positions
<1>6. port[p].note["region"] = "ok" /\ port[p].note["cdev"] = "null"
  BY <1>2, <1>5, Positions DEF Marks, Kinds
<1>7. drvdata'[d] = 0 /\ task'[d] = Idle
  BY <1>1, <1>4 DEF TypeOK
<1>8. \A e \in Devices \ {d} : /\ drvdata'[e] = drvdata[e] /\ task'[e] = task[e]
                               /\ e \in bound' <=> e \in bound
  BY <1>1, <1>3, <1>4 DEF TypeOK
<1>9. DeviceInv(d)'
  BY <1>2, <1>3, <1>7, IdleTask DEF DeviceInv, Resting
<1>10. Live(p)' /\ ~Attached(p)' /\ port'[p].device = d
  BY <1>2, <1>3, <1>4, <1>7 DEF Live, Attached
<1>11. \A j : Holds(p, j)' <=> Holds(p, j)
  BY <1>3 DEF Holds, Key
<1>12. PortInv(p)'
  BY <1>2, <1>3, <1>6, <1>10, <1>11 DEF PortInv
<1>13. TypeOK'
  <2>1. drvdata' \in [Devices -> 0 .. MaxPorts]
    BY <1>1, <1>4 DEF TypeOK
  <2>2. task' \in [Devices -> [run : {"none", "probe", "undo", "remove", "oops"},
                               at : 1 .. 8, misread : BOOLEAN]]
    BY <1>1, <1>4, IdleTask DEF TypeOK
  <2> QED
    BY <1>3, <1>4, <2>1, <2>2 DEF TypeOK
<1>14. OneOwner' /\ NodesHaveNumbers'
  <2>1. \A t \in held : Key(t[1], t[3])' = Key(t[1], t[3])
    BY <1>3 DEF Key
  <2> QED
    BY <1>3, <2>1, HeldKept DEF Ownership
<1>15. \A u \in Users : file[u] = p => FileInv(u)'
  BY <1>3 DEF FileInv, Ownership, Live
<1>16. /\ \A q \in Ports \ {p} : port'[q] = port[q] /\ ended'[q] = ended[q]
       /\ ended'[p] = "unload" => ended[p] = "unload"
       /\ \A j, x, q : q # p => (<<j, x, q>> \in held' <=> <<j, x, q>> \in held)
       /\ drvdata'[d] \in {0, p} /\ task[d].run # "none"
  BY <1>2, <1>3, <1>7
<1> QED
  BY <1>0, <1>2, <1>3, <1>8, <1>9, <1>10, <1>12, <1>13, <1>14, <1>15, <1>16, PortStep, Zenon

-----------------------------------------------------------------------------
(* The steps of a remove. *)

(* What is known while remove() runs.                                      *)
LEMMA InRemove ==
    ASSUME Ownership, NEW d \in Devices, NEW p, p = drvdata[d], Removing(d)
    PROVE  /\ p \in Ports /\ Live(p) /\ Attached(p) /\ port[p].device = d
           /\ PortInv(p)
           /\ task[d].at \in 1 .. RemoveLen /\ RemoveLen \in {5, 6}
           /\ RemoveAt(d) \in Kinds \cup {"port"}
           /\ \A k \in Kinds \cup {"port"} :
                 RemoveAt(d) = k <=> task[d].at = RemovePos(k)
           /\ ~(Holds(p, "irq") /\ ended[p] = "no")
           /\ \A k \in Kinds \ {"irq"} :
                 Holds(p, k) <=> port[p].note[k] = "ok" /\ task[d].at <= RemovePos(k)
<1>1. /\ TypeOK /\ DeviceInv(d) /\ (p # 0 <=> p \in Ports)
      /\ p \in Ports => PortInv(p) /\ port[p].device = d /\ (Attached(p) <=> Live(p))
      /\ task[d].at \in 1 .. 8
  BY OneDevice
<1>2. /\ p \in Ports /\ Live(p) /\ task[d].at <= RemoveLen
      /\ task[d].run \in {"remove", "undo"}
  BY <1>1 DEF DeviceInv, Removing, Undoing, BeingRemoved, Owns
<1>3. task[d].at \in 1 .. RemoveLen /\ RemoveLen \in {5, 6}
  BY <1>1, <1>2 DEF RemoveLen
<1>4. \A k \in Kinds : Pending(p, k) <=> task[d].at <= RemovePos(k)
  BY <1>1, <1>2 DEF Pending, Removing
<1>5. ~(Holds(p, "irq") /\ ended[p] = "no")
  BY <1>1, <1>2 DEF PortInv
<1>6. \A k \in Kinds \ {"irq"} :
          Holds(p, k) <=> port[p].note[k] = "ok" /\ task[d].at <= RemovePos(k)
  BY <1>1, <1>2, <1>4 DEF PortInv
<1>7. /\ RemoveAt(d) \in Kinds \cup {"port"}
      /\ \A k \in Kinds \cup {"port"} : RemoveAt(d) = k <=> task[d].at = RemovePos(k)
  BY <1>1, <1>2, RemoveAtPos
<1> QED
  BY <1>1, <1>2, <1>3, <1>5, <1>6, <1>7

(* A step of remove() releases what the port holds, and nobody else's.     *)
LEMMA ReleaseStep ==
    ASSUME Ownership, NEW d \in Devices, Release(d)
    PROVE  Ownership'
<1>0. PICK p \in 0 .. MaxPorts : p = drvdata[d]
  BY OneDevice
<1>1. PICK k : k = RemoveAt(d)
  OBVIOUS
<1>2. /\ Removing(d) /\ k # "port"
      /\ ~(k = "node" /\ port[p].note[k] = "null")
      /\ task' = [task EXCEPT ![d].at = @ + 1]
  BY <1>0, <1>1 DEF Release
<1>3. held' = IF Releases(k, port[p].note[k])
              THEN held \ {<<k, Key(k, p), q>> : q \in Ports} ELSE held
  BY <1>0, <1>1 DEF Release
<1>4. /\ driver' = driver /\ module' = module /\ statics' = statics
      /\ bound' = bound /\ drvdata' = drvdata /\ port' = port /\ file' = file
      /\ ended' = ended /\ broken' = broken
      /\ UNCHANGED <<moduleVars, file, broken>>
  BY DEF Release, moduleVars
<1>5. TypeOK /\ OneOwner /\ NodesHaveNumbers /\ DeviceInv(d)
  BY DEF Ownership
<1> DEFINE n == task[d].at
<1>6. /\ p \in Ports /\ Live(p) /\ Attached(p) /\ port[p].device = d
      /\ PortInv(p)
      /\ n \in 1 .. RemoveLen /\ RemoveLen \in {5, 6}
      /\ ~(Holds(p, "irq") /\ ended[p] = "no")
  BY <1>0, <1>2, InRemove
<1>7. /\ k \in Kinds \cup {"port"}
      /\ \A j \in Kinds \cup {"port"} : k = j <=> n = RemovePos(j)
      /\ \A j \in Kinds \ {"irq"} :
            Holds(p, j) <=> port[p].note[j] = "ok" /\ n <= RemovePos(j)
  BY <1>0, <1>1, <1>2, InRemove
<1>8. /\ \A j : RemovePos(j) \in 1 .. 9
      /\ RemovePos("port") = RemoveLen
      /\ driver # "keypad" => RemovePos("cdev") = 1 /\ RemovePos("node") = 4
                              /\ RemovePos("minor") = 5
      /\ driver = "keypad" => RemovePos("minor") = 9
  <2>1. \A j : RemovePos(j) \in 1 .. 9
    BY DEF RemovePos, Never
  <2>2. CASE driver = "keypad"
    BY <2>1, <2>2 DEF RemovePos, RemoveLen, Never
  <2>3. CASE driver # "keypad"
    BY <2>1, <2>3 DEF RemovePos, RemoveLen, Never
  <2> QED
    BY <2>1, <2>2, <2>3
<1>9. k \in Kinds /\ n < RemoveLen /\ n = RemovePos(k)
  BY <1>2, <1>6, <1>7, <1>8
<1>10. /\ task'[d].run = task[d].run /\ task'[d].at = n + 1
       /\ \A e \in Devices \ {d} : task'[e] = task[e]
       /\ task' \in [Devices -> [run : {"none", "probe", "undo", "remove", "oops"},
                                 at : 1 .. 8, misread : BOOLEAN]]
  <2>1. task[d].at < 8
    BY <1>6, <1>9
  <2> QED
    BY <1>2, <1>5, <2>1, NextStep, Zenon
<1> HIDE DEF n
<1>11. port[p].note[k] \in {"null", "ok", "err"}
  BY <1>5, <1>6, <1>9 DEF TypeOK
<1>12. Releases(k, port[p].note[k]) <=> port[p].note[k] = "ok"
  <2>1. k = "minor" => port[p].note["minor"] # "null"
    <3> SUFFICES ASSUME k = "minor" PROVE port[p].note["minor"] # "null"
      OBVIOUS
    <3>1. driver # "keypad"
      BY <1>6, <1>8, <1>9
    <3>2. CASE task[d].run = "undo"
      BY <1>0, <1>5, <3>1, <3>2 DEF DeviceInv, Undoing
    <3>3. CASE task[d].run = "remove"
      <4>1. Marks(p, 8)
        BY <1>0, <1>5, <3>3 DEF DeviceInv, BeingRemoved
      <4>2. NotePos("minor") < 8
        BY <3>1, Positions
      <4> QED
        BY <4>1, <4>2 DEF Marks, Kinds
    <3> QED
      BY <1>2, <3>2, <3>3 DEF Removing
  <2> QED
    BY <1>2, <1>11, <2>1 DEF Releases
\* What is released is the port's own.
<1>13. Releases(k, port[p].note[k]) => \A q : <<k, Key(k, p), q>> \in held => q = p
  <2> SUFFICES ASSUME Releases(k, port[p].note[k]), NEW q, <<k, Key(k, p), q>> \in held
               PROVE  q = p
    OBVIOUS
  <2>1. CASE k = "irq"
    <3>1. Key(k, p) = p /\ Key(k, q) = q
      BY <2>1 DEF Key
    <3> QED
      BY <1>5, <3>1 DEF OneOwner
  <2>2. CASE k # "irq"
    <3>1. Holds(p, k)
      BY <1>7, <1>8, <1>9, <1>12, <2>2
    <3> QED
      BY <1>5, <3>1 DEF OneOwner, Holds
  <2> QED
    BY <2>1, <2>2
<1>14. \A j, x, q : q # p => (<<j, x, q>> \in held' <=> <<j, x, q>> \in held)
  BY <1>3, <1>13
<1>15. held' \subseteq held
  BY <1>3
<1>16. \A j, q : Key(j, q)' = Key(j, q)
  BY <1>4 DEF Key
<1>17. \A j \in Kinds : Holds(p, j)' <=>
            Holds(p, j) /\ ~(j = k /\ Releases(k, port[p].note[k]))
  BY <1>3, <1>6, <1>16 DEF Holds
<1>18. Live(p)' /\ port'[p].device = d /\ Attached(p)'
  BY <1>4, <1>6 DEF Live, Attached
<1>19. DeviceInv(d)'
  <2>1. n + 1 <= RemoveLen'
    BY <1>4, <1>6, <1>9 DEF RemoveLen
  <2>2. Owns(d)'
    BY <1>0, <1>4, <1>6, <1>18 DEF Owns
  <2>3. Marks(p, 8) => Marks(p, 8)'
    BY <1>4 DEF Marks, NotePos, ProbePos
  <2>4. Alone(d) => Alone(d)'
    BY <1>4 DEF Alone, Live
  <2>5. CASE task[d].run = "undo"
    <3>1. Undoing(d)'
      BY <1>4, <1>5, <1>10, <2>1, <2>2, <2>5 DEF DeviceInv, Undoing
    <3> QED
      BY <1>4, <1>5, <1>10, <2>5, <3>1 DEF DeviceInv
  <2>6. CASE task[d].run = "remove"
    <3>1. BeingRemoved(d)'
      BY <1>0, <1>4, <1>5, <1>10, <2>1, <2>2, <2>3, <2>4, <2>6 DEF DeviceInv, BeingRemoved
    <3> QED
      BY <1>4, <1>5, <1>10, <2>6, <3>1 DEF DeviceInv
  <2> QED
    BY <1>2, <2>5, <2>6 DEF Removing
<1>20. PortInv(p)'
  <2>1. \A j \in Kinds : Pending(p, j)' <=> n + 1 <= RemovePos(j)
    <3>1. \A j : RemovePos(j)' = RemovePos(j)
      BY <1>4 DEF RemovePos
    <3>2. task'[d].run \in {"remove", "undo"}
      BY <1>2, <1>10 DEF Removing
    <3> QED
      BY <1>10, <1>18, <3>1, <3>2 DEF Pending, Removing
  <2>2. ASSUME NEW j \in Kinds \ {"irq"}
        PROVE  Holds(p, j)' <=> port[p].note[j] = "ok" /\ n + 1 <= RemovePos(j)
    <3>1. n \in Nat /\ RemovePos(j) \in 1 .. 9
      BY <1>6, <1>8 DEF n
    <3>2. CASE j = k
      BY <1>7, <1>9, <1>12, <1>17, <2>2, <3>1, <3>2
    <3>3. CASE j # k
      <4>1. n # RemovePos(j)
        BY <1>7, <2>2, <3>3
      <4> QED
        BY <1>7, <1>17, <2>2, <3>1, <3>3, <4>1
    <3> QED
      BY <3>2, <3>3
  <2>3. \A j \in Kinds \ {"irq"} :
            Holds(p, j)' <=> Live(p)' /\ port'[p].note[j] = "ok"
                             /\ (Attached(p)' => Pending(p, j)')
    BY <1>4, <1>18, <2>1, <2>2
  <2>4. ~(Holds(p, "irq")' /\ ended'[p] = "no")
    BY <1>4, <1>6, <1>17 DEF Kinds
  <2> QED
    BY <1>4, <1>6, <1>18, <2>3, <2>4 DEF PortInv
<1>21. TypeOK'
  BY <1>4, <1>5, <1>10, <1>15, TypeKept DEF TypeOK
<1>22. OneOwner'
  BY <1>5, <1>15, <1>16 DEF OneOwner
<1>23. NodesHaveNumbers'
  <2> SUFFICES ASSUME NEW t \in held', t[1] \in {"node", "cdev"},
                      <<"minor", t[2], t[3]>> \notin held'
               PROVE  FALSE
    BY DEF NodesHaveNumbers
  <2>1. t \in held /\ t = <<t[1], t[2], t[3]>> /\ <<"minor", t[2], t[3]>> \in held
    BY <1>5, <1>15 DEF NodesHaveNumbers, TypeOK
  <2>2. t[3] = p /\ k = "minor"
    BY <1>3, <1>14, <2>1
  <2>3. Holds(p, t[1])
    BY <1>5, <2>1, <2>2 DEF OneOwner, Holds
  <2>4. n <= RemovePos(t[1])
    BY <1>7, <2>3 DEF Kinds
  <2>5. n = 5 /\ RemovePos(t[1]) < 5
    BY <1>6, <1>8, <1>9, <2>2
  <2> QED
    BY <1>8, <2>4, <2>5
<1>24. \A u \in Users : file[u] = p => FileInv(u)'
  BY <1>4 DEF FileInv, Ownership, Live
<1>25. \A e \in Devices \ {d} : /\ drvdata'[e] = drvdata[e] /\ task'[e] = task[e]
                                /\ e \in bound' <=> e \in bound
  BY <1>4, <1>10
<1>26. /\ \A q \in Ports \ {p} : port'[q] = port[q] /\ ended'[q] = ended[q]
       /\ ended'[p] = "unload" => ended[p] = "unload"
       /\ drvdata'[d] = p /\ task[d].run # "none"
  BY <1>0, <1>2, <1>4 DEF Removing
<1> QED
  BY <1>0, <1>4, <1>6, <1>14, <1>18, <1>19, <1>20, <1>21, <1>22, <1>23, <1>24, <1>25,
     <1>26, PortStep, Zenon

(* When remove() frees the port, the kernel has nothing of it left but the *)
(* keypad's handler.                                                       *)
LEMMA AllReleased ==
    ASSUME Ownership, NEW d \in Devices, NEW p, p = drvdata[d],
           Removing(d), RemoveAt(d) = "port"
    PROVE  \A j, x : <<j, x, p>> \in held => j = "irq" /\ x = p
<1>1. TypeOK /\ OneOwner
  BY DEF Ownership
<1>2. /\ p \in Ports /\ PortInv(p)
      /\ task[d].at = RemovePos("port")
      /\ \A k \in Kinds \ {"irq"} :
            Holds(p, k) <=> port[p].note[k] = "ok" /\ task[d].at <= RemovePos(k)
  BY InRemove
<1>3. SUFFICES ASSUME NEW j, NEW x, <<j, x, p>> \in held PROVE j = "irq" /\ x = p
  OBVIOUS
<1>4. j \in Kinds /\ x = Key(j, p)
  BY <1>1, <1>3 DEF TypeOK, OneOwner
<1>5. ASSUME j # "irq" PROVE FALSE
  <2>1. port[p].note[j] = "ok" /\ RemovePos("port") <= RemovePos(j)
    BY <1>2, <1>3, <1>4, <1>5 DEF Holds
  <2>2. CASE driver = "keypad"
    <3>1. j \notin {"minor", "node", "cdev"}
      BY <1>2, <2>1, <2>2 DEF PortInv
    <3> QED
      BY <1>4, <1>5, <2>1, <2>2, <3>1 DEF RemovePos, Kinds
  <2>3. CASE driver # "keypad"
    <3>1. j # "input"
      BY <1>2, <2>1, <2>3 DEF PortInv
    <3>2. RemovePos("port") = 6
      BY <2>3 DEF RemovePos
    <3>3. RemovePos(j) \in 1 .. 5
      <4>1. /\ RemovePos("cdev") = 1 /\ RemovePos("mapping") = 2 /\ RemovePos("region") = 3
            /\ RemovePos("node") = 4 /\ RemovePos("minor") = 5
        BY <2>3 DEF RemovePos
      <4>2. \/ j = "minor" \/ j = "node" \/ j = "region" \/ j = "mapping" \/ j = "cdev"
        BY <1>4, <1>5, <3>1 DEF Kinds
      <4> QED
        BY <4>1, <4>2
    <3> QED
      BY <2>1, <3>2, <3>3
  <2> QED
    BY <2>2, <2>3
<1> QED
  BY <1>4, <1>5 DEF Key

LEMMA FreePortStep ==
    ASSUME Ownership, NEW d \in Devices, FreePort(d)
    PROVE  Ownership'
<1>0. PICK p \in 0 .. MaxPorts : p = drvdata[d]
  BY OneDevice
<1> DEFINE c == [NoPort EXCEPT !.state = "freed", !.device = d]
<1>1. /\ Removing(d) /\ RemoveAt(d) = "port"
      /\ port' = [port EXCEPT ![p] = c] /\ task' = [task EXCEPT ![d] = Idle]
  BY <1>0 DEF FreePort
<1>2. \/ drvdata' = [drvdata EXCEPT ![d] = 0] /\ bound' = bound \ {d}
      \/ drvdata' = drvdata /\ bound' = bound \cup {d}
  BY DEF FreePort
<1>3. /\ driver' = driver /\ module' = module /\ statics' = statics
      /\ held' = held /\ file' = file /\ ended' = ended /\ broken' = broken
      /\ UNCHANGED <<moduleVars, file, broken>>
  BY DEF FreePort, moduleVars
<1>4. /\ c \in [state : {"unborn", "live", "freed"},
                device : Devices \cup {0}, minor : Minors \cup {0},
                note : [Kinds -> {"null", "ok", "err"}]]
      /\ c.state = "freed" /\ c.device = d /\ \A j \in Kinds : c.note[j] = "null"
  <2>1. NoPort \in [state : {"unborn", "live", "freed"},
                    device : Devices \cup {0}, minor : Minors \cup {0},
                    note : [Kinds -> {"null", "ok", "err"}]]
    BY DEF NoPort
  <2>2. \A j \in Kinds : NoPort.note[j] = "null"
    BY DEF NoPort
  <2> QED
    BY <2>1, <2>2
<1> HIDE DEF c
<1>5. TypeOK /\ OneOwner /\ NodesHaveNumbers /\ DeviceInv(d) /\ ModuleInv
  BY DEF Ownership
<1>6. /\ p \in Ports /\ Live(p) /\ port[p].device = d /\ PortInv(p)
      /\ ~(Holds(p, "irq") /\ ended[p] = "no")
  BY <1>0, <1>1, InRemove
<1>7. \A j, x : <<j, x, p>> \in held => j = "irq" /\ x = p
  BY <1>0, <1>1, AllReleased
<1>8. p # 0 /\ 0 \in 0 .. MaxPorts
  BY <1>6, LifecycleAssumption DEF Ports, LifecycleAssumption
<1>9. /\ port'[p] = c /\ (\A q \in Ports \ {p} : port'[q] = port[q])
      /\ port' \in [Ports -> [state : {"unborn", "live", "freed"},
                              device : Devices \cup {0}, minor : Minors \cup {0},
                              note : [Kinds -> {"null", "ok", "err"}]]]
  BY <1>1, <1>4, <1>5, <1>6 DEF TypeOK
<1>10. /\ task'[d] = Idle /\ (\A e \in Devices \ {d} : task'[e] = task[e])
       /\ task' \in [Devices -> [run : {"none", "probe", "undo", "remove", "oops"},
                                 at : 1 .. 8, misread : BOOLEAN]]
  BY <1>1, <1>5, IdleTask DEF TypeOK
<1>11. /\ drvdata' \in [Devices -> 0 .. MaxPorts] /\ bound' \subseteq Devices
       /\ \A e \in Devices \ {d} : drvdata'[e] = drvdata[e] /\ (e \in bound' <=> e \in bound)
       /\ \/ drvdata'[d] = 0 /\ d \notin bound'
          \/ drvdata'[d] = p /\ d \in bound'
  <2>1. drvdata \in [Devices -> 0 .. MaxPorts] /\ bound \subseteq Devices
    BY <1>5 DEF TypeOK
  <2>2. CASE drvdata' = [drvdata EXCEPT ![d] = 0] /\ bound' = bound \ {d}
    BY <1>8, <2>1, <2>2
  <2>3. CASE drvdata' = drvdata /\ bound' = bound \cup {d}
    BY <1>0, <2>1, <2>3
  <2> QED
    BY <1>2, <2>2, <2>3
<1>12. ~Live(p)' /\ port'[p].device = d
  BY <1>4, <1>9 DEF Live
<1>13. DeviceInv(d)'
  BY <1>4, <1>8, <1>9, <1>10, <1>11, <1>12, IdleTask DEF DeviceInv, Resting
<1>14. PortInv(p)'
  <2>1. \A j \in Kinds \ {"irq"} : ~Holds(p, j)'
    BY <1>3, <1>7 DEF Holds
  <2>2. Holds(p, "irq")' => Holds(p, "irq")
    BY <1>3 DEF Holds, Key
  <2>3. /\ \A j \in {"minor", "node", "cdev"} : c.note[j] = "null"
        /\ c.note["input"] = "null" /\ c.state # "unborn"
    BY <1>4 DEF Kinds
  <2> QED
    BY <1>3, <1>6, <1>9, <1>12, <2>1, <2>2, <2>3 DEF PortInv
<1>15. TypeOK'
  BY <1>3, <1>5, <1>9, <1>10, <1>11 DEF TypeOK
<1>16. OneOwner' /\ NodesHaveNumbers'
  <2>1. \A t \in held : Key(t[1], t[3])' = Key(t[1], t[3])
    <3> SUFFICES ASSUME NEW t \in held PROVE Key(t[1], t[3])' = Key(t[1], t[3])
      OBVIOUS
    <3>1. t[3] \in Ports /\ t = <<t[1], t[2], t[3]>>
      BY <1>5 DEF TypeOK
    <3>2. CASE t[3] = p
      <4>1. t[1] = "irq"
        BY <1>7, <3>1, <3>2
      <4> QED
        BY <4>1 DEF Key
    <3>3. CASE t[3] # p
      BY <1>9, <3>1, <3>3 DEF Key
    <3> QED
      BY <3>2, <3>3
  <2> QED
    BY <1>3, <1>5, <2>1, HeldKept
\* Who has the file of the port open has had it unbound under it by hand.
<1>17. ASSUME NEW u \in Users, file[u] = p PROVE FileInv(u)'
  <2>1. FileInv(u)
    BY DEF Ownership
  <2>2. ended[p] = "unbind"
    <3>1. CASE task[d].run = "undo"
      BY <1>0, <1>5, <1>8, <1>17, <2>1, <3>1 DEF DeviceInv, Undoing, FileInv
    <3>2. CASE task[d].run = "remove"
      <4>1. ended[p] # "no" /\ ended[p] \in {"no", "unbind", "unload"}
        BY <1>0, <1>5, <1>6, <3>2 DEF DeviceInv, BeingRemoved, TypeOK
      <4>2. ended[p] # "unload"
        BY <1>5, <1>6, <1>8, <1>17 DEF ModuleInv
      <4> QED
        BY <4>1, <4>2
    <3> QED
      BY <1>1, <3>1, <3>2 DEF Removing
  <2> QED
    BY <1>3, <1>17, <2>2 DEF FileInv
<1>18. \A e \in Devices \ {d} : /\ drvdata'[e] = drvdata[e] /\ task'[e] = task[e]
                                /\ e \in bound' <=> e \in bound
  BY <1>10, <1>11
<1>19. /\ \A q \in Ports \ {p} : port'[q] = port[q] /\ ended'[q] = ended[q]
       /\ ended'[p] = "unload" => ended[p] = "unload"
       /\ \A j, x, q : q # p => (<<j, x, q>> \in held' <=> <<j, x, q>> \in held)
       /\ drvdata'[d] \in {0, p} /\ task[d].run # "none"
  BY <1>1, <1>3, <1>9, <1>11 DEF Removing
<1> QED
  BY <1>0, <1>3, <1>6, <1>12, <1>13, <1>14, <1>15, <1>16, <1>17, <1>18, <1>19,
     PortStep, Zenon

-----------------------------------------------------------------------------
(* All steps. *)

LEMMA InitOwnership ==
    Init => Ownership
<1> SUFFICES ASSUME Init PROVE Ownership
  OBVIOUS
<1>1. /\ driver \in Drivers /\ module = "out" /\ statics = <<>> /\ bound = {}
      /\ held = {} /\ broken = FALSE /\ 0 \in 0 .. MaxPorts
      /\ \A d \in Devices : task[d] = Idle /\ drvdata[d] = 0
      /\ \A p \in Ports : port[p] = NoPort /\ ended[p] = "no"
      /\ \A u \in Users : file[u] = 0
  BY LifecycleAssumption DEF Init, LifecycleAssumption
<1>2. /\ NoPort \in [state : {"unborn", "live", "freed"},
                     device : Devices \cup {0}, minor : Minors \cup {0},
                     note : [Kinds -> {"null", "ok", "err"}]]
      /\ NoPort.state = "unborn" /\ \A k \in Kinds : NoPort.note[k] = "null"
  BY DEF NoPort
<1>3. \E n \in 0 .. Len(InitScript[driver]) : statics = SubSeq(InitScript[driver], 1, n)
  <2>1. InitScript[driver] \in {<<"class", "numbers", "driver">>, <<"driver">>}
    BY <1>1, Scripts
  <2>2. statics = SubSeq(InitScript[driver], 1, 0)
    BY <1>1, <2>1
  <2>3. 0 \in 0 .. Len(InitScript[driver])
    BY <2>1
  <2> QED
    BY <2>2, <2>3
<1>4. TypeOK
  <2>1. /\ task \in [Devices -> [run : {"none", "probe", "undo", "remove", "oops"},
                                 at : 1 .. 8, misread : BOOLEAN]]
        /\ drvdata \in [Devices -> 0 .. MaxPorts]
    BY <1>1, IdleTask DEF Init
  <2>2. port \in [Ports -> [state : {"unborn", "live", "freed"},
                            device : Devices \cup {0}, minor : Minors \cup {0},
                            note : [Kinds -> {"null", "ok", "err"}]]]
    BY <1>2 DEF Init
  <2>3. file \in [Users -> 0 .. MaxPorts] /\ ended \in [Ports -> {"no", "unbind", "unload"}]
    BY <1>1 DEF Init
  <2> QED
    BY <1>1, <1>3, <2>1, <2>2, <2>3 DEF TypeOK
<1>5. \A d \in Devices : DeviceInv(d)
  BY <1>1, IdleTask DEF DeviceInv, Resting
<1>6. \A p \in Ports : PortInv(p)
  <2> SUFFICES ASSUME NEW p \in Ports PROVE PortInv(p)
    OBVIOUS
  <2>1. ~Live(p) /\ \A k : ~Holds(p, k)
    BY <1>1, <1>2 DEF Live, Holds
  <2> QED
    BY <1>1, <1>2, <2>1 DEF PortInv, Kinds
<1>7. OneOwner /\ NodesHaveNumbers
  BY <1>1 DEF OneOwner, NodesHaveNumbers
<1>8. ModuleInv
  BY <1>1, IdleTask DEF ModuleInv, Quiet
<1> QED
  BY <1>1, <1>4, <1>5, <1>6, <1>7, <1>8 DEF Ownership, FileInv

LEMMA ProbeStep ==
    ASSUME Ownership, NEW d \in Devices, Probe(d)
    PROVE  Ownership'
<1>1. CASE AllocatePort(d) \/ NoMemory(d) \/ NoCdev(d) \/ ProbeSucceeds(d) \/ GetMinor(d)
  BY <1>1, AllocateStep, NoMemoryStep, NoCdevStep, ProbeSucceedsStep, GetMinorStep
<1>2. CASE \/ CreateNode(d) \/ GetAddress(d) \/ RequestRegion(d) \/ MapRegisters(d)
           \/ NoMapping(d) \/ AddCdev(d) \/ RegisterInput(d) \/ RequestIrq(d)
  BY <1>2, NotingSteps
<1>3. CASE NoMinor(d)
  BY <1>3, GivesUpStep DEF NoMinor, Kinds
<1>4. CASE NoNode(d)
  BY <1>4, GivesUpStep DEF NoNode, Kinds
<1>5. CASE NoAddress(d)
  BY <1>5, GivesUpStep DEF NoAddress, Kinds
<1>6. CASE NoRegion(d)
  BY <1>6, GivesUpStep DEF NoRegion, Kinds
<1>7. CASE NoInput(d)
  BY <1>7, GivesUpStep DEF NoInput, Kinds
<1>8. CASE NoIrq(d)
  BY <1>8, GivesUpStep DEF NoIrq, Kinds
<1> QED
  BY <1>1, <1>2, <1>3, <1>4, <1>5, <1>6, <1>7, <1>8 DEF Probe

LEMMA NextOwnership ==
    Ownership /\ [Next]_vars => Ownership'
<1> SUFFICES ASSUME Ownership, [Next]_vars PROVE Ownership'
  OBVIOUS
<1>1. broken \in BOOLEAN
  BY DEF Ownership, TypeOK
<1>2. CASE Load \/ LoadStep \/ LoadFails \/ Unload \/ UnloadStep
  BY <1>2, ModuleSteps
<1>3. ASSUME NEW d \in Devices,
             Bind(d) \/ Unbind(d) \/ Detach(d) \/ Probe(d) \/ Remove(d) \/ InterruptFaults(d)
      PROVE  Ownership'
  <2>1. CASE Bind(d) \/ Probe(d)
    BY <2>1, BindStep, ProbeStep
  <2>2. CASE Unbind(d) \/ Detach(d)
    BY <2>2, StartRemoveStep DEF Unbind, Detach
  <2>3. CASE Remove(d)
    BY <2>3, ReleaseStep, FollowNullStep, FreePortStep DEF Remove
  <2>4. CASE InterruptFaults(d)
    <3>1. UNCHANGED <<moduleVars, bound, task, portVars, file, ended>> /\ broken' = TRUE
      BY <2>4 DEF InterruptFaults
    <3> QED
      BY <3>1, Unchanged
  <2> QED
    BY <1>3, <2>1, <2>2, <2>3, <2>4
<1>4. ASSUME NEW u \in Users, Open(u) \/ Close(u) \/ UseFaults(u)
      PROVE  Ownership'
  <2>1. CASE Open(u) \/ Close(u)
    BY <2>1, FileSteps
  <2>2. CASE UseFaults(u)
    <3>1. UNCHANGED <<moduleVars, bound, task, portVars, file, ended>> /\ broken' = TRUE
      BY <2>2 DEF UseFaults
    <3> QED
      BY <3>1, Unchanged
  <2> QED
    BY <1>4, <2>1, <2>2
<1>5. CASE UNCHANGED vars
  BY <1>1, <1>5, Unchanged DEF vars
<1> QED
  BY <1>2, <1>3, <1>4, <1>5 DEF Next

-----------------------------------------------------------------------------
(***************************************************************************)
(* Whatever steps of the probes fail and whatever is bound, unbound,       *)
(* opened and unloaded meanwhile, each port holds what it notes and no     *)
(* more, each number, node and region has one owner, and a number goes     *)
(* back only after its node (probe() and remove() of the three drivers).   *)
(***************************************************************************)
THEOREM Inductive == Spec => []IInv
<1>1. Spec => []Ownership
  BY InitOwnership, NextOwnership, PTL DEF Spec
<1>2. Ownership => IInv
  BY BooksOfPorts
<1> QED
  BY <1>1, <1>2, PTL

(***************************************************************************)
(* Nothing but the keypad's interrupt handler is left of a port that       *)
(* remove() has freed, and a port that is attached has the class and the   *)
(* numbers its nodes need.                                                 *)
(***************************************************************************)
THEOREM ReleasesAll == Spec => []NothingOutlivesPort
<1>1. Spec => []Ownership
  BY InitOwnership, NextOwnership, PTL DEF Spec
<1>2. ASSUME Ownership PROVE NothingOutlivesPort
  <2> SUFFICES ASSUME NEW t \in held
               PROVE  /\ Live(t[3]) \/ (t[1] = "irq" /\ ended[t[3]] # "no")
                      /\ t[1] \in {"node", "cdev"} /\ Attached(t[3]) => Len(statics) = 3
    BY DEF NothingOutlivesPort
  <2>1. PICK k, x, p : t = <<k, x, p>> /\ k \in Kinds /\ p \in Ports
    BY <1>2 DEF Ownership, TypeOK
  <2>2. PortInv(p) /\ ModuleInv /\ Holds(p, k) /\ driver \in Drivers
    BY <1>2, <2>1 DEF Ownership, OneOwner, Holds, TypeOK
  <2>3. Live(p) \/ (k = "irq" /\ ended[p] # "no")
    BY <2>1, <2>2 DEF PortInv, Attached
  <2>4. ASSUME k \in {"node", "cdev"}, Attached(p) PROVE Len(statics) = 3
    <3>1. port[p].note[k] = "ok" /\ driver # "keypad"
      BY <2>2, <2>4 DEF PortInv, Kinds
    <3>2. Len(InitScript[driver]) = 3
      BY <2>2, <3>1, Scripts
    <3>3. ~Quiet
      <4>1. PICK d \in Devices : d = port[p].device
        BY <2>2, <2>4 DEF PortInv, Attached
      <4>2. drvdata[d] = p /\ p # 0 /\ DeviceInv(d)
        BY <1>2, <2>1, <2>4, <4>1 DEF Attached, Ports, Ownership
      <4> QED
        BY <4>1, <4>2 DEF Quiet, DeviceInv, Resting
    <3> QED
      BY <2>2, <3>2, <3>3 DEF ModuleInv
  <2> QED
    BY <2>1, <2>3, <2>4
<1> QED
  BY <1>1, <1>2, PTL

(* A port whose mapping is noted has it, or failed to get it, unless the   *)
(* driver core is removing its device.                                     *)
LEMMA NotedIsReady ==
    ASSUME Ownership, NEW p \in Ports, Live(p),
           port[p].note["mapping"] # "null",
           Attached(p) => ~Removing(port[p].device)
    PROVE  Ready(p)
<1>1. port[p].note["mapping"] \in {"ok", "err"}
  BY DEF Ownership, TypeOK, Kinds
<1>2. CASE port[p].note["mapping"] = "ok"
  <2>1. PortInv(p) /\ "mapping" \in Kinds \ {"irq"}
    BY DEF Ownership, Kinds
  <2>2. Attached(p) => Pending(p, "mapping")
    BY DEF Pending
  <2>3. Holds(p, "mapping")
    BY <1>2, <2>1, <2>2 DEF PortInv
  <2> QED
    BY <2>3 DEF Holds, Key, Ready, Mapped
<1> QED
  BY <1>1, <1>2 DEF Ready, MappingFailed

(***************************************************************************)
(* An open file, and the keypad's handler, find a port that is there, and  *)
(* mapped unless ioremap_nocache() failed unseen, but for what an unbind   *)
(* by hand takes away (hw_open, module owner, keypad_interrupt).           *)
(***************************************************************************)
THEOREM UsersAreServed == Spec => []UsersFindPort
<1>1. Spec => []Ownership
  BY InitOwnership, NextOwnership, PTL DEF Spec
<1>2. ASSUME Ownership PROVE UsersFindPort
  <2>1. /\ \A u \in Users : FileInv(u)
        /\ \A p \in Ports : PortInv(p)
        /\ \A d \in Devices : DeviceInv(d)
    BY <1>2 DEF Ownership
  <2>2. ASSUME NEW u \in Users, file[u] # 0, ended[file[u]] # "unbind"
        PROVE  Ready(file[u])
    <3>1. PICK p \in Ports : p = file[u]
      BY <1>2, <2>2 DEF Ownership, TypeOK, Ports
    <3>2. Live(p) /\ port[p].note["cdev"] = "ok" /\ port[p].note["mapping"] # "null"
      BY <2>1, <2>2, <3>1 DEF FileInv
    <3>3. ASSUME Attached(p), Removing(port[p].device) PROVE FALSE
      <4>1. PICK d \in Devices : d = port[p].device
        BY <2>1, <3>2 DEF PortInv
      <4>2. drvdata[d] = p /\ DeviceInv(d)
        BY <2>1, <3>3, <4>1 DEF Attached
      <4>3. task[d].run # "undo"
        BY <3>2, <4>2 DEF DeviceInv, Undoing
      <4>4. task[d].run = "remove" /\ ended[p] # "no"
        BY <3>3, <4>1, <4>2, <4>3 DEF Removing, DeviceInv, BeingRemoved
      <4>5. ended[p] = "unload"
        BY <1>2, <2>2, <3>1, <4>4 DEF Ownership, TypeOK
      <4> QED
        BY <1>2, <2>2, <3>1, <4>5 DEF Ownership, ModuleInv
    <3> QED
      BY <1>2, <3>1, <3>2, <3>3, NotedIsReady
  <2>3. ASSUME NEW p \in Ports, Holds(p, "irq"), ended[p] = "no"
        PROVE  Attached(p) /\ Ready(p)
    <3>1. PortInv(p) /\ Attached(p)
      BY <2>1, <2>3 DEF PortInv
    <3>2. Live(p) /\ port[p].note["mapping"] # "null"
      BY <2>3, <3>1 DEF PortInv, Attached
    <3>3. ~Removing(port[p].device)
      BY <2>3, <3>1 DEF PortInv, Removing
    <3> QED
      BY <1>2, <3>1, <3>2, <3>3, NotedIsReady
  <2> QED
    BY <1>2, <2>2, <2>3 DEF UsersFindPort, Ownership, TypeOK
<1> QED
  BY <1>1, <1>2, PTL

(***************************************************************************)
(* Once a failed cdev_add() has cut a port off, the region it keeps lets   *)
(* no later probe of the device come to a port that works.                 *)
(***************************************************************************)
THEOREM LostDevices == Spec => []LostForGood
<1>1. Spec => []Ownership
  BY InitOwnership, NextOwnership, PTL DEF Spec
<1>2. ASSUME Ownership PROVE LostForGood
  <2> SUFFICES ASSUME NEW d \in bound, Lost(d), Live(drvdata[d]) PROVE FALSE
    BY DEF LostForGood
  <2>1. d \in Devices
    BY <1>2 DEF Ownership, TypeOK
  <2>2. Alone(d)
    BY <1>2, <2>1, BoundIsAlone
  <2> QED
    BY <2>2 DEF Lost, Alone, Attached
<1> QED
  BY <1>1, <1>2, PTL

-----------------------------------------------------------------------------
(* What the driver core has still to do with a device.  A probe that fails *)
(* is undone, and an undone probe that reports success by mistake leaves a *)
(* device to be detached.                                                  *)

Running(d) == task[d].run \in {"probe", "undo", "remove"}

Work(d) ==
    CASE task[d].run = "probe" -> 27 - task[d].at
      [] task[d].run = "undo" -> 18 - task[d].at
      [] task[d].run = "remove" -> 9 - task[d].at
      [] task[d].run = "none" /\ d \in bound -> 9
      [] OTHER -> 0

TasksRunOut ==
    [][\A d \in Devices : Running(d) => Work(d)' < Work(d) \/ task'[d] = task[d]]_vars

OnDevice(d) ==
    /\ Work(d)' < Work(d)
    /\ UNCHANGED moduleVars
    /\ \A e \in Devices \ {d} : Work(e)' = Work(e)
OnModule ==
    /\ module' = "gone" \/ (module' = module /\ Len(statics') < Len(statics))
    /\ \A d \in Devices : Work(d)' = Work(d)

UnloadRunsOut ==
    [][module = "unloading" => (\E d \in Devices : OnDevice(d)) \/ OnModule \/ broken']_vars

\* Only a probe reads its result from a port it has freed.
NoMisread(d) == task[d].run = "remove" => ~task[d].misread
RemovesReadNothing == \A d \in Devices : NoMisread(d)

\* The driver core leaves the other devices as they are.
Apart(d) ==
    /\ UNCHANGED moduleVars
    /\ \A e \in Devices \ {d} : task'[e] = task[e] /\ (e \in bound' <=> e \in bound)

\* How the task of a device goes on.
GoesOn(d) == task' = [task EXCEPT ![d].at = @ + 1] /\ bound' = bound
TurnsBack(d) ==
    /\ task[d].run = "probe" /\ bound' = bound
    /\ \E b \in BOOLEAN : task' = [task EXCEPT ![d] = [run |-> "undo", at |-> 1, misread |-> b]]
StopsThere(d) == task' = [task EXCEPT ![d].run = "oops"] /\ bound' = bound
Ends(d) ==
    /\ task' = [task EXCEPT ![d] = Idle]
    /\ \/ task[d].run = "probe" /\ bound' \in {bound, bound \cup {d}}
       \/ bound' = bound \ {d}
       \/ task[d].misread /\ bound' = bound \cup {d}

LEMMA ProbeGoesOn ==
    ASSUME NEW d \in Devices, Probe(d)
    PROVE  /\ task[d].run = "probe" /\ UNCHANGED moduleVars
           /\ GoesOn(d) \/ TurnsBack(d) \/ Ends(d)
<1>1. CASE AllocatePort(d) \/ GetMinor(d)
  BY <1>1 DEF AllocatePort, GetMinor, ProbeAt, GoesOn
<1>2. CASE NoMemory(d) \/ NoCdev(d) \/ ProbeSucceeds(d)
  BY <1>2 DEF NoMemory, NoCdev, ProbeSucceeds, ProbeAt, Ends
<1>3. CASE \/ CreateNode(d) \/ GetAddress(d) \/ RequestRegion(d) \/ MapRegisters(d)
           \/ NoMapping(d) \/ AddCdev(d) \/ RegisterInput(d) \/ RequestIrq(d)
  BY <1>3 DEF CreateNode, GetAddress, RequestRegion, MapRegisters, NoMapping, AddCdev,
     RegisterInput, RequestIrq, Obtained, Noted, ProbeAt, GoesOn
<1>4. CASE NoMinor(d) \/ NoNode(d) \/ NoAddress(d) \/ NoRegion(d) \/ NoInput(d) \/ NoIrq(d)
  BY <1>4 DEF NoMinor, NoNode, NoAddress, NoRegion, NoInput, NoIrq, GivesUp, ProbeAt,
     TurnsBack
<1> QED
  BY <1>1, <1>2, <1>3, <1>4 DEF Probe

LEMMA RemoveGoesOn ==
    ASSUME NEW d \in Devices, Remove(d)
    PROVE  /\ Removing(d) /\ UNCHANGED moduleVars
           /\ GoesOn(d) \/ StopsThere(d) \/ Ends(d)
  BY DEF Remove, Release, FollowNull, FreePort, GoesOn, StopsThere, Ends

LEMMA TaskRunsOut ==
    ASSUME Ownership, RemovesReadNothing, NEW d \in Devices, Probe(d) \/ Remove(d)
    PROVE  Work(d)' < Work(d) /\ Apart(d) /\ NoMisread(d)'
<1>1. /\ task \in [Devices -> [run : {"none", "probe", "undo", "remove", "oops"},
                               at : 1 .. 8, misread : BOOLEAN]]
      /\ task[d].at \in 1 .. 8 /\ NoMisread(d)
      /\ task[d].run \in {"probe", "undo", "remove"} /\ UNCHANGED moduleVars
      /\ task[d].run = "probe" => d \notin bound
  BY OneDevice, ProbeGoesOn, RemoveGoesOn
     DEF TypeOK, RemovesReadNothing, Removing, DeviceInv, Probing
<1>2. CASE GoesOn(d)
  <2>1. /\ task'[d].run = task[d].run /\ task'[d].at = task[d].at + 1
        /\ task'[d].misread = task[d].misread
        /\ \A e \in Devices \ {d} : task'[e] = task[e]
    BY <1>1, <1>2 DEF GoesOn
  <2> QED
    BY <1>1, <1>2, <2>1 DEF GoesOn, Work, Apart, NoMisread
<1>3. CASE TurnsBack(d)
  <2>1. /\ task'[d].run = "undo" /\ task'[d].at = 1 /\ task[d].run = "probe"
        /\ \A e \in Devices \ {d} : task'[e] = task[e]
    BY <1>1, <1>3 DEF TurnsBack
  <2> QED
    BY <1>1, <1>3, <2>1 DEF TurnsBack, Work, Apart, NoMisread
<1>4. CASE StopsThere(d)
  <2>1. /\ task'[d].run = "oops"
        /\ \A e \in Devices \ {d} : task'[e] = task[e]
    BY <1>1, <1>4 DEF StopsThere
  <2> QED
    BY <1>1, <1>4, <2>1 DEF StopsThere, Work, Apart, NoMisread
<1>5. CASE Ends(d)
  <2>1. /\ task'[d].run = "none"
        /\ \A e \in Devices \ {d} : task'[e] = task[e] /\ (e \in bound' <=> e \in bound)
    BY <1>1, <1>5, IdleTask DEF Ends
  <2>2. task[d].run = "remove" => d \notin bound'
    BY <1>1, <1>5 DEF Ends, NoMisread
  <2> QED
    BY <1>1, <2>1, <2>2 DEF Work, Apart, NoMisread
<1> QED
  BY <1>2, <1>3, <1>4, <1>5, ProbeGoesOn, RemoveGoesOn

LEMMA DetachRunsOut ==
    ASSUME Ownership, RemovesReadNothing, NEW d \in Devices, Unbind(d) \/ Detach(d)
    PROVE  /\ ~Running(d) /\ Apart(d) /\ NoMisread(d)'
           /\ Work(d)' < Work(d) \/ broken'
<1>1. /\ task \in [Devices -> [run : {"none", "probe", "undo", "remove", "oops"},
                               at : 1 .. 8, misread : BOOLEAN]]
      /\ NoMisread(d) /\ task[d].run = "none" /\ d \in bound
      /\ UNCHANGED <<moduleVars, bound>>
  BY OneDevice DEF TypeOK, RemovesReadNothing, Unbind, Detach, StartRemove
<1>2. CASE task' = task /\ broken'
  BY <1>1, <1>2 DEF Running, Apart, NoMisread
<1>3. CASE task' = [task EXCEPT ![d] = [Idle EXCEPT !.run = "remove"]]
  <2>1. /\ task'[d].run = "remove" /\ task'[d].at = 1 /\ ~task'[d].misread
        /\ \A e \in Devices \ {d} : task'[e] = task[e]
    BY <1>1, <1>3 DEF Idle
  <2> QED
    BY <1>1, <2>1 DEF Running, Apart, NoMisread, Work
<1> QED
  BY <1>2, <1>3 DEF Unbind, Detach, StartRemove

LEMMA BindStarts ==
    ASSUME Ownership, RemovesReadNothing, NEW d \in Devices, Bind(d)
    PROVE  ~Running(d) /\ Apart(d) /\ NoMisread(d)'
<1>1. /\ task \in [Devices -> [run : {"none", "probe", "undo", "remove", "oops"},
                               at : 1 .. 8, misread : BOOLEAN]]
      /\ task[d].run = "none" /\ UNCHANGED <<moduleVars, bound>>
      /\ task' = [task EXCEPT ![d] = [Idle EXCEPT !.run = "probe"]]
  BY OneDevice DEF TypeOK, Bind
<1>2. /\ task'[d].run = "probe" /\ \A e \in Devices \ {d} : task'[e] = task[e]
  BY <1>1 DEF Idle
<1> QED
  BY <1>1, <1>2 DEF Running, Apart, NoMisread

\* The steps that are no device's.
LEMMA NoTaskMoves ==
    ASSUME \/ Load \/ LoadStep \/ LoadFails \/ Unload \/ UnloadStep
           \/ \E d \in Devices : InterruptFaults(d)
           \/ \E u \in Users : Open(u) \/ Close(u) \/ UseFaults(u)
           \/ UNCHANGED vars
    PROVE  task' = task /\ bound' = bound
  BY DEF Load, LoadStep, LoadFails, Unload, UnloadStep, InterruptFaults, Open, Close,
     UseFaults, vars

LEMMA ApartWork ==
    ASSUME NEW d \in Devices, Apart(d)
    PROVE  \A e \in Devices \ {d} : Work(e)' = Work(e) /\ (NoMisread(e) => NoMisread(e)')
  BY DEF Apart, Work, NoMisread

LEMMA NextRunsOut ==
    Ownership /\ RemovesReadNothing /\ [Next]_vars =>
        /\ RemovesReadNothing'
        /\ \A d \in Devices : Running(d) => Work(d)' < Work(d) \/ task'[d] = task[d]
<1> SUFFICES ASSUME Ownership, RemovesReadNothing, [Next]_vars, NEW d \in Devices
             PROVE  /\ NoMisread(d)'
                    /\ Running(d) => Work(d)' < Work(d) \/ task'[d] = task[d]
  BY DEF RemovesReadNothing
<1>1. NoMisread(d)
  BY DEF RemovesReadNothing
<1>2. ASSUME NEW e \in Devices, Bind(e) \/ Unbind(e) \/ Detach(e) \/ Probe(e) \/ Remove(e)
      PROVE  /\ NoMisread(d)'
             /\ Running(d) => Work(d)' < Work(d) \/ task'[d] = task[d]
  <2>1. /\ Apart(e) /\ NoMisread(e)'
        /\ Running(e) => Work(e)' < Work(e)
    BY <1>2, TaskRunsOut, DetachRunsOut, BindStarts
  <2>2. d # e => NoMisread(d)' /\ task'[d] = task[d]
    BY <1>1, <2>1, ApartWork DEF Apart
  <2> QED
    BY <2>1, <2>2
<1>3. CASE task' = task
  BY <1>1, <1>3 DEF NoMisread
<1> QED
  BY <1>2, <1>3, NoTaskMoves DEF Next

LEMMA UnloadNearer ==
    ASSUME Ownership, RemovesReadNothing, Next, module = "unloading"
    PROVE  (\E d \in Devices : OnDevice(d)) \/ OnModule \/ broken'
<1>1. ~(Load \/ LoadStep \/ LoadFails \/ Unload)
  BY DEF Load, LoadStep, LoadFails, Unload
<1>2. \A u \in Users : file[u] = 0
  BY DEF Ownership, ModuleInv
<1>3. ~ \E u \in Users : Open(u) \/ Close(u) \/ UseFaults(u)
  BY <1>2 DEF Open, Close, UseFaults
<1>4. ASSUME NEW d \in Devices,
             Bind(d) \/ Unbind(d) \/ Detach(d) \/ Probe(d) \/ Remove(d) \/ InterruptFaults(d)
      PROVE  OnDevice(d) \/ broken'
  <2>1. ~Bind(d)
    BY DEF Bind
  <2>2. CASE InterruptFaults(d)
    BY <2>2 DEF InterruptFaults
  <2>3. CASE Unbind(d) \/ Detach(d) \/ Probe(d) \/ Remove(d)
    <3>1. Apart(d) /\ (Work(d)' < Work(d) \/ broken')
      BY <2>3, TaskRunsOut, DetachRunsOut
    <3> QED
      BY <3>1, ApartWork DEF OnDevice, Apart
  <2> QED
    BY <1>4, <2>1, <2>2, <2>3
<1>5. CASE UnloadStep
  <2>1. \A d \in Devices : Work(d)' = Work(d)
    BY <1>5 DEF UnloadStep, Work
  <2>2. CASE statics = <<>>
    BY <1>5, <2>1, <2>2 DEF UnloadStep, OnModule
  <2>3. CASE statics # <<>>
    <3> DEFINE s == InitScript[driver]
    <3>1. /\ s \in {<<"class", "numbers", "driver">>, <<"driver">>}
          /\ \E n \in 0 .. Len(s) : statics = SubSeq(s, 1, n)
      BY Scripts DEF Ownership, TypeOK
    <3>2. /\ Len(statics) \in 0 .. Len(s) /\ Len(s) \in Nat /\ Len(statics) # 0
          /\ SubSeq(statics, 1, Len(statics) - 1) = SubSeq(s, 1, Len(statics) - 1)
      BY <2>3, <3>1, Prefixes
    <3>3. Len(SubSeq(s, 1, Len(statics) - 1)) = Len(statics) - 1
      BY <3>1, <3>2
    <3>4. statics' = SubSeq(statics, 1, Len(statics) - 1) /\ module' = module
      BY <1>5, <2>3 DEF UnloadStep
    <3> QED
      BY <2>1, <3>2, <3>3, <3>4 DEF OnModule
  <2> QED
    BY <2>2, <2>3
<1> QED
  BY <1>1, <1>3, <1>4, <1>5 DEF Next

(***************************************************************************)
(* Every step of a probe or a remove brings it nearer to its end, and no   *)
(* step of anything else touches it.  Once the module's exit function has  *)
(* begun every step anywhere brings the module nearer to being gone, but if *)
(* memory is touched that is not there: nothing is bound or opened any     *)
(* more, and what platform_driver_unregister() waits for runs out, also a  *)
(* probe that fails late and reports success.  What EverythingEnds adds is *)
(* that the kernel lets the steps be taken.                                *)
(***************************************************************************)
THEOREM EveryTaskRunsOut == Spec => TasksRunOut /\ UnloadRunsOut
<1>1. Spec => []Ownership
  BY InitOwnership, NextOwnership, PTL DEF Spec
<1>2. Init => RemovesReadNothing
  BY DEF Init, Idle, RemovesReadNothing, NoMisread
<1>3. Ownership /\ RemovesReadNothing /\ [Next]_vars => RemovesReadNothing'
  BY NextRunsOut
<1>4. Ownership /\ RemovesReadNothing /\ [Next]_vars =>
        [\A d \in Devices : Running(d) => Work(d)' < Work(d) \/ task'[d] = task[d]]_vars
  BY NextRunsOut
<1>5. Ownership /\ RemovesReadNothing /\ [Next]_vars =>
        [module = "unloading" => (\E d \in Devices : OnDevice(d)) \/ OnModule \/ broken']_vars
  BY UnloadNearer
<1> QED
  BY <1>1, <1>2, <1>3, <1>4, <1>5, PTL DEF Spec, TasksRunOut, UnloadRunsOut
=============================================================================
