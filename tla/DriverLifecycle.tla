--------------------------- MODULE DriverLifecycle ---------------------------
(***************************************************************************)
(* Modules, probe and remove of the GPIO, interval timer and keypad        *)
(* drivers (gpio-fluke.c, altera_inttimer.c, fluke_keypad.c).              *)
(*                                                                         *)
(* The three follow one pattern: probe() allocates a structure, the port,  *)
(* and obtains the rest step by step, noting in the port what it got;      *)
(* remove() goes through the notes and releases.  A probe that fails calls *)
(* remove() itself.  The scripts below give each driver's steps in the     *)
(* order of its source, the rest of the module what a step does.  Probes   *)
(* of different devices run side by side; the driver core runs one at a    *)
(* time on a device (device_lock()).  Devices are bound and unbound by     *)
(* hand (sysfs) at any time, also while their files are open.              *)
(*                                                                         *)
(* What the kernel has given out is kept apart from what the ports note,   *)
(* and is released by number or address: a port that releases what it does *)
(* not hold takes it from another.                                         *)
(***************************************************************************)
EXTENDS Naturals, Sequences, Functions

CONSTANTS
    Devices,        \* devices the drivers match
    Users,          \* files that processes may hold open
    NR_DEVICES,     \* minor numbers of a driver
    MaxPorts        \* bound: ports allocated in all

ASSUME LifecycleAssumption ==
    /\ NR_DEVICES \in Nat \ {0}
    /\ MaxPorts \in Nat

VARIABLES
    driver,         \* the driver looked at
    module,         \* the state of its module
    statics,        \* what the module's own init function holds
    bound,          \* devices the driver core counts as bound
    task,           \* what the driver core runs on a device, and where it is
    drvdata,        \* dev_get_drvdata() of a device; 0 for NULL
    port,           \* the ports' contents
    held,           \* <<kind, key, port>>: what the kernel has given out
    file,           \* the port an open file refers to; 0 for none
    ended,          \* history: why remove() was called on a port
    broken          \* a step has touched memory that is not there

moduleVars == <<driver, module, statics>>
portVars == <<drvdata, port, held>>
vars == <<moduleVars, bound, task, portVars, file, ended, broken>>

Drivers == {"gpio", "timer", "keypad"}
Ports == 1 .. MaxPorts
Minors == 0 .. NR_DEVICES - 1

\* What a port notes.  "address" sets the note of the region: it is the start
\* address of the resource.
Kinds == {"minor", "node", "region", "mapping", "cdev", "input", "irq"}

-----------------------------------------------------------------------------
(* The scripts. *)

GpioProbe ==
    <<"port", "minor", "node", "address", "region", "mapping", "cdev">>
GpioRemoveForgetsNode ==            \* mutant: the node stays
    <<"cdev", "mapping", "region", "minor", "port">>
GpioRemove ==
    <<"cdev", "mapping", "region", "node", "minor", "port">>

TimerProbe ==
    <<"port", "minor", "node", "address", "region", "mapping", "cdev">>
TimerRemove ==
    <<"cdev", "mapping", "region", "node", "minor", "port">>

KeypadProbeIrqFirst ==              \* mutant: interrupts before the registers
    <<"port", "input", "address", "region", "irq", "mapping">>
KeypadProbe ==
    <<"port", "input", "address", "region", "mapping", "irq">>
KeypadRemove ==
    <<"irq", "mapping", "region", "input", "port">>

ProbeScript == [gpio |-> GpioProbe, timer |-> TimerProbe, keypad |-> KeypadProbe]
RemoveScript ==
    [gpio |-> GpioRemove, timer |-> TimerRemove, keypad |-> KeypadRemove]

\* What the module's init function obtains, in this order, and its exit
\* function gives back in the reverse one.
GpioInit == <<"class", "numbers", "driver">>
TimerInit == <<"class", "numbers", "driver">>
KeypadInit == <<"driver">>
InitScript == [gpio |-> GpioInit, timer |-> TimerInit, keypad |-> KeypadInit]

-----------------------------------------------------------------------------
Idle == [run |-> "none", at |-> 1, misread |-> FALSE]
NoPort == [state |-> "unborn", device |-> 0, minor |-> 0,
           note |-> [k \in Kinds |-> "null"]]

Init ==
    /\ driver \in Drivers
    /\ module = "out"
    /\ statics = <<>>
    /\ bound = {}
    /\ task = [d \in Devices |-> Idle]
    /\ drvdata = [d \in Devices |-> 0]
    /\ port = [p \in Ports |-> NoPort]
    /\ held = {}
    /\ file = [u \in Users |-> 0]
    /\ ended = [p \in Ports |-> "no"]
    /\ broken = FALSE

Live(p) == port[p].state = "live"

\* By what the kernel knows a thing: nodes and character devices by their
\* minor number, memory regions by their address.
Key(k, p) ==
    IF k \in {"minor", "node", "cdev"} THEN port[p].minor
    ELSE IF k = "region" THEN port[p].device
    ELSE p
Taken(k, x) == \E p \in Ports : <<k, x, p>> \in held

-----------------------------------------------------------------------------
(* The module. *)

Load ==
    /\ module = "out"
    /\ module' = "loading"
    /\ UNCHANGED <<driver, statics, bound, task, portVars, file, ended, broken>>

\* The next step of the init function; a driver that is registered is live.
LoadStep ==
    /\ module = "loading"
    /\ LET next == InitScript[driver][Len(statics) + 1]
       IN  /\ statics' = Append(statics, next)
           /\ module' = IF next = "driver" THEN "live" ELSE "loading"
    /\ UNCHANGED <<driver, bound, task, portVars, file, ended, broken>>

\* A step of the init function fails: what it had is given back.
LoadFails ==
    /\ module = "loading"
    /\ module' = "out"
    /\ statics' = <<>>
    /\ UNCHANGED <<driver, bound, task, portVars, file, ended, broken>>

\* cdev.owner and hw_fops.owner are THIS_MODULE: an open file holds the module.
PinnedNot == FALSE                  \* mutant: no owner
Pinned == \E u \in Users : file[u] # 0

Unload ==
    /\ module = "live"
    /\ ~Pinned
    /\ module' = "unloading"
    /\ UNCHANGED <<driver, statics, bound, task, portVars, file, ended, broken>>

\* platform_driver_unregister() returns when every device has been released
\* and no bind or unbind is under way; then the range of numbers and the class
\* are given up.
UnloadStep ==
    /\ module = "unloading"
    /\ bound = {}
    /\ \A d \in Devices : task[d].run = "none"
    /\ IF statics = <<>>
       THEN module' = "gone" /\ UNCHANGED statics
       ELSE statics' = SubSeq(statics, 1, Len(statics) - 1) /\ UNCHANGED module
    /\ UNCHANGED <<driver, bound, task, portVars, file, ended, broken>>

-----------------------------------------------------------------------------
(* Probe. *)

Bind(d) ==
    /\ module = "live"
    /\ d \notin bound
    /\ task[d].run = "none"
    /\ task' = [task EXCEPT ![d] = [Idle EXCEPT !.run = "probe"]]
    /\ UNCHANGED <<moduleVars, bound, portVars, file, ended, broken>>

ProbeAt(d, k) ==
    /\ task[d].run = "probe"
    /\ task[d].at <= Len(ProbeScript[driver])
    /\ ProbeScript[driver][task[d].at] = k

\* The next step, with what this one has noted in the port.
Noted(d, k, v) ==
    /\ port' = [port EXCEPT ![drvdata[d]].note[k] = v]
    /\ task' = [task EXCEPT ![d].at = @ + 1]
    /\ UNCHANGED <<moduleVars, bound, drvdata, file, ended, broken>>

Obtained(d, k) ==
    /\ held' = held \cup {<<k, Key(k, drvdata[d]), drvdata[d]>>}
    /\ Noted(d, k, "ok")

\* The error is noted and remove() called.  With misread the value returned
\* is read from the port, which remove() has freed.
GivesUp(d, k, v, misread) ==
    /\ port' = [port EXCEPT ![drvdata[d]].note[k] = v]
    /\ task' = [task EXCEPT ![d] =
                   [run |-> "undo", at |-> 1, misread |-> misread]]
    /\ UNCHANGED <<moduleVars, bound, drvdata, held, file, ended, broken>>

\* kzalloc(), and dev_set_drvdata().
AllocatePort(d) ==
    /\ ProbeAt(d, "port")
    /\ \E p \in Ports :
          /\ port[p].state = "unborn"
          /\ \A q \in 1 .. p - 1 : port[q].state # "unborn"
          /\ port' = [port EXCEPT ![p] =
                         [NoPort EXCEPT !.state = "live", !.device = d]]
          /\ drvdata' = [drvdata EXCEPT ![d] = p]
    /\ task' = [task EXCEPT ![d].at = @ + 1]
    /\ UNCHANGED <<moduleVars, bound, held, file, ended, broken>>

NoMemory(d) ==
    /\ ProbeAt(d, "port")
    /\ task' = [task EXCEPT ![d] = Idle]
    /\ UNCHANGED <<moduleVars, bound, portVars, file, ended, broken>>

\* ida_simple_get(): the lowest number that is free.
GetMinor(d) ==
    /\ ProbeAt(d, "minor")
    /\ \E m \in Minors :
          /\ ~Taken("minor", m)
          /\ \A n \in 0 .. m - 1 : Taken("minor", n)
          /\ held' = held \cup {<<"minor", m, drvdata[d]>>}
          /\ port' = [port EXCEPT ![drvdata[d]].minor = m,
                                  ![drvdata[d]].note["minor"] = "ok"]
    /\ task' = [task EXCEPT ![d].at = @ + 1]
    /\ UNCHANGED <<moduleVars, bound, drvdata, file, ended, broken>>

NoMinor(d) == ProbeAt(d, "minor") /\ GivesUp(d, "minor", "err", TRUE)

\* device_create().
CreateNode(d) ==
    /\ ProbeAt(d, "node")
    /\ ~Taken("node", port[drvdata[d]].minor)
    /\ Obtained(d, "node")

NoNode(d) == ProbeAt(d, "node") /\ GivesUp(d, "node", "err", TRUE)

\* of_address_to_resource(): the start address is known, nothing is held yet.
GetAddress(d) ==
    /\ ProbeAt(d, "address")
    /\ Noted(d, "region", "ok")
    /\ UNCHANGED held

NoAddress(d) == ProbeAt(d, "address") /\ GivesUp(d, "region", "null", FALSE)

RequestRegion(d) ==
    /\ ProbeAt(d, "region")
    /\ ~Taken("region", d)
    /\ Obtained(d, "region")

\* request_mem_region() fails, because the region is taken or for want of
\* memory: the start address is zeroed so that remove() does not release it.
NoRegionKeepsStart(d) ==            \* mutant: the start address stays
    /\ ProbeAt(d, "region")
    /\ GivesUp(d, "region", "ok", FALSE)
NoRegionIgnored(d) ==               \* mutant: the result is not looked at
    /\ ProbeAt(d, "region")
    /\ Noted(d, "region", "ok")
    /\ UNCHANGED held
NoRegion(d) == ProbeAt(d, "region") /\ GivesUp(d, "region", "null", FALSE)

\* ioremap_nocache().  Nobody looks at the result: "err" is the NULL of a
\* mapping that failed.
MapRegisters(d) == ProbeAt(d, "mapping") /\ Obtained(d, "mapping")
NoMapping(d) ==
    /\ ProbeAt(d, "mapping")
    /\ Noted(d, "mapping", "err")
    /\ UNCHANGED held

AddCdev(d) == ProbeAt(d, "cdev") /\ Obtained(d, "cdev")

\* cdev_add() fails and probe returns the error without calling remove().
NoCdev(d) ==
    /\ ProbeAt(d, "cdev")
    /\ drvdata' = [drvdata EXCEPT ![d] = 0]
    /\ task' = [task EXCEPT ![d] = Idle]
    /\ UNCHANGED <<moduleVars, bound, port, held, file, ended, broken>>

\* input_allocate_device() and input_register_device().
RegisterInput(d) == ProbeAt(d, "input") /\ Obtained(d, "input")
NoInput(d) == ProbeAt(d, "input") /\ GivesUp(d, "input", "null", FALSE)

\* request_irq(), on a line that may be shared.  The number is not noted.
RequestIrq(d) ==
    /\ ProbeAt(d, "irq")
    /\ held' = held \cup {<<"irq", Key("irq", drvdata[d]), drvdata[d]>>}
    /\ Noted(d, "irq", "null")
NoIrq(d) == ProbeAt(d, "irq") /\ GivesUp(d, "irq", "null", FALSE)

ProbeSucceeds(d) ==
    /\ task[d].run = "probe"
    /\ task[d].at > Len(ProbeScript[driver])
    /\ bound' = bound \cup {d}
    /\ task' = [task EXCEPT ![d] = Idle]
    /\ UNCHANGED <<moduleVars, portVars, file, ended, broken>>

Probe(d) ==
    \/ AllocatePort(d) \/ NoMemory(d)
    \/ GetMinor(d) \/ NoMinor(d)
    \/ CreateNode(d) \/ NoNode(d)
    \/ GetAddress(d) \/ NoAddress(d)
    \/ RequestRegion(d) \/ NoRegion(d)
    \/ MapRegisters(d) \/ NoMapping(d)
    \/ AddCdev(d) \/ NoCdev(d)
    \/ RegisterInput(d) \/ NoInput(d)
    \/ RequestIrq(d) \/ NoIrq(d)
    \/ ProbeSucceeds(d)

-----------------------------------------------------------------------------
(* Remove. *)

\* The driver core calls remove(): by hand, or because the module goes.  A
\* port that a failed probe has freed is read again here.
StartRemove(d, why) ==
    /\ d \in bound
    /\ task[d].run = "none"
    /\ IF Live(drvdata[d])
       THEN /\ task' = [task EXCEPT ![d] = [Idle EXCEPT !.run = "remove"]]
            /\ ended' = [ended EXCEPT ![drvdata[d]] = why]
            /\ UNCHANGED broken
       ELSE /\ broken' = TRUE
            /\ UNCHANGED <<task, ended>>
    /\ UNCHANGED <<moduleVars, bound, portVars, file>>

Unbind(d) == module = "live" /\ StartRemove(d, "unbind")
Detach(d) == module = "unloading" /\ StartRemove(d, "unload")

Removing(d) == task[d].run \in {"remove", "undo"}
RemoveAt(d) == RemoveScript[driver][task[d].at]

\* remove() looks at the minor number and the node for an error, at the rest
\* for something other than 0.
Releases(k, v) == IF k \in {"minor", "node"} THEN v # "err" ELSE v = "ok"

\* Released by number or address, whosever it is.
Release(d) ==
    /\ Removing(d)
    /\ RemoveAt(d) # "port"
    /\ LET p == drvdata[d]
           k == RemoveAt(d)
       IN  /\ ~(k = "node" /\ port[p].note[k] = "null")
           /\ held' = IF Releases(k, port[p].note[k])
                      THEN held \ {<<k, Key(k, p), q>> : q \in Ports}
                      ELSE held
    /\ task' = [task EXCEPT ![d].at = @ + 1]
    /\ UNCHANGED <<moduleVars, bound, drvdata, port, file, ended, broken>>

\* Without a minor number no node was created and dev is NULL, which is no
\* error: remove() follows it, and the task ends with the device's lock taken.
FollowNull(d) ==
    /\ Removing(d)
    /\ RemoveAt(d) = "node"
    /\ port[drvdata[d]].note["node"] = "null"
    /\ task' = [task EXCEPT ![d].run = "oops"]
    /\ UNCHANGED <<moduleVars, bound, portVars, file, ended, broken>>

\* kfree(), and back in the driver core, which forgets the port unless probe
\* returns 0.
FreePortWaits(d) ==                 \* mutant: waits for the files to be closed
    /\ Removing(d)
    /\ RemoveAt(d) = "port"
    /\ \A u \in Users : file[u] # drvdata[d]
    /\ port' = [port EXCEPT ![drvdata[d]] =
                 [NoPort EXCEPT !.state = "freed", !.device = d]]
    /\ drvdata' = [drvdata EXCEPT ![d] = 0]
    /\ bound' = bound \ {d}
    /\ task' = [task EXCEPT ![d] = Idle]
    /\ UNCHANGED <<moduleVars, held, file, ended, broken>>
FreePort(d) ==
    /\ Removing(d)
    /\ RemoveAt(d) = "port"
    /\ port' = [port EXCEPT ![drvdata[d]] =
                 [NoPort EXCEPT !.state = "freed", !.device = d]]
    /\ \/ /\ drvdata' = [drvdata EXCEPT ![d] = 0]
          /\ bound' = bound \ {d}
       \/ /\ task[d].misread
          /\ bound' = bound \cup {d}
          /\ UNCHANGED drvdata
    /\ task' = [task EXCEPT ![d] = Idle]
    /\ UNCHANGED <<moduleVars, held, file, ended, broken>>

Remove(d) == Release(d) \/ FollowNull(d) \/ FreePort(d)

-----------------------------------------------------------------------------
(* The files, and the keypad's interrupt. *)

\* hw_open(): the port is the one that contains the character device.
Open(u) ==
    /\ file[u] = 0
    /\ module = "live"
    /\ \E p \in Ports :
          /\ <<"cdev", Key("cdev", p), p>> \in held
          /\ file' = [file EXCEPT ![u] = p]
    /\ UNCHANGED <<moduleVars, bound, task, portVars, ended, broken>>

Close(u) ==
    /\ file[u] # 0
    /\ Live(file[u])
    /\ file' = [file EXCEPT ![u] = 0]
    /\ UNCHANGED <<moduleVars, bound, task, portVars, ended, broken>>

\* The registers of the port can be reached.
Mapped(p) == Live(p) /\ <<"mapping", p, p>> \in held

\* A call on the file, or its close, that finds the port freed or not mapped.
UseFaults(u) ==
    /\ file[u] # 0
    /\ ~Mapped(file[u])
    /\ broken' = TRUE
    /\ UNCHANGED <<moduleVars, bound, task, portVars, file, ended>>

\* The handler takes the port from the device, whoever registered it.
InterruptFaults(d) ==
    /\ \E p \in Ports : port[p].device = d /\ <<"irq", p, p>> \in held
    /\ drvdata[d] # 0 => ~Mapped(drvdata[d])
    /\ broken' = TRUE
    /\ UNCHANGED <<moduleVars, bound, task, portVars, file, ended>>

-----------------------------------------------------------------------------
\* After a fault nothing is said of what the kernel does.
Next ==
    /\ ~broken
    /\ \/ Load \/ LoadStep \/ LoadFails \/ Unload \/ UnloadStep
       \/ \E d \in Devices : \/ Bind(d) \/ Unbind(d) \/ Detach(d)
                             \/ Probe(d) \/ Remove(d) \/ InterruptFaults(d)
       \/ \E u \in Users : Open(u) \/ Close(u) \/ UseFaults(u)

Spec == Init /\ [][Next]_vars

(***************************************************************************)
(* A process in probe, in remove or in the exit function goes on; nobody   *)
(* need bind, unbind, open, close, load or unload anything.                *)
(***************************************************************************)
FairSpec ==
    /\ Spec
    /\ \A d \in Devices : WF_vars(~broken /\ (Probe(d) \/ Remove(d) \/ Detach(d)))
    /\ WF_vars(~broken /\ UnloadStep)

-----------------------------------------------------------------------------
TypeOK ==
    /\ driver \in Drivers
    /\ module \in {"out", "loading", "live", "unloading", "gone"}
    /\ \E n \in 0 .. Len(InitScript[driver]) :
          statics = SubSeq(InitScript[driver], 1, n)
    /\ bound \subseteq Devices
    /\ task \in [Devices -> [run : {"none", "probe", "undo", "remove", "oops"},
                             at : 1 .. 8, misread : BOOLEAN]]
    /\ drvdata \in [Devices -> 0 .. MaxPorts]
    /\ port \in [Ports -> [state : {"unborn", "live", "freed"},
                           device : Devices \cup {0}, minor : Minors \cup {0},
                           note : [Kinds -> {"null", "ok", "err"}]]]
    /\ held \subseteq Kinds \X (Minors \cup Devices \cup Ports) \X Ports
    /\ file \in [Users -> 0 .. MaxPorts]
    /\ ended \in [Ports -> {"no", "unbind", "unload"}]
    /\ broken \in BOOLEAN

Holds(p, k) == <<k, Key(k, p), p>> \in held
Attached(p) == Live(p) /\ drvdata[port[p].device] = p
Passed(script, d, k) == \E i \in 1 .. task[d].at - 1 : script[driver][i] = k

(* The notes of a port are true: it holds what it notes, but for what its  *)
(* remove() has released already and a region not yet requested.           *)
Books ==
    \A p \in Ports, k \in Kinds \ {"irq"} :
        Holds(p, k) <=>
            /\ Live(p)
            /\ port[p].note[k] = "ok"
            /\ Attached(p) =>
                  LET d == port[p].device
                  IN  /\ Removing(d) => ~Passed(RemoveScript, d, k)
                      /\ k = "region" => ~ProbeAt(d, "region")

(* Who owns what: one port for each number, node, region. *)
OneOwner ==
    /\ \A t \in held : t[2] = Key(t[1], t[3])
    /\ \A t, u \in held : t[1] = u[1] /\ t[2] = u[2] => t[3] = u[3]

(* What the driver core and the port say of each other. *)
Attachment ==
    \A d \in Devices :
        /\ drvdata[d] # 0 => port[drvdata[d]].device = d
        /\ Removing(d) \/ task[d].run = "oops" => Live(drvdata[d])
        /\ task[d].run = "probe" =>
              IF task[d].at = 1 THEN drvdata[d] = 0 ELSE Live(drvdata[d])
        /\ d \notin bound /\ task[d].run = "none" => drvdata[d] = 0
        /\ d \in bound => drvdata[d] # 0 /\ task[d].run \in {"none", "remove"}

(* A number goes back only after its node and its character device: a node *)
(* always leads to the device it was made for.                             *)
NodesHaveNumbers ==
    \A t \in held : t[1] \in {"node", "cdev"} => <<"minor", t[2], t[3]>> \in held

IInv == TypeOK /\ Books /\ OneOwner /\ Attachment /\ NodesHaveNumbers

(***************************************************************************)
(* Nothing is given out to a port that is gone, whatever step of a probe   *)
(* failed and whatever was bound and unbound meanwhile, but for the        *)
(* keypad's interrupt handler, which remove() does not find in its notes;  *)
(* and the class and the range of numbers stay as long as there are nodes, *)
(* but for those of a port a failed cdev_add() has cut off.                *)
(***************************************************************************)
NothingOutlivesPort ==
    \A t \in held :
        /\ Live(t[3]) \/ (t[1] = "irq" /\ ended[t[3]] # "no")
        /\ t[1] \in {"node", "cdev"} /\ Attached(t[3]) => Len(statics) = 3

(***************************************************************************)
(* An open file leads to a port that is there, and mapped unless the       *)
(* mapping failed: nobody looks at the result of ioremap_nocache(), and    *)
(* the file of such a port faults at its first use (UseFaults).  Apart     *)
(* from that only an unbind by hand takes the port from under the file: a  *)
(* module never goes while a file is open, and no device can be opened     *)
(* before or after its time.  The same holds of the keypad's handler,      *)
(* which may run as soon as it is registered because the line is shared,   *)
(* until the device is removed for the first time.                         *)
(***************************************************************************)
MappingFailed(p) == Live(p) /\ port[p].note["mapping"] = "err"
Ready(p) == Mapped(p) \/ MappingFailed(p)
UsersFindPort ==
    /\ \A u \in Users :
          file[u] # 0 => ended[file[u]] = "unbind" \/ Ready(file[u])
    /\ \A p \in Ports :
          Holds(p, "irq") => ended[p] # "no" \/ (Attached(p) /\ Ready(p))

(***************************************************************************)
(* A device whose cdev_add() failed is lost: probe left its port cut off   *)
(* with the region taken, and no later probe of it gets as far as a port   *)
(* that works.                                                             *)
(***************************************************************************)
Lost(d) == \E p \in Ports : Live(p) /\ port[p].device = d /\ ~Attached(p)
LostForGood == \A d \in bound : Lost(d) => ~Live(drvdata[d])

(***************************************************************************)
(* Binding and unbinding a device ends, whatever files are open, and the   *)
(* module can be removed; only a probe that followed a NULL device keeps   *)
(* the device locked, and with it the module.                              *)
(***************************************************************************)
EverythingEnds ==
    /\ \A d \in Devices :
          task[d].run # "none" ~> task[d].run \in {"none", "oops"} \/ broken
    /\ module = "unloading" ~>
          module = "gone" \/ broken \/ \E d \in Devices : task[d].run = "oops"
=============================================================================
