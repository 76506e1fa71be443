---------------------------- MODULE ConfigStore ----------------------------
(***************************************************************************)
(* Package config: the YAML file, the copy of it in memory, and the calls  *)
(* that rewrite the file.  Every one reads the file, changes the part it   *)
(* is about and replaces the file by way of one temporary name; those      *)
(* about devices do so under deviceFileMu and reload the copy, the other   *)
(* two do neither.  Truncation and writing of the temporary file are two   *)
(* steps, and a name stands for an inode, which a writer keeps open.       *)
(***************************************************************************)
EXTENDS Naturals, SequencesExt

CONSTANTS
  Writer,     \* the callers
  Id,         \* identifiers of devices
  None,
  MaxCalls,   \* bound: calls
  MaxFaults   \* bound: failures and ends of the program

VARIABLES
  inodes,         \* what each inode holds
  file, tmp,      \* the inodes of the two names
  deviceFileMu,
  globalConfig,   \* the copy in memory
  pc, call, doc, fd,   \* per writer: where it is, its call, the new text, its open file
  intended,       \* ghost: every replacement applied to what was there, in their order
  overlap,        \* ghost: a call without the lock ran beside another
  calls, faults

configVars == <<inodes, file, tmp, deviceFileMu, globalConfig, pc, call, doc, fd,
                intended, overlap, calls, faults>>

Inode == 0..2

\* None is no caller and no file.
ASSUME ConfigAssumption == None \notin Writer /\ None \notin Inode

Empty == [devices |-> <<>>, web |-> None, notification |-> None]

(***************************************************************************)
(* The calls.  A device keeps the keys that a call does not name.          *)
(***************************************************************************)
Calls ==
  [do : {"add", "delete"}, id : Id] \cup [do : {"update"}, id : Id, new : Id, imei : {"", "read"}]
  \cup [do : {"imei"}, id : Id, imei : {"", "read"}]
  \cup [do : {"web", "notification"}]

AboutDevices(c) == c.do \notin {"web", "notification"}

findDeviceNodeByID(devices, id) == SelectInSeq(devices, LAMBDA d : d.id = id)

AddDeviceInFile(devices, c) ==
  IF findDeviceNodeByID(devices, c.id) # 0 THEN {}
  ELSE {Append(devices, [id |-> c.id, imei |-> "", other |-> "unset"])}
UpdateDeviceInFile(devices, c) ==
  LET n == findDeviceNodeByID(devices, c.id)
  IN IF n = 0 THEN {} ELSE {[devices EXCEPT ![n].id = c.new, ![n].imei = c.imei]}
UpdateDeviceIMEIInFile(devices, c) ==
  LET n == findDeviceNodeByID(devices, c.id)
  IN IF c.imei = "" THEN {devices}
     ELSE IF n = 0 THEN {} ELSE {[devices EXCEPT ![n].imei = c.imei]}
DeleteDeviceInFile(devices, c) ==
  LET n == findDeviceNodeByID(devices, c.id)
  IN IF n = 0 THEN {} ELSE {RemoveAt(devices, n)}

\* What a call makes of a text: nothing when it is refused.
Mutate(c, text) ==
  LET WithDevices(s) == {[text EXCEPT !.devices = d] : d \in s}
  IN CASE c.do = "add" -> WithDevices(AddDeviceInFile(text.devices, c))
       [] c.do = "update" -> WithDevices(UpdateDeviceInFile(text.devices, c))
       [] c.do = "imei" -> WithDevices(UpdateDeviceIMEIInFile(text.devices, c))
       [] c.do = "delete" -> WithDevices(DeleteDeviceInFile(text.devices, c))
       [] c.do = "web" -> {[text EXCEPT !.web = "saved"]}
       [] c.do = "notification" -> {[text EXCEPT !.notification = "saved"]}

ConfigInit ==
  LET first == [devices |-> <<[id |-> CHOOSE i \in Id : TRUE, imei |-> "", other |-> "set"]>>,
                web |-> "first", notification |-> "first"]
  IN /\ inodes = [i \in Inode |-> IF i = 0 THEN first ELSE Empty]
     /\ file = 0 /\ tmp = None /\ deviceFileMu = None
     /\ globalConfig = first /\ intended = first
     /\ pc = [w \in Writer |-> "idle"] /\ call = [w \in Writer |-> None]
     /\ doc = [w \in Writer |-> None] /\ fd = [w \in Writer |-> None]
     /\ overlap = FALSE /\ calls = 0 /\ faults = 0

Goto(w, l) == pc' = [pc EXCEPT ![w] = l]
Active(w) == pc[w] \notin {"idle", "lock"}
Enters(w, c) ==
  overlap' = (overlap \/ \E v \in Writer \ {w} :
                Active(v) /\ ~(AboutDevices(c) /\ AboutDevices(call[v])))

Begin(w) ==
  /\ pc[w] = "idle" /\ calls < MaxCalls /\ calls' = calls + 1
  /\ \E c \in Calls :
       /\ call' = [call EXCEPT ![w] = c]
       /\ IF AboutDevices(c) THEN Goto(w, "lock") /\ UNCHANGED overlap
          ELSE Goto(w, "read") /\ Enters(w, c)
  /\ UNCHANGED <<inodes, file, tmp, deviceFileMu, globalConfig, doc, fd, intended, faults>>

\* Mutant: a device is updated without the lock.
LockNothing(w) ==
  /\ pc[w] = "lock" /\ deviceFileMu' = w
  /\ Goto(w, "read") /\ Enters(w, call[w])
  /\ UNCHANGED <<inodes, file, tmp, globalConfig, call, doc, fd, intended, calls, faults>>

Lock(w) ==
  /\ pc[w] = "lock" /\ deviceFileMu = None /\ deviceFileMu' = w
  /\ Goto(w, "read") /\ Enters(w, call[w])
  /\ UNCHANGED <<inodes, file, tmp, globalConfig, call, doc, fd, intended, calls, faults>>

Unlocked(w) == IF deviceFileMu = w THEN None ELSE deviceFileMu
Returns(w) ==
  /\ Goto(w, "idle")
  /\ call' = [call EXCEPT ![w] = None] /\ doc' = [doc EXCEPT ![w] = None]
  /\ fd' = [fd EXCEPT ![w] = None]
  /\ deviceFileMu' = Unlocked(w)

\* An empty file is an error to the calls about devices, and an empty map to the others.
Read(w) ==
  /\ pc[w] = "read"
  /\ LET text == inodes[file]
         new == IF AboutDevices(call[w]) /\ text = Empty THEN {} ELSE Mutate(call[w], text)
     IN \/ \E t \in new :
             /\ doc' = [doc EXCEPT ![w] = t] /\ Goto(w, "open")
             /\ UNCHANGED <<call, fd, deviceFileMu>>
        \/ new = {} /\ Returns(w)
  /\ UNCHANGED <<inodes, file, tmp, globalConfig, intended, overlap, calls, faults>>

\* os.WriteFile: the file that has the name is truncated, a new one made if none has it.
Open(w) ==
  /\ pc[w] = "open"
  /\ \E i \in Inode :
       /\ IF tmp = None THEN i # file /\ \A v \in Writer : fd[v] # i ELSE i = tmp
       /\ tmp' = i /\ fd' = [fd EXCEPT ![w] = i]
       /\ inodes' = [inodes EXCEPT ![i] = Empty]
  /\ Goto(w, "write")
  /\ UNCHANGED <<file, deviceFileMu, globalConfig, call, doc, intended, overlap, calls, faults>>

Write(w) ==
  /\ pc[w] = "write"
  /\ inodes' = [inodes EXCEPT ![fd[w]] = doc[w]]
  /\ fd' = [fd EXCEPT ![w] = None]
  /\ Goto(w, "rename")
  /\ UNCHANGED <<file, tmp, deviceFileMu, globalConfig, call, doc, intended, overlap, calls, faults>>

\* The name may be gone: another call has renamed it.
Rename(w) ==
  /\ pc[w] = "rename"
  /\ IF tmp = None THEN Returns(w) /\ UNCHANGED <<file, tmp, intended>>
     ELSE /\ file' = tmp /\ tmp' = None
          /\ \E t \in IF Mutate(call[w], intended) = {} THEN {intended}
                      ELSE Mutate(call[w], intended) : intended' = t
          /\ IF AboutDevices(call[w])
             THEN Goto(w, "reload") /\ UNCHANGED <<call, doc, fd, deviceFileMu>>
             ELSE Returns(w)
  /\ UNCHANGED <<inodes, globalConfig, overlap, calls, faults>>

ReloadFromFile(w) ==
  /\ pc[w] = "reload"
  /\ globalConfig' = inodes[file]
  /\ Returns(w)
  /\ UNCHANGED <<inodes, file, tmp, intended, overlap, calls, faults>>

\* A step fails; an error of the reload is not reported.
Fails(w) ==
  /\ pc[w] \in {"read", "write", "rename", "reload"}
  /\ faults < MaxFaults /\ faults' = faults + 1
  /\ Returns(w)
  /\ UNCHANGED <<inodes, file, tmp, globalConfig, intended, overlap, calls>>

\* The program ends, and InitGlobalManager of the next one loads the file.
Restart ==
  /\ \E w \in Writer : pc[w] # "idle"
  /\ faults < MaxFaults /\ faults' = faults + 1
  /\ pc' = [w \in Writer |-> "idle"] /\ call' = [w \in Writer |-> None]
  /\ doc' = [w \in Writer |-> None] /\ fd' = [w \in Writer |-> None]
  /\ deviceFileMu' = None /\ globalConfig' = inodes[file]
  /\ UNCHANGED <<inodes, file, tmp, intended, overlap, calls>>

ConfigNext ==
  \/ Restart
  \/ \E w \in Writer :
       \/ Begin(w) \/ Lock(w) \/ Read(w) \/ Open(w) \/ Write(w) \/ Rename(w)
       \/ ReloadFromFile(w) \/ Fails(w)

ConfigSpec == ConfigInit /\ [][ConfigNext]_configVars

-----------------------------------------------------------------------------
\* Unless a call without the lock ran beside another, no replacement is lost, and no
\* failure and no end of the program leaves the file other than the calls made it.
NothingOverwritten == ~overlap => inodes[file] = intended

\* Between two calls about devices the copy has the devices of the file.
MemoryInStep ==
  faults = 0 /\ ~overlap /\ deviceFileMu = None => globalConfig.devices = inodes[file].devices

\* The configuration is kept.
ConfigKept == NothingOverwritten /\ MemoryInStep
=============================================================================
