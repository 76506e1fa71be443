----------------------------- MODULE MCDesktop -------------------------------
(***************************************************************************)
(* The parts of the desktop application, checked beside each other: an     *)
(* initial state picks the one that runs, and the others keep their        *)
(* initial state.  The calls, the log, the files that are saved, the USB   *)
(* bridge, the messages, the notes and the prompt in the module, its AT    *)
(* channel and what is passed on are those of CallAutomation,              *)
(* LogBroadcaster, SavedFiles, USBBridge, USBSMS, ModuleMemory, USBAT and  *)
(* PassedOn, with their properties.                                        *)
(***************************************************************************)
EXTENDS Integers, Sequences, CallAutomation, LogBroadcaster, SavedFiles, USBBridge, USBSMS,
  ModuleMemory, USBAT, PassedOn

CONSTANTS
  Parts                        \* the parts that run

VARIABLE part

\* A call over USB with the bridge started in the last seconds before the answer, and
\* calls over USB and over a serial port that are recorded and hung up, also by hand.
Setting(overSerial, inLead, byItself, byHand) ==
  [serial |-> overSerial, late |-> inLead, audio |-> TRUE, record |-> ~inLead,
   hangup |-> byItself, presses |-> byHand]
MCSettings ==
  {Setting(FALSE, TRUE, FALSE, 0), Setting(FALSE, FALSE, FALSE, 1),
   [Setting(TRUE, FALSE, TRUE, 1) EXCEPT !.audio = FALSE]}
MCNumber == <<"friend", "stranger">>

\* Silence, a noise, silence, a voice and silence; with 0, 10 or more windows before it.
Run(n, loud) == [i \in 1..n |-> loud]
MCRecorded ==
  {[windows |-> Run(a, FALSE) \o Run(b, TRUE) \o Run(c, FALSE) \o Run(d, TRUE) \o Run(1, FALSE),
    rest |-> r] : a \in {0, 8, 12}, b \in {0, 1, 7, 8}, c \in {1, 4}, d \in {0, 7, 9}, r \in {0, 3}}
  \cup {[windows |-> <<>>, rest |-> n] : n \in 0..3}
MCSpeech == {<<>>, <<-5>>, <<0, 1000, 2000, 3000>>, <<7, -7, 32767, -32768, 0>>}
MCRecipient == <<"r1">>
MCChat == <<"c1", "c2">>

First(S1) == CHOOSE x \in S1 : TRUE
Init ==
  /\ part \in Parts
  /\ CallInit /\ (part # "calls" => settings = First(Settings))
  /\ SMSInit /\ (part # "sms" => selected = "ME")
  /\ NotesInit /\ (part # "notes" => phonebook = "ME" /\ book = [s \in Storage |-> Unread])
  /\ FilesInit /\ ConfigInit /\ LogInit
  /\ PromptInit
  /\ USBInit /\ (part # "usbat" => platform = "linux")
  /\ ForwardInit /\ (part # "forwarding" => job = "sms" /\ feishu = "off")
  /\ BridgeInit /\ (part # "bridge" => present /\ enabled = "p1")
  /\ SoundInit
  /\ part # "recordings" => stage = "spoken" /\ sound = <<>> /\ modulePrompt = Header(0, 8000, 0)

CallPart ==
  /\ part = "calls" /\ CallNext
  /\ UNCHANGED <<part, smsVars, notesVars, fileVars, promptVars, usbVars,
                 forwardVars, bridgeVars, configVars, logVars, soundVars>>
SMSPart ==
  /\ part = "sms" /\ SMSNext
  /\ UNCHANGED <<part, callVars, notesVars, fileVars, promptVars, usbVars,
                 forwardVars, bridgeVars, configVars, logVars, soundVars>>
NotesPart ==
  /\ part = "notes" /\ NotesNext
  /\ UNCHANGED <<part, callVars, smsVars, fileVars, promptVars, usbVars,
                 forwardVars, bridgeVars, configVars, logVars, soundVars>>
FilePart ==
  /\ part = "files" /\ FilesNext
  /\ UNCHANGED <<part, callVars, smsVars, notesVars, promptVars, usbVars,
                 forwardVars, bridgeVars, configVars, logVars, soundVars>>
PromptPart ==
  /\ part = "prompt" /\ PromptNext
  /\ UNCHANGED <<part, callVars, smsVars, notesVars, fileVars, usbVars,
                 forwardVars, bridgeVars, configVars, logVars, soundVars>>
USBPart ==
  /\ part = "usbat" /\ USBNext
  /\ UNCHANGED <<part, callVars, smsVars, notesVars, fileVars, promptVars,
                 forwardVars, bridgeVars, configVars, logVars, soundVars>>
ForwardPart ==
  /\ part = "forwarding" /\ ForwardNext
  /\ UNCHANGED <<part, callVars, smsVars, notesVars, fileVars, promptVars,
                 usbVars, bridgeVars, configVars, logVars, soundVars>>
BridgePart ==
  /\ part = "bridge" /\ BridgeNext
  /\ UNCHANGED <<part, callVars, smsVars, notesVars, fileVars, promptVars,
                 usbVars, forwardVars, configVars, logVars, soundVars>>
ConfigPart ==
  /\ part = "config" /\ ConfigNext
  /\ UNCHANGED <<part, callVars, smsVars, notesVars, fileVars, promptVars,
                 usbVars, forwardVars, bridgeVars, logVars, soundVars>>
LogPart ==
  /\ part = "log" /\ LogNext
  /\ UNCHANGED <<part, callVars, smsVars, notesVars, fileVars, promptVars,
                 usbVars, forwardVars, bridgeVars, configVars, soundVars>>
SoundPart ==
  /\ part = "recordings" /\ SoundNext
  /\ UNCHANGED <<part, callVars, smsVars, notesVars, fileVars, promptVars,
                 usbVars, forwardVars, bridgeVars, configVars, logVars>>

Next ==
  \/ CallPart \/ SMSPart \/ NotesPart \/ FilePart \/ PromptPart \/ USBPart \/ ForwardPart
  \/ BridgePart \/ ConfigPart \/ LogPart \/ SoundPart

Spec ==
  Init /\ [][Next]_<<part, callVars, smsVars, notesVars, fileVars, promptVars, usbVars,
                     forwardVars, bridgeVars, configVars, logVars, soundVars>>
==============================================================================
