------------------------------ MODULE ATManager ------------------------------
(***************************************************************************)
(* The AT manager (internal/modem/manager.go): callers put commands into a  *)
(* normal or a high-priority queue; one run loop writes a command to the    *)
(* serial port and takes the lines that follow for its answer, until a      *)
(* final one or a time-out; a read loop turns bytes into lines.  Nothing in *)
(* a line says which command it answers.                                    *)
(*                                                                          *)
(* A command is <<caller, number>>, a line <<command, kind>>.  The contents *)
(* of lines are left out, but for what the run loop looks at: whether it is *)
(* "OK", holds "ERROR" or ">", is an unsolicited code (URC) that is never   *)
(* part of an answer ("async"), one that is kept ("echo"), or other data.   *)
(***************************************************************************)
EXTENDS Naturals, Sequences, FiniteSets

CONSTANTS
  Normal,      \* callers of ExecuteAT (one of them may be initModem)
  High,        \* callers of ExecuteATHigh
  Sender,      \* callers of SendSMS: AT+CMGF, then one part
  NoCaller,
  CmdChanLen,    \* capacity of a queue (10 and 5 in the code)
  RxLen,       \* capacity of rxChan (100)
  Threshold,   \* atTimeoutWatchdogThreshold (5)
  MaxATFlaws     \* bound: unsolicited lines, time-outs with the module present,
               \* the loss of the module, Stop

Client == Normal \cup High \cup Sender

\* What the constants are: each caller has one way in, and the watchdog counts at all.
ASSUME ATAssumption ==
  /\ Normal \cap High = {} /\ Normal \cap Sender = {} /\ High \cap Sender = {}
  /\ NoCaller \notin Client
  /\ {CmdChanLen, RxLen, MaxATFlaws} \subseteq Nat /\ Threshold \in Nat \ {0}

NoCommand == <<NoCaller, 0>>
Commands(c) == IF c \in Sender THEN 2 ELSE 1
IsPart(cmd) == cmd[1] \in Sender /\ cmd[2] = 2
IsHigh(cmd) == cmd[1] \notin Normal

VARIABLES
  life,        \* "new", "running", "closing" (stop and port closed), "stopped"
  healthy,
  notified,    \* the disconnect callback was called
  at,          \* per caller: "ready", "waiting", "done"
  number,      \* per caller: commands issued
  answer,      \* per caller: the answer it has not yet taken
  cmdChan, cmdChanHigh, rxChan,
  runLoop,     \* "top", "select", "write", "respond", "exited"
  current,     \* the command in handleCommand
  fullResponse, waitPrompt,
  atTimeoutStreak,
  readLoop,    \* "reading", "ended"
  device,      \* the module: "present", "gone"
  owed,        \* what the module still has to answer, <<command, stage>>
  prompting,   \* the command whose PDU the module waits for
  serial,      \* lines on their way from the module
  atFlaws,       \* of those, how many there were
  overtaken,   \* history: normal commands begun since a caller queued
  own,         \* history: commands begun with nothing of another under way
  deaf         \* history: normal time-outs since nothing can be read any more

atVars == <<life, healthy, notified, at, number, answer, cmdChan, cmdChanHigh, rxChan,
            runLoop, current, fullResponse, waitPrompt, atTimeoutStreak, readLoop,
            device, owed, prompting, serial, atFlaws, overtaken, own, deaf>>

managerVars == <<life, healthy, notified>>
callerVars == <<at, number, answer, overtaken>>
queueVars == <<cmdChan, cmdChanHigh>>
handlerVars == <<runLoop, current, fullResponse, waitPrompt, atTimeoutStreak, own, deaf>>
moduleVars == <<device, owed, prompting, serial, atFlaws>>
readerVars == <<readLoop, rxChan>>

None == <<"none">>
ATInit ==
  /\ life = "new" /\ healthy = TRUE /\ notified = FALSE
  /\ at = [c \in Client |-> "ready"] /\ number = [c \in Client |-> 0]
  /\ answer = [c \in Client |-> None]
  /\ cmdChan = <<>> /\ cmdChanHigh = <<>> /\ rxChan = <<>>
  /\ runLoop = "top" /\ current = NoCommand /\ fullResponse = <<>>
  /\ waitPrompt = FALSE /\ atTimeoutStreak = 0
  /\ readLoop = "reading" /\ device = "present"
  /\ owed = <<>> /\ prompting = NoCommand /\ serial = <<>> /\ atFlaws = 0
  /\ overtaken = [c \in Client |-> 0] /\ own = {} /\ deaf = 0

Running == life \in {"running", "closing"}   \* m.running
StopClosed == life \in {"closing", "stopped"}

(***************************************************************************)
(* Start, Stop and the callback.                                           *)
(***************************************************************************)

\* Start opens the port, at the eighth try at the latest, or fails.
Start(opened) ==
  /\ life = "new"
  /\ life' = IF opened THEN "running" ELSE "stopped"
  /\ runLoop' = IF opened THEN runLoop ELSE "exited"
  /\ readLoop' = IF opened THEN readLoop ELSE "ended"
  /\ UNCHANGED <<healthy, notified, callerVars, queueVars, current, fullResponse,
                 waitPrompt, atTimeoutStreak, own, deaf, moduleVars, rxChan>>

\* Stop closes the channel and the port, and then clears running.
BeginStop ==
  /\ life = "running" /\ life' = "closing"
  /\ atFlaws < MaxATFlaws /\ atFlaws' = atFlaws + 1
  /\ UNCHANGED <<healthy, notified, callerVars, queueVars, handlerVars, device, owed,
                 prompting, serial, readerVars>>

EndStop ==
  /\ life = "closing" /\ life' = "stopped"
  /\ UNCHANGED <<healthy, notified, callerVars, queueVars, handlerVars, moduleVars,
                 readerVars>>

\* What the run loop does when it gives the module up: nothing if running is
\* already cleared, else Stop, unless another is in it, and the callback.
GiveUpModule ==
  /\ life' = IF life = "running" THEN "stopped" ELSE life
  /\ healthy' = (healthy /\ ~Running)
  /\ notified' = (notified \/ Running)

(***************************************************************************)
(* Callers.                                                                *)
(***************************************************************************)

Queue(c) == IF c \in Normal THEN cmdChan ELSE cmdChanHigh
NextCommand(c) == <<c, number[c] + 1>>

\* executeAT, or the part of SendSMS that does not look at running or healthy.
Enqueue(c) ==
  /\ at[c] = "ready" /\ life # "new" /\ number[c] < Commands(c)
  /\ IsPart(NextCommand(c)) \/ (Running /\ healthy)
  /\ Len(Queue(c)) < CmdChanLen
  /\ IF c \in Normal
     THEN cmdChan' = Append(cmdChan, NextCommand(c)) /\ UNCHANGED cmdChanHigh
     ELSE cmdChanHigh' = Append(cmdChanHigh, NextCommand(c)) /\ UNCHANGED cmdChan
  /\ number' = [number EXCEPT ![c] = @ + 1]
  /\ at' = [at EXCEPT ![c] = "waiting"]
  /\ UNCHANGED <<managerVars, answer, overtaken, handlerVars, moduleVars, readerVars>>

\* Refused: not running or not healthy, the queue full for five seconds, or the
\* manager stopped meanwhile.
Refuse(c) ==
  /\ at[c] = "ready" /\ life # "new" /\ number[c] < Commands(c)
  /\ \/ ~IsPart(NextCommand(c)) /\ (StopClosed \/ ~healthy)
     \/ Len(Queue(c)) = CmdChanLen
  /\ at' = [at EXCEPT ![c] = "done"]
  /\ UNCHANGED <<managerVars, number, answer, overtaken, queueVars, handlerVars,
                 moduleVars, readerVars>>

\* The answer is taken; a sender goes on to its part after an OK.
Return(c) ==
  /\ at[c] = "waiting" /\ answer[c] # None
  /\ at' = [at EXCEPT ![c] = IF number[c] < Commands(c) /\ answer[c][1] = "ok"
                             THEN "ready" ELSE "done"]
  /\ answer' = [answer EXCEPT ![c] = None]
  /\ overtaken' = [overtaken EXCEPT ![c] = 0]
  /\ own' = own \ {<<c, number[c]>>}
  /\ UNCHANGED <<managerVars, number, queueVars, runLoop, current, fullResponse,
                 waitPrompt, atTimeoutStreak, deaf, moduleVars, readerVars>>

\* Without an answer a call ends when the manager stops, and the sending of a
\* part after twenty seconds of its own, whatever the run loop does with it.
Abandon(c) ==
  /\ at[c] = "waiting" /\ answer[c] = None
  /\ IsPart(<<c, number[c]>>) \/ StopClosed
  /\ at' = [at EXCEPT ![c] = "done"]
  /\ UNCHANGED <<managerVars, number, answer, overtaken, queueVars, handlerVars,
                 moduleVars, readerVars>>

(***************************************************************************)
(* The run loop.                                                           *)
(***************************************************************************)

Take(cmd) ==
  /\ runLoop' = "write" /\ current' = cmd
  /\ fullResponse' = <<>> /\ waitPrompt' = IsPart(cmd)
  /\ UNCHANGED <<atTimeoutStreak, own, deaf>>

TakeHigh ==
  /\ life # "new" /\ runLoop \in {"top", "select"} /\ cmdChanHigh # <<>>
  /\ Take(Head(cmdChanHigh))
  /\ cmdChanHigh' = Tail(cmdChanHigh)
  /\ UNCHANGED <<managerVars, callerVars, cmdChan, moduleVars, readerVars>>

\* Mutant: the first select is left out.
TopAlwaysFalls == life # "new" /\ runLoop = "top" /\ ~StopClosed

\* The first select falls through only with nothing urgent queued.
TopFalls == life # "new" /\ runLoop = "top" /\ ~StopClosed /\ cmdChanHigh = <<>>

ToSelect ==
  /\ TopFalls
  /\ runLoop' = "select"
  /\ UNCHANGED <<managerVars, callerVars, queueVars, current, fullResponse, waitPrompt,
                 atTimeoutStreak, own, deaf, moduleVars, readerVars>>

TakeNormal ==
  /\ runLoop = "select" /\ cmdChan # <<>>
  /\ Take(Head(cmdChan))
  /\ cmdChan' = Tail(cmdChan)
  /\ overtaken' = [c \in Client |->
                     IF \E i \in DOMAIN cmdChanHigh : cmdChanHigh[i][1] = c
                     THEN overtaken[c] + 1 ELSE overtaken[c]]
  /\ UNCHANGED <<managerVars, at, number, answer, cmdChanHigh, moduleVars, readerVars>>

\* Between commands a line is a URC or nobody's.  A read error stops the manager.
TakeLine ==
  /\ runLoop = "select" /\ rxChan # <<>>
  /\ rxChan' = Tail(rxChan)
  /\ IF Head(rxChan)[2] \in {"fatal", "eof"}
     THEN /\ runLoop' = "exited"
          /\ life' = IF life = "running" THEN "stopped" ELSE life
          /\ notified' = TRUE
     ELSE runLoop' = "top" /\ UNCHANGED <<life, notified>>
  /\ UNCHANGED <<healthy, callerVars, queueVars, current, fullResponse, waitPrompt,
                 atTimeoutStreak, own, deaf, moduleVars, readLoop>>

Exit ==
  /\ StopClosed /\ runLoop \in {"top", "select"}
  /\ runLoop' = "exited"
  /\ UNCHANGED <<managerVars, callerVars, queueVars, current, fullResponse, waitPrompt,
                 atTimeoutStreak, own, deaf, moduleVars, readerVars>>

\* The answer goes into the channel of the request, where a sender that gave up
\* does not look for it any more.
Reply(what) ==
  /\ answer' = [answer EXCEPT ![current[1]] = what]
  /\ runLoop' = "top" /\ current' = NoCommand /\ fullResponse' = <<>>
  /\ waitPrompt' = FALSE
  /\ UNCHANGED <<at, number, overtaken>>

Foreign(line) == line[1] # <<"urc", 0>> \/ line[2] \notin {"async", "echo"}
WriteCommand ==
  /\ runLoop = "write" /\ ~StopClosed
  /\ runLoop' = "respond"
  /\ owed' = IF device = "present" THEN Append(owed, <<current, "command">>) ELSE owed
  /\ own' = IF /\ owed = <<>> /\ prompting = NoCommand
               /\ \A i \in DOMAIN serial : ~Foreign(serial[i])
               /\ \A i \in DOMAIN rxChan : ~Foreign(rxChan[i])
            THEN own \cup {current} ELSE own
  /\ UNCHANGED <<managerVars, callerVars, queueVars, current, fullResponse, waitPrompt,
                 atTimeoutStreak, deaf, device, prompting, serial, atFlaws, readerVars>>

WriteFails ==
  /\ runLoop = "write" /\ (StopClosed \/ device = "gone")
  /\ Reply(<<"error">>)
  /\ \/ GiveUpModule
     \/ UNCHANGED managerVars
  /\ UNCHANGED <<queueVars, atTimeoutStreak, own, deaf, moduleVars, readerVars>>

\* A normal command that times out counts, a high-priority one does not, and an
\* answer of any kind starts the count again.
recordATTimeout(cmd) == IF IsHigh(cmd) THEN atTimeoutStreak ELSE atTimeoutStreak + 1
\* Mutant: one too many.
TrippedLate(streak) == streak > Threshold
Tripped(streak) == streak >= Threshold

\* ESC, the error, the count, and maybe the end.  ESC ends the wait for a PDU,
\* and may end or not end what the module is at.
Timeout ==
  /\ runLoop = "respond"
  /\ device = "gone" \/ atFlaws < MaxATFlaws
  /\ atFlaws' = IF device = "gone" THEN atFlaws ELSE atFlaws + 1
  /\ Reply(<<"error">>)
  /\ atTimeoutStreak' = recordATTimeout(current)
  /\ IF ~IsHigh(current) /\ Tripped(atTimeoutStreak')
     THEN GiveUpModule ELSE UNCHANGED managerVars
  /\ deaf' = IF readLoop = "ended" /\ rxChan = <<>> /\ ~IsHigh(current)
             THEN deaf + 1 ELSE deaf
  /\ prompting' = NoCommand
  /\ owed' \in {owed, IF prompting # NoCommand /\ device = "present"
                      THEN Append(owed, <<prompting, "esc">>) ELSE <<>>}
  /\ UNCHANGED <<queueVars, own, device, serial, readerVars>>

\* Mutant: the prompt is the answer, although the PDU has been written.
AtPromptEnds == FALSE
AtPrompt == waitPrompt

\* One line while a command waits.  Tried in this order: an error of the reader,
\* OK, ERROR, a prompt, a URC, anything else.
Line ==
  /\ runLoop = "respond" /\ rxChan # <<>>
  /\ rxChan' = Tail(rxChan)
  /\ LET line == Head(rxChan)
         kind == line[2]
     IN  \/ /\ kind \in {"fatal", "eof"}
            /\ Reply(<<"error">>)
            /\ IF kind = "fatal" THEN GiveUpModule
               ELSE UNCHANGED managerVars
            /\ UNCHANGED <<atTimeoutStreak, owed, prompting>>
         \/ /\ kind = "OK"
            /\ Reply(<<"ok", fullResponse>>)
            /\ atTimeoutStreak' = 0
            /\ UNCHANGED <<managerVars, owed, prompting>>
         \/ /\ kind = "ERROR"
            /\ Reply(<<"error">>)
            /\ atTimeoutStreak' = 0
            /\ UNCHANGED <<managerVars, owed, prompting>>
         \/ /\ kind = "prompt" /\ AtPrompt
            /\ waitPrompt' = FALSE
            /\ fullResponse' = Append(fullResponse, line)
            /\ atTimeoutStreak' = 0
            /\ IF prompting = current
               THEN /\ owed' = Append(owed, <<current, "pdu">>)
                    /\ prompting' = NoCommand
               ELSE UNCHANGED <<owed, prompting>>
            /\ UNCHANGED <<managerVars, callerVars, runLoop, current>>
         \/ /\ kind = "prompt" /\ ~AtPrompt
            /\ Reply(<<"prompt">>)
            /\ atTimeoutStreak' = 0
            /\ UNCHANGED <<managerVars, owed, prompting>>
         \/ /\ kind \in {"async", "echo", "data"}
            /\ fullResponse' = IF kind = "async" THEN fullResponse
                               ELSE Append(fullResponse, line)
            /\ UNCHANGED <<managerVars, callerVars, runLoop, current, waitPrompt,
                           atTimeoutStreak, owed, prompting>>
  /\ UNCHANGED <<queueVars, own, deaf, device, serial, atFlaws, readLoop>>

(***************************************************************************)
(* The read loop and the module, whose lines nobody reads once it stopped. *)
(***************************************************************************)

ReadLine ==
  /\ life # "new" /\ readLoop = "reading" /\ serial # <<>> /\ ~StopClosed
  /\ Len(rxChan) < RxLen
  /\ rxChan' = Append(rxChan, Head(serial))
  /\ serial' = Tail(serial)
  /\ UNCHANGED <<managerVars, callerVars, queueVars, handlerVars, device, owed,
                 prompting, atFlaws, readLoop>>

\* A read error, or thirty times the end of file: the reader says so and ends.
ReadFails(kind) ==
  /\ life # "new" /\ readLoop = "reading" /\ device = "gone" /\ ~StopClosed
  /\ Len(rxChan) < RxLen
  /\ rxChan' = Append(rxChan, <<NoCommand, kind>>)
  /\ readLoop' = "ended"
  /\ UNCHANGED <<managerVars, callerVars, queueVars, handlerVars, moduleVars>>

ReaderStops ==
  /\ StopClosed /\ readLoop = "reading"
  /\ readLoop' = "ended"
  /\ UNCHANGED <<managerVars, callerVars, queueVars, handlerVars, moduleVars, rxChan>>

\* What the module says to a command, to the PDU, to ESC.
Answers(cmd, stage) ==
  CASE stage = "esc" -> {<<"OK">>}
    [] stage = "command" /\ IsPart(cmd) -> {<<"prompt">>, <<"ERROR">>}
    [] OTHER -> {<<"data", "OK">>, <<"ERROR">>}

ModuleAnswers ==
  /\ device = "present" /\ ~StopClosed /\ owed # <<>> /\ prompting = NoCommand
  /\ LET cmd == Head(owed)[1]
     IN  \E kinds \in Answers(cmd, Head(owed)[2]) :
           /\ serial' = serial \o [i \in DOMAIN kinds |-> <<cmd, kinds[i]>>]
           /\ prompting' = IF kinds = <<"prompt">> THEN cmd ELSE NoCommand
  /\ owed' = Tail(owed)
  /\ UNCHANGED <<managerVars, callerVars, queueVars, handlerVars, device, atFlaws,
                 readerVars>>

\* An unsolicited line.  The text of one may hold ">" or "ERROR".
ModuleSpeaks(kind) ==
  /\ device = "present" /\ life # "new" /\ atFlaws < MaxATFlaws /\ ~StopClosed
  /\ atFlaws' = atFlaws + 1
  /\ serial' = Append(serial, <<<<"urc", 0>>, kind>>)
  /\ own' = IF kind \in {"async", "echo"} THEN own ELSE own \ {current}
  /\ UNCHANGED <<managerVars, callerVars, queueVars, runLoop, current, fullResponse,
                 waitPrompt, atTimeoutStreak, deaf, device, owed, prompting, readerVars>>

ModuleGone ==
  /\ device = "present" /\ life # "new" /\ ~StopClosed
  /\ atFlaws < MaxATFlaws /\ atFlaws' = atFlaws + 1
  /\ device' = "gone" /\ owed' = <<>> /\ prompting' = NoCommand
  /\ serial' = <<>>
  /\ UNCHANGED <<managerVars, callerVars, queueVars, handlerVars, readerVars>>

ATNext ==
  \/ \E opened \in BOOLEAN : Start(opened)
  \/ BeginStop \/ EndStop
  \/ \E c \in Client : Enqueue(c) \/ Refuse(c) \/ Return(c) \/ Abandon(c)
  \/ TakeHigh \/ ToSelect \/ TakeNormal \/ TakeLine \/ Exit
  \/ WriteCommand \/ WriteFails \/ Timeout \/ Line
  \/ ReadLine \/ \E kind \in {"fatal", "eof"} : ReadFails(kind)
  \/ ReaderStops \/ ModuleAnswers
  \/ \E kind \in {"async", "echo", "prompt", "ERROR"} : ModuleSpeaks(kind)
  \/ ModuleGone

ATSpec == ATInit /\ [][ATNext]_atVars

-----------------------------------------------------------------------------
Answered(c) == <<c, number[c]>> \in own /\ answer[c] # None
\* Of the lines that are data there is one, and it is the command's.
OwnLines(lines, cmd) ==
  \E i \in DOMAIN lines :
    /\ lines[i] = <<cmd, "data">>
    /\ \A j \in DOMAIN lines : lines[j][2] = "data" => j = i

\* A command that began with nothing of another under way, and into whose answer
\* no unsolicited text with ">" or "ERROR" in it fell, is answered by its own
\* lines, all of them, and the prompt is never its answer: executeAT,
\* handleCommand and SendSMS together.  After a time-out, nothing is promised.
OwnAnswer ==
  \A c \in Client : Answered(c) =>
    /\ answer[c][1] # "prompt"
    /\ answer[c][1] = "ok" => OwnLines(answer[c][2], <<c, number[c]>>)

\* A queued high-priority command lets at most one normal one go first, the one
\* that the second select of the run loop may pick at random.
OvertakenOnce == \A c \in Client : overtaken[c] <= 1

\* A command is answered by its own lines, and one normal command at most goes before a
\* high-priority one.
CommandsServed == OwnAnswer /\ OvertakenOnce

\* When nothing can be read any more and the manager has not been told, as after
\* thirty ends of file during a command, the watchdog notices: it is stopped
\* before as many normal commands have timed out as it counts.
SilenceNoticed == life = "running" => deaf < Threshold
=============================================================================
