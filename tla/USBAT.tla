-------------------------------- MODULE USBAT --------------------------------
(***************************************************************************)
(* The AT channel of the desktop application over two bulk endpoints       *)
(* (usbat_libusb.go, and usbat_linux.go for builds without cgo): commands, *)
(* commands that ask for a text, and the upload and download of files.  An *)
(* answer comes in pieces; nothing in it says which command it answers.    *)
(***************************************************************************)
EXTENDS Naturals, Sequences, SequencesExt

CONSTANTS
  MaxCommands,   \* bound: commands sent
  MaxLate        \* bound: how often a deadline passes

ASSUME USBAssumption == MaxCommands \in Nat /\ MaxLate \in Nat

VARIABLES
  platform,                  \* "libusb" or "linux"
  mode,                      \* the module: "idle", "editor" or "upload", and the command it is for
  owed, pipe,                \* what it has still to say, and what has come and is not read
  command, response,         \* the command at work, and what was read for it
  sent, late,
  results,                   \* what each command returned
  leftover,                  \* ghost: a command was sent while an earlier answer was owed
  split                      \* ghost: the line end after CONNECT came in a transfer of its own

usbVars == <<platform, mode, owed, pipe, command, response, sent, late, results, leftover,
             split>>

Kind == {"plain", "interactive", "upload", "download"}
Idle == [id |-> 0, kind |-> "none", phase |-> "idle"]

USBInit ==
  /\ platform \in {"libusb", "linux"}
  /\ mode = <<"idle", 0>> /\ owed = <<>> /\ pipe = <<>>
  /\ command = Idle /\ response = <<>>
  /\ sent = 0 /\ late = 0 /\ results = <<>> /\ leftover = FALSE /\ split = FALSE

(***************************************************************************)
(* The module.                                                             *)
(***************************************************************************)

Says(id, whats) == [i \in DOMAIN whats |-> <<id, whats[i]>>]

\* What it says to a command: an ERROR, its answer, or first the request for a payload.
Replies(id, kind) ==
  {Says(id, <<"error">>)} \cup
  CASE kind = "plain" -> {Says(id, <<"info", "ok">>)}
    [] kind = "interactive" -> {Says(id, <<"prompt">>)}
    [] kind = "upload" -> {Says(id, <<"connect", "eol">>)}
    [] kind = "download" -> {Says(id, <<"connect", "eol", "data", "more", "info", "ok">>)}

\* A command that comes while a payload is awaited is taken for a part of it.
Takes(id, kind, answer) ==
  IF mode[1] # "idle" THEN UNCHANGED <<mode, owed>>
  ELSE /\ owed' = owed \o answer
       /\ mode' = IF Last(answer)[2] = "prompt" THEN <<"editor", id>>
                  ELSE IF kind = "upload" /\ Last(answer)[2] = "eol" THEN <<"upload", id>>
                  ELSE mode

Emit ==
  /\ owed # <<>>
  /\ pipe' = Append(pipe, Head(owed)) /\ owed' = Tail(owed)
  /\ UNCHANGED <<platform, mode, command, response, sent, late, results, leftover, split>>

\* A payload that does not come is given up.
ModuleGivesUp ==
  /\ mode[1] # "idle" /\ command = Idle
  /\ mode' = <<"idle", 0>> /\ owed' = owed \o Says(mode[2], <<"error">>)
  /\ UNCHANGED <<platform, pipe, command, response, sent, late, results, leftover, split>>

(***************************************************************************)
(* The application: one command at a time.                                 *)
(***************************************************************************)

\* Mutant: what has come before is left for the command.
DrainNothing == pipe
\* drainLocked: what has come is thrown away.
Emptied == <<>>

Send(kind) ==
  /\ command = Idle /\ sent < MaxCommands
  /\ sent' = sent + 1
  /\ pipe' = Emptied
  /\ leftover' = (leftover \/ owed # <<>> \/ mode[1] # "idle")
  /\ \E answer \in Replies(sent + 1, kind) : Takes(sent + 1, kind, answer)
  /\ command' = [id |-> sent + 1, kind |-> kind,
                 phase |-> IF kind = "plain" THEN "answer" ELSE "request"]
  /\ response' = <<>>
  /\ UNCHANGED <<platform, late, results, split>>

Whats(pieces) == {pieces[i][2] : i \in DOMAIN pieces}
IsError(pieces) == "error" \in Whats(pieces)
\* atResponseComplete: CONNECT with the end of its line is an answer of its own.
Complete(pieces) ==
  \/ IsError(pieces) \/ "ok" \in Whats(pieces)
  \/ {"connect", "eol"} \subseteq Whats(pieces)

\* A transfer brings what has come, or the first part of it.
Chunk == {SubSeq(pipe, 1, n) : n \in 1..Len(pipe)}
Take(chunk) ==
  /\ pipe' = SubSeq(pipe, Len(chunk) + 1, Len(pipe))
  /\ split' = (split \/ \E i \in DOMAIN chunk : chunk[i][2] = "eol" /\ i = 1)

Return(pieces) ==
  /\ results' = Append(results, [id |-> command.id, kind |-> command.kind, pieces |-> pieces])
  /\ command' = Idle /\ response' = <<>>

ReadAnswer ==
  /\ command.kind = "plain"
  /\ \E chunk \in Chunk :
       /\ Take(chunk)
       /\ IF Complete(response \o chunk) THEN Return(response \o chunk)
          ELSE response' = response \o chunk /\ UNCHANGED <<command, results>>
  /\ UNCHANGED <<platform, mode, owed, sent, late, leftover>>

\* The payload follows the prompt or CONNECT; the module answers when it has it all,
\* and waits when it has not.
SendPayload(pieces) ==
  /\ command' = [command EXCEPT !.phase = "answer"] /\ response' = pieces
  /\ UNCHANGED results
  /\ IF mode[1] = "idle" THEN UNCHANGED <<mode, owed>>
     ELSE \/ \E answer \in {<<"info", "ok">>, <<"error">>} :
               mode' = <<"idle", 0>> /\ owed' = owed \o Says(mode[2], answer)
          \/ UNCHANGED <<mode, owed>>

ReadRequest ==
  /\ command.kind \in {"interactive", "upload"} /\ command.phase = "request"
  /\ \E chunk \in Chunk :
       LET pieces == response \o chunk
           asked == IF command.kind = "upload" THEN "connect" \in Whats(pieces)
                    ELSE Last(pieces)[2] = "prompt"
       IN /\ Take(chunk)
          /\ IF IsError(pieces) THEN Return(pieces) /\ UNCHANGED <<mode, owed>>
             ELSE IF asked THEN SendPayload(pieces)
             ELSE response' = pieces /\ UNCHANGED <<command, results, mode, owed>>
  /\ UNCHANGED <<platform, sent, late, leftover>>

\* What comes after the first CONNECT.
FromConnect(pieces) ==
  SubSeq(pieces, SelectInSeq(pieces, LAMBDA p : p[2] = "connect") + 1, Len(pieces))
\* Mutant: the whole answer is looked at, as the variant for Linux does.
Answered(pieces) == Complete(pieces)
\* libusb: only what comes after CONNECT; Linux: everything, CONNECT included.
PayloadAnswered(pieces) ==
  IF platform = "libusb" /\ command.kind = "upload" THEN Complete(FromConnect(pieces))
  ELSE Complete(pieces)

ReadPayloadAnswer ==
  /\ command.kind \in {"interactive", "upload"} /\ command.phase = "answer"
  /\ \E chunk \in Chunk :
       /\ Take(chunk)
       /\ IF PayloadAnswered(response \o chunk) THEN Return(response \o chunk)
          ELSE response' = response \o chunk /\ UNCHANGED <<command, results>>
  /\ UNCHANGED <<platform, mode, owed, sent, late, leftover>>

\* The file is what comes after CONNECT, and its line end if they come together, up to
\* its size; the rest of the answer is left.
AfterConnect(pieces) ==
  LET rest == FromConnect(pieces)
  IN IF rest # <<>> /\ rest[1][2] = "eol" THEN Tail(rest) ELSE rest
FileSize == 2

ReadFile ==
  /\ command.kind = "download"
  /\ \E chunk \in Chunk :
       LET header == response \o chunk
           file == IF command.phase = "request" THEN AfterConnect(header) ELSE response \o chunk
       IN /\ Take(chunk)
          /\ IF command.phase = "request" /\ IsError(header) THEN Return(header)
             ELSE IF command.phase = "request" /\ "connect" \notin Whats(header)
             THEN response' = header /\ UNCHANGED <<command, results>>
             ELSE IF Len(file) >= FileSize THEN Return(SubSeq(file, 1, FileSize))
             ELSE /\ response' = file /\ command' = [command EXCEPT !.phase = "answer"]
                  /\ UNCHANGED results
  /\ UNCHANGED <<platform, mode, owed, sent, late, leftover>>

\* The deadline: what came of a plain answer is returned as one; the editor is left by
\* an ESC, the upload is not.
Deadline ==
  /\ command # Idle /\ late < MaxLate /\ late' = late + 1
  /\ IF command.kind = "plain" /\ response # <<>> THEN Return(response)
     ELSE command' = Idle /\ response' = <<>> /\ UNCHANGED results
  /\ mode' = IF command.phase = "answer" /\ mode[1] = "editor" THEN <<"idle", 0>> ELSE mode
  /\ UNCHANGED <<platform, owed, pipe, sent, leftover, split>>

USBNext ==
  \/ Emit \/ ModuleGivesUp \/ Deadline
  \/ \E kind \in Kind : Send(kind)
  \/ ReadAnswer \/ ReadRequest \/ ReadPayloadAnswer \/ ReadFile

USBSpec == USBInit /\ [][USBNext]_usbVars

-----------------------------------------------------------------------------
Own(r) == \A i \in DOMAIN r.pieces : r.pieces[i][1] = r.id

\* As long as the module owed nothing when a command was sent, whatever was left in
\* the pipe, a command returns pieces of its own answer only.
QuietOwnPieces == ~leftover => \A i \in DOMAIN results : Own(results[i])

LastWord(r) == "ok" \in Whats(r.pieces) \/ IsError(r.pieces)

\* With libusb, an upload returns with the module's last word on it; and a download
\* returns the file, if the end of the CONNECT line came with it.
TransfersWhole ==
  ~leftover => \A i \in DOMAIN results :
    /\ results[i].kind = "upload" /\ platform = "libusb" => LastWord(results[i])
    /\ results[i].kind = "download" /\ ~split =>
         IsError(results[i].pieces) \/ Whats(results[i].pieces) = {"data", "more"}

\* A command returns pieces of its own answer, an upload with the last word and a
\* download with the file (Command, UploadFile, DownloadFile).
OwnAnswersWhole == QuietOwnPieces /\ TransfersWhole
==============================================================================
