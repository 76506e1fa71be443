----------------------------- MODULE Forwarding ------------------------------
(***************************************************************************)
(* What the desktop application passes on (automation.go): a short message *)
(* to numbers, Telegram chats and Feishu, and the recording of a call to   *)
(* Telegram chats and then, as a text and a voice message, to Feishu.  An  *)
(* HTTP request is tried three times; the answer to one that was taken may *)
(* be lost.                                                                *)
(***************************************************************************)
EXTENDS Naturals, Sequences

CONSTANTS
  Recipient, Chat,        \* the numbers and the chats, as sequences
  MaxUnanswered           \* bound: requests whose answer is lost

\* They are lists, and "feishu" is no number and no chat.
ASSUME ForwardAssumption ==
  /\ Recipient \in Seq({Recipient[i] : i \in DOMAIN Recipient} \ {"feishu"})
  /\ Chat \in Seq({Chat[i] : i \in DOMAIN Chat} \ {"feishu"})
  /\ MaxUnanswered \in Nat

VARIABLES
  job, feishu,            \* "sms" or "recording"; the mode: "webhook", "app" or "off"
  todo, attempt,          \* the requests still to make, and how often the first was tried
  delivered, tried,       \* ghost: how often each was taken, and which were tried
  marks,                  \* what the history says the recording was forwarded to
  unanswered

forwardVars == <<job, feishu, todo, attempt, delivered, tried, marks, unanswered>>

Target(kind, to) == [i \in DOMAIN to |-> <<kind, to[i]>>]
One(kind) == <<kind, "feishu">>
Attempts == 3

\* forwardIncomingSMS, sendFeishuMessage.
SMSPlan(way) ==
  Target("text", Recipient) \o Target("telegram", Chat) \o
  CASE way = "webhook" -> <<One("webhook")>>
    [] way = "app" -> <<One("token"), One("message")>>
    [] OTHER -> <<>>

\* forwardCallRecording, sendFeishuCallRecording: the text first, then the upload, whose
\* answer names the file, and the voice message.
RecordingPlan(way) ==
  Target("document", Chat) \o
  IF way = "app"
  THEN <<One("transcode"), One("token"), One("metadata"), One("upload"), One("audio")>>
  ELSE <<>>

Kinds == {"text", "telegram", "webhook", "token", "message", "document", "transcode",
          "metadata", "upload", "audio"}
Request == Kinds \X ({"feishu"} \cup {Recipient[i] : i \in DOMAIN Recipient}
                                \cup {Chat[i] : i \in DOMAIN Chat})

ForwardInit ==
  /\ job \in {"sms", "recording"} /\ feishu \in {"webhook", "app", "off"}
  /\ job = "recording" => feishu # "webhook"
  /\ todo = IF job = "sms" THEN SMSPlan(feishu) ELSE RecordingPlan(feishu)
  /\ attempt = 0 /\ delivered = [r \in Request |-> 0] /\ tried = {}
  /\ marks = {} /\ unanswered = 0

request == Head(todo)
OnFeishu(r) == r[2] = "feishu"

\* A number or a chat that fails does not keep the next from its turn; a step for Feishu
\* that fails is the end of it, for each needs the ones before.
AfterFailure == IF OnFeishu(request) THEN <<>> ELSE Tail(todo)

\* sendTextSMS and the conversion of the recording are tried once.
Retried(r) == r[1] \notin {"text", "transcode"}

\* Mutant: a request that was answered is taken for done, whatever the answer says.
AcceptsAny(r, answer) == answer \in {"accepted", "rejected"}
\* The requests to Feishu's interface look into the answer; those to a webhook do not,
\* and Telegram says what it thinks in the status.
Accepts(r, answer) ==
  \/ answer = "accepted"
  \/ r[1] = "webhook" /\ answer = "rejected"

\* What the answer can be: rejected inside an answer of status 200, an error status, or
\* none; only then the request may have been taken all the same.
CanBeTaken(answer) ==
  CASE answer = "accepted" -> {1}
    [] answer = "unanswered" -> {0, 1}
    [] OTHER -> {0}

Marks(r) ==
  IF r[1] = "document" THEN {"telegram"} ELSE IF r[1] = "audio" THEN {"feishu"} ELSE {}

Attempt ==
  /\ todo # <<>>
  /\ \E answer \in {"accepted", "rejected", "refused", "unanswered"} :
       /\ answer = "unanswered" => unanswered < MaxUnanswered
       /\ unanswered' = unanswered + (IF answer = "unanswered" THEN 1 ELSE 0)
       /\ \E taken \in CanBeTaken(answer) :
            delivered' = [delivered EXCEPT ![request] = @ + taken]
       /\ tried' = tried \cup {request}
       /\ IF Accepts(request, answer)
          THEN todo' = Tail(todo) /\ attempt' = 0 /\ marks' = marks \cup Marks(request)
          ELSE /\ UNCHANGED marks
               /\ IF Retried(request) /\ attempt + 1 < Attempts
                  THEN attempt' = attempt + 1 /\ UNCHANGED todo
                  ELSE attempt' = 0 /\ todo' = AfterFailure
  /\ UNCHANGED <<job, feishu>>

ForwardNext == Attempt
ForwardSpec == ForwardInit /\ [][ForwardNext]_forwardVars

-----------------------------------------------------------------------------
Got(kind) == \E r \in Request : r[1] = kind /\ delivered[r] > 0

\* A recording marked as forwarded has reached a chat, or Feishu: its text, its file and
\* its voice message, none of which comes before the text.  And when there is nothing
\* left to do every chat has had its turn, whatever the others answered.
MarksTrue ==
  /\ "telegram" \in marks => Got("document")
  /\ "feishu" \in marks => Got("metadata") /\ Got("upload") /\ Got("audio")
  /\ Got("audio") => Got("upload") /\ Got("metadata")
  /\ todo = <<>> => \A i \in DOMAIN Chat :
       <<IF job = "sms" THEN "telegram" ELSE "document", Chat[i]>> \in tried
==============================================================================
