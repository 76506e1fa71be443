---------------------------- MODULE ModuleNotes -----------------------------
(***************************************************************************)
(* The notes on eSIM profiles that the desktop application keeps in the    *)
(* module's own phonebook (main.go): one entry per profile, found by       *)
(* reading the whole phonebook before each write.  Reads and writes take   *)
(* turns (moduleNotesMu), but the probe of the phonebook, which selects    *)
(* the one of the SIM card, takes no part in that.                         *)
(***************************************************************************)
EXTENDS Naturals, FiniteSets

CONSTANTS
  ICCID,         \* the profiles noted
  Entries,       \* the entries of each phonebook
  Handler,       \* the requests at work on notes
  MaxRequests,   \* bound: requests and probes begun
  MaxNoteFaults  \* bound: commands that fail

ASSUME NotesAssumption ==
  /\ Entries \in Nat /\ "nobody" \notin Handler
  /\ "free" \notin ICCID /\ "contact" \notin ICCID

VARIABLES
  phonebook, book,          \* the module: the phonebook selected, and both
  moduleNotesMu,
  handler, wanted, seen,   \* per handler: where it is, what it asks, what it read
  probe,
  requests, noteFaults,
  original,                \* ghost: what was in the phonebooks at first
  noteTold,                \* ghost: the last word on each profile's note
  probed                   \* ghost: a probe ran into a request

phonebookVars == <<phonebook, book>>
notesVars == <<phonebookVars, moduleNotesMu, handler, wanted, seen, probe, requests, noteFaults,
               original, noteTold, probed>>

Storage == {"SM", "ME"}
Index == 1..Entries
Nobody == "nobody"
Unread == [i \in Index |-> "free"]

NotesInit ==
  /\ phonebook \in Storage
  /\ book \in [Storage -> [Index -> {"free", "contact"}]] /\ original = book
  /\ moduleNotesMu = Nobody
  /\ handler = [h \in Handler |-> "idle"] /\ wanted = [h \in Handler |-> <<"list">>]
  /\ seen = [h \in Handler |-> Unread]
  /\ probe = "idle"
  /\ requests = 0 /\ noteFaults = 0
  /\ noteTold = [p \in ICCID |-> "none"] /\ probed = FALSE

HandlerAt(h, pc) == handler' = [handler EXCEPT ![h] = pc]
CommandFault == noteFaults < MaxNoteFaults /\ noteFaults' = noteFaults + 1

\* Mutant: requests on notes do not wait for each other.
EnterUnlocked(h) == TRUE
CanEnter(h) == moduleNotesMu = Nobody

\* listModuleESIMNotes or saveModuleESIMNote, which deletes when the note is empty.
BeginRequest(h, what) ==
  /\ handler[h] = "idle" /\ CanEnter(h)
  /\ requests < MaxRequests /\ requests' = requests + 1
  /\ moduleNotesMu' = h /\ wanted' = [wanted EXCEPT ![h] = what]
  /\ HandlerAt(h, "select")
  /\ probed' = (probed \/ probe # "idle")
  /\ UNCHANGED <<phonebookVars, seen, probe, noteFaults, original, noteTold>>

Leave(h) ==
  /\ HandlerAt(h, "idle")
  /\ moduleNotesMu' = IF moduleNotesMu = h THEN Nobody ELSE moduleNotesMu
  /\ seen' = [seen EXCEPT ![h] = Unread] /\ wanted' = [wanted EXCEPT ![h] = <<"list">>]

\* runATOK: an ERROR, an answer without its OK or no answer ends the request.  The
\* command may have been executed.
SelectME(h) ==
  /\ handler[h] = "select"
  /\ \/ phonebook' = "ME" /\ HandlerAt(h, "read")
        /\ UNCHANGED <<noteFaults, moduleNotesMu, seen, wanted>>
     \/ CommandFault /\ phonebook' \in {phonebook, "ME"} /\ Leave(h)
  /\ UNCHANGED <<book, probe, requests, original, noteTold, probed>>

NoEntries == \A i \in Index : book["ME"][i] = "free"

\* AT+CPBS? must name the ME phonebook, and says how many entries it holds and has;
\* an empty one is not read.
ReadStatus(h) ==
  /\ handler[h] = "read"
  /\ \/ phonebook = "ME" /\ HandlerAt(h, IF NoEntries THEN "choose" ELSE "entries")
        /\ UNCHANGED <<noteFaults, moduleNotesMu, seen, wanted>>
     \/ phonebook # "ME" /\ Leave(h) /\ UNCHANGED noteFaults
     \/ CommandFault /\ Leave(h)
  /\ UNCHANGED <<phonebookVars, probe, requests, original, noteTold, probed>>

ReadEntries(h) ==
  /\ handler[h] = "entries"
  /\ \/ seen' = [seen EXCEPT ![h] = book[phonebook]] /\ HandlerAt(h, "choose")
        /\ UNCHANGED <<noteFaults, moduleNotesMu, wanted>>
     \/ CommandFault /\ Leave(h)
  /\ UNCHANGED <<phonebookVars, probe, requests, original, noteTold, probed>>

Occupied(h) == {i \in Index : seen[h][i] # "free"}
Noted(h, p) == {i \in Index : seen[h][i] = p}

\* Mutant: the entry after as many as there are.
NextEntry(h, p) ==
  IF Noted(h, p) # {} THEN CHOOSE i \in Noted(h, p) : TRUE
  ELSE IF Cardinality(Occupied(h)) < Entries THEN Cardinality(Occupied(h)) + 1 ELSE 0

\* The entry of the profile, or else the first free one; 0: there is none.  Of two
\* entries of a profile the last one read counts.
EntryFor(h, p) ==
  IF Noted(h, p) # {} THEN CHOOSE i \in Noted(h, p) : \A j \in Noted(h, p) : j <= i
  ELSE IF Occupied(h) = Index THEN 0
       ELSE CHOOSE i \in Index : i \notin Occupied(h) /\ 1..(i - 1) \subseteq Occupied(h)

Choose(h) ==
  /\ handler[h] = "choose"
  /\ \/ wanted[h][1] = "list" /\ Leave(h)
     \/ wanted[h][1] = "save" /\ EntryFor(h, wanted[h][2]) = 0 /\ Leave(h)
     \/ wanted[h][1] = "delete" /\ Noted(h, wanted[h][2]) = {} /\ Leave(h)
     \/ /\ \/ wanted[h][1] = "save" /\ EntryFor(h, wanted[h][2]) # 0
           \/ wanted[h][1] = "delete" /\ Noted(h, wanted[h][2]) # {}
        /\ HandlerAt(h, "write") /\ UNCHANGED <<moduleNotesMu, seen, wanted>>
  /\ UNCHANGED <<phonebookVars, probe, requests, noteFaults, original, noteTold, probed>>

\* AT+CPBW writes the entry of whatever phonebook is selected by now.
WriteEntry(h) ==
  /\ handler[h] = "write"
  /\ LET p == wanted[h][2]
         written == [book EXCEPT ![phonebook][EntryFor(h, p)] =
                       IF wanted[h][1] = "save" THEN p ELSE "free"]
     IN \/ /\ book' = written /\ UNCHANGED noteFaults
           /\ noteTold' = [noteTold EXCEPT ![p] =
                          IF wanted[h][1] = "save" THEN "saved" ELSE "deleted"]
        \/ /\ CommandFault /\ book' \in {book, written}
           /\ noteTold' = [noteTold EXCEPT ![p] = "failed"]
  /\ Leave(h)
  /\ UNCHANGED <<phonebook, probe, requests, original, probed>>

\* probeESIMPhonebook: the phonebook of the SIM card is selected, and stays so.
BeginProbe ==
  /\ probe = "idle" /\ requests < MaxRequests /\ requests' = requests + 1
  /\ probe' = "select"
  /\ probed' = (probed \/ \E h \in Handler : handler[h] # "idle")
  /\ UNCHANGED <<phonebookVars, moduleNotesMu, handler, wanted, seen, noteFaults, original,
                 noteTold>>

ProbeSelects ==
  /\ probe = "select"
  /\ \/ phonebook' = "SM" /\ UNCHANGED noteFaults
     \/ CommandFault /\ phonebook' \in {phonebook, "SM"}
  /\ probe' = "idle"
  /\ UNCHANGED <<book, moduleNotesMu, handler, wanted, seen, requests, original, noteTold,
                 probed>>

NotesNext ==
  \/ BeginProbe \/ ProbeSelects
  \/ \E h \in Handler :
       \/ BeginRequest(h, <<"list">>)
       \/ \E p \in ICCID : BeginRequest(h, <<"save", p>>) \/ BeginRequest(h, <<"delete", p>>)
       \/ SelectME(h) \/ ReadStatus(h) \/ ReadEntries(h) \/ Choose(h) \/ WriteEntry(h)

NotesSpec == NotesInit /\ [][NotesNext]_notesVars

-----------------------------------------------------------------------------
\* A probe writes nothing, so it is safe to use (main.go:2137): no contact is
\* ever written over.
ContactsKept ==
  \A s \in Storage, i \in Index : original[s][i] = "contact" => book[s][i] = "contact"

EntriesOf(s, p) == {i \in Index : book[s][i] = p}

\* As long as no probe runs into a request: no contact is written over, a profile has
\* one entry in the module's phonebook and none in the card's, and a note that was
\* saved or deleted is there, or gone.
QuietNotesKept ==
  ~probed =>
    /\ ContactsKept
    /\ \A p \in ICCID :
         /\ EntriesOf("SM", p) = {} /\ Cardinality(EntriesOf("ME", p)) <= 1
         /\ noteTold[p] = "saved" => EntriesOf("ME", p) # {}
         /\ noteTold[p] = "deleted" => EntriesOf("ME", p) = {}
=============================================================================
