------------------------------ MODULE SIMFiles ------------------------------
(***************************************************************************)
(* How the files of network names (EF_PNN) and of the rules that refer to  *)
(* them by record number (EF_OPL) are read, record after record: over AT   *)
(* by queryPNNRecords and queryOPLRecords (internal/modem/commands.go),    *)
(* over MBIM by readSIMMetadata (backend/mbim_backend_simfiles.go).        *)
(* What is in a record is the matter of SIMRecords.                        *)
(***************************************************************************)
EXTENDS Naturals, Sequences

CONSTANT MaxRecord   \* the records of a file; over AT at most 32 are tried

ASSUME FileAssumption == MaxRecord \in Nat

VARIABLES
  way,           \* "at" or "mbim"
  ef,            \* the file: "pnn" or "opl"
  efRecords,     \* per record: "unreadable", "empty" or "filled"
  nextRecord, readFailures, reading,
  kept           \* the records that were kept: each with its number on the card

fileVars == <<way, ef, efRecords, nextRecord, readFailures, reading, kept>>

FileInit ==
  /\ way \in {"at", "mbim"} /\ ef \in {"pnn", "opl"}
  /\ efRecords \in [1..MaxRecord -> {"unreadable", "empty", "filled"}]
  /\ nextRecord = 1 /\ readFailures = 0 /\ reading = TRUE /\ kept = <<>>

\* Over AT the length of a record is guessed: a name that no length shows counts as a
\* failure, because no record was read; a rule has one length only.
ReadingFails(r) ==
  \/ efRecords[r] = "unreadable"
  \/ way = "at" /\ ef = "pnn" /\ efRecords[r] = "empty"

Keep == kept' = IF efRecords[nextRecord] = "filled" THEN Append(kept, nextRecord) ELSE kept

\* Mutant: a record that was read does not start the count anew.
ReadOverATCounting ==
  /\ way = "at" /\ reading /\ nextRecord <= MaxRecord
  /\ nextRecord' = nextRecord + 1
  /\ IF ReadingFails(nextRecord)
     THEN /\ readFailures' = readFailures + 1
          /\ reading' = (readFailures' < 2 /\ kept = <<>>)
          /\ UNCHANGED kept
     ELSE Keep /\ UNCHANGED <<reading, readFailures>>
  /\ UNCHANGED <<way, ef, efRecords>>

\* The second failure in a row ends the reading, the first one too after something was
\* found.
ReadOverAT ==
  /\ way = "at" /\ reading /\ nextRecord <= MaxRecord
  /\ nextRecord' = nextRecord + 1
  /\ IF ReadingFails(nextRecord)
     THEN /\ readFailures' = readFailures + 1
          /\ reading' = (readFailures' < 2 /\ kept = <<>>)
          /\ UNCHANGED kept
     ELSE Keep /\ readFailures' = 0 /\ UNCHANGED reading
  /\ UNCHANGED <<way, ef, efRecords>>

\* Over MBIM any failure does.
ReadOverMBIM ==
  /\ way = "mbim" /\ reading /\ nextRecord <= MaxRecord
  /\ nextRecord' = nextRecord + 1
  /\ IF ReadingFails(nextRecord) THEN reading' = FALSE /\ UNCHANGED kept
     ELSE Keep /\ UNCHANGED reading
  /\ UNCHANGED <<way, ef, efRecords, readFailures>>

FileNext == ReadOverAT \/ ReadOverMBIM
FileSpec == FileInit /\ [][FileNext]_fileVars

-----------------------------------------------------------------------------
\* Nothing in front of a record keeps it from being read: over AT no two failures in a
\* row and none behind a record that was found, over MBIM none at all.
Reachable(r) ==
  \A q \in 1..(r - 1) : ReadingFails(q) =>
    /\ way = "at"
    /\ q > 1 => ~ReadingFails(q - 1)
    /\ \A p \in 1..q : efRecords[p] # "filled"

\* At the end exactly the records are kept that are filled and reachable, each once and
\* in their order, so that a rule finds the name whose number it gives; and the names
\* that AT reads have no gap.
RecordsRead ==
  /\ \A i, j \in DOMAIN kept : i < j => kept[i] < kept[j]
  /\ ~reading \/ nextRecord > MaxRecord =>
       \A r \in 1..MaxRecord :
         (\E i \in DOMAIN kept : kept[i] = r) <=> efRecords[r] = "filled" /\ Reachable(r)
  /\ way = "at" /\ ef = "pnn" =>
       \A i \in 1..(Len(kept) - 1) : kept[i + 1] = kept[i] + 1
=============================================================================
