----------------------------- MODULE SMSStorage -----------------------------
(***************************************************************************)
(* Incoming messages through the AT manager (internal/modem/manager.go).    *)
(* The module stores a message and announces storage and index (+CMTI); a   *)
(* goroutine of its own selects that storage, reads the message, hands it   *)
(* over, deletes it and selects the former storage again, one AT command at *)
(* a time.  CheckAllSMS lists what is unread in the selected storage, hands *)
(* it over, one after the other, and then deletes everything there.         *)
(*                                                                          *)
(* Which command is under way is the manager's own matter (ATManager); here *)
(* each is one step.  Storage names and indexes are assumed to be readable. *)
(***************************************************************************)
EXTENDS Naturals, Sequences, FiniteSets, Reassembler

CONSTANTS
  Texts,       \* records [text, total, key]: what is sent to the module
  Slots,       \* places in a storage
  NoPart,
  MaxMishaps   \* bound: commands without an answer, clean-ups

Storage == {"SM", "ME"}
Arriving == UNION { {PartsOf(t.text, t.total, t.key)[i] : i \in 1..t.total} : t \in Texts }
Keys == {t.key : t \in Texts}

\* A sender gives each of its long texts a reference of its own.
ASSUME StorageAssumption ==
  /\ \A t \in Texts : t.total \in Nat \ {0}
  /\ \A t, u \in Texts : t.total > 1 /\ u.total > 1 /\ t.key = u.key => t = u
  /\ Slots \in Nat \ {0} /\ MaxMishaps \in Nat
  /\ NoPart \notin Arriving

VARIABLES
  slots,       \* storage, index -> part or NoPart
  unread,      \* <<storage, index>> of the messages not yet read
  selected,    \* the storage commands work on
  reader,      \* per part: where its goroutine is
  where,       \* per part: the storage and index announced
  previous,    \* per part: the storage to go back to, or "none"
  took,        \* per part: what its goroutine read
  checking,    \* CheckAllSMS: "idle" or "delete"
  listed,      \* CheckAllSMS: what it listed and has not handed over, by index
  cache,       \* the reassembler
  handed,      \* history: texts given to the callback
  overlap,     \* history: two of these were under way at once
  mishaps

storageVars == <<slots, unread, selected, reader, where, previous, took, checking,
                 listed, cache, handed, overlap, mishaps>>

StorageInit ==
  /\ slots = [s \in Storage |-> [i \in 1..Slots |-> NoPart]]
  /\ unread = {} /\ selected = "ME"
  /\ reader = [p \in Arriving |-> "none"]
  /\ where = [p \in Arriving |-> <<"ME", 1>>]
  /\ previous = [p \in Arriving |-> "none"]
  /\ took = [p \in Arriving |-> NoPart]
  /\ checking = "idle" /\ listed = <<>>
  /\ cache = [k \in Keys |-> <<>>] /\ handed = {}
  /\ overlap = FALSE /\ mishaps = 0

Active(p) == reader[p] \notin {"none", "done"}
Busy == checking # "idle" \/ \E p \in Arriving : Active(p)
Mishap == mishaps < MaxMishaps /\ mishaps' = mishaps + 1
Goto(p, pc) == reader' = [reader EXCEPT ![p] = pc]
\* The deferred restore, if there is one.
Leaving(p) == IF previous[p] = "none" THEN "done" ELSE "restore"

\* A part is stored and announced, and handleURC starts its goroutine; or it was
\* stored before the manager ran, and only CheckAllSMS finds it.
Arrive(p, s, i, announced) ==
  /\ reader[p] = "none" /\ slots[s][i] = NoPart
  /\ slots' = [slots EXCEPT ![s][i] = p]
  /\ unread' = unread \cup {<<s, i>>}
  /\ where' = [where EXCEPT ![p] = <<s, i>>]
  /\ Goto(p, IF announced THEN "query" ELSE "done")
  /\ overlap' = (overlap \/ Busy)
  /\ UNCHANGED <<selected, previous, took, checking, listed, cache, handed, mishaps>>

\* AT+CPMS?: the selected storage is the announced one, is another one to go
\* back to, or is not known because there was no answer or none to be read.
QueryStorage(p) ==
  /\ reader[p] = "query"
  /\ \/ /\ Goto(p, IF selected = where[p][1] THEN "read" ELSE "set")
        /\ previous' = [previous EXCEPT
                          ![p] = IF selected = where[p][1] THEN "none" ELSE selected]
        /\ UNCHANGED mishaps
     \/ /\ Mishap
        /\ Goto(p, "set") /\ UNCHANGED previous
  /\ UNCHANGED <<slots, unread, selected, where, took, checking, listed, cache, handed, overlap>>

\* AT+CPMS="...": without an OK the message is left alone.  The module may have
\* changed the storage all the same.
SwitchStorage(p) ==
  /\ reader[p] = "set"
  /\ selected' = where[p][1] /\ Goto(p, "read")
  /\ UNCHANGED <<slots, unread, where, previous, took, checking, listed, cache, handed,
                 overlap, mishaps>>

\* Mutant: the message is read although the storage could not be selected.
SwitchFailsUnseen(p) ==
  /\ reader[p] = "set" /\ Mishap
  /\ selected' \in {selected, where[p][1]}
  /\ Goto(p, "read")
  /\ UNCHANGED <<slots, unread, where, previous, took, checking, listed, cache, handed, overlap>>

SwitchFails(p) ==
  /\ reader[p] = "set" /\ Mishap
  /\ selected' \in {selected, where[p][1]}
  /\ Goto(p, "done")
  /\ UNCHANGED <<slots, unread, where, previous, took, checking, listed, cache, handed, overlap>>

\* decodePDU and the callback, if the part completes a text.
HandOver(p) ==
  /\ cache' = Added(cache, p)
  /\ handed' = handed \cup (IF Completes(cache, p) THEN {Full(cache, p)} ELSE {})

\* AT+CMGR: the message at the index in whatever storage is selected now.
ReadMessage(p) ==
  /\ reader[p] = "read"
  /\ LET i == where[p][2]
         q == slots[selected][i]
     IN  IF q = NoPart
         THEN Goto(p, Leaving(p)) /\ UNCHANGED <<unread, took, cache, handed>>
         ELSE /\ unread' = unread \ {<<selected, i>>}
              /\ took' = [took EXCEPT ![p] = q]
              /\ HandOver(q)
              /\ Goto(p, "delete")
  /\ UNCHANGED <<slots, selected, where, previous, checking, listed, overlap, mishaps>>

\* The answer is lost, and with it the message counts as read for the module.
ReadMessageFails(p) ==
  /\ reader[p] = "read" /\ Mishap
  /\ unread' = unread \ {<<selected, where[p][2]>>}
  /\ Goto(p, Leaving(p))
  /\ UNCHANGED <<slots, selected, where, previous, took, checking, listed, cache, handed, overlap>>

\* AT+CMGD, of a part that completes nothing too.  Its answer is not looked at.
DeleteMessage(p) ==
  /\ reader[p] = "delete"
  /\ \/ /\ slots' = [slots EXCEPT ![selected][where[p][2]] = NoPart]
        /\ unread' = unread \ {<<selected, where[p][2]>>}
        /\ UNCHANGED mishaps
     \/ Mishap /\ UNCHANGED <<slots, unread>>
  /\ Goto(p, Leaving(p))
  /\ UNCHANGED <<selected, where, previous, took, checking, listed, cache, handed, overlap>>

RestoreStorage(p) ==
  /\ reader[p] = "restore"
  /\ \/ selected' = previous[p] /\ UNCHANGED mishaps
     \/ Mishap /\ UNCHANGED selected
  /\ Goto(p, "done")
  /\ UNCHANGED <<slots, unread, where, previous, took, checking, listed, cache, handed, overlap>>

\* CheckAllSMS begins: AT+CMGL=0 gives every unread message of the selected storage;
\* without an answer they count as read all the same.
Unread == {i \in 1..Slots : <<selected, i>> \in unread}
ListAll ==
  /\ checking = "idle" /\ Unread # {}
  /\ \/ /\ listed' = [i \in Unread |-> slots[selected][i]]
        /\ checking' = "delete"
        /\ overlap' = (overlap \/ Busy)
        /\ UNCHANGED mishaps
     \/ Mishap /\ UNCHANGED <<checking, listed, overlap>>
  /\ unread' = {at \in unread : at[1] # selected}
  /\ UNCHANGED <<slots, selected, reader, where, previous, took, cache, handed>>

\* The callback for one message after the other, in the order of the indexes.
HandOverListed(i) ==
  /\ i \in DOMAIN listed /\ \A j \in DOMAIN listed : i <= j
  /\ HandOver(listed[i])
  /\ listed' = [j \in DOMAIN listed \ {i} |-> listed[j]]
  /\ UNCHANGED <<slots, unread, selected, reader, where, previous, took, checking, overlap,
                 mishaps>>

\* At the end AT+CMGD=1,4 deletes everything, read or not.
DeleteAll ==
  /\ checking = "delete" /\ DOMAIN listed = {}
  /\ \/ /\ slots' = [slots EXCEPT ![selected] = [i \in 1..Slots |-> NoPart]]
        /\ unread' = {at \in unread : at[1] # selected}
        /\ UNCHANGED mishaps
     \/ Mishap /\ UNCHANGED <<slots, unread>>
  /\ checking' = "idle"
  /\ UNCHANGED <<selected, reader, where, previous, took, listed, cache, handed, overlap>>

\* Every two minutes: parts that waited for ten minutes are given up.
CleanupOldFragments(old) ==
  /\ \A k \in old : cache[k] # <<>>
  /\ Mishap
  /\ cache' = Cleaned(cache, old)
  /\ UNCHANGED <<slots, unread, selected, reader, where, previous, took, checking,
                 listed, handed, overlap>>

StorageNext ==
  \/ \E p \in Arriving :
       \/ \E s \in Storage, i \in 1..Slots, announced \in BOOLEAN :
            Arrive(p, s, i, announced)
       \/ QueryStorage(p) \/ SwitchStorage(p) \/ SwitchFails(p)
       \/ ReadMessage(p) \/ ReadMessageFails(p) \/ DeleteMessage(p) \/ RestoreStorage(p)
  \/ ListAll \/ (\E i \in 1..Slots : HandOverListed(i)) \/ DeleteAll
  \/ \E old \in SUBSET Keys \ {{}} : CleanupOldFragments(old)

StorageSpec == StorageInit /\ [][StorageNext]_storageVars

-----------------------------------------------------------------------------
\* A goroutine that has the module to itself reads no message but the one that
\* was announced, whatever command fails on its way: where the storage cannot be
\* selected it leaves the message alone, as readAndProcessSMSFromStorage says,
\* "to avoid deleting messages of other storages by mistake".  Of two at once
\* this is not true.
QuietReadsOwn == ~overlap => \A p \in Arriving : took[p] \in {NoPart, p}

\* A long message is handed over whole and in order or not at all, although its
\* parts come in any order and one may be read twice.
LongSMSWhole == \A parts \in handed : WholeText(parts)

\* Both, of what is read and of what it is put together to.
SMSWhole == QuietReadsOwn /\ LongSMSWhole
=============================================================================
