------------------------------ MODULE MCDevice ------------------------------
(***************************************************************************)
(* The ways to a modem, checked beside each other: the AT manager and what *)
(* it does with incoming messages, the MBIM endpoint, USSD over QMI, the   *)
(* backends as providers, and the readings of the QMI backend.  An initial *)
(* state picks the one that runs, and the others keep their initial state. *)
(***************************************************************************)
EXTENDS Integers, Sequences, ATManager, MBIMDevice, QMIUSSD, SMSStorage, Backends, QMIReads,
  TLC

CONSTANTS n1, n2, b1, b2

VARIABLE part

\* A long message of two parts.
MCTexts == {[text |-> "long", total |-> 2, key |-> "a"]}

\* A network is chosen by itself, by a code of two or three digits, by a technology that
\* nobody knows, and with an explicit "no" to the third digit.
Code(mcc, mnc, n) == [mcc |-> mcc, mnc |-> mnc, digits |-> n]
Manual(code, tech, third) == [mode |-> "manual", plmn |-> code, rat |-> tech, pcs |-> third]
MCRequested ==
  {[mode |-> "automatic"], Manual(Code(460, 1, 2), "6g", "unset"),
   Manual(Code(310, 4, 3), "lte", "unset"), Manual(Code(310, 4, 3), "", "no")}

\* Registered or not, in a network or in none.
MCNetwork == [reg : {"registered", "not registered"}, mcc : {0, 1}]

Init ==
  /\ part \in {"at", "mbim", "ussd", "storage", "backends", "reads"}
  /\ ATInit /\ MBIMInit /\ USSDInit /\ StorageInit /\ BackendInit /\ ReadInit
  /\ part # "ussd" => domain.service = "CSPS"
  /\ part # "backends" => backend = "at" /\ service = "selection"
  /\ part # "reads" => reading = "serving" /\ net.reg = "registered" /\ net.mcc = 0

ATPart ==
  /\ part = "at" /\ ATNext
  /\ UNCHANGED <<part, mbimVars, ussdVars, storageVars, backendVars, readVars>>
MBIMPart ==
  /\ part = "mbim" /\ MBIMNext
  /\ UNCHANGED <<part, atVars, ussdVars, storageVars, backendVars, readVars>>
USSDPart ==
  /\ part = "ussd" /\ USSDNext
  /\ UNCHANGED <<part, atVars, mbimVars, storageVars, backendVars, readVars>>
StoragePart ==
  /\ part = "storage" /\ StorageNext
  /\ UNCHANGED <<part, atVars, mbimVars, ussdVars, backendVars, readVars>>
BackendPart ==
  /\ part = "backends" /\ BackendNext
  /\ UNCHANGED <<part, atVars, mbimVars, ussdVars, storageVars, readVars>>
ReadPart ==
  /\ part = "reads" /\ ReadNext
  /\ UNCHANGED <<part, atVars, mbimVars, ussdVars, storageVars, backendVars>>

Next == ATPart \/ MBIMPart \/ USSDPart \/ StoragePart \/ BackendPart \/ ReadPart

Spec ==
  Init /\ [][Next]_<<part, atVars, mbimVars, ussdVars, storageVars, backendVars, readVars>>

Callers == Permutations({n1, n2}) \cup Permutations({b1, b2})
=============================================================================
