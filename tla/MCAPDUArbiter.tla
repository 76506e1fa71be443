--------------------------- MODULE MCAPDUArbiter ---------------------------
(***************************************************************************)
(* Instances of APDUArbiter: one client per kind of call site.             *)
(***************************************************************************)
EXTENDS APDUArbiter

CONSTANTS s1, s2, o1, aka, exc, qa, qb, qc, b1, w1

Raw(type, mode, class, channel, scope, blocked) ==
  [ leaseType |-> type, mode |-> mode, class |-> class, channel |-> channel,
    scope |-> scope, blocked |-> blocked ]

\* What each client passes.  qa, qb and qc are QMI APDUs on logical channels,
\* two of them on the same one; aka is an authentication on the basic channel
\* that asks for the shared scope and does not get it; exc is a write over AT,
\* b1 a profile switch.
RequestOf(c) ==
  CASE c \in {s1, s2} -> Raw("session", "AT", "", 0, "", {})
    [] c = o1         -> Raw("oneshot", "AT", "", 0, "", {})
    [] c = aka        -> Raw("transport", "QMI", "USIMAKA", 0, "qmi_channel", {})
    [] c = exc        -> Raw("transport", "AT", "", 1, "", {})
    [] c = qa         -> Raw("transport", "QMI", "EUICCWrite", 1, "qmi_channel", {})
    [] c = qb         -> Raw("transport", "QMI", "EUICCRead", 2, "qmi_channel", {})
    [] c = qc         -> Raw("transport", "QMI", "EUICCWrite", 2, "qmi_channel", {})
    [] c = b1         -> Raw("barrier", "QMI", "", 0, "", {})

MCRawRequest == [c \in Client |-> RequestOf(c)]
============================================================================
