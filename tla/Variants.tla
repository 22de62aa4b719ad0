------------------------------ MODULE Variants ------------------------------
(***************************************************************************)
(* The DAP wire dialects a task may speak and the report errors a Helper   *)
(* may answer with.  A variant fixes two independent things: the shape of  *)
(* the messages (Janus against the published drafts) and the version-bound *)
(* values (the version string, the ReportError registry, the lower bound   *)
(* on task_info).                                                          *)
(***************************************************************************)
EXTENDS Naturals

Variants == {"Draft18", "Janus", "Draft19", "Draft20"}

VersionString(v) ==
    CASE v = "Draft19" -> "dap-19"
      [] v = "Draft20" -> "dap-20"
      [] OTHER         -> "dap-18"

draft19Values(v) == v \in {"Draft19", "Draft20"}

\* The message shape: every codec branches on the Janus variant alone.
Shape(v) == IF v = "Janus" THEN "janus" ELSE "published"

-----------------------------------------------------------------------------
(* The ReportError registry.  The identities are the Go constants, the code *)
(* points are what each draft writes on the wire for them.                  *)

ReportErrors ==
    {"Reserved", "BatchCollected", "ReportReplayed", "ReportDropped",
     "HpkeUnknownConfigID", "HpkeDecryptError", "VdafVerifyError",
     "TaskExpired", "InvalidMessage", "ReportTooEarly", "TaskNotStarted",
     "OutdatedConfig", "UnknownVerificationKeyID", "UnsupportedExtension"}

reportError18 ==
    [Reserved |-> 0, BatchCollected |-> 1, ReportReplayed |-> 2,
     ReportDropped |-> 3, HpkeUnknownConfigID |-> 4, HpkeDecryptError |-> 5,
     VdafVerifyError |-> 6, TaskExpired |-> 7, InvalidMessage |-> 8,
     ReportTooEarly |-> 9, TaskNotStarted |-> 10, OutdatedConfig |-> 11]

\* Renumbered by hand: one code point is left as it was in draft-18.
reportError19_Collides ==
    [Reserved |-> 0, BatchCollected |-> 1, ReportReplayed |-> 2,
     ReportDropped |-> 3, HpkeUnknownConfigID |-> 4, HpkeDecryptError |-> 5,
     VdafVerifyError |-> 6, InvalidMessage |-> 8, ReportTooEarly |-> 8,
     UnknownVerificationKeyID |-> 9, UnsupportedExtension |-> 10]

reportError19 ==
    [Reserved |-> 0, BatchCollected |-> 1, ReportReplayed |-> 2,
     ReportDropped |-> 3, HpkeUnknownConfigID |-> 4, HpkeDecryptError |-> 5,
     VdafVerifyError |-> 6, InvalidMessage |-> 7, ReportTooEarly |-> 8,
     UnknownVerificationKeyID |-> 9, UnsupportedExtension |-> 10]

\* The registry of draft-18 whatever the dialect.
reportErrorTable_18Only(v) == reportError18

reportErrorTable(v) ==
    IF draft19Values(v) THEN reportError19 ELSE reportError18

\* Marshalling a VerifyResp fails for an error outside the variant's registry.
HasCodePoint(e, v) == e \in DOMAIN reportErrorTable(v)

ReportErrorToWire(e, v) == reportErrorTable(v)[e]

\* The identities the peer's decoder may return for byte b; none: b is refused.
ReportErrorFromWire(b, v) ==
    {e \in DOMAIN reportErrorTable(v) : reportErrorTable(v)[e] = b}
=============================================================================
