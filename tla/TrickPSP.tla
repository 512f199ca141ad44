------------------------------- MODULE TrickPSP -------------------------------
(***************************************************************************)
(* The platform support of cFS in a simulation: the boot record and the    *)
(* reserved memory that outlive the process, the request for a shutdown    *)
(* with its signal, and the log of exceptions.  One operator per function, *)
(* or per step of CFE_PSP_Restart, which any thread may call;              *)
(* TrickCFSProcess says who calls what.                                    *)
(***************************************************************************)
CONSTANTS
  CFE_PSP_RST_TYPE_POWERON,    \* reset types: the reserved memory is made anew
  CFE_PSP_RST_TYPE_PROCESSOR   \* ... or it is kept

ResetTypes == {CFE_PSP_RST_TYPE_POWERON, CFE_PSP_RST_TYPE_PROCESSOR}

ASSUME PspAssumption == CFE_PSP_RST_TYPE_POWERON # CFE_PSP_RST_TYPE_PROCESSOR

VARIABLES
  bootRecord,     \* BootPtr: the type of the next reset, and whether it is valid
  reserved,       \* is the reserved memory kept for the next process
  ShutdownReq,    \* CFE_PSP_IdleTaskState.ShutdownReq
  pending,        \* is the event signal pending for the main thread, which blocks it
  setOfSignals,   \* what OS_Application_Cycle looks for
  logged,         \* has an exception been logged in this process
  notified        \* has cFE been told (SystemNotify)

pspVars == <<bootRecord, reserved, ShutdownReq, pending, setOfSignals, logged, notified>>

PspTypeOK ==
  /\ bootRecord \in [NextResetType : ResetTypes, valid : BOOLEAN]
  /\ reserved \in BOOLEAN
  /\ ShutdownReq \in BOOLEAN
  /\ pending \in BOOLEAN
  /\ setOfSignals \in SUBSET {"event"}
  /\ logged \in BOOLEAN
  /\ notified \in BOOLEAN

PspInit ==
  /\ bootRecord = [NextResetType |-> CFE_PSP_RST_TYPE_POWERON, valid |-> FALSE]
  /\ reserved = TRUE
  /\ ShutdownReq = FALSE
  /\ pending = FALSE
  /\ setOfSignals = {}
  /\ logged = FALSE
  /\ notified = FALSE

\* What the next process takes its start to be: memory that has been deleted is
\* made anew, with no boot record.
NextReset ==
  IF reserved /\ bootRecord.valid THEN bootRecord.NextResetType
  ELSE CFE_PSP_RST_TYPE_POWERON

------------------------------------------------------------------------------
\* CFE_PSP_Restart

\* The reserved memory is deleted for a power-on reset.
DeleteProcessorReservedMemory(reset_type) ==
  reserved' = (reserved /\ reset_type # CFE_PSP_RST_TYPE_POWERON)

\* Variant: the record is left invalid.
RecordResetInvalid(reset_type) ==
  bootRecord' = [bootRecord EXCEPT !.NextResetType = reset_type]
\* Record the reset type for the next boot.
RecordReset(reset_type) ==
  bootRecord' = [NextResetType |-> reset_type, valid |-> TRUE]

\* Ask the main thread for an orderly shutdown.
RequestShutdown ==
  /\ ShutdownReq' = TRUE
  /\ pending' = TRUE
  /\ UNCHANGED <<bootRecord, reserved, setOfSignals, logged, notified>>

------------------------------------------------------------------------------
\* The main thread

\* CFE_PSP_AttachExceptions, which attaches no handler, and OS_Application_Run,
\* which does not wait here.
Attach ==
  /\ logged' = FALSE
  /\ setOfSignals' = {"event"}
  /\ UNCHANGED <<bootRecord, reserved, ShutdownReq, pending, notified>>

\* OS_shutdown logs an exception and raises the signal ...
RaiseEvent ==
  /\ logged' = TRUE
  /\ pending' = TRUE
  /\ UNCHANGED <<bootRecord, reserved, ShutdownReq, setOfSignals, notified>>

\* ... which OS_Application_Cycle takes: cFE is told, unless it has asked for the
\* shutdown itself.
OS_Application_Cycle ==
  /\ IF ~ShutdownReq /\ pending /\ "event" \in setOfSignals
     THEN pending' = FALSE /\ notified' = TRUE
     ELSE UNCHANGED <<pending, notified>>
  /\ UNCHANGED <<bootRecord, reserved, ShutdownReq, setOfSignals, logged>>
==============================================================================
