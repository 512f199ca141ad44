------------------------------ MODULE OSALTasks ------------------------------
(***************************************************************************)
(* The priority OSAL gives the thread of a task: that of the task, spread  *)
(* over the priorities of the scheduler of the operating system.           *)
(***************************************************************************)
EXTENDS Integers

CONSTANTS
  OS_MAX_TASK_PRIORITY,  \* OSAL's least urgent priority (external: 255); 0 is the most urgent
  PriorityMin,           \* the priorities of the operating system, of which the
  PriorityMax            \* greatest is the most urgent

ASSUME TasksAssumption ==
  /\ OS_MAX_TASK_PRIORITY \in Nat /\ OS_MAX_TASK_PRIORITY > 4
  /\ PriorityMin \in Nat
  /\ PriorityMax \in Nat
  /\ PriorityMax - PriorityMin >= 2

OsalPriorities == 0..OS_MAX_TASK_PRIORITY

\* Variant: spread one too far.
SpreadTooFar(InputPri) ==
  (((OS_MAX_TASK_PRIORITY - 1) - InputPri) * (PriorityMax - PriorityMin - 2)
      + OS_MAX_TASK_PRIORITY) \div (OS_MAX_TASK_PRIORITY - 2) + PriorityMin + 1
\* The OSAL priorities between the extremes are spread over those between theirs.
Spread(InputPri) ==
  (((OS_MAX_TASK_PRIORITY - 1) - InputPri) * (PriorityMax - PriorityMin - 2)
      + OS_MAX_TASK_PRIORITY \div 2) \div (OS_MAX_TASK_PRIORITY - 2) + PriorityMin + 1

OS_PriorityRemap(InputPri) ==
  IF InputPri = 0 THEN PriorityMax
  ELSE IF InputPri >= OS_MAX_TASK_PRIORITY THEN PriorityMin
  ELSE Spread(InputPri)

\* Tasks keep their order when their priorities are mapped to those of the
\* operating system, none leaves its range, and the greatest is for OSAL's most
\* urgent priority alone.
PrioritiesOrdered ==
  \A pri, other \in OsalPriorities :
    /\ OS_PriorityRemap(pri) \in PriorityMin..PriorityMax
    /\ pri <= other => OS_PriorityRemap(pri) >= OS_PriorityRemap(other)
    /\ OS_PriorityRemap(pri) = PriorityMax => pri = 0
    /\ OS_PriorityRemap(pri) = PriorityMin => pri = OS_MAX_TASK_PRIORITY
==============================================================================
