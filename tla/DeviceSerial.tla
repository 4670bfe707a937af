---------------------------- MODULE DeviceSerial ----------------------------
(* Device implements SerialWorkflows.                                      *)
EXTENDS Device

Workflows == {o \in Ops : Workflow(o)}

Savers == {o \in Workflows : KindOf[o] = "save" \/ Persistence = "after_each_write"}

HostOfWorkflow == [o \in Workflows |-> Host(o)]

Status(at) ==
    CASE at \in {"idle", "lock"} -> "waiting"
      [] at \in LockedPcs -> "active"
      [] at = "ok" -> "succeeded"
      [] OTHER -> "failed"

WorkflowStatus == [o \in Workflows |-> Status(pc[o])]

Serial == INSTANCE SerialWorkflows WITH
    HostOf <- HostOfWorkflow,
    status <- WorkflowStatus,
    disturbed <- disturbances # 0

\* Every behaviour of the gates, the callback bookkeeping and the save sequence
\* is a behaviour of serial workflows (Device.Update, Device.Save).
SerialSpec == Serial!Spec
=============================================================================
