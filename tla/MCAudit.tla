------------------------------ MODULE MCAudit ------------------------------
(* A finite instance of the audit log: lines shorter than the buffer, just *)
(* as long and longer.                                                     *)
EXTENDS AuditLog

MCSizes == {1, 2}
=============================================================================
