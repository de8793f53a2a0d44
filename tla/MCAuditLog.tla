----------------------------- MODULE MCAuditLog -----------------------------
(* Small instances of AuditLog: a file of more than two bytes is rotated, so
   that four calls with lines of two or three bytes rotate up to twice; and sets of
   faults that are as large as each of the properties allows. *)
EXTENDS AuditLog

MCLineSize == [c \in Calls |-> IF c = 2 THEN 3 ELSE 2]

MCFaultSets ==
  {{"rename", "truncate", "sync"},
   {"rename", "copy", "truncate", "reopen", "write", "sync"},
   {"power", "reopen", "write"},
   {"fast", "rename"}}

MCFast == {{"fast"}}
MCCopyFails == {{"rename", "copy"}}
=============================================================================
