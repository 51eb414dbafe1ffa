----------------------- MODULE MCOperationTransaction -----------------------
(***************************************************************************)
(* OperationTransaction for TLC: the system calls that may fail, as sets   *)
(* a configuration chooses from.                                           *)
(***************************************************************************)
EXTENDS OperationTransaction

Global == {"create", "append", "verify", "receipt", "receipt_discard", "receipt_sync",
           "drop_receipt", "remove_journal", "open"}
Local  == {"stage", "undo", "clean", "check", "mutate", "sync", "classify", "restore", "keep"}

NoCalls  == {}
AllCalls == (Global \X {0}) \cup (Local \X Path)

\* The failures the code does not handle as it says, each alone.
FirstCheck    == {<<"check", 1>>}
LaterMutation == {<<"mutate", p>> : p \in 2..N}
LaterUndo     == {<<"undo", p>> : p \in 2..N}
ReceiptCalls  == {<<"receipt_sync", 0>>, <<"receipt_discard", 0>>}
ReceiptSync   == {<<"receipt_sync", 0>>}

\* A later staging job that fails and cannot clean up, beside an earlier one
\* that fails and can.
DirtyJob == ({"stage"} \X Path) \cup LaterUndo

\* Every other system call may fail.
HandledCalls ==
  AllCalls \ (FirstCheck \cup LaterMutation \cup LaterUndo \cup ReceiptCalls)
=============================================================================
