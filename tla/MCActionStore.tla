---------------------------- MODULE MCActionStore ----------------------------
(* Small instances of ActionStore for TLC. *)
EXTENDS ActionStore, TLC

CONSTANTS a1, a2, xau, eur

(* The rows carry different instruments, so that CANCEL_PENDING has a row to spare. *)
MCSymbolOf == (a1 :> xau) @@ (a2 :> eur)

(* A row of any kind, and a signal beside it. *)
MCKinds == (a1 :> Executable) @@ (a2 :> {"OPEN"})
=============================================================================
