----------------------------- MODULE FlowLedger -----------------------------
(***************************************************************************)
(* What flow accounting promises of the numbers it writes, whatever races  *)
(* there are: a packet is handled once, is held in the table at most once, *)
(* and is written to the report at most once, out of the table.  Packets   *)
(* may be lost on the way; none is made up and none is reported twice.     *)
(***************************************************************************)
EXTENDS Naturals

VARIABLES handled, stored, reported

ledger == <<handled, stored, reported>>

LedgerInit == handled = 0 /\ stored = 0 /\ reported = 0

(* The program handles a packet.  It may be added to the table, or not, or *)
(* replace counts that are there.                                          *)
Handle ==
  /\ handled' = handled + 1
  /\ stored' \in 0..(stored + 1)
  /\ UNCHANGED reported

(* User space moves counts from the table to the report. *)
Report ==
  /\ \E n \in 0..stored : stored' = stored - n /\ reported' = reported + n
  /\ UNCHANGED handled

LedgerNext == Handle \/ Report

LedgerSpec == LedgerInit /\ [][LedgerNext]_ledger

(* No more is stored and reported than was handled. *)
Conserved == stored + reported <= handled
=============================================================================
