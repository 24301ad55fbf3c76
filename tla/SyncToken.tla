------------------------------ MODULE SyncToken ------------------------------
(***************************************************************************)
(* syncsvc/token.go.  Sync, Up Next and history stamp their writes with    *)
(* the wall clock in milliseconds, but always past the previous token of   *)
(* the account, so tokens grow when the clock stands still or runs back.   *)
(***************************************************************************)
EXTENDS Naturals

NextTokenUnguarded(prev, now) == IF now < prev THEN prev + 1 ELSE now  \* mutant: now = prev
NextToken(prev, now) == IF now <= prev THEN prev + 1 ELSE now
=============================================================================
