----------------------------- MODULE MCHistoryDb ----------------------------
(***************************************************************************)
(* An instance of HistoryDb: requests that meet before, during and after   *)
(* the migration of a new file.                                            *)
(***************************************************************************)
EXTENDS HistoryDb

\* Two migrations, one of them with more than one statement.
MCMigrations == <<2, 1>>
=============================================================================
