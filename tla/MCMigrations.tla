---------------------------- MODULE MCMigrations ----------------------------
(* The instance of Migrations for TLC.                                     *)
EXTENDS Migrations

\* The three scripts of MIGRATIONS and their statements.
MCLength == <<7, 8, 2>>
=============================================================================
