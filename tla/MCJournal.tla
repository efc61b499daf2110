----------------------------- MODULE MCJournal ------------------------------
(***************************************************************************)
(* A job of two chunks.                                                    *)
(***************************************************************************)
EXTENDS Journal

CONSTANTS a, b

MCSource == <<a, b>>
=============================================================================
