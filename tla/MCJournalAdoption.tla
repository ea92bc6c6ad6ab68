------------------------- MODULE MCJournalAdoption --------------------------
(* Instance of JournalAdoption for TLC.                                    *)
EXTENDS JournalAdoption, MCRequestDedup
=============================================================================
