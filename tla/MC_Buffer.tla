----------------------------- MODULE MC_Buffer -----------------------------
(***************************************************************************)
(* Bytes a, CR and LF, so that lines form and CR or LF can stand alone; a *)
(* vector of one reserved and two initial slots and an extrabuf of two,   *)
(* so that appends of up to two bytes, and reads of up to four, take each *)
(* branch of makeSpace and of readFd within six bytes in all.             *)
(***************************************************************************)
EXTENDS Buffer

CONSTANTS a, cr, lf, nul

MC_Byte == {a, cr, lf}
=============================================================================
