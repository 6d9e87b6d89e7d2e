--------------------------- MODULE AtLeastOnceLog ---------------------------
(***************************************************************************)
(* What the gateway promises with a WAL: a log that secures records, keeps *)
(* every record it secured, acknowledges only secured ones, and delivers   *)
(* them to the archive at least once.  Nothing is ever forgotten, so a     *)
(* crash is not even visible here.                                         *)
(***************************************************************************)
CONSTANT Records

VARIABLES safe,      \* records that a crash cannot lose
          archived,  \* records in the archive
          acked      \* records acknowledged to their client

lvars == <<safe, archived, acked>>

LInit == safe = {} /\ archived = {} /\ acked = {}

\* Records reach stable storage, or the archive, or both.
Secure(S) == safe' = safe \cup S /\ UNCHANGED <<archived, acked>>

Archive(S) ==
  /\ safe' = safe \cup S
  /\ archived' = archived \cup S
  /\ UNCHANGED acked

Acknowledge(S) ==
  /\ S \subseteq safe
  /\ acked' = acked \cup S
  /\ UNCHANGED <<safe, archived>>

LNext == \E S \in SUBSET Records : Secure(S) \/ Archive(S) \/ Acknowledge(S)

LSpec == LInit /\ [][LNext]_lvars
=============================================================================
