------------------------------ MODULE WriteOnce ------------------------------
(***************************************************************************)
(* What an immutable record repository promises about one record id.  A    *)
(* content is offered first and settled later.  Once settled it is the     *)
(* content for ever, and only then is anybody told it was created.  While  *)
(* it is only offered a reader is told of it already, and it may yet be    *)
(* withdrawn.  RecordStore implements this module.                         *)
(***************************************************************************)
CONSTANTS Content, None

VARIABLES value,      \* the content that can be read, or None
          settled,    \* it is there for good
          told,       \* contents some caller was told are there
          firm        \* contents some caller was told are created

onceVars == <<value, settled, told, firm>>

OnceInit == value = None /\ settled = FALSE /\ told = {} /\ firm = {}

Offer(v) ==
  /\ value = None
  /\ value' = v
  /\ UNCHANGED <<settled, told, firm>>

Offered == value # None /\ ~settled

\* The writer is told; or it has died, and nobody is.
Settle ==
  /\ Offered
  /\ settled' = TRUE
  /\ \/ told' = told \cup {value} /\ firm' = firm \cup {value}
     \/ UNCHANGED <<told, firm>>
  /\ UNCHANGED value

Withdraw ==
  /\ Offered
  /\ value' = None
  /\ UNCHANGED <<settled, told, firm>>

Tell ==
  /\ value # None
  /\ told' = told \cup {value}
  /\ UNCHANGED <<value, settled, firm>>

OnceNext == Settle \/ Withdraw \/ Tell \/ \E v \in Content : Offer(v)

OnceSpec == OnceInit /\ [][OnceNext]_onceVars
=============================================================================
