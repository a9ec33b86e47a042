----------------------------- MODULE LeaseTable -----------------------------
(***************************************************************************)
(* What the lease table of core/leases.py promises to the rest of the      *)
(* program, without clocks, transactions or heartbeats: every resource has *)
(* at most one holder, a holder loses the resource only by giving it up or *)
(* after its validity has lapsed, and a holder whose validity has lapsed   *)
(* may get it back only while nobody has replaced it.                      *)
(*                                                                         *)
(* Leases implements this module; ApplicationEngine is built on it.        *)
(***************************************************************************)
CONSTANTS Resource,   \* "run:<id>" and "browser-profile:<name>" keys
          Holder,     \* lease tokens: one per successful acquisition
          None        \* no row in the table

VARIABLES holder,     \* holder[r] : the token in r's row, or None
          lapsed      \* resources whose row has outlived its expiry

tableVars == <<holder, lapsed>>

LeaseTableTypeOK ==
  /\ holder \in [Resource -> Holder \cup {None}]
  /\ lapsed \subseteq {r \in Resource : holder[r] # None}

LeaseTableInit ==
  /\ holder = [r \in Resource |-> None]
  /\ lapsed = {}

Free(r) == holder[r] = None \/ r \in lapsed

HeldBy(r, h) == holder[r] = h /\ r \notin lapsed

(* A new token replaces nothing, or a row that has lapsed.  The new row    *)
(* may be born lapsed: its expiry is computed from a clock read earlier.   *)
Grant(r, h) ==
  /\ Free(r)
  /\ holder[r] # h
  /\ holder' = [holder EXCEPT ![r] = h]
  /\ lapsed' \in {lapsed \ {r}, lapsed \cup {r}}

(* The holder renews: the row keeps its token and may be valid again.      *)
Extend(r) ==
  /\ holder[r] # None
  /\ lapsed' = lapsed \ {r}
  /\ UNCHANGED holder

(* Time passes for some of the rows.                                       *)
Lapse(S) ==
  /\ S \subseteq {r \in Resource : holder[r] # None}
  /\ lapsed' = lapsed \cup S
  /\ UNCHANGED holder

(* The holder gives the resource up, expired or not.                       *)
Vacate(r) ==
  /\ holder[r] # None
  /\ holder' = [holder EXCEPT ![r] = None]
  /\ lapsed' = lapsed \ {r}

(* Expired rows are swept away.                                            *)
Sweep(S) ==
  /\ S \subseteq lapsed
  /\ holder' = [r \in Resource |-> IF r \in S THEN None ELSE holder[r]]
  /\ lapsed' = lapsed \ S

LeaseTableNext ==
  \/ \E r \in Resource :
       \/ \E h \in Holder : Grant(r, h)
       \/ Extend(r)
       \/ Vacate(r)
  \/ \E S \in SUBSET Resource : Lapse(S) \/ Sweep(S)

LeaseTableSpec == LeaseTableInit /\ [][LeaseTableNext]_tableVars
=============================================================================
