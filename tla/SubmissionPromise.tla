-------------------------- MODULE SubmissionPromise --------------------------
(***************************************************************************)
(* What the submission ledger promises about one employer posting, with no *)
(* calls, leases, permits or transactions: a claim is staked before the    *)
(* Submit button is pressed, no two standing claims are for the same       *)
(* posting, a claim is confirmed only while it stands, and only a human    *)
(* takes a standing claim away.  ApplicationEngine implements this module. *)
(***************************************************************************)
CONSTANT Claim            \* one per execution that may press Submit

VARIABLES posting,        \* posting[i] : what claim i is for; never changes
          staked,         \* claims ever staked
          standing,       \* claims not withdrawn
          pressed,        \* claims whose Submit button was pressed
          confirmed       \* claims with accepted evidence of a submission

promiseVars == <<posting, staked, standing, pressed, confirmed>>

PromiseInit ==
  /\ staked = {}
  /\ standing = {}
  /\ pressed = {}
  /\ confirmed = {}

Stake(i) ==
  /\ i \notin staked
  /\ \A j \in standing : posting[j] # posting[i]
  /\ staked' = staked \cup {i}
  /\ standing' = standing \cup {i}
  /\ UNCHANGED <<posting, pressed, confirmed>>

Press(i) ==
  /\ i \in staked \ pressed
  /\ pressed' = pressed \cup {i}
  /\ UNCHANGED <<posting, staked, standing, confirmed>>

Confirm(i) ==
  /\ i \in standing
  /\ confirmed' = confirmed \cup {i}
  /\ UNCHANGED <<posting, staked, standing, pressed>>

Withdraw(i) ==
  /\ i \in standing \ confirmed
  /\ standing' = standing \ {i}
  /\ UNCHANGED <<posting, staked, pressed, confirmed>>

PromiseNext ==
  \E i \in Claim : Stake(i) \/ Press(i) \/ Confirm(i) \/ Withdraw(i)

PromiseSpec == PromiseInit /\ [][PromiseNext]_promiseVars
=============================================================================
