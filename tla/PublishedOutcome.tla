-------------------------- MODULE PublishedOutcome --------------------------
(***************************************************************************)
(* What a public run promises about its outcome, without files, hashes,    *)
(* processes or transactions.  An outcome is claimed on chain (by the runs *)
(* that use the chain), then attested by the run's manifest, then          *)
(* confirmed by whoever replays the run.  Each is said once and never      *)
(* taken back, none comes before the one before it, and all of them name   *)
(* the same outcome.                                                       *)
(***************************************************************************)
CONSTANTS Runs, Outcomes, Nothing

VARIABLES
  onChain,    \* the runs that claim on chain
  claimed,    \* the outcome claimed for each run
  attested,   \* the outcome its manifest states
  confirmed   \* the outcome its replay found

ovars == <<onChain, claimed, attested, confirmed>>

OInit ==
  /\ onChain \in SUBSET Runs
  /\ claimed = [r \in Runs |-> Nothing]
  /\ attested = [r \in Runs |-> Nothing]
  /\ confirmed = [r \in Runs |-> Nothing]

Claim(r) ==
  /\ r \in onChain
  /\ claimed[r] = Nothing
  /\ claimed'[r] \in Outcomes
  /\ \A s \in Runs \ {r} : claimed'[s] = claimed[s]
  /\ UNCHANGED <<onChain, attested, confirmed>>

Attest(r) ==
  /\ attested[r] = Nothing
  /\ attested'[r] \in IF r \in onChain THEN {claimed[r]} \ {Nothing} ELSE Outcomes
  /\ \A s \in Runs \ {r} : attested'[s] = attested[s]
  /\ UNCHANGED <<onChain, claimed, confirmed>>

Confirm(r) ==
  /\ attested[r] # Nothing
  /\ confirmed[r] = Nothing
  /\ confirmed' = [confirmed EXCEPT ![r] = attested[r]]
  /\ UNCHANGED <<onChain, claimed, attested>>

ONext == \E r \in Runs : Claim(r) \/ Attest(r) \/ Confirm(r)

OSpec == OInit /\ [][ONext]_ovars
=============================================================================
