---------------------------- MODULE MCStrongPoll ----------------------------
(* Two deployments of one poll, the least for a replay of ballots or of a  *)
(* claim; three voters for two places; a field of four elements in words   *)
(* of twice that size, so that every signal has an alias.                  *)
EXTENDS LocalAdmission

CONSTANTS alice, bob, carol, publisher, mallory, t1

MCConfig(deadline) ==
  [verifier |-> mallory, publisher |-> publisher, tau |-> 1, deadline |-> deadline,
   setupHash |-> t1]

MCConfigs ==
  { MCConfig(2),
    [MCConfig(2) EXCEPT !.verifier = ZeroAddress],
    [MCConfig(2) EXCEPT !.publisher = ZeroAddress],
    [MCConfig(2) EXCEPT !.tau = 2],
    [MCConfig(2) EXCEPT !.setupHash = ZeroHash] }

MCVoters == {alice, bob, carol}
MCNullifierOf ==
  [v \in MCVoters |-> CASE v = alice -> 0 [] v = bob -> 1 [] v = carol -> 2]
=============================================================================
