-------------------------- MODULE MCBroadcastBoard --------------------------
(* A small board: three trustees, the third of which may equivocate, one   *)
(* session with a commit phase, a reveal phase that depends on it and a    *)
(* third one, and the malformed definitions a caller can pass.             *)
EXTENDS BoardTranscript

CONSTANTS commit, reveal, partial, p1, p2

MCPhaseNames == {commit, reveal, partial}
MCPayloads == {p1, p2}

Def(name, after, required) ==
  [session |-> 1, phase |-> name, dependsOn |-> after, required |-> required]

MCDefinitions ==
  { Def(commit, NoPhase, <<1, 2, 3>>),
    Def(reveal, commit, <<1, 2>>),
    Def(partial, reveal, <<3>>),
    Def(partial, partial, <<1>>),        \* depends on itself
    Def(commit, NoPhase, <<2, 1>>),      \* not ascending
    Def(reveal, NoPhase, <<>>) }         \* nobody required

MCSigns ==
  [t \in TrusteeSet |-> [k \in Keys |->
     IF t = 3 THEN MCPayloads ELSE IF k[2] = commit THEN {p1} ELSE {p2}]]

MCSessionOrder == <<1>>
MCNameOrder == <<commit, reveal, partial>>
\* Two names like "AB" and "A_B": localeCompare sorts "_" before the letters,
\* "<" after the upper-case ones.
MCLocaleOrder == <<reveal, commit, partial>>

=============================================================================
