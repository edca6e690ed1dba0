----------------------------- MODULE BallotBox ------------------------------
(***************************************************************************)
(* What an on-chain poll promises, without nullifiers, proofs or hashes: a *)
(* box is opened with a closing time, takes at most one ballot of a voter  *)
(* before it, up to its size, and either declares one outcome about        *)
(* exactly the ballots it holds, once full, or expires.                    *)
(***************************************************************************)
EXTENDS Integers, Sequences, FiniteSets

CONSTANTS Boxes, Voters, Ballots, Size, LastTime

VARIABLES
  now,      \* the current time
  closing,  \* closing time of every box, 0 while it is not open
  cast,     \* the ballots each box holds, in order, with who cast them
  expired,  \* the boxes given up
  declared  \* per box, the set of outcomes declared about its ballots

bvars == <<now, closing, cast, expired, declared>>

BInit ==
  /\ now = 0
  /\ closing = [p \in Boxes |-> 0]
  /\ cast = [p \in Boxes |-> <<>>]
  /\ expired = {}
  /\ declared = [p \in Boxes |-> {}]

HasVoted(p, v) == \E i \in DOMAIN cast[p] : cast[p][i].voter = v

TimePasses ==
  /\ now' \in (now + 1)..LastTime
  /\ UNCHANGED <<closing, cast, expired, declared>>

Open(p) ==
  /\ closing[p] = 0
  /\ closing'[p] > now
  /\ closing' = [closing EXCEPT ![p] = closing'[p]]
  /\ UNCHANGED <<now, cast, expired, declared>>

Cast(p, v, b) ==
  /\ now < closing[p]
  /\ p \notin expired
  /\ Len(cast[p]) < Size
  /\ ~HasVoted(p, v)
  /\ cast' = [cast EXCEPT ![p] = Append(@, [voter |-> v, ballot |-> b])]
  /\ UNCHANGED <<now, closing, expired, declared>>

Expire(p) ==
  /\ closing[p] # 0
  /\ closing[p] <= now
  /\ Len(cast[p]) < Size
  /\ expired' = expired \cup {p}
  /\ UNCHANGED <<now, closing, cast, declared>>

Declare(p, b) ==
  /\ Len(cast[p]) = Size
  /\ declared[p] = {}
  /\ declared' = [declared EXCEPT ![p] = {[outcome |-> b, ballots |-> cast[p]]}]
  /\ UNCHANGED <<now, closing, cast, expired>>

BNext ==
  \/ TimePasses
  \/ \E p \in Boxes : Open(p)
  \/ \E p \in Boxes, v \in Voters, b \in Ballots : Cast(p, v, b)
  \/ \E p \in Boxes : Expire(p)
  \/ \E p \in Boxes, b \in {0, 1} : Declare(p, b)

BSpec == BInit /\ [][BNext]_bvars
=============================================================================
