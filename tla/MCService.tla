------------------------------ MODULE MCService ------------------------------
(***************************************************************************)
(* Service with two lines, entries with and without a known payer, and      *)
(* bodies that approve, reject, reassign, name a line twice or contradict   *)
(* each other.                                                              *)
(***************************************************************************)
EXTENDS Service, TLC

R(line, action, entries) == [line |-> line, action |-> action, entries |-> entries]

Requests == Permutations(Request)

MCPayer == (11 :> "p") @@ (12 :> "q") @@ (13 :> "none")
MCTop   == (1 :> <<11>>) @@ (2 :> <<>>)

MCResolutions ==
    {{R(1, "approve", <<13, 11>>), R(2, "reassign", <<12>>)},
     {R(1, "approve", <<12>>), R(2, "reject", <<>>)},
     {R(1, "approve", <<11>>), R(1, "reject", <<>>)}}
=============================================================================
