---------------------------- MODULE MCCandidates ----------------------------
(***************************************************************************)
(* Cascade and candidate generation on all combinations of three lines and  *)
(* four entries out of a few records: equal and FX-near amounts (the band   *)
(* of 1000 is 8), parts that add up to a payment exactly and nearly, a      *)
(* credit, dates inside one window, both or none, quoted references, payers *)
(* known or not.                                                            *)
(***************************************************************************)
EXTENDS Candidates, TLC

\* Nothing depends on which entry has which id: ties on ids are left open.
Entries == Permutations(Entry)

B(amount, date, refs, party) ==
    [amount |-> amount, date |-> date, refs |-> refs, party |-> party]
G(amount, date, doc, party, side, open) ==
    [amount |-> amount, date |-> date, doc |-> doc, party |-> party,
     side |-> side, open |-> open]

MCBankLine ==
    {B(1000, 0, {"a"}, "p"), B(1000, 2, {"a", "b"}, "none"), B(1000, 1, {}, "p")}

MCLedgerEntry ==
    {G(1000, 0, "a", "p", "AR", TRUE), G(1008, 7, "b", "p", "AR", TRUE),
     G(1000, 0, "a", "q", "AR", FALSE), G(1000, 2, "b", "p", "AP", TRUE),
     G(400, 1, "c", "p", "AR", TRUE), G(600, 1, "c", "p", "AR", TRUE),
     G(603, 2, "d", "q", "AR", TRUE), G(-3, 2, "d", "q", "AR", TRUE)}
=============================================================================
