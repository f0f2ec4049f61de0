------------------------------ MODULE MCIngest ------------------------------
(***************************************************************************)
(* Ingest on a month, its repetition, a newer export of the same ledger     *)
(* with another status, spelling and order, a file with a row twice, and a  *)
(* directory whose second file does not parse.                              *)
(***************************************************************************)
EXTENDS Ingest, TLC

MCFold == ("Rent" :> "RENT") @@ ("rent" :> "RENT") @@ ("Fee" :> "FEE")

R(ref, text, status) ==
    [ref |-> ref, what |-> "100 on the 1st", text |-> text, status |-> status,
     wellFormed |-> TRUE]
Malformed == [R("T-9", "Fee", "booked") EXCEPT !.wellFormed = FALSE]
F(kind, rs) == [kind |-> kind, rows |-> rs]

June      == F("ledger", <<R("INV-1", "Rent", "open"), R("INV-2", "Fee", "open")>>)
Exported  == F("ledger", <<R("INV-2", "Fee", "closed"), R("INV-1", "rent", "open")>>)
Statement == F("bank", <<R("T-1", "Rent", "booked"), R("T-1", "rent", "booked")>>)
Broken    == F("bank", <<R("T-2", "Fee", "booked"), Malformed>>)

MCDirectory == {<<June, Statement>>, <<Exported, Statement>>, <<June, Broken>>,
                <<June, Statement, Exported, Broken>>}
=============================================================================
