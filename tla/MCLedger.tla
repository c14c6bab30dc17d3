------------------------------ MODULE MCLedger ------------------------------
(* Instances of Ledger for TLC. *)
EXTENDS Ledger, TLC

CONSTANTS x, xCsv, xApi, y, fa, fb

\* A booking x, the spellings of a CSV file and of the bank's interface for it,
\* and a booking y that only statements show.
SpelledAlike == ({x, xCsv, xApi} \X {x, xCsv, xApi}) \cup {<<y, y>>}

\* Two statements that overlap: x twice on one day, once spelled differently.
OverlappingLines == fa :> <<x, x>> @@ fb :> <<x, y, xCsv>>

\* Imports and synchronisations are interchangeable.
Interchangeable == Permutations(Imports) \cup Permutations(Syncs)

=============================================================================
