-------------------------- MODULE MCBankConnection --------------------------
(* Instances of BankConnection for TLC. *)
EXTENDS BankConnection, TLC

\* Connections and authorisations are interchangeable.
Interchangeable == Permutations(Conns) \cup Permutations(Flows)

=============================================================================
