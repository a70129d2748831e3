--------------------------- MODULE MCContactStore ---------------------------
(* Small instances of the contact store. *)
EXTENDS ContactStore

CONSTANTS t1, t2

MCTexts == {t1, t2}

(* Strings are only compared for equality. *)
TextSymmetry == Permutations(MCTexts)

=============================================================================
