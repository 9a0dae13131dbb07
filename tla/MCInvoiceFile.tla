--------------------------- MODULE MCInvoiceFile ---------------------------
(* Values of InvoiceFile's constants for model checking.                   *)
EXTENDS InvoiceFile, TLC

CONSTANTS r1, r2, r3

\* The PDF of the second version of a row is shorter than that of the first.
MCLengths == <<2, 1>>

MCSymmetry == Permutations({r1, r2, r3})
=============================================================================
