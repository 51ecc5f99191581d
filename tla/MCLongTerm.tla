----------------------------- MODULE MCLongTerm -----------------------------
EXTENDS LongTerm

Two == <<[base |-> 0, size |-> 1], [base |-> 1, size |-> 2]>>
Dynamic == {"DINAMICAS"}
First == {"FIRST"}
OneOrTwo == {1, 2}
=============================================================================
